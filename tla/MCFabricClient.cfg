SPECIFICATION FairSpec
CONSTANTS
  bank = bank
  reg = reg
  a1 = a1
  buyer = buyer
  goodRef = goodRef
  txt = txt
  Assets = {a1}
  TxIds = {x1, x2, x3, x4}
  Clients = {bank, reg}
  MspOf <- MCMspOf
  Owners = {buyer}
  Amounts <- MCAmounts
  MicaThreshold = 2
  Refs = {goodRef}
  ValidRefs = {goodRef}
  Texts = {txt}
  Empty = Empty
  NoAsset = NoAsset
  Calls = {k1, k2}
  Requests <- MCRequests
  MaxAttempts = 2
  CbThreshold = 2
  CbTimeout = 1
  MaxTime = 2
  NoTx = NoTx
INVARIANTS
  TypeOK
  AnswersAreTruthful
  RetryCommitsOnce
  CircuitMatchesCount
PROPERTIES
  Serializable
  CircuitTransitions
  EveryCallAnswers
CHECK_DEADLOCK FALSE
