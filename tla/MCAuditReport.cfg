SPECIFICATION ASpec
CONSTANTS
  bank = bank
  reg = reg
  other = other
  Assets = {a1, a2}
  TxIds = {x1, x2, x3, x4}
  Clients = {bank, reg, other}
  MspOf <- MCMspOf
  Owners = {buyer}
  Amounts <- MCAmounts
  MicaThreshold = 2
  Refs = {goodRef, badRef}
  ValidRefs = {goodRef}
  Texts = {txt}
  Jobs = {j1, j2}
  Auditors = {u1}
  MaxSecond = 1
  NoFile = NoFile
  Empty = Empty
  NoAsset = NoAsset
SYMMETRY Symmetry
INVARIANTS
  CustodyChain
  FreezeDiscipline
  TrailsAreTheLog
  ReportsAreConsistent
  NoFalseAlarm
PROPERTIES
  ImmutableHistory
CHECK_DEADLOCK FALSE
