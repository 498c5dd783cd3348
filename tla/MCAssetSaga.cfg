SPECIFICATION Spec
CONSTANTS
  bank = bank
  reg = reg
  a1 = a1
  alice = alice
  bob = bob
  stranger = stranger
  num = num
  note = note
  comp = comp
  p1 = p1
  p3 = p3
  goodRef = goodRef
  sagaComp = sagaComp
  Assets = {a1}
  TxIds = {x1, x2, x3, x4, x5}
  Clients = {bank, reg}
  MspOf <- MCMspOf
  Owners = {alice, bob, stranger}
  Amounts <- MCAmounts
  MicaThreshold = 2
  Refs = {goodRef, sagaComp}
  ValidRefs = {goodRef}
  Texts = {num, note, comp, p1, p3}
  Empty = Empty
  NoAsset = NoAsset
  Reqs = {q1, q2, q3}
  Users = {alice, bob}
  IssuerUser = alice
  NumOf <- MCNumOf
  StrOf <- MCStrOf
  CompText = comp
  CompRef = sagaComp
  Requests <- AllRequests
  Payloads = {"full", "partial", "none"}
  DbFails <- AllKinds
  LoseReplies = TRUE
  NoRow = NoRow
SYMMETRY Symmetry
INVARIANTS
  TypeOK
  NoPhantomRows
  DivergenceIsExplained
CHECK_DEADLOCK FALSE
