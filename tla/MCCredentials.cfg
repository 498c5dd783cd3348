CONSTANTS
  Users = {u1}
  Requests = {r1}
  Holders = {q1, q2}
  Kinds = {"submit", "approve"}
  Manifests = {}
  Amounts = {0}
  Levels = {3}
  Keys = {k1}
  Points = {p1, p2}
  p1 = p1
  PointOf <- OnePoint
  SqlSchema = FALSE
  Nullifiers = {n1}
  Purposes = {"asset_create"}
  MaxCreds = 2
  None = None
SPECIFICATION Spec
SYMMETRY Symmetry
INVARIANTS
  TypeOK
  NullifierOnce
  AcceptanceIsEarned
