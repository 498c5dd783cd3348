CONSTANTS
  Users = {u1}
  u1 = u1
  Requests = {r1, r2}
  Kinds = {"submit", "approve", "check"}
  Manifests <- TwoManifests
  Amounts = {10}
  Levels = {2, 3}
  SqlSchema = TRUE
  None = None
SPECIFICATION CompSpec
SYMMETRY Symmetry
INVARIANTS
  CriticalIsReported
