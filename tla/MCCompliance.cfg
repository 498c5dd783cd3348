CONSTANTS
  Users = {u1}
  u1 = u1
  Requests = {r1, r2}
  Kinds = {"submit", "approve", "check", "screening", "periodic"}
  Manifests <- TwoManifests
  Amounts = {10}
  Levels = {3}
  SqlSchema = FALSE
  None = None
SPECIFICATION CompSpec
SYMMETRY Symmetry
INVARIANTS
  GateNeedsApproval
  DecisionsLogged
PROPERTIES
  ListedAreStopped
