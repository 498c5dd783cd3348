SPECIFICATION Spec
CONSTANTS
  Tasks = {t1, t2}
  Auditors = {au1, au2, au3}
  VoteIds = {v1, v2, v3}
  Salts = {s1}
  MaxTallies = 2
  NoVote = NoVote
SYMMETRY Symmetry
INVARIANTS
  VerdictMatchesDecision
  SupermajorityDecides
PROPERTIES
  VotesAreBinding
CHECK_DEADLOCK FALSE
