SPECIFICATION AgentFairSpec
CONSTANTS
  Tasks = {t1, t2}
  Threshold = 2
  Cooldown = 1
  MaxRetries = 1
INVARIANTS
  AgentTypeOK
  AnswerShape
PROPERTIES
  EveryChatEnds
  Recovers
CHECK_DEADLOCK FALSE
