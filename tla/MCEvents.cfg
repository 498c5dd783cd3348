SPECIFICATION EventsFairSpec
CONSTANTS
  o1 = o1
  o2 = o2
  Tasks = {o1, o2}
  Threshold = 1
  Cooldown = 1
  KindOf <- MCKindOf
  Streams = {s1}
  Listener = listener
  Rate = 1
  MaxTime = 2
INVARIANTS
  EventsTypeOK
  DeliveryIsFaithful
  CallbacksAreBounded
PROPERTIES
  EventuallyListening
CHECK_DEADLOCK FALSE
