SPECIFICATION AllSpec
CONSTANTS
  Threads = {"t1", "t2"}
  Workers = {"w1", "w2"}
  Sessions = {"s1", "s2"}
  Offers <- Offer
  Idle = Idle
  NoError = NoError
  Scripts = {"c1", "c2"}
  Events = {"e"}
  Sources = {"a"}
  MaxCalls = 3
INVARIANTS
  FreedAtMostOnce
  EverythingHandedBack
  NoCallAfterFree
  ErrorShownWithoutOverlap
  AttachmentsAccounted
PROPERTIES
  WaitingCallersServed
  CallsReturn
CHECK_DEADLOCK FALSE
