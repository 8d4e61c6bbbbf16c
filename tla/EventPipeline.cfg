SPECIFICATION Spec
CONSTANTS
  Events = {e1, e2}
  Messages = {e1, e2}
  Silent = {e2}
  Relays = {r1, r2}
  BatchSize = 2
  Consumers = {x1, x2}
  MaxDials = 2
  Nothing = Nothing
SYMMETRY Symmetry
INVARIANTS
  TypeOK
  
  SentAtMostOnce
  AckedIsNotified
  PublishedIsKept
CHECK_DEADLOCK FALSE
