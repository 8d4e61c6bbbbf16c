SPECIFICATION FairSpec
CONSTANTS
  Events = {e1}
  Messages = {e1}
  Silent = {}
  Relays = {r1}
  BatchSize = 2
  Consumers = {x1}
  MaxDials = 3
  Nothing = Nothing
PROPERTIES
  ForwardingResumes
CHECK_DEADLOCK FALSE
