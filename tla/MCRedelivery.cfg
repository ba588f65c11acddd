\* The comment on persistent_id.txt, against messages that end early.
SPECIFICATION Spec
CHECK_DEADLOCK FALSE
CONSTANTS
  g1 = g1
  g2 = g2
  u = u
  b = b
  p = p
  Messages = {g1, b}
  Kind <- Unsaved
  LoginResponse = LoginResponse
  NoId = NoId
  MaxQueued = 2
  MaxTroubles = 1
  MaxWriteFaults = 0
INVARIANTS
  OnlyNewMessages
