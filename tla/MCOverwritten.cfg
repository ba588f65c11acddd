\* No write fails and one client is stopped once: that is enough.
\* At the end both clients wait in Receive for ever.
SPECIFICATION Spec
CHECK_DEADLOCK FALSE
CONSTANTS
  a1 = a1
  a2 = a2
  b1 = b1
  MessagesA = {a1, a2}
  MessagesB = {b1}
  Kind <- AllGood
  LoginResponse = LoginResponse
  NoId = NoId
  MaxQueued = 1
  MaxTroubles = 1
  MaxWriteFaults = 0
INVARIANTS
  OnlyNewMessages
