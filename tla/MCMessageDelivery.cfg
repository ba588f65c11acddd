\* Three messages of any kind; kills, broken and rejected sessions, a failed write.
\* The client may wait in Receive for ever.
SPECIFICATION Spec
CHECK_DEADLOCK FALSE
CONSTANTS
  g1 = g1
  g2 = g2
  u = u
  b = b
  p = p
  Messages = {g1, g2, u, b, p}
  Kind <- AllKinds
  LoginResponse = LoginResponse
  NoId = NoId
  MaxQueued = 3
  MaxTroubles = 2
  MaxWriteFaults = 1
INVARIANTS
  TypeOK
  ShownOnRecord
  ShownAtMostOnce
  ForgottenWasShown
PROPERTIES
  FileForgetsOnlyAcked
  GoodMessageShown
  ImplementsMailbox
