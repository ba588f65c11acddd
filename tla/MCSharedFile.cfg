\* Kills, broken sessions and a failed write, with a message for each account.
\* At the end both clients wait in Receive for ever.
SPECIFICATION Spec
CHECK_DEADLOCK FALSE
CONSTANTS
  a1 = a1
  a2 = a2
  b1 = b1
  MessagesA = {a1, a2}
  MessagesB = {b1}
  Kind <- AllGood
  LoginResponse = LoginResponse
  NoId = NoId
  MaxQueued = 2
  MaxTroubles = 2
  MaxWriteFaults = 1
INVARIANTS
  TypeOK
  ForgottenWasShown
