\* The longest delays the timeout allows, on a clock of few steps.  The run
\* stops when the server's answers are used up.
SPECIFICATION Spec
CHECK_DEADLOCK FALSE
CONSTANTS
  TIME_SEND_HEARTBEAT = 3
  ServerTimeout = 8
  MaxDelay = 2
  MaxLate = 1
  MaxData = 2
  MaxPings = 4
  MaxFaults = 1
INVARIANTS
  TypeOK
  OneHeartbeatAtATime
  OneWriter
  KeptAlive
  NeverOverreports
