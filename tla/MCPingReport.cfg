\* What a ping reports, when data messages come between.
SPECIFICATION Spec
CHECK_DEADLOCK FALSE
CONSTANTS
  TIME_SEND_HEARTBEAT = 3
  ServerTimeout = 8
  MaxDelay = 2
  MaxLate = 1
  MaxData = 2
  MaxPings = 4
  MaxFaults = 1
PROPERTIES
  ReportsItsCount
