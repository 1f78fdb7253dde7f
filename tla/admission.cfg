\* fail_closed under fairness, with as many requests as there is headroom.
SPECIFICATION LiveSpec
CONSTANTS
  Cap = 3
  Headroom = 2
  FailClosed = TRUE
  Leavings = {}
  MaxEvents = 4
  MaxInFlight = 2
  MaxOthers = 0
  MaxCrashes = 1
  MaxFaults = 0
  MaxTroubles = 1
 
PROPERTY Drains
CHECK_DEADLOCK FALSE
