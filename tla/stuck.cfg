\* After one failed write admission never returns.
SPECIFICATION LiveSpec
CONSTANTS
  Cap = 2
  Headroom = 1
  FailClosed = TRUE
  Leavings = {"nothing"}
  MaxEvents = 3
  MaxInFlight = 1
  MaxOthers = 2
  MaxCrashes = 0
  MaxFaults = 1
  MaxTroubles = 1
PROPERTIES AdmissionReturns
CHECK_DEADLOCK FALSE
