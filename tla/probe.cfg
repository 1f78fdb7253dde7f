\* A probe on the relay: the gate journals a checkpoint it cannot replay.
SPECIFICATION Spec
CONSTANTS
  r1 = r1  r2 = r2  r3 = r3
  s1 = s1  s2 = s2
  c1 = c1  c2 = c2
  o1 = o1
  Requests = {r1, r2}
  Scopes = {s1}
  Callers = {c1, c2}
  OpIds = {o1}
  NoScope = NoScope
  NoCaller = NoCaller
  NoOp = NoOp
  Nobody = Nobody
  Watchdog = Watchdog
  Calls <- Anchored
  FaultKinds = {}
  DeltaT = 1
  MaxTime = 0
  MaxIds = 3
  MaxProbes = 1
  MaxForgets = 0
  MaxCrashes = 0
  MaxFaults = 0
SYMMETRY Attempts
INVARIANTS JournalRecoverable
CHECK_DEADLOCK FALSE
