\* Crashes, hang-ups, lost replies and failed appends around one operation id.
SPECIFICATION Spec
CONSTANTS
  r1 = r1  r2 = r2  r3 = r3
  s1 = s1  s2 = s2
  c1 = c1  c2 = c2
  o1 = o1
  Requests = {r1, r2}
  Scopes = {s1, s2}
  Callers = {c1, c2}
  OpIds = {o1}
  NoScope = NoScope
  NoCaller = NoCaller
  NoOp = NoOp
  Nobody = Nobody
  Watchdog = Watchdog
  Calls <- Mixed
  FaultKinds = {"refused", "torn"}
  DeltaT = 1
  MaxTime = 0
  MaxIds = 2
  MaxProbes = 0
  MaxForgets = 0
  MaxCrashes = 1
  MaxFaults = 1
SYMMETRY Attempts
INVARIANTS CustodyInv AtMostOnceEffect OneCallerPerScope NoFork PublishedIsAccounted 
PROPERTY KeepsPromise
CHECK_DEADLOCK FALSE
