\* An append that fails after its frame was written: a forked chain.
SPECIFICATION Spec
CONSTANTS
  r1 = r1  r2 = r2  r3 = r3
  s1 = s1  s2 = s2
  c1 = c1  c2 = c2
  o1 = o1
  Requests = {r1, r2}
  Scopes = {s1}
  Callers = {c1, c2}
  OpIds = {o1}
  NoScope = NoScope
  NoCaller = NoCaller
  NoOp = NoOp
  Nobody = Nobody
  Watchdog = Watchdog
  Calls <- Simple
  FaultKinds = {"written"}
  DeltaT = 1
  MaxTime = 0
  MaxIds = 3
  MaxProbes = 0
  MaxForgets = 0
  MaxCrashes = 0
  MaxFaults = 1
SYMMETRY Attempts
INVARIANTS NoFork
CHECK_DEADLOCK FALSE
