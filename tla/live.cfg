\* Requests are answered and silence is noticed.
SPECIFICATION LiveSpec
CONSTANTS
  r1 = r1  r2 = r2  r3 = r3
  s1 = s1  s2 = s2
  c1 = c1  c2 = c2
  o1 = o1
  Requests = {r1, r2}
  Scopes = {s1}
  Callers = {c1, c2}
  OpIds = {o1}
  NoScope = NoScope
  NoCaller = NoCaller
  NoOp = NoOp
  Nobody = Nobody
  Watchdog = Watchdog
  Calls <- Again
  FaultKinds = {}
  DeltaT = 0
  MaxTime = 1
  MaxIds = 2
  MaxProbes = 0
  MaxForgets = 0
  MaxCrashes = 0
  MaxFaults = 0
PROPERTIES RequestsAnswered SilentScopeSevered
CHECK_DEADLOCK FALSE
