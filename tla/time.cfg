\* Time, the watchdog, severs and a relay that forgets them.
SPECIFICATION Spec
CONSTANTS
  r1 = r1  r2 = r2  r3 = r3
  s1 = s1  s2 = s2
  c1 = c1  c2 = c2
  o1 = o1
  Requests = {r1, r2}
  Scopes = {s1, s2}
  Callers = {c1, c2}
  OpIds = {o1}
  NoScope = NoScope
  NoCaller = NoCaller
  NoOp = NoOp
  Nobody = Nobody
  Watchdog = Watchdog
  Calls <- Talk
  FaultKinds = {}
  DeltaT = 0
  MaxTime = 1
  MaxIds = 2
  MaxProbes = 0
  MaxForgets = 1
  MaxCrashes = 0
  MaxFaults = 0
SYMMETRY Attempts
INVARIANT SeversLast
CHECK_DEADLOCK FALSE
