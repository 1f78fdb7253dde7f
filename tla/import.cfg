\* Restarts that import relay history, with a probe and forgotten severs.
SPECIFICATION Spec
CONSTANTS
  r1 = r1  r2 = r2  r3 = r3
  s1 = s1  s2 = s2
  c1 = c1  c2 = c2
  o1 = o1
  Requests = {r1}
  Scopes = {s1}
  Callers = {c1, c2}
  OpIds = {o1}
  NoScope = NoScope
  NoCaller = NoCaller
  NoOp = NoOp
  Nobody = Nobody
  Watchdog = Watchdog
  Calls <- Simple
  FaultKinds = {}
  DeltaT = 1
  MaxTime = 1
  MaxIds = 3
  MaxProbes = 2
  MaxForgets = 1
  MaxCrashes = 2
  MaxFaults = 0
SYMMETRY Attempts
INVARIANTS JournalRecoverable MemoryMatchesJournal
CHECK_DEADLOCK FALSE
