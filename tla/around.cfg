SPECIFICATION MCSpec
CONSTANTS
  Procs = {p1, p2}
  Threads = {t1, t2}
  Keys = {k1, k2}
  Legacy = {k2}
  Nobody = Nobody
  MaxCalls = 3
  MaxCrashes = 2
  MaxFaults = 1
  MaxTime = 1000
  MaxClock = 4
  Handlers = {h1, h2}
  Nonces = {n1, n2}
  Credentials <- MCCredentials
  Calls <- MCCalls
  Registries <- MCRegistries
  Window = 1
  Capacity = 2
  MaxRestarts = 1
  MaxRequests = 3
  MaxDemoRequests = 4
  Scopes <- DemoScopes
  NoScope = none
  DeltaT = 100
  Requests = {"q1", "q2"}
  Ttl = 1
  MaxSecond = 1
  MaxReceipts = 2
  MaxTimeline = 4
  Tabs = {"a1", "a2", "b1"}
  Browsers = {"a", "b"}
  BrowserOf <- MCBrowserOf
  SessionTtl = 2
  MaxSessions = 2
  Minute = 2
  PerMinute = 1
  Late = 1
  MaxVisits = 4
  DayLength = 2
  Limit = 2
  MaxEvents = 3
  MaxRollups = 2
INVARIANTS AroundTypeOK JournalSound NoReplayWhileFresh RefusalIsHonest IssuedIsHonoured EvidenceIsSound RateIsBounded BundlesAreExact
PROPERTIES KeepsLog SeverBinds SessionsAreKept FilesBelongTogether
CHECK_DEADLOCK FALSE
