SPECIFICATION MCSpec
CONSTANTS
  Logins = {"l1", "l2"}
  Kids = {"k1", "k2"}
  KidOf <- MCKidOf
  CacheTtl = 2
  Cooldown = 2
  Timeout = 1
  MaxHangUps = 1
  NoLogin = "none"
  MaxClock = 2
  Ids = {"a"}
  NoId = "nobody"
  Known = {}
  RingSize = 2
  AlarmsKept = 1
  StuckSecs = 1
  SpikeSecs = 1
  SpikeMin = 2
  LeadSecs = 1
  SpikeRate <- MCSpikeRate
  Attempts = 2
  Windows <- MCWindows
  MaxRows = 3
  Events = {"e1", "e2"}
  Urls = 2
  MaxAttempts = 2
  MaxStops = 1
  Terminals = {"t1", "t2"}
  ChatScope <- MCChatScope
  ChatTtl = 2
  MaxTroubles = 2
  Files = {f1, f2}
  Callers = {c1, c2}
  Models = {m1}
  Tools = {t1}
  Exports = {x1}
  Operator = op
  Stranger = st
  MaxTtl = 2
  MaxDay = 1
  MaxCommands = 3
  Subjects = {"m", "*"}
  Plain = {"m"}
  MinDenials = 2
  LogSize = 2
  MaxEdits = 1
INVARIANTS ServicesTypeOK StreaksAreTrue LettersAreRight NothingIsWidened PatchesAreAnswers
PROPERTIES KeysAreCurrent ReportsAreExact LoginRecovers ChatRecovers
CHECK_DEADLOCK FALSE
