SPECIFICATION VolumesSpec
CONSTANTS
  Parts = {"catalog", "enumerate", "hints", "resets", "times", "conf"}
  Procs = {p1, p2}
  Forks = {f1, f2}
  Eids = {"data", "rsrc"}
  Modes = {{"rd", "wr"}, {"rd", "drd", "dwr"}}
  CnProcs = {p1, p2}
  CnNames = {n1, n2}
  CnInos = {i1, i2}
  None = None
  Start = 1
  MaxHint = 2
  Ceiling = 3
  Attempts = 3
  MaxChanges = 2
  QuietOpen = TRUE
  MySessions = {1, 2}
  MyNames = {"a", "b"}
  MyInos = {1, 2}
  MyStart = 1
  MyMaxHint = 2
  MyCeiling = 3
  MyAttempts = 4
  MyReconnects = 2
  DbRoot = "r"
  DbFirst = 17
  DbLast = 22
  DbSuffix = {}
  Pids = {1, 2, 3}
  Objects = {o1}
  Tags = {t1}
  IpcCap = 1
  PipeCap = 1
  BufSize = 1
  RateLimit = 1
  ResetLimit = 1
  TrackSize = 4
  SeenSize = 1
  WaitBudget = 1
  MaxSecond = 2
  MaxGen = 2
  MaxEvents = 2
  CatNames = {"a", "b"}
  CatInos = {1, 2, 3, 4}
  CatLast = 23
  Volume = "V"
  EnRoot = "R"
  EnFolders = {"F", "G"}
  EnSlots = 2
  EnTabs = 2
  EnMisses = 1
  EnLast = 5
  CsRoot = "r"
  CsBlock = 2
  CsRounds = 2
  DtSessions = {1, 2}
  DtKeys = {"k", "l"}
  DtPaths = {"a", "b", "c"}
  DtInos = {1, 2, 3, 4, 5}
  VtSessions = {1, 2}
  VtDelay = 1
  VtQuota = 2
  VtTm = 2
  VtMax = 15
  VtQuiet = 2
  VtLast = 5
  VcProcs = {1, 2}
  VcVids = 8
INVARIANTS HintsTold   
CHECK_DEADLOCK FALSE
