SPECIFICATION MCSpec
CONSTANTS
  Parts = {"cleanup"}
  MaxInvalid = 2
  MaxDeferred = 2
  Chains = 2
  Vols = {"v1", "v2"}
  Cap = 2
  Batch = 1
  MaxChains = 4
  SeqMod = 8
  FirstSeq = 7
  MaxJobs = 3
  Shrinks = TRUE
  Timeout = 1
  Sleep = 2
  Disconnected = 1
  Notice = 2
  LateLogin = FALSE
  Burst = 2
  StBuffer = 6
  StRecv = 2
  StSocket = 3
  StQuantum = 2
  StSplice = 2
  Users = {"root", "nobody", "ann"}
  Root = "root"
  Guest = "nobody"
  None = "None"
  Names = {"root", "nobody", "ann", "Ann A", "zoe"}
  Alias <- Aliases
  LoginConfigs <- Servers
  MaxExchanges = 2
INVARIANT NoneForgotten
