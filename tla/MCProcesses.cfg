SPECIFICATION MCSpec
CONSTANTS
  Pids = {"p1", "p2", "p3"}
  Uids = {"u1", "u2"}
  ClientIds = {"c1"}
  BootTimes = {"b1", "b2"}
  None = None
  MaxSessions = 2
  Reconnects = 1
  Timely = TRUE
  CtPids = {1, 2}
  CtSessions = {1, 2}
  CtStarved = 2
INVARIANTS OneServer  TableIsExact
PROPERTY AllServed
CHECK_DEADLOCK FALSE
