SPECIFICATION AppleTalkSpec
CONSTANT Parts = {"atalkd", "asp", "listener", "print", "papd", "macip"}
  
PROPERTIES AspCallsOnce AspSilent
CHECK_DEADLOCK FALSE
