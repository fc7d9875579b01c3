SPECIFICATION Spec
CONSTANTS
  Modes <- GmacModes
  NewEndpoints = {FALSE}
  MaxCounter = 5
  ClientCounter = 1
  ServerCounter = 1
  InvokeIdCount = 3
  MaxConnections = 2
  MaxAttempts = 2
  MaxCalls = 2
  MaxFaults = 0
INVARIANT CountersOnlyGrow
CHECK_DEADLOCK FALSE
