SPECIFICATION Spec
CONSTANTS
  Modes <- EveryMode
  NewEndpoints = {TRUE, FALSE}
  MaxCounter = 5
  ClientCounter = 1
  ServerCounter = 1
  InvokeIdCount = 3
  MaxConnections = 3
  MaxAttempts = 4
  MaxCalls = 4
  MaxFaults = 2
INVARIANTS AuthenticatedService AssociatedMeansAuthenticated OkMeansServed NoFalseReplay
CHECK_DEADLOCK FALSE
