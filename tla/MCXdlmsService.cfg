SPECIFICATION Spec
CONSTANTS
  ClientOptions <- AnyOrStrictClients
  ServerOptions <- UpToFourBlocks
  InvokeIdCount = 2
  CopyBufferSize = 3
  Selective = {FALSE}
  Confirmed = {TRUE, FALSE}
  HandlerFails = TRUE
  MaxTimeouts = 1
  MaxFaults = 1
  UsedServices = {"get", "set", "action"}
  DataSizes = {1, 3, 5}
  MaxCalls = 3
INVARIANT OwnResult
INVARIANT OkMeansCarriedOut
INVARIANT IndicationIsOneRequest
INVARIANT AtMostOnce
INVARIANT RefusalEndsTransfer
CHECK_DEADLOCK FALSE
