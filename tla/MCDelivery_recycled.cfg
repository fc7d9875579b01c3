SPECIFICATION ListenerSpec
CONSTANTS
  LinkLimits <- NegotiatingLimits
  InfoSize = 100
  Disconnecters <- OnlyClient
  MaxConn = 2
  LinkMaxSent <- FewSent
  MaxRetries = 1
  MaxLosses = 0
  MaxWire = 2
  WrapperSizes = {0, 1, 3}
  SenderMax = 0
  ReceiverMax = 2
  ScratchSize = 4
  OutputSize = 0
  MaxWpdus = 3
  MaxConnections = 1
  MaxBreaks = 1
  Clients = {c1, c2, c3}
  Silent = {c1}
  MayClose = TRUE
  Recycle = TRUE
CHECK_DEADLOCK FALSE
INVARIANT AcceptsOnlyItsOwn
