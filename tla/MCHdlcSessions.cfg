SPECIFICATION McSpec
CONSTANTS
  Limits <- MCLimits
  CodecMax = 0
  PeerParams <- MCPeerParams
  InfoSizes <- MCInfoSizes
  MaxSent = 10
  LinkLimits <- NegotiatingLimits
  InfoSize = 100
  Disconnecters <- Roles
  MaxConn = 2
  LinkMaxSent <- WrapSent
  MaxRetries = 1
  MaxLosses = 1
  MaxWire = 2
CHECK_DEADLOCK FALSE
INVARIANTS
  TypeOK WindowSafety ConnectAnswerOnlyWhenDown ServerWithinCapability
  InOrderExactlyOnce AcknowledgedWasAccepted NegotiationAgreed
  PeerCanReceive
