SPECIFICATION McSpec
CONSTANTS
  Limits <- WindowOfTwoToServer
  RetryCount = 0
  ReassemblyLimit = 2
  ChunkCounts <- TwoAndFour
  MaxApdus <- TwoRequestsAndAResponse
  MaxFaults = 1
  MaxOpens = 0
  SendAfterFailure = FALSE
CHECK_DEADLOCK FALSE
INVARIANTS ApduIntegrity ApdusInOrder
PROPERTIES OutcomesAreTrue
