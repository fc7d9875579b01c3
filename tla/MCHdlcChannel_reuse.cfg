SPECIFICATION DuplexSpec
CONSTANTS
  Limits <- DefaultLimits
  RetryCount = 0
  ReassemblyLimit = 4
  ChunkCounts <- OneAndTwo
  MaxApdus <- TwoRequests
  MaxFaults = 1
  MaxOpens = 0
  SendAfterFailure = TRUE
CHECK_DEADLOCK FALSE
INVARIANTS ApduIntegrity
