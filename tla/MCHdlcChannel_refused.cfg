SPECIFICATION DuplexSpec
CONSTANTS
  Limits <- DefaultLimits
  RetryCount = 0
  ReassemblyLimit = 4
  ChunkCounts <- JustOne
  MaxApdus <- OneRequest
  MaxFaults = 1
  MaxOpens = 0
  SendAfterFailure = FALSE
CHECK_DEADLOCK FALSE
INVARIANTS ConnectMeansConnected
