CONSTANTS
  Batches <- MCBatches
  Slack <- MCSlack
  Platforms <- MCPlatforms
  Untouched = Untouched
SPECIFICATION Spec
INVARIANTS
  TypeOK
  KernelContract
PROPERTIES
  ImplementsBatchHash
  Termination
CHECK_DEADLOCK FALSE
