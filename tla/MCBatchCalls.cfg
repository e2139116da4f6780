CONSTANTS
  MaxInputs = 5
  Batches <- MCBatches
  Slack <- MCSlack
  Platforms <- MCPlatforms
  Untouched = Untouched
SPECIFICATION BatchSpec
INVARIANTS
  TypeOK
  GroupingExact
  GroupingPays
PROPERTIES
  ImplementsBatchHash
  ImplementsEngine
  Termination
CHECK_DEADLOCK FALSE
