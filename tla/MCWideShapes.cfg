CONSTANTS
  BlockSize = 16
  WordBytes = 1
  LenBytes = 2
  ByteBits = 8
  Radix = 256
  CountMod = 65536
  Counts = {1, 3, 4, 5, 8, 9, 13, 16, 17, 25, 32, 49, 64}
  Lengths = {0, 13, 14, 16, 31, 46}
  Batches <- MCBatches
  Slack <- MCSlack
  Untouched = Untouched
SPECIFICATION Spec
INVARIANT PipelineFromThreeGroups
CHECK_DEADLOCK FALSE
