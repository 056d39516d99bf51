CONSTANTS
  Capacity = 2
  ReadSize = 2
  Word = 64
  MaxSamples = 5
  MaxBatch = 2
  MaxStream = 3
  MaxRestarts = 1

SPECIFICATION MicSpec

INVARIANT ClearForgets
