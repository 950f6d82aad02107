\* Does every Unicode name check? The other parts of the module are left out:
\* they have no initial state.
SPECIFICATION PartSpec
CONSTANTS
  CHUNK_LEN = 8
  MAX_DEPTH = 4
  MaxSimdDegree = 4
  Degrees = {}
  Modes = {}
  Offsets = {}
  Lengths = {}
  MaxInput = 0
  InputCounts = {}
  BlockCounts = {}
  OutputBlocks = {}
  Counters = {}
  OutputBlockLen = 1
  MaxPosition = 0
  MaxRead = 0
  Names <- SomeNames
  MaxChanges = 0
INVARIANT EveryNameCanBeChecked
