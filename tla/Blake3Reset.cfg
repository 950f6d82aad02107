\* Does a reset make a hasher a new one? One offset and the start are enough.
SPECIFICATION Spec
CONSTANTS
  CHUNK_LEN = 8
  MAX_DEPTH = 4
  MaxSimdDegree = 4
  Degrees = {1}
  Modes = {"Hash"}
  Offsets = {0, 8}
  Lengths = {1, 8}
  MaxInput = 16
CHECK_DEADLOCK FALSE
INVARIANT ResetIsNew
