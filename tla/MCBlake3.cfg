\* Hasher: chunks of four blocks, trees of up to sixteen chunks, all that
\* MAX_DEPTH allows, with which the stack gets full; SIMD degrees from none to
\* four; subtrees of one, two, four and eight chunks are all met, aligned and
\* not, and so are updates that end within, at and after a block.
\* Platform: calls below, at and above both vector degrees, counters that carry
\* into their upper word. Reader: blocks of four bytes, almost five of them.
SPECIFICATION PartSpec
CONSTANTS
  CHUNK_LEN = 8
  MAX_DEPTH = 4
  MaxSimdDegree = 4
  Degrees = {1, 2, 4}
  Modes = {"Hash", "KeyedHash", "DeriveKeyMaterial"}
  Offsets = {0, 8, 12, 16, 24, 32, 48, 64}
  Lengths = {0, 1, 2, 7, 8, 9, 16, 17, 31, 32, 33, 64, 65}
  MaxInput = 128
  InputCounts = {1, 3, 4, 7, 8, 13}
  BlockCounts = {1, 2, 3}
  OutputBlocks = {3}
  Counters = {0, 250}
  OutputBlockLen = 4
  MaxPosition = 19
  MaxRead = 11
  Names <- SomeNames
  MaxChanges = 1
\* A hasher whose assertion failed is not used again; a call of the platform
\* layer ends.
CHECK_DEADLOCK FALSE
INVARIANTS
  FinalizeMatchesReference
  OneShotAgrees
  SubtreesMerge
  StackFits
  EachInputOwnHash
  CompressionsAgree
  CheckVouches
  ListedFilesPass
PROPERTY ReadsOneStream
