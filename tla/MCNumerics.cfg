\* Transform: the field of 17 elements, vectors of eight, every seed of a 6-bit
\* word. Solution: rows of two elements, two-byte hashes, every difficulty.
SPECIFICATION ProgramSpec
CONSTANTS
  P = 17
  G = 3
  N = 8
  Word32 = 64
  K = 2
  ABytes <- ExtremeA
  BBytes <- ExtremeB
  WordBytes = 3
  Seeds <- SomeSeeds
  HashBytes <- EdgeBytes
  HashLength = 2
INVARIANTS
  ReadsStayCurrent
  ComputesTransform
  ProductIsExact
  ChecksLeadingZeros
  TextDecodes
