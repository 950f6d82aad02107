\* Two threads: is the reported number of iterations the number of hashes?
SPECIFICATION Spec
CONSTANTS
  NumThreads = 2
  Word64 = 10
  Word32 = 4
  MaxIterations = 9
  ProgressEvery = 4
  HitSets <- FewHits
  NoNonce = NoNonce
INVARIANT IterationsCountHashes
