\* Two threads, four nonces each, every set of winning nonces; the stretches
\* touch (1-4 and 5-8 of 0-9) and 9 iterations leave a remainder of one.
SPECIFICATION FairSpec
CONSTANTS
  NumThreads = 2
  Word64 = 10
  Word32 = 4
  MaxIterations = 9
  ProgressEvery = 2
  HitSets <- AnyHits
  NoNonce = NoNonce
INVARIANTS
  TypeOK
  NoNonceTriedTwice
  SolutionIsGenuine
  NoLostSolution
  AtMostOneHitPerThread
  BudgetRespected
  ProgressConserved
PROPERTIES
  FirstClaimWins
  ImplementsSearch
  Termination
