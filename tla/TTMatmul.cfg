\* Two mining threads call matmul at once; three tiles go round buffers of
\* two pages, so every page is used again.
SPECIFICATION FairSpec
CONSTANTS
  Pages = 2
  Call = {c1, c2}
  NumTiles = 3
  Stale = Stale
  NoCall = NoCall
INVARIANTS
  PairsInOrder
  OwnResult
PROPERTY EveryCallReturns
