\* Two builds of any of the lists, in any order with proofs and verifications.
SPECIFICATION Spec
CONSTANTS
  LeafLists <- SomeLists
  MaxBuilds = 2
  a = a
  b = b
INVARIANTS
  RootIsOneHash
  RootCommits
  NoStaleTree
  VerdictExplained
