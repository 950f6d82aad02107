\* Does every proof generated for a leaf verify?
SPECIFICATION Spec
CONSTANTS
  LeafLists <- SomeLists
  MaxBuilds = 2
  a = a
  b = b
INVARIANT GeneratedProofVerifies
