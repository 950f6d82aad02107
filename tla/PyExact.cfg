\* Does the exact mode get as far as its first nonce?
SPECIFICATION Spec
CONSTANTS
  MaxIterations = 3
  MaxBits = 2
INVARIANT ExactModeWorks
