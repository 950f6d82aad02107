\* mine.sh: three rounds, two kills, so that two orphans may write into one
\* file. Python: three nonces, hashes of up to two leading zero bits, any
\* difficulty. Merkle: no leaf, one leaf, and five, of which leaf 4 is the last
\* of an odd row and leaf 1 is not; a size is named, waited over, and used.
SPECIFICATION FairSpec
CONSTANTS
  MaxRounds = 3
  MaxKills = 2
  MaxIterations = 3
  MaxBits = 2
  Indexes = {1, 4}
  Sizes = {0, 1, 5}
  None = None
INVARIANTS
  SubmissionExplained
  SubmittedOnce
  WholeResultSubmitted
  FirstSolutionReturned
  DeviceReturned
  AnswersItsWorkload
  AnsweredIffProvable
PROPERTIES
  RoundEnds
  RoundsGoOn
