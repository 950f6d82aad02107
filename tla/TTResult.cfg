\* One call: is everything the host copies into C written by the device?
SPECIFICATION Spec
CONSTANTS
  Pages = 2
  Call = {c1}
  NumTiles = 3
  Stale = Stale
  NoCall = NoCall
INVARIANT WholeResultWritten
