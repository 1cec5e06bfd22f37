SPECIFICATION Spec
CONSTANTS
  Tuned <- MCTuned
  Values <- MCValues
  Operations <- Manual
  Original <- MCOriginal
  Watched <- MCWatched
  MaxUpsets = 3
INVARIANT Ownership
PROPERTY InCustody
CONSTRAINT OnlyClean
