SPECIFICATION Spec
CONSTANTS
  Tuned <- MCTuned
  Values <- MCValues
  Operations <- Manual
  Original <- MCOriginal
  Watched <- MCWatched
  MaxUpsets = 1
PROPERTY RestoreAllGivesBack
