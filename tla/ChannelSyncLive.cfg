SPECIFICATION Spec
CONSTANTS
  Tuned <- MCNoTuned
  Values <- MCValues
  Operations <- MCDeciding
  Original <- MCOnlySched
  Watched <- MCUnwatched
  MaxUpsets = 2
PROPERTY PauseLands
PROPERTY HandsBack
PROPERTY FusedRecovers
