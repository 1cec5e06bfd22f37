SPECIFICATION Spec
CONSTANTS
  Keys <- MCKeys
  Targets <- MCTargets
  Hands <- MCHands
  Proto <- MCProto
  Challenges = 1
  Retries = 1
  Streams <- MCStreams
  MaxRuns = 2
  MaxUpsets = 2
INVARIANT VerdictsEarned
INVARIANT StopsInQuiet
PROPERTY IntervalKept
PROPERTY LogSpec
