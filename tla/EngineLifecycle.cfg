SPECIFICATION Spec
CONSTANTS
  t1 = t1
  t2 = t2
  Threads <- MCThreads
  None = None
  MaxRequests = 3
INVARIANT OneRound
INVARIANT StopMeansQuiet
INVARIANT NoHalfRound
PROPERTY OrderlyRounds
PROPERTY StopReturns
PROPERTY HeartbeatGoesOn
PROPERTY QuietInTheEnd
CHECK_DEADLOCK FALSE
