SPECIFICATION Spec
CONSTANTS
  Channels <- MCChannels
  Groups <- MCGroups
  GroupsOf <- MCGroupsOf
  Policy <- MCPolicy
  EvidenceOf <- MCEvidenceOf
  ModesOf <- MCModesOf
  InitialUp <- MCInitialUp
  MaxRounds = 2
INVARIANT FloorKept
INVARIANT BudgetKept
INVARIANT NoSurplusSurvivors
INVARIANT PauseWins
PROPERTY CooldownHolds
PROPERTY LimitedNeverFused
PROPERTY HealthTookEffect
CHECK_DEADLOCK FALSE
