SPECIFICATION Spec
CONSTANTS
  Channels <- MCChannels
  Groups <- MCGroups
  GroupsOf <- MCGroupsOf
  Actions = {"pause", "disable", "delete"}
  MaxPerRound = 2
  KeepLast = TRUE
  MinAge = 1
  MaxUpsets = 1
INVARIANT LastSpared
PROPERTY ObservedLongEnough
PROPERTY NobodyPassedOver
