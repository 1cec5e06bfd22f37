SPECIFICATION Spec
CONSTANTS
  Groups <- OneGroup
  Ratios <- TwoRatios
  Default = 1
  Tasks <- TwoTasks
  Plans <- SomePlans
  Edits <- SomeEdits
  MaxUpsets = 2
CHECK_DEADLOCK FALSE
INVARIANT TypeOK
INVARIANT AtMostOnce
PROPERTY NeverBackwards
PROPERTY NagsWhileLow
