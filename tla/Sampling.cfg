SPECIFICATION Spec
CONSTANTS
  Answers <- SomeAnswers
  Policy <- ShortPolicy
  Switches <- SomeSwitches
  MaxUpsets = 2
INVARIANT TypeOK
PROPERTY Grounded
PROPERTY Returns
