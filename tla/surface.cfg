SPECIFICATION FairSpec
INVARIANTS
  EndIsTrue
  ValueIsEarned
PROPERTIES
  EverybodyReturns
CHECK_DEADLOCK FALSE
