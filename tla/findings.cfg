SPECIFICATION Spec
CONSTANTS
  s1 = s1
  s2 = s2
  e1 = e1
  e2 = e2
  Intake = Intake
  Subjects = {s1, s2}
  Effects = {e1, e2}
  Policies <- MCPolicies
  MaxSubmitted = 2
  MaxOrdinal = 2
  MaxCrashes = 1
SYMMETRY Symmetric
INVARIANTS
  ReleasedIsCleared
  OneGovernedEdge
PROPERTIES
  SealOutcomeIsTrue
CHECK_DEADLOCK FALSE
