SPECIFICATION Spec
CONSTANTS
  a = a
  b = b
  c = c
  e1 = e1
  e2 = e2
  d1 = d1
  d2 = d2
  d3 = d3
  d4 = d4
  Contents = {a, b, c}
  Genesis = a
  Ref <- MCRef
  Effects = {e1, e2}
  Proposes <- MCProposes
  Expects <- MCExpects
  Documents = {d1, d2, d3, d4}
  Decrees <- MCDecrees
  Base <- MCBase
  Evals = {v1, v2}
  Boot = Boot
  None = None
  MaxCrashes = 1
SYMMETRY EvalSymmetry
INVARIANTS
  ComputedByItsPolicy
  OutcomesAreTrue
  ActivatedOnce
  ActiveResolves
  NoStraySidecar
PROPERTIES
  ChainKept
CHECK_DEADLOCK FALSE
