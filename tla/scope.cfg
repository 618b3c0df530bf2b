SPECIFICATION Spec
CONSTANTS
  p1 = p1
  p2 = p2
  r1 = r1
  r2 = r2
  start = start
  step = step
  k1 = k1
  k2 = k2
  here = here
  x = x
  y = y
  None = None
  Principals = {p1, p2}
  Requesters = {r1, r2}
  Effects = {e1, e2}
  Tuples = {start, step}
  Contracts = {k1, k2}
  Demand <- MCDemand
  Subjects = {x, y}
  Authorities = {here}
  Configs <- MCConfigs
  Genesis <- WithoutRuns
  Slots = {s1}
  MaxOrdinal <- MCMaxOrdinal
  MaxHeld = 1
SYMMETRY Symmetry
INVARIANTS
  MembershipIsEarned
  MintedOnceToItsOwner
  SealedAsAllocated
PROPERTIES
  AdmittedInItsRun
