SPECIFICATION Spec
CONSTANTS
  Rows <- MCRows
  Product <- MCProduct
  Delegates = {"delegateA", "delegateB"}
  Verifier = "actions"
  Policies <- MCPolicies
  MaxRows = 5
INVARIANTS
  MergeIsIndependent
CHECK_DEADLOCK FALSE
