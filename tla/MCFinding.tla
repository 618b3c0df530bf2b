----------------------------- MODULE MCFinding -----------------------------
(* Values for FindingGate: a rule for each transition; then the first       *)
(* finding landed, one rule doubled and the governed writer revoked.        *)
EXTENDS FindingGate, TLC

Rules(n, m) == [t \in Transitions |-> IF t = "RECLASSIFICATION" THEN n ELSE m]

MCPolicies ==
  <<[rules |-> Rules(1, 1), landed |-> {}, writer |-> TRUE],
    [rules |-> Rules(2, 1), landed |-> {1}, writer |-> FALSE]>>

Symmetric == Permutations(Effects) \union Permutations(Subjects)
=============================================================================
