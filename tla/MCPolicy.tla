------------------------------- MODULE MCPolicy -------------------------------
(* A small instance of PolicyActivation: bundles b and c share a              *)
(* policy_id@revision; an effect over the first row and one over the third,   *)
(* which has the content of the first again; and the Root documents that      *)
(* overtake the one, with its own proposal or with the other bundle, and lead *)
(* to the other.                                                              *)
EXTENDS PolicyActivation, TLC

CONSTANTS a, b, c, e1, e2, d1, d2, d3, d4

EvalSymmetry == Permutations(Evals)

MCRow(n, x) == [seq |-> n, content |-> x]

MCRef == [x \in Contents |-> IF x = a THEN 1 ELSE 2]
MCProposes == [e \in Effects |-> IF e = e1 THEN b ELSE c]
MCExpects == [e \in Effects |-> IF e = e1 THEN MCRow(1, a) ELSE MCRow(3, a)]
MCDecrees == [d \in Documents |-> CASE d = d1 -> b [] d = d3 -> c [] OTHER -> a]
MCBase == [d \in Documents |-> CASE d = d2 -> MCRow(2, b)
                                  [] d = d4 -> MCRow(2, c)
                                  [] OTHER -> MCRow(1, a)]
=============================================================================
