------------------------------- MODULE MCRunScope -------------------------------
(* Instance of RunScope for TLC: a policy without the run profile, and one with   *)
(* it that has also changed the step's contract and swapped the callers' names.   *)
EXTENDS RunScope, TLC

CONSTANTS p1, p2, r1, r2, start, step, k1, k2, here, x, y

MCDemand == [k \in {k1, k2} |-> [t \in {start, step} |->
                [kind |-> IF t = start THEN "WORK_START" ELSE "OTHER",
                 subject |-> IF k = k2 /\ t = step THEN y ELSE x]]]

WithoutRuns == [identity |-> p1 :> r1 @@ p2 :> r2, enrolled |-> {}, declared |-> None,
                contract |-> start :> k1 @@ step :> k1]
WithRuns == [identity |-> p1 :> r2 @@ p2 :> r1, enrolled |-> {r1, r2}, declared |-> here,
             contract |-> start :> k1 @@ step :> k2]
MCConfigs == {WithoutRuns, WithRuns}

MCMaxOrdinal == [k \in Kinds |-> IF k = "WORK_START" THEN 2 ELSE 1]

(* Neither policy tells <<p1, r1>> from <<p2, r2>>. *)
SwapCallers == p1 :> p2 @@ p2 :> p1 @@ r1 :> r2 @@ r2 :> r1
Symmetry == Permutations(Effects) \cup Permutations(Slots) \cup {SwapCallers}
================================================================================
