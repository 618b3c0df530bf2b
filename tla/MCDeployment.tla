---------------------------- MODULE MCDeployment ----------------------------
(* Values for Deployment: one effect over both components, which claims the *)
(* pid of the worker and, of either, the commit that is given.              *)
EXTENDS Deployment

MCSha == [e \in Effects |-> "new"]
MCParts == [e \in Effects |-> Components]
Expect(sha) ==
  [e \in Effects |-> [c \in Components |->
    [code |-> sha, pid |-> IF c = "worker" THEN FirstPid[c] ELSE 0]]]

MCExpected == Expect("new")   \* of the checkout, which observe reports
MCRunning == Expect("old")    \* of what runs
=============================================================================
