----------------------------- MODULE MCEvidence -----------------------------
(* Values for EvidenceGate: two products, A and B, each with a worker, a    *)
(* reviewer and a delegate; the orchestrator is of a third.  The policies:  *)
(* a v1 configuration; a v2 one that declares the implementers; one that    *)
(* declares reviews too and requires external verification.                 *)
EXTENDS EvidenceGate

MCProduct == [flow |-> "F", workerA |-> "A", workerB |-> "B", reviewerA |-> "A",
              reviewerB |-> "B", delegateA |-> "A", delegateB |-> "B",
              verifier |-> "V", actions |-> "X", human |-> "H"]

Envelope(k, by, own) == [kind |-> k, by |-> by, own |-> own, model |-> TRUE]

MCRows ==
  {Envelope("WORK_STEP", "flow", TRUE),
   Envelope("BACKEND_EXECUTION", "workerA", TRUE),
   [Envelope("BACKEND_EXECUTION", "workerB", TRUE) EXCEPT !.model = FALSE],
   Envelope("BACKEND_EXECUTION", "workerA", FALSE),
   Envelope("REVIEW", "reviewerA", TRUE), Envelope("REVIEW", "reviewerB", TRUE),
   Envelope("VERIFICATION", "verifier", TRUE), Envelope("VERIFICATION", "actions", TRUE),
   Envelope("AGENT_DECISION", "delegateA", TRUE),
   Envelope("AGENT_DECISION", "delegateB", TRUE),
   Envelope("HUMAN_DECISION", "human", TRUE)}

Over(k, ns) == [kind |-> k, namespace |-> ns, operations |-> Gated]

Run == {Over("WORK_STEP", "work-run"), Over("BACKEND_EXECUTION", "work-run")}

MCPolicies ==
  <<[entries |-> {}, external |-> FALSE],
    [entries |-> Run, external |-> FALSE],
    [entries |-> Run \union {Over("REVIEW", "commit")}, external |-> TRUE]>>
=============================================================================
