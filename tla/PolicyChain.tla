----------------------------- MODULE PolicyChain -----------------------------
(* What the platform promises of its constitution, without saying how: it is *)
(* a chain of policies, each of which was made the successor of the one      *)
(* before by a verdict of that very policy, or by Root.                      *)
EXTENDS Sequences, Integers

CONSTANTS Contents, Genesis

VARIABLES
  chain,     \* policies, with who appended each
  verdicts   \* <<policy, successor>> pairs: the policy allowed the successor

vars == <<chain, verdicts>>

Last == chain[Len(chain)].content

Init ==
  /\ chain = <<[content |-> Genesis, by |-> "ROOT"]>>
  /\ verdicts = {}

(* A policy of the chain, the last or an earlier one, allows a successor.    *)
Allow(n, successor) ==
  /\ n \in 1 .. Len(chain)
  /\ verdicts' = verdicts \union {<<chain[n].content, successor>>}
  /\ UNCHANGED chain

(* Only the last policy's verdict has any effect.                            *)
Succeed(successor) ==
  /\ <<Last, successor>> \in verdicts
  /\ chain' = Append(chain, [content |-> successor, by |-> "POLICY"])
  /\ UNCHANGED verdicts

Decree(successor) ==
  /\ chain' = Append(chain, [content |-> successor, by |-> "ROOT"])
  /\ UNCHANGED verdicts

Next == \E successor \in Contents :
  \/ \E n \in 1 .. Len(chain) : Allow(n, successor)
  \/ Succeed(successor)
  \/ Decree(successor)

Spec == Init /\ [][Next]_vars
=============================================================================
