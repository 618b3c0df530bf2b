---------------------------- MODULE EvidenceGate ----------------------------
(***************************************************************************)
(* The evidence behind one PR_CREATE or PR_MERGE: the envelopes producers  *)
(* go on sealing (Ingress.submitEvidence), the admission input assembled   *)
(* from those the caller names and, under a cadp.kernel-config.v2 policy,  *)
(* all those it declares complete (Ingress.assembleAdmissionInput), the    *)
(* gate of the reference policy over that input                            *)
(* (cadp/deployment/referencePolicy.ts), and recheck #18, which computes   *)
(* the complete set again inside the admission transaction (pep.ts).       *)
(*                                                                         *)
(* An envelope is its kind, its producer and what it is bound to.  Rows no *)
(* predicate of the gate can use (other verdicts, failed verifications,    *)
(* decisions over another effect) are left out, as are corrupt rows, which *)
(* only refuse.                                                            *)
(***************************************************************************)
EXTENDS Integers, Sequences, FiniteSets

CONSTANTS
  Rows,          \* envelopes that may be sealed: members of Row
  Product,       \* identity_class.product of each registered producer
  Delegates,     \* params.delegated_merge_producers
  Verifier,      \* the producer verifier:github-actions
  Policies,      \* the policies, in the order they are activated
  MaxRows        \* bound: envelopes sealed

Producers == DOMAIN Product
Gated == {"PR_CREATE", "PR_MERGE"}
Namespaces == {"work-run", "commit"}
Implementing == {"WORK_STEP", "BACKEND_EXECUTION"}
(* The namespace under which each kind is bound to what it is about. *)
NamespaceOf == [WORK_STEP |-> "work-run", BACKEND_EXECUTION |-> "work-run",
                VERIFICATION |-> "commit", REVIEW |-> "commit",
                AGENT_DECISION |-> "effect", HUMAN_DECISION |-> "effect"]
Kinds == DOMAIN NamespaceOf
(* own: bound to this effect's run, candidate or effect_id, and not another *)
(* one's; model: observed.model is PRESENT.                                 *)
Row == [kind : Kinds, by : Producers, own : BOOLEAN, model : BOOLEAN]
(* subject_complete_assembly entries, empty under a v1 configuration; and   *)
(* the parameter require_external_verification.                             *)
Entry == [kind : Kinds, namespace : Namespaces, operations : SUBSET Gated]
Policy == [entries : SUBSET Entry, external : BOOLEAN]

ASSUME ConstantsOk ==
  /\ Rows \subseteq Row
  /\ Delegates \subseteq Producers
  /\ Verifier \in Producers
  /\ Policies \in Seq(Policy) /\ Policies # << >>
  /\ MaxRows \in Nat

NoInput == [policy |-> 0]

VARIABLES
  op,         \* operation_kind of the sealed request
  bound,      \* namespaces its work_bindings name
  store,      \* envelopes sealed
  active,     \* the active policy
  input,      \* the admission input last assembled, and the policy it is bound to
  decision,   \* the ALLOW last sealed: its input
  admitted    \* that of the admission, with the store as of its commit

vars == <<op, bound, store, active, input, decision, admitted>>

Input == [rows : SUBSET Rows, policy : DOMAIN Policies]

TypeOK ==
  /\ op \in Gated
  /\ bound \subseteq Namespaces
  /\ store \subseteq Rows
  /\ active \in DOMAIN Policies
  /\ input \in Input \union {NoInput}
  /\ decision \in Input \union {NoInput}
  /\ admitted \in [rows : SUBSET Rows, policy : DOMAIN Policies, store : SUBSET Rows]
                  \union {NoInput}

Init ==
  /\ op \in Gated
  /\ bound \in {b \in SUBSET Namespaces : "work-run" \in b}
  /\ store = {}
  /\ active = 1
  /\ input = NoInput
  /\ decision = NoInput
  /\ admitted = NoInput

-----------------------------------------------------------------------------
(* Assembly.                                                                *)

DeclaredEntries(p) == {d \in Policies[p].entries : op \in d.operations}

(* evidenceBySubjectKey, for the one key the request's bindings name.       *)
CompleteFor(d) == {r \in store : r.kind = d.kind /\ r.own /\ NamespaceOf[r.kind] = d.namespace}

Complete(p) == UNION {CompleteFor(d) : d \in DeclaredEntries(p)}

(* An entry over a namespace the request binds nowhere refuses.             *)
SubjectsBound(p) == \A d \in DeclaredEntries(p) : d.namespace \in bound

-----------------------------------------------------------------------------
(* The gate, over the rows S of an input.                                   *)

(* Own and foreign rows alike: the gate does not look at the run. *)
ImplementerRefs(S) == {r.by : r \in {x \in S : x.kind \in Implementing}}

IndependentProduct(by, S) ==
  /\ ImplementerRefs(S) # {}
  /\ \A q \in ImplementerRefs(S) : Product[q] # Product[by]

VerificationOk(S) == \E r \in S : r.kind = "VERIFICATION" /\ r.own

ExternalVerificationOk(S, p) ==
  Policies[p].external => \E r \in S : r.kind = "VERIFICATION" /\ r.own /\ r.by = Verifier

ReviewOk(S) == \E r \in S :
  r.kind = "REVIEW" /\ r.own /\ r.by \notin ImplementerRefs(S) /\ IndependentProduct(r.by, S)

BackendModelPresent(S) == \E r \in S : r.kind = "BACKEND_EXECUTION" /\ r.model

HumanOk(S) == \E r \in S : r.kind = "HUMAN_DECISION" /\ r.own

AgentMergeOk(S) == \E r \in S :
  /\ r.kind = "AGENT_DECISION" /\ r.own
  /\ r.by \in Delegates
  /\ r.by \notin ImplementerRefs(S) /\ IndependentProduct(r.by, S)

PrCreateOk(S, p) ==
  /\ op = "PR_CREATE"
  /\ VerificationOk(S) /\ ExternalVerificationOk(S, p) /\ ReviewOk(S)
  /\ BackendModelPresent(S)

MergeBaseOk(S, p) ==
  /\ op = "PR_MERGE"
  /\ VerificationOk(S) /\ ExternalVerificationOk(S, p) /\ ReviewOk(S)

Allows(S, p) == PrCreateOk(S, p) \/ (MergeBaseOk(S, p) /\ (HumanOk(S) \/ AgentMergeOk(S)))

-----------------------------------------------------------------------------
(* Actions, up to the admission: nothing that follows matters here.         *)

(* A producer seals an envelope, whatever stage the effect is at.           *)
Submit(r) ==
  /\ admitted = NoInput
  /\ Cardinality(store) < MaxRows
  /\ r \notin store
  /\ store' = store \union {r}
  /\ UNCHANGED <<op, bound, active, input, decision, admitted>>

Activate ==
  /\ admitted = NoInput
  /\ active < Len(Policies)
  /\ active' = active + 1
  /\ UNCHANGED <<op, bound, store, input, decision, admitted>>

(* The caller adds refs, it can never subtract. *)
Assemble(refs) ==
  /\ admitted = NoInput
  /\ SubjectsBound(active)
  /\ input' = [rows |-> refs \union Complete(active), policy |-> active]
  /\ UNCHANGED <<op, bound, store, active, decision, admitted>>

(* An input of another policy is refused; only an ALLOW matters here.       *)
Evaluate ==
  /\ admitted = NoInput
  /\ input # NoInput
  /\ input.policy = active
  /\ Allows(input.rows, active)
  /\ decision' = input
  /\ input' = NoInput
  /\ UNCHANGED <<op, bound, store, active, admitted>>

(* Mutant: the input was complete when it was assembled.                    *)
CompleteAsAssembled(d) == SubjectsBound(d.policy)

(* Recheck #18, on the rows of the transaction and the policy the call read *)
(* before its awaits.                                                       *)
AssemblyComplete(d) ==
  /\ SubjectsBound(d.policy)
  /\ Complete(d.policy) \subseteq d.rows

(* The admission, under the policy that was active when the call began.     *)
Admit ==
  /\ admitted = NoInput
  /\ decision # NoInput
  /\ AssemblyComplete(decision)
  /\ admitted' = [rows |-> decision.rows, policy |-> decision.policy, store |-> store]
  /\ UNCHANGED <<op, bound, store, active, input, decision>>

Next ==
  \/ \E r \in Rows : Submit(r)
  \/ Activate
  \/ \E refs \in SUBSET (store \ Complete(active)) : Assemble(refs)
  \/ Evaluate
  \/ Admit

Spec == Init /\ [][Next]_vars

-----------------------------------------------------------------------------
(* Properties.                                                              *)

(* The policy declares who implemented a run complete for the operation.    *)
DeclaresImplementers(p) == \A k \in Implementing :
  \E d \in DeclaredEntries(p) : d.kind = k /\ d.namespace = "work-run"

(* Whoever is known, when an effect is admitted under a policy that         *)
(* declares the implementers of a run complete, to have implemented the     *)
(* candidate's run, its approving reviewer and the agent that decided its   *)
(* merge are of other products than all of them: also when the caller left  *)
(* an implementer out or an implementer was recorded after the assembly     *)
(* (referencePolicy.ts independent_product, ingress.ts                      *)
(* assembleAdmissionInput, pep.ts recheck #18).                             *)
MergeIsIndependent ==
  admitted # NoInput /\ DeclaresImplementers(admitted.policy) =>
    LET S == admitted.rows
        Known == {r.by : r \in {x \in admitted.store : x.own /\ x.kind \in Implementing}}
        Independent(r) == \A q \in Known : Product[q] # Product[r.by]
    IN  /\ \E r \in S : r.kind = "REVIEW" /\ r.own /\ Independent(r)
        /\ op = "PR_MERGE" => \E r \in S :
             \/ r.kind = "HUMAN_DECISION" /\ r.own
             \/ r.kind = "AGENT_DECISION" /\ r.own /\ r.by \in Delegates /\ Independent(r)
=============================================================================
