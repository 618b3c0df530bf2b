---------------------------- MODULE FindingGate ----------------------------
(***************************************************************************)
(* The improvement-intake gate: the append-only IMPROVEMENT_FINDING rows   *)
(* of the constitutional store, the FINDING_SEAL effect that alone may     *)
(* clear a CONTRACT_* finding (cadp/kernel/adapters/findingSeal.ts with    *)
(* Ingress.insertGovernedEvidence), and the predicates of the reference    *)
(* policy (cadp/deployment/referencePolicy.ts, cadp.improvement-intake.v1) *)
(* that decide whether work bound to a finding may start or go on.         *)
(*                                                                         *)
(* Those predicates read what the caller of an admission presents, any     *)
(* subset of the rows: whatever they allow must be right of all the rows.  *)
(*                                                                         *)
(* A finding is its index in the log.  Of its classification the model     *)
(* keeps whether it is CONTRACT_*, of its primary subject binding that it  *)
(* is one of Subjects.  Checks that only refuse more are left out:         *)
(* occurrence conflicts, external inputs, the shape of claims, and the     *)
(* equality of texts and methods.                                          *)
(***************************************************************************)
EXTENDS Integers, Sequences, FiniteSets

CONSTANTS
  Subjects,      \* subject tuples
  Effects,       \* FINDING_SEAL effects
  Intake,        \* source of a finding no effect sealed
  Policies,      \* the policies, in the order they are activated
  MaxSubmitted,  \* bound: findings of the intake
  MaxOrdinal,    \* bound: dispatches of an effect
  MaxCrashes     \* bound: crashes of the service

Kinds == {"HUMAN_JUDGMENT", "DETERMINISTIC_DERIVATION"}
Transitions == {"RECLASSIFICATION", "SUBJECT_TRANSFER"}
(* An effect seals one row at most. *)
Ids == 1 .. MaxSubmitted + Cardinality(Effects)
(* Everything insertGovernedEvidence compares of two drafts. *)
Draft == [contract : BOOLEAN, subject : Subjects, supersedes : SUBSET Ids, kind : Kinds]
Result == {"UNKNOWN", "COMMITTED", "NO_EFFECT_CONFIRMED"}
(* rules: how many authority_text_rules match each transition; landed: the  *)
(* tips of landed_authority_resolutions; writer: whether the registries     *)
(* hold the governed writer.                                                *)
Policy == [rules : [Transitions -> Nat], landed : SUBSET Ids, writer : BOOLEAN]

ASSUME ConstantsOk ==
  /\ Subjects # {}
  /\ Intake \notin Effects
  /\ Policies \in Seq(Policy) /\ Policies # << >>
  /\ IsFiniteSet(Effects)
  /\ MaxSubmitted \in Nat \ {0}
  /\ MaxOrdinal \in Nat \ {0}
  /\ MaxCrashes \in Nat

NoDraft == [contract |-> FALSE]
NoCall == [effect |-> Intake]
Finding == [contract : BOOLEAN, subject : Subjects, supersedes : SUBSET Ids,
            kind : Kinds, source : Effects \union {Intake}]
Call == [effect : Effects, answer : Result]

VARIABLES
  log,         \* IMPROVEMENT_FINDING envelopes: a draft and the source_ref's effect
  resolutions, \* findings an AUTHORITY_RESOLUTION of the intake names
  observed,    \* applicability of the authorities' observations
  active,      \* the active policy
  drafts,      \* the sealed request's descendant_draft
  approved,    \* effects with an effect-scoped Human decision
  results,     \* results of the outcome rows of each admission of an effect
  sealedUnder, \* policy under which each effect was last admitted
  conflicts,   \* predecessors bound by an open GOVERNED_SEAL_CONFLICT
  call,        \* the dispatch inside the serialization domain
  crashes      \* crashes so far

evidenceVars == <<log, resolutions, observed>>
effectVars == <<drafts, approved, results, sealedUnder, conflicts, call>>
vars == <<evidenceVars, active, effectVars, crashes>>

TypeOK ==
  /\ log \in Seq(Finding)
  /\ resolutions \subseteq DOMAIN log
  /\ observed \subseteq [predecessor : DOMAIN log, subject : Subjects]
  /\ active \in DOMAIN Policies
  /\ drafts \in [Effects -> Draft \union {NoDraft}]
  /\ approved \subseteq Effects
  /\ results \in [Effects -> Seq(SUBSET Result)]
  /\ sealedUnder \in [Effects -> {0} \union DOMAIN Policies]
  /\ conflicts \subseteq DOMAIN log
  /\ call \in Call \union {NoCall}
  /\ crashes \in 0 .. MaxCrashes

Semantic(f) == [contract |-> f.contract, subject |-> f.subject,
                supersedes |-> f.supersedes, kind |-> f.kind]

Stamped(d, source) == [contract |-> d.contract, subject |-> d.subject,
                       supersedes |-> d.supersedes, kind |-> d.kind, source |-> source]

(* What the intake seals: any class, subject and predecessors, and the      *)
(* derivation that would carry most authority if a claim carried any.       *)
Claimed(contract, s, sup) ==
  [contract |-> contract, subject |-> s, supersedes |-> sup,
   kind |-> "HUMAN_JUDGMENT", source |-> Intake]

Init ==
  /\ \E s \in Subjects : log = <<Claimed(TRUE, s, {})>>
  /\ resolutions = {}
  /\ observed = {}
  /\ active = 1
  /\ drafts = [e \in Effects |-> NoDraft]
  /\ approved = {}
  /\ results = [e \in Effects |-> << >>]
  /\ sealedUnder = [e \in Effects |-> 0]
  /\ conflicts = {}
  /\ call = NoCall
  /\ crashes = 0

-----------------------------------------------------------------------------
(* The predicates of the policy, over the findings P the caller presents.   *)

Contract(f) == log[f].contract

(* Only the kernel-stamped producer makes a finding a governed transition.  *)
GovernedTransition(d) == log[d].source # Intake

SolePredecessor(c, d) == log[d].supersedes = {c}

SameSubject(c, d) == log[c].subject = log[d].subject

ClearingEdge(c, d) ==
  /\ SolePredecessor(c, d)
  /\ Contract(c) /\ ~Contract(d)
  /\ SameSubject(c, d)
  /\ GovernedTransition(d)

TransferEdge(c, d) ==
  /\ SolePredecessor(c, d)
  /\ Contract(c) /\ Contract(d)
  /\ ~SameSubject(c, d)
  /\ GovernedTransition(d)

(* A successor of the same class and subject needs no authority.            *)
DelegationEdge(c, d) ==
  \/ SolePredecessor(c, d) /\ Contract(c) /\ Contract(d) /\ SameSubject(c, d)
  \/ TransferEdge(c, d)

GovernedResolver(c, d) == ClearingEdge(c, d) \/ TransferEdge(c, d)

Ambiguous(c, P) == \E d1, d2 \in P :
  d1 # d2 /\ GovernedResolver(c, d1) /\ GovernedResolver(c, d2)

EntryResolved(c, d, P) ==
  (ClearingEdge(c, d) \/ DelegationEdge(c, d)) /\ ~Ambiguous(c, P)

(* The active policy names the tip, and the intake has sealed a resolution. *)
Landed(c) == c \in Policies[active].landed /\ c \in resolutions

(* f and whatever it supersedes, directly or not. *)
Ancestry(f) ==
  LET up[i \in 0 .. Len(log)] ==
        IF i = 0 THEN {f}
        ELSE LET known == up[i - 1] IN known \union UNION {log[d].supersedes : d \in known}
  IN  up[Len(log)]

(* Mutant: an ancestor that was not presented is not looked at.             *)
BarrierOverPresented(tip, P) ==
  \/ Contract(tip) /\ ~Landed(tip)
  \/ \E d \in Ancestry(tip) \intersect P : \E c \in log[d].supersedes \intersect P :
       Contract(c) /\ ~EntryResolved(c, d, P) /\ ~Landed(c)

(* contract_barrier: an ancestor that was not presented, a CONTRACT_* tip,  *)
(* or an entry into a CONTRACT_* predecessor nothing resolves.              *)
ContractBarrier(tip, P) ==
  LET behind == Ancestry(tip) IN
  \/ Contract(tip) /\ ~Landed(tip)
  \/ ~(behind \subseteq P)
  \/ \E d \in behind : \E c \in log[d].supersedes :
       Contract(c) /\ ~EntryResolved(c, d, P) /\ ~Landed(c)

Leaf(f, P) == \A d \in P : f \notin log[d].supersedes

ImplementationClear(f, P) == f \in P /\ ~Contract(f) /\ ~ContractBarrier(f, P)

-----------------------------------------------------------------------------
(* What surrounds the gate.                                                 *)

(* The intake seals a finding that corrects earlier ones; those that        *)
(* correct none start a history like that of the first.                     *)
Submit(contract, s, sup) ==
  /\ Cardinality({f \in DOMAIN log : log[f].source = Intake}) < MaxSubmitted
  /\ sup # {} /\ sup \subseteq DOMAIN log
  /\ log' = Append(log, Claimed(contract, s, sup))
  /\ UNCHANGED <<resolutions, observed, active, effectVars, crashes>>

(* The intake seals an AUTHORITY_RESOLUTION of a finding the policy names. *)
Resolve(f) ==
  /\ Contract(f) /\ f \in Policies[active].landed
  /\ resolutions' = resolutions \union {f}
  /\ UNCHANGED <<log, observed, active, effectVars, crashes>>

(* The next policy is activated; a landed entry names a tip that exists.    *)
Activate ==
  /\ active < Len(Policies)
  /\ Policies[active + 1].landed \subseteq DOMAIN log
  /\ active' = active + 1
  /\ UNCHANGED <<evidenceVars, effectVars, crashes>>

-----------------------------------------------------------------------------
(* FINDING_SEAL.                                                            *)

Transition(d) == IF d.contract THEN "SUBJECT_TRANSFER" ELSE "RECLASSIFICATION"

Predecessor(d) == CHOOSE c \in d.supersedes : TRUE

(* A transition leaves the class or moves the subject, never both.          *)
TransitionPerKindOk(d) ==
  d.contract = (d.subject # log[Predecessor(d)].subject)

TransitionShapeOk(d) ==
  /\ \E c \in DOMAIN log : d.supersedes = {c}
  /\ Contract(Predecessor(d))
  /\ TransitionPerKindOk(d)

(* A request is sealed with the one draft of its transition.                *)
Request(e) ==
  /\ drafts[e] = NoDraft
  /\ \E d \in Draft :
       /\ TransitionShapeOk(d)
       /\ drafts' = [drafts EXCEPT ![e] = d]
  /\ UNCHANGED <<evidenceVars, active, approved, results, sealedUnder, conflicts,
                 call, crashes>>

(* derived_draft: the one draft an observation's applicability allows.      *)
DerivedDraft(a) ==
  [contract |-> a.subject # log[a.predecessor].subject, subject |-> a.subject,
   supersedes |-> {a.predecessor}, kind |-> "DETERMINISTIC_DERIVATION"]

(* An authority's observation applies to one transition of one predecessor; *)
(* those no request is for change nothing.                                  *)
Observe(a) ==
  /\ \E e \in Effects : drafts[e] = DerivedDraft(a)
  /\ observed' = observed \union {a}
  /\ UNCHANGED <<log, resolutions, active, effectVars, crashes>>

(* A Human decides on exactly this effect's material.                       *)
Approve(e) ==
  /\ drafts[e] # NoDraft /\ drafts[e].kind = "HUMAN_JUDGMENT"
  /\ approved' = approved \union {e}
  /\ UNCHANGED <<evidenceVars, active, drafts, results, sealedUnder, conflicts,
                 call, crashes>>

(* An observation derives the draft, and one rule matches it.              *)
DeterministicAuthorityOk(d, p) ==
  /\ \E a \in observed : DerivedDraft(a) = d
  /\ Policies[p].rules[Transition(d)] = 1

(* A governed successor among the findings presented.                       *)
TransitionConflict(c, P) == \E d \in P : GovernedResolver(c, d)

(* finding_seal_ok, over the findings presented. *)
SealAllowed(e, p, P) ==
  /\ Predecessor(drafts[e]) \in P
  /\ ~TransitionConflict(Predecessor(drafts[e]), P)
  /\ IF drafts[e].kind = "HUMAN_JUDGMENT" THEN e \in approved
     ELSE DeterministicAuthorityOk(drafts[e], p)

(* Recheck #12 for an operation with a native key: nothing committed.       *)
NextOrdinalAllowed(e) ==
  /\ Len(results[e]) < MaxOrdinal
  /\ \A k \in DOMAIN results[e] : "COMMITTED" \notin results[e][k]

(* The admission row, under the ALLOW of a policy that was active when the  *)
(* call entered the domain: others may be activated while it awaits its     *)
(* precondition reads.                                                      *)
Admit(e, p) ==
  /\ call = NoCall
  /\ drafts[e] # NoDraft
  /\ NextOrdinalAllowed(e)
  /\ Predecessor(drafts[e]) \notin conflicts
  /\ {P \in SUBSET DOMAIN log : SealAllowed(e, p, P)} # {}
  /\ results' = [results EXCEPT ![e] = Append(@, {})]
  /\ sealedUnder' = [sealedUnder EXCEPT ![e] = p]

(* Mutant: only the replay key is looked up. *)
HeldByReplay(e) ==
  {d \in DOMAIN log : log[d].source = e}

(* The row of the same source, or else the governed row of the same edge.   *)
Holder(e) ==
  {d \in DOMAIN log :
     \/ log[d].source = e
     \/ log[d].source # Intake /\ log[d].supersedes = drafts[e].supersedes}

Answered(e, answer) == call' = [effect |-> e, answer |-> answer]

(* insertGovernedEvidence inside the admission's own turn: the row is new,  *)
(* or the row that holds the edge says the same, or it says something else  *)
(* and the incident is sealed; a writer the registry lost cannot say.       *)
Dispatch(e, p) ==
  /\ Admit(e, p)
  /\ \/ /\ ~Policies[active].writer
        /\ Answered(e, "UNKNOWN")
        /\ UNCHANGED <<log, conflicts>>
     \/ /\ Policies[active].writer
        /\ Holder(e) = {}
        /\ log' = Append(log, Stamped(drafts[e], e))
        /\ Answered(e, "COMMITTED")
        /\ UNCHANGED conflicts
     \/ /\ Policies[active].writer
        /\ \E d \in Holder(e) : Semantic(log[d]) = drafts[e]
        /\ Answered(e, "COMMITTED")
        /\ UNCHANGED <<log, conflicts>>
     \/ /\ Policies[active].writer
        /\ \E d \in Holder(e) : Semantic(log[d]) # drafts[e]
        /\ conflicts' = conflicts \union {Predecessor(drafts[e])}
        /\ Answered(e, "NO_EFFECT_CONFIRMED")
        /\ UNCHANGED log
  /\ UNCHANGED <<resolutions, observed, active, drafts, approved, crashes>>

(* The service dies once the admission is durable: before the row, or after *)
(* it was refused and before its incident.                                  *)
DieInside(e, p) ==
  /\ crashes < MaxCrashes
  /\ Admit(e, p)
  /\ crashes' = crashes + 1
  /\ UNCHANGED <<evidenceVars, active, drafts, approved, conflicts, call>>

Outcome(e, k, res) == results' = [results EXCEPT ![e][k] = @ \union {res}]

(* The answer of the dispatch is recorded. *)
Record ==
  /\ call # NoCall
  /\ Outcome(call.effect, Len(results[call.effect]), call.answer)
  /\ call' = NoCall
  /\ UNCHANGED <<evidenceVars, active, drafts, approved, sealedUnder, conflicts, crashes>>

Crash ==
  /\ crashes < MaxCrashes
  /\ call # NoCall
  /\ call' = NoCall
  /\ crashes' = crashes + 1
  /\ UNCHANGED <<evidenceVars, active, drafts, approved, results, sealedUnder,
                 conflicts>>

(* Mutant: the reconciler looks for the row the effect itself sealed.       *)
ReadBySource(e) ==
  IF \E d \in DOMAIN log : log[d].source = e THEN "COMMITTED" ELSE "NO_EFFECT_CONFIRMED"

(* The edge, not the effect, is what is read: the same draft sealed by      *)
(* another effect is this effect's commitment too.                          *)
EdgeRead(e) ==
  IF \E d \in DOMAIN log : log[d].source # Intake /\ Semantic(log[d]) = drafts[e]
  THEN "COMMITTED" ELSE "NO_EFFECT_CONFIRMED"

(* An open admission is reconciled by one read of the store.                *)
Reconcile(e, k) ==
  /\ k \in DOMAIN results[e]
  /\ results[e][k] \subseteq {"UNKNOWN"}
  /\ Outcome(e, k, EdgeRead(e))
  /\ UNCHANGED <<evidenceVars, active, drafts, approved, sealedUnder, conflicts,
                 call, crashes>>

(* BREAK_GLASS releases the incident. *)
Release(c) ==
  /\ c \in conflicts
  /\ conflicts' = conflicts \ {c}
  /\ UNCHANGED <<evidenceVars, active, drafts, approved, results, sealedUnder,
                 call, crashes>>

-----------------------------------------------------------------------------
(* Work bound to a finding: what an admission allows is read, not written,  *)
(* here.                                                                    *)

(* A non-index mutation of that work: intake_nonindex_denied does not hold. *)
MutationAllowed(t, P) == ImplementationClear(t, P)

(* WORK_START of an intake finding: intake_workstart_ok. *)
StartAllowed(t, P) == ImplementationClear(t, P) /\ Leaf(t, P)

Next ==
  \/ \E b \in BOOLEAN, s \in Subjects, sup \in SUBSET DOMAIN log : Submit(b, s, sup)
  \/ \E f \in DOMAIN log : Resolve(f)
  \/ \E a \in [predecessor : DOMAIN log, subject : Subjects] : Observe(a)
  \/ Activate
  \/ \E e \in Effects : Request(e) \/ Approve(e)
  \/ \E e \in Effects, p \in 1 .. active : Dispatch(e, p)
  \/ \E e \in Effects, p \in 1 .. active : DieInside(e, p)
  \/ Record
  \/ Crash
  \/ \E e \in Effects, k \in 1 .. MaxOrdinal : Reconcile(e, k)
  \/ \E c \in conflicts : Release(c)

Spec == Init /\ [][Next]_vars

-----------------------------------------------------------------------------
(* Properties.                                                              *)

(* The authority under which e's transition was admitted. *)
AuthorityOf(e, f) ==
  /\ drafts[e] = Semantic(f)
  /\ IF f.kind = "HUMAN_JUDGMENT" THEN e \in approved
     ELSE sealedUnder[e] # 0 /\ DeterministicAuthorityOk(drafts[e], sealedUnder[e])

Carried(c, d) ==
  \/ SolePredecessor(c, d) /\ Contract(d) /\ SameSubject(c, d)
  \/ Landed(c)
  \/ /\ SolePredecessor(c, d)
     /\ log[d].source \in Effects /\ AuthorityOf(log[d].source, log[d])

(* t is no contract finding, and every one behind it, presented or not, was *)
(* handed on to a contract finding of the same subject, or closed by an     *)
(* authority over exactly that step: a Human decision on that effect, an    *)
(* observation and the one rule of the policy it was admitted under, or a   *)
(* landed resolution.                                                       *)
Cleared(t) ==
  /\ ~Contract(t)
  /\ \A d \in Ancestry(t) : \A c \in log[d].supersedes : Contract(c) => Carried(c, d)

(* Unless a finding is cleared, there is nothing a caller can present that  *)
(* lets work start or go on for it (referencePolicy.ts contract_barrier).   *)
ReleasedIsCleared ==
  \A t \in DOMAIN log : ~Cleared(t) =>
    \A P \in SUBSET DOMAIN log : ~StartAllowed(t, P) /\ ~MutationAllowed(t, P)

(* Invariant U: whatever crashes, is dispatched again, or is admitted over  *)
(* a list that leaves the first one out, no predecessor has two governed    *)
(* successors, so the ambiguity the policy still guards against cannot      *)
(* arise (ingress.ts insertGovernedEvidence, referencePolicy.ts:666).       *)
OneGovernedEdge == \A c \in DOMAIN log : ~Ambiguous(c, DOMAIN log)

InStore(e) == \E d \in DOMAIN log : log[d].source # Intake /\ Semantic(log[d]) = drafts[e]

(* An outcome is true when it is written: COMMITTED only when the store     *)
(* holds a governed row with exactly the effect's draft, its own or the one *)
(* another effect sealed, and NO_EFFECT_CONFIRMED only when it does not     *)
(* (findingSeal.ts reconcile and dispatch).                                 *)
SealOutcomeIsTrue ==
  [][\A e \in Effects : \A k \in DOMAIN results[e] :
       LET new == results'[e][k] \ results[e][k] IN
       /\ "COMMITTED" \in new => InStore(e)
       /\ "NO_EFFECT_CONFIRMED" \in new => ~InStore(e)]_results
=============================================================================
