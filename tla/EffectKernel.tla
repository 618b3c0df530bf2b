---------------------------- MODULE EffectKernel ----------------------------
(***************************************************************************)
(* The governed-effect path of the Kernel Service: the PEP                 *)
(* (cadp/kernel/pep.ts), the Reconciler (cadp/kernel/reconciler.ts), the   *)
(* rows of the constitutional store they share, and the targets they talk  *)
(* to.                                                                     *)
(*                                                                         *)
(* A call of admit_and_dispatch holds lock D of its target, reads the      *)
(* active policy, awaits its precondition reads, admits the effect in one  *)
(* store transaction, sends it, and records what it observed.  The         *)
(* Reconciler takes no lock: it reads the target and records an outcome    *)
(* whenever it is asked, and over every open admission when the service    *)
(* starts.  Between two steps of either, other calls run, requests and     *)
(* answers are delayed or lost, and the service can crash.                 *)
(*                                                                         *)
(* Rows are modelled by what the rechecks read of them: digests, evidence  *)
(* envelopes and clocks are left out, and a refusal that depends on them   *)
(* is Refuse, which a call may always take before its admission.           *)
(***************************************************************************)
EXTENDS Integers, FiniteSets

CONSTANTS
  Effects,       \* effect_ids with a sealed EffectRequestV1
  Domains,       \* serialization domains; one target each
  Domain,        \* adapter.serialization_domain of each effect's material
  Idempotency,   \* the operation's declared idempotency
  Proof,         \* effects whose operation has no_effect_proof_supported
  NativeCas,     \* effects whose dispatch_precondition is NATIVE_CAS
  Anonymous,     \* effects whose receipt names the material, not who made it
  Occupiable,    \* effects in whose place the target can hold another object
  Corruptible,   \* effects of which a row, or the material, may stop re-digesting
  Humans,        \* Human decisions an admission input can carry
  NoHuman,       \* ... an input that carries none
  Passes,        \* concurrent request_reconcile calls
  Boot,          \* the pass made by the restart scan
  MaxOrdinal,    \* the MAX_DISPATCH_ORDINAL constraint of the policy
  MaxAttempts,   \* reconcile_max_attempts of the policy
  MaxPolicy,     \* bound: activations
  MaxCrashes     \* bound: crashes of the service

Ordinals == 1 .. MaxOrdinal
Result == {"COMMITTED", "NO_EFFECT_CONFIRMED", "UNKNOWN"}
PassIds == Passes \union {Boot}

ASSUME ConstantsOk ==
  /\ Domain \in [Effects -> Domains]
  /\ Idempotency \in [Effects -> {"NATIVE_KEY", "NATIVE_PRECONDITION", "NONE"}]
  /\ MaxOrdinal \in Nat \ {0}
  /\ MaxAttempts \in Nat \ {0}
  /\ MaxPolicy \in Nat \ {0}
  /\ MaxCrashes \in Nat
  /\ NoHuman \notin Humans
  /\ Boot \notin Passes

(* What the adapters of the repository declare: an operation without       *)
(* idempotency supports no proof of absence and has no native CAS, and it  *)
(* finds only what matches its material.                                   *)
ASSUME AdaptersOk ==
  /\ Proof \subseteq Effects
  /\ NativeCas \subseteq Effects
  /\ Corruptible \subseteq Effects
  /\ Anonymous \subseteq Effects
  /\ Occupiable \subseteq {e \in Effects : Idempotency[e] # "NONE"}
  /\ \A e \in Effects : Idempotency[e] = "NONE" => e \notin Proof \union NativeCas

VARIABLES
  \* the constitutional store
  active,        \* seq of the active policy_activation row
  decisions,     \* sealed ALLOW decisions
  admissions,    \* effect_admission rows
  ordinal,       \* greatest dispatch_ordinal of each effect, 0 when none
  results,       \* results of the effect_outcome rows of each admission
  attempts,      \* UNKNOWN rows the Reconciler wrote for each admission
  incidents,     \* KERNEL_INCIDENT envelopes
  open,          \* ... those no BREAK_GLASS envelope has released
  exhausted,     \* effects with a RECONCILE_EXHAUSTED envelope
  \* the memory of the Kernel Service
  svc,           \* "scan" while it starts, "up" once its API listens
  scan,          \* admissions the restart scan still has to visit
  calls,         \* admit_and_dispatch calls inside lock D
  passes,        \* reconcileEffect calls in progress
  crashes,       \* crashes so far
  \* the targets
  wire,          \* requests sent and not yet processed
  times,         \* how often each effect took place
  lost,          \* effects whose native precondition no longer holds
  met,           \* effects whose state somebody else has brought about
  occupied       \* effects whose place a foreign object holds

storeVars  == <<active, decisions, admissions, ordinal, results, attempts,
                incidents, open, exhausted>>
memoryVars == <<svc, scan, calls, passes, crashes>>
targetVars == <<wire, times, lost, met, occupied>>
vars == <<storeVars, memoryVars, targetVars>>

Decision == [effect : Effects, policy : 1 .. MaxPolicy, human : Humans \union {NoHuman}]
Admission == [effect : Effects, ord : Ordinals, policy : 1 .. MaxPolicy,
              human : Humans \union {NoHuman}, activeAt : 1 .. MaxPolicy]
(* An incident names its effect; a wide one also names the effect's target. *)
Incident == [kind : {"OUTCOME_CONTRADICTION", "RECEIPT_MATERIAL_MISMATCH",
                     "DIGEST_CORRUPTION"},
             effect : Effects, wide : BOOLEAN]
Request == Effects \X Ordinals
(* "reading" until the admission commits, "admitted" until the request is   *)
(* sent, "sent" until the target has answered, then what it answered.       *)
Phase == {"reading", "admitted", "sent", "accepted", "unbound", "rejected"}
Call == [decision : Decision, snap : 1 .. MaxPolicy, ord : Ordinals, phase : Phase]
(* saw is "NOTHING" until the target has been read for the least of todo,   *)
(* and "SPENT" once the last attempt at it has been recorded.               *)
Pass == [id : PassIds, effect : Effects, todo : SUBSET Ordinals,
         prior : Nat, saw : Result \union {"UNBOUND", "NOTHING", "SPENT"}]

TypeOK ==
  /\ active \in 1 .. MaxPolicy
  /\ decisions \subseteq Decision
  /\ admissions \subseteq Admission
  /\ ordinal \in [Effects -> 0 .. MaxOrdinal]
  /\ results \in [Effects -> [Ordinals -> SUBSET Result]]
  /\ attempts \in [Effects -> [Ordinals -> Nat]]
  /\ incidents \subseteq Incident
  /\ open \subseteq incidents
  /\ exhausted \subseteq Effects
  /\ svc \in {"scan", "up"}
  /\ scan \subseteq Request
  /\ calls \subseteq Call
  /\ passes \subseteq Pass
  /\ crashes \in 0 .. MaxCrashes
  /\ wire \subseteq Request
  /\ times \in [Effects -> Nat]
  /\ lost \subseteq Effects
  /\ met \subseteq Effects
  /\ occupied \subseteq Effects

Init ==
  /\ active = 1
  /\ decisions = {}
  /\ admissions = {}
  /\ ordinal = [e \in Effects |-> 0]
  /\ results = [e \in Effects |-> [k \in Ordinals |-> {}]]
  /\ attempts = [e \in Effects |-> [k \in Ordinals |-> 0]]
  /\ incidents = {}
  /\ open = {}
  /\ exhausted = {}
  /\ svc = "up"
  /\ scan = {}
  /\ calls = {}
  /\ passes = {}
  /\ crashes = 0
  /\ wire = {}
  /\ times = [e \in Effects |-> 0]
  /\ lost = {}
  /\ met = {}
  /\ occupied = {}

-----------------------------------------------------------------------------
(* Reads of the store. *)

Conclusive(e, k) == results[e][k] \intersect {"COMMITTED", "NO_EFFECT_CONFIRMED"} # {}

Contradictory(e, k) == {"COMMITTED", "NO_EFFECT_CONFIRMED"} \subseteq results[e][k]

OpenOrdinals(e) == {k \in 1 .. ordinal[e] : ~Conclusive(e, k)}

(* An open incident holds its effect and, when wide, every effect of its target. *)
Held(e) == \E i \in open :
  \/ i.effect = e
  \/ i.wide /\ Domain[i.effect] = Domain[e]

(* Mutant: the reuse check looks at the admissions of one domain.           *)
HumanUnusedInDomain(d) ==
  d.human = NoHuman \/
    \A a \in admissions :
      a.human = d.human /\ Domain[a.effect] = Domain[d.effect] => a.effect = d.effect

(* Recheck #5: no admission of another effect carries the same decision. *)
HumanUnused(d) ==
  d.human = NoHuman \/ \A a \in admissions : a.human = d.human => a.effect = d.effect

(* Recheck #12: what lets dispatch_ordinal prev + 1 be written. *)
NextOrdinalAllowed(e) ==
  LET prev == ordinal[e] IN
  prev > 0 =>
    /\ ~Contradictory(e, prev)
    /\ \A k \in 1 .. prev : "COMMITTED" \notin results[e][k]
    /\ \/ "NO_EFFECT_CONFIRMED" \in results[e][prev]
       \/ Idempotency[e] = "NATIVE_KEY"

-----------------------------------------------------------------------------
(* Writes of the store. *)

Seal(new) ==
  /\ incidents' = incidents \union new
  /\ open' = open \union new

Opposite(res) == CASE res = "COMMITTED"           -> "NO_EFFECT_CONFIRMED"
                   [] res = "NO_EFFECT_CONFIRMED" -> "COMMITTED"
                   [] OTHER                       -> "NONE"

(* Mutant: only a late COMMITTED is compared with what is already there.    *)
ContradictedByCommit(e, k, res) ==
  IF res = "COMMITTED" /\ "NO_EFFECT_CONFIRMED" \in results[e][k]
  THEN {[kind |-> "OUTCOME_CONTRADICTION", effect |-> e, wide |-> FALSE]}
  ELSE {}

(* The incident writeOutcome seals before it inserts an outcome that        *)
(* contradicts one already there.                                           *)
Contradiction(e, k, res) ==
  IF Opposite(res) \in results[e][k]
  THEN {[kind |-> "OUTCOME_CONTRADICTION", effect |-> e, wide |-> FALSE]}
  ELSE {}

Mismatch(e, wide) ==
  {[kind |-> "RECEIPT_MATERIAL_MISMATCH", effect |-> e, wide |-> wide]}

Corruption(e) == {[kind |-> "DIGEST_CORRUPTION", effect |-> e, wide |-> TRUE]}

(* writeOutcome: the row is appended; receipt is the incident its caller    *)
(* sealed for a receipt that does not bind.                                 *)
WriteOutcome(e, k, res, receipt) ==
  /\ results' = [results EXCEPT ![e][k] = @ \union {res}]
  /\ Seal(receipt \union Contradiction(e, k, res))

-----------------------------------------------------------------------------
(* Policy, decisions and Root operations: what surrounds an admission.      *)

(* Another activation lands: a POLICY_ACTIVATE of another lock domain, or   *)
(* the Root listener, which takes no lock.                                  *)
Activate ==
  /\ svc = "up"
  /\ active < MaxPolicy
  /\ active' = active + 1
  /\ UNCHANGED <<decisions, admissions, ordinal, results, attempts, incidents,
                 open, exhausted, memoryVars, targetVars>>

(* evaluate seals an ALLOW bound to the policy that was active when it      *)
(* began: others may have been activated while it awaited the evaluator.    *)
Evaluate(e, h, policy) ==
  /\ svc = "up"
  /\ policy <= active
  /\ decisions' = decisions \union {[effect |-> e, policy |-> policy, human |-> h]}
  /\ UNCHANGED <<active, admissions, ordinal, results, attempts, incidents,
                 open, exhausted, memoryVars, targetVars>>

(* A BREAK_GLASS envelope releases an open incident.                        *)
Release(i) ==
  /\ svc = "up"
  /\ i \in open
  /\ open' = open \ {i}
  /\ UNCHANGED <<active, decisions, admissions, ordinal, results, attempts,
                 incidents, exhausted, memoryVars, targetVars>>

-----------------------------------------------------------------------------
(* admit_and_dispatch.                                                      *)

LockFree(dom) == \A c \in calls : Domain[c.decision.effect] # dom

Become(c, phase) == calls' = (calls \ {c}) \union {[c EXCEPT !.phase = phase]}

Return(c) == calls' = calls \ {c}

(* The call gets lock D and, before its first await, reads the active       *)
(* policy: recheck #1 will compare the decision with that snapshot.         *)
Acquire(d) ==
  /\ svc = "up"
  /\ d \in decisions
  /\ LockFree(Domain[d.effect])
  /\ calls' = calls \union {[decision |-> d, snap |-> active, ord |-> 1,
                             phase |-> "reading"]}
  /\ UNCHANGED <<storeVars, svc, scan, passes, crashes, targetVars>>

(* Every refusal: a failed precondition read, or a failed recheck, the ones *)
(* that find corruption leaving an incident behind.                         *)
Refuse(c) ==
  /\ c.phase = "reading"
  /\ \/ UNCHANGED <<incidents, open>>
     \/ c.decision.effect \in Corruptible /\ Seal(Corruption(c.decision.effect))
  /\ Return(c)
  /\ UNCHANGED <<active, decisions, admissions, ordinal, results, attempts,
                 exhausted, svc, scan, passes, crashes, targetVars>>

(* The admission transaction.                                               *)
Admit(c) ==
  LET d == c.decision
      e == d.effect
      k == ordinal[e] + 1
  IN
  /\ c.phase = "reading"
  /\ d.policy = c.snap
  /\ HumanUnused(d)
  /\ ~Held(e)
  /\ NextOrdinalAllowed(e)
  /\ k <= MaxOrdinal
  /\ admissions' = admissions \union
       {[effect |-> e, ord |-> k, policy |-> d.policy, human |-> d.human,
         activeAt |-> active]}
  /\ ordinal' = [ordinal EXCEPT ![e] = k]
  /\ calls' = (calls \ {c}) \union {[c EXCEPT !.phase = "admitted", !.ord = k]}
  /\ UNCHANGED <<active, decisions, results, attempts, incidents, open,
                 exhausted, svc, scan, passes, crashes, targetVars>>

(* adapter.dispatch puts the request on the wire.                           *)
Send(c) ==
  /\ c.phase = "admitted"
  /\ wire' = wire \union {<<c.decision.effect, c.ord>>}
  /\ Become(c, "sent")
  /\ UNCHANGED <<storeVars, svc, scan, passes, crashes, times, lost, met, occupied>>

(* Mutant: an answer that does not come is provoked by sending once more.   *)
GiveUpResending(c) ==
  /\ c.phase # "reading"
  /\ WriteOutcome(c.decision.effect, c.ord, "UNKNOWN", {})
  /\ wire' = wire \union {<<c.decision.effect, c.ord>>}
  /\ Return(c)
  /\ UNCHANGED <<active, decisions, admissions, ordinal, attempts, exhausted,
                 svc, scan, passes, crashes, times, lost, met, occupied>>

(* Mutant: an answer that does not come is taken for a rejection.           *)
TakeForRejected(c) ==
  /\ c.phase # "reading"
  /\ WriteOutcome(c.decision.effect, c.ord, IF c.decision.effect \in Proof \union NativeCas
                     THEN "NO_EFFECT_CONFIRMED" ELSE "UNKNOWN", {})
  /\ Return(c)
  /\ UNCHANGED <<active, decisions, admissions, ordinal, attempts, exhausted,
                 svc, scan, passes, crashes, targetVars>>

(* The dispatch window closed before the send, the send failed, or no       *)
(* answer came in time: UNKNOWN, and the request may still be on its way.   *)
GiveUp(c) ==
  /\ c.phase # "reading"
  /\ WriteOutcome(c.decision.effect, c.ord, "UNKNOWN", {})
  /\ Return(c)
  /\ UNCHANGED <<active, decisions, admissions, ordinal, attempts, exhausted,
                 svc, scan, passes, crashes, targetVars>>

(* Mutant: an acceptance is believed, whatever its receipt binds to.        *)
BelieveAcceptance(c) ==
  /\ c.phase \in {"accepted", "unbound"}
  /\ WriteOutcome(c.decision.effect, c.ord, "COMMITTED", {})
  /\ Return(c)
  /\ UNCHANGED <<active, decisions, admissions, ordinal, attempts, exhausted,
                 svc, scan, passes, crashes, targetVars>>

(* The target accepted, and its receipt binds to the material or does not.  *)
ObserveAccepted(c) ==
  /\ c.phase \in {"accepted", "unbound"}
  /\ IF c.phase = "accepted"
     THEN WriteOutcome(c.decision.effect, c.ord, "COMMITTED", {})
     ELSE WriteOutcome(c.decision.effect, c.ord, "UNKNOWN", Mismatch(c.decision.effect, TRUE))
  /\ Return(c)
  /\ UNCHANGED <<active, decisions, admissions, ordinal, attempts, exhausted,
                 svc, scan, passes, crashes, targetVars>>

(* The target rejected: conclusive only where the adapter can prove it.     *)
RejectionResult(e) ==
  IF e \in Proof \union NativeCas THEN "NO_EFFECT_CONFIRMED" ELSE "UNKNOWN"

ObserveRejected(c) ==
  /\ c.phase = "rejected"
  /\ WriteOutcome(c.decision.effect, c.ord, RejectionResult(c.decision.effect), {})
  /\ Return(c)
  /\ UNCHANGED <<active, decisions, admissions, ordinal, attempts, exhausted,
                 svc, scan, passes, crashes, targetVars>>

-----------------------------------------------------------------------------
(* The targets: a request is processed once, at any time after it was sent, *)
(* and the answer reaches the call if the call still waits for it.          *)

Waiting(q) == {c \in calls : c.phase = "sent" /\ <<c.decision.effect, c.ord>> = q}

Answer(q, answer) ==
  calls' = (calls \ Waiting(q)) \union {[c EXCEPT !.phase = answer] : c \in Waiting(q)}

(* A key is written once, by whomever; a native precondition holds once;    *)
(* without idempotency every request takes place.                           *)
MayTakePlace(e) ==
  CASE Idempotency[e] = "NATIVE_KEY"          -> times[e] = 0 /\ e \notin met \union occupied
    [] Idempotency[e] = "NATIVE_PRECONDITION" -> times[e] = 0 /\ e \notin lost
    [] OTHER                                  -> TRUE

Land(q) ==
  /\ q \in wire
  /\ MayTakePlace(q[1])
  /\ times' = [times EXCEPT ![q[1]] = @ + 1]
  /\ wire' = wire \ {q}
  /\ Answer(q, "accepted")
  /\ UNCHANGED <<storeVars, svc, scan, passes, crashes, lost, met, occupied>>

(* What the material asks of the target is there, whoever made it.          *)
There(e) == times[e] > 0 \/ e \in met

(* The target already is what the request asks for, by this effect's doing  *)
(* or by somebody else's, or a foreign object holds the key: the answer     *)
(* describes what is there.                                                 *)
FindTaken(q) ==
  LET e == q[1] IN
  /\ q \in wire
  /\ \/ Idempotency[e] # "NONE" /\ There(e) /\ Answer(q, "accepted")
     \/ Idempotency[e] = "NATIVE_KEY" /\ e \in occupied /\ Answer(q, "unbound")
  /\ wire' = wire \ {q}
  /\ UNCHANGED <<storeVars, svc, scan, passes, crashes, times, lost, met, occupied>>

(* A validation failure, or a native precondition that does not hold.       *)
Reject(q) ==
  /\ q \in wire
  /\ wire' = wire \ {q}
  /\ Answer(q, "rejected")
  /\ UNCHANGED <<storeVars, svc, scan, passes, crashes, times, lost, met, occupied>>

(* The request is lost before the target sees it.                           *)
Drop(q) ==
  /\ q \in wire
  /\ wire' = wire \ {q}
  /\ UNCHANGED <<storeVars, memoryVars, times, lost, met, occupied>>

(* What somebody else does to the target uses a native precondition up.     *)
MovedFor(e) == IF Idempotency[e] = "NATIVE_PRECONDITION" THEN lost \union {e} ELSE lost

(* Somebody else moves the target past this effect's native precondition.   *)
LosePrecondition(e) ==
  /\ Idempotency[e] = "NATIVE_PRECONDITION"
  /\ times[e] = 0
  /\ lost' = lost \union {e}
  /\ UNCHANGED <<storeVars, memoryVars, wire, times, met, occupied>>

(* Somebody else brings about the very state the effect would: the same ref *)
(* at the same commit, a merge, an activation or a record of this content.  *)
Match(e) ==
  /\ e \in Anonymous
  /\ times[e] = 0
  /\ e \notin occupied
  /\ met' = met \union {e}
  /\ lost' = MovedFor(e)
  /\ UNCHANGED <<storeVars, memoryVars, wire, times, occupied>>

(* Somebody else puts another object in its place: a workflow under its id, *)
(* a record under its key, a merge of the pull request at another head.     *)
Occupy(e) ==
  /\ e \in Occupiable
  /\ times[e] = 0
  /\ e \notin met
  /\ occupied' = occupied \union {e}
  /\ lost' = MovedFor(e)
  /\ UNCHANGED <<storeVars, memoryVars, wire, times, met>>

-----------------------------------------------------------------------------
(* The Reconciler.                                                          *)

(* Mutant: whatever is not there did not take place.                        *)
AbsenceIsProof(e) ==
  {"UNKNOWN", IF times[e] > 0 THEN "COMMITTED" ELSE "NO_EFFECT_CONFIRMED"}

(* What adapter.reconcile can answer now.  A failed or non-authoritative    *)
(* read is UNKNOWN; a state that matches the material is COMMITTED, whoever *)
(* made it; absence is proof only where the adapter declares it: of a key,  *)
(* that it is not there; of a native precondition, that it is lost.         *)
TargetReads(e) ==
  {"UNKNOWN"}
  \union (IF There(e) THEN {"COMMITTED"} ELSE {})
  \union (IF e \in occupied THEN {"UNBOUND"} ELSE {})
  \union (IF /\ e \in Proof
             /\ ~There(e)
             /\ \/ Idempotency[e] = "NATIVE_KEY" /\ e \notin occupied
                \/ Idempotency[e] = "NATIVE_PRECONDITION" /\ e \in lost
          THEN {"NO_EFFECT_CONFIRMED"} ELSE {})

NewPass(r, e) == [id |-> r, effect |-> e, todo |-> OpenOrdinals(e), prior |-> 0,
                  saw |-> "NOTHING"]

(* The open admission the pass is at: the least ordinal it has left.        *)
Heads(p) == {k \in p.todo : \A j \in p.todo : k <= j}

(* The pass goes on to its next open admission, or returns.                 *)
Advance(p, k) ==
  LET rest == p.todo \ {k} IN
  passes' = (passes \ {p}) \union
            (IF rest = {} THEN {}
             ELSE {[p EXCEPT !.todo = rest, !.prior = 0, !.saw = "NOTHING"]})

(* request_reconcile: the open admissions are listed once, at the start.    *)
StartPass(r, e) ==
  /\ svc = "up"
  /\ \A p \in passes : p.id # r
  /\ OpenOrdinals(e) # {}
  /\ passes' = passes \union {NewPass(r, e)}
  /\ UNCHANGED <<storeVars, svc, scan, calls, crashes, targetVars>>

(* Mutant: the attempt about to be made is counted as made.                 *)
ExhaustEarly(p, k) ==
  /\ \/ p.saw = "SPENT"
     \/ p.saw = "NOTHING" /\ attempts[p.effect][k] + 1 >= MaxAttempts
  /\ exhausted' = exhausted \union {p.effect}
  /\ Advance(p, k)
  /\ UNCHANGED <<active, decisions, admissions, ordinal, results, attempts,
                 incidents, open, svc, scan, calls, crashes, targetVars>>

(* Mutant: the exception is routed only by the row that spends the attempts,*)
(* so a crash just after that row leaves nobody to route it.                *)
ExhaustWithTheRow(p, k) ==
  /\ p.saw = "SPENT"
  /\ exhausted' = exhausted \union {p.effect}
  /\ Advance(p, k)
  /\ UNCHANGED <<active, decisions, admissions, ordinal, results, attempts,
                 incidents, open, svc, scan, calls, crashes, targetVars>>

(* The attempts are used up, by the row just recorded or before: the        *)
(* exception is routed, the target not read.                                *)
Exhaust(p, k) ==
  /\ \/ p.saw = "SPENT"
     \/ p.saw = "NOTHING" /\ attempts[p.effect][k] >= MaxAttempts
  /\ exhausted' = exhausted \union {p.effect}
  /\ Advance(p, k)
  /\ UNCHANGED <<active, decisions, admissions, ordinal, results, attempts,
                 incidents, open, svc, scan, calls, crashes, targetVars>>

(* The attempts so far are counted and the target is read.                  *)
Read(p, k) ==
  /\ p.saw = "NOTHING"
  /\ attempts[p.effect][k] < MaxAttempts
  /\ \E saw \in TargetReads(p.effect) :
       passes' = (passes \ {p}) \union
                 {[p EXCEPT !.prior = attempts[p.effect][k], !.saw = saw]}
  /\ UNCHANGED <<storeVars, svc, scan, calls, crashes, targetVars>>

(* The answer is recorded, whatever has been recorded since the read.  Only *)
(* an UNKNOWN answer, not a receipt that does not bind, can spend the last  *)
(* attempt.                                                                 *)
Record(p, k) ==
  LET e == p.effect
      res == IF p.saw = "UNBOUND" THEN "UNKNOWN" ELSE p.saw
  IN
  /\ p.saw \in Result \union {"UNBOUND"}
  /\ WriteOutcome(e, k, res, IF p.saw = "UNBOUND" THEN Mismatch(e, FALSE) ELSE {})
  /\ attempts' = IF res = "UNKNOWN" THEN [attempts EXCEPT ![e][k] = @ + 1] ELSE attempts
  /\ IF p.saw = "UNKNOWN" /\ p.prior + 1 >= MaxAttempts
     THEN passes' = (passes \ {p}) \union {[p EXCEPT !.saw = "SPENT"]}
     ELSE Advance(p, k)
  /\ UNCHANGED <<active, decisions, admissions, ordinal, exhausted, svc, scan,
                 calls, crashes, targetVars>>

-----------------------------------------------------------------------------
(* Crash and restart.                                                       *)

(* Incidents are sealed in a transaction of their own: a crash may fall     *)
(* between one and the outcome it announces.                                *)
HalfWritten ==
  {{}} \union {Contradiction(c.decision.effect, c.ord, "COMMITTED") :
                 c \in {c \in calls : c.phase = "accepted"}}
       \union {Contradiction(c.decision.effect, c.ord, RejectionResult(c.decision.effect)) :
                 c \in {c \in calls : c.phase = "rejected"}}
       \union {Mismatch(c.decision.effect, TRUE) :
                 c \in {c \in calls : c.phase = "unbound"}}
       \union (UNION {{Contradiction(p.effect, k, p.saw) : k \in Heads(p)} :
                         p \in {p \in passes : p.saw \in Result}})
       \union {Mismatch(p.effect, FALSE) : p \in {p \in passes : p.saw = "UNBOUND"}}

(* Memory is lost, rows and requests are not.  The service starts again     *)
(* with the list of all admissions, and its API listens after the scan.     *)
Crash ==
  /\ crashes < MaxCrashes
  /\ crashes' = crashes + 1
  /\ \E sealed \in HalfWritten : Seal(sealed)
  /\ calls' = {}
  /\ passes' = {}
  /\ svc' = "scan"
  /\ scan' = {<<a.effect, a.ord>> : a \in admissions}
  /\ UNCHANGED <<active, decisions, admissions, ordinal, results, attempts,
                 exhausted, targetVars>>

(* Mutant: the scan looks only for admissions with an UNKNOWN row.          *)
ScanUnknown(q) ==
  /\ svc = "scan"
  /\ passes = {}
  /\ q \in scan
  /\ scan' = scan \ {q}
  /\ passes' = IF results[q[1]][q[2]] = {"UNKNOWN"} THEN {NewPass(Boot, q[1])} ELSE {}
  /\ UNCHANGED <<storeVars, svc, calls, crashes, targetVars>>

(* The scan takes its next admission (any, its order does not matter, the   *)
(* ordinals of one effect ascending) and reconciles its effect if open.     *)
ScanNext(q) ==
  /\ svc = "scan"
  /\ passes = {}
  /\ q \in scan
  /\ \A o \in scan : o[1] = q[1] => q[2] <= o[2]
  /\ scan' = scan \ {q}
  /\ passes' = IF Conclusive(q[1], q[2]) THEN {} ELSE {NewPass(Boot, q[1])}
  /\ UNCHANGED <<storeVars, svc, calls, crashes, targetVars>>

ScanDone ==
  /\ svc = "scan"
  /\ passes = {}
  /\ scan = {}
  /\ svc' = "up"
  /\ UNCHANGED <<storeVars, scan, calls, passes, crashes, targetVars>>

-----------------------------------------------------------------------------
CallStep(c) ==
  \/ Refuse(c) \/ Admit(c) \/ Send(c) \/ GiveUp(c)
  \/ ObserveAccepted(c) \/ ObserveRejected(c)

PassStep(p) == \E k \in Heads(p) : Exhaust(p, k) \/ Read(p, k) \/ Record(p, k)

ScanStep == (\E q \in scan : ScanNext(q)) \/ ScanDone

Next ==
  \/ Activate
  \/ \E e \in Effects, h \in Humans \union {NoHuman}, policy \in 1 .. MaxPolicy :
       Evaluate(e, h, policy)
  \/ \E i \in open : Release(i)
  \/ \E d \in decisions : Acquire(d)
  \/ \E c \in calls : CallStep(c)
  \/ \E q \in wire : Land(q) \/ FindTaken(q) \/ Reject(q) \/ Drop(q)
  \/ \E e \in Effects : LosePrecondition(e) \/ Match(e) \/ Occupy(e)
  \/ \E r \in Passes, e \in Effects : StartPass(r, e)
  \/ \E p \in passes : PassStep(p)
  \/ Crash
  \/ ScanStep

Spec == Init /\ [][Next]_vars

(* The event loop runs every continuation that is ready, a transport that   *)
(* does not answer is timed out by its adapter, and a service that crashed  *)
(* is started again.  Nobody has to ask for a reconciliation, and nothing   *)
(* is assumed of the targets.                                               *)
Fairness ==
  /\ \A dom \in Domains :
       WF_vars(\E c \in calls : Domain[c.decision.effect] = dom /\ CallStep(c))
  /\ WF_vars(\E p \in passes : PassStep(p))
  /\ WF_vars(ScanStep)

FairSpec == Spec /\ Fairness

-----------------------------------------------------------------------------
(* What the path promises of the targets: OneEffect, seen through the rows  *)
(* and the targets.                                                         *)
Promise == INSTANCE OneEffect WITH
  asked <- {e \in Effects : ordinal[e] > 0},
  taken <- times,
  met   <- met,
  told  <- {e \in Effects : \E k \in Ordinals : "COMMITTED" \in results[e][k]}

-----------------------------------------------------------------------------
(* Properties. *)

(* The path implements OneEffect: an effect takes place only after it was   *)
(* admitted, at most once, and is told of only after it took place or, if   *)
(* its receipt does not say who made it, after somebody else brought its    *)
(* state about, through every retry, pass, lost answer and crash.           *)
PromiseKept == Promise!Spec

(* One effect_id is one logical effect: however calls, passes, crashes and  *)
(* delayed requests interleave, the target makes it happen at most once.    *)
(* For a key or a native precondition the target helps; for an operation    *)
(* without idempotency only rechecks #12 and the single dispatch do.        *)
AtMostOneEffect == \A e \in Effects : times[e] <= 1

(* The state a COMMITTED row tells of is or was there: made by the effect,  *)
(* or by somebody else where the receipt does not say by whom.  Neither a   *)
(* foreign object (receipt binding) nor a lost answer makes such a row.     *)
CommittedIsTrue ==
  \A e \in Effects, k \in Ordinals :
    "COMMITTED" \in results[e][k] => times[e] > 0 \/ e \in met

(* No blind retry: every admission but the last of an effect whose target   *)
(* has no idempotency key was proven to have had no effect before the next  *)
(* one was admitted.                                                        *)
NoBlindRetry ==
  \A e \in Effects : Idempotency[e] # "NATIVE_KEY" =>
    \A k \in 1 .. ordinal[e] - 1 : "NO_EFFECT_CONFIRMED" \in results[e][k]

(* Nothing reaches a target, or its outcome the ledger, without a durable   *)
(* admission row that a restart can find.                                   *)
NothingUnadmitted ==
  /\ \A q \in wire : q[2] <= ordinal[q[1]]
  /\ \A e \in Effects : times[e] > 0 => ordinal[e] > 0
  /\ \A e \in Effects, k \in Ordinals : results[e][k] # {} => k <= ordinal[e]

(* Two answers that cannot both be true leave an incident behind, also when *)
(* the service crashes while it records the second.                         *)
ContradictionIsReported ==
  \A e \in Effects, k \in Ordinals : Contradictory(e, k) =>
    \E i \in incidents : i.effect = e /\ i.kind = "OUTCOME_CONTRADICTION"

(* A Human decision authorises one effect, whatever number of decisions     *)
(* and domains it is presented in.                                          *)
HumanDecisionUsedOnce ==
  \A a, b \in admissions :
    a.human = b.human /\ a.human # NoHuman => a.effect = b.effect

(* Absence is proof where the target has no key: what the last admission's  *)
(* rows call absent has not taken place, whether the call's rejection or a  *)
(* read says so, and whatever is still on its way: recheck #12 rests on it. *)
AbsenceIsTrue ==
  \A e \in Effects : Idempotency[e] # "NATIVE_KEY" /\ ordinal[e] > 0 =>
    ("NO_EFFECT_CONFIRMED" \in results[e][ordinal[e]] => times[e] = 0)

(* Once an effect has taken place at a target that would not recognise it,  *)
(* no request for it leaves any more, whoever still holds an admission and  *)
(* whatever the service has forgotten.                                      *)
NoSendAfterEffect ==
  [][\A e \in Effects : Idempotency[e] # "NATIVE_KEY" /\ times[e] > 0 =>
       \A q \in wire' : q[1] = e => q \in wire]_vars

(* Every admission gets an outcome row: from its call, or from the restart  *)
(* scan when the service crashed before it could write one.                 *)
AdmissionGetsOutcome ==
  \A e \in Effects, k \in Ordinals : (k <= ordinal[e]) ~> (results[e][k] # {})

(* TD 6.5: when the attempts at an open admission are used up the effect is *)
(* routed to the Human exception branch.                                    *)
ExceptionIsRouted ==
  \A e \in Effects, k \in Ordinals :
    (attempts[e][k] >= MaxAttempts) ~> (e \in exhausted \/ Conclusive(e, k))

(* ... and only then.                                                       *)
ExhaustedAfterAttempts ==
  \A e \in exhausted : \E k \in Ordinals : attempts[e][k] >= MaxAttempts

(* TD 5.3 and pep.ts:4: an effect is admitted under the policy that is      *)
(* active when its admission commits.                                       *)
AdmittedUnderActivePolicy == \A a \in admissions : a.policy = a.activeAt

(* Spec v0.5 K7: NO_EFFECT_CONFIRMED is proof that the effect did not take  *)
(* place, so not all that the ledger says of an effect that did is that it  *)
(* did not.                                                                 *)
NoEffectIsTrue ==
  \A e \in Effects : times[e] > 0 => \E k \in 1 .. ordinal[e] :
    "NO_EFFECT_CONFIRMED" \in results[e][k] => "COMMITTED" \in results[e][k]

(* TD 6.5 and reconciler.ts:2: the Reconciler runs on an UNKNOWN write, so  *)
(* an UNKNOWN row is followed by an attempt to resolve it.                  *)
UnknownIsReconciled ==
  \A e \in Effects, k \in Ordinals :
    ("UNKNOWN" \in results[e][k]) ~> (attempts[e][k] > 0 \/ Conclusive(e, k))

-----------------------------------------------------------------------------
(* The inductive invariant: what the steps of calls, passes and targets     *)
(* keep true together, and from which the properties above follow.          *)

(* Lock D: one call at a time in a serialization domain.                    *)
OneCallPerDomain ==
  \A c, d \in calls :
    Domain[c.decision.effect] = Domain[d.decision.effect] => c = d

(* What a call or a pass is about to write is about an admitted ordinal.    *)
MemoryIsAdmitted ==
  /\ \A c \in calls : c.phase # "reading" => c.ord <= ordinal[c.decision.effect]
  /\ \A p \in passes : \A k \in p.todo : k <= ordinal[p.effect]

(* What a call or a pass will record as committed is or was there.          *)
MemoryIsTrue ==
  /\ \A c \in calls : c.phase = "accepted" =>
       times[c.decision.effect] > 0 \/ c.decision.effect \in met
  /\ \A p \in passes : p.saw = "COMMITTED" => times[p.effect] > 0 \/ p.effect \in met

(* An effect whose target neither deduplicates nor checks a precondition is *)
(* never declared absent, so it is admitted once, and of that admission     *)
(* there is the unsent call, the request or the effect, and never two.      *)
SentOnce ==
  \A e \in Effects : Idempotency[e] = "NONE" =>
    /\ \A k \in Ordinals : "NO_EFFECT_CONFIRMED" \notin results[e][k]
    /\ \A p \in passes : p.effect = e => p.saw # "NO_EFFECT_CONFIRMED"
    /\ ordinal[e] <= 1
    /\ \A c \in calls : c.decision.effect = e /\ c.phase = "admitted" =>
         times[e] = 0 /\ \A q \in wire : q[1] # e
    /\ \A q \in wire : q[1] = e => times[e] = 0

(* The attempts a pass has counted are there.                               *)
AttemptsAreThere ==
  \A p \in passes : \A k \in Heads(p) :
    /\ p.saw # "NOTHING" => p.prior <= attempts[p.effect][k]
    /\ p.saw = "SPENT" => attempts[p.effect][k] >= MaxAttempts

IInv ==
  /\ TypeOK
  /\ OneCallPerDomain
  /\ MemoryIsAdmitted
  /\ MemoryIsTrue
  /\ SentOnce
  /\ AttemptsAreThere
  /\ NothingUnadmitted
  /\ CommittedIsTrue
  /\ AtMostOneEffect
=============================================================================
