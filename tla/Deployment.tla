------------------------------ MODULE Deployment ------------------------------
(***************************************************************************)
(* DEPLOY: the kernel restarts the broker and the worker of its own        *)
(* deployment (cadp/kernel/adapters/deploymentActuation.ts) through the    *)
(* component control of the live scripts (cadp/live/componentControl.ts),  *)
(* and reconciles it by probes that deployment-control runs and seals (ctl *)
(* attest).                                                                *)
(*                                                                         *)
(* Every method of the live component runner is synchronous: from the      *)
(* admission to the outcome nothing else of the service runs, but the      *)
(* service can die at any point of it, and processes, the checkout and the *)
(* operator's own commands go on beside it.                                *)
(*                                                                         *)
(* An envelope is modelled by what is read of it: the effect it is bound   *)
(* to, whether it passes, and whether it was produced after that effect's  *)
(* last admission.                                                         *)
(***************************************************************************)
EXTENDS Integers, FiniteSets

CONSTANTS
  Effects,      \* sealed requests of DEPLOY
  Components,   \* what the adapter can restart
  Shas,         \* commits the checkout can be at
  Sha,          \* of each effect: material.sha
  Parts,        \* ... material.components
  Expected,     \* ... material.expected_prior: code and pid of each part
  Passes,       \* concurrent request_reconcile calls
  Boot,         \* the pass of the restart scan
  Nobody,       \* no effect, no pass
  NoCall,
  FirstSha,     \* what the components run, and the checkout is at, in the beginning
  MaxOrdinal,   \* MAX_DISPATCH_ORDINAL of the policy
  MaxAttempts,  \* reconcile_max_attempts of the policy
  MaxPid,       \* bound: processes started
  MaxCrashes    \* bound: crashes of the service

Ordinals == 1 .. MaxOrdinal
Results == {"COMMITTED", "NO_EFFECT_CONFIRMED", "UNKNOWN"}
PassIds == Passes \union {Boot}
Claim == [code : Shas, pid : 0 .. MaxPid]   \* pid 0: none was claimed

ASSUME ConstantsOk ==
  /\ FirstSha \in Shas
  /\ Sha \in [Effects -> Shas]
  /\ Parts \in [Effects -> (SUBSET Components) \ {{}}]
  /\ Expected \in [Effects -> [Components -> Claim]]
  /\ Boot \notin Passes
  /\ Nobody \notin Effects \union PassIds
  /\ {MaxOrdinal, MaxAttempts} \subseteq Nat \ {0}
  /\ {MaxPid, MaxCrashes} \subseteq Nat
  /\ IsFiniteSet(Components) /\ Cardinality(Components) <= MaxPid   \* each runs in the beginning

VARIABLES
  \* the constitutional store
  ordinal,    \* last dispatch_ordinal of each effect
  results,    \* outcome rows of each admission
  attempts,   \* UNKNOWN rows of the Reconciler for each admission
  exhausted,  \* effects with a RECONCILE_EXHAUSTED envelope
  reach,      \* the latest CREDENTIAL_REACH_ATTESTATION
  immutable,  \* the latest TARGET_IMMUTABILITY_ATTESTATION of the repository
  failed,     \* effects with a failing reach envelope since their admission
  \* the memory of the service
  svc,        \* "scan" while it starts, "up" once its API listens
  scan,       \* effects the restart scan still has to visit
  call,       \* admit_and_dispatch inside lock D, or NoCall
  passes,     \* reconcileEffect calls in progress
  crashes,
  \* the host
  head,       \* the commit of the checkout
  pidfile,    \* the pid file of each component
  procs,      \* the live processes
  spawned,    \* the greatest pid given so far
  attests,    \* runs of ctl attest
  \* history
  touched,    \* dispatches that have stopped or started a component
  broken      \* effects with a failing reach envelope after they touched one

storeVars == <<ordinal, results, attempts, exhausted, reach, immutable, failed>>
serviceVars == <<svc, scan, call, passes, crashes>>
hostVars == <<head, pidfile, procs, spawned>>
historyVars == <<touched, broken>>
vars == <<storeVars, serviceVars, hostVars, attests, historyVars>>

Envelope == [effect : Effects \union {Nobody}, passing : BOOLEAN, after : BOOLEAN]
Process == [comp : Components, pid : 1 .. MaxPid, code : Shas]
(* A call reads its preconditions, has them, is admitted, replaces one     *)
(* component after the other (stopped, started but not yet in its pid      *)
(* file), and knows the answer of its dispatch.                            *)
Phase == {"reading", "pinned", "admitted", "replacing", "stopped", "started",
          "rejected", "ambiguous"}
Call == [effect : Effects, phase : Phase, todo : SUBSET Components,
         part : Components \union {Nobody}, pid : 0 .. MaxPid]
Pass == [id : PassIds, effect : Effects, ord : Ordinals, prior : Nat]
Attest == [owner : PassIds \union {Nobody}, effect : Effects \union {Nobody},
           step : {"reach", "immutable", "done", "failed"}]

TypeOK ==
  /\ ordinal \in [Effects -> 0 .. MaxOrdinal]
  /\ results \in [Effects -> [Ordinals -> SUBSET Results]]
  /\ attempts \in [Effects -> [Ordinals -> Nat]]
  /\ exhausted \subseteq Effects
  /\ reach \in Envelope
  /\ immutable \in Envelope
  /\ failed \subseteq Effects
  /\ svc \in {"scan", "up"}
  /\ scan \subseteq Effects
  /\ call \in Call \union {NoCall}
  /\ passes \subseteq Pass
  /\ crashes \in 0 .. MaxCrashes
  /\ head \in Shas
  /\ pidfile \in [Components -> 1 .. MaxPid]
  /\ procs \subseteq Process
  /\ spawned \in 0 .. MaxPid
  /\ attests \subseteq Attest
  /\ touched \subseteq Effects \X Ordinals
  /\ broken \subseteq Effects

FirstPid == CHOOSE f \in [Components -> 1 .. Cardinality(Components)] :
              \A c, d \in Components : f[c] = f[d] => c = d

(* The first attestations passed; both components run the first checkout.  *)
Init ==
  /\ ordinal = [e \in Effects |-> 0]
  /\ results = [e \in Effects |-> [k \in Ordinals |-> {}]]
  /\ attempts = [e \in Effects |-> [k \in Ordinals |-> 0]]
  /\ exhausted = {}
  /\ reach = [effect |-> Nobody, passing |-> TRUE, after |-> TRUE]
  /\ immutable = [effect |-> Nobody, passing |-> TRUE, after |-> TRUE]
  /\ failed = {}
  /\ svc = "up"
  /\ scan = {}
  /\ call = NoCall
  /\ passes = {}
  /\ crashes = 0
  /\ head = FirstSha
  /\ spawned = Cardinality(Components)
  /\ pidfile = FirstPid
  /\ procs = {[comp |-> c, pid |-> pidfile[c], code |-> FirstSha] : c \in Components}
  /\ attests = {}
  /\ touched = {}
  /\ broken = {}

-----------------------------------------------------------------------------
(* The host: componentControl.ts and the operator.  That a process ends by *)
(* itself is left out: nothing reads whether it lives.                     *)

(* killLiveComponent signals whatever its pid file names, if anything.     *)
WithoutNamed(c) == {q \in procs : q.pid # pidfile[c]}

(* ctl start, beside whatever runs already.                                *)
OperatorStarts(c) ==
  /\ spawned < MaxPid
  /\ spawned' = spawned + 1
  /\ procs' = procs \union {[comp |-> c, pid |-> spawned', code |-> head]}
  /\ pidfile' = [pidfile EXCEPT ![c] = spawned']
  /\ UNCHANGED <<storeVars, serviceVars, head, attests, historyVars>>

(* Somebody moves the checkout (external).                                 *)
MoveCheckout(s) ==
  /\ head' = s
  /\ UNCHANGED <<storeVars, serviceVars, pidfile, procs, spawned, attests, historyVars>>

-----------------------------------------------------------------------------
(* admit_and_dispatch of a DEPLOY.                                         *)

Become(phase) == call' = [call EXCEPT !.phase = phase]

In(phase) == call # NoCall /\ call.phase = phase

(* From its admission to its outcome a call never yields to an event.      *)
Idle == call # NoCall => call.phase \in {"reading", "pinned"}

Conclusive(e, k) == results[e][k] \intersect {"COMMITTED", "NO_EFFECT_CONFIRMED"} # {}

Open(e) == ordinal[e] > 0 /\ ~Conclusive(e, ordinal[e])

(* describe().available: the two latest attestations pass.                 *)
Begin(e) ==
  /\ svc = "up"
  /\ call = NoCall
  /\ reach.passing
  /\ immutable.passing
  /\ call' = [effect |-> e, phase |-> "reading", todo |-> Parts[e], part |-> Nobody, pid |-> 0]
  /\ UNCHANGED <<storeVars, svc, scan, passes, crashes, hostVars, attests, historyVars>>

(* dispatch_precondition_read: the checkout is at the commit.              *)
ReadCheckout ==
  /\ In("reading")
  /\ head = Sha[call.effect]
  /\ Become("pinned")
  /\ UNCHANGED <<storeVars, svc, scan, passes, crashes, hostVars, attests, historyVars>>

(* Any refusal: these reads, changes in the work tree, GitHub's comparison *)
(* with main, or a recheck.                                                *)
Refuse ==
  /\ call # NoCall
  /\ Idle
  /\ call' = NoCall
  /\ UNCHANGED <<storeVars, svc, scan, passes, crashes, hostVars, attests, historyVars>>

(* Mutant: whatever is not committed may be dispatched again.              *)
RetryUnlessCommitted(e) == ordinal[e] > 0 => "COMMITTED" \notin results[e][ordinal[e]]

(* Recheck #12 for an operation whose idempotency is a native              *)
(* precondition.                                                           *)
NextOrdinalAllowed(e) ==
  ordinal[e] > 0 =>
    /\ "NO_EFFECT_CONFIRMED" \in results[e][ordinal[e]]
    /\ \A k \in 1 .. ordinal[e] : "COMMITTED" \notin results[e][k]

Older(envelope, e) == [envelope EXCEPT !.after = @ /\ envelope.effect # e]

(* The admission transaction: rechecks #8 and #12, the row.  #14 asks for  *)
(* an attestation of the actuation target, which is taken as given:        *)
(* nothing under src/ seals one.                                           *)
Admit ==
  LET e == call.effect IN
  /\ In("pinned")
  /\ reach.passing
  /\ NextOrdinalAllowed(e)
  /\ ordinal[e] < MaxOrdinal
  /\ ordinal' = [ordinal EXCEPT ![e] = @ + 1]
  /\ reach' = Older(reach, e)
  /\ immutable' = Older(immutable, e)
  /\ failed' = failed \ {e}
  /\ Become("admitted")
  /\ UNCHANGED <<results, attempts, exhausted, svc, scan, passes, crashes, hostVars,
                 attests, historyVars>>

(* What observe reports of a component: the pid of its pid file, and as    *)
(* its code the commit of the checkout.                                    *)
AsExpected(e, c) ==
  /\ Expected[e][c].code = head
  /\ Expected[e][c].pid \in {0, pidfile[c]}

(* The whole set is observed and compared before any of it is touched.     *)
Compare ==
  /\ In("admitted")
  /\ Become(IF \A c \in Parts[call.effect] : AsExpected(call.effect, c)
            THEN "replacing" ELSE "rejected")
  /\ UNCHANGED <<storeVars, svc, scan, passes, crashes, hostVars, attests, historyVars>>

(* Mutant: whatever throws is answered as a rejection.                     *)
ThrowsAsRejection ==
  /\ In("admitted") \/ In("stopped")
  /\ Become("rejected")
  /\ UNCHANGED <<storeVars, svc, scan, passes, crashes, hostVars, attests, historyVars>>

(* The dispatch window has passed, or an observation throws (no pid file,  *)
(* no docker), or a start (no sandbox).                                    *)
Throws ==
  /\ In("admitted") \/ In("stopped")
  /\ Become("ambiguous")
  /\ UNCHANGED <<storeVars, svc, scan, passes, crashes, hostVars, attests, historyVars>>

Stop(c) ==
  /\ In("replacing")
  /\ c \in call.todo
  /\ procs' = WithoutNamed(c)
  /\ call' = [call EXCEPT !.phase = "stopped", !.todo = @ \ {c}, !.part = c]
  /\ touched' = touched \union {<<call.effect, ordinal[call.effect]>>}
  /\ UNCHANGED <<storeVars, svc, scan, passes, crashes, head, pidfile, spawned,
                 attests, broken>>

(* startLiveComponent: the process exists before its pid file says so.     *)
Spawn ==
  /\ In("stopped")
  /\ spawned < MaxPid
  /\ spawned' = spawned + 1
  /\ procs' = procs \union {[comp |-> call.part, pid |-> spawned', code |-> head]}
  /\ call' = [call EXCEPT !.phase = "started", !.pid = spawned']
  /\ UNCHANGED <<storeVars, svc, scan, passes, crashes, head, pidfile, attests, historyVars>>

(* The pid file, and the observation of what was started, which may throw. *)
WritePid ==
  /\ In("started")
  /\ pidfile' = [pidfile EXCEPT ![call.part] = call.pid]
  /\ \/ Become("ambiguous")
     \/ call.todo # {} /\ Become("replacing")
  /\ UNCHANGED <<storeVars, svc, scan, passes, crashes, head, procs, spawned, attests, historyVars>>

(* The outcome row: a start is never proof of the effect.                  *)
Conclude ==
  LET result == IF call.phase = "rejected" THEN "NO_EFFECT_CONFIRMED" ELSE "UNKNOWN" IN
  /\ In("rejected") \/ In("ambiguous")
  /\ results' = [results EXCEPT ![call.effect][ordinal[call.effect]] = @ \union {result}]
  /\ call' = NoCall
  /\ UNCHANGED <<ordinal, attempts, exhausted, reach, immutable, failed, svc, scan,
                 passes, crashes, hostVars, attests, historyVars>>

-----------------------------------------------------------------------------
(* reconcileEffect with this adapter's reconcile, and ctl attest.          *)

(* A pass counts its attempts, and either finds them used up or starts ctl *)
(* attest for the effect.                                                  *)
Pursue(p, e) ==
  LET k == ordinal[e] IN
  IF attempts[e][k] >= MaxAttempts
  THEN /\ exhausted' = exhausted \union {e}
       /\ UNCHANGED <<passes, attests>>
  ELSE /\ passes' = passes \union {[id |-> p, effect |-> e, ord |-> k, prior |-> attempts[e][k]]}
       /\ attests' = attests \union {[owner |-> p, effect |-> e, step |-> "reach"]}
       /\ UNCHANGED exhausted

Free(p) == \A r \in passes : r.id # p

Reconcile(p, e) ==
  /\ svc = "up"
  /\ Idle
  /\ Free(p)
  /\ Open(e)
  /\ Pursue(p, e)
  /\ UNCHANGED <<ordinal, results, attempts, reach, immutable, failed, svc, scan, call,
                 crashes, hostVars, historyVars>>

(* The restart scan visits one effect after the other (each still open:    *)
(* nothing else runs) ...                                                  *)
ScanNext(e) ==
  /\ svc = "scan"
  /\ Free(Boot)
  /\ e \in scan
  /\ scan' = scan \ {e}
  /\ Pursue(Boot, e)
  /\ UNCHANGED <<ordinal, results, attempts, reach, immutable, failed, svc, call,
                 crashes, hostVars, historyVars>>

(* ... and only then the API listens.                                      *)
ScanDone ==
  /\ svc = "scan"
  /\ Free(Boot)
  /\ scan = {}
  /\ svc' = "up"
  /\ UNCHANGED <<storeVars, scan, call, passes, crashes, hostVars, attests, historyVars>>

(* The schedule runs ctl attest for no effect, one at a time.  (For an     *)
(* effect, the operator's is like one whose service has died.)             *)
RunAttest ==
  /\ \A a \in attests : a.effect # Nobody
  /\ attests' = attests \union {[owner |-> Nobody, effect |-> Nobody, step |-> "reach"]}
  /\ UNCHANGED <<storeVars, serviceVars, hostVars, historyVars>>

(* Nobody waits for an attestation that no pass owns.                      *)
GoOn(a, step) ==
  attests' = (attests \ {a}) \union
    IF a.owner = Nobody /\ step \in {"done", "failed"} THEN {} ELSE {[a EXCEPT !.step = step]}

(* Both envelopes are submitted to the service's own API.                  *)
SealReach(a, ok) ==
  /\ svc = "up"
  /\ Idle
  /\ a.step = "reach"
  /\ reach' = [effect |-> a.effect, passing |-> ok, after |-> TRUE]
  /\ failed' = IF ok THEN failed ELSE failed \union ({a.effect} \ {Nobody})
  /\ broken' = IF ok THEN broken
               ELSE broken \union {e \in {a.effect} \ {Nobody} : \E k \in Ordinals : <<e, k>> \in touched}
  /\ GoOn(a, "immutable")
  /\ UNCHANGED <<ordinal, results, attempts, exhausted, immutable, serviceVars, hostVars,
                 touched>>

SealImmutable(a, ok) ==
  /\ svc = "up"
  /\ Idle
  /\ a.step = "immutable"
  /\ immutable' = [effect |-> a.effect, passing |-> ok, after |-> TRUE]
  /\ GoOn(a, "done")
  /\ UNCHANGED <<ordinal, results, attempts, exhausted, reach, failed, serviceVars,
                 hostVars, historyVars>>

(* Mutant: it waits for the API instead of failing.                        *)
AttestWaits(a) ==
  /\ svc = "up"
  /\ a.step \in {"reach", "immutable"}
  /\ GoOn(a, "failed")
  /\ UNCHANGED <<storeVars, serviceVars, hostVars, historyVars>>

(* A probe cannot run, or the API does not listen.                         *)
AttestFails(a) ==
  /\ a.step \in {"reach", "immutable"}
  /\ GoOn(a, "failed")
  /\ UNCHANGED <<storeVars, serviceVars, hostVars, historyVars>>

(* Mutant: only the latest envelopes are looked at.                        *)
LatestAttested(e) ==
  \A envelope \in {reach, immutable} :
    envelope.effect = e /\ envelope.after /\ envelope.passing

(* What reconcile asks of the envelopes: the latest of each kind is bound  *)
(* to the effect, produced after its admission, and passes; and no reach   *)
(* envelope of the effect has failed since.                                *)
Attested(e) ==
  /\ \A envelope \in {reach, immutable} :
       envelope.effect = e /\ envelope.after /\ envelope.passing
  /\ e \notin failed

(* The attestation has ended: the rest of reconcile and its outcome row.   *)
Judge(r, a) ==
  LET e == r.effect
      conclusive == a.step = "done" /\ Attested(e) /\ head = Sha[e]
      result == IF conclusive THEN "COMMITTED" ELSE "UNKNOWN"
  IN
  /\ Idle
  /\ a.owner = r.id
  /\ a.step \in {"done", "failed"}
  /\ results' = [results EXCEPT ![e][r.ord] = @ \union {result}]
  /\ attempts' = IF conclusive THEN attempts ELSE [attempts EXCEPT ![e][r.ord] = @ + 1]
  /\ exhausted' = IF ~conclusive /\ r.prior + 1 >= MaxAttempts
                  THEN exhausted \union {e} ELSE exhausted
  /\ passes' = passes \ {r}
  /\ attests' = attests \ {a}
  /\ UNCHANGED <<ordinal, reach, immutable, failed, svc, scan, call, crashes, hostVars,
                 historyVars>>

(* An observation throws: the pass ends without a row.  (At the start of   *)
(* the service this would end the start; there no attestation succeeds.)   *)
JudgeThrows(r, a) ==
  /\ Idle
  /\ a.owner = r.id
  /\ a.step = "done"
  /\ Attested(r.effect)
  /\ passes' = passes \ {r}
  /\ attests' = attests \ {a}
  /\ UNCHANGED <<storeVars, svc, scan, call, crashes, hostVars, historyVars>>

(* The service dies; children of its passes go on, and nobody waits for    *)
(* them.                                                                   *)
Crash ==
  /\ crashes < MaxCrashes
  /\ crashes' = crashes + 1
  /\ svc' = "scan"
  /\ scan' = {e \in Effects : Open(e)}
  /\ call' = NoCall
  /\ passes' = {}
  /\ attests' = {[a EXCEPT !.owner = Nobody] : a \in {b \in attests : b.step \in {"reach", "immutable"}}}
  /\ UNCHANGED <<storeVars, hostVars, historyVars>>

-----------------------------------------------------------------------------
Dispatch ==
  \/ ReadCheckout \/ Refuse \/ Admit \/ Compare \/ Throws \/ Spawn \/ WritePid \/ Conclude
  \/ \E c \in Components : Stop(c)

Conclusion(r) == \E a \in attests : Judge(r, a) \/ JudgeThrows(r, a)

Sealing(a) == \E ok \in BOOLEAN : SealReach(a, ok) \/ SealImmutable(a, ok)

Environment ==
  \/ \E c \in Components : OperatorStarts(c)
  \/ \E s \in Shas : MoveCheckout(s)
  \/ RunAttest

Next ==
  \/ \E e \in Effects : Begin(e) \/ ScanNext(e) \/ \E p \in Passes : Reconcile(p, e)
  \/ Dispatch
  \/ ScanDone
  \/ \E a \in attests : Sealing(a) \/ AttestFails(a)
  \/ \E r \in passes : Conclusion(r)
  \/ Crash
  \/ Environment

(* The restart goes on, and ctl attest ends: its probes have timeouts, and *)
(* a refused connection fails.                                             *)
Fairness ==
  /\ WF_vars(ScanDone \/ \E e \in Effects : ScanNext(e))
  /\ WF_vars(\E a \in attests : a.owner = Boot /\ (Sealing(a) \/ AttestFails(a)))
  /\ WF_vars(\E r \in passes : r.id = Boot /\ Conclusion(r))

Spec == Init /\ [][Next]_vars /\ Fairness

-----------------------------------------------------------------------------
(* A dispatch that is recorded as without effect has stopped and started   *)
(* nothing: the named set is compared as a whole before any of it is       *)
(* touched, and no failure after that is called a rejection.               *)
NoEffectIsUntouched ==
  \A e \in Effects, k \in Ordinals :
    "NO_EFFECT_CONFIRMED" \in results[e][k] => <<e, k>> \notin touched

(* One DEPLOY stops and starts components in at most one of its            *)
(* dispatches, whatever fails in it, and however often the service dies    *)
(* and retries.                                                            *)
TouchedOnce ==
  \A e \in Effects : \A j, k \in Ordinals :
    <<e, j>> \in touched /\ <<e, k>> \in touched => j = k

(* When the boundary was found broken after a DEPLOY had touched a         *)
(* component, that DEPLOY is not committed any more, whatever later probes *)
(* find.                                                                   *)
FailureIsFinal ==
  [][\A e \in broken, k \in Ordinals :
       "COMMITTED" \in results'[e][k] => "COMMITTED" \in results[e][k]]_results

(* The service starts again although the scan waits for an attestation     *)
(* that waits for the API that waits for the scan.                         *)
StartsAgain == svc = "scan" ~> svc = "up"

(* When a DEPLOY is recorded as committed, every component it names is     *)
(* alive under the pid of its pid file.                                    *)
CommittedIsAlive ==
  [][\A e \in Effects, k \in Ordinals :
       "COMMITTED" \in results'[e][k] \ results[e][k] =>
         \A c \in Parts[e] : \E q \in procs : q.comp = c /\ q.pid = pidfile[c]]_results

(* A DEPLOY is rejected only if what runs is not what its material         *)
(* expects.                                                                *)
RejectionIsEarned ==
  [][In("admitted") /\ call' # NoCall /\ call'.phase = "rejected" =>
       \E c \in Parts[call.effect] : \A q \in procs :
         q.comp = c => \/ q.code # Expected[call.effect][c].code
                       \/ Expected[call.effect][c].pid \notin {0, q.pid}]_call
=============================================================================
