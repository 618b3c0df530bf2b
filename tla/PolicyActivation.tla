-------------------------- MODULE PolicyActivation --------------------------
(***************************************************************************)
(* How the active policy changes, and how the policy's verdict on a change *)
(* is obtained: the activation log (cadp/kernel/adapters/storePolicy.ts),  *)
(* the PEP's handling of POLICY_ACTIVATE, the root listener                *)
(* (cadp/kernel/rootListener.ts) and the evaluator with its one OPA        *)
(* sidecar (cadp/kernel/evaluator.ts).                                     *)
(*                                                                         *)
(* Evaluations run concurrently over one process handle, one bundle file,  *)
(* one socket and one label of what was loaded.  Effects and Root activate *)
(* over one another between the evaluation of a change and its admission.  *)
(* The service can crash between any two store transactions; the sidecar   *)
(* outlives it.                                                            *)
(*                                                                         *)
(* A content stands for a bundle and its digests, which agree when the     *)
(* bundles do.                                                             *)
(***************************************************************************)
EXTENDS Integers, Sequences

CONSTANTS
  Contents,       \* policy bundles
  Genesis,        \* the bundle that genesis activated
  Ref,            \* the policy_id@revision in each bundle's manifest
  Effects,        \* POLICY_ACTIVATE effects
  Proposes,       \* proposed_policy_ref of each effect's material
  Expects,        \* expected_active_policy_ref of each effect's material
  Documents,      \* BREAK_GLASS(ACTIVATE_POLICY) documents signed by Root
  Decrees,        \* proposed_policy_ref of each document
  Base,           \* authorization_policy_ref of each document
  Evals,          \* evaluate calls; each may spawn one sidecar
  Boot,           \* genesis, and the sidecar of the first start
  None,           \* no process, no content, no call
  MaxCrashes      \* bound: crashes of the service

Pids == Evals \union {Boot}
Result == {"COMMITTED", "NO_EFFECT_CONFIRMED", "UNKNOWN"}
(* An activation row as a pointer: its seq and its content. *)
Row == [seq : Nat, content : Contents]

ASSUME ConstantsOk ==
  /\ Genesis \in Contents
  /\ Proposes \in [Effects -> Contents]
  /\ Expects \in [Effects -> Row]
  /\ Decrees \in [Documents -> Contents]
  /\ Base \in [Documents -> Row]
  /\ Boot \notin Evals
  /\ None \notin Pids \union Contents
  /\ Effects \intersect Documents = {}
  /\ Boot \notin Effects \union Documents
  /\ MaxCrashes \in Nat

VARIABLES
  \* the constitutional store
  log,         \* policy_activation rows by seq
  published,   \* policy_ref rows
  decisions,   \* sealed ALLOW decisions, with the bundle that computed each
  admitted,    \* effects with an admission row
  results,     \* results of the outcome rows of each effect
  held,        \* effects with an open EVALUATOR_INTEGRITY_FAILURE incident
  \* the memory of the Kernel Service
  evals,       \* evaluate calls
  handle,      \* OpaEvaluator.#process
  heard,       \* processes whose exit handler is registered
  loaded,      \* OpaEvaluator.#loadedContentDigest (and manifest revision)
  \* the sidecar's world
  proc,        \* state of each OPA process
  serves,      \* the bundle each has activated
  file,        \* the bundle file
  pidfile,     \* opa.pid
  sock,        \* the process that the socket path leads to
  crashes

storeVars == <<log, published, decisions, admitted, results, held>>
opaVars   == <<handle, heard, loaded, proc, serves, file, pidfile, sock>>
vars      == <<storeVars, evals, opaVars, crashes>>

Decision == [effect : Effects, policy : Contents, computed : Contents]
(* An evaluation awaits, when "stopping", the exit of the process it stopped; *)
(* "starting": the health of whatever answers on the socket; "waiting": that *)
(* the status reports its bundle, which in "reported" it has; "posting": the *)
(* answer to its query; "answered": the status once more.                   *)
Eval == [pc : {"idle", "stopping", "starting", "waiting", "reported", "posting",
               "answered", "checked", "done"},
         effect : Effects \union {None}, policy : Contents \union {None},
         awaits : Pids \union {None},
         echo : Contents \union {None}, status : Contents \union {None}]

TypeOK ==
  /\ log \in Seq([content : Contents, by : Effects \union Documents \union {Boot}])
  /\ published \subseteq Contents
  /\ decisions \subseteq Decision
  /\ admitted \subseteq Effects
  /\ results \in [Effects -> SUBSET Result]
  /\ held \subseteq Effects
  /\ evals \in [Evals -> Eval]
  /\ handle \in Pids \union {None}
  /\ heard \subseteq Pids
  /\ loaded \in Contents \union {None}
  /\ proc \in [Pids -> {"unborn", "running", "dying", "gone"}]
  /\ serves \in [Pids -> Contents \union {None}]
  /\ file \in Contents
  /\ pidfile \in Pids
  /\ sock \in Pids \union {None}
  /\ crashes \in 0 .. MaxCrashes

Idle == [pc |-> "idle", effect |-> None, policy |-> None, awaits |-> None,
         echo |-> None, status |-> None]

(* After genesis, and after the first start has loaded it.                   *)
Init ==
  /\ log = <<[content |-> Genesis, by |-> Boot]>>
  /\ published = {Genesis}
  /\ decisions = {}
  /\ admitted = {}
  /\ results = [e \in Effects |-> {}]
  /\ held = {}
  /\ evals = [v \in Evals |-> Idle]
  /\ handle = Boot
  /\ heard = {Boot}
  /\ loaded = Genesis
  /\ proc = [p \in Pids |-> IF p = Boot THEN "running" ELSE "unborn"]
  /\ serves = [p \in Pids |-> IF p = Boot THEN Genesis ELSE None]
  /\ file = Genesis
  /\ pidfile = Boot
  /\ sock = Boot
  /\ crashes = 0

-----------------------------------------------------------------------------
(* The activation log.                                                      *)

Active == log[Len(log)].content

ActiveRow == [seq |-> Len(log), content |-> Active]

(* Mutant: the proposal is compared with the active bundle alone.           *)
ConflictsWithActive(c) == Ref[Active] = Ref[c] /\ Active # c

(* The (policy_id, revision) is published with other bytes.                 *)
Conflicts(c) == \E q \in published : Ref[q] = Ref[c] /\ q # c

(* policy_ref is inserted if absent, and the row after the last activates it. *)
Install(c, by) ==
  /\ published' = published \union {c}
  /\ log' = Append(log, [content |-> c, by |-> by])

(* Mutant: the document's base is compared by content, not by seq.          *)
ExecuteRootByContent(d) ==
  /\ Base[d].content = Active
  /\ ~Conflicts(Decrees[d])
  /\ Install(Decrees[d], d)
  /\ \E released \in SUBSET held : held' = held \ released
  /\ UNCHANGED <<decisions, admitted, results, evals, opaVars, crashes>>

(* BREAK_GLASS(ACTIVATE_POLICY), with RELEASE_INCIDENTS or without: one      *)
(* transaction, no lock; the document names the exact active row.            *)
ExecuteRoot(d) ==
  /\ Base[d] = ActiveRow
  /\ ~Conflicts(Decrees[d])
  /\ Install(Decrees[d], d)
  /\ \E released \in SUBSET held : held' = held \ released
  /\ UNCHANGED <<decisions, admitted, results, evals, opaVars, crashes>>

(* BREAK_GLASS(RELEASE_INCIDENTS) alone.                                     *)
ReleaseHold(e) ==
  /\ e \in held
  /\ held' = held \ {e}
  /\ UNCHANGED <<log, published, decisions, admitted, results, evals, opaVars, crashes>>

-----------------------------------------------------------------------------
(* admit_and_dispatch of a POLICY_ACTIVATE effect.                          *)

(* What the dispatch may follow: no admission yet, or one whose effect is   *)
(* known not to have taken place (#12).                                     *)
NextOrdinalAllowed(e) ==
  e \in admitted =>
    "NO_EFFECT_CONFIRMED" \in results[e] /\ "COMMITTED" \notin results[e]

(* Mutant: #1 is left to #13.                                               *)
AdmissibleByAnyPolicy(e, d) ==
  /\ Expects[e] = ActiveRow
  /\ e \notin held
  /\ NextOrdinalAllowed(e)
  /\ ~Conflicts(Proposes[e])

(* The rechecks that concern an activation: #1, the scope hold of #7, #12,  *)
(* #13 and #17.                                                             *)
Admissible(e, d) ==
  /\ d.policy = Active
  /\ e \notin held
  /\ NextOrdinalAllowed(e)
  /\ Expects[e] = ActiveRow
  /\ ~Conflicts(Proposes[e])

(* What a crash leaves of the service: the sidecar lives on, unowned.       *)
Forget ==
  /\ evals' = [v \in Evals |-> IF evals[v].pc = "idle" THEN Idle
                               ELSE [Idle EXCEPT !.pc = "done"]]
  /\ handle' = None
  /\ loaded' = None
  /\ heard' = {}
  /\ crashes' = crashes + 1
  /\ UNCHANGED <<proc, serves, file, pidfile, sock>>

(* This adapter awaits no input or output, so the lock, the snapshot of the *)
(* active policy, the admission, the dispatch and the outcome are one turn  *)
(* of the event loop: nothing else runs between its three transactions, and *)
(* the compare-and-set of the dispatch cannot fail.  A crash may end the    *)
(* turn after the first transaction or the second; the dispatch may find    *)
(* its window expired or throw, and its outcome is then UNKNOWN.            *)
AdmitAndDispatch(d, end) ==
  LET e == d.effect IN
  /\ Admissible(e, d)
  /\ admitted' = admitted \union {e}
  /\ IF end \in {"ACTIVATION", "COMMITTED"}
     THEN Install(Proposes[e], e)
     ELSE UNCHANGED <<log, published>>
  /\ IF end \in Result
     THEN /\ results' = [results EXCEPT ![e] = @ \union {end}]
          /\ UNCHANGED <<evals, opaVars, crashes>>
     ELSE /\ crashes < MaxCrashes
          /\ Forget
          /\ UNCHANGED results
  /\ UNCHANGED <<decisions, held>>

(* Mutant: an activation that is not there did not take place.              *)
ObservedAbsence(e) ==
  LET next == Expects[e].seq + 1 IN
  IF next <= Len(log) /\ log[next].content = Proposes[e]
  THEN "COMMITTED" ELSE "NO_EFFECT_CONFIRMED"

(* The Reconciler's reading of the log: the successor of the expected row is *)
(* what was proposed, or another one, or not there.                         *)
Observed(e) ==
  LET next == Expects[e].seq + 1 IN
  IF next <= Len(log)
  THEN IF log[next].content = Proposes[e] THEN "COMMITTED" ELSE "NO_EFFECT_CONFIRMED"
  ELSE "UNKNOWN"

(* A pass over an open admission; its read and its row are one turn.        *)
Reconcile(e) ==
  /\ e \in admitted
  /\ results[e] \subseteq {"UNKNOWN"}
  /\ results' = [results EXCEPT ![e] = @ \union {Observed(e)}]
  /\ UNCHANGED <<log, published, decisions, admitted, held, evals, opaVars, crashes>>

Crash ==
  /\ crashes < MaxCrashes
  /\ Forget
  /\ UNCHANGED storeVars

-----------------------------------------------------------------------------
(* The sidecar.                                                             *)

Alive(p) == p # None /\ proc[p] \in {"running", "dying"}

(* Mutant: a process whose handle was lost is left alone.                   *)
SpawnBeside(v, gone) ==
  /\ proc' = [p \in Pids |-> CASE p = v -> "running" [] p = gone -> "gone" [] OTHER -> proc[p]]
  /\ heard' = heard \union {v}
  /\ sock' = None
  /\ handle' = v
  /\ pidfile' = v

(* start: whatever opa.pid names is killed, the socket unlinked, and a new  *)
(* process spawned; gone has just exited.                                   *)
Spawn(v, gone) ==
  /\ proc' = [p \in Pids |->
       CASE p = v -> "running"
         [] p = gone -> "gone"
         [] p = pidfile /\ p \notin {v, gone} /\ proc[p] = "running" -> "dying"
         [] OTHER -> proc[p]]
  /\ heard' = heard \union {v}
  /\ sock' = None
  /\ handle' = v
  /\ pidfile' = v

(* A process binds the socket.                                              *)
Bind(p) ==
  /\ Alive(p)
  /\ sock = None
  /\ sock' = p
  /\ UNCHANGED <<storeVars, evals, handle, heard, loaded, proc, serves, file, pidfile, crashes>>

(* A process reads the bundle file, at its start or when it polls.          *)
LoadFile(p) ==
  /\ proc[p] = "running"
  /\ serves' = [serves EXCEPT ![p] = file]
  /\ UNCHANGED <<storeVars, evals, handle, heard, loaded, proc, file, pidfile, sock, crashes>>

Awaited(p) == \E v \in Evals : evals[v].pc = "stopping" /\ evals[v].awaits = p

(* A process exits, told to or not.  The handler of the exit clears #process, *)
(* whichever process it holds by then; no handler outlives a crash.         *)
Exit(p) ==
  /\ Alive(p)
  /\ ~Awaited(p)
  /\ proc' = [proc EXCEPT ![p] = "gone"]
  /\ handle' = IF p \in heard THEN None ELSE handle
  /\ UNCHANGED <<storeVars, evals, heard, loaded, serves, file, pidfile, sock, crashes>>

-----------------------------------------------------------------------------
(* evaluateAndSeal.                                                         *)

Go(v, pc) == evals' = [evals EXCEPT ![v].pc = pc]

(* The input is bound to the active policy; ensureLoaded finds it loaded, or *)
(* stops the process that serves another, or starts one.                    *)
Begin(v, e) ==
  LET at(pc, p) == [evals EXCEPT ![v] = [pc |-> pc, effect |-> e, policy |-> Active,
                                         awaits |-> p, echo |-> None, status |-> None]]
  IN
  /\ evals[v].pc = "idle"
  /\ \/ /\ handle # None /\ loaded = Active
        /\ evals' = at("posting", None)
        /\ UNCHANGED opaVars
     \/ /\ handle # None /\ loaded # Active
        /\ evals' = at("stopping", handle)
        /\ proc' = [proc EXCEPT ![handle] = "dying"]
        /\ handle' = None
        /\ UNCHANGED <<heard, loaded, serves, file, pidfile, sock>>
     \/ /\ handle = None
        /\ evals' = at("starting", None)
        /\ file' = Active
        /\ Spawn(v, None)
        /\ UNCHANGED <<loaded, serves>>
  /\ UNCHANGED <<storeVars, crashes>>

(* The process it stopped exits: #process is cleared, even when another     *)
(* evaluation has started a process meanwhile, so the file is written and a *)
(* process started.                                                         *)
Resume(v) ==
  /\ evals[v].pc = "stopping"
  /\ Alive(evals[v].awaits)
  /\ file' = evals[v].policy
  /\ Spawn(v, evals[v].awaits)
  /\ Go(v, "starting")
  /\ UNCHANGED <<storeVars, loaded, serves, crashes>>

Ready(v) ==
  /\ evals[v].pc = "starting"
  /\ Alive(sock)
  /\ Go(v, "waiting")
  /\ UNCHANGED <<storeVars, opaVars, crashes>>

(* The status reports its bundle as the active one.                         *)
Report(v) ==
  /\ evals[v].pc = "waiting"
  /\ Alive(sock)
  /\ serves[sock] = evals[v].policy
  /\ Go(v, "reported")
  /\ UNCHANGED <<storeVars, opaVars, crashes>>

(* That report is received: the label is set, the query posted.             *)
Confirm(v) ==
  /\ evals[v].pc = "reported"
  /\ loaded' = evals[v].policy
  /\ Go(v, "posting")
  /\ UNCHANGED <<storeVars, handle, heard, proc, serves, file, pidfile, sock, crashes>>

(* The query is answered; revision_echo names the bundle that computed it.  *)
Answer(v) ==
  /\ evals[v].pc = "posting"
  /\ Alive(sock)
  /\ serves[sock] # None
  /\ evals' = [evals EXCEPT ![v].pc = "answered", ![v].echo = serves[sock]]
  /\ UNCHANGED <<storeVars, opaVars, crashes>>

(* The answer is received, and the status read.                             *)
ReadStatus(v) ==
  /\ evals[v].pc = "answered"
  /\ Alive(sock)
  /\ evals' = [evals EXCEPT ![v].pc = "checked", ![v].status = serves[sock]]
  /\ UNCHANGED <<storeVars, opaVars, crashes>>

(* A health, status or query request fails or times out: no decision.       *)
Fail(v) ==
  /\ evals[v].pc \in {"starting", "waiting", "posting", "answered"}
  /\ Go(v, "done")
  /\ UNCHANGED <<storeVars, opaVars, crashes>>

(* Mutant: the label of what was loaded is trusted.                         *)
ConsistentLabel(v) == loaded = evals[v].policy

(* The status, the echo and the label agree, and the label is the decision's *)
(* policy.                                                                  *)
Consistent(v) ==
  /\ evals[v].status = loaded
  /\ evals[v].echo = loaded
  /\ loaded = evals[v].policy

(* The gate: a decision, or an incident that holds the effect.              *)
SealDecision(v) ==
  /\ evals[v].pc = "checked"
  /\ IF Consistent(v)
     THEN /\ decisions' = decisions \union
               {[effect |-> evals[v].effect, policy |-> evals[v].policy,
                 computed |-> evals[v].echo]}
          /\ UNCHANGED held
     ELSE /\ held' = held \union {evals[v].effect}
          /\ UNCHANGED decisions
  /\ Go(v, "done")
  /\ UNCHANGED <<log, published, admitted, results, opaVars, crashes>>

-----------------------------------------------------------------------------
EvalStep(v) ==
  \/ Resume(v) \/ Ready(v) \/ Report(v) \/ Confirm(v)
  \/ Answer(v) \/ ReadStatus(v) \/ SealDecision(v) \/ Fail(v)

Next ==
  \/ \E d \in Documents : ExecuteRoot(d)
  \/ \E e \in Effects : ReleaseHold(e) \/ Reconcile(e)
  \/ \E d \in decisions, end \in Result \union {"ADMISSION", "ACTIVATION"} :
       end # "NO_EFFECT_CONFIRMED" /\ AdmitAndDispatch(d, end)
  \/ \E v \in Evals : (\E e \in Effects : Begin(v, e)) \/ EvalStep(v)
  \/ \E p \in Pids : Bind(p) \/ LoadFile(p) \/ Exit(p)
  \/ Crash

Spec == Init /\ [][Next]_vars

-----------------------------------------------------------------------------
(* Properties. *)

(* What the log and the decisions promise: PolicyChain.                     *)
Promise == INSTANCE PolicyChain WITH
  chain <- [n \in 1 .. Len(log) |->
              [content |-> log[n].content,
               by |-> IF log[n].by \in Effects THEN "POLICY" ELSE "ROOT"]],
  verdicts <- {<<d.computed, Proposes[d.effect]>> : d \in decisions}

(* The log is such a chain: whatever an effect activates, the policy it     *)
(* replaces had allowed, evaluated by that very bundle; through concurrent  *)
(* evaluations that swap the sidecar, activations that come between a       *)
(* decision and its admission, and crashes.                                 *)
ChainKept == Promise!Spec

(* A decision was computed by the bundle of the policy it names (TD 5.2),   *)
(* though the file, the process and the label may have changed in between.  *)
ComputedByItsPolicy == \A d \in decisions : d.computed = d.policy

(* The outcome rows of an activation agree with each other and with the log: *)
(* COMMITTED that the expected row's successor is what was proposed, and    *)
(* NO_EFFECT_CONFIRMED that the effect appended nothing and never will.     *)
OutcomesAreTrue ==
  \A e \in Effects :
    /\ "COMMITTED" \in results[e] =>
         /\ Expects[e].seq < Len(log)
         /\ log[Expects[e].seq + 1].content = Proposes[e]
    /\ "NO_EFFECT_CONFIRMED" \in results[e] =>
         /\ Expects[e].seq < Len(log)
         /\ \A n \in 1 .. Len(log) : log[n].by # e
    /\ ~ {"COMMITTED", "NO_EFFECT_CONFIRMED"} \subseteq results[e]

(* No effect and no signed document activates twice, though a document can   *)
(* be presented and an effect admitted again.                               *)
ActivatedOnce ==
  \A m, n \in 1 .. Len(log) : log[m].by = log[n].by => m = n

(* Reading the active policy never fails: every row of the log is published, *)
(* and one policy_id@revision with one content.                             *)
ActiveResolves ==
  /\ \A n \in 1 .. Len(log) : log[n].content \in published
  /\ \A p, q \in published : Ref[p] = Ref[q] => p = q

(* However evaluations lose the handle of a sidecar, or a crash orphans it, *)
(* at most the one that opa.pid names has not been told to stop.            *)
NoStraySidecar == \A p \in Pids : proc[p] = "running" => p = pidfile
-----------------------------------------------------------------------------
(* The inductive invariant.                                                 *)

WasActive(c) == \E n \in 1 .. Len(log) : log[n].content = c

(* What was decided, or is being evaluated, is under a policy of the log.   *)
DecisionsArePast == \A d \in decisions : WasActive(d.policy)

EvalsArePast ==
  \A v \in Evals : evals[v].pc \notin {"idle", "done"} =>
    evals[v].effect \in Effects /\ WasActive(evals[v].policy)

(* A row is the successor of the row that its effect or document expected;  *)
(* an effect that has one is admitted.                                      *)
RowsAreExpected ==
  /\ log # <<>>
  /\ \A n \in 1 .. Len(log) :
       /\ log[n].by = Boot => n = 1
       /\ log[n].by \in Effects =>
            /\ n = Expects[log[n].by].seq + 1
            /\ log[n].content = Proposes[log[n].by]
            /\ log[n].by \in admitted
       /\ log[n].by \in Documents => n = Base[log[n].by].seq + 1

IInv ==
  /\ TypeOK
  /\ DecisionsArePast
  /\ EvalsArePast
  /\ RowsAreExpected
  /\ ComputedByItsPolicy
  /\ OutcomesAreTrue
  /\ ActiveResolves
  /\ NoStraySidecar
=============================================================================
