------------------------------ MODULE WorkFlow ------------------------------
(***************************************************************************)
(* One work run: the workflow cadpWork (cadp/product/workflows.ts), the    *)
(* attempts of its activities (activities.ts), and what of the kernel they *)
(* meet.                                                                   *)
(*                                                                         *)
(* The workflow is durable and deterministic: Temporal replays it, so it   *)
(* is one process that never fails.  An activity is not: an attempt can    *)
(* throw between any two of its calls, its completion can be lost, and an  *)
(* attempt that was given up because its host was silent can go on beside  *)
(* the next one.  What makes the attempts of a step converge is the        *)
(* kernel: one effect per step, one WORK_STEP per step.                    *)
(*                                                                         *)
(* The kernel is here what its clients see of it, as EffectKernel shows it *)
(* to be; a surface is what SurfaceBroker promises: a value, or an error.  *)
(***************************************************************************)
EXTENDS Integers, FiniteSets, Sequences, Functions

CONSTANTS
  Verticals,     \* verticals the run may be started with
  External,      \* development.external_verification, the values allowed
  Rounds,        \* rounds of implement and review: 2 in the code
  MaxSteps,      \* bounds.max_steps
  Records,       \* number of payloads of the record vertical
  MaxAttempts,   \* retry.maximumAttempts
  MaxFaults,     \* bound: attempts that are lost or throw
  MaxLeft,       \* bound: abandoned attempts that are still at work
  MaxAdmissions  \* bound: admissions of an effect

(* malformedWorkBounds; a run whose bounds are not so ends before a step.  *)
ASSUME BoundsOk ==
  /\ Verticals \subseteq {"record", "development"}
  /\ External \subseteq BOOLEAN
  /\ {Rounds, MaxSteps, Records, MaxAttempts, MaxAdmissions} \subseteq Nat \ {0}
  /\ {MaxFaults, MaxLeft} \subseteq Nat

VARIABLES
  \* the workflow
  args,       \* what the run was started with
  stage,      \* the activity it is about to schedule or waits for
  busy,       \* the attempt it waits for, 0 when none is scheduled
  round, ord, \* round; stepOrdinal
  prior,      \* priorStepDigest
  cand,       \* implemented.candidate_sha
  checks,     \* what this round's checks concluded
  human,      \* a humanDecision signal has come
  report,     \* what it returned
  \* the activity host
  attempts,   \* attempts at work, those that were given up included
  faults,
  \* the kernel and the targets
  steps,      \* the WORK_STEP of each ordinal
  held,       \* an open WORK_STEP_CONFLICT names the run
  evidence,   \* VERIFICATION and REVIEW envelopes
  fx          \* effects, by allocation key

workflowVars == <<args, stage, busy, round, ord, prior, cand, checks, human, report>>
hostVars == <<attempts, faults>>
kernelVars == <<steps, held, evidence, fx>>
vars == <<workflowVars, hostVars, kernelVars>>

-----------------------------------------------------------------------------
(* Data *)

Ordinals == 1 .. MaxSteps
SurfaceKinds == {"verify", "external", "review"}
GovernedKinds == {"record", "push", "pr"}
Kinds == SurfaceKinds \union GovernedKinds \union {"implement", "prepare", "merge", "stop"}

(* Every attempt that makes a candidate or an envelope makes a new one.    *)
Ids == (0 .. MaxSteps) \X (0 .. MaxAttempts)
Nothing == <<0, 0>>
Made(a) == <<a.ord, a.n>>

Conclusive == {"COMMITTED", "NO_EFFECT_CONFIRMED"}
Outcomes == Conclusive \union {"UNKNOWN", "DENIED", "REFUSED"}
Values == Outcomes \union {"none", "success", "failure", "APPROVE", "REQUEST_CHANGES", "human", "auto"}

NoDigest == [ord |-> 0, output |-> Nothing, summary |-> "none"]
Digests == [ord : 0 .. MaxSteps, output : Ids, summary : Values]

(* An effect: its request, and what became of each admission.              *)
Sealed(kind, c) == [kind |-> kind, of |-> c, rows |-> <<>>, flight |-> FALSE, times |-> 0]
Put(f, k, v) == [x \in DOMAIN f \union {k} |-> IF x = k THEN v ELSE f[x]]
Row == {"PENDING", "UNKNOWN"} \union Conclusive

Unchecked == [verify |-> "none", external |-> "none", review |-> "none"]
Args == [vertical : Verticals \intersect {"record"}, external : {FALSE}, human_merge : {FALSE}]
        \union [vertical : Verticals \ {"record"}, external : External, human_merge : BOOLEAN]
Running == [end |-> "running", stage |-> "none"]
Positions == {"surface", "read", "reconcile", "evaluate", "admit", "dispatch", "reread", "step",
              "done", "failed"}
Attempt == [kind : Kinds, ord : Ordinals \union {MaxSteps + 1}, n : 1 .. MaxAttempts, at : Positions,
            cand : Ids, prior : Digests, val : Values]

TypeOK ==
  /\ args \in Args
  /\ stage \in Kinds /\ busy \in 0 .. MaxAttempts
  /\ round \in 1 .. Rounds /\ ord \in 0 .. MaxSteps
  /\ prior \in Digests /\ cand \in Ids
  /\ checks \in [verify : Values, external : Values, review : Values]
  /\ human \in BOOLEAN
  /\ report \in [end : {"running", "completed", "stopped", "failed"}, stage : Kinds \union {"none"}]
  /\ attempts \subseteq Attempt /\ faults \in 0 .. MaxFaults
  /\ DOMAIN steps \subseteq Ordinals /\ Range(steps) \subseteq [digest : Digests, prior : Digests]
  /\ held \in BOOLEAN
  /\ \A e \in evidence : e \in [kind : SurfaceKinds, of : Ids, val : Values, id : Ids]
  /\ DOMAIN fx \subseteq Ids
  /\ \A f \in Range(fx) : /\ f.kind \in Kinds /\ f.of \in Ids
                          /\ Len(f.rows) <= MaxAdmissions /\ Range(f.rows) \subseteq Row
                          /\ f.flight \in BOOLEAN /\ f.times \in Nat

Init ==
  /\ args \in Args
  /\ stage = IF args.vertical = "record" THEN "record" ELSE "implement"
  /\ busy = 0 /\ round = 1 /\ ord = 0 /\ prior = NoDigest /\ cand = Nothing
  /\ checks = Unchecked /\ human = FALSE /\ report = Running
  /\ attempts = {} /\ faults = 0
  /\ steps = <<>> /\ held = FALSE /\ evidence = {} /\ fx = <<>>

-----------------------------------------------------------------------------
(* The kernel, as its clients see it *)

Rows(k) == IF k \in DOMAIN fx THEN fx[k].rows ELSE <<>>
Latest(k) == IF Rows(k) = <<>> THEN "none" ELSE Rows(k)[Len(Rows(k))]
Has(k, result) == result \in Range(Rows(k))
(* A record is written once under its key, a push or a merge holds once,   *)
(* every request to open a pull request opens one.                         *)
Took(f) == [f EXCEPT !.flight = FALSE, !.times = IF f.kind = "pr" THEN @ + 1 ELSE 1]

(* A request takes place or is lost, at any time after its dispatch.       *)
Land(k) ==
  /\ fx[k].flight
  /\ \E f \in {Took(fx[k]), [fx[k] EXCEPT !.flight = FALSE]} : fx' = [fx EXCEPT ![k] = f]
  /\ UNCHANGED <<workflowVars, hostVars, steps, held, evidence>>

(* The outcome of the dispatch or of any reconciliation, whoever asks: an  *)
(* attempt, an operator, or the scan of a restart.  The branch, the pull   *)
(* request and the records are the run's own: nobody else makes them so    *)
(* that a target would answer COMMITTED for it (EffectKernel has that).    *)
Observe(k, result) ==
  /\ Latest(k) \in {"PENDING", "UNKNOWN"} \ {result}
  /\ result = "COMMITTED" => fx[k].times > 0
  /\ result = "NO_EFFECT_CONFIRMED" => fx[k].times = 0 /\ ~fx[k].flight
  /\ fx' = [fx EXCEPT ![k].rows[Len(fx[k].rows)] = result]
  /\ UNCHANGED <<workflowVars, hostVars, steps, held, evidence>>

(* What a further admission needs: recheck #12, the hold on the run.       *)
Admissible(k) ==
  /\ ~held /\ ~Has(k, "COMMITTED") /\ Len(Rows(k)) < MaxAdmissions
  /\ \/ Latest(k) \in {"none", "NO_EFFECT_CONFIRMED"}
     \/ Latest(k) = "UNKNOWN" /\ fx[k].kind = "record"

-----------------------------------------------------------------------------
(* Attempts *)

Become(a, b) == attempts' = (attempts \ {a}) \union {b}
Goto(a, at, val) == Become(a, [a EXCEPT !.at = at, !.val = val])

\* Mutant: every attempt allocates an effect of its own.
KeyPerAttempt(a) == <<a.ord, a.n>>
(* allocateEffectId: the key is made of the run, the step and the purpose. *)
Key(a) == <<a.ord, 0>>

(* brokerCall, and the envelope made of its answer.                        *)
Answers(kind) == CASE kind = "implement" -> {"none"}
                   [] kind = "review"    -> {"APPROVE", "REQUEST_CHANGES"}
                   [] OTHER              -> {"success", "failure"}
Surface(a) ==
  /\ a.at = "surface"
  /\ \E v \in Answers(a.kind) :
       /\ Goto(a, "step", v)
       /\ evidence' = IF a.kind = "implement" THEN evidence
                      ELSE evidence \union {[kind |-> a.kind, of |-> a.cand, val |-> v, id |-> Made(a)]}
  /\ UNCHANGED <<workflowVars, faults, steps, held, fx>>

(* governedEffect: the durable state decides, when it can be read: any     *)
(* failure to read it is taken for "not sealed yet".                       *)
ReadState(a) ==
  /\ a.at = "read"
  /\ \/ Goto(a, "evaluate", "none")
     \/ Has(Key(a), "COMMITTED") /\ Goto(a, "step", "COMMITTED")
     \/ ~Has(Key(a), "COMMITTED") /\ Rows(Key(a)) # <<>> /\ Goto(a, "reconcile", "none")
  /\ UNCHANGED <<workflowVars, faults, kernelVars>>

(* The first conclusive row of any admission is taken. *)
FirstConclusive(k) == SelectSeq(Rows(k), LAMBDA r : r \in Conclusive)
\* Mutant: an unresolved admission is waited for.
AskAgain(a) == Goto(a, "reconcile", "none")
Unresolved(a) == Goto(a, "step", "UNKNOWN")
ReadReconciled(a) ==
  /\ a.at = "reconcile"
  /\ CASE FirstConclusive(Key(a)) = <<>>                -> Unresolved(a)
       [] Has(Key(a), "COMMITTED")
          /\ Head(FirstConclusive(Key(a))) = "COMMITTED" -> Goto(a, "step", "COMMITTED")
       [] OTHER                                          -> Goto(a, "evaluate", "none")
  /\ UNCHANGED <<workflowVars, faults, kernelVars>>

(* Seal the request, the same content each time; assemble and evaluate.    *)
SealAndEvaluate(a) ==
  /\ a.at = "evaluate"
  /\ fx' = IF Key(a) \in DOMAIN fx THEN fx ELSE Put(fx, Key(a), Sealed(a.kind, a.cand))
  /\ \/ a.kind \in GovernedKinds /\ \/ Goto(a, "admit", "none")
                                    \/ Goto(a, "step", "DENIED")
     \/ a.kind = "merge" /\ \/ Goto(a, "admit", "none")
                            \/ Goto(a, "done", "DENIED")
     \/ a.kind = "prepare" /\ \E v \in {"human", "auto"} : Goto(a, "step", v)
  /\ UNCHANGED <<workflowVars, faults, steps, held, evidence>>

(* The end of the kernel's part: an effect's WORK_STEP follows; a merge has *)
(* none of its own.                                                        *)
Concluded(a, val) == Goto(a, IF a.kind = "merge" THEN "done" ELSE "step", val)

(* admit_and_dispatch *)
Admit(a) ==
  /\ a.at = "admit"
  /\ \/ Concluded(a, "REFUSED") /\ UNCHANGED fx
     \/ /\ Admissible(Key(a))
        /\ fx' = [fx EXCEPT ![Key(a)].rows = Append(@, "PENDING"), ![Key(a)].flight = TRUE]
        /\ Goto(a, "dispatch", "none")
  /\ UNCHANGED <<workflowVars, faults, steps, held, evidence>>

(* Its answer.  On UNKNOWN the state is read once more, after a reconcile, *)
(* but not for a merge.                                                    *)
Dispatched(a) ==
  /\ a.at = "dispatch" /\ Latest(Key(a)) # "PENDING"
  /\ IF Latest(Key(a)) = "UNKNOWN" /\ a.kind # "merge" THEN Goto(a, "reread", "none")
     ELSE Concluded(a, Latest(Key(a)))
  /\ UNCHANGED <<workflowVars, faults, kernelVars>>
ReadAgain(a) ==
  /\ a.at = "reread"
  /\ Goto(a, "step", IF Has(Key(a), "COMMITTED") THEN "COMMITTED" ELSE "UNKNOWN")
  /\ UNCHANGED <<workflowVars, faults, kernelVars>>

(* submitWorkStep: the first payload of an ordinal is its WORK_STEP; the   *)
(* same again converges; another one is a WORK_STEP_CONFLICT.              *)
Output(a) == IF a.kind \in SurfaceKinds \union {"implement"} THEN Made(a) ELSE a.cand
Summary(a) == IF a.kind = "implement" THEN "none" ELSE a.val
StepOf(a) == [digest |-> [ord |-> a.ord, output |-> Output(a), summary |-> Summary(a)], prior |-> a.prior]
\* Mutant: whatever the ordinal holds, the submission is taken for a replay.
ReplayAnyway(a) == a.ord \in DOMAIN steps
Replay(a) == a.ord \in DOMAIN steps /\ steps[a.ord] = StepOf(a)
SubmitStep(a) ==
  /\ a.at = "step"
  /\ \/ /\ a.ord \notin DOMAIN steps
        /\ steps' = Put(steps, a.ord, StepOf(a))
        /\ Goto(a, "done", a.val) /\ UNCHANGED held
     \/ /\ Replay(a)
        /\ Goto(a, "done", a.val) /\ UNCHANGED <<steps, held>>
     \/ /\ a.ord \in DOMAIN steps /\ ~Replay(a)
        /\ held' = TRUE
        /\ Goto(a, "failed", a.val) /\ UNCHANGED steps
  /\ UNCHANGED <<workflowVars, faults, evidence, fx>>

Works(a) ==
  \/ Surface(a) \/ ReadState(a) \/ ReadReconciled(a) \/ SealAndEvaluate(a) \/ Admit(a)
  \/ Dispatched(a) \/ ReadAgain(a) \/ SubmitStep(a)

-----------------------------------------------------------------------------
(* The workflow *)

Current(a) == report = Running /\ a.kind = stage /\ a.ord >= ord /\ a.n = busy
FirstPosition(kind) == CASE kind \in SurfaceKinds \union {"implement"} -> "surface"
                         [] kind \in GovernedKinds -> "read"
                         [] kind = "stop" -> "done"
                         [] OTHER -> "evaluate"
NewAttempt(kind, k, n) ==
  [kind |-> kind, ord |-> k, n |-> n, at |-> FirstPosition(kind), cand |-> cand, prior |-> prior,
   val |-> "none"]
Leftovers == {a \in attempts : ~Current(a)}

(* nextStep: a step, or the deadline or the bound stops the run.           *)
Schedule ==
  /\ report = Running /\ busy = 0 /\ stage \notin {"merge", "stop"}
  /\ busy' = 1
  /\ \/ /\ ord < MaxSteps
        /\ ord' = ord + 1 /\ UNCHANGED stage
        /\ attempts' = attempts \union {NewAttempt(stage, ord + 1, 1)}
     \/ /\ stage' = "stop" /\ UNCHANGED ord
        /\ attempts' = attempts \union {NewAttempt("stop", ord + 1, 1)}
  /\ UNCHANGED <<args, round, prior, cand, checks, human, report, faults, kernelVars>>

(* condition(() => humanEvidenceId !== undefined) *)
ScheduleMerge ==
  /\ report = Running /\ busy = 0 /\ stage = "merge" /\ human
  /\ busy' = 1
  /\ attempts' = attempts \union {NewAttempt("merge", ord, 1)}
  /\ UNCHANGED <<args, stage, round, ord, prior, cand, checks, human, report, faults, kernelVars>>

Signal ==
  /\ report = Running /\ ~human
  /\ human' = TRUE
  /\ UNCHANGED <<args, stage, busy, round, ord, prior, cand, checks, report, hostVars, kernelVars>>

Finish(end) == report' = [end |-> end, stage |-> stage] /\ UNCHANGED <<stage, round, checks>>
GoOn(next) == stage' = next /\ UNCHANGED <<round, report>>
(* The verdict of a round, and the next one. *)
\* Mutant: a candidate that the reviewer approves is approved.
ReviewDecides(review) == review = "APPROVE"
Approved(review) == review = "APPROVE" /\ checks.verify = "success"
Judge(review) ==
  IF Approved(review) THEN GoOn("pr") /\ checks' = [checks EXCEPT !.review = review]
  ELSE IF round < Rounds
  THEN round' = round + 1 /\ stage' = "implement" /\ checks' = Unchecked /\ UNCHANGED report
  ELSE Finish("stopped")

\* Mutant: only a refusal stops the run.
UnlessRefused(val) == val \notin {"DENIED", "REFUSED"}
(* A governed effect goes on only when it is COMMITTED. *)
Done(val) == val = "COMMITTED"

(* What the workflow does with the value of an activity. *)
Continue(a) ==
  CASE a.kind = "stop"      -> Finish("stopped")
    [] a.kind = "implement" -> GoOn("push") /\ UNCHANGED checks
    [] a.kind = "verify"    -> /\ GoOn(IF args.external THEN "external" ELSE "review")
                               /\ checks' = [checks EXCEPT !.verify = a.val]
    [] a.kind = "external"  -> IF a.val # "success" THEN Finish("stopped")
                               ELSE GoOn("review") /\ checks' = [checks EXCEPT !.external = a.val]
    [] a.kind = "review"    -> Judge(a.val)
    [] a.kind \in GovernedKinds \union {"merge"} /\ ~Done(a.val) -> Finish("stopped")
    [] a.kind = "record" /\ Done(a.val) -> IF ord = Records THEN Finish("completed")
                                           ELSE GoOn("record") /\ UNCHANGED checks
    [] a.kind = "push" /\ Done(a.val)   -> GoOn("verify") /\ UNCHANGED checks
    [] a.kind = "pr" /\ Done(a.val)     -> IF args.human_merge THEN GoOn("prepare") /\ UNCHANGED checks
                                           ELSE Finish("completed")
    [] a.kind = "prepare"   -> IF a.val = "human" THEN GoOn("merge") /\ UNCHANGED checks
                               ELSE Finish("completed")
    [] OTHER                -> Finish("completed")

Complete(a) ==
  /\ Current(a) /\ a.at = "done"
  /\ attempts' = attempts \ {a} /\ busy' = 0
  /\ prior' = IF a.kind \in {"merge", "stop"} THEN prior ELSE StepOf(a).digest
  /\ cand' = IF a.kind = "implement" THEN Made(a) ELSE cand
  /\ Continue(a)
  /\ UNCHANGED <<args, ord, human, faults, kernelVars>>

TryAgain(n) == n < MaxAttempts
(* An attempt throws, is silent for too long, or its completion is lost;   *)
(* Temporal makes another one, or fails the run.                           *)
Retry(a, still) ==
  /\ Current(a)
  /\ IF a.at = "failed" THEN still = {} /\ UNCHANGED faults
     ELSE /\ faults < MaxFaults /\ faults' = faults + 1
          /\ (a.at = "done" \/ Cardinality(Leftovers) >= MaxLeft) => still = {}
  /\ IF TryAgain(a.n)
     THEN /\ busy' = a.n + 1 /\ UNCHANGED report
          /\ attempts' = (attempts \ {a}) \union still \union {NewAttempt(a.kind, a.ord, a.n + 1)}
     ELSE /\ report' = [end |-> "failed", stage |-> stage] /\ UNCHANGED busy
          /\ attempts' = (attempts \ {a}) \union still
  /\ UNCHANGED <<args, stage, round, ord, prior, cand, checks, human, kernelVars>>

(* Nobody hears of an attempt that was given up. *)
Vanish(a) ==
  /\ a \in Leftovers
  /\ attempts' = attempts \ {a}
  /\ UNCHANGED <<workflowVars, faults, kernelVars>>

Progress ==
  \/ Schedule \/ ScheduleMerge
  \/ \E a \in attempts : Current(a) /\ (Works(a) \/ Complete(a) \/ Retry(a, {}))
Next ==
  \/ Schedule \/ ScheduleMerge \/ Signal
  \/ \E a \in attempts : \/ Works(a) \/ Complete(a) \/ Vanish(a)
                         \/ \E still \in {{}, {a}} : Retry(a, still)
  \/ \E k \in DOMAIN fx : Land(k) \/ \E r \in {"UNKNOWN"} \union Conclusive : Observe(k, r)

Spec == Init /\ [][Next]_vars
(* Temporal schedules, activities go on or are timed out, and a dispatch   *)
(* ends, at its deadline if not before.  Nobody need reconcile or decide.  *)
Fairness ==
  /\ WF_vars(Progress)
  /\ \A k \in Ids : WF_vars(Latest(k) = "PENDING" /\ \E r \in Row : Observe(k, r))
FairSpec == Spec /\ Fairness

-----------------------------------------------------------------------------
(* Properties *)

Taken(k) == fx[k].times > 0
EffectsOf(kind) == {k \in DOMAIN fx : fx[k].kind = kind /\ Taken(k)}
Seen(kind, c, val) == \E e \in evidence : e.kind = kind /\ e.of = c /\ e.val = val

(* What becomes a pull request, and what is merged, is a candidate that    *)
(* was pushed, that a verification of this very candidate found sound, the *)
(* external one included where it is asked for, and that a review of this  *)
(* very candidate approved (cadpWork, rounds and retries).                 *)
ShippedIsApproved ==
  \A k \in EffectsOf("pr") \union EffectsOf("prepare") :
    LET c == fx[k].of IN
    /\ \E p \in EffectsOf("push") : fx[p].of = c
    /\ Seen("verify", c, "success") /\ Seen("review", c, "APPROVE")
    /\ args.external => Seen("external", c, "success")

(* However often the attempts of a step are repeated, and however long one *)
(* that was given up goes on, the run opens one pull request, merges once, *)
(* and pushes a candidate once (allocateEffectId, governedEffect).         *)
OneShipment ==
  /\ \A k \in EffectsOf("pr") : fx[k].times = 1
  /\ \A kind \in {"pr", "prepare"} : Cardinality(EffectsOf(kind)) <= 1
  /\ \A k, l \in EffectsOf("push") : fx[k].of = fx[l].of => k = l
  /\ Cardinality(EffectsOf("record")) <= Records

(* The WORK_STEPs of a run are a chain without a gap: each names, as its   *)
(* prior, the one that is there (submitWorkStep, insertWorkStep).          *)
ChainIsWhole ==
  \A k \in DOMAIN steps :
    \/ k = 1 /\ steps[k].prior = NoDigest
    \/ k - 1 \in DOMAIN steps /\ steps[k].prior = steps[k - 1].digest

(* A run that reports completed has done what it was asked: every record   *)
(* written, or the pull request of its last candidate opened, and merged   *)
(* if the Human was asked.                                                 *)
CompletedIsDone ==
  report.end = "completed" =>
    IF args.vertical = "record" THEN Cardinality(EffectsOf("record")) = Records
    ELSE /\ \E k \in EffectsOf("pr") : fx[k].of = cand
         /\ report.stage = "merge" => \E k \in EffectsOf("prepare") : fx[k].of = cand

(* Whatever fails, and though nobody reconciles, the run ends, or waits    *)
(* for the Human and nothing else.                                         *)
RunEnds == <>(report # Running \/ (stage = "merge" /\ ~human))

(* "A refused merge is a STOP, never a completion." *)
RefusedMergeStops ==
  report.end = "completed" /\ args.human_merge /\ args.vertical = "development" =>
    EffectsOf("prepare") # {}

(* "A Temporal replay or activity retry that re-submits the same logical   *)
(* step [...] never produces an incident."                                 *)
RetriesConverge == ~held
=============================================================================
