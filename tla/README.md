# A verification of the Common Autonomous Development Platform

The platform lets agents develop software while every effect on the outside
world (a push, a merge, a record, a workflow start, a policy change) goes
through a small trusted *Kernel Service*. This directory holds TLA+ models of
that system, TLC configurations that check them on small instances, and TLAPS
proofs for every instance. Paths below are relative to the repository root;
"TD" is `TECHNICAL_DESIGN_cadp_v0_4_generation.md`.

## 1. Inventory

### The Kernel Service (`cadp/kernel`)

| part | state | operations | correct when |
|---|---|---|---|
| PEP, `pep.ts` | lock D per target (memory); writes admissions and outcomes | `admit_and_dispatch`: lock, snapshot of the active policy, awaited reads, admission transaction (rechecks #1-#19), dispatch, outcome | an effect is admitted only under its rechecks, takes place at most once, and its outcome rows are true |
| Reconciler, `reconciler.ts` | none of its own; counts its UNKNOWN rows | `request_reconcile`, restart scan | every admission gets an outcome, attempts are bounded, exhaustion reaches a Human; it never dispatches |
| Ingress, `ingress.ts` | evidence envelopes, requests, allocation, run membership | seal a request, evidence, incident; allocate work; hold | first seal wins; an open incident holds its scope |
| Store, `store.ts`, `records.ts` | append-only tables in SQLite, `BEGIN IMMEDIATE` | insert, read | a row once written is never changed |
| Policy activation, `adapters/storePolicy.ts`, `policyState.ts`, `policyPublication.ts`, `genesis.ts` | the activation log, published policy refs | genesis, `POLICY_ACTIVATE`, verify-on-read | one successor per activation; a superseded policy never comes back by a late dispatch |
| Root listener, `rootListener.ts` | - | `BREAK_GLASS`: activate, release incidents | only on the exact active row; takes no lock D |
| Evaluator, `evaluator.ts` | one OPA sidecar, one bundle file, the loaded digest | load, evaluate, seal a decision | a decision was computed under the policy it names |
| Service and API, `kernelService.ts`, `api.ts` | - | start: load policy, scan, probe, listen | the scan ends before the API listens |
| Adapters, `adapters/*.ts` | the target's | dispatch, reconcile, receipt binding, probes | absence is reported as proof only where it is proof |
| CAS, canonical form, ids, signatures, bundle format | - | pure | not modelled: taken as injective |

### The product (`cadp/product`, `cadp/live`, `cadp/deployment`)

`workflows.ts` and `activities.ts` run one work item as a Temporal workflow:
plan, implement, review in at most two rounds, a Human decision, merge; each
governed effect is requested, evaluated and dispatched through the kernel's API
by an activity that Temporal retries. `isolation.ts` runs an agent in a
container under deadlines; `surfaceBroker.ts` serves agents over HTTP with one
answer per request; `timeouts.ts` holds the hierarchy of budgets;
`recordService.ts` is a keyed record target. `improvement/` turns findings into
claims, and asks for the seals by which a contract finding is reclassified or moved. The
`live` scripts operate a deployment; `referencePolicy.ts` generates the reference policy,
whose predicates decide what the sealed rows allow.

| part | state | operations | correct when |
|---|---|---|---|
| Work workflow, `workflows.ts`, `activities.ts` | the workflow's variables (durable), attempts of activities (not), WORK_STEPs, effects | schedule, attempt, retry, submit a step, signal | what is shipped was verified and approved, and is shipped once; the steps form one chain; a run ends |
| Surface runner, `isolation.ts` | one container, docker clients, the ledger of those not confirmed gone | create, launch, stop, remove, observe | a reported end is true; each of its waits is bounded |
| Surface broker, `surfaceBroker.ts`, `brokerTransport.ts` | the answered flag, the workspace | prepare, run, answer, guard | one answer, and in bounded time; a value only from a surface that ended and succeeded. Its preparation has no deadline |
| Improvement intake, `improvement/*.ts`, `findingSeal.ts` | finding rows, governed edges | claim, resolve, request, seal, reconcile | one governed successor per predecessor; nothing is released past a contract finding |
| Deployment, `deploymentActuation.ts`, `live/componentControl.ts`, `live/ctl.ts attest` | processes, their pid files, the checkout, two latest attestations | compare, stop, start, probe and seal, reconcile | a rejection has touched nothing; a deployment restarts at most once; committed means deployed |
| Reference policy, `referencePolicy.ts` | - (pure, over the admission input) | gates | independence is of every implementer |

### The development harness (`devharness`)

A supervisor drives *lanes* (one issue each) through a pure transition function
`decide(lane, event, policy)`; it persists lanes between steps, holds them when
capacity is exhausted or an outcome is unknown, and hands a reviewed, frozen head to a
Human for the merge. Its state is a registry file, read once when a supervisor
starts and written whole at every save; `resume` and `hold` are processes of their own over
the same file. A lane's worker, its reviewer, `git` and `gh` are child processes.
A lane is correct when what waits for a merge is exactly what was reviewed, when
nothing a worker left half done gets that far, when it starts on top of its
design, and when a hold lasts until somebody ends it.

### How the parts interact

Clients and activities call the API. `evaluate` seals a decision from sealed
inputs; `admit_and_dispatch` turns a decision into an admission row and a
request to a target; the target's answer, or the Reconciler's reading of the
target, becomes an outcome row; incidents and Human exceptions are envelopes
which later admissions read. The PEP, the Reconciler, the evaluator and the root
listener share the store and one event loop: whatever an `await` separates, others
run in between.

### What is hard here

Requests that outlive their caller; two writers of one effect's outcomes; state
read before an `await` and compared after it; a crash between an admission and
its outcome, or between an incident and the row it explains; a foreign object
under a key; absence that is not proof; attempts counted before they are
recorded. In the harness: heads and base branches that move between the steps that compare
them, restarts with a worker in flight, and two processes that save one file. In the
product: attempts that were given up and go on; containers that appear after their
runner has stopped waiting; timers that race for one answer; and admissions over rows
that the caller chose, while others are being sealed. In a deployment: components replaced
one after the other by a service that can die between any two steps, and what is known of a
process being a file and a checkout that change without it.
`PROJECT.json` lists each hazard at its line, with the properties that
would catch it going wrong or the reason why none does yet.

## 2. Plan

In order of importance; each question gets one passing run, and violations only
for disagreements between the code and what the repository says of it.

1. **EffectKernel** with the abstract specification **OneEffect** and
   **EffectKernel_proofs**: PEP, Reconciler, crash and restart. *Done.*
2. **PolicyActivation** with the abstract specification **PolicyChain** and
   **PolicyActivation_proofs**: the activation log, the two ways to activate,
   reconcile by the successor row, and the loading of the one OPA process by
   concurrent evaluations. *Done.*
3. **RunScope** and **RunScope_proofs**: allocation, the first seal, run origin
   and membership, the capability of a run, recheck #19. *Done.*
4. **DevHarness** and **DevHarness_proofs**: lanes, holds, restarts, the
   operator's commands. *Done.*
5. **SurfaceRunner** and, composed with it, **SurfaceBroker**, with the abstract specification
   **OneAnswer** and the proofs in **Evidence_proofs**: commands with deadlines, late containers,
   the broker's one answer. *Done*, and checked without a bound.
6. **WorkFlow** and **WorkFlow_proofs**: rounds, activity retries over what clients see of
   the kernel, the chain of WORK_STEPs, the Human's signal. *Done.*
7. **FindingGate** and **FindingGate_proofs**: the improvement findings, their governed
   seals, the barrier of the reference policy. *Done.*
8. **EvidenceGate** and, in **Evidence_proofs**, its theorems: assembly, the gates of pull
   requests and merges, recheck #18. *Done.*
9. **Deployment** and **Deployment_proofs**: sequential replacement with partial failure,
   reconciled by attestations. *Done.*

## 3. Modules written

### EffectKernel.tla

State, by where it lives:

* the store: `active` (seq of the active policy), `decisions`, `admissions`,
  `ordinal` (the greatest dispatch ordinal of each effect), `results` (outcome
  rows of each admission, as the set of their results), `attempts` (the
  Reconciler's UNKNOWN rows), `incidents` and the `open` ones, `exhausted`;
* the memory of the service, lost by a crash: `calls` (inside lock D), `passes`
  (of the Reconciler), `scan` and `svc` (starting or up);
* the targets: `wire` (requests sent and not yet processed), `times` (how often
  each effect took place), `lost` preconditions, effects whose state somebody else has
  brought about (`met`) or in whose place there is another object (`occupied`).

Actions and the code:

| action | code |
|---|---|
| `Evaluate` | `evaluateAndSeal` seals an ALLOW bound to the policy that was active when it began |
| `Activate`, `Release` | an activation, a BREAK_GLASS release: neither takes this call's lock |
| `Acquire` | `admitAndDispatch`: lock D, then the snapshot of the active policy, with no await in between |
| `Refuse` | every early return and every refused recheck; corruption leaves an incident on effect and target |
| `Admit` | `#admissionTransaction`: recheck #1 against the snapshot, #5, the incident hold, #12, the ordinal bound; the row |
| `Send`, `GiveUp`, `ObserveAccepted`, `ObserveRejected` | `#dispatchAndObserve`, each answer with its `writeOutcome` |
| `Land`, `FindTaken`, `Reject`, `Drop` | what a target does with a request, at any later time |
| `LosePrecondition`, `Match`, `Occupy` | other writers of the target: any change, the same state, another object in its place |
| `StartPass`, `Exhaust`, `Read`, `Record` | `reconcileEffect`, split at its `await` and between its transactions |
| `Crash`, `ScanNext`, `ScanDone` | the restart: `reconcileOpenAdmissions`, then the API listens |

A target is what its adapter declares: `NATIVE_KEY` (record, workflow start,
finding: written once per key), `NATIVE_PRECONDITION` (push, merge, activation:
holds once) or `NONE` (opening a pull request: every request takes place),
together with `Proof` and `NativeCas`. A target that already has the state which the material
asks for is COMMITTED, whoever brought it about (`There`): a ref at the commit, a pull request
of the head, a merge, an activation, a finding or a record of this content
(`github.ts:257`, `:275`, `:290`, `storePolicy.ts:165`, `findingSeal.ts:198`). The effects
of which this is so are `Anonymous`. Only another object, which the receipt does not bind or
which says that it is somebody else's, is told apart: `Occupiable` (a workflow under the id, a record
under the key, a merge of the pull request at another head).

Left out, and why it does not matter for the properties: digests are injective;
clocks and TTLs only refuse, and `Refuse` may always happen before an admission;
rechecks #2-#4, #7-#11, #13-#19 likewise. `REQUIRE_NO_PRIOR_UNKNOWN` and
`MAX_EFFECTS` constraints also only refuse. The idempotency horizon of a workflow start is taken
as not passed. A crash may fall between an incident and the row it announces
(`HalfWritten`): they are two transactions. Every incident kind of the kernel holds the
effect or target it names in the same way, so kinds (`WORK_STEP_CONFLICT`,
`REQUEST_DIGEST_CONFLICT` and the rest) are not distinguished; those that ingress
seals before an effect is ever dispatched are left out with it.

Definitions whose comment begins with "Mutant:" are not part of the model: each
is the definition after it with a plausible bug, and shows that a property can fail.

`NoEffectIsTrue` and `UnknownIsReconciled` state what the documents say and the code does
not do: see section 4. `CommittedIsTrue` is part of `PromiseKept`. In this module and the
others `TypeOK`, and `IInv` where there is one, are theorems, or hold in the same runs
when they are added to the cfg. So do `NoBlindRetry` and `NothingUnadmitted` in `shared`,
which are theorems that follow closely from the guards. That nothing is admitted under an open
incident on its scope is a guard of `Admit` (`Held`) and not stated again as a property.

### OneEffect.tla

What the path promises: an effect takes place only after it was asked for, at
most once, and is told of as committed only after it took place or, if its receipts are
anonymous, after somebody else brought the same state about (`Meet`).
`EffectKernel!Promise` maps `asked` to having an admission row, `taken` to the
target's count, `met` to itself, and `told` to having a COMMITTED row; so does `Promise` of `WorkFlow_proofs`
for the part of the kernel which `WorkFlow` shows, with nobody else at its targets.

### PolicyActivation.tla

State: the store's `log` (activation rows, each with who wrote it), `published`
bundles, `decisions` (each with the bundle that really computed it, which the
code does not record), `admitted` effects, `results`, effects `held` by an
evaluator incident; the service's memory: `evals` (one record per `evaluate` call),
the process `handle`, processes whose exit handler is `heard`, the label
`loaded`; and what outlives a crash: OPA processes (`proc`, what each `serves`),
the bundle `file`, the `pidfile` and the socket (`sock`).

| action | code |
|---|---|
| `ExecuteRoot`, `ReleaseHold` | `executeRootOperation`: base is the exact active row, no lock |
| `AdmitAndDispatch` | `admitAndDispatch` of a `POLICY_ACTIVATE`, from lock to outcome |
| `Reconcile` | `reconcileEffect` with `StorePolicyAdapter.reconcile` |
| `Begin` | `evaluateAndSeal` up to the first await of `ensureLoaded` |
| `Resume` | the awaited exit: its handler, then the file and `start` |
| `Ready`, `Report`, `Confirm` | health, status, and the label set when the status arrives |
| `Answer`, `ReadStatus`, `SealDecision` | the query, the second status, the gate |
| `Fail` | any of these requests failing or timing out |
| `Bind`, `LoadFile`, `Exit` | an OPA process (external) |
| `Crash` | the service dies; the sidecar does not |

This adapter's methods await no I/O, so in one process nothing runs between the
snapshot of the active policy and the outcome row of an activation: the whole
call is one action, its compare-and-set cannot fail there, and only a crash can
end it earlier (`end` = "ADMISSION" or "ACTIVATION"). It is other adapters'
awaits that let an activation overtake an admission (run `stale_policy`). The
load at boot is the same code as an evaluation's and is subsumed by the next one.
Evaluations that end in DENY or REQUIRE_EVIDENCE admit nothing and are left out.

The module also shows, without a property against it (`evaluator.ts:312`), that two evaluations
around an activation can seal `EVALUATOR_INTEGRITY_FAILURE` for a healthy
sidecar: the code fails closed and leaves the effect held until Root releases it.

### PolicyChain.tla

A chain of policies; a successor is appended by a verdict of the last policy, or
by Root. `PolicyActivation!Promise` maps the chain to the log, and the verdicts
to the decisions *by the bundle that computed them*: that `chain` grows only by
verdicts of its last element needs both that the gate of the evaluator works and
that the rechecks refuse decisions of a superseded policy.

### RunScope.tla

Under a `cadp.kernel-config.v2` policy an effect may belong to a *run*: the run of
a WORK_START, whose effect id is the run's name. State: the store's `alloc`,
`request`, `membership` and `capability` tables, the admissions of each effect with
the conclusive outcomes of each (`admitted`), the open REQUEST_DIGEST_CONFLICTs
(`held`, each as the set of effects it stops: its own, and all of the target that the rejected
draft names, whoever sealed them, `ingress.ts:765`); in memory, calls of `admit_and_dispatch` (`call`); what clients were
told, `delivered`. `active` is the configuration in force, of which the
run profile reads four registries.

| action | code |
|---|---|
| `AllocateEffectId` | `allocateEffectId`, v2; the same tuple again returns the same identity and is a stutter |
| `SealConflict` | `sealEffectRequest` over an existing row of the caller's own with other content |
| `SealOutside`, `SealOrigin`, `SealMember` | the first seal in one transaction: `#assertFirstSealBinding`, `#assertRunEnrollment`, then by `#adjudicateRunOrigin` and `#adjudicateRunMembership` one of three |
| `BeginCall` | `admitAndDispatch` up to lock D, the stamp of the caller and `WORK_START_DISPATCH_REQUESTER_MISMATCH` |
| `Acquire`, `Admit`, `Return` | the lock with the policy snapshot; recheck #7's own hold, #12, #19, the row and the mint; outcome and answer |
| `Refuse` | every other way the call ends without an admission |
| `Reconcile`, `Release`, `Activate`, `Crash` | outcome rows of the Reconciler, BREAK_GLASS, a policy change, a restart that loses what calls would have returned |

Digests are injective, so a contract digest is the contract, and presenting a
capability is naming the run whose secret it is. `Demand` is what a descriptor and a
mapping make of a tuple: the operation kind and the projected bindings (`subject`). A
request has at most one binding in the work-run namespace (`bound`): where the
namespace is declared, the ambiguity lock refuses two. Whether an
unresolved dispatch may be repeated depends on its adapter (`EffectKernel` has
that), and here it always may. Other incidents and the other rechecks only refuse. The v1 path, which knows no
runs, is left out.

### DevHarness.tla

State: GitHub (`main`, how far the base branch has advanced; `hub`, per branch
its head and its pull request), the worktrees (`tree`: head and uncommitted work),
the registry on `disk` and the supervisor's copy of it, `mem`; where the supervisor is
(`sup`), the lanes still to visit in this round (`todo`), whether the round moved
one (`progress`); a command between its read and its write (`cli`). `whole` is
history: did the last invocation of the lane's worker report completion.
A commit is a number and the base version it contains.

| action | code |
|---|---|
| `Start`, `Reconcile`, `Admit` | the store's constructor, `reconcile`, `admitWork` |
| `Round`, `Rest`, `StepBound`, `StepError` | the loop of `run`, its end, its bound, its net for a step that throws |
| `BlockOnDesign`, `EnterSetup` | `designDependency` and `refreshBaseAfterDesignMerge`, then ADMIT or DESIGN_DEP_MERGED |
| `AddWorktree`, `RecordWorktree` | WORKTREE_SETUP: the worktree exists before the registry says so |
| `StartRepair`, `InvokeActor`, `ActorCompletes`, `ActorFails` | REPAIR_PENDING and ACTOR_RUNNING with each outcome kind |
| `Validate` | VALIDATING |
| `RejectCandidate`, `PushCandidate`, `PushRefused`, `CreatePr`, `Freeze` | FREEZING, split where a crash can fall |
| `OpenReview`, `ReadPr`, `ReadBase`, `ReviewerAnswers`, `ReviewerFails`, `RecordReview`, `Judge` | REVIEW_RUNNING, split at its awaits; the GO is saved before the verdict |
| `LookAtMerge`, `ReadMerge`, `StillOpen` | HUMAN_MERGE_WAIT |
| `Crash` | the supervisor dies anywhere; worktrees and GitHub stay |
| `CommandReads`, `CommandWrites` | `resume` and `hold`: read the file, `decide`, write the file |
| `OthersAdvanceBase`, `Merge`, `ClosePr`, `ForeignPush`, `WriteTree`, `LoseTree` | external: other committers, the Human, whoever writes in a worktree, an orphaned worker included |

The operators above the actions (`ProviderFailure`, `Repair`, `RemoteDrift`,
`BaseDrift`, `Mutated`, `Verdict`, `Resume`) are `decide`. `WriteTree` may happen
at any time, so what a worker does between `InvokeActor` and its answer, and what
one that outlived its supervisor does later, are the same action.

`Overlap` says whether a command may run beside a supervisor. The code does not
prevent it (`store.ts:62` takes no lock), and then a hold can be overwritten and partial work can get
downstream: `HoldsAreHonoured` and `WorkIsWhole` fail. What holds then too is stated by two
action properties. `HoldsAreLeftKnowingly`: a lane leaves a durable boundary in the file only by
a resume command for it, or by a save of a process whose own copy of the lane is not at a
boundary. `PartialWorkIsCopied`: partial work gets downstream in the file only when a
command writes an old copy in which it is, or by the supervisor, from its memory
or because its copy is not what the file says; and into memory only from the file. So no decision over a copy is
wrong, and what is lost is lost by copies alone. With `Overlap` FALSE commands still fall between any two supervisors, and
one supervisor runs at a time; the copies then agree. Every property but `HoldsAreHonoured` and
`WorkIsWhole` is proved for both values.

Left out: dry runs; the journal and receipts; the texts a repair is told;
`holdReason` and `currentHeadSha`, which decide nothing. `claimWorktree` cannot
conflict, since the path is derived from the lane's id. REVIEW without a candidate,
and merge wait without a pull request, do not occur (`IInv`). COMPLETE without
a typed signal is routed as UNKNOWN is. The save of a frozen candidate is one action
with the transition after it, likewise the save of a refreshed base: the
next start treats the record between them as it treats the one before. Whether a
push is refused is left open. A closed pull request is not reopened. There is no liveness
property: `maxSteps` bounds a run, and what continues it is an operator's decision.

### SurfaceRunner.tla

One run of `runBoundedSurface`: a container whose name is the run's own, and the docker
commands that create, launch, observe and remove it. A client process, its request at
the daemon and the container have three lifetimes, and each is a variable: `client`,
`request` with `reply`, `container`; `answer` is what the client's promise resolved to,
`strays` the queries and removals that were let go while their client was there. The
runner's own state is where it stands (`pc`, and `step` within one command), the ledger
`held`, the end of its window (`expired`), and what it reports (`ended`).

| action | code |
|---|---|
| `Issue`, `TooLate`, `TakeAnswer`, `AnswerDeadline`, `Released`, `NotReleased` | `within` and `settle`: start, answer or deadline, cancel, gone or recorded |
| `Begin`, `Created` | `runBoundedSurface` up to the acknowledgement of the create |
| `Watched`, `WatchRemoved`, `WatchNext`, `Swept` | `reconcileUnacknowledgedCreation` |
| `LauncherSettles`, `SurfaceBound`, `LauncherStopped` | the launcher, the surface's bound, `stop` |
| `Orphan`; `Removed`, `Confirmed`, `TerminateNext` | `settleOrphanedSurface`; `terminateSurface` |
| `Return` | what is reported, after the ledger was asked |
| `Expire` | a budget of `timeouts.ts` ends |
| `Send`, `Serve`, `SurfaceExits`, `Close`, `Die`, `ErrorEvent`, `StrayCloses` | docker clients, the daemon, the agent (external) |

Time is only that a window may end at any moment. A client that exits by itself may have been
answered, or have lost the daemon with its request still there (`Close`); the runner tells an exit
code and cannot tell the two apart (`Failure`). A removal that is still with the
daemon when its client is let go is not followed: it could only remove the run's own container. Left
out: the network boundary around a surface, argument vectors, mounts.

### SurfaceBroker.tla

One request, from `brokerPostJson` to its response, EXTENDing the runner: `job` (prepare,
surface, finish, cleanup, settled), `outcome` of the operation, the `workspace`, `answered`
and `response` of the broker, `rpc` of the caller. /implement, /verify, /review and /plan
have one shape; /verify answers a failed conclusion where the others throw, which is the
outcome "negative". Its preparation runs `docker info` and git without a deadline, and may never
end. `Guard` is the response budget, `GiveUp` the caller's budget or a broken
connection, `ConnectionCloses` what the broker notices of it.

### OneAnswer.tla

What the broker promises a caller: it hears once, whatever comes later, and of a success only after
one was earned. `Promise` of `Evidence_proofs` maps `earned` to the surface having ended with
`ZERO`, and `heard` to `rpc`.

### WorkFlow.tla

A work item as `cadpWork` runs it, for both verticals, with the attempts of its activities.
The workflow is durable (`stage`, `round`, `ord`, `prior`, `cand`, `checks`, `human`,
`report`): Temporal replays it. `attempts` are not: one can throw between any two of its
calls, lose its completion, or be given up and go on beside its successor.
The kernel is what its clients see: `fx`, per allocation key the request, the rows of each
admission and how often the effect took place; `steps` and `held`; `evidence`.

| action | code |
|---|---|
| `Schedule`, `ScheduleMerge`, `Signal` | `nextStep`, the wait for a Human's decision, its signal |
| `Surface` | `brokerCall` and the envelope of its answer |
| `ReadState`, `ReadReconciled`, `SealAndEvaluate`, `Admit`, `Dispatched`, `ReadAgain` | `governedEffect`, `recordWriteStep`, `prepareMergeEffect`, `completeMergeWithHumanDecision`, one action per call of the API; a state that cannot be read counts as not sealed (`activities.ts:151`) |
| `SubmitStep` | `submitWorkStep` with `insertWorkStep` |
| `Complete` | the workflow takes an activity's value: `Continue` and `Judge` |
| `Retry`, `Vanish` | an attempt is given up, and may go on for a while |
| `Land`, `Observe` | a request takes place or is lost; any reconciliation of it |

Left out: work bounds other than the number of steps; an allocation whose material changes between
attempts (a record's material embeds the outcome digest of the one before, so a
retry after that changed is a REQUEST_DIGEST_CONFLICT); false absence, which `EffectKernel` has;
the idempotency horizon; other writers at the run's own branch, pull request and records, for
whose like effects a target would answer COMMITTED; a REVIEW that two attempts give differently for one candidate,
which the completeness of the assembly decides (`EvidenceGate`).

### FindingGate.tla

State: the `log` of IMPROVEMENT_FINDING rows, AUTHORITY_RESOLUTIONs and observations; the
`active` policy; per FINDING_SEAL effect its draft, approval, results, and the policy it was last
admitted under; open GOVERNED_SEAL_CONFLICTs; the dispatch in progress. A finding is
its index in the log; of its classification the model keeps whether it is CONTRACT_*.

| action | code |
|---|---|
| `Submit`, `Resolve` | `submitFinding`, `submitResolution` of the intake |
| `Request`, `Observe`, `Approve` | the sealed transition with its one draft, and its authority |
| `Dispatch`, `DieInside` | admission and `insertGovernedEvidence` in one turn, or a crash in it |
| `Record`, `Reconcile`, `Crash`, `Release` | `writeOutcome`, the adapter's `reconcile`, a restart, BREAK_GLASS |

The operators between are the predicates of the reference policy, over any subset `P` of
the rows: the caller of an admission chooses what it presents. `Dispatch(e, p)` admits
under any policy that was active since the call began. `StartAllowed` and `MutationAllowed`
are read by the property, since allowing work changes nothing here. The incident of a
refused insertion is sealed after it: a crash between the two leaves none, and a later
reconcile says NO_EFFECT_CONFIRMED. Left out, because they only refuse more: occurrence
conflicts, external inputs, `conflict_complete`, equality of methods and texts, the kinds
of an intake claim; and FINDING_PROJECT, which reads.

### EvidenceGate.tla

One PR_CREATE or PR_MERGE: the envelopes in the `store`, the `input` last assembled, the ALLOW
last sealed (`decision`), the admission. A policy is its `subject_complete_assembly` entries
(none under a v1 configuration) and `require_external_verification`.

| action | code |
|---|---|
| `Submit` | `submitEvidence`, at any stage |
| `Assemble(refs)` | `assembleAdmissionInput`: what the caller names and all that is declared complete |
| `Evaluate` | `evaluateAndSeal` with the gate of `referencePolicy.ts` |
| `Admit` | `#admissionTransaction` with recheck #18 over the rows of the transaction |
| `Activate` | the next policy |

The gate does not ask of which run an implementer's row is: a row of another run can satisfy "some
implementer is known", and a WORK_STEP alone does, where the comment at
`referencePolicy.ts:137` says that independence is claimed only against a known implementer.
The property therefore speaks of a policy that declares both kinds complete, as without that the
caller chooses the set. Left out: corrupt rows and adverse verdicts, reason codes, constraints.

### Deployment.tla

A DEPLOY restarts the broker, the worker or both at the commit of the kernel's own checkout, and
is committed by attestations that `ctl attest` seals afterwards. State: of the store the rows of
each effect (`ordinal`, `results`, `attempts`, `exhausted`), the latest attestation of each kind
(`reach`, `immutable`) and `failed`, the effects with a failing one since their admission; of the
service `svc`, `scan`, `call`, `passes`; of the host the `head` of the checkout, `pidfile`, `procs`
with the commit each was started from, and the runs of `ctl attest`. `touched` and `broken` are history.

| action | code |
|---|---|
| `Begin`, `ReadCheckout`, `Refuse`, `Admit` | `describe().available`, the local pin, any refusal, rechecks #8 and #12 with the row |
| `Compare` | the observation of the whole named set, before any of it is touched |
| `Stop`, `Spawn`, `WritePid` | `kill` and `start` of one component; the process is there before its pid file |
| `Throws`, `Conclude` | the window has passed or a method throws; the outcome row, which is never COMMITTED |
| `Reconcile`, `Judge`, `JudgeThrows` | `reconcileEffect`: it awaits `ctl attest`, then reads what was sealed |
| `ScanNext`, `ScanDone`, `Crash` | the restart |
| `RunAttest`, `SealReach`, `SealImmutable`, `AttestFails` | `ctl attest`, by the schedule or for an effect |
| `OperatorStarts`, `MoveCheckout` | `ctl start`; the checkout (external) |

The methods of the live component runner are synchronous inside, so from an admission to its
outcome no other event of the service is handled (`Idle`): between these actions only the host moves, or the
service dies. Components are replaced in any order. An envelope is what is read of it: its
effect, whether it passes, whether it is newer than that effect's last admission. Left out,
because they only refuse: the cleanliness of the work tree, GitHub's comparison with main, the image
digest, the ages of attestations; and that a process ends by itself, since nothing reads whether it lives.
Recheck #14 is taken as passed (section 4). A crash between `Spawn` and `WritePid` leaves a process that
no later stop finds; no property is stated against it, as nothing in the repository promises otherwise.

### The proof modules and the MC modules

The theorems of section 5; and the instances of section 4. `Evidence_proofs` holds those of two
modules, `SurfaceBroker`, where a verdict is made, and `EvidenceGate`, where it is weighed. They share no
name and no state, and neither part of the proofs uses the other.

## 4. What is checked

| run | instance | shows |
|---|---|---|
| `key` | one keyed effect, two ordinals, two attempts, an activation, one pass, another writer with this content or another, corruption, a crash | contradictions leave incidents; exhaustion is earned; `OneEffect` is implemented |
| `shared` | a native-precondition effect and one without idempotency on one target, two ordinals, other writers of it, a pass, a crash | at most once; what is recorded as absent is; no request after the effect |
| `live` | a keyed effect and one without idempotency in two lock domains, one Human decision, one ordinal and one attempt each, a pass, a crash, fair scheduling | the decision is used for one effect; every admission gets an outcome; exhausted attempts are routed |
| `policy` | three bundles, two of one `policy_id@revision`; effects over rows 1 and 3; four Root documents; two evaluations; a crash | `PolicyChain` is implemented; decisions computed by their policy; outcomes true; nobody activates twice; the active policy resolves; no stray sidecar |
| `scope` | two requesters, two effects, a policy without the run profile and one with it, two dispatches of a WORK_START, crashes | requests are what was allocated; memberships are earned; a capability is minted and returned once, to its owner; what is admitted in a run's scope is in it |
| `lanes` | a lane behind a design whose pull request is another's; one repair, one provider retry, three base versions, two commits; any number of crashes and of commands between supervisors | merge wait only with a GO on the frozen head over a proven base; only complete work downstream; the design first; one pull request; a hold is left by a resume |
| `surface` | one request, one run, one container; every client, the daemon and the agent may fail, hang or be late; no bound of the model | a reported end is true; a value is earned; everybody is answered, and a run past its preparation returns |
| `work` | both verticals, with and without external verification and a Human's merge; two rounds, two records, two attempts per activity, one fault, one attempt that was given up and goes on, two admissions per effect | what ships was pushed, verified and approved; it ships once; the steps are a chain; completed means done; every run ends or waits for the Human |
| `findings` | two subjects, two seals, up to four findings, two dispatches per seal, two policies (rules doubled, one finding landed, the writer revoked), a crash | nothing is released past a contract finding; one governed successor; outcomes of seals agree with the store |
| `evidence` | eleven envelopes of two products, up to five sealed; three policies: v1, implementers declared, reviews declared and external verification required | reviewer and deciding agent are independent of every known implementer |
| `deploy` | one deployment of both components in two dispatches, which claims a pid; two commits; one pass, two attempts; a crash; one process started by the dispatch or by the operator; fair restarts | a rejection has touched nothing; one restart at most; a broken boundary is final; the service starts again |

Bounds: `MaxOrdinal` 2 gives a first dispatch and a retry (the rechecks look at
the previous admission and at all commits, so a third adds no case);
`MaxAttempts` 2 separates "one left" from "none left"; one pass beside one call
gives the two writers of an outcome, and the boot pass comes with the crash; one
crash at any point, including during the scan's aftermath; two effects are the
least that share a target or a Human decision. In `key` and `shared` the effects are `Anonymous`,
and all but the one without idempotency `Occupiable`; in `live` nobody else writes. `MaxOrdinal` and `MaxAttempts`
are parameters of the policy in the code as well; `MaxPolicy` and `MaxCrashes`
only bound the model. In `live` one attempt is the last one, so that a pass either
finds the effect or exhausts it, and the order of the calls of two domains is free.

In `surface` a second request adds nothing: names of containers are unique, and requests
share no state but the docker daemon, of which nothing is assumed.

In `work` two rounds are the code's own; `MaxSteps` 11 is what the longest run
needs, and `Schedule` may stop a run before any step, as the deadline may. One
fault and one attempt that is still at work are the least that let two attempts of one step meet at
any two of their calls; two attempts are "one left" and "none left". `MaxFaults`, `MaxLeft` and
`MaxAdmissions` only bound the model.

In `findings` three findings and a seal are a path with a step in the middle, and two
seals are what competes for an edge; a finding the intake adds may correct several. Effects
and subjects are interchangeable. `MaxSubmitted` and `MaxCrashes` only bound the
model. In `evidence` an APPROVE and a decision, a verification and two implementers are five
rows; each producer's role comes in both products, and one implementer's row is another run's.
These two runs stop when their bounds are used up, as does `work` when its workflow has ended, and
`surface` when everybody has returned: deadlock is not checked in them. The theorems hold for any
number of findings, seals and envelopes.

In `policy` the documents let Root overtake the first effect with its own proposal or with
another one, and bring the first bundle back as row 3, where the second effect,
a replay of the first document and a conflicting bundle become possible. Two
evaluations are the least that swap a sidecar under one another. Deadlock is not checked
there: evaluations and crashes are bounded, so the instance ends.

In `scope` the second policy differs in everything the first seal reads: it enrols both
requesters, declares the namespace, changes the contract of one tuple and swaps the
names of the two callers, so that each of these can change between any two steps, and back.
Two effects are a run and its member, or a run and a stranger; the second dispatch of a
WORK_START is where a second mint would be. There is one call at a time: calls on one effect take
turns by the lock, and calls on two effects share no row that either writes; the
theorems hold for any number. `MaxOrdinal` and `MaxHeld` only bound the model.
Exchanging both callers and their names maps either policy to itself, which is why
the instance may be reduced by it.

In `lanes` three base versions let the base advance once for the design's merge
and once after; two commits give a candidate and the one that replaces it, by a
repair, a rebase or a foreign push; one repair and one retry separate "left"
from "used up". One lane suffices because lanes share only the loop and the
file; the theorems hold for any number. `MaxBase` and `MaxCommits` only bound
the model, the other two are the supervisor's settings. `HoldsAreLeftKnowingly` and `PartialWorkIsCopied`
were checked with `Overlap` TRUE too, for two base versions and one commit (2.1 million
states; the bounds of `lanes` are too many for that). With `Overlap` FALSE `HoldsAreLeftKnowingly`
is `HoldsAreHonoured`: the supervisor's copy agrees with the file, and a command's was read from it.

In `deploy` other deployments would be seen only by their envelopes, which those of the
schedule stand for, and by moving the checkout. Two ordinals are a dispatch and its retry. `MaxPid` 3 leaves one process
to be started, by the dispatch or beside it: a dispatch answers alike whether its last start
succeeds or not, and `touched` counts from the first stop. `MaxPid` and
`MaxCrashes` only bound the model, whose attestations come one at a time from the schedule, so that
their number needs no bound.

Fairness. In `live`: a call that holds its lock goes on, a pass goes on, the restart scan goes
on. This is what the event loop, the deadlines of the record and GitHub transports, and the
process supervisor give; `temporalLive.ts` sets no deadline of its own on a start,
so the assumption does not cover an unresponsive Temporal server. Nobody is
assumed to ask for a reconciliation, and targets may never answer. Note that
`live` has one `request_reconcile` at a time: with two the attempts can be
exceeded, as they are counted before an await and recorded after it
(`reconciler.ts:61`), by rows that neither writer takes for the last.

In `surface`: the event loop runs what is ready and timers fire. Docker clients may never
close, the daemon may never serve, the agent may never end. The preparation of a job is not
assumed to end (`isolation.ts:813`, `surfaceBroker.ts:69` and `:144` have no deadline), so
`EverybodyReturns` promises the answer always, and the end of the job and its workspace once the
preparation is over. In `work`: Temporal schedules,
an activity goes on or is timed out (`timeouts.ts` gives each a start-to-close budget), and a
dispatch that was admitted gets its outcome (which `live` shows). Nobody need reconcile, no target
need take anything, and the Human need not answer; that a step may fail is a bound (`MaxFaults`), not
fairness. In `deploy`: the scan goes on, and `ctl attest` ends, since its probes are killed after a minute
(`ctl.ts:136`) and a connection to an API that does not listen is refused; `gh` and `git`, which have no
such limit, are not reached before that.

### Where the code and its documents disagree

The run `stale_policy` expects a violation; the quotation is under `findings`.

| run | what is said | what happens |
|---|---|---|
| `stale_policy` | admitted under the policy active at commit | the snapshot taken before the awaits is compared |

Others were found by checking a property of the modules in a cfg that is not kept, or while
reading. "With" is what to check to see it again.

| with | what is said | what happens |
|---|---|---|
| `NoEffectIsTrue` in `key` | "ordinary lookup absence is never sufficient" (TD:439) | `request_reconcile` takes no lock D and waits for no deadline; the record and Temporal adapters (`record.ts:173`, `temporal.ts:209`) answer NO_EFFECT_CONFIRMED while the request is in flight, and it then lands |
| `ExceptionIsRouted` in `live`, with `Occupiable = {key}` | after the bound a RECONCILE_EXHAUSTED envelope is written (TD:510) | an attempt whose receipt does not bind counts (`reconciler.ts:72`), but only the UNKNOWN branch (`reconciler.ts:90`) seals the exhaustion: used up by the former, nobody is told until somebody asks again |
| `UnknownIsReconciled` in `live` | the Reconciler runs "on start, on UNKNOWN write, and on `request_reconcile`" (`reconciler.ts:2`; TD:509) | its callers are the API (`api.ts:191`) and the restart scan (`kernelService.ts:134`); nothing starts a pass when an UNKNOWN row is written |
| `HoldsAreHonoured` as a PROPERTY in `lanes`, with `Overlap = TRUE` | durable boundaries are left only by HUMAN_RESUME or HUMAN_HOLD (`devharness/transitions.ts:448`) | a save writes the saver's whole registry (`devharness/store.ts:62`): a hold given while a supervisor runs is overwritten, and the lane goes on |
| `NeverCreatedIsNever` in `surface`, with `SPECIFICATION BrokerSpec` | REJECTED: "no container of this identity was created and none can appear later" (`isolation.ts:56`, likewise `:309`) | `creationOf` (`isolation.ts:412`) takes any exit code but 0 for a refusal; a docker client that lost the daemon after sending exits with 1 as well (as `isolation.ts:325` says of `inspect`), and the daemon may still create the container after NEVER_CREATED was reported (`isolation.ts:557`) |
| `RefusedMergeStops` in `work` | "A refused merge is a STOP, never a completion" (`workflows.ts:297`) | `prepareMergeEffect` (`activities.ts:707`) asks for a Human only when the evaluation does; when it is a DENY, an ALLOW or unavailable, the workflow skips the merge (`workflows.ts:288`) and returns `completed: true` (`workflows.ts:305`) |
| `RetriesConverge` in `work` | a replay or retry that re-submits the same logical step "converges on the same envelope and never produces an incident" (TD:554) | an attempt whose completion was lost after its step is repeated; a new candidate, verification or review is another output (`activities.ts:310`), so the second submission is a WORK_STEP_CONFLICT, and the run is held |
| reading | a merge retried after it was committed reads the effect's state first (TD:568, `activities.ts:2`) | `completeMergeWithHumanDecision` (`activities.ts:722`) does not; its retry is refused, and the run stops as MERGE_REFUSED though merged |
| reading | - | `governedEffect` takes the first conclusive row of any admission (`activities.ts:159`): NO_EFFECT_CONFIRMED of a first dispatch hides the COMMITTED of a second, except where the state is read first |
| reading | - | `/verify` answers 200 with a failed conclusion for a run that was stopped over its budget, if it had printed a summary (`surfaceBroker.ts:385`) |
| reading | - | `prepareMergeEffect` binds only its run (`activities.ts:697`), so a policy that declares REVIEW complete over `commit` for merges refuses every assembly of it |
| `CommittedIsAlive` in `deploy` | a DEPLOY is COMMITTED only when the named components "are alive at `next.pid`" (TD:1264) | the pid file and the HEAD of the checkout are read, never the process (`componentControl.ts:57`): a dispatch that killed a component and failed to start it again is committed as soon as its attestations pass (`deploymentActuation.ts:317`) |
| `RejectionIsEarned` in `deploy`, with `Expected <- MCRunning` | a DEPLOY is rejected when "the running set is not what the Human approved rolling away from" (TD:1260) | `expected_prior` is compared with the HEAD of the checkout (`componentControl.ts:59`), which has to be at the new commit by then (`deploymentActuation.ts:232`): who names the commit that really runs is rejected |
| reading | DEPLOY requires a fresh immutability attestation of the repository (TD:1225) | recheck #14 asks for one of the actuation target as well (`pep.ts:604`), and nothing in the repository seals one (`ctl.ts:317` is for the repository): the live composition refuses every DEPLOY. The model takes it as given |
| reading | - | the attestation that the restart scan asks for always fails, because the API listens only afterwards: each restart uses up one of the attempts (`kernelService.ts:134`) |
| reading | after the bound a RECONCILE_EXHAUSTED envelope is written (TD:510) | an observation that throws in `reconcile` (`deploymentActuation.ts:317`, no pid file or no docker) leaves none, so the attempt is not counted and never exhausted |

## 5. What is proved

For all values of the constants that satisfy `ConstantsOk` and `AdaptersOk`
(the latter: an operation without idempotency declares neither proof of absence
nor native CAS, which the adapters' `describe()` tables satisfy, and no other object can stand in its place,
since the adapter looks for what matches the material, `github.ts:263`). Nothing is assumed of who else writes to a target, nor that a receipt names its
maker.

The argument rests on `IInv`, because no safety property is inductive by itself:

* at most one effect, for an operation without idempotency, needs `SentOnce`:
  it is admitted once, because nothing ever writes NO_EFFECT_CONFIRMED for it,
  and of its one admission there is either the call before its send, or the
  request, or the effect. That in turn needs `OneCallPerDomain` (lock D), or two
  calls could hold the same ordinal;
* COMMITTED rows are true, of the effect or of the same state by another writer, because what calls
  and passes remember is (`MemoryIsTrue`), however long ago they saw it;
* `NothingUnadmitted` needs that they remember admitted ordinals
  (`MemoryIsAdmitted`);
* exhaustion is earned because counted attempts never disappear
  (`AttemptsAreThere`).

From `[]IInv` follow `EffectsAreSingle`, `CommitsAreTrue`,
`NothingIsUnadmitted`, `Refinement` (every step is a step of `OneEffect` or a
stutter) and `ExhaustionIsEarned`. `ContradictionsAreReported`,
`RetriesAreNotBlind`, `HumanDecisionsAreSpent` are invariants with short
inductions of their own over the lemma that outcome rows only grow.

`NothingIsSentAfterTheEffect` needs the strengthening `SendInv`: of an effect without a native
key at most one request is under way, that of its last admission (`CallIsFirst`); who admits
again has a NO_EFFECT_CONFIRMED row, and that is the answer to the request before or a
native precondition that was lost and cannot be met any more (`NoEffectIsFinal`,
`LostIsUntaken`). From the same invariant follows `AbsencesAreTrue`. A pass may remember absence long after it read it, so the invariant also says why
it read it (`AbsenceIsLost`).

`NothingIsForgotten` is the safety half of `AdmissionGetsOutcome`: an admission without an outcome is
in the hands of its call, of the restart scan that has yet to come to it, or of a pass that has it to
do. `KnownInv` adds why none of the three lets go of it without a row: a restart finds every
ordinal, because each has its admission row (`AdmissionsAreThere`), and a pass that writes nothing, as its
attempts are used up, finds a row, because an attempt that was counted is one (`AttemptsAreTold`).
What is left to fairness is that whoever has it in hand goes on.

For `PolicyActivation`, under its `ConstantsOk`, `IInv` adds to the properties
what makes them inductive. `RowsAreExpected`: a row by an effect or a document is
the one after the row that its material names, and has the content it proposes; from
it follow `NobodyActivatesTwice` and that a NO_EFFECT_CONFIRMED is final, because
recheck #13 admits over the last row only. `DecisionsArePast` and `EvalsArePast`:
whatever is evaluated was once active, so that a sealed verdict is one of a policy
of the chain. `Refinement` then needs `ComputedByItsPolicy` and recheck #1 at the one action
that appends. Nothing is assumed about when OPA reads its file, binds its socket
or exits.

For `RunScope`, under `PoliciesOk` and `NothingOk`, no property is inductive alone. A membership row is
earned because the capability of its run has a holder, and that holder is the owner of an
adjudicated origin (`MintedOnceToItsOwner`); a capability exists only for an
origin because `Minting` reads the membership row of the run itself. That it is
returned once needs that the call which carries it is the only one past the lock
(`OneCallPerEffect`, `SecretsAreSingle`). Rows once written stay (`RowsStay`), so an effect
is still in its run when it is admitted, however many policies later: `AdmissionsAreInTheirRun`
follows from recheck #19 and `MembershipIsEarned`. `AllocationIsAuthority`
holds for policies that change contracts and names at will.

For `DevHarness`, under `LanesOk`, `BoundsOk` and `NothingOk`, the difficulty is that
records are compared with a world that has moved: a record in memory, on disk or in a command's hands may be
arbitrarily old. `IInv` therefore says of *every* copy only what stays true,
because GitHub only grows: the base it names exists, its candidate was bound when
it was frozen, the pull request it knows exists, the design it was
set up behind has landed in its base. To these it adds that the supervisor's
position fits the status of its lane (`SupOk`), without which an event could meet a
lane it was not meant for. `TypeCorrect`, `LanesAreReviewed`, `DesignComesFirst`
and `PullRequestsAreSingle` follow, with or without `Overlap`.

`HoldsAreLeft` and `PartialWorkIsOld` are proved from `IInv` for both values of `Overlap`, by a case for each
action: a decision over a copy that is at a boundary leaves it only by a resume, a decision of the
supervisor makes no partial work downstream that was not so in its copy, and the file changes
in any other way only because the copy that is written was another one (`Calm`). `WorkIsWhole` itself, which
needs that the copies agree, is only model-checked, with commands between supervisors.

For `FindingGate`, under its `ConstantsOk`, `IInv` has four parts. `Authorized`: a row that an effect
sealed is that effect's draft, under an authority that does not go away; an effect
dispatched again is admitted under another policy, but then has an authority under that one
(`AuthorityStays`). `Unique`: the append of a governed row looks for the edge in the rows of its own
turn. `CallIsTrue`: what a dispatch is about to record agrees with the store, because nobody
dispatches in between and a conflict can only be with the one holder of the edge.
`ReleasesAreCleared` needs no induction over ancestors: the barrier and the property
walk the same ones, and the barrier refuses when one of them was not presented.

For `EvidenceGate`, under its `ConstantsOk`: an ALLOW carries its rows, so it stays what the gate said
(`AllowsAreAllowed`); at the admission these rows hold every implementer in the
store (`CompleteHoldsImplementers`, recheck #18), so that independence of the rows' implementers is
independence of all; and the admission is the last thing that happens.

For `WorkFlow`, under `BoundsOk`, the difficulty is that attempts which were given up go on beside
the workflow, any number of steps later, and what they do must still be what the workflow would
have them do. `IInv` therefore speaks of *everything done under an ordinal*, by attempts of any age
and by effects, at once (`Did`). `OneThing`: it is one activity for one candidate, and under the
last ordinal it is what the workflow waits for; a merge counts as the step of its preparation, since it
has no ordinal of its own and uses the effect that was prepared. From it and `DidNext` (only `Schedule` begins
something new) the other parts are properties of the moment of scheduling: `PushFollows`
(a candidate is pushed by the step after the one that made it), `Once` (the pull request and its merge
are scheduled once), `Established` (what was pushed, verified and approved before each stage)
and `Recorded`. `Told` says that a COMMITTED row, or an attempt that carries COMMITTED, means that the
effect took place, and that a pull request is asked for again only if it was not opened. `Linked` says of
every attempt that the digest it carries is that of the step before its ordinal. From these
follow `ShipmentsAreApproved`, `ShipmentsAreSingle`, `ChainsAreWhole` and `CompletionsAreDone`.
`Refinement` says that the kernel `WorkFlow` shows to its activities keeps the promise `OneEffect`, as
`EffectKernel` does; besides `IInv` it needs `Counted`: nothing took place twice, and nothing
is on its way that was not admitted. The two modules are tied by this promise only: that every other
detail of the kernel in `WorkFlow` is one of `EffectKernel` is argued in section 3, not proved.
The conjuncts of `IInv` were checked on the instance of `work`, with the quantifiers over `Did` ranging
over what has been done.

`WaitsAreForOne` is the safety half of `RunEnds`: a workflow that waits for an activity has an attempt
that it waits for, and no other is taken for it. `WaitInv` says that attempts of one step are told
apart by their number, that the one waited for is the newest, so that a retry takes a number nobody
has, and that what has no step ordinal of its own, the merge and the STOP, comes last.

For `Deployment`, under its `ConstantsOk`, the point is that a crash or a throw may fall between any two
steps of a replacement, whose admission is then concluded by somebody who was not there.
`InFlight`: an admission without an outcome has touched nothing before the
comparison of the whole set, and has no NO_EFFECT_CONFIRMED row; so that row, once there, is of an
admission that has touched nothing (`NoEffectIsUntouched`). Recheck #12 asks for it before another
admission, so what has touched a component is the last admission of its effect (`TouchedIsLast`), from which
`ComponentsAreTouchedOnce` follows; and the failure of a broken boundary, which counts until the
next admission, is not forgotten (`BrokenIsFailed`, `FailuresAreFinal`).

For `SurfaceBroker`, which has no constants, the run visits every state there is, and the proof says
why no order of events is a bad one. Clients, daemon and runner change independently, so `BrokerInv`
relates what each of them knows. `Clients`: an answer that establishes anything is the reply to a request that
was served, read by a client that is gone. `Daemon`: a container comes of the one create, and a zero is that of
the surface's own end, after which it is gone for good. `Owners`: a client that may be there is that of the
command at work, of an operation in the ledger, or the launcher's while it runs or is stopped; so an
empty ledger means that nobody is left. `Told` is the point of the reconciliation of a creation that was
not acknowledged: an ABSENT is worth something only once the create was answered or its container was
seen, and from then on it means gone for good. With these a claim of `EXITED` or `TERMINATED` is true when it
is made and stays so (`Claims`); of `NEVER_CREATED` it is true that no client is left and the agent never
ran and never will, though not that no container can appear (section 4): `EndsAreTrue`. `Handed` carries a success from the surface to the caller,
whence `ValuesAreEarned`. For `AnswersAreSingle`, that the broker implements `OneAnswer`, it is needed besides
that a zero is not unsaid by anything that comes late (`EndStays`).

Each of the invariants `IInv` was found by adding what a step needed; two things were found
on the way. `Continue` of `WorkFlow` had arms whose guards overlapped, which TLC reads from
the top but the language leaves open: the arms now exclude one another. And the initial state of `Deployment` asks
for a process for each component, which `ConstantsOk` now says.

Model-checked only: the liveness properties `AdmissionGetsOutcome`, `ExceptionIsRouted`,
`EverybodyReturns`, `RunEnds` and `StartsAgain`, which are beyond the prover (of the first and the fourth the
safety half is proved); and `WorkIsWhole`. `BrokerInv` and `OneAnswer`, `NothingForgotten`, `WaitInv` and `HeardOnce` were
checked by TLC on the instances of `surface`, `key` and `work` before they were proved.

## 6. Not modelled

See section 2 for what is planned. Not planned: hashing, signing and encoding
(pure, assumed injective); validation of policy documents, reason codes and constraints, which only
refuse; parsing and projection of observations (`developmentEvidence.ts`, `externalVerification.ts`,
`gateFiles.ts`, `observationProjection.ts`: one call, no state); prompts and command lines;
the other operator scripts; live transports (the wire stands for them); the proof-of-concept directory.
