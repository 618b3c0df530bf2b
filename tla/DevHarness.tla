------------------------------- MODULE DevHarness -------------------------------
(* The development supervisor of devharness/: lanes of work that a worker       *)
(* implements, a reviewer judges and a Human merges; the registry on disk, the  *)
(* supervisor's copy of it in memory, and the operator's commands, which are    *)
(* processes of their own.  devharness/supervisor.ts, transitions.ts, store.ts, *)
(* cli.ts.                                                                      *)
EXTENDS Integers, FiniteSets

CONSTANTS Lanes,          \* lane ids; a lane is named like its branch
          Branches,       \* branches with a pull request, of this registry or not
          DependsOn,      \* lane -> the design branch that must land first, or None
          MaxRepair,      \* retry.maxRepairRounds
          MaxRetry,       \* retry.maxProviderRetries
          MaxBase,        \* bounds how often the base branch advances
          MaxCommits,     \* bounds the commits made on lane branches
          Overlap,        \* may a command of the operator run beside a supervisor
          None, Gone      \* nothing there; a worktree that was removed

ASSUME LanesOk ==
    /\ Lanes \subseteq Branches
    /\ DependsOn \in [Lanes -> Branches \cup {None}]
    /\ None \notin Branches
ASSUME BoundsOk == /\ MaxRepair \in Nat /\ MaxRetry \in Nat
                   /\ MaxBase \in Nat \ {0} /\ MaxCommits \in Nat
                   /\ Overlap \in BOOLEAN

VARIABLES
    main,     \* how far the base branch has advanced; version b contains all before
    hub,      \* GitHub: for each branch its head and its pull request
    tree,     \* the worktree of each lane: its head, and uncommitted work
    fresh,    \* commits made so far
    disk,     \* state.json: lane -> record, or None
    mem,      \* the same, as the running supervisor holds it
    sup,      \* where the supervisor is: at, lane, what it has read
    todo,     \* lanes still to be visited in this round
    progress, \* has a lane moved in this round
    cli,      \* a command that has read the registry and not yet written it
    whole     \* has the last invocation of the lane's worker reported completion

git == <<main, hub, tree, fresh>>
registry == <<disk, mem>>
loop == <<sup, todo, progress>>
vars == <<main, hub, tree, fresh, disk, mem, sup, todo, progress, cli, whole>>

--------------------------------------------------------------------------------
(* Commits are told apart by a number; a commit of a lane contains the base     *)
(* branch up to its base.  Number 0 is the commit of the base branch itself.    *)
Bases == 1 .. MaxBase
Elsewhere == MaxBase + 1     \* landed in a branch the base branch does not contain
Commits == [n : 0 .. MaxCommits, base : Bases]
Contains(head, base) == head.base >= base

Candidates == [base : Bases, head : Commits]
Reviews == [base : Bases, head : Commits, verdict : {"GO", "REQUEST_CHANGES"},
            valid : BOOLEAN]

Holds == {"HOLD_CAPACITY", "HOLD_UNKNOWN"}
Boundaries == Holds \cup {"HUMAN_DIRECTION_WAIT"}
Acting == {"ACTOR_RUNNING", "ACTOR_INTERRUPTED"}
Reviewing == {"REVIEW_RUNNING", "REVIEW_INTERRUPTED"}
Statuses == Boundaries \cup Acting \cup Reviewing \cup
            {"PENDING", "BLOCKED_ON_DESIGN", "WORKTREE_SETUP", "VALIDATING",
             "FREEZING", "REPAIR_PENDING", "HUMAN_MERGE_WAIT", "MERGED"}
Yielded == Boundaries \cup {"HUMAN_MERGE_WAIT", "MERGED", "BLOCKED_ON_DESIGN"}
Skipped == Yielded \ {"HUMAN_MERGE_WAIT", "BLOCKED_ON_DESIGN"}

Records == [status : Statuses, base : Bases, wt : BOOLEAN,
            cand : Candidates \cup {None}, reviews : SUBSET Reviews,
            go : Commits \cup {None}, pr : BOOLEAN, attempt : 0 .. MaxRepair,
            retry : 0 .. MaxRetry, prov : {"actor", "reviewer", None}]
Registries == [Lanes -> Records \cup {None}]

ASSUME NothingOk ==      \* None and Gone are none of the things they stand beside
    /\ None \notin Records /\ None \notin Candidates /\ None \notin Commits
    /\ None \notin Lanes /\ None \notin {"actor", "reviewer", "GO", "REQUEST_CHANGES"}
    /\ None \notin {"reviewing", "judge", "waiting"}
    /\ None \notin [name : {"resume", "hold"}, lane : Lanes, reg : Registries]

NoLanes == [l \in Lanes |-> None]

--------------------------------------------------------------------------------
(* transitions.ts: what an event makes of a lane.                               *)

To(r, status) == [r EXCEPT !.status = status, !.prov = None]
Hold(r, status, prov) ==
    [r EXCEPT !.status = status, !.prov = IF prov = None THEN @ ELSE prov]
Void(r) == [r EXCEPT !.reviews = {[v EXCEPT !.valid = FALSE] : v \in @}, !.go = None]
Settle(r) == [r EXCEPT !.retry = 0]
Repair(r, prov) == IF r.attempt < MaxRepair THEN To(r, "REPAIR_PENDING")
                                            ELSE Hold(r, "HOLD_UNKNOWN", prov)

Capacity == {"RESOURCE_EXHAUSTED", "AUTH_REQUIRED", "RATE_LIMITED_TOO_LONG"}
Passing == {"RATE_LIMITED", "PROVIDER_UNAVAILABLE", "PROCESS_CRASHED"}
Failures == Capacity \cup Passing \cup {"FAILED_WORK", "UNKNOWN"}

ProviderFailure(role, r, kind) ==
    CASE kind \in Capacity -> Hold(r, "HOLD_CAPACITY", role)
      [] kind \in Passing /\ r.retry < MaxRetry -> [To(r, r.status) EXCEPT !.retry = @ + 1]
      [] kind \in Passing /\ r.retry >= MaxRetry ->
            Hold(r, IF kind = "PROCESS_CRASHED" THEN "HOLD_UNKNOWN" ELSE "HOLD_CAPACITY", role)
      [] kind = "FAILED_WORK" /\ role = "actor" -> Repair(r, role)
      [] kind = "FAILED_WORK" /\ role # "actor" -> Hold(r, "HOLD_UNKNOWN", role)
      [] kind = "UNKNOWN" -> Hold(r, "HOLD_UNKNOWN", role)

RemoteDrift(r) == Hold(Void(r), "HOLD_UNKNOWN", None)
BaseDrift(r, now) == Repair([Void(r) EXCEPT !.base = now], None)
Mutated(r) == To(Void(r), "VALIDATING")

(* Mutant: a verdict is taken for the head it was not given on. *)
VerdictOnAnyHead(r, verdict, same) ==
    IF verdict = "GO" THEN To(Settle(r), "HUMAN_MERGE_WAIT") ELSE Repair(r, None)
Verdict(r, verdict, same) ==
    CASE ~same -> Mutated(r)
      [] same /\ verdict = "GO" -> To(Settle(r), "HUMAN_MERGE_WAIT")
      [] same /\ verdict # "GO" -> IF r.attempt < MaxRepair
                                   THEN Settle(Repair(r, None)) ELSE Repair(r, None)

(* Mutant: every held lane with a worktree resumes by validation. *)
ResumeByValidation(r) ==
    IF r.status \notin Boundaries THEN To(r, r.status)
    ELSE To(Settle(r), IF r.wt THEN "VALIDATING" ELSE "PENDING")
Resume(r) ==
    IF r.status \notin Boundaries THEN To(r, r.status)
    ELSE To(Settle(r), CASE ~r.wt -> "PENDING"
                         [] r.wt /\ r.prov = "reviewer" -> "VALIDATING"
                         [] OTHER -> "ACTOR_INTERRUPTED")

--------------------------------------------------------------------------------
NewLane == [status |-> "PENDING", base |-> main, wt |-> FALSE, cand |-> None,
            reviews |-> {}, go |-> None, pr |-> FALSE, attempt |-> 0, retry |-> 0,
            prov |-> None]
Off == [at |-> "off", lane |-> None, next |-> None, verdict |-> None, same |-> FALSE]
At(point, l) == [Off EXCEPT !.at = point, !.lane = l]

Init ==
    /\ main = 1
    /\ hub = [b \in Branches |->
                IF b \in Lanes
                THEN [head |-> None, pr |-> "none", made |-> 0, landed |-> 0]
                ELSE [head |-> [n |-> 0, base |-> 1], pr |-> "open", made |-> 1, landed |-> 0]]
    /\ tree = [l \in Lanes |-> None]
    /\ fresh = 0
    /\ disk = NoLanes /\ mem = NoLanes
    /\ sup = Off /\ todo = {} /\ progress = FALSE
    /\ cli = None
    /\ whole = [l \in Lanes |-> FALSE]

Present(l) == tree[l] \notin {None, Gone}
HeadOf(l) == tree[l].head

(* Every save writes the supervisor's whole copy over the file.                 *)
Keep(l, r) == mem' = [mem EXCEPT ![l] = r] /\ disk' = mem'

(* The end of a lane's step: apply persists, run() sees whether the lane moved. *)
Finish(l, r) ==
    /\ Keep(l, r)
    /\ sup' = At("between", None)
    /\ todo' = todo \ {l}
    /\ progress' = (progress \/ r.status \notin Yielded \/ r.status # mem[l].status)
Stay(l, point) == sup' = At(point, l) /\ UNCHANGED <<todo, progress>>

(* run() takes up a lane of this round in one of the given statuses.            *)
Takes(l, statuses) ==
    /\ sup.at = "between" /\ l \in todo
    /\ mem[l].status \in statuses
Within(l, point) == sup.at = point /\ sup.lane = l

--------------------------------------------------------------------------------
(* Starting: the registry is read once, lanes found in flight are marked, work  *)
(* is admitted.                                                                 *)
Start ==
    /\ sup.at = "off"
    /\ Overlap \/ cli = None
    /\ mem' = disk
    /\ sup' = At("reconcile", None)
    /\ todo' = {l \in Lanes : disk[l] # None}
    /\ progress' = FALSE
    /\ UNCHANGED <<git, disk, cli, whole>>

Stale(l) == /\ mem[l].status \in {"ACTOR_INTERRUPTED", "VALIDATING", "FREEZING",
                                  "REVIEW_INTERRUPTED", "REPAIR_PENDING"}
            /\ mem[l].wt /\ ~Present(l)

(* Mutant: a restart resumes what was held for capacity. *)
ResumedByRestart(l) ==
    IF mem[l].status = "HOLD_CAPACITY" THEN To(mem[l], "ACTOR_INTERRUPTED") ELSE mem[l]
AfterRestart(l) ==
    CASE mem[l].status = "ACTOR_RUNNING" -> To(mem[l], "ACTOR_INTERRUPTED")
      [] mem[l].status = "REVIEW_RUNNING" -> To(mem[l], "REVIEW_INTERRUPTED")
      [] Stale(l) -> Hold(mem[l], "HOLD_CAPACITY", None)
      [] mem[l].status = "HUMAN_MERGE_WAIT" /\ hub[l].pr = "merged" -> To(mem[l], "MERGED")
      [] OTHER -> mem[l]

Reconcile(l) ==
    /\ sup.at = "reconcile" /\ l \in todo
    /\ todo' = todo \ {l}
    /\ IF AfterRestart(l) = mem[l] THEN UNCHANGED registry ELSE Keep(l, AfterRestart(l))
    /\ UNCHANGED <<git, sup, progress, cli, whole>>

Admit(l) ==
    /\ sup.at = "reconcile" /\ todo = {}
    /\ mem[l] = None
    /\ Keep(l, NewLane)
    /\ UNCHANGED <<git, loop, cli, whole>>

Round ==
    /\ \/ sup.at = "reconcile"
       \/ sup.at = "between" /\ progress /\ \E l \in Lanes : mem[l] # None /\ mem[l].status \notin Yielded
    /\ todo = {}
    /\ sup' = At("between", None)
    /\ todo' = {l \in Lanes : mem[l] # None /\ mem[l].status \notin Skipped}
    /\ progress' = FALSE
    /\ UNCHANGED <<git, registry, cli, whole>>

(* The process ends: nothing moves any more, or maxSteps, which is not modelled *)
(* by its number, is reached.  A crash is the same, at any point.               *)
End ==
    /\ mem' = NoLanes /\ sup' = Off /\ todo' = {} /\ progress' = FALSE
    /\ UNCHANGED <<git, disk, cli, whole>>
Rest ==
    /\ sup.at = "between" /\ todo = {}
    /\ ~progress \/ \A l \in Lanes : mem[l] # None => mem[l].status \in Yielded
    /\ End
StepBound == sup.at = "between" /\ End
Crash == sup.at # "off" /\ End

--------------------------------------------------------------------------------
(* Admission of a lane, behind the design it depends on.                        *)
DesignLanded(l) == DependsOn[l] # None => hub[DependsOn[l]].pr = "merged"

BlockOnDesign(l) ==
    /\ Takes(l, {"PENDING", "BLOCKED_ON_DESIGN"})
    /\ ~DesignLanded(l)
    /\ Finish(l, To(mem[l], "BLOCKED_ON_DESIGN"))
    /\ UNCHANGED <<git, cli, whole>>

(* refreshBaseAfterDesignMerge, then ADMIT or DESIGN_DEP_MERGED.                *)
Refreshes(l) == DependsOn[l] # None /\ ~mem[l].wt
(* Mutant: the lane keeps the base it was admitted with. *)
AdmittedBase(l) == mem[l].base
FreshBase(l) == IF Refreshes(l) THEN main ELSE mem[l].base

EnterSetup(l) ==
    /\ Takes(l, {"PENDING", "BLOCKED_ON_DESIGN"})
    /\ DesignLanded(l)
    /\ Finish(l, IF Refreshes(l) /\ hub[DependsOn[l]].landed > main
                 THEN Hold(mem[l], "HOLD_UNKNOWN", None)
                 ELSE To([mem[l] EXCEPT !.base = FreshBase(l)], "WORKTREE_SETUP"))
    /\ UNCHANGED <<git, cli, whole>>

AddWorktree(l) ==
    /\ Takes(l, {"WORKTREE_SETUP"})
    /\ tree[l] # Gone
    /\ tree' = [tree EXCEPT ![l] =
                 IF @ = None THEN [head |-> [n |-> 0, base |-> mem[l].base], dirty |-> 0] ELSE @]
    /\ disk' = mem
    /\ Stay(l, "setup")
    /\ UNCHANGED <<main, hub, fresh, mem, cli, whole>>

RecordWorktree(l) ==
    /\ Within(l, "setup") /\ Present(l)
    /\ Finish(l, [To(mem[l], "ACTOR_RUNNING") EXCEPT !.wt = TRUE])
    /\ UNCHANGED <<git, cli, whole>>

StartRepair(l) ==
    /\ Takes(l, {"REPAIR_PENDING"})
    /\ Finish(l, [Settle(To(mem[l], "ACTOR_RUNNING")) EXCEPT !.attempt = @ + 1])
    /\ UNCHANGED <<git, cli, whole>>

--------------------------------------------------------------------------------
InvokeActor(l) ==
    /\ Takes(l, Acting)
    /\ whole' = [whole EXCEPT ![l] = FALSE]
    /\ Stay(l, "acting")
    /\ UNCHANGED <<git, registry, cli>>

ActorCompletes(l) ==
    /\ Within(l, "acting")
    /\ \/ /\ whole' = [whole EXCEPT ![l] = TRUE]
          /\ Finish(l, Settle(To(mem[l], "VALIDATING")))
       \/ /\ Finish(l, Settle(To(mem[l], "HUMAN_DIRECTION_WAIT")))
          /\ UNCHANGED whole
    /\ UNCHANGED <<git, cli>>

ActorFails(l) ==
    /\ Within(l, "acting")
    /\ \E kind \in Failures : Finish(l, ProviderFailure("actor", mem[l], kind))
    /\ UNCHANGED <<git, cli, whole>>

Validate(l) ==
    /\ Takes(l, {"VALIDATING"})
    /\ \/ Finish(l, To(mem[l], "FREEZING"))
       \/ Finish(l, Repair(mem[l], "actor"))
    /\ UNCHANGED <<git, cli, whole>>

--------------------------------------------------------------------------------
(* FREEZING: uncommitted work is committed, the head is checked against the     *)
(* base, pushed, and given a pull request.                                      *)
Checkpointed(l) == IF tree[l].dirty = 0 THEN HeadOf(l)
                   ELSE [n |-> tree[l].dirty, base |-> HeadOf(l).base]
Freezable(l) == Checkpointed(l).n # 0 /\ Contains(Checkpointed(l), mem[l].base)
Checkpoint(l) == tree' = [tree EXCEPT ![l] = [head |-> Checkpointed(l), dirty |-> 0]]
Frozen(l) == [mem[l] EXCEPT !.cand = [base |-> mem[l].base, head |-> Checkpointed(l)]]

(* Nothing committed, the base not an ancestor, or, which is left open, no file *)
(* changed.                                                                     *)
RejectCandidate(l) ==
    /\ Takes(l, {"FREEZING"}) /\ Present(l)
    /\ Checkpoint(l)
    /\ Finish(l, Repair(mem[l], "actor"))
    /\ UNCHANGED <<main, hub, fresh, cli, whole>>

PushCandidate(l) ==
    /\ Takes(l, {"FREEZING"}) /\ Present(l) /\ Freezable(l)
    /\ Checkpoint(l)
    /\ mem' = [mem EXCEPT ![l] = Frozen(l)]
    /\ hub' = [hub EXCEPT ![l].head = Checkpointed(l)]
    /\ Stay(l, "publish")
    /\ UNCHANGED <<main, fresh, disk, cli, whole>>

PushRefused(l) ==
    /\ Takes(l, {"FREEZING"}) /\ Present(l) /\ Freezable(l)
    /\ Checkpoint(l)
    /\ Finish(l, [Frozen(l) EXCEPT !.status = "HOLD_UNKNOWN"])
    /\ UNCHANGED <<main, hub, fresh, cli, whole>>

(* Mutant: only an open pull request is found. *)
OpenPrOf(l) == hub[l].pr = "open"
(* findPrForBranch sees the pull requests of the branch in every state.         *)
PrOf(l) == hub[l].pr # "none"

CreatePr(l) ==
    /\ Within(l, "publish") /\ ~mem[l].pr /\ ~PrOf(l)
    /\ hub' = [hub EXCEPT ![l].pr = "open", ![l].made = @ + 1]
    /\ Stay(l, "opened")
    /\ UNCHANGED <<main, tree, fresh, registry, cli, whole>>

Freeze(l) ==
    /\ \/ Within(l, "publish") /\ (mem[l].pr \/ PrOf(l))
       \/ Within(l, "opened")
    /\ Finish(l, [To(mem[l], "REVIEW_RUNNING") EXCEPT !.pr = TRUE])
    /\ UNCHANGED <<git, cli, whole>>

--------------------------------------------------------------------------------
(* remoteIdentityDrifted: two reads of GitHub, then on to sup.next.             *)
CheckRemote(from, l, next) ==
    /\ sup' = [from EXCEPT !.at = "readPr", !.lane = l, !.next = next]
    /\ UNCHANGED <<registry, todo, progress>>
Expected(r) == IF r.status = "HUMAN_MERGE_WAIT" THEN r.go ELSE r.cand.head

ReadPr(l) ==
    /\ Within(l, "readPr")
    /\ IF mem[l].pr /\ hub[l].pr = "open" /\ hub[l].head # Expected(mem[l])
       THEN Finish(l, RemoteDrift(mem[l]))
       ELSE /\ sup' = [sup EXCEPT !.at = "readBase"]
            /\ UNCHANGED <<registry, todo, progress>>
    /\ UNCHANGED <<git, cli, whole>>

ReadBase(l) ==
    /\ Within(l, "readBase")
    /\ IF main # mem[l].cand.base
       THEN Finish(l, BaseDrift(mem[l], main))
       ELSE /\ sup' = [sup EXCEPT !.at = sup.next, !.next = None]
            /\ UNCHANGED <<registry, todo, progress>>
    /\ UNCHANGED <<git, cli, whole>>

(* The review of a frozen candidate.                                            *)
OpenReview(l) ==
    /\ Takes(l, Reviewing) /\ Present(l)
    /\ IF HeadOf(l) # mem[l].cand.head THEN Finish(l, Mutated(mem[l]))
                                       ELSE CheckRemote(Off, l, "reviewing")
    /\ UNCHANGED <<git, cli, whole>>

ReviewerFails(l) ==
    /\ Within(l, "reviewing") /\ Present(l)
    /\ \E kind \in Failures : Finish(l, ProviderFailure("reviewer", mem[l], kind))
    /\ UNCHANGED <<git, cli, whole>>

(* The head is read when the reviewer returns, before GitHub is asked again.    *)
ReviewerAnswers(l) ==
    /\ Within(l, "reviewing") /\ Present(l)
    /\ \E verdict \in {"GO", "REQUEST_CHANGES"} :
         CheckRemote([sup EXCEPT !.verdict = verdict,
                                 !.same = HeadOf(l) = mem[l].cand.head], l, "judge")
    /\ UNCHANGED <<git, cli, whole>>

Review(l) == [base |-> mem[l].cand.base, head |-> mem[l].cand.head,
              verdict |-> sup.verdict, valid |-> TRUE]

RecordReview(l) ==
    /\ Within(l, "judge") /\ sup.same
    /\ Keep(l, [mem[l] EXCEPT !.reviews = @ \cup {Review(l)},
                              !.go = IF sup.verdict = "GO" THEN mem[l].cand.head ELSE @])
    /\ sup' = [sup EXCEPT !.at = "recorded"]
    /\ UNCHANGED <<git, todo, progress, cli, whole>>

Judge(l) ==
    /\ \/ Within(l, "recorded")
       \/ Within(l, "judge") /\ ~sup.same
    /\ Finish(l, Verdict(mem[l], sup.verdict, sup.same))
    /\ UNCHANGED <<git, cli, whole>>

(* Waiting for the Human to merge.                                              *)
LookAtMerge(l) ==
    /\ Takes(l, {"HUMAN_MERGE_WAIT"})
    /\ IF Present(l) /\ mem[l].go # None /\ HeadOf(l) # mem[l].go
       THEN Finish(l, Mutated(mem[l]))
       ELSE Stay(l, "merge") /\ UNCHANGED registry
    /\ UNCHANGED <<git, cli, whole>>

ReadMerge(l) ==
    /\ Within(l, "merge")
    /\ IF hub[l].pr = "merged" THEN Finish(l, To(mem[l], "MERGED"))
                               ELSE CheckRemote(Off, l, "waiting")
    /\ UNCHANGED <<git, cli, whole>>

StillOpen(l) ==
    /\ Within(l, "waiting")
    /\ Finish(l, To(mem[l], "HUMAN_MERGE_WAIT"))
    /\ UNCHANGED <<git, cli, whole>>

(* Anything a step calls may throw; run() then holds the lane as it stands: once *)
(* its worktree was added, with the path of it.                                 *)
Interrupted(l) == [mem[l] EXCEPT !.status = "HOLD_UNKNOWN", !.wt = @ \/ Within(l, "setup")]
StepError(l) ==
    /\ \/ sup.lane = l
       \/ sup.at = "between" /\ l \in todo
    /\ Finish(l, Interrupted(l))
    /\ UNCHANGED <<git, cli, whole>>

--------------------------------------------------------------------------------
(* `resume` and `hold`: a process that reads the registry, decides, and writes  *)
(* the whole of it back.                                                        *)
CommandReads ==
    /\ cli = None
    /\ Overlap \/ sup.at = "off"
    /\ \E l \in Lanes, name \in {"resume", "hold"} :
         /\ disk[l] # None
         /\ cli' = [name |-> name, lane |-> l, reg |-> disk]
    /\ UNCHANGED <<git, registry, loop, whole>>

Commanded(r) == IF cli.name = "resume" THEN Resume(r) ELSE Hold(r, "HOLD_CAPACITY", None)

CommandWrites ==
    /\ cli # None
    /\ disk' = [cli.reg EXCEPT ![cli.lane] = Commanded(@)]
    /\ cli' = None
    /\ UNCHANGED <<git, mem, loop, whole>>

--------------------------------------------------------------------------------
(* GitHub, and whoever writes in a worktree: the worker, one that outlived its  *)
(* supervisor, a Human.                                                         *)
OthersAdvanceBase ==
    /\ main < MaxBase /\ main' = main + 1
    /\ UNCHANGED <<hub, tree, fresh, registry, loop, cli, whole>>

Merge(b) ==
    /\ hub[b].pr = "open"
    /\ \/ /\ main < MaxBase /\ main' = main + 1
          /\ hub' = [hub EXCEPT ![b].pr = "merged", ![b].landed = main + 1]
       \/ /\ hub' = [hub EXCEPT ![b].pr = "merged", ![b].landed = Elsewhere]
          /\ UNCHANGED main
    /\ UNCHANGED <<tree, fresh, registry, loop, cli, whole>>

ClosePr(b) ==
    /\ hub[b].pr = "open"
    /\ hub' = [hub EXCEPT ![b].pr = "closed"]
    /\ UNCHANGED <<main, tree, fresh, registry, loop, cli, whole>>

ForeignPush(l) ==
    /\ hub[l].head # None
    /\ fresh < MaxCommits /\ fresh' = fresh + 1
    /\ hub' = [hub EXCEPT ![l].head = [n |-> fresh + 1, base |-> main]]
    /\ UNCHANGED <<main, tree, registry, loop, cli, whole>>

(* A commit on the lane's branch, rebased or not; or files left uncommitted.    *)
WriteTree(l) ==
    /\ Present(l)
    /\ fresh < MaxCommits /\ fresh' = fresh + 1
    /\ \/ \E base \in HeadOf(l).base .. main :
            tree' = [tree EXCEPT ![l].head = [n |-> fresh + 1, base |-> base]]
       \/ /\ tree[l].dirty = 0
          /\ tree' = [tree EXCEPT ![l].dirty = fresh + 1]
    /\ UNCHANGED <<main, hub, registry, loop, cli, whole>>

LoseTree(l) ==
    /\ Present(l)
    /\ tree' = [tree EXCEPT ![l] = Gone]
    /\ UNCHANGED <<main, hub, fresh, registry, loop, cli, whole>>

--------------------------------------------------------------------------------
Step(l) ==
    \/ BlockOnDesign(l) \/ EnterSetup(l) \/ AddWorktree(l) \/ RecordWorktree(l)
    \/ StartRepair(l) \/ InvokeActor(l) \/ ActorCompletes(l) \/ ActorFails(l)
    \/ Validate(l) \/ RejectCandidate(l) \/ PushCandidate(l) \/ PushRefused(l)
    \/ CreatePr(l) \/ Freeze(l) \/ ReadPr(l) \/ ReadBase(l) \/ OpenReview(l)
    \/ ReviewerFails(l) \/ ReviewerAnswers(l) \/ RecordReview(l) \/ Judge(l)
    \/ LookAtMerge(l) \/ ReadMerge(l) \/ StillOpen(l) \/ StepError(l)

Outside ==
    \/ OthersAdvanceBase
    \/ \E b \in Branches : Merge(b) \/ ClosePr(b)
    \/ \E l \in Lanes : ForeignPush(l) \/ WriteTree(l) \/ LoseTree(l)

Next == Start \/ Round \/ Rest \/ StepBound \/ Crash
        \/ (\E l \in Lanes : Reconcile(l) \/ Admit(l) \/ Step(l))
        \/ CommandReads \/ CommandWrites \/ Outside

Spec == Init /\ [][Next]_vars

--------------------------------------------------------------------------------
(* Properties.                                                                  *)

(* Types: every copy of the registry holds lane records, attempts and retries   *)
(* within their bounds; the supervisor points at a lane it holds.               *)
Points == {"setup", "acting", "publish", "opened", "readPr", "readBase", "reviewing",
           "judge", "recorded", "merge", "waiting"}
TypeOK ==
    /\ main \in Bases
    /\ hub \in [Branches -> [head : Commits \cup {None},
                             pr : {"none", "open", "closed", "merged"},
                             made : Nat, landed : 0 .. Elsewhere]]
    /\ tree \in [Lanes -> [head : Commits, dirty : 0 .. MaxCommits] \cup {None, Gone}]
    /\ fresh \in 0 .. MaxCommits
    /\ disk \in Registries /\ mem \in Registries
    /\ sup \in [at : {"off", "reconcile", "between"} \cup Points, lane : Lanes \cup {None},
                next : {None, "reviewing", "judge", "waiting"},
                verdict : {None, "GO", "REQUEST_CHANGES"}, same : BOOLEAN]
    /\ todo \subseteq Lanes /\ progress \in BOOLEAN
    /\ cli \in [name : {"resume", "hold"}, lane : Lanes, reg : Registries] \cup {None}
    /\ whole \in [Lanes -> BOOLEAN]

(* A candidate is bound: its head contains the base it is recorded with and     *)
(* carries a commit beyond it.                                                  *)
Bound(c) == c.head.n # 0 /\ Contains(c.head, c.base)

(* README: reviews bind the exact candidate; GO never carries to a new SHA.  A  *)
(* lane waits for its merge only with a valid GO on the very base and head that *)
(* are frozen, the base proven to be in the head, and a pull request known.     *)
Reviewed(r) ==
    r.status = "HUMAN_MERGE_WAIT" =>
        /\ r.cand # None /\ Bound(r.cand) /\ r.pr
        /\ r.go = r.cand.head
        /\ [base |-> r.cand.base, head |-> r.cand.head, verdict |-> "GO", valid |-> TRUE]
              \in r.reviews
MergeWaitIsReviewed == \A l \in Lanes : disk[l] # None => Reviewed(disk[l])

(* README: partial output never becomes a review candidate.  Wherever a lane is *)
(* validated, frozen, reviewed or waits for its merge, and in a hold that       *)
(* resumes there, the last invocation of its worker had reported completion.    *)
Downstream == Reviewing \cup {"VALIDATING", "FREEZING", "HUMAN_MERGE_WAIT"}
Partial(l, r) == /\ r # None
                 /\ r.status \in Downstream \/ r.prov = "reviewer"
                 /\ ~whole[l]
WorkIsWhole == \A l \in Lanes : ~Partial(l, disk[l])

(* README: the design must land before the execution that depends on it is      *)
(* admitted, and be contained in its base.  No lane has a worktree unless its   *)
(* design was merged, and the worktree's head contains the merge.               *)
DesignFirst ==
    \A l \in Lanes : Present(l) /\ DependsOn[l] # None =>
        /\ hub[DependsOn[l]].pr = "merged"
        /\ Contains(HeadOf(l), hub[DependsOn[l]].landed)

(* A lane opens one pull request, whatever is repeated after a crash between    *)
(* opening it and recording its number.                                         *)
OnePullRequest == \A b \in Branches : hub[b].made <= 1

(* transitions.ts: durable boundaries, only HUMAN_RESUME exits.  A lane at a    *)
(* boundary in the file leaves it only when a resume command for it writes, or  *)
(* when a process writes the whole registry whose own copy of the lane, read    *)
(* before the lane was held or after it was resumed, is not at a boundary: the  *)
(* second is what the missing lock costs, and cannot happen without Overlap.    *)
AtBoundary(r) == r # None /\ r.status \in Boundaries
CommandSaves == cli # None /\ cli' = None
SupervisorActs == sup.at # "off" /\ cli' = cli
HoldsAreLeftKnowingly ==
    [][\A l \in Lanes : AtBoundary(disk[l]) /\ ~AtBoundary(disk'[l]) =>
          \/ CommandSaves /\ \/ cli.name = "resume" /\ cli.lane = l
                             \/ ~AtBoundary(cli.reg[l])
          \/ SupervisorActs /\ ~AtBoundary(mem[l])]_vars

(* Partial work gets downstream only in old copies.  In the file: a command     *)
(* writes what it read before the worker was invoked again, or the supervisor   *)
(* what it has in memory, or it invokes the worker of a lane whose status in the *)
(* file is no longer the one it knows.  In memory: a start reads it in the file. *)
(* No decision of either process makes it so.  WorkIsWhole needs that the copies *)
(* agree, as they do without Overlap.                                           *)
Alike(r, s) == IF r = None THEN s = None
               ELSE s # None /\ r.status = s.status /\ r.prov = s.prov
PartialWorkIsCopied ==
    [][\A l \in Lanes :
          /\ Partial(l, disk[l])' /\ ~Partial(l, disk[l]) =>
                \/ CommandSaves /\ Partial(l, cli.reg[l])
                \/ SupervisorActs /\ (Partial(l, mem[l]) \/ ~Alike(disk[l], mem[l]))
          /\ Partial(l, mem[l])' /\ ~Partial(l, mem[l]) =>
                sup.at = "off" /\ Partial(l, disk[l])]_vars

(* What the comment in transitions.ts says outright fails with Overlap.         *)
HoldsAreHonoured ==
    [][\A l \in Lanes : AtBoundary(disk[l]) /\ ~AtBoundary(disk'[l]) =>
          cli # None /\ cli.name = "resume" /\ cli.lane = l]_vars

--------------------------------------------------------------------------------
(* What makes the properties inductive.                                         *)

(* Every copy of a lane's record, however old, says things of GitHub and of its *)
(* candidate that stay true.                                                    *)
Landed(l, base) == DependsOn[l] # None => /\ hub[DependsOn[l]].pr = "merged"
                                          /\ hub[DependsOn[l]].landed <= base
RecordOk(l, r) ==
    /\ r.base <= main
    /\ r.cand # None => Bound(r.cand)
    /\ r.status \in Reviewing => r.cand # None /\ r.pr
    /\ r.pr => PrOf(l)
    /\ r.status = "REPAIR_PENDING" => r.attempt < MaxRepair
    /\ r.wt \/ r.status = "WORKTREE_SETUP" => Landed(l, r.base)
    /\ r.prov # None => r.status \in Holds
    /\ Reviewed(r)
RegistryOk(reg) == \A l \in Lanes : reg[l] # None => RecordOk(l, reg[l])

GitOk ==
    /\ \A b \in Branches : hub[b].pr = "none" => hub[b].made = 0
    /\ \A l \in Lanes : Present(l) => Landed(l, HeadOf(l).base) /\ HeadOf(l).base <= main

(* Where the supervisor is fits the status of the lane it is at.                *)
StatusAt(point, r) ==
    CASE point = "setup" -> r.status = "WORKTREE_SETUP"
      [] point = "acting" -> r.status \in Acting
      [] point \in {"publish", "opened"} -> r.status = "FREEZING" /\ r.cand # None
      [] point \in {"reviewing", "judge", "recorded"} -> r.status \in Reviewing
      [] point \in {"merge", "waiting"} -> r.status = "HUMAN_MERGE_WAIT"
SupOk ==
    /\ \A l \in todo : mem[l] # None
    /\ sup.at \notin Points => sup.lane = None
    /\ sup.at \in Points =>
        /\ sup.lane # None /\ mem[sup.lane] # None
        /\ IF sup.at \in {"readPr", "readBase"}
           THEN sup.next # None /\ StatusAt(sup.next, mem[sup.lane])
           ELSE StatusAt(sup.at, mem[sup.lane])
        /\ sup.at \in {"judge", "recorded"} \/ sup.next = "judge" => sup.verdict # None
        /\ sup.at = "opened" => PrOf(sup.lane)
        /\ sup.at = "recorded" => /\ sup.same /\ Review(sup.lane) \in mem[sup.lane].reviews
                                  /\ sup.verdict = "GO" => mem[sup.lane].go = mem[sup.lane].cand.head

IInv == /\ TypeOK /\ GitOk /\ SupOk
        /\ RegistryOk(disk) /\ RegistryOk(mem)
        /\ cli # None => RegistryOk(cli.reg) /\ cli.reg[cli.lane] # None
        /\ OnePullRequest

================================================================================
