---------------------------- MODULE DevHarness_proofs ----------------------------
(* What is proved of the development supervisor, for any lanes, dependencies and *)
(* bounds.  Every copy of a lane's record is Fine: what it says of GitHub and of *)
(* its candidate is true, and stays true however old the copy is.  This is why   *)
(* the theorems hold although commands overwrite the registry with what they     *)
(* read before.                                                                  *)
EXTENDS DevHarness, TLAPS

Fine(l, r) == r \in Records /\ RecordOk(l, r)

SupType == [at : {"off", "reconcile", "between"} \cup Points, lane : Lanes \cup {None},
            next : {None, "reviewing", "judge", "waiting"},
            verdict : {None, "GO", "REQUEST_CHANGES"}, same : BOOLEAN]

GitPart ==
    /\ main \in Bases
    /\ hub \in [Branches -> [head : Commits \cup {None},
                             pr : {"none", "open", "closed", "merged"},
                             made : Nat, landed : 0 .. Elsewhere]]
    /\ tree \in [Lanes -> [head : Commits, dirty : 0 .. MaxCommits] \cup {None, Gone}]
    /\ fresh \in 0 .. MaxCommits
    /\ GitOk /\ OnePullRequest
LoopPart ==
    /\ disk \in Registries /\ mem \in Registries /\ sup \in SupType
    /\ todo \subseteq Lanes /\ progress \in BOOLEAN
    /\ SupOk /\ RegistryOk(disk) /\ RegistryOk(mem)
CliPart ==
    /\ cli \in [name : {"resume", "hold"}, lane : Lanes, reg : Registries] \cup {None}
    /\ cli # None => RegistryOk(cli.reg) /\ cli.reg[cli.lane] # None
    /\ whole \in [Lanes -> BOOLEAN]

LEMMA Parts == /\ IInv <=> GitPart /\ LoopPart /\ CliPart
               /\ IInv' <=> GitPart' /\ LoopPart' /\ CliPart'
  BY DEF IInv, TypeOK, GitPart, LoopPart, CliPart, SupType

--------------------------------------------------------------------------------
(* The operators of transitions.ts keep a record fine.                           *)

(* An update that leaves alone what a record says of GitHub and its candidate.   *)
LEMMA SameFields ==
  ASSUME NEW l \in Lanes, NEW r, Fine(l, r), NEW x \in Records,
         x.base = r.base, x.wt = r.wt, x.cand = r.cand, x.reviews = r.reviews,
         x.go = r.go, x.pr = r.pr, x.attempt = r.attempt,
         x.prov # None => x.status \in Holds,
         \/ x.status = r.status
         \/ x.status \notin Reviewing \cup {"REPAIR_PENDING", "WORKTREE_SETUP", "HUMAN_MERGE_WAIT"}
         \/ x.status = "REPAIR_PENDING" /\ r.attempt < MaxRepair
  PROVE  Fine(l, x)
  BY DEF Fine, RecordOk, Reviewed, Reviewing

LEMMA HoldFine ==
  ASSUME NEW l \in Lanes, NEW r, Fine(l, r), NEW s \in Holds,
         NEW prov \in {"actor", "reviewer", None}
  PROVE  Fine(l, Hold(r, s, prov))
  <1> DEFINE p == IF prov = None THEN r.prov ELSE prov
             x == [r EXCEPT !.status = s, !.prov = p, !.retry = r.retry]
  <1>1. r \in Records /\ p \in {"actor", "reviewer", None} /\ r.retry \in 0 .. MaxRetry
    BY DEF Fine, Records
  <1>2. s \in Statuses /\ s \notin Reviewing \cup {"REPAIR_PENDING", "WORKTREE_SETUP", "HUMAN_MERGE_WAIT"}
    BY DEF Statuses, Boundaries, Holds, Reviewing
  <1>3. Hold(r, s, prov) = x
    BY <1>1 DEF Hold, Records
  <1>4. /\ x \in Records /\ x.status = s /\ x.prov = p
        /\ x.base = r.base /\ x.wt = r.wt /\ x.cand = r.cand /\ x.reviews = r.reviews
        /\ x.go = r.go /\ x.pr = r.pr /\ x.attempt = r.attempt
    BY <1>1, <1>2 DEF Records
  <1> HIDE DEF x
  <1> QED BY <1>2, <1>3, <1>4, SameFields

(* The statuses that ask nothing of a record.                                    *)
Free == Statuses \ (Reviewing \cup {"REPAIR_PENDING", "WORKTREE_SETUP", "HUMAN_MERGE_WAIT"})

LEMMA ToFine ==
  ASSUME NEW l \in Lanes, NEW r, Fine(l, r), NEW s \in Statuses, NEW n \in 0 .. MaxRetry,
         \/ s \in Free \/ s = r.status
         \/ s = "REPAIR_PENDING" /\ r.attempt < MaxRepair
  PROVE  /\ Fine(l, To(r, s)) /\ Fine(l, [To(r, s) EXCEPT !.retry = n])
         /\ Fine(l, Settle(To(r, s))) /\ Fine(l, To(Settle(r), s))
  <1> DEFINE X(k) == [r EXCEPT !.status = s, !.prov = None, !.retry = k]
  <1>1. r \in Records /\ r.retry \in 0 .. MaxRetry /\ 0 \in 0 .. MaxRetry
    BY BoundsOk DEF Fine, Records
  <1>2. ASSUME NEW k \in 0 .. MaxRetry PROVE Fine(l, X(k))
    <2>1. /\ X(k) \in Records /\ X(k).status = s /\ X(k).prov = None
          /\ X(k).base = r.base /\ X(k).wt = r.wt /\ X(k).cand = r.cand
          /\ X(k).reviews = r.reviews /\ X(k).go = r.go /\ X(k).pr = r.pr
          /\ X(k).attempt = r.attempt
      BY <1>1 DEF Records
    <2> HIDE DEF X
    <2> QED BY <2>1, SameFields DEF Free
  <1>3. /\ To(r, s) = X(r.retry) /\ [To(r, s) EXCEPT !.retry = n] = X(n)
        /\ Settle(To(r, s)) = X(0) /\ To(Settle(r), s) = X(0)
    BY <1>1 DEF To, Settle, Records
  <1> QED BY <1>1, <1>2, <1>3

LEMMA FreeFine ==
  ASSUME NEW l \in Lanes, NEW r, Fine(l, r),
         NEW s \in {"BLOCKED_ON_DESIGN", "VALIDATING", "HUMAN_DIRECTION_WAIT", "FREEZING", "MERGED"}
  PROVE  Fine(l, To(r, s)) /\ Fine(l, Settle(To(r, s)))
  <1>1. s \in Statuses /\ s \in Free /\ 0 \in 0 .. MaxRetry
    BY BoundsOk DEF Free, Statuses, Reviewing, Boundaries
  <1> QED BY <1>1, ToFine

LEMMA RepairFine ==
  ASSUME NEW l \in Lanes, NEW r, Fine(l, r), NEW prov \in {"actor", "reviewer", None}
  PROVE  /\ Fine(l, Repair(r, prov))
         /\ r.attempt < MaxRepair => Fine(l, Settle(Repair(r, prov)))
  <1>1. CASE r.attempt < MaxRepair
    BY <1>1, ToFine, BoundsOk DEF Repair, Statuses, Fine, Records
  <1>2. CASE ~(r.attempt < MaxRepair)
    BY <1>2, HoldFine DEF Repair, Holds
  <1> QED BY <1>1, <1>2

LEMMA FailureFine ==
  ASSUME NEW l \in Lanes, NEW r, Fine(l, r), NEW role \in {"actor", "reviewer"},
         NEW kind \in Failures
  PROVE  Fine(l, ProviderFailure(role, r, kind))
  <1>1. CASE kind \in Capacity
    BY <1>1, HoldFine DEF ProviderFailure, Holds, Capacity, Passing
  <1>2. CASE kind \in Passing /\ r.retry < MaxRetry
    <2>1. ProviderFailure(role, r, kind) = [To(r, r.status) EXCEPT !.retry = r.retry + 1]
      <3>1. ~(r.retry >= MaxRetry)
        BY <1>2, BoundsOk DEF Fine, Records
      <3>2. ProviderFailure(role, r, kind) = [To(r, r.status) EXCEPT !.retry = @ + 1]
        BY <1>2, <3>1 DEF ProviderFailure, Capacity, Passing
      <3> QED BY <3>2 DEF To, Fine, Records
    <2>2. r.status \in Statuses /\ r.retry + 1 \in 0 .. MaxRetry
      BY <1>2, BoundsOk DEF Fine, Records
    <2> QED BY <2>1, <2>2, ToFine
  <1>3. CASE kind \in Passing /\ ~(r.retry < MaxRetry)
    <2>1. r.retry >= MaxRetry
      BY <1>3, BoundsOk DEF Fine, Records
    <2> QED BY <1>3, <2>1, HoldFine DEF ProviderFailure, Holds, Capacity, Passing
  <1>4. CASE kind \notin Capacity \cup Passing
    BY <1>4, HoldFine, RepairFine DEF ProviderFailure, Holds, Capacity, Passing, Failures
  <1> QED BY <1>1, <1>2, <1>3, <1>4

(* Voiding the reviews is safe as long as the lane leaves its merge wait.        *)
LEMMA VoidFine ==
  ASSUME NEW l \in Lanes, NEW r, Fine(l, r), r.status # "HUMAN_MERGE_WAIT"
  PROVE  Fine(l, Void(r))
  <1> DEFINE seen == {[v EXCEPT !.valid = FALSE] : v \in r.reviews}
             x == [r EXCEPT !.reviews = seen, !.go = None]
  <1>1. seen \in SUBSET Reviews
    <2>1. r.reviews \subseteq Reviews
      BY DEF Fine, Records
    <2>2. \A v \in Reviews : [v EXCEPT !.valid = FALSE] \in Reviews
      BY DEF Reviews
    <2> QED BY <2>1, <2>2
  <1>2. /\ x \in Records /\ x.status = r.status /\ x.prov = r.prov
        /\ x.base = r.base /\ x.wt = r.wt /\ x.cand = r.cand /\ x.pr = r.pr
        /\ x.attempt = r.attempt
    BY <1>1 DEF Fine, Records
  <1>3. Void(r) = x
    BY DEF Void
  <1> QED BY <1>2, <1>3 DEF Fine, RecordOk, Reviewed

(* A base that others advanced is recorded before the lane is sent to repair.    *)
LEMMA RebaseFine ==
  ASSUME NEW l \in Lanes, NEW r, Fine(l, r), GitPart
  PROVE  Fine(l, [r EXCEPT !.base = main])
  <1> DEFINE x == [r EXCEPT !.base = main]
  <1>1. /\ x \in Records /\ x.status = r.status /\ x.prov = r.prov /\ x.base = main
        /\ x.wt = r.wt /\ x.cand = r.cand /\ x.pr = r.pr /\ x.reviews = r.reviews
        /\ x.go = r.go /\ x.attempt = r.attempt
    BY DEF Fine, Records, GitPart
  <1>2. Landed(l, r.base) => Landed(l, main)
    <2> HAVE Landed(l, r.base)
    <2> SUFFICES ASSUME DependsOn[l] # None
                 PROVE  /\ hub[DependsOn[l]].pr = "merged"
                        /\ hub[DependsOn[l]].landed <= main
      BY DEF Landed
    <2>1. DependsOn[l] \in Branches
      BY LanesOk
    <2>2. hub[DependsOn[l]].landed \in Int /\ main \in Int /\ r.base \in Int /\ r.base <= main
      BY <2>1, BoundsOk DEF GitPart, Fine, RecordOk, Records, Bases, Elsewhere
    <2> QED BY <2>2 DEF Landed
  <1>3. main <= main
    BY DEF GitPart, Bases
  <1> QED BY <1>1, <1>2, <1>3 DEF Fine, RecordOk, Reviewed

LEMMA DriftFine ==
  ASSUME NEW l \in Lanes, NEW r, Fine(l, r), GitPart
  PROVE  Fine(l, RemoteDrift(r)) /\ Fine(l, BaseDrift(r, main)) /\ Fine(l, Mutated(r))
  <1> DEFINE u == To(r, "VALIDATING")
             w == [Void(u) EXCEPT !.base = main]
  <1>0. r \in Records /\ r.reviews \subseteq Reviews
    BY DEF Fine, Records
  <1>1. Fine(l, u)
    <2> r.retry \in 0 .. MaxRetry
      BY <1>0 DEF Records
    <2> QED BY ToFine DEF Free, Statuses, Reviewing
  <1>2. Fine(l, Void(u))
    BY <1>0, <1>1, VoidFine DEF To, Records
  <1>3. Fine(l, Mutated(r))
    <2> Mutated(r) = Void(u)
      BY <1>0 DEF Mutated, Void, To, Records
    <2> QED BY <1>2
  <1>4. \A v : Fine(l, v) => Fine(l, Hold(v, "HOLD_UNKNOWN", r.prov)) /\ Fine(l, Hold(v, "HOLD_UNKNOWN", None))
    BY <1>0, HoldFine DEF Records, Holds
  <1>5. Fine(l, RemoteDrift(r))
    <2> RemoteDrift(r) = Hold(Void(u), "HOLD_UNKNOWN", r.prov)
      BY <1>0 DEF RemoteDrift, Hold, Void, To, Records
    <2> QED BY <1>2, <1>4
  <1>6. Fine(l, w)
    BY <1>2, RebaseFine
  <1>7. Fine(l, BaseDrift(r, main))
    <2>1. CASE r.attempt < MaxRepair
      <3>1. BaseDrift(r, main) = Repair(w, None)
        BY <1>0, <2>1 DEF BaseDrift, Repair, To, Void, Records
      <3> QED BY <1>6, <3>1, RepairFine
    <2>2. CASE ~(r.attempt < MaxRepair)
      <3>1. BaseDrift(r, main) = Hold(w, "HOLD_UNKNOWN", r.prov)
        BY <1>0, <2>2 DEF BaseDrift, Repair, Hold, Void, To, Records
      <3> QED BY <1>4, <1>6, <3>1
    <2> QED BY <2>1, <2>2
  <1> QED BY <1>3, <1>5, <1>7

LEMMA ResumeFine ==
  ASSUME NEW l \in Lanes, NEW r, Fine(l, r)
  PROVE  Fine(l, Resume(r))
  <1>1. r.status \in Statuses /\ r.retry \in 0 .. MaxRetry
    BY DEF Fine, Records
  <1>2. CASE r.status \notin Boundaries
    BY <1>1, <1>2, ToFine DEF Resume
  <1>3. CASE r.status \in Boundaries
    <2>1. PICK s \in {"PENDING", "VALIDATING", "ACTOR_INTERRUPTED"} : Resume(r) = To(Settle(r), s)
      BY <1>3 DEF Resume
    <2>2. {"PENDING", "VALIDATING", "ACTOR_INTERRUPTED"} \subseteq Free
      BY DEF Free, Statuses, Reviewing, Acting
    <2>3. s \in Statuses /\ s \in Free
      BY <2>1, <2>2 DEF Free
    <2> QED BY <1>1, <2>1, <2>3, ToFine
  <1> QED BY <1>2, <1>3

--------------------------------------------------------------------------------
(* What GitHub shows only grows, so that records stay true.                      *)
Grow ==
    /\ main' \in Bases /\ main <= main'
    /\ \A b \in Branches :
        /\ hub[b].pr # "none" => hub'[b].pr # "none"
        /\ hub[b].pr = "merged" => /\ hub'[b].pr = "merged"
                                   /\ hub'[b].landed = hub[b].landed

LEMMA GrowRecord ==
  ASSUME NEW l \in Lanes, NEW r \in Records, GitPart, Grow, RecordOk(l, r)
  PROVE  RecordOk(l, r)'
  <1>1. r.base <= main'
    BY BoundsOk DEF RecordOk, Grow, GitPart, Bases, Records
  <1>2. PrOf(l) => PrOf(l)'
    BY LanesOk DEF PrOf, Grow
  <1>3. Landed(l, r.base) => Landed(l, r.base)'
    BY LanesOk DEF Landed, Grow
  <1> QED BY <1>1, <1>2, <1>3 DEF RecordOk, Reviewed

LEMMA GrowRegistry ==
  ASSUME NEW reg \in Registries, GitPart, Grow, RegistryOk(reg)
  PROVE  \A l \in Lanes : reg[l] # None => RecordOk(l, reg[l])'
  BY GrowRecord DEF RegistryOk, Registries

LEMMA Quiet ==
  ASSUME GitPart, UNCHANGED git
  PROVE  GitPart' /\ Grow
  <1> USE DEF git
  <1>1. Grow
    BY DEF Grow, GitPart, Bases
  <1>2. GitPart'
    BY DEF GitPart, GitOk, OnePullRequest, Present, HeadOf, Landed
  <1> QED BY <1>1, <1>2

LEMMA GrowCli ==
  ASSUME GitPart, Grow, CliPart, UNCHANGED cli, (whole \in [Lanes -> BOOLEAN])'
  PROVE  CliPart'
  <1>1. CASE cli = None
    BY <1>1 DEF CliPart
  <1>2. CASE cli # None
    <2>1. cli.reg \in Registries /\ RegistryOk(cli.reg)
      BY <1>2 DEF CliPart
    <2>2. \A l \in Lanes : cli.reg[l] # None => RecordOk(l, cli.reg[l])'
      BY <2>1, GrowRegistry
    <2> QED BY <2>2 DEF CliPart, RegistryOk
  <1> QED BY <1>1, <1>2

--------------------------------------------------------------------------------
(* The supervisor's copy.                                                        *)

LEMMA MineIsFine ==
  ASSUME LoopPart, NEW l \in Lanes, mem[l] # None
  PROVE  Fine(l, mem[l])
  BY DEF LoopPart, Fine, RegistryOk, Registries

LEMMA TakenIsFine ==
  ASSUME LoopPart, NEW l \in Lanes, NEW statuses, Takes(l, statuses)
  PROVE  Fine(l, mem[l]) /\ mem[l] # None /\ mem[l].status \in statuses
  BY MineIsFine DEF LoopPart, SupOk, Takes

LEMMA WithinIsFine ==
  ASSUME LoopPart, NEW l \in Lanes, NEW point \in Points, Within(l, point)
  PROVE  Fine(l, mem[l]) /\ mem[l] # None
  BY MineIsFine DEF LoopPart, SupOk, Within

LEMMA KeepOk ==
  ASSUME GitPart, LoopPart, NEW l \in Lanes, NEW r, Fine(l, r), Keep(l, r), Grow
  PROVE  /\ (mem \in Registries /\ disk \in Registries)'
         /\ (RegistryOk(mem) /\ RegistryOk(disk))'
         /\ mem'[l] = r /\ r # None
         /\ \A k \in Lanes : mem[k] # None => mem'[k] # None
         /\ \A k \in Lanes : k # l => mem'[k] = mem[k]
  <1>1. mem' \in Registries /\ disk' = mem' /\ mem'[l] = r
        /\ \A k \in Lanes : k # l => mem'[k] = mem[k]
    BY DEF LoopPart, Keep, Registries, Fine
  <1>2. RecordOk(l, r)' /\ r # None
    BY GrowRecord, NothingOk DEF Fine
  <1>3. ASSUME NEW k \in Lanes, NEW s, s = mem'[k], s # None
        PROVE  RecordOk(k, s)'
    <2>1. CASE k = l
      BY <1>1, <1>2, <1>3, <2>1
    <2>2. CASE k # l
      <3>1. s = mem[k]
        BY <1>1, <1>3, <2>2
      <3>2. s \in Records /\ RecordOk(k, s)
        BY <1>3, <3>1, MineIsFine DEF Fine
      <3> QED BY <3>2, GrowRecord
    <2> QED BY <2>1, <2>2
  <1>4. (RegistryOk(mem))'
    BY <1>3 DEF RegistryOk
  <1>5. (RegistryOk(disk))'
    BY <1>1, <1>4 DEF RegistryOk
  <1> QED BY <1>1, <1>2, <1>4, <1>5

LEMMA FinishOk ==
  ASSUME GitPart, LoopPart, NEW l \in Lanes, NEW r, Fine(l, r), Finish(l, r), Grow
  PROVE  LoopPart'
  <1>1. Keep(l, r)
    BY DEF Finish
  <1>2. /\ sup' = At("between", None) /\ todo' = todo \ {l} /\ progress' \in BOOLEAN
    BY DEF Finish
  <1>3. /\ sup' \in SupType /\ sup'.at = "between" /\ sup'.lane = None
    BY <1>2 DEF At, Off, SupType
  <1>4. SupOk'
    BY <1>1, <1>2, <1>3, KeepOk DEF SupOk, LoopPart, Points
  <1> QED BY <1>1, <1>2, <1>3, <1>4, KeepOk DEF LoopPart

(* The supervisor goes to another point of the same step.                        *)
Fits(s, r) ==
    /\ IF s.at \in {"readPr", "readBase"} THEN s.next # None /\ StatusAt(s.next, r)
                                         ELSE StatusAt(s.at, r)
    /\ s.at \in {"judge", "recorded"} \/ s.next = "judge" => s.verdict # None
LEMMA MoveOk ==
  ASSUME GitPart, LoopPart, Grow, NEW l \in Lanes, mem[l] # None,
         NEW s \in SupType, s.lane = l, s.at \in Points \ {"opened", "recorded"},
         Fits(s, mem[l]), sup' = s,
         UNCHANGED <<mem, todo, progress>>, disk' = disk \/ disk' = mem
  PROVE  LoopPart'
  <1>1. SupOk'
    BY NothingOk DEF SupOk, LoopPart, Fits, StatusAt
  <1>2. (RegistryOk(mem))'
    BY GrowRegistry DEF RegistryOk, LoopPart
  <1>3. (RegistryOk(disk))'
    BY GrowRegistry DEF RegistryOk, LoopPart
  <1> QED BY <1>1, <1>2, <1>3 DEF LoopPart

--------------------------------------------------------------------------------
(* The steps of the supervisor.                                                  *)

LEMMA Finishing ==
  ASSUME IInv, NEW l \in Lanes, NEW r, Fine(l, r), Finish(l, r),
         UNCHANGED git, UNCHANGED cli, (whole \in [Lanes -> BOOLEAN])'
  PROVE  IInv'
  <1>1. GitPart /\ LoopPart /\ CliPart
    BY Parts
  <1>2. GitPart' /\ Grow
    BY <1>1, Quiet
  <1>3. LoopPart'
    BY <1>1, <1>2, FinishOk
  <1>4. CliPart'
    BY <1>1, <1>2, GrowCli
  <1> QED BY <1>2, <1>3, <1>4, Parts

LEMMA Moving ==
  ASSUME IInv, NEW l \in Lanes, mem[l] # None,
         NEW s \in SupType, s.lane = l, s.at \in Points \ {"opened", "recorded"},
         Fits(s, mem[l]), sup' = s,
         UNCHANGED <<mem, todo, progress>>, disk' = disk \/ disk' = mem,
         UNCHANGED git, UNCHANGED cli, (whole \in [Lanes -> BOOLEAN])'
  PROVE  IInv'
  <1>1. GitPart /\ LoopPart /\ CliPart
    BY Parts
  <1>2. GitPart' /\ Grow
    BY <1>1, Quiet
  <1>3. LoopPart'
    BY <1>1, <1>2, MoveOk
  <1>4. CliPart'
    BY <1>1, <1>2, GrowCli
  <1> QED BY <1>2, <1>3, <1>4, Parts

(* A new point without anything read.                                            *)
LEMMA AtFits ==
  ASSUME NEW l \in Lanes, NEW r, NEW point \in Points \ {"readPr", "readBase", "judge", "recorded"},
         StatusAt(point, r)
  PROVE  /\ At(point, l) \in SupType /\ At(point, l).lane = l /\ At(point, l).at = point
         /\ Fits(At(point, l), r)
  BY NothingOk DEF At, Off, SupType, Fits, Points

LEMMA EnterSetupOk ==
  ASSUME IInv, NEW l \in Lanes, EnterSetup(l)
  PROVE  IInv'
  <1> DEFINE r == mem[l]
             x == To([r EXCEPT !.base = FreshBase(l)], "WORKTREE_SETUP")
  <1>0. GitPart /\ LoopPart /\ CliPart
    BY Parts
  <1>1. Fine(l, r) /\ r \in Records /\ RecordOk(l, r)
    BY <1>0, TakenIsFine DEF EnterSetup, Fine
  <1>2. (whole \in [Lanes -> BOOLEAN])' /\ UNCHANGED git /\ UNCHANGED cli
    BY <1>0 DEF EnterSetup, CliPart
  <1>3. CASE Refreshes(l) /\ hub[DependsOn[l]].landed > main
    <2>1. Finish(l, Hold(r, "HOLD_UNKNOWN", None))
      BY <1>3 DEF EnterSetup
    <2>2. Fine(l, Hold(r, "HOLD_UNKNOWN", None))
      BY <1>1, HoldFine DEF Holds
    <2> QED BY <1>2, <2>1, <2>2, Finishing
  <1>4. CASE ~(Refreshes(l) /\ hub[DependsOn[l]].landed > main)
    <2>1. Finish(l, x) /\ DesignLanded(l)
      BY <1>4 DEF EnterSetup
    <2>2. FreshBase(l) \in Bases /\ FreshBase(l) <= main
      BY <1>0, <1>1 DEF FreshBase, GitPart, RecordOk, Records, Bases
    <2>3. /\ x \in Records /\ x.status = "WORKTREE_SETUP" /\ x.prov = None
          /\ x.base = FreshBase(l) /\ x.cand = r.cand /\ x.pr = r.pr
      BY <1>1, <2>2 DEF To, Records, Statuses
    <2>4. Landed(l, FreshBase(l))
      <3> SUFFICES ASSUME DependsOn[l] # None PROVE Landed(l, FreshBase(l))
        BY DEF Landed
      <3>1. hub[DependsOn[l]].pr = "merged" /\ DependsOn[l] \in Branches
        BY <2>1, LanesOk DEF DesignLanded
      <3>2. CASE r.wt
        BY <1>1, <3>2 DEF FreshBase, Refreshes, RecordOk
      <3>3. CASE ~r.wt
        <4>1. FreshBase(l) = main /\ ~(hub[DependsOn[l]].landed > main)
          BY <1>4, <3>3 DEF FreshBase, Refreshes
        <4>2. hub[DependsOn[l]].landed \in Int /\ main \in Int
          BY <1>0, <3>1, BoundsOk DEF GitPart, Elsewhere, Bases
        <4> QED BY <3>1, <4>1, <4>2 DEF Landed
      <3> QED BY <3>2, <3>3
    <2>5. Fine(l, x)
      <3> HIDE DEF x
      <3> QED BY <1>1, <2>2, <2>3, <2>4 DEF Fine, RecordOk, Reviewed, Reviewing
    <2> HIDE DEF x
    <2> QED BY <1>2, <2>1, <2>5, Finishing
  <1> QED BY <1>3, <1>4

LEMMA RecordWorktreeOk ==
  ASSUME IInv, NEW l \in Lanes, RecordWorktree(l)
  PROVE  IInv'
  <1> DEFINE r == mem[l]
             x == [To(r, "ACTOR_RUNNING") EXCEPT !.wt = TRUE]
  <1>0. GitPart /\ LoopPart /\ CliPart
    BY Parts
  <1>1. Fine(l, r) /\ r \in Records /\ RecordOk(l, r) /\ r.status = "WORKTREE_SETUP"
    BY <1>0, WithinIsFine DEF RecordWorktree, Fine, Points, LoopPart, SupOk, Within, StatusAt
  <1>2. Finish(l, x) /\ (whole \in [Lanes -> BOOLEAN])' /\ UNCHANGED git /\ UNCHANGED cli
    BY <1>0 DEF RecordWorktree, CliPart
  <1>3. /\ x \in Records /\ x.status = "ACTOR_RUNNING" /\ x.prov = None /\ x.wt
        /\ x.base = r.base /\ x.cand = r.cand /\ x.pr = r.pr
    BY <1>1 DEF To, Records, Statuses, Acting
  <1> HIDE DEF x
  <1>4. Fine(l, x)
    BY <1>1, <1>3 DEF Fine, RecordOk, Reviewed, Reviewing
  <1> QED BY <1>2, <1>4, Finishing

LEMMA StartRepairOk ==
  ASSUME IInv, NEW l \in Lanes, StartRepair(l)
  PROVE  IInv'
  <1> DEFINE r == mem[l]
             x == [Settle(To(r, "ACTOR_RUNNING")) EXCEPT !.attempt = @ + 1]
  <1>0. GitPart /\ LoopPart /\ CliPart
    BY Parts
  <1>1. Fine(l, r) /\ r \in Records /\ RecordOk(l, r) /\ r.status = "REPAIR_PENDING"
    BY <1>0, TakenIsFine DEF StartRepair, Fine
  <1>2. Finish(l, x) /\ (whole \in [Lanes -> BOOLEAN])' /\ UNCHANGED git /\ UNCHANGED cli
    BY <1>0 DEF StartRepair, CliPart
  <1>3. r.attempt + 1 \in 0 .. MaxRepair /\ 0 \in 0 .. MaxRetry
    BY <1>1, BoundsOk DEF RecordOk, Records
  <1>4. /\ x \in Records /\ x.status = "ACTOR_RUNNING" /\ x.prov = None /\ x.wt = r.wt
        /\ x.base = r.base /\ x.cand = r.cand /\ x.pr = r.pr
    BY <1>1, <1>3 DEF To, Settle, Records, Statuses, Acting
  <1> HIDE DEF x
  <1>5. Fine(l, x)
    BY <1>1, <1>4 DEF Fine, RecordOk, Reviewed, Reviewing
  <1> QED BY <1>2, <1>5, Finishing

(* The worker.                                                                   *)
LEMMA ActorOk ==
  ASSUME IInv, NEW l \in Lanes, InvokeActor(l) \/ ActorCompletes(l) \/ ActorFails(l)
  PROVE  IInv'
  <1>0. GitPart /\ LoopPart /\ CliPart
    BY Parts
  <1>1. CASE InvokeActor(l)
    <2>1. mem[l] # None /\ StatusAt("acting", mem[l])
      BY <1>0, <1>1, TakenIsFine DEF InvokeActor, StatusAt
    <2>2. (whole \in [Lanes -> BOOLEAN])'
      BY <1>0, <1>1 DEF InvokeActor, CliPart
    <2>3. PICK s \in SupType : s = At("acting", l) /\ s.lane = l /\ s.at = "acting" /\ Fits(s, mem[l])
      BY <2>1, AtFits DEF Points
    <2>4. /\ sup' = s /\ UNCHANGED <<mem, todo, progress>> /\ disk' = disk
          /\ UNCHANGED git /\ UNCHANGED cli
      BY <1>1, <2>3 DEF InvokeActor, Stay, registry
    <2>5. s.at \in Points \ {"opened", "recorded"}
      BY <2>3 DEF Points
    <2> QED BY <2>1, <2>2, <2>3, <2>4, <2>5, Moving
  <1>2. CASE ActorCompletes(l)
    <2>1. Fine(l, mem[l])
      BY <1>0, <1>2, WithinIsFine DEF ActorCompletes, Points
    <2>2. /\ Fine(l, Settle(To(mem[l], "VALIDATING")))
          /\ Fine(l, Settle(To(mem[l], "HUMAN_DIRECTION_WAIT")))
      BY <2>1, FreeFine
    <2>3. (whole \in [Lanes -> BOOLEAN])' /\ UNCHANGED git /\ UNCHANGED cli
      BY <1>0, <1>2 DEF ActorCompletes, CliPart
    <2> QED BY <1>2, <2>2, <2>3, Finishing DEF ActorCompletes
  <1>3. CASE ActorFails(l)
    <2>1. Fine(l, mem[l])
      BY <1>0, <1>3, WithinIsFine DEF ActorFails, Points
    <2>2. PICK kind \in Failures : Finish(l, ProviderFailure("actor", mem[l], kind))
      BY <1>3 DEF ActorFails
    <2>3. (whole \in [Lanes -> BOOLEAN])' /\ UNCHANGED git /\ UNCHANGED cli
      BY <1>0, <1>3 DEF ActorFails, CliPart
    <2> QED BY <2>1, <2>2, <2>3, FailureFine, Finishing
  <1> QED BY <1>1, <1>2, <1>3

LEMMA PlainOk ==
  ASSUME IInv, NEW l \in Lanes,
         BlockOnDesign(l) \/ Validate(l) \/ ReviewerFails(l) \/ StillOpen(l) \/ StepError(l)
  PROVE  IInv'
  <1>0. GitPart /\ LoopPart /\ CliPart
    BY Parts
  <1>1. UNCHANGED git /\ UNCHANGED cli /\ (whole \in [Lanes -> BOOLEAN])'
    BY <1>0 DEF BlockOnDesign, Validate, ReviewerFails, StillOpen, StepError, CliPart
  <1>2. CASE BlockOnDesign(l)
    <2>1. Fine(l, mem[l])
      BY <1>0, <1>2, TakenIsFine DEF BlockOnDesign
    <2>2. Fine(l, To(mem[l], "BLOCKED_ON_DESIGN"))
      BY <2>1, FreeFine
    <2> QED BY <1>1, <1>2, <2>2, Finishing DEF BlockOnDesign
  <1>3. CASE Validate(l)
    <2>1. Fine(l, mem[l])
      BY <1>0, <1>3, TakenIsFine DEF Validate
    <2>2. Fine(l, To(mem[l], "FREEZING")) /\ Fine(l, Repair(mem[l], "actor"))
      BY <2>1, FreeFine, RepairFine
    <2> QED BY <1>1, <1>3, <2>2, Finishing DEF Validate
  <1>4. CASE ReviewerFails(l)
    <2>1. Fine(l, mem[l])
      BY <1>0, <1>4, WithinIsFine DEF ReviewerFails, Points
    <2>2. PICK kind \in Failures : Finish(l, ProviderFailure("reviewer", mem[l], kind))
      BY <1>4 DEF ReviewerFails
    <2> QED BY <1>1, <2>1, <2>2, FailureFine, Finishing
  <1>5. CASE StillOpen(l)
    <2>1. Fine(l, mem[l]) /\ mem[l].status = "HUMAN_MERGE_WAIT"
      BY <1>0, <1>5, WithinIsFine DEF StillOpen, Points, LoopPart, SupOk, Within, StatusAt
    <2>2. Fine(l, To(mem[l], "HUMAN_MERGE_WAIT"))
      <3>1. 0 \in 0 .. MaxRetry /\ mem[l].status \in Statuses
        BY <2>1, BoundsOk DEF Fine, Records
      <3> QED BY <2>1, <3>1, ToFine
    <2> QED BY <1>1, <1>5, <2>2, Finishing DEF StillOpen
  <1>6. CASE StepError(l)
    <2>1. mem[l] # None
      BY <1>0, <1>6, NothingOk DEF StepError, LoopPart, SupOk
    <2>2. Fine(l, mem[l]) /\ mem[l] \in Records
      BY <1>0, <2>1, MineIsFine DEF Fine
    <2>3. PICK x : x = Interrupted(l)
      OBVIOUS
    <2>4. /\ x \in Records /\ x.status = "HOLD_UNKNOWN" /\ x.prov = mem[l].prov
          /\ x.wt => mem[l].wt \/ Within(l, "setup")
          /\ x.base = mem[l].base /\ x.cand = mem[l].cand /\ x.pr = mem[l].pr
      BY <2>2, <2>3 DEF Interrupted, Records, Statuses, Boundaries, Holds
    <2>5. Within(l, "setup") => mem[l].status = "WORKTREE_SETUP"
      BY <1>0 DEF Within, LoopPart, SupOk, StatusAt, Points
    <2>6. Fine(l, x)
      BY <2>2, <2>4, <2>5 DEF Fine, RecordOk, Reviewed, Reviewing, Holds
    <2> QED BY <1>1, <1>6, <2>3, <2>6, Finishing DEF StepError
  <1> QED BY <1>2, <1>3, <1>4, <1>5, <1>6

--------------------------------------------------------------------------------
(* The review, and the wait for the merge.                                       *)

LEMMA FreezeOk ==
  ASSUME IInv, NEW l \in Lanes, Freeze(l)
  PROVE  IInv'
  <1> DEFINE r == mem[l]
             x == [To(r, "REVIEW_RUNNING") EXCEPT !.pr = TRUE]
  <1>0. GitPart /\ LoopPart /\ CliPart
    BY Parts
  <1>1. Fine(l, r) /\ r \in Records /\ RecordOk(l, r) /\ r.cand # None
    BY <1>0, WithinIsFine DEF Freeze, Fine, Points, LoopPart, SupOk, Within, StatusAt
  <1>2. Finish(l, x) /\ (whole \in [Lanes -> BOOLEAN])' /\ UNCHANGED git /\ UNCHANGED cli
    BY <1>0 DEF Freeze, CliPart
  <1>3. PrOf(l)
    BY <1>0, <1>1 DEF Freeze, LoopPart, SupOk, Within, RecordOk, Points
  <1>4. /\ x \in Records /\ x.status = "REVIEW_RUNNING" /\ x.prov = None /\ x.wt = r.wt
        /\ x.base = r.base /\ x.cand = r.cand /\ x.pr
    BY <1>1 DEF To, Records, Statuses, Reviewing
  <1> HIDE DEF x
  <1>5. Fine(l, x)
    BY <1>1, <1>3, <1>4 DEF Fine, RecordOk, Reviewed, Reviewing
  <1> QED BY <1>2, <1>5, Finishing

LEMMA ReadPrOk ==
  ASSUME IInv, NEW l \in Lanes, ReadPr(l)
  PROVE  IInv'
  <1>0. GitPart /\ LoopPart /\ CliPart
    BY Parts
  <1>1. Fine(l, mem[l]) /\ mem[l] # None
    BY <1>0, WithinIsFine DEF ReadPr, Points
  <1>2. (whole \in [Lanes -> BOOLEAN])' /\ UNCHANGED git /\ UNCHANGED cli
    BY <1>0 DEF ReadPr, CliPart
  <1>3. CASE Finish(l, RemoteDrift(mem[l]))
    BY <1>0, <1>1, <1>2, <1>3, DriftFine, Finishing
  <1>4. CASE sup' = [sup EXCEPT !.at = "readBase"] /\ UNCHANGED <<registry, todo, progress>>
    <2>1. PICK s : s = [sup EXCEPT !.at = "readBase"]
      OBVIOUS
    <2>2. sup \in SupType /\ sup.at = "readPr" /\ sup.lane = l
      BY <1>0 DEF ReadPr, Within, LoopPart
    <2>3. s \in SupType /\ s.lane = l /\ s.at = "readBase" /\ s.next = sup.next /\ s.verdict = sup.verdict
      BY <2>1, <2>2 DEF SupType, Points
    <2>4. Fits(s, mem[l])
      BY <1>0, <2>2, <2>3 DEF Fits, LoopPart, SupOk, Points
    <2>5. s.at \in Points \ {"opened", "recorded"}
      BY <2>3 DEF Points
    <2>6. sup' = s /\ UNCHANGED <<mem, todo, progress>> /\ disk' = disk
      BY <1>4, <2>1 DEF registry
    <2> QED BY <1>1, <1>2, <2>3, <2>4, <2>5, <2>6, Moving
  <1> QED BY <1>3, <1>4 DEF ReadPr

LEMMA ReadBaseOk ==
  ASSUME IInv, NEW l \in Lanes, ReadBase(l)
  PROVE  IInv'
  <1>0. GitPart /\ LoopPart /\ CliPart
    BY Parts
  <1>1. Fine(l, mem[l]) /\ mem[l] # None
    BY <1>0, WithinIsFine DEF ReadBase, Points
  <1>2. (whole \in [Lanes -> BOOLEAN])' /\ UNCHANGED git /\ UNCHANGED cli
    BY <1>0 DEF ReadBase, CliPart
  <1>3. CASE Finish(l, BaseDrift(mem[l], main))
    BY <1>0, <1>1, <1>2, <1>3, DriftFine, Finishing
  <1>4. CASE sup' = [sup EXCEPT !.at = sup.next, !.next = None] /\ UNCHANGED <<registry, todo, progress>>
    <2>1. PICK s : s = [sup EXCEPT !.at = sup.next, !.next = None]
      OBVIOUS
    <2>2. sup \in SupType /\ sup.at = "readBase" /\ sup.lane = l
      BY <1>0 DEF ReadBase, Within, LoopPart
    <2>3. /\ sup.next \in {"reviewing", "judge", "waiting"} /\ StatusAt(sup.next, mem[l])
          /\ sup.next = "judge" => sup.verdict # None
      BY <1>0, <2>2 DEF LoopPart, SupOk, Points, SupType
    <2>4. s \in SupType /\ s.lane = l /\ s.at = sup.next /\ s.next = None /\ s.verdict = sup.verdict
      BY <2>1, <2>2, <2>3 DEF SupType, Points
    <2>5. Fits(s, mem[l])
      BY <2>3, <2>4, NothingOk DEF Fits
    <2>6. s.at \in Points \ {"opened", "recorded"}
      BY <2>3, <2>4 DEF Points
    <2>7. sup' = s /\ UNCHANGED <<mem, todo, progress>> /\ disk' = disk
      BY <1>4, <2>1 DEF registry
    <2> QED BY <1>1, <1>2, <2>4, <2>5, <2>6, <2>7, Moving
  <1> QED BY <1>3, <1>4 DEF ReadBase

(* GitHub is to be read on the way to a point of the same step.                  *)
LEMMA CheckRemoteOk ==
  ASSUME IInv, NEW l \in Lanes, mem[l] # None, NEW from \in SupType,
         NEW next \in {"reviewing", "judge", "waiting"}, StatusAt(next, mem[l]),
         next = "judge" => from.verdict # None,
         CheckRemote(from, l, next), UNCHANGED <<git, cli, whole>>
  PROVE  IInv'
  <1>1. PICK s : s = [from EXCEPT !.at = "readPr", !.lane = l, !.next = next]
    OBVIOUS
  <1>2. s \in SupType /\ s.lane = l /\ s.at = "readPr" /\ s.next = next /\ s.verdict = from.verdict
    BY <1>1 DEF SupType, Points
  <1>3. Fits(s, mem[l]) /\ s.at \in Points \ {"opened", "recorded"}
    BY <1>2, NothingOk DEF Fits, Points
  <1>4. sup' = s /\ UNCHANGED <<mem, todo, progress>> /\ disk' = disk
    BY <1>1 DEF CheckRemote, registry
  <1>5. (whole \in [Lanes -> BOOLEAN])'
    BY DEF IInv, TypeOK
  <1> QED BY <1>2, <1>3, <1>4, <1>5, Moving

LEMMA ReviewOk ==
  ASSUME IInv, NEW l \in Lanes, OpenReview(l) \/ ReviewerAnswers(l)
  PROVE  IInv'
  <1>0. GitPart /\ LoopPart /\ CliPart
    BY Parts
  <1>1. UNCHANGED <<git, cli, whole>>
    BY DEF OpenReview, ReviewerAnswers
  <1>2. Off \in SupType
    BY DEF Off, SupType
  <1>3. CASE OpenReview(l)
    <2>1. Fine(l, mem[l]) /\ mem[l] # None /\ StatusAt("reviewing", mem[l])
      BY <1>0, <1>3, TakenIsFine DEF OpenReview, StatusAt
    <2>2. CASE Finish(l, Mutated(mem[l]))
      <3>1. (whole \in [Lanes -> BOOLEAN])' /\ UNCHANGED git /\ UNCHANGED cli
        BY <1>0, <1>1 DEF CliPart
      <3> QED BY <1>0, <2>1, <2>2, <3>1, DriftFine, Finishing
    <2>3. CASE CheckRemote(Off, l, "reviewing")
      BY <1>1, <1>2, <2>1, <2>3, CheckRemoteOk
    <2> QED BY <1>3, <2>2, <2>3 DEF OpenReview
  <1>4. CASE ReviewerAnswers(l)
    <2>1. PICK verdict \in {"GO", "REQUEST_CHANGES"} :
            CheckRemote([sup EXCEPT !.verdict = verdict,
                                    !.same = HeadOf(l) = mem[l].cand.head], l, "judge")
      BY <1>4 DEF ReviewerAnswers
    <2>2. /\ [sup EXCEPT !.verdict = verdict, !.same = HeadOf(l) = mem[l].cand.head] \in SupType
          /\ [sup EXCEPT !.verdict = verdict, !.same = HeadOf(l) = mem[l].cand.head].verdict = verdict
      BY <1>0 DEF LoopPart, SupType
    <2>3. mem[l] # None /\ StatusAt("judge", mem[l])
      BY <1>0, <1>4 DEF ReviewerAnswers, Within, LoopPart, SupOk, StatusAt, Points
    <2>4. verdict # None
      BY NothingOk
    <2> QED BY <1>1, <2>1, <2>2, <2>3, <2>4, CheckRemoteOk
  <1> QED BY <1>3, <1>4

LEMMA WaitOk ==
  ASSUME IInv, NEW l \in Lanes, LookAtMerge(l) \/ ReadMerge(l)
  PROVE  IInv'
  <1>0. GitPart /\ LoopPart /\ CliPart
    BY Parts
  <1>1. UNCHANGED <<git, cli, whole>>
    BY DEF LookAtMerge, ReadMerge
  <1>2. (whole \in [Lanes -> BOOLEAN])' /\ UNCHANGED git /\ UNCHANGED cli
    BY <1>0, <1>1 DEF CliPart
  <1>3. CASE LookAtMerge(l)
    <2>1. Fine(l, mem[l]) /\ mem[l] # None /\ StatusAt("merge", mem[l])
      BY <1>0, <1>3, TakenIsFine DEF LookAtMerge, StatusAt
    <2>2. CASE Finish(l, Mutated(mem[l]))
      BY <1>0, <1>2, <2>1, <2>2, DriftFine, Finishing
    <2>3. CASE Stay(l, "merge") /\ UNCHANGED registry
      <3>1. PICK s \in SupType : s = At("merge", l) /\ s.lane = l /\ s.at = "merge" /\ Fits(s, mem[l])
        BY <2>1, AtFits DEF Points
      <3>2. sup' = s /\ UNCHANGED <<mem, todo, progress>> /\ disk' = disk
        BY <2>3, <3>1 DEF Stay, registry
      <3>3. s.at \in Points \ {"opened", "recorded"}
        BY <3>1 DEF Points
      <3> QED BY <1>2, <2>1, <3>1, <3>2, <3>3, Moving
    <2> QED BY <1>3, <2>2, <2>3 DEF LookAtMerge
  <1>4. CASE ReadMerge(l)
    <2>1. Fine(l, mem[l]) /\ mem[l] # None /\ StatusAt("waiting", mem[l])
      BY <1>0, <1>4, WithinIsFine DEF ReadMerge, Points, Within, LoopPart, SupOk, StatusAt
    <2>2. CASE Finish(l, To(mem[l], "MERGED"))
      BY <1>2, <2>1, <2>2, FreeFine, Finishing
    <2>3. CASE CheckRemote(Off, l, "waiting")
      <3>1. Off \in SupType
        BY DEF Off, SupType
      <3> QED BY <1>1, <2>1, <2>3, <3>1, CheckRemoteOk
    <2> QED BY <1>4, <2>2, <2>3 DEF ReadMerge
  <1> QED BY <1>3, <1>4

(* The review is on disk before the verdict is acted on.                         *)
LEMMA RecordReviewOk ==
  ASSUME IInv, NEW l \in Lanes, RecordReview(l)
  PROVE  IInv'
  <1> DEFINE r == mem[l]
             head == IF sup.verdict = "GO" THEN r.cand.head ELSE r.go
             x == [r EXCEPT !.reviews = @ \cup {Review(l)}, !.go = head]
  <1>0. GitPart /\ LoopPart /\ CliPart
    BY Parts
  <1>1. UNCHANGED <<git, cli, whole>>
    BY DEF RecordReview
  <1>2. GitPart' /\ Grow /\ CliPart'
    <2>1. (whole \in [Lanes -> BOOLEAN])' /\ UNCHANGED git /\ UNCHANGED cli
      BY <1>0, <1>1 DEF CliPart
    <2> QED BY <1>0, <2>1, Quiet, GrowCli
  <1>3. /\ sup \in SupType /\ sup.at = "judge" /\ sup.lane = l /\ sup.same
        /\ sup.verdict \in {"GO", "REQUEST_CHANGES"} /\ r.status \in Reviewing
    BY <1>0 DEF RecordReview, Within, LoopPart, SupOk, SupType, Points, StatusAt
  <1>4. Fine(l, r) /\ r \in Records /\ RecordOk(l, r)
    BY <1>0, WithinIsFine DEF RecordReview, Points, Fine
  <1>5. r.cand \in Candidates
    BY <1>3, <1>4 DEF RecordOk, Records
  <1>6. Review(l) \in Reviews /\ head \in Commits \cup {None}
    BY <1>3, <1>4, <1>5 DEF Review, Reviews, Candidates, Records
  <1>7. /\ x \in Records /\ x.status = r.status /\ x.prov = r.prov /\ x.wt = r.wt
        /\ x.base = r.base /\ x.cand = r.cand /\ x.pr = r.pr /\ x.attempt = r.attempt
        /\ Review(l) \in x.reviews
        /\ sup.verdict = "GO" => x.go = r.cand.head
    BY <1>4, <1>6 DEF Records
  <1>8. Keep(l, x) /\ sup' = [sup EXCEPT !.at = "recorded"] /\ UNCHANGED <<todo, progress>>
    BY DEF RecordReview
  <1> HIDE DEF x
  <1>9. Fine(l, x)
    BY <1>3, <1>4, <1>7 DEF Fine, RecordOk, Reviewed, Reviewing
  <1>10. /\ (mem \in Registries /\ disk \in Registries)' /\ (RegistryOk(mem) /\ RegistryOk(disk))'
         /\ mem'[l] = x /\ x # None /\ \A k \in Lanes : mem[k] # None => mem'[k] # None
    BY <1>0, <1>2, <1>8, <1>9, KeepOk
  <1>11. /\ sup' \in SupType /\ sup'.at = "recorded" /\ sup'.lane = l /\ sup'.same
         /\ sup'.verdict = sup.verdict
    BY <1>3, <1>8 DEF SupType, Points
  <1>12. SupOk'
    <2>1. \A k \in todo' : mem'[k] # None
      BY <1>0, <1>8, <1>10 DEF LoopPart, SupOk
    <2>2. mem'[sup'.lane].status \in Reviewing /\ sup'.verdict # None /\ sup'.lane # None
      BY <1>3, <1>7, <1>10, <1>11, NothingOk
    <2>3. /\ (Review(sup.lane) \in mem[sup.lane].reviews)'
          /\ sup'.verdict = "GO" => mem'[sup'.lane].go = mem'[sup'.lane].cand.head
      <3>1. /\ mem'[sup'.lane] = x /\ sup'.lane = l
            /\ [base |-> x.cand.base, head |-> x.cand.head, verdict |-> sup.verdict,
                valid |-> TRUE] \in x.reviews
        BY <1>7, <1>10, <1>11 DEF Review
      <3> QED BY <1>7, <1>11, <3>1 DEF Review
    <2> QED BY <1>10, <1>11, <2>1, <2>2, <2>3 DEF SupOk, StatusAt, Points
  <1>13. LoopPart'
    BY <1>0, <1>8, <1>10, <1>11, <1>12 DEF LoopPart
  <1> QED BY <1>2, <1>13, Parts

(* A GO passes on only what it was recorded for.                                 *)
LEMMA JudgeOk ==
  ASSUME IInv, NEW l \in Lanes, Judge(l)
  PROVE  IInv'
  <1> DEFINE r == mem[l]
             x == To(Settle(r), "HUMAN_MERGE_WAIT")
  <1>0. GitPart /\ LoopPart /\ CliPart
    BY Parts
  <1>1. Fine(l, r) /\ r \in Records /\ RecordOk(l, r) /\ r.status \in Reviewing
    BY <1>0, WithinIsFine DEF Judge, Within, Points, Fine, LoopPart, SupOk, StatusAt
  <1>2. Finish(l, Verdict(r, sup.verdict, sup.same)) /\ UNCHANGED git /\ UNCHANGED cli
        /\ (whole \in [Lanes -> BOOLEAN])'
    BY <1>0 DEF Judge, CliPart
  <1>3. CASE ~sup.same
    BY <1>0, <1>1, <1>2, <1>3, DriftFine, Finishing DEF Verdict
  <1>4. CASE sup.same /\ sup.verdict = "GO"
    <2>1. Verdict(r, sup.verdict, sup.same) = x
      BY <1>4 DEF Verdict
    <2>2. r.go = r.cand.head /\ Review(l) \in r.reviews
      BY <1>0, <1>4 DEF Judge, Within, LoopPart, SupOk, Points
    <2>3. /\ x \in Records /\ x.status = "HUMAN_MERGE_WAIT" /\ x.prov = None /\ x.wt = r.wt
          /\ x.base = r.base /\ x.cand = r.cand /\ x.pr = r.pr /\ x.reviews = r.reviews
          /\ x.go = r.go
      <3> 0 \in 0 .. MaxRetry
        BY BoundsOk
      <3> QED BY <1>1 DEF To, Settle, Records, Statuses
    <2>4. Review(l) = [base |-> r.cand.base, head |-> r.cand.head, verdict |-> "GO", valid |-> TRUE]
      BY <1>4 DEF Review
    <2> HIDE DEF x
    <2>5. Fine(l, x)
      BY <1>1, <2>2, <2>3, <2>4 DEF Fine, RecordOk, Reviewed, Reviewing
    <2> QED BY <1>2, <2>1, <2>5, Finishing
  <1>5. CASE sup.same /\ sup.verdict # "GO"
    BY <1>1, <1>2, <1>5, RepairFine, Finishing DEF Verdict
  <1> QED BY <1>3, <1>4, <1>5

--------------------------------------------------------------------------------
(* The steps that write a worktree or GitHub.                                    *)

(* Only the worktree of l changes, to one whose head contains the design.        *)
LEMMA TreeOk ==
  ASSUME GitPart, NEW l \in Lanes,
         NEW t \in [head : Commits, dirty : 0 .. MaxCommits] \cup {None, Gone},
         t \notin {None, Gone} => Landed(l, t.head.base) /\ t.head.base <= main,
         tree' = [tree EXCEPT ![l] = t], fresh' \in 0 .. MaxCommits, UNCHANGED <<main, hub>>
  PROVE  GitPart' /\ Grow
  <1>1. Grow
    BY DEF Grow, GitPart, Bases
  <1>2. /\ tree' \in [Lanes -> [head : Commits, dirty : 0 .. MaxCommits] \cup {None, Gone}]
        /\ tree'[l] = t /\ \A k \in Lanes : k # l => tree'[k] = tree[k]
    BY DEF GitPart
  <1>3. (\A k \in Lanes : Present(k) => Landed(k, HeadOf(k).base) /\ HeadOf(k).base <= main)'
    BY <1>2 DEF GitPart, GitOk, Present, HeadOf, Landed
  <1>4. (GitOk /\ OnePullRequest)'
    BY <1>3 DEF GitPart, GitOk, OnePullRequest
  <1> QED BY <1>1, <1>2, <1>4 DEF GitPart

(* Committing what is uncommitted changes the head, not the base it contains.    *)
LEMMA CheckpointOk ==
  ASSUME GitPart, NEW l \in Lanes, Present(l)
  PROVE  /\ Checkpointed(l) \in Commits /\ Checkpointed(l).base = HeadOf(l).base
         /\ Checkpoint(l) /\ UNCHANGED <<main, hub, fresh>> => GitPart' /\ Grow
  <1> DEFINE t == [head |-> Checkpointed(l), dirty |-> 0]
  <1>1. tree[l] \in [head : Commits, dirty : 0 .. MaxCommits]
    BY DEF GitPart, Present
  <1>2. Checkpointed(l) \in Commits /\ Checkpointed(l).base = HeadOf(l).base
    BY <1>1 DEF Checkpointed, HeadOf, Commits
  <1>3. t \in [head : Commits, dirty : 0 .. MaxCommits] \cup {None, Gone} /\ t.head = Checkpointed(l)
    BY <1>2, BoundsOk
  <1>4. Landed(l, HeadOf(l).base) /\ HeadOf(l).base <= main /\ fresh \in 0 .. MaxCommits
    BY DEF GitPart, GitOk
  <1>5. ASSUME Checkpoint(l), UNCHANGED <<main, hub, fresh>> PROVE GitPart' /\ Grow
    <2>1. tree' = [tree EXCEPT ![l] = t] /\ fresh' \in 0 .. MaxCommits /\ UNCHANGED <<main, hub>>
      BY <1>4, <1>5 DEF Checkpoint
    <2>2. Landed(l, t.head.base) /\ t.head.base <= main
      BY <1>2, <1>3, <1>4
    <2> HIDE DEF t
    <2> QED BY <1>3, <2>1, <2>2, TreeOk
  <1> QED BY <1>2, <1>5

LEMMA AddWorktreeOk ==
  ASSUME IInv, NEW l \in Lanes, AddWorktree(l)
  PROVE  IInv'
  <1> DEFINE t == IF tree[l] = None
                  THEN [head |-> [n |-> 0, base |-> mem[l].base], dirty |-> 0] ELSE tree[l]
  <1>0. GitPart /\ LoopPart /\ CliPart
    BY Parts
  <1>1. /\ mem[l] \in Records /\ RecordOk(l, mem[l]) /\ mem[l] # None
        /\ StatusAt("setup", mem[l])
    BY <1>0, TakenIsFine DEF AddWorktree, Fine, StatusAt
  <1>2. mem[l].base \in Bases /\ mem[l].base <= main /\ Landed(l, mem[l].base)
    BY <1>1 DEF RecordOk, Records, StatusAt
  <1>3. t \in [head : Commits, dirty : 0 .. MaxCommits] \cup {None, Gone}
    <2>1. [n |-> 0, base |-> mem[l].base] \in Commits /\ 0 \in 0 .. MaxCommits
      BY <1>2, BoundsOk DEF Commits
    <2> QED BY <1>0, <2>1 DEF GitPart
  <1>4. t \notin {None, Gone} => Landed(l, t.head.base) /\ t.head.base <= main
    <2>1. CASE tree[l] = None
      BY <1>2, <2>1
    <2>2. CASE tree[l] # None
      BY <1>0, <2>2 DEF GitPart, GitOk, Present, HeadOf
    <2> QED BY <2>1, <2>2
  <1>5. tree' = [tree EXCEPT ![l] = t] /\ fresh' \in 0 .. MaxCommits /\ UNCHANGED <<main, hub>>
    BY <1>0 DEF AddWorktree, GitPart
  <1> HIDE DEF t
  <1>6. GitPart' /\ Grow
    BY <1>0, <1>3, <1>4, <1>5, TreeOk
  <1>7. PICK s \in SupType : s = At("setup", l) /\ s.lane = l /\ s.at = "setup" /\ Fits(s, mem[l])
    BY <1>1, AtFits DEF Points
  <1>8. /\ s.at \in Points \ {"opened", "recorded"} /\ sup' = s
        /\ UNCHANGED <<mem, todo, progress>> /\ disk' = mem
    BY <1>7 DEF AddWorktree, Stay, Points
  <1>9. LoopPart'
    BY <1>0, <1>1, <1>6, <1>7, <1>8, MoveOk
  <1>10. CliPart'
    BY <1>0, <1>6, GrowCli DEF AddWorktree, CliPart
  <1> QED BY <1>6, <1>9, <1>10, Parts

LEMMA FrozenFine ==
  ASSUME IInv, NEW l \in Lanes, Fine(l, mem[l]), mem[l].status = "FREEZING",
         Present(l), Freezable(l)
  PROVE  /\ Fine(l, Frozen(l)) /\ Frozen(l).status = "FREEZING" /\ Frozen(l).cand # None
         /\ Fine(l, [Frozen(l) EXCEPT !.status = "HOLD_UNKNOWN"])
  <1> DEFINE r == mem[l]
             c == [base |-> r.base, head |-> Checkpointed(l)]
             X(status) == [r EXCEPT !.cand = c, !.status = status]
  <1>1. GitPart /\ r \in Records /\ RecordOk(l, r)
    BY Parts DEF Fine
  <1>2. c \in Candidates /\ c # None /\ Bound(c)
    BY <1>1, CheckpointOk, NothingOk DEF Candidates, Bound, Freezable, Records
  <1>3. ASSUME NEW status \in {"FREEZING", "HOLD_UNKNOWN"} PROVE Fine(l, X(status))
    <2>1. /\ X(status) \in Records /\ X(status).status = status /\ X(status).cand = c
          /\ X(status).base = r.base /\ X(status).wt = r.wt /\ X(status).pr = r.pr
          /\ X(status).attempt = r.attempt /\ X(status).prov = r.prov
      BY <1>1, <1>2 DEF Records, Statuses, Boundaries, Holds
    <2> HIDE DEF X, c
    <2> QED BY <1>1, <1>2, <2>1 DEF Fine, RecordOk, Reviewed, Reviewing, Holds
  <1>4. Frozen(l) = X("FREEZING") /\ [Frozen(l) EXCEPT !.status = "HOLD_UNKNOWN"] = X("HOLD_UNKNOWN")
    BY <1>1 DEF Frozen, Records
  <1>5. Frozen(l).status = "FREEZING" /\ Frozen(l).cand # None
    BY <1>1, <1>2 DEF Frozen, Records
  <1> QED BY <1>3, <1>4, <1>5

LEMMA RejectOk ==
  ASSUME IInv, NEW l \in Lanes, RejectCandidate(l) \/ PushRefused(l)
  PROVE  IInv'
  <1>0. GitPart /\ LoopPart /\ CliPart
    BY Parts
  <1>1. Fine(l, mem[l]) /\ mem[l].status = "FREEZING" /\ Present(l)
    BY <1>0, TakenIsFine DEF RejectCandidate, PushRefused
  <1>2. GitPart' /\ Grow
    BY <1>0, <1>1, CheckpointOk DEF RejectCandidate, PushRefused
  <1>3. LoopPart'
    <2>1. CASE RejectCandidate(l)
      <3>1. Fine(l, Repair(mem[l], "actor")) /\ Finish(l, Repair(mem[l], "actor"))
        BY <1>1, <2>1, RepairFine DEF RejectCandidate
      <3> QED BY <1>0, <1>2, <3>1, FinishOk
    <2>2. CASE PushRefused(l)
      <3>1. /\ Fine(l, [Frozen(l) EXCEPT !.status = "HOLD_UNKNOWN"])
            /\ Finish(l, [Frozen(l) EXCEPT !.status = "HOLD_UNKNOWN"])
        BY <1>1, <2>2, FrozenFine DEF PushRefused
      <3> QED BY <1>0, <1>2, <3>1, FinishOk
    <2> QED BY <2>1, <2>2
  <1>4. CliPart'
    BY <1>0, <1>2, GrowCli DEF RejectCandidate, PushRefused, CliPart
  <1> QED BY <1>2, <1>3, <1>4, Parts

(* GitHub changes for one branch, and shows no less than before.                 *)
LEMMA HubOk ==
  ASSUME GitPart, NEW b \in Branches,
         NEW h \in [head : Commits \cup {None}, pr : {"none", "open", "closed", "merged"},
                    made : Nat, landed : 0 .. Elsewhere],
         hub' = [hub EXCEPT ![b] = h], h.made <= 1, h.pr = "none" => h.made = 0,
         hub[b].pr # "none" => h.pr # "none",
         hub[b].pr = "merged" => h.pr = "merged" /\ h.landed = hub[b].landed,
         main' \in Bases, main <= main', UNCHANGED tree, fresh' \in 0 .. MaxCommits
  PROVE  GitPart' /\ Grow
  <1>1. /\ hub'[b] = h /\ \A k \in Branches : k # b => hub'[k] = hub[k]
        /\ hub' \in [Branches -> [head : Commits \cup {None},
                             pr : {"none", "open", "closed", "merged"},
                             made : Nat, landed : 0 .. Elsewhere]]
    BY DEF GitPart
  <1>2. Grow
    BY <1>1 DEF Grow
  <1>3. \A l \in Lanes, base \in Bases : Landed(l, base) => Landed(l, base)'
    BY <1>2, LanesOk DEF Landed, Grow
  <1>4. \A l \in Lanes : Present(l)' => Landed(l, HeadOf(l).base)' /\ HeadOf(l).base <= main'
    <2> SUFFICES ASSUME NEW l \in Lanes, Present(l)'
                 PROVE  Landed(l, HeadOf(l).base)' /\ HeadOf(l).base <= main'
      OBVIOUS
    <2>1. Present(l) /\ HeadOf(l)' = HeadOf(l)
      BY DEF Present, HeadOf
    <2>2. HeadOf(l).base \in Bases /\ Landed(l, HeadOf(l).base) /\ HeadOf(l).base <= main
      BY <2>1 DEF GitPart, GitOk, Present, HeadOf, Commits
    <2>3. main \in Int /\ main' \in Int /\ HeadOf(l).base \in Int
      BY <2>2, BoundsOk DEF Bases, GitPart
    <2> QED BY <1>3, <2>1, <2>2, <2>3 DEF Landed
  <1>5. (\A k \in Branches : hub[k].pr = "none" => hub[k].made = 0)' /\ OnePullRequest'
    BY <1>1 DEF GitPart, GitOk, OnePullRequest
  <1>6. GitOk'
    <2>1. \A l \in Lanes : HeadOf(l)' = HeadOf(l)
      BY DEF HeadOf
    <2> QED BY <1>4, <1>5, <2>1 DEF GitOk
  <1> QED BY <1>1, <1>2, <1>5, <1>6 DEF GitPart

(* A push moves the head that GitHub shows, and nothing else.                    *)
LEMMA PushOk ==
  ASSUME IInv, NEW l \in Lanes, PushCandidate(l)
  PROVE  IInv'
  <1> DEFINE t == [head |-> Checkpointed(l), dirty |-> 0]
  <1>0. GitPart /\ LoopPart /\ CliPart
    BY Parts
  <1>1. /\ Fine(l, mem[l]) /\ mem[l].status = "FREEZING" /\ Present(l) /\ Freezable(l)
        /\ mem[l] # None
    BY <1>0, TakenIsFine DEF PushCandidate
  <1>2. PICK x : x = Frozen(l) /\ Fine(l, x) /\ x.status = "FREEZING" /\ x.cand # None
    BY <1>1, FrozenFine
  <1>3. /\ hub' \in [Branches -> [head : Commits \cup {None},
                             pr : {"none", "open", "closed", "merged"},
                             made : Nat, landed : 0 .. Elsewhere]]
        /\ \A b \in Branches : /\ hub'[b].pr = hub[b].pr /\ hub'[b].made = hub[b].made
                               /\ hub'[b].landed = hub[b].landed
    BY <1>0, <1>1, CheckpointOk, LanesOk DEF PushCandidate, GitPart
  <1>4. Grow /\ main' = main /\ fresh' = fresh /\ tree' = [tree EXCEPT ![l] = t]
    BY <1>0, <1>3 DEF Grow, GitPart, Bases, PushCandidate, Checkpoint
  <1>5. \A k \in Lanes, base \in Bases : Landed(k, base) => Landed(k, base)'
    BY <1>3, LanesOk DEF Landed
  <1>6. /\ t \in [head : Commits, dirty : 0 .. MaxCommits]
        /\ Landed(l, t.head.base) /\ t.head.base <= main /\ t.head.base \in Bases
    <2>1. Checkpointed(l) \in Commits /\ Checkpointed(l).base = HeadOf(l).base
      BY <1>0, <1>1, CheckpointOk
    <2>2. t.head = Checkpointed(l) /\ 0 \in 0 .. MaxCommits
      BY BoundsOk
    <2>3. Landed(l, HeadOf(l).base) /\ HeadOf(l).base <= main
      BY <1>0, <1>1 DEF GitPart, GitOk
    <2>4. Checkpointed(l).base \in Bases
      BY <2>1 DEF Commits
    <2> QED BY <2>1, <2>2, <2>3, <2>4
  <1> HIDE DEF t
  <1>7. /\ tree' \in [Lanes -> [head : Commits, dirty : 0 .. MaxCommits] \cup {None, Gone}]
        /\ tree'[l] = t /\ \A k \in Lanes : k # l => tree'[k] = tree[k]
    BY <1>0, <1>4, <1>6 DEF GitPart
  <1>8. GitOk'
    <2>1. ASSUME NEW k \in Lanes, NEW u, u = tree'[k], u \notin {None, Gone}
          PROVE  Landed(k, u.head.base)' /\ u.head.base <= main'
      <3>1. CASE k = l
        BY <1>4, <1>5, <1>6, <1>7, <2>1, <3>1
      <3>2. CASE k # l
        <4>1. u = tree[k] /\ Present(k) /\ u.head.base \in Bases
          BY <1>0, <1>7, <2>1, <3>2 DEF Present, GitPart, Commits
        <4>2. Landed(k, u.head.base) /\ u.head.base <= main
          BY <1>0, <4>1 DEF GitPart, GitOk, HeadOf
        <4> QED BY <1>4, <1>5, <4>1, <4>2
      <3> QED BY <3>1, <3>2
    <2>2. (\A b \in Branches : hub[b].pr = "none" => hub[b].made = 0)'
      BY <1>0, <1>3 DEF GitPart, GitOk
    <2> QED BY <2>1, <2>2 DEF GitOk, Present, HeadOf
  <1>9. GitPart'
    BY <1>0, <1>3, <1>4, <1>7, <1>8 DEF GitPart, OnePullRequest
  <1>10. mem' \in Registries /\ mem'[l] = x /\ \A k \in Lanes : k # l => mem'[k] = mem[k]
    BY <1>0, <1>2 DEF PushCandidate, LoopPart, Registries, Fine
  <1>11. x # None /\ RecordOk(l, x)'
    BY <1>0, <1>2, <1>4, GrowRecord, NothingOk DEF Fine
  <1>12. (RegistryOk(mem))'
    <2>1. ASSUME NEW k \in Lanes, NEW s, s = mem'[k], s # None PROVE RecordOk(k, s)'
      <3>1. CASE k = l
        BY <1>10, <1>11, <2>1, <3>1
      <3>2. CASE k # l
        <4>1. s = mem[k] /\ s \in Records /\ RecordOk(k, s)
          BY <1>0, <1>10, <2>1, <3>2, MineIsFine DEF Fine
        <4> QED BY <1>0, <1>4, <4>1, GrowRecord
      <3> QED BY <3>1, <3>2
    <2> QED BY <2>1 DEF RegistryOk
  <1>13. disk' = disk /\ (RegistryOk(disk))'
    BY <1>0, <1>4, GrowRegistry DEF RegistryOk, LoopPart, PushCandidate
  <1>14. PICK s \in SupType : s = At("publish", l) /\ s.lane = l /\ s.at = "publish" /\ Fits(s, x)
    BY <1>2, AtFits DEF Points, StatusAt
  <1>15. sup' = s /\ UNCHANGED <<todo, progress>>
    BY <1>14 DEF PushCandidate, Stay
  <1>16. s.next # "judge"
    BY <1>14, NothingOk DEF At, Off
  <1>17. SupOk'
    <2>1. \A k \in todo' : mem'[k] # None
      BY <1>0, <1>10, <1>11, <1>15 DEF LoopPart, SupOk
    <2> QED BY <1>2, <1>10, <1>11, <1>14, <1>15, <1>16, <2>1, NothingOk DEF SupOk, StatusAt, Points
  <1>18. LoopPart'
    BY <1>0, <1>10, <1>12, <1>13, <1>15, <1>17 DEF LoopPart
  <1>19. CliPart'
    BY <1>0, <1>4, GrowCli DEF PushCandidate, CliPart
  <1> QED BY <1>9, <1>18, <1>19, Parts

LEMMA CreatePrOk ==
  ASSUME IInv, NEW l \in Lanes, CreatePr(l)
  PROVE  IInv'
  <1>0. GitPart /\ LoopPart /\ CliPart
    BY Parts
  <1>1. l \in Branches /\ hub[l].pr = "none" /\ hub[l].made = 0
    BY <1>0, LanesOk DEF CreatePr, PrOf, GitPart, GitOk
  <1>2. PICK h : h = [hub[l] EXCEPT !.pr = "open", !.made = 1]
    OBVIOUS
  <1>3. /\ h \in [head : Commits \cup {None}, pr : {"none", "open", "closed", "merged"},
                    made : Nat, landed : 0 .. Elsewhere]
        /\ h.made = 1 /\ h.pr = "open"
    BY <1>0, <1>1, <1>2 DEF GitPart
  <1>4. /\ hub' = [hub EXCEPT ![l] = h] /\ UNCHANGED <<main, tree, fresh>>
        /\ main' \in Bases /\ main <= main' /\ fresh' \in 0 .. MaxCommits
    BY <1>0, <1>1, <1>2 DEF CreatePr, GitPart, Bases
  <1>5. hub'[l].pr = "open" /\ h.made <= 1 /\ h.pr # "none" /\ hub[l].pr # "merged"
    BY <1>0, <1>1, <1>3, <1>4 DEF GitPart
  <1>6. GitPart' /\ Grow
    BY <1>0, <1>1, <1>3, <1>4, <1>5, HubOk
  <1>7. /\ sup' = At("opened", l) /\ UNCHANGED <<mem, disk, todo, progress>>
        /\ mem[l] # None /\ StatusAt("opened", mem[l])
    BY <1>0, WithinIsFine DEF CreatePr, Stay, registry, Within, LoopPart, SupOk, StatusAt, Points
  <1>8. PICK s \in SupType : s = At("opened", l) /\ s.lane = l /\ s.at = "opened" /\ Fits(s, mem[l])
    BY <1>7, AtFits DEF Points
  <1>9. s.next # "judge"
    BY <1>8, NothingOk DEF At, Off
  <1>10. SupOk'
    BY <1>0, <1>5, <1>7, <1>8, <1>9, NothingOk DEF LoopPart, SupOk, StatusAt, Points, PrOf
  <1>11. (RegistryOk(mem) /\ RegistryOk(disk))'
    BY <1>0, <1>6, <1>7, GrowRegistry DEF RegistryOk, LoopPart
  <1>12. LoopPart'
    BY <1>0, <1>7, <1>8, <1>10, <1>11 DEF LoopPart
  <1>13. CliPart'
    BY <1>0, <1>6, GrowCli DEF CreatePr, CliPart
  <1> QED BY <1>6, <1>12, <1>13, Parts

LEMMA StepOk ==
  ASSUME IInv, NEW l \in Lanes, Step(l)
  PROVE  IInv'
  BY PlainOk, EnterSetupOk, AddWorktreeOk, RecordWorktreeOk, StartRepairOk, ActorOk,
     RejectOk, PushOk, CreatePrOk, FreezeOk, ReadPrOk, ReadBaseOk, ReviewOk,
     RecordReviewOk, JudgeOk, WaitOk DEF Step

--------------------------------------------------------------------------------
(* GitHub and the worktrees, as others change them.                              *)

LEMMA StillOk ==
  ASSUME IInv, GitPart', Grow, UNCHANGED <<registry, loop, cli, whole>>
  PROVE  IInv'
  <1>0. GitPart /\ LoopPart /\ CliPart
    BY Parts
  <1>1. UNCHANGED <<disk, mem, sup, todo, progress, cli, whole>>
    BY DEF registry, loop
  <1>2. PrOf(sup.lane) /\ sup.lane \in Lanes => PrOf(sup.lane)'
    BY <1>1, LanesOk DEF PrOf, Grow
  <1>3. SupOk'
    BY <1>0, <1>1, <1>2 DEF LoopPart, SupOk, SupType, Review, StatusAt
  <1>4. (RegistryOk(mem) /\ RegistryOk(disk))'
    BY <1>0, <1>1, GrowRegistry DEF RegistryOk, LoopPart
  <1>5. LoopPart'
    BY <1>0, <1>1, <1>3, <1>4 DEF LoopPart
  <1>6. CliPart'
    BY <1>0, <1>1, GrowCli DEF CliPart
  <1> QED BY <1>5, <1>6, Parts

LEMMA OutsideOk ==
  ASSUME IInv, Outside
  PROVE  IInv'
  <1>0. GitPart
    BY Parts
  <1>1. main \in Bases /\ fresh \in 0 .. MaxCommits
    BY <1>0 DEF GitPart
  <1>2. CASE OthersAdvanceBase
    <2>1. main' \in Bases /\ main <= main' /\ UNCHANGED <<hub, tree, fresh>>
      BY <1>1, <1>2, BoundsOk DEF OthersAdvanceBase, Bases
    <2>2. Grow
      BY <2>1 DEF Grow
    <2>3. GitOk'
      <3>1. \A l \in Lanes : /\ Present(l)' <=> Present(l) /\ HeadOf(l)' = HeadOf(l)
                             /\ Landed(l, HeadOf(l).base)' <=> Landed(l, HeadOf(l).base)
        BY <2>1 DEF Present, HeadOf, Landed
      <3>2. \A l \in Lanes : Present(l) => HeadOf(l).base \in Bases /\ HeadOf(l).base <= main'
        BY <1>0, <1>1, <2>1, BoundsOk DEF GitPart, GitOk, Present, HeadOf, Commits, Bases
      <3> QED BY <1>0, <2>1, <3>1, <3>2 DEF GitPart, GitOk
    <2>4. GitPart'
      BY <1>0, <2>1, <2>3 DEF GitPart, OnePullRequest
    <2> QED BY <1>2, <2>2, <2>4, StillOk DEF OthersAdvanceBase
  <1>3. ASSUME NEW b \in Branches, Merge(b) PROVE IInv'
    <2>1. PICK where \in 0 .. Elsewhere :
            hub' = [hub EXCEPT ![b].pr = "merged", ![b].landed = where]
      <3>1. Elsewhere \in 0 .. Elsewhere /\ main + 1 \in 0 .. Elsewhere
        BY <1>1, BoundsOk DEF Bases, Elsewhere
      <3> QED BY <1>3, <3>1 DEF Merge
    <2>2. main' \in Bases /\ main <= main' /\ UNCHANGED <<tree, fresh>>
      BY <1>1, <1>3, BoundsOk DEF Merge, Bases
    <2>3. PICK h : h = [hub[b] EXCEPT !.pr = "merged", !.landed = where]
      OBVIOUS
    <2>4. /\ h \in [head : Commits \cup {None}, pr : {"none", "open", "closed", "merged"},
                    made : Nat, landed : 0 .. Elsewhere]
          /\ h.pr = "merged" /\ h.made = hub[b].made
          /\ hub' = [hub EXCEPT ![b] = h]
      BY <1>0, <2>1, <2>3 DEF GitPart
    <2>5. h.made <= 1 /\ hub[b].pr = "open" /\ fresh' \in 0 .. MaxCommits
      BY <1>0, <1>1, <1>3, <2>2, <2>4 DEF GitPart, OnePullRequest, Merge
    <2>6. GitPart' /\ Grow
      BY <1>0, <2>2, <2>4, <2>5, HubOk
    <2> QED BY <1>3, <2>6, StillOk DEF Merge
  <1>4. ASSUME NEW b \in Branches, ClosePr(b) PROVE IInv'
    <2>1. PICK h : h = [hub[b] EXCEPT !.pr = "closed"]
      OBVIOUS
    <2>2. /\ h \in [head : Commits \cup {None}, pr : {"none", "open", "closed", "merged"},
                    made : Nat, landed : 0 .. Elsewhere]
          /\ h.pr = "closed" /\ h.made = hub[b].made /\ hub[b].pr = "open"
      BY <1>0, <1>4, <2>1 DEF GitPart, ClosePr
    <2>3. /\ hub' = [hub EXCEPT ![b] = h] /\ UNCHANGED <<main, tree, fresh>> /\ main' \in Bases
          /\ main <= main' /\ h.made <= 1 /\ fresh' \in 0 .. MaxCommits
      BY <1>0, <1>1, <1>4, <2>1, <2>2 DEF ClosePr, GitPart, OnePullRequest, Bases
    <2>4. GitPart' /\ Grow
      BY <1>0, <2>2, <2>3, HubOk
    <2> QED BY <1>4, <2>4, StillOk DEF ClosePr
  <1>5. ASSUME NEW l \in Lanes, ForeignPush(l) PROVE IInv'
    <2>1. PICK h : h = [hub[l] EXCEPT !.head = [n |-> fresh + 1, base |-> main]]
      OBVIOUS
    <2>2. fresh + 1 \in 0 .. MaxCommits /\ l \in Branches
      BY <1>1, <1>5, BoundsOk, LanesOk DEF ForeignPush
    <2>3. /\ h \in [head : Commits \cup {None}, pr : {"none", "open", "closed", "merged"},
                    made : Nat, landed : 0 .. Elsewhere]
          /\ h.pr = hub[l].pr /\ h.made = hub[l].made /\ h.landed = hub[l].landed
      BY <1>0, <1>1, <2>1, <2>2 DEF GitPart, Commits
    <2>4. /\ hub' = [hub EXCEPT ![l] = h] /\ UNCHANGED <<main, tree>> /\ main' \in Bases
          /\ main <= main' /\ fresh' \in 0 .. MaxCommits
      BY <1>0, <1>1, <1>5, <2>1, <2>2 DEF ForeignPush, GitPart, Bases
    <2>5. h.made <= 1 /\ (h.pr = "none" => h.made = 0)
      BY <1>0, <2>2, <2>3 DEF GitPart, GitOk, OnePullRequest
    <2>6. GitPart' /\ Grow
      BY <1>0, <2>2, <2>3, <2>4, <2>5, HubOk
    <2> QED BY <1>5, <2>6, StillOk DEF ForeignPush
  <1>6. ASSUME NEW l \in Lanes, WriteTree(l) PROVE IInv'
    <2>1. /\ tree[l] \in [head : Commits, dirty : 0 .. MaxCommits] /\ tree[l] \notin {None, Gone}
          /\ fresh + 1 \in 0 .. MaxCommits /\ fresh' = fresh + 1 /\ UNCHANGED <<main, hub>>
          /\ Landed(l, HeadOf(l).base) /\ HeadOf(l).base <= main
      BY <1>0, <1>1, <1>6, BoundsOk DEF WriteTree, Present, GitPart, GitOk
    <2>2. CASE \E base \in HeadOf(l).base .. main :
                  tree' = [tree EXCEPT ![l].head = [n |-> fresh + 1, base |-> base]]
      <3>1. PICK base \in HeadOf(l).base .. main :
                  tree' = [tree EXCEPT ![l].head = [n |-> fresh + 1, base |-> base]]
        BY <2>2
      <3>2. HeadOf(l).base \in Bases
        BY <2>1 DEF HeadOf, Commits
      <3>3. base \in Bases /\ base <= main /\ HeadOf(l).base <= base
        BY <1>1, <3>1, <3>2, BoundsOk DEF Bases
      <3>4. Landed(l, base)
        <4> SUFFICES ASSUME DependsOn[l] # None
                     PROVE  hub[DependsOn[l]].pr = "merged" /\ hub[DependsOn[l]].landed <= base
          BY DEF Landed
        <4>1. hub[DependsOn[l]].landed \in Int
          BY <1>0, LanesOk, BoundsOk DEF GitPart, Elsewhere
        <4> QED BY <2>1, <3>2, <3>3, <4>1, BoundsOk DEF Landed, Bases
      <3>5. PICK t : t = [tree[l] EXCEPT !.head = [n |-> fresh + 1, base |-> base]]
        OBVIOUS
      <3>6. /\ t \in [head : Commits, dirty : 0 .. MaxCommits] /\ t.head.base = base
            /\ tree' = [tree EXCEPT ![l] = t]
        BY <1>0, <2>1, <3>1, <3>3, <3>5 DEF Commits, GitPart
      <3>7. GitPart' /\ Grow
        BY <1>0, <2>1, <3>3, <3>4, <3>6, TreeOk
      <3> QED BY <1>6, <3>7, StillOk DEF WriteTree
    <2>3. CASE tree' = [tree EXCEPT ![l].dirty = fresh + 1]
      <3>1. PICK t : t = [tree[l] EXCEPT !.dirty = fresh + 1]
        OBVIOUS
      <3>2. /\ t \in [head : Commits, dirty : 0 .. MaxCommits] /\ t.head = tree[l].head
            /\ tree' = [tree EXCEPT ![l] = t]
        BY <1>0, <2>1, <2>3, <3>1 DEF GitPart
      <3>3. GitPart' /\ Grow
        BY <1>0, <2>1, <3>2, TreeOk DEF HeadOf
      <3> QED BY <1>6, <3>3, StillOk DEF WriteTree
    <2> QED BY <1>6, <2>2, <2>3 DEF WriteTree
  <1>7. ASSUME NEW l \in Lanes, LoseTree(l) PROVE IInv'
    <2>1. tree' = [tree EXCEPT ![l] = Gone] /\ UNCHANGED <<main, hub>> /\ fresh' \in 0 .. MaxCommits
      BY <1>1, <1>7 DEF LoseTree
    <2>2. GitPart' /\ Grow
      BY <1>0, <2>1, TreeOk
    <2> QED BY <1>7, <2>2, StillOk DEF LoseTree
  <1> QED BY <1>2, <1>3, <1>4, <1>5, <1>6, <1>7 DEF Outside

--------------------------------------------------------------------------------
(* Starting, ending, and the commands.                                           *)

(* Whatever a restart makes of a lane, the record stays fine.                    *)
LEMMA AfterRestartFine ==
  ASSUME NEW l \in Lanes, Fine(l, mem[l])
  PROVE  Fine(l, AfterRestart(l))
  <1> DEFINE r == mem[l]
  <1>1. r \in Records /\ RecordOk(l, r) /\ 0 \in 0 .. MaxRetry
    BY BoundsOk DEF Fine
  <1>2. Fine(l, To(r, "ACTOR_INTERRUPTED"))
    <2> "ACTOR_INTERRUPTED" \in Statuses /\ "ACTOR_INTERRUPTED" \in Free
      BY DEF Free, Statuses, Reviewing, Acting
    <2> QED BY <1>1, ToFine
  <1>3. ASSUME r.status = "REVIEW_RUNNING" PROVE Fine(l, To(r, "REVIEW_INTERRUPTED"))
    <2>1. PICK x : x = To(r, "REVIEW_INTERRUPTED")
      OBVIOUS
    <2>2. /\ x \in Records /\ x.status = "REVIEW_INTERRUPTED" /\ x.prov = None /\ x.wt = r.wt
          /\ x.base = r.base /\ x.cand = r.cand /\ x.pr = r.pr
      BY <1>1, <2>1 DEF To, Records, Statuses, Reviewing
    <2>3. Fine(l, x)
      BY <1>1, <1>3, <2>2 DEF Fine, RecordOk, Reviewed, Reviewing
    <2> QED BY <2>1, <2>3
  <1>4. Fine(l, Hold(r, "HOLD_CAPACITY", None))
    BY HoldFine DEF Holds
  <1>5. Fine(l, To(r, "MERGED"))
    BY FreeFine
  <1> QED BY <1>2, <1>3, <1>4, <1>5 DEF AfterRestart

LEMMA ReconcileOk ==
  ASSUME IInv, NEW l \in Lanes, Reconcile(l)
  PROVE  IInv'
  <1>0. GitPart /\ LoopPart /\ CliPart
    BY Parts
  <1>1. UNCHANGED <<git, sup, progress, cli, whole>> /\ todo' = todo \ {l} /\ sup.at = "reconcile"
    BY DEF Reconcile
  <1>2. GitPart' /\ Grow
    BY <1>0, <1>1, Quiet
  <1>3. CliPart'
    BY <1>0, <1>1, <1>2, GrowCli DEF CliPart
  <1>4. CASE UNCHANGED registry
    <2>1. (RegistryOk(mem) /\ RegistryOk(disk))'
      BY <1>0, <1>2, <1>4, GrowRegistry DEF RegistryOk, LoopPart, registry
    <2>2. LoopPart'
      BY <1>0, <1>1, <1>4, <2>1 DEF LoopPart, registry, SupOk, Points
    <2> QED BY <1>2, <1>3, <2>2, Parts
  <1>5. CASE Keep(l, AfterRestart(l))
    <2>1. PICK x : x = AfterRestart(l)
      OBVIOUS
    <2>2. Fine(l, x)
      BY <1>0, <2>1, MineIsFine, AfterRestartFine DEF Reconcile, LoopPart, SupOk
    <2>3. /\ (mem \in Registries /\ disk \in Registries)' /\ (RegistryOk(mem) /\ RegistryOk(disk))'
          /\ \A k \in Lanes : mem[k] # None => mem'[k] # None
      BY <1>0, <1>2, <1>5, <2>1, <2>2, KeepOk
    <2>4. LoopPart'
      BY <1>0, <1>1, <2>3 DEF LoopPart, SupOk, Points
    <2> QED BY <1>2, <1>3, <2>4, Parts
  <1> QED BY <1>4, <1>5 DEF Reconcile

LEMMA AdmitOk ==
  ASSUME IInv, NEW l \in Lanes, Admit(l)
  PROVE  IInv'
  <1>0. GitPart /\ LoopPart /\ CliPart
    BY Parts
  <1>1. UNCHANGED <<git, loop, cli, whole>> /\ Keep(l, NewLane) /\ sup.at = "reconcile"
    BY DEF Admit
  <1>2. GitPart' /\ Grow
    BY <1>0, <1>1, Quiet
  <1>3. CliPart'
    BY <1>0, <1>1, <1>2, GrowCli DEF CliPart
  <1>4. PICK x : x = NewLane
    OBVIOUS
  <1>5. x \in Records /\ x.base = main /\ x.cand = None /\ ~x.wt /\ ~x.pr /\ x.prov = None
        /\ x.status = "PENDING"
    BY <1>0, <1>4, BoundsOk DEF NewLane, Records, Statuses, GitPart
  <1>6. Fine(l, x)
    BY <1>0, <1>5 DEF Fine, RecordOk, Reviewed, Reviewing, GitPart, Bases
  <1>7. /\ (mem \in Registries /\ disk \in Registries)' /\ (RegistryOk(mem) /\ RegistryOk(disk))'
        /\ \A k \in Lanes : mem[k] # None => mem'[k] # None
    BY <1>0, <1>1, <1>2, <1>4, <1>6, KeepOk
  <1>8. LoopPart'
    BY <1>0, <1>1, <1>7 DEF LoopPart, SupOk, Points, loop
  <1> QED BY <1>2, <1>3, <1>8, Parts

(* Between lanes, the supervisor promises nothing but the registry.              *)
LEMMA LoopOk ==
  ASSUME IInv, Start \/ Round \/ Rest \/ StepBound \/ Crash
  PROVE  IInv'
  <1>0. GitPart /\ LoopPart /\ CliPart
    BY Parts
  <1>1. UNCHANGED <<git, cli, whole, disk>> /\ mem' \in {mem, disk, NoLanes}
    BY DEF Start, Round, Rest, StepBound, Crash, End, registry
  <1>2. GitPart' /\ Grow
    BY <1>0, <1>1, Quiet
  <1>3. CliPart'
    BY <1>0, <1>1, <1>2, GrowCli DEF CliPart
  <1>4. /\ sup' \in SupType /\ sup'.at \notin Points /\ sup'.lane = None
        /\ todo' \subseteq Lanes /\ progress' \in BOOLEAN
    <2>1. ASSUME NEW s, s \in {Off, At("reconcile", None), At("between", None)}
          PROVE  s \in SupType /\ s.at \notin Points /\ s.lane = None
      <3>1. Off \in SupType /\ Off.at = "off" /\ Off.lane = None
        BY DEF Off, SupType
      <3>2. \A point \in {"reconcile", "between"} :
              At(point, None) \in SupType /\ At(point, None).at = point /\ At(point, None).lane = None
        BY <3>1 DEF At, SupType
      <3> QED BY <2>1, <3>1, <3>2 DEF Points
    <2>2. /\ sup' \in {Off, At("reconcile", None), At("between", None)}
          /\ todo' \subseteq Lanes /\ progress' \in BOOLEAN
      BY DEF Start, Round, Rest, StepBound, Crash, End
    <2> QED BY <2>1, <2>2
  <1>5. \A l \in todo' : mem'[l] # None
    BY DEF Start, Round, Rest, StepBound, Crash, End, registry
  <1>6. NoLanes \in Registries /\ RegistryOk(NoLanes)
    BY DEF NoLanes, Registries, RegistryOk
  <1>7. \A l \in Lanes : mem'[l] # None => RecordOk(l, mem'[l])
    BY <1>0, <1>1, <1>6 DEF LoopPart, RegistryOk
  <1>8. mem' \in Registries /\ (RegistryOk(disk))'
    BY <1>0, <1>1, <1>2, <1>6, GrowRegistry DEF LoopPart, RegistryOk
  <1>9. (RegistryOk(mem))'
    <2>1. ASSUME NEW l \in Lanes, NEW s, s = mem'[l], s # None PROVE RecordOk(l, s)'
      BY <1>0, <1>2, <1>7, <1>8, <2>1, GrowRecord DEF Registries
    <2> QED BY <2>1 DEF RegistryOk
  <1>10. LoopPart'
    BY <1>0, <1>1, <1>4, <1>5, <1>8, <1>9 DEF LoopPart, SupOk
  <1> QED BY <1>2, <1>3, <1>10, Parts

LEMMA CommandOk ==
  ASSUME IInv, CommandReads \/ CommandWrites
  PROVE  IInv'
  <1>0. GitPart /\ LoopPart /\ CliPart
    BY Parts
  <1>1. UNCHANGED <<git, loop, whole, mem>>
    BY DEF CommandReads, CommandWrites, registry
  <1>2. GitPart' /\ Grow
    BY <1>0, <1>1, Quiet
  <1>3. CASE CommandReads
    <2>1. PICK l \in Lanes, name \in {"resume", "hold"} :
            disk[l] # None /\ cli' = [name |-> name, lane |-> l, reg |-> disk] /\ UNCHANGED disk
      BY <1>3 DEF CommandReads, registry
    <2>2. /\ cli' \in [name : {"resume", "hold"}, lane : Lanes, reg : Registries]
          /\ cli'.reg = disk /\ cli'.lane = l
      BY <1>0, <2>1 DEF LoopPart
    <2>3. (RegistryOk(disk) /\ RegistryOk(mem))'
      BY <1>0, <1>1, <1>2, <2>1, GrowRegistry DEF LoopPart, RegistryOk
    <2>4. CliPart'
      BY <1>0, <1>1, <2>1, <2>2, <2>3 DEF CliPart, RegistryOk
    <2>5. LoopPart'
      BY <1>0, <1>1, <2>1, <2>3 DEF LoopPart, SupOk, loop, StatusAt, Review, PrOf, git
    <2> QED BY <1>2, <2>4, <2>5, Parts
  <1>4. CASE CommandWrites
    <2>1. PICK l, reg : l = cli.lane /\ reg = cli.reg
      OBVIOUS
    <2>2. /\ l \in Lanes /\ reg \in Registries /\ RegistryOk(reg) /\ reg[l] # None
      BY <1>0, <1>4, <2>1 DEF CommandWrites, CliPart
    <2>3. Fine(l, reg[l])
      BY <2>2 DEF Fine, RegistryOk, Registries
    <2>4. PICK x : x = Commanded(reg[l])
      OBVIOUS
    <2>5. Fine(l, x)
      <3>1. Fine(l, Resume(reg[l])) /\ Fine(l, Hold(reg[l], "HOLD_CAPACITY", None))
        BY <2>2, <2>3, ResumeFine, HoldFine DEF Holds
      <3> QED BY <2>4, <3>1 DEF Commanded
    <2>6. disk' = [reg EXCEPT ![l] = x] /\ cli' = None
      BY <1>4, <2>1, <2>4 DEF CommandWrites
    <2>7. /\ disk' \in Registries /\ disk'[l] = x
          /\ \A k \in Lanes : k # l => disk'[k] = reg[k]
      BY <2>2, <2>5, <2>6 DEF Registries, Fine
    <2>8. (RegistryOk(disk))'
      <3>1. ASSUME NEW k \in Lanes, NEW s, s = disk'[k], s # None PROVE RecordOk(k, s)'
        <4>1. s \in Records /\ RecordOk(k, s)
          BY <2>2, <2>5, <2>7, <3>1 DEF Fine, RegistryOk, Registries
        <4> QED BY <1>0, <1>2, <4>1, GrowRecord
      <3> QED BY <3>1 DEF RegistryOk
    <2>9. (RegistryOk(mem))'
      BY <1>0, <1>1, <1>2, GrowRegistry DEF LoopPart, RegistryOk
    <2>10. LoopPart'
      BY <1>0, <1>1, <2>7, <2>8, <2>9 DEF LoopPart, SupOk, loop, StatusAt, Review, PrOf, git
    <2>11. CliPart'
      BY <1>0, <1>1, <2>6 DEF CliPart
    <2> QED BY <1>2, <2>10, <2>11, Parts
  <1> QED BY <1>3, <1>4

--------------------------------------------------------------------------------
LEMMA InitOk == Init => IInv
  <1> SUFFICES ASSUME Init PROVE IInv
    OBVIOUS
  <1>1. NoLanes \in Registries /\ RegistryOk(NoLanes)
    BY DEF NoLanes, Registries, RegistryOk
  <1>2. 0 \in 0 .. MaxCommits /\ 1 \in Bases /\ 0 \in 0 .. Elsewhere /\ [n |-> 0, base |-> 1] \in Commits
    BY BoundsOk DEF Bases, Elsewhere, Commits
  <1>3. GitPart
    <2>1. hub \in [Branches -> [head : Commits \cup {None},
                             pr : {"none", "open", "closed", "merged"},
                             made : Nat, landed : 0 .. Elsewhere]]
      BY <1>2 DEF Init
    <2>2. GitOk /\ OnePullRequest
      BY DEF Init, GitOk, OnePullRequest, Present
    <2> QED BY <1>2, <2>1, <2>2 DEF Init, GitPart
  <1>4. LoopPart
    BY <1>1 DEF Init, LoopPart, SupType, SupOk, Off, Points
  <1>5. CliPart
    BY DEF Init, CliPart
  <1> QED BY <1>3, <1>4, <1>5, Parts

LEMMA NextOk == IInv /\ [Next]_vars => IInv'
  <1> SUFFICES ASSUME IInv, [Next]_vars PROVE IInv'
    OBVIOUS
  <1>1. CASE UNCHANGED vars
    <2>1. GitPart' /\ Grow
      BY <1>1, Quiet, Parts DEF vars, git
    <2> QED BY <1>1, <2>1, StillOk DEF vars, registry, loop
  <1>2. CASE Next
    BY <1>2, StepOk, OutsideOk, ReconcileOk, AdmitOk, LoopOk, CommandOk DEF Next
  <1> QED BY <1>1, <1>2

LEMMA Invariance == Spec => []IInv
  BY InitOk, NextOk, PTL DEF Spec

(* Types: every copy of the registry holds lane records, with attempts and       *)
(* retries within policy.retry's bounds, whatever crashes and commands intervene. *)
THEOREM TypeCorrect == Spec => []TypeOK
  <1>1. IInv => TypeOK
    BY DEF IInv
  <1> QED BY <1>1, Invariance, PTL

(* A GO never carries to another head: whatever is pushed, merged, crashed or    *)
(* overwritten, a lane that waits for its Human merge has a valid GO on exactly  *)
(* the candidate that is frozen, and that candidate contains its base.           *)
THEOREM LanesAreReviewed == Spec => []MergeWaitIsReviewed
  <1>1. IInv => MergeWaitIsReviewed
    BY DEF IInv, RegistryOk, RecordOk, MergeWaitIsReviewed
  <1> QED BY <1>1, Invariance, PTL

(* No worktree exists for a lane whose design has not landed, and the head of    *)
(* one that exists contains the design's merge.                                  *)
THEOREM DesignComesFirst == Spec => []DesignFirst
  <1>1. IInv => DesignFirst
    <2> SUFFICES ASSUME IInv, NEW l \in Lanes, Present(l), DependsOn[l] # None
                 PROVE  /\ hub[DependsOn[l]].pr = "merged"
                        /\ Contains(HeadOf(l), hub[DependsOn[l]].landed)
      BY DEF DesignFirst
    <2>1. GitPart /\ Landed(l, HeadOf(l).base) /\ DependsOn[l] \in Branches
      BY Parts, LanesOk DEF GitPart, GitOk
    <2>2. hub[DependsOn[l]].landed \in Int /\ HeadOf(l).base \in Int
      BY <2>1, BoundsOk DEF GitPart, Elsewhere, Present, HeadOf, Commits, Bases
    <2> QED BY <2>1, <2>2 DEF Landed, Contains
  <1> QED BY <1>1, Invariance, PTL

(* However often a crash separates opening a pull request from recording it, a   *)
(* branch gets one.                                                              *)
THEOREM PullRequestsAreSingle == Spec => []OnePullRequest
  <1>1. IInv => OnePullRequest
    BY DEF IInv
  <1> QED BY <1>1, Invariance, PTL

--------------------------------------------------------------------------------
(* Who ends a hold, and how partial work gets downstream.  Whatever a process     *)
(* decides on its own copy keeps a boundary and makes no partial work downstream; *)
(* the file changes otherwise only because the copy is another than the file.     *)

Held(l) == AtBoundary(disk[l]) /\ ~AtBoundary(disk'[l]) =>
              \/ CommandSaves /\ \/ cli.name = "resume" /\ cli.lane = l
                                 \/ ~AtBoundary(cli.reg[l])
              \/ SupervisorActs /\ ~AtBoundary(mem[l])
Late(r) == r # None /\ (r.status \in Downstream \/ r.prov = "reviewer")
Copied(l) ==
    /\ Late(disk'[l]) /\ ~whole'[l] /\ ~(Late(disk[l]) /\ ~whole[l]) =>
          \/ CommandSaves /\ Late(cli.reg[l]) /\ ~whole[l]
          \/ SupervisorActs /\ ((Late(mem[l]) /\ ~whole[l]) \/ ~Alike(disk[l], mem[l]))
    /\ Late(mem'[l]) /\ ~whole'[l] /\ ~(Late(mem[l]) /\ ~whole[l]) =>
          sup.at = "off" /\ Late(disk[l]) /\ ~whole[l]
Calm == \A l \in Lanes : Held(l) /\ Copied(l)

(* A save of the supervisor's, of one lane's record changed or of none.          *)
LEMMA KeepCalm ==
  ASSUME IInv, SupervisorActs, NEW l \in Lanes, NEW x, Keep(l, x),
         \A k \in Lanes : k # l => whole'[k] = whole[k],
         Late(x) /\ ~whole'[l] => Late(mem[l]) /\ ~whole[l],
         AtBoundary(mem[l]) => AtBoundary(x)
  PROVE  Calm
  <1>1. disk' = mem' /\ mem'[l] = x /\ \A k \in Lanes : k # l => mem'[k] = mem[k]
    BY DEF Keep, IInv, TypeOK, Registries
  <1>2. Held(l) /\ Copied(l)
    BY <1>1 DEF Held, Copied
  <1>3. ASSUME NEW k \in Lanes, k # l PROVE Held(k) /\ Copied(k)
    BY <1>1, <1>3 DEF Held, Copied
  <1> QED BY <1>2, <1>3 DEF Calm

LEMMA FinishCalm ==
  ASSUME IInv, SupervisorActs, NEW l \in Lanes, NEW x, Finish(l, x),
         \A k \in Lanes : k # l => whole'[k] = whole[k],
         Late(x) /\ ~whole'[l] => Late(mem[l]) /\ ~whole[l],
         AtBoundary(mem[l]) => AtBoundary(x)
  PROVE  Calm
  BY KeepCalm DEF Finish

(* From downstream, the step may end as it likes.                                *)
LEMMA DownstreamCalm ==
  ASSUME IInv, SupervisorActs, NEW l \in Lanes, NEW x, Finish(l, x),
         UNCHANGED whole, mem[l] # None, mem[l].status \in Downstream
  PROVE  Calm
  <1>1. Late(mem[l])
    BY DEF Late
  <1>2. ~AtBoundary(mem[l])
    BY DEF AtBoundary, Downstream, Reviewing, Boundaries, Holds
  <1> QED BY <1>1, <1>2, FinishCalm

(* A step that saves nothing.                                                    *)
LEMMA ReadingCalm ==
  ASSUME UNCHANGED <<registry, whole>>
  PROVE  Calm
  BY DEF Calm, Held, Copied, registry

LEMMA BeforeReviewCalm ==
  ASSUME IInv, NEW l \in Lanes,
         BlockOnDesign(l) \/ EnterSetup(l) \/ AddWorktree(l) \/ RecordWorktree(l) \/ StartRepair(l)
  PROVE  Calm
  <1>0. LoopPart
    BY Parts
  <1>1. SupervisorActs /\ UNCHANGED whole
    BY DEF BlockOnDesign, EnterSetup, AddWorktree, RecordWorktree, StartRepair, Takes, Within,
           SupervisorActs
  <1>2. mem[l] # None /\ mem[l] \in Records /\ RecordOk(l, mem[l]) /\
        mem[l].status \in {"PENDING", "BLOCKED_ON_DESIGN", "WORKTREE_SETUP", "REPAIR_PENDING"}
    <2>1. CASE RecordWorktree(l)
      BY <1>0, <2>1, WithinIsFine DEF RecordWorktree, Fine, LoopPart, SupOk, Within, StatusAt, Points
    <2>2. CASE ~RecordWorktree(l)
      <3>1. Takes(l, {"PENDING", "BLOCKED_ON_DESIGN", "WORKTREE_SETUP", "REPAIR_PENDING"})
        BY <2>2 DEF BlockOnDesign, EnterSetup, AddWorktree, StartRepair, Takes
      <3> QED BY <1>0, <3>1, TakenIsFine DEF Fine
    <2> QED BY <2>1, <2>2
  <1>3. ~AtBoundary(mem[l]) /\ mem[l].prov = None
    BY <1>2 DEF AtBoundary, Boundaries, Holds, RecordOk
  <1>4. ASSUME NEW x, Finish(l, x), x.status \notin Downstream, x.prov = None PROVE Calm
    <2>1. ~Late(x)
      BY <1>4, NothingOk DEF Late
    <2> QED BY <1>1, <1>3, <1>4, <2>1, FinishCalm
  <1>5. CASE BlockOnDesign(l)
    <2>1. PICK x : x = To(mem[l], "BLOCKED_ON_DESIGN") /\ Finish(l, x)
      BY <1>5 DEF BlockOnDesign
    <2>2. x.status \notin Downstream /\ x.prov = None
      BY <1>2, <2>1 DEF To, Records, Downstream, Reviewing
    <2> QED BY <1>4, <2>1, <2>2
  <1>6. CASE EnterSetup(l)
    <2>1. PICK x : /\ \/ x = Hold(mem[l], "HOLD_UNKNOWN", None)
                      \/ x = To([mem[l] EXCEPT !.base = FreshBase(l)], "WORKTREE_SETUP")
                   /\ Finish(l, x)
      BY <1>6 DEF EnterSetup
    <2>2. x.status \notin Downstream /\ x.prov = None
      BY <1>2, <1>3, <2>1 DEF To, Hold, Records, Downstream, Reviewing
    <2> QED BY <1>4, <2>1, <2>2
  <1>7. CASE AddWorktree(l)
    <2>1. disk' = mem /\ mem' = mem
      BY <1>7 DEF AddWorktree
    <2> QED BY <1>1, <2>1 DEF Calm, Held, Copied
  <1>8. CASE RecordWorktree(l)
    <2>1. PICK x : x = [To(mem[l], "ACTOR_RUNNING") EXCEPT !.wt = TRUE] /\ Finish(l, x)
      BY <1>8 DEF RecordWorktree
    <2>2. x.status \notin Downstream /\ x.prov = None
      BY <1>2, <2>1 DEF To, Records, Downstream, Reviewing
    <2> QED BY <1>4, <2>1, <2>2
  <1>9. CASE StartRepair(l)
    <2>1. PICK x : x = [Settle(To(mem[l], "ACTOR_RUNNING")) EXCEPT !.attempt = @ + 1] /\ Finish(l, x)
      BY <1>9 DEF StartRepair
    <2>2. x.status \notin Downstream /\ x.prov = None
      BY <1>2, <2>1 DEF To, Settle, Records, Downstream, Reviewing
    <2> QED BY <1>4, <2>1, <2>2
  <1> QED BY <1>5, <1>6, <1>7, <1>8, <1>9

(* What a failure leaves is not downstream, unless the lane already was.         *)
LEMMA FailureStatus ==
  ASSUME NEW r \in Records, NEW kind \in Failures, r.status \in Acting
  PROVE  /\ ProviderFailure("actor", r, kind).status \notin Downstream
         /\ ProviderFailure("actor", r, kind).prov # "reviewer"
  <1>0. r.status \notin Downstream /\ "actor" # None /\ None # "reviewer"
    BY NothingOk DEF Acting, Downstream, Reviewing
  <1>1. \A s : /\ Hold(r, s, "actor").status = s /\ Hold(r, s, "actor").prov = "actor"
               /\ To(r, s).status = s /\ To(r, s).prov = None
    BY <1>0 DEF Hold, To, Records
  <1>2. [To(r, r.status) EXCEPT !.retry = @ + 1].status = r.status
        /\ [To(r, r.status) EXCEPT !.retry = @ + 1].prov = None
    BY DEF To, Records
  <1>3. {"HOLD_CAPACITY", "HOLD_UNKNOWN", "REPAIR_PENDING"} \cap Downstream = {}
    BY DEF Downstream, Reviewing
  <1>4. r.retry \in Nat /\ MaxRetry \in Nat
    BY BoundsOk DEF Records
  <1>5. CASE kind \in Capacity
    BY <1>0, <1>1, <1>3, <1>5 DEF ProviderFailure, Capacity, Passing
  <1>6. CASE kind \in Passing /\ r.retry < MaxRetry
    <2>1. ~(r.retry >= MaxRetry)
      BY <1>4, <1>6
    <2>2. ProviderFailure("actor", r, kind) = [To(r, r.status) EXCEPT !.retry = @ + 1]
      BY <1>6, <2>1 DEF ProviderFailure, Capacity, Passing
    <2> QED BY <1>0, <1>2, <2>2
  <1>7. CASE kind \in Passing /\ ~(r.retry < MaxRetry)
    <2>1. r.retry >= MaxRetry
      BY <1>4, <1>7
    <2> QED BY <1>0, <1>1, <1>3, <1>7, <2>1 DEF ProviderFailure, Capacity, Passing
  <1>8. CASE kind \notin Capacity \cup Passing
    BY <1>0, <1>1, <1>3, <1>8 DEF ProviderFailure, Repair, Capacity, Passing, Failures
  <1> QED BY <1>5, <1>6, <1>7, <1>8

LEMMA ActorCalm ==
  ASSUME IInv, NEW l \in Lanes, InvokeActor(l) \/ ActorCompletes(l) \/ ActorFails(l)
  PROVE  Calm
  <1>0. LoopPart
    BY Parts
  <1>1. SupervisorActs
    BY DEF InvokeActor, ActorCompletes, ActorFails, Takes, Within, SupervisorActs
  <1>2. /\ mem[l] # None /\ mem[l] \in Records /\ RecordOk(l, mem[l]) /\ mem[l].status \in Acting
    BY <1>0, TakenIsFine, WithinIsFine DEF InvokeActor, ActorCompletes,
       ActorFails, Fine, LoopPart, SupOk, Within, StatusAt, Points
  <1>3. ~AtBoundary(mem[l]) /\ mem[l].prov = None
    BY <1>2 DEF AtBoundary, Boundaries, Holds, RecordOk, Acting
  <1>4. whole \in [Lanes -> BOOLEAN]
    BY <1>0 DEF IInv, TypeOK
  <1>5. CASE InvokeActor(l)
    <2>1. UNCHANGED <<disk, mem>> /\ \A k \in Lanes : k # l => whole'[k] = whole[k]
      BY <1>4, <1>5 DEF InvokeActor, registry
    <2>2. ~Late(mem[l])
      BY <1>2, <1>3, NothingOk DEF Late, Acting, Downstream, Reviewing
    <2>3. Late(disk[l]) => ~Alike(disk[l], mem[l])
      BY <1>2, <2>2 DEF Late, Alike
    <2>4. Held(l) /\ Copied(l)
      BY <1>1, <2>1, <2>2, <2>3 DEF Held, Copied
    <2>5. ASSUME NEW k \in Lanes, k # l PROVE Held(k) /\ Copied(k)
      BY <2>1, <2>5 DEF Held, Copied
    <2> QED BY <2>4, <2>5 DEF Calm
  <1>6. CASE ActorCompletes(l)
    <2>1. CASE whole' = [whole EXCEPT ![l] = TRUE] /\ Finish(l, Settle(To(mem[l], "VALIDATING")))
      <3>1. whole'[l] /\ \A k \in Lanes : k # l => whole'[k] = whole[k]
        BY <1>4, <2>1
      <3> QED BY <1>1, <1>3, <2>1, <3>1, FinishCalm
    <2>2. CASE Finish(l, Settle(To(mem[l], "HUMAN_DIRECTION_WAIT"))) /\ UNCHANGED whole
      <3>1. PICK x : x = Settle(To(mem[l], "HUMAN_DIRECTION_WAIT"))
        OBVIOUS
      <3>2. x.status = "HUMAN_DIRECTION_WAIT" /\ x.prov = None
        BY <1>2, <3>1 DEF Settle, To, Records
      <3>3. ~Late(x)
        BY <3>2, NothingOk DEF Late, Downstream, Reviewing
      <3> QED BY <1>1, <1>3, <2>2, <3>1, <3>3, FinishCalm
    <2> QED BY <1>6, <2>1, <2>2 DEF ActorCompletes
  <1>7. CASE ActorFails(l)
    <2>1. PICK kind \in Failures : Finish(l, ProviderFailure("actor", mem[l], kind)) /\ UNCHANGED whole
      BY <1>7 DEF ActorFails
    <2>2. PICK x : x = ProviderFailure("actor", mem[l], kind)
      OBVIOUS
    <2>3. ~Late(x)
      BY <1>2, <2>2, FailureStatus DEF Late
    <2> QED BY <1>1, <1>3, <2>1, <2>2, <2>3, FinishCalm
  <1> QED BY <1>5, <1>6, <1>7

LEMMA CandidateCalm ==
  ASSUME IInv, NEW l \in Lanes,
         \/ Validate(l) \/ RejectCandidate(l) \/ PushCandidate(l) \/ PushRefused(l)
         \/ CreatePr(l) \/ Freeze(l)
  PROVE  Calm
  <1>0. LoopPart
    BY Parts
  <1>1. SupervisorActs /\ UNCHANGED whole
    BY DEF Validate, RejectCandidate, PushCandidate, PushRefused, CreatePr, Freeze, Takes, Within,
           SupervisorActs
  <1>2. /\ mem[l] # None /\ mem[l] \in Records
        /\ mem[l].status \in {"VALIDATING", "FREEZING"} /\ mem[l].status \in Downstream
    <2>1. CASE Takes(l, {"VALIDATING", "FREEZING"})
      BY <1>0, <2>1, TakenIsFine DEF Fine, Downstream
    <2>2. CASE Within(l, "publish") \/ Within(l, "opened")
      BY <1>0, <2>2, WithinIsFine DEF Fine, Downstream, LoopPart, SupOk, Within, StatusAt, Points
    <2> QED BY <2>1, <2>2 DEF Validate, RejectCandidate, PushCandidate, PushRefused, CreatePr,
               Freeze, Takes
  <1>3. CASE \E x : Finish(l, x)
    BY <1>1, <1>2, <1>3, DownstreamCalm
  <1>4. CASE CreatePr(l)
    <2>1. UNCHANGED registry
      BY <1>4 DEF CreatePr
    <2> QED BY <1>1, <2>1, ReadingCalm
  <1>5. CASE PushCandidate(l)
    <2>1. PICK x : x = Frozen(l)
      OBVIOUS
    <2>2. x.status = mem[l].status /\ x.prov = mem[l].prov /\ x # None
      <3>1. /\ Frozen(l).status = mem[l].status /\ Frozen(l).prov = mem[l].prov
        BY <1>2 DEF Frozen, Records
      <3>2. IInv /\ Fine(l, mem[l]) /\ mem[l].status = "FREEZING" /\ Present(l) /\ Freezable(l)
        BY <1>0, <1>5, TakenIsFine DEF PushCandidate
      <3>3. Fine(l, Frozen(l))
        BY <3>2, FrozenFine
      <3> QED BY <2>1, <3>1, <3>3, NothingOk DEF Fine
    <2>3. /\ mem'[l] = x /\ \A k \in Lanes : k # l => mem'[k] = mem[k]
          /\ disk' = disk
      BY <1>0, <1>5, <2>1 DEF PushCandidate, LoopPart, Registries
    <2>4. Late(x) <=> Late(mem[l])
      BY <1>2, <2>2 DEF Late
    <2> QED BY <1>1, <2>3, <2>4 DEF Calm, Held, Copied
  <1> QED BY <1>3, <1>4, <1>5 DEF Validate, RejectCandidate, PushRefused, Freeze

LEMMA ReviewCalm ==
  ASSUME IInv, NEW l \in Lanes,
         \/ ReadPr(l) \/ ReadBase(l) \/ OpenReview(l) \/ ReviewerFails(l) \/ ReviewerAnswers(l)
         \/ RecordReview(l) \/ Judge(l) \/ LookAtMerge(l) \/ ReadMerge(l) \/ StillOpen(l)
  PROVE  Calm
  <1>0. LoopPart
    BY Parts
  <1>1. SupervisorActs /\ UNCHANGED whole
    BY DEF ReadPr, ReadBase, OpenReview, ReviewerFails, ReviewerAnswers, RecordReview, Judge,
           LookAtMerge, ReadMerge, StillOpen, Takes, Within, SupervisorActs
  <1>2. mem[l] # None /\ mem[l] \in Records /\ mem[l].status \in Downstream
    <2>1. CASE Takes(l, Reviewing \cup {"HUMAN_MERGE_WAIT"})
      BY <1>0, <2>1, TakenIsFine DEF Fine, Downstream
    <2>2. CASE Within(l, "readPr") \/ Within(l, "readBase")
      <3>1. /\ mem[l] # None /\ mem[l] \in Records /\ sup.next \in {"reviewing", "judge", "waiting"}
            /\ StatusAt(sup.next, mem[l])
        BY <1>0, <2>2, WithinIsFine DEF Fine, LoopPart, SupOk, SupType, Within, Points
      <3> QED BY <3>1 DEF StatusAt, Downstream
    <2>3. CASE \E p \in {"reviewing", "judge", "recorded", "merge", "waiting"} : Within(l, p)
      BY <1>0, <2>3, WithinIsFine DEF Fine, Downstream, LoopPart, SupOk, Within, StatusAt, Points
    <2> QED BY <2>1, <2>2, <2>3 DEF ReadPr, ReadBase, OpenReview, ReviewerFails, ReviewerAnswers,
               RecordReview, Judge, LookAtMerge, ReadMerge, StillOpen, Takes
  <1>3. CASE \E x : Finish(l, x)
    BY <1>1, <1>2, <1>3, DownstreamCalm
  <1>4. CASE UNCHANGED registry
    BY <1>1, <1>4, ReadingCalm
  <1>5. CASE ReviewerAnswers(l)
    BY <1>4, <1>5 DEF ReviewerAnswers, CheckRemote
  <1>6. CASE ReadPr(l) \/ ReadBase(l)
    BY <1>3, <1>4, <1>6 DEF ReadPr, ReadBase
  <1>7. CASE OpenReview(l) \/ LookAtMerge(l) \/ ReadMerge(l)
    BY <1>3, <1>4, <1>7 DEF OpenReview, LookAtMerge, ReadMerge, CheckRemote
  <1>8. CASE RecordReview(l)
    <2>1. PICK x : Keep(l, x)
      BY <1>8 DEF RecordReview
    <2>2. Late(mem[l]) /\ ~AtBoundary(mem[l])
      BY <1>2 DEF Late, AtBoundary, Downstream, Reviewing, Boundaries, Holds
    <2> QED BY <1>1, <2>1, <2>2, KeepCalm
  <1> QED BY <1>3, <1>5, <1>6, <1>7, <1>8 DEF ReviewerFails, Judge, StillOpen

LEMMA ErrorCalm ==
  ASSUME IInv, NEW l \in Lanes, StepError(l)
  PROVE  Calm
  <1>0. LoopPart
    BY Parts
  <1>1. SupervisorActs /\ UNCHANGED whole
    BY <1>0, NothingOk DEF StepError, LoopPart, SupOk, Points, SupervisorActs
  <1>2. mem[l] # None /\ mem[l] \in Records
    BY <1>0, MineIsFine, NothingOk DEF StepError, LoopPart, SupOk, Fine
  <1>3. PICK x : x = Interrupted(l) /\ Finish(l, x)
    BY DEF StepError
  <1>4. x.status = "HOLD_UNKNOWN" /\ x.prov = mem[l].prov /\ x # None
    <2>1. x \in Records
      BY <1>2, <1>3 DEF Interrupted, Records, Statuses, Boundaries, Holds
    <2> QED BY <1>2, <1>3, <2>1, NothingOk DEF Interrupted, Records
  <1>5. x.status \notin Downstream /\ AtBoundary(x)
    BY <1>4 DEF Downstream, Reviewing, AtBoundary, Boundaries, Holds
  <1>6. Late(x) => Late(mem[l])
    BY <1>2, <1>4, <1>5 DEF Late
  <1> QED BY <1>1, <1>3, <1>5, <1>6, FinishCalm

LEMMA StepCalm ==
  ASSUME IInv, NEW l \in Lanes, Step(l)
  PROVE  Calm
  BY BeforeReviewCalm, ActorCalm, CandidateCalm, ReviewCalm, ErrorCalm DEF Step

LEMMA ReconcileCalm ==
  ASSUME IInv, NEW l \in Lanes, Reconcile(l)
  PROVE  Calm
  <1>0. LoopPart
    BY Parts
  <1>1. SupervisorActs /\ UNCHANGED whole
    BY DEF Reconcile, SupervisorActs
  <1>2. CASE UNCHANGED registry
    BY <1>1, <1>2, ReadingCalm
  <1>3. CASE Keep(l, AfterRestart(l))
    <2>1. /\ mem[l] # None /\ mem[l] \in Records /\ RecordOk(l, mem[l])
      BY <1>0, MineIsFine DEF Reconcile, LoopPart, SupOk, Fine
    <2>2. PICK x : x = AfterRestart(l)
      OBVIOUS
    <2>3. \/ x = mem[l]
          \/ x.status \in {"ACTOR_INTERRUPTED", "REVIEW_INTERRUPTED", "MERGED"} /\ x.prov = None
             /\ mem[l].status \in {"ACTOR_RUNNING", "REVIEW_RUNNING", "HUMAN_MERGE_WAIT"}
             /\ (x.status = "REVIEW_INTERRUPTED" => mem[l].status = "REVIEW_RUNNING")
          \/ x.status = "HOLD_CAPACITY" /\ x.prov = mem[l].prov /\ Stale(l)
      BY <2>1, <2>2 DEF AfterRestart, To, Hold, Records
    <2>5. Late(x) => Late(mem[l])
      BY <2>1, <2>3, NothingOk DEF Late, Downstream, Reviewing
    <2>6. AtBoundary(mem[l]) => AtBoundary(x)
      BY <2>3 DEF AtBoundary, Boundaries, Holds, Stale
    <2> QED BY <1>1, <1>3, <2>2, <2>5, <2>6, KeepCalm
  <1> QED BY <1>2, <1>3 DEF Reconcile

LEMMA AdmitCalm ==
  ASSUME IInv, NEW l \in Lanes, Admit(l)
  PROVE  Calm
  <1>1. SupervisorActs /\ UNCHANGED whole /\ mem[l] = None
    BY DEF Admit, SupervisorActs
  <1>2. PICK x : x = NewLane /\ Keep(l, x)
    BY DEF Admit
  <1>3. x.status = "PENDING" /\ x.prov = None
    BY <1>2 DEF NewLane
  <1>4. ~Late(x) /\ ~AtBoundary(mem[l])
    BY <1>1, <1>3, NothingOk DEF Late, Downstream, Reviewing, AtBoundary
  <1> QED BY <1>1, <1>2, <1>4, KeepCalm

LEMMA LoopCalm ==
  ASSUME IInv, Start \/ Round \/ Rest \/ StepBound \/ Crash
  PROVE  Calm
  <1>1. UNCHANGED <<disk, whole>>
    BY DEF Start, Round, Rest, StepBound, Crash, End, registry
  <1>2. CASE Start
    BY <1>1, <1>2 DEF Start, Calm, Held, Copied
  <1>3. CASE Round
    BY <1>3, ReadingCalm DEF Round
  <1>4. CASE Rest \/ StepBound \/ Crash
    <2>1. \A l \in Lanes : ~Late(mem'[l])
      BY <1>4 DEF Rest, StepBound, Crash, End, NoLanes, Late
    <2> QED BY <1>1, <2>1 DEF Calm, Held, Copied
  <1> QED BY <1>2, <1>3, <1>4

LEMMA CommandCalm ==
  ASSUME IInv, CommandReads \/ CommandWrites
  PROVE  Calm
  <1>0. LoopPart /\ CliPart
    BY Parts
  <1>1. UNCHANGED <<whole, mem>>
    BY DEF CommandReads, CommandWrites, registry
  <1>3. CASE CommandReads
    BY <1>1, <1>3, ReadingCalm DEF CommandReads
  <1>4. CASE CommandWrites
    <2>1. PICK l, r : l = cli.lane /\ r = cli.reg[l]
      OBVIOUS
    <2>2. /\ l \in Lanes /\ cli # None /\ r # None /\ r \in Records
          /\ cli.name \in {"resume", "hold"} /\ cli.reg \in Registries
      BY <1>0, <1>4, <2>1, NothingOk DEF CommandWrites, CliPart, Registries
    <2>3. PICK x : x = Commanded(r)
      OBVIOUS
    <2>4. /\ disk'[l] = x /\ \A k \in Lanes : k # l => disk'[k] = cli.reg[k]
          /\ CommandSaves
      BY <1>4, <2>1, <2>2, <2>3 DEF CommandWrites, CommandSaves, Registries
    <2>6. Late(x) => Late(r)
      <3>1. CASE cli.name = "resume"
        <4>1. x = Resume(r)
          BY <2>3, <3>1 DEF Commanded
        <4>2. CASE r.status \notin Boundaries
          <5>1. x.status = r.status /\ x.prov = None
            BY <2>2, <4>1, <4>2 DEF Resume, To, Records
          <5> QED BY <2>2, <5>1, NothingOk DEF Late
        <4>3. CASE r.status \in Boundaries
          <5>1. PICK s : /\ x = To(Settle(r), s)
                         /\ s \in {"PENDING", "VALIDATING", "ACTOR_INTERRUPTED"}
                         /\ s = "VALIDATING" => r.prov = "reviewer"
            BY <4>1, <4>3 DEF Resume
          <5>2. x.status = s /\ x.prov = None
            BY <2>2, <5>1 DEF To, Settle, Records
          <5> QED BY <2>2, <5>1, <5>2, NothingOk DEF Late, Downstream, Reviewing
        <4> QED BY <4>2, <4>3
      <3>2. CASE cli.name # "resume"
        <4>1. x = Hold(r, "HOLD_CAPACITY", None)
          BY <2>3, <3>2 DEF Commanded
        <4>2. x.status = "HOLD_CAPACITY" /\ x.prov = r.prov
          BY <2>2, <4>1 DEF Hold, Records
        <4> QED BY <2>2, <4>2 DEF Late, Downstream, Reviewing
      <3> QED BY <3>1, <3>2
    <2>7. cli.name = "hold" => AtBoundary(x)
      <3> SUFFICES ASSUME cli.name = "hold" PROVE AtBoundary(x)
        OBVIOUS
      <3>1. x = Hold(r, "HOLD_CAPACITY", None)
        BY <2>3 DEF Commanded
      <3>2. x.status = "HOLD_CAPACITY" /\ x \in Records
        BY <2>2, <3>1 DEF Hold, Records, Statuses, Boundaries, Holds
      <3> QED BY <3>2, NothingOk DEF AtBoundary, Boundaries, Holds
    <2>8. Held(l) /\ Copied(l)
      BY <1>1, <2>1, <2>2, <2>4, <2>6, <2>7 DEF Held, Copied
    <2>9. ASSUME NEW k \in Lanes, k # l PROVE Held(k) /\ Copied(k)
      BY <1>1, <2>4, <2>9 DEF Held, Copied
    <2> QED BY <2>8, <2>9 DEF Calm
  <1> QED BY <1>3, <1>4

LEMMA NextCalm == IInv /\ [Next]_vars => Calm
  <1> SUFFICES ASSUME IInv, [Next]_vars PROVE Calm
    OBVIOUS
  <1>1. CASE Outside
    BY <1>1, ReadingCalm DEF Outside, OthersAdvanceBase, Merge, ClosePr, ForeignPush, WriteTree, LoseTree
  <1>2. CASE UNCHANGED vars
    BY <1>2, ReadingCalm DEF vars, registry
  <1> QED BY <1>1, <1>2, StepCalm, ReconcileCalm, AdmitCalm, LoopCalm, CommandCalm DEF Next

(* A lane that is held leaves its hold only by a resume command for it, or by a   *)
(* write of the supervisor or of a command that does not know of the hold,        *)
(* whichever processes run beside each other.                                     *)
THEOREM HoldsAreLeft == Spec => HoldsAreLeftKnowingly
  <1>1. IInv /\ [Next]_vars =>
          \A l \in Lanes : AtBoundary(disk[l]) /\ ~AtBoundary(disk'[l]) =>
            \/ CommandSaves /\ \/ cli.name = "resume" /\ cli.lane = l
                               \/ ~AtBoundary(cli.reg[l])
            \/ SupervisorActs /\ ~AtBoundary(mem[l])
    <2>1. IInv /\ [Next]_vars => \A l \in Lanes : Held(l)
      BY NextCalm DEF Calm
    <2> QED BY <2>1 DEF Held
  <1> QED BY <1>1, Invariance, PTL DEF Spec, HoldsAreLeftKnowingly

(* Neither process ever decides that partial output is complete: it gets          *)
(* downstream only by a copy of the registry that is older than the last          *)
(* invocation of the worker, whichever processes run beside each other.           *)
THEOREM PartialWorkIsOld == Spec => PartialWorkIsCopied
  <1>1. IInv /\ [Next]_vars =>
          \A l \in Lanes :
            /\ Partial(l, disk[l])' /\ ~Partial(l, disk[l]) =>
                  \/ CommandSaves /\ Partial(l, cli.reg[l])
                  \/ SupervisorActs /\ (Partial(l, mem[l]) \/ ~Alike(disk[l], mem[l]))
            /\ Partial(l, mem[l])' /\ ~Partial(l, mem[l]) =>
                  sup.at = "off" /\ Partial(l, disk[l])
    <2>1. IInv /\ [Next]_vars => \A l \in Lanes : Copied(l)
      BY NextCalm DEF Calm
    <2> QED BY <2>1 DEF Copied, Partial, Late
  <1> QED BY <1>1, Invariance, PTL DEF Spec, PartialWorkIsCopied

================================================================================
