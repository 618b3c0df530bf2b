------------------------- MODULE Evidence_proofs -------------------------
(***************************************************************************)
(* A verdict, from the surface that makes it to the gate that weighs it:   *)
(* what holds of EvidenceGate for all values of its constants, and then of *)
(* SurfaceBroker (and of SurfaceRunner, which it extends), the proofs of   *)
(* which read nothing of the gate.                                         *)
(***************************************************************************)
EXTENDS EvidenceGate, SurfaceBroker, TLAPS

-----------------------------------------------------------------------------
(* The gate *)

(* What is sealed as an ALLOW is one: the gate held over its rows, under    *)
(* its policy.                                                              *)
DecisionIsAllowed ==
  decision # NoInput => Allows(decision.rows, decision.policy)

LEMMA InputIsInput == ASSUME NEW x \in Input PROVE x # NoInput
  <1>1. x.policy \in DOMAIN Policies  BY DEF Input
  <1>2. 0 \notin DOMAIN Policies  BY ConstantsOk
  <1> QED  BY <1>1, <1>2 DEF NoInput

(* A row of an implementing kind is bound under the namespace of the run.   *)
LEMMA ImplementingOk ==
  \A k \in Implementing : k \in Kinds /\ NamespaceOf[k] = "work-run"
  BY DEF Implementing, Kinds, NamespaceOf

(* A policy that declares the implementers of a run complete has all those  *)
(* in the store within its complete set (assembleAdmissionInput, recheck    *)
(* #18).                                                                    *)
LEMMA CompleteHoldsImplementers ==
  ASSUME NEW p, DeclaresImplementers(p),
         NEW r \in store, r.own, r.kind \in Implementing
  PROVE  r \in Complete(p)
  <1>1. PICK d \in DeclaredEntries(p) : d.kind = r.kind /\ d.namespace = "work-run"
    BY DEF DeclaresImplementers
  <1>2. r \in CompleteFor(d)  BY <1>1, ImplementingOk DEF CompleteFor
  <1> QED  BY <1>1, <1>2 DEF Complete

(* Every variable keeps its type.                                           *)
LEMMA TypeStep == ASSUME TypeOK, [Next]_vars PROVE TypeOK'
  <1> USE DEF TypeOK
  <1>1. ASSUME NEW r \in Rows, Submit(r) PROVE TypeOK'  BY <1>1 DEF Submit
  <1>2. CASE Activate
    <2>1. active' \in DOMAIN Policies  BY <1>2, ConstantsOk DEF Activate
    <2> QED  BY <1>2, <2>1 DEF Activate
  <1>3. ASSUME NEW refs \in SUBSET (store \ Complete(active)), Assemble(refs) PROVE TypeOK'
    <2>1. Complete(active) \subseteq store  BY DEF Complete, CompleteFor
    <2>2. input' \in Input  BY <1>3, <2>1 DEF Assemble, Input
    <2> QED  BY <1>3, <2>2 DEF Assemble
  <1>4. CASE Evaluate
    <2>1. decision' \in Input \union {NoInput} /\ input' = NoInput  BY <1>4 DEF Evaluate
    <2> QED  BY <1>4, <2>1 DEF Evaluate
  <1>5. CASE Admit
    <2>1. decision \in Input  BY <1>5 DEF Admit
    <2>2. admitted' \in [rows : SUBSET Rows, policy : DOMAIN Policies, store : SUBSET Rows]
      BY <1>5, <2>1 DEF Admit, Input
    <2> QED  BY <1>5, <2>2 DEF Admit
  <1>6. CASE UNCHANGED vars  BY <1>6 DEF vars
  <1> QED  BY <1>1, <1>2, <1>3, <1>4, <1>5, <1>6 DEF Next

(* An ALLOW stays one: the gate reads only the input that the decision      *)
(* carries and the request's operation, which is sealed.                    *)
LEMMA DecisionStep ==
  ASSUME TypeOK, DecisionIsAllowed, [Next]_vars PROVE DecisionIsAllowed'
  <1>1. op' = op  BY DEF Next, vars, Submit, Activate, Assemble, Evaluate, Admit
  <1> USE DEF Allows, PrCreateOk, MergeBaseOk
  <1>2. CASE Evaluate
    <2>1. decision' = input /\ input.policy = active /\ Allows(input.rows, active)
      BY <1>2 DEF Evaluate
    <2> QED  BY <1>1, <2>1 DEF DecisionIsAllowed
  <1>3. CASE decision' = decision  BY <1>1, <1>3 DEF DecisionIsAllowed
  <1> QED  BY <1>2, <1>3 DEF Next, vars, Submit, Activate, Assemble, Admit

(* What is admitted was allowed over rows that hold every implementer the   *)
(* store knows (pep.ts, recheck #18).                                       *)
LEMMA AdmitStep ==
  ASSUME TypeOK, DecisionIsAllowed, Admit PROVE MergeIsIndependent'
  <1> DEFINE S == decision.rows
             p == decision.policy
             Known == {r.by : r \in {x \in store : x.own /\ x.kind \in Implementing}}
             Independent(r) == \A q \in Known : Product[q] # Product[r.by]
  <1>1. /\ admitted' = [rows |-> S, policy |-> p, store |-> store]
        /\ op' = op /\ Allows(S, p) /\ Complete(p) \subseteq S
    BY DEF Admit, DecisionIsAllowed, AssemblyComplete
  <1>2. SUFFICES ASSUME DeclaresImplementers(p)
                 PROVE  /\ \E r \in S : r.kind = "REVIEW" /\ r.own /\ Independent(r)
                        /\ op = "PR_MERGE" => \E r \in S :
                             \/ r.kind = "HUMAN_DECISION" /\ r.own
                             \/ r.kind = "AGENT_DECISION" /\ r.own /\ r.by \in Delegates
                                /\ Independent(r)
    BY <1>1 DEF MergeIsIndependent, DeclaresImplementers, DeclaredEntries
  <1>3. Known \subseteq ImplementerRefs(S)
    BY <1>1, <1>2, CompleteHoldsImplementers DEF ImplementerRefs
  <1>4. ASSUME NEW r, IndependentProduct(r.by, S) PROVE Independent(r)
    BY <1>3, <1>4 DEF IndependentProduct
  <1>5. \E r \in S : r.kind = "REVIEW" /\ r.own /\ Independent(r)
    BY <1>1, <1>4 DEF Allows, PrCreateOk, MergeBaseOk, ReviewOk
  <1>6. ASSUME op = "PR_MERGE"
        PROVE  \E r \in S : \/ r.kind = "HUMAN_DECISION" /\ r.own
                            \/ r.kind = "AGENT_DECISION" /\ r.own /\ r.by \in Delegates
                               /\ Independent(r)
    <2>1. HumanOk(S) \/ AgentMergeOk(S)  BY <1>1, <1>6 DEF Allows, PrCreateOk
    <2> QED  BY <2>1, <1>4 DEF HumanOk, AgentMergeOk
  <1> QED  BY <1>5, <1>6

LEMMA IndependenceStep ==
  ASSUME TypeOK, DecisionIsAllowed, MergeIsIndependent, [Next]_vars
  PROVE  MergeIsIndependent'
  <1>1. CASE Admit  BY <1>1, AdmitStep
  <1>2. CASE admitted' = admitted /\ op' = op
    BY <1>2 DEF MergeIsIndependent, DeclaresImplementers, DeclaredEntries
  <1> QED  BY <1>1, <1>2 DEF Next, vars, Submit, Activate, Assemble, Evaluate

(* The variables have their types in every reachable state.                 *)
THEOREM TypeCorrect == Spec => []TypeOK
  <1>1. Init => TypeOK  BY ConstantsOk DEF Init, TypeOK
  <1>2. TypeOK /\ [Next]_vars => TypeOK'  BY TypeStep
  <1> QED  BY <1>1, <1>2, PTL DEF Spec

(* Every ALLOW that is sealed is what the gate says of its own rows.        *)
THEOREM AllowsAreAllowed == Spec => []DecisionIsAllowed
  <1>1. Init => DecisionIsAllowed  BY DEF Init, DecisionIsAllowed
  <1>2. TypeOK /\ DecisionIsAllowed /\ [Next]_vars => DecisionIsAllowed'  BY DecisionStep
  <1> QED  BY <1>1, <1>2, TypeCorrect, PTL DEF Spec

(* For all registries, policies, envelopes and orders of sealing, assembly, *)
(* evaluation, activation and admission: the reviewer, and an agent that    *)
(* decides a merge, are of other products than every known implementer of   *)
(* the run (referencePolicy.ts independent_product, pep.ts recheck #18).    *)
THEOREM MergesAreIndependent == Spec => []MergeIsIndependent
  <1>1. Init => MergeIsIndependent  BY DEF Init, MergeIsIndependent
  <1>2. TypeOK /\ DecisionIsAllowed /\ MergeIsIndependent /\ [Next]_vars
          => MergeIsIndependent'
    BY IndependenceStep
  <1> QED  BY <1>1, <1>2, TypeCorrect, AllowsAreAllowed, PTL DEF Spec

-----------------------------------------------------------------------------
(* The broker *)

(* The container is gone for good: what could create it was answered.      *)
Gone == request["create"] = "done" /\ container = "none"

(* What is there of an operation: nothing before its client, and an answer *)
(* that is not a failure is the reply to a request that was served, read   *)
(* by a client that is gone.                                               *)
Clients ==
  \A o \in Operations :
    /\ client[o] = "none" => request[o] = "unsent" /\ answer[o] = NoAnswer
    /\ request[o] # "done" => reply[o] = NoAnswer
    /\ answer[o] \notin {NoAnswer, Nothing} => client[o] = "gone"
    /\ answer[o] \notin {NoAnswer, Nothing, Failure(o)} =>
         request[o] = "done" /\ answer[o] = reply[o]

(* What the daemon has told is so: a container comes of its one create,    *)
(* and a zero of the surface's own end.                                    *)
Daemon ==
  /\ reply["create"] \in {NoAnswer, "CREATED", "REJECTED"}
  /\ reply["launch"] \in {NoAnswer, "ZERO", "OTHER"}
  /\ reply["rm"] \in {NoAnswer, "REMOVED"}
  /\ reply["ps"] \in {NoAnswer, "PRESENT", "ABSENT"}
  /\ request["create"] = "done" <=> reply["create"] # NoAnswer
  /\ container # "none" => reply["create"] = "CREATED"
  /\ container = "running" => request["launch"] = "done" /\ reply["launch"] = NoAnswer
  /\ reply["launch"] = "ZERO" => Gone /\ own = "ZERO"
  /\ own # "none" => request["launch"] = "done"

(* Whose client may be there: that of the command at work, those that the  *)
(* ledger holds, and the launcher's while it runs or is stopped.           *)
Owners ==
  /\ Command(pc) = "none" => step = "start"
  /\ \A o \in {"rm", "ps"} : client[o] # "none" =>
       Command(pc) = o /\ step \in {"result", "closed"}
  /\ pc = "idle" \/ (pc = "create" /\ step = "start") => client["create"] = "none"
  /\ Present("create") =>
       "create" \in held \/ (pc = "create" /\ step \in {"result", "closed"})
  /\ Present("launch") => "launch" \in held \/ pc \in {"running", "stopping"}
  /\ pc \in {"idle"} \union CreationPcs => client["launch"] = "none"
  /\ strays \subseteq held \ {"launch"}
  /\ pc \in {"idle", "running", "stopping"} => held = {}

(* What the runner has been told, and still holds.                         *)
Told ==
  /\ step \in {"start", "result"} => got = NoAnswer
  /\ pc = "create" /\ step # "over" => held = {}
  /\ pc = "create" /\ got \in {"CREATED", "REJECTED"} => got = answer["create"] /\ held = {}
  /\ pc = "create" /\ reply["create"] = "CREATED" => container = "created"
  /\ pc \in BoundPcs => reply["create"] = "CREATED" /\ ~Present("create")
  /\ pc \in {"running", "stopping", "orphan"} => container # "none" \/ own # "none"
  /\ pc \in {"idle", "running"} \union CreationPcs => ~over
  /\ reply["ps"] = "PRESENT" \/ got = "PRESENT" \/ appeared => request["create"] = "done"
  /\ appeared \/ pc \in BoundPcs =>
       (got = "ABSENT" \/ reply["ps"] = "ABSENT" => Gone)

(* What it is about to report, and what it has reported.                   *)
Claims ==
  /\ claim \in {"TERMINATION_UNCONFIRMED", "EXITED", "TERMINATED"}
  /\ claim # "TERMINATION_UNCONFIRMED" => Gone
  /\ claim = "EXITED" => own # "none"
  /\ ended # Running => pc = "done"
  /\ EndIsTrue
  /\ ended.state = "NEVER_CREATED" => client["launch"] = "none"
  /\ ended.status = "ZERO" => ended.state = "EXITED" /\ own = "ZERO" /\ ~over

(* A success is handed on, from the surface to the caller, as it is.       *)
Handed ==
  /\ job = "finish" \/ outcome = "value" => ended.status = "ZERO"
  /\ outcome # "none" => job \in {"cleanup", "settled"}
  /\ response = "value" => outcome = "value" /\ job = "settled"
  /\ response # "none" => answered
  /\ rpc = "value" => response = "value"

(* The invariant of the surface alone, which is inductive by itself, and   *)
(* that of the whole.                                                      *)
SurfaceInv == SurfaceTypeOK /\ Clients /\ Daemon /\ Owners /\ Told /\ Claims
BrokerInv == SurfaceInv /\ BrokerTypeOK /\ Handed

-----------------------------------------------------------------------------
(* The command of each position.                                          *)
LEMMA Commands ==
  /\ \A p : Command(p) = "create" <=> p = "create"
  /\ \A p : Command(p) = "ps" <=> p \in {"watch", "orphan", "confirm"}
  /\ \A p : Command(p) = "rm" <=> p \in {"watch.remove", "sweep", "remove"}
  /\ \A p : Command(p) \in {"create", "ps", "rm", "none"}
  BY DEF Command

(* The tables of the newest command of each operation have their types.    *)
Tables ==
  /\ client \in [Operations -> {"none", "alive", "killed", "gone"}]
  /\ request \in [Operations -> {"unsent", "sent", "done"}]
  /\ reply \in [Operations -> Answers]
  /\ answer \in [Operations -> Answers]

(* With these facts the sets need not be read as enumerations.             *)
LEMMA Vocabulary ==
  /\ {"none", "UNKNOWN", "CREATED", "REJECTED", "ZERO", "OTHER", "REMOVED", "PRESENT", "ABSENT"}
       \subseteq Answers
  /\ {"EXITED", "TERMINATED", "NEVER_CREATED", "TERMINATION_UNCONFIRMED"}
       \subseteq SurfaceState
  /\ {"create", "launch", "rm", "ps"} \subseteq Operations
  BY DEF Answers, SurfaceState, Operations, NoAnswer,
         Nothing

(* They keep them.                                                        *)
LEMMA TablesStep ==
  ASSUME Tables, External \/ Runner \/ Expire \/ Begin
  PROVE  Tables'
<1> USE Vocabulary DEF NoAnswer, Nothing, Tables, runnerVars,
                       clientVars
<1>1. ASSUME NEW o \in Operations,
             \/ Send(o) \/ Close(o) \/ Die(o) \/ ErrorEvent(o)
             \/ StrayCloses(o)
      PROVE Tables'
  <2>1. {Failure(o)} \union ({reply[o]} \ {NoAnswer}) \subseteq Answers
    BY DEF Failure
  <2> QED BY <1>1, <2>1 DEF Send, Close, Die, ErrorEvent, StrayCloses
<1>2. ASSUME NEW o \in Operations, Serve(o) PROVE Tables'
  BY <1>2 DEF Serve
<1>3. CASE SurfaceExits
  BY <1>3 DEF SurfaceExits
<1>4. CASE Issue
  BY <1>4 DEF Issue, Spawn
<1>5. CASE TakeAnswer \/ AnswerDeadline
  BY <1>5 DEF TakeAnswer, AnswerDeadline, EndAnswer, Cancel
<1>6. ASSUME NEW o \in Operations, LetGo(o) PROVE Tables'
  <2>1. CASE o = "create"
    BY <1>6, <2>1 DEF LetGo
  <2>2. CASE o # "create"
    BY <1>6, <2>2 DEF LetGo
  <2> QED BY <2>1, <2>2
<1>7. CASE Created
  BY <1>7 DEF Created, Spawn
<1>8. CASE LauncherSettles \/ SurfaceBound
  BY <1>8 DEF LauncherSettles, SurfaceBound, Cancel
<1>9. CASE UNCHANGED clientVars
  BY <1>9
<1> QED BY <1>1, <1>2, <1>3, <1>4, <1>5, <1>6, <1>7, <1>8, <1>9
        DEF External, Runner, Released, NotReleased,
            Expire, Begin, TooLate, Watched,
            WatchRemoved, WatchNext, Swept, LauncherStopped,
            Orphan, Removed, Confirmed, TerminateNext,
            Return

LEMMA SurfaceTypeStep ==
  ASSUME SurfaceTypeOK, External \/ Runner \/ Expire
         \/ Begin PROVE SurfaceTypeOK'
<1>1. Tables'
  BY TablesStep DEF SurfaceTypeOK, Tables
<1> USE <1>1, Vocabulary DEF NoAnswer, Nothing, CreationPcs,
                             BoundPcs, SurfaceTypeOK, Tables,
                             runnerVars, clientVars
<1>2. CASE External
  <2>1. UNCHANGED runnerVars /\ strays' \subseteq strays
    BY <1>2 DEF External, Send, Serve, Close, Die,
                ErrorEvent, StrayCloses, SurfaceExits
  <2>2. container' \in {"none", "created", "running"} /\ own' \in {"none", "ZERO", "OTHER"}
    BY <1>2 DEF External, Send, Serve, Close, Die,
                ErrorEvent, StrayCloses, SurfaceExits
  <2> QED BY <2>1, <2>2
<1>3. CASE Issue
  BY <1>3 DEF Issue, Spawn
<1>4. CASE TooLate
  BY <1>4 DEF TooLate
<1>5. CASE Expire
  BY <1>5 DEF Expire
<1>6. CASE TakeAnswer \/ AnswerDeadline
  <2>1. got' \in Answers \union {"DEADLINE"} /\ step' = "closed"
    BY <1>6 DEF TakeAnswer, AnswerDeadline, EndAnswer
  <2>2. UNCHANGED <<pc, expired, held, appeared, over, claim, ended, strays, container, own>>
    BY <1>6 DEF TakeAnswer, AnswerDeadline, EndAnswer
  <2> QED BY <2>1, <2>2
<1>7. CASE Released \/ NotReleased
  <2>1. held' \subseteq Operations /\ strays' \subseteq Operations
    BY <1>7 DEF Released, NotReleased, Recorded, LetGo
  <2>2. got' \in {got, "DEADLINE"} /\ step' = "over" /\ expired' \in BOOLEAN
    BY <1>7 DEF Released, NotReleased
  <2>3. UNCHANGED <<pc, appeared, over, claim, ended, container, own>>
    BY <1>7 DEF Released, NotReleased
  <2> QED BY <2>1, <2>2, <2>3
<1>8. ASSUME NEW s \in {"ZERO", "OTHER"}, NEW c \in SurfaceState, NEW l,
             ended' = [status |-> s, state |-> Reported(c, l)]
      PROVE  ended' \in [status : {"ZERO", "OTHER"}, state : SurfaceState]
  BY <1>8 DEF Reported
<1>9. CASE Created \/ Watched \/ Swept
  BY <1>8, <1>9 DEF Created, Watched, Swept, Goto,
                    NewWindow, SameWindow, Spawn, End
<1>10. CASE Begin \/ WatchRemoved \/ WatchNext
  BY <1>10 DEF Begin, WatchRemoved, WatchNext, Goto,
               NewWindow, SameWindow
<1>11. CASE LauncherSettles
  <2>1. [status |-> "ZERO", state |-> "EXITED"]
          \in [status : {"ZERO", "OTHER"}, state : SurfaceState]
    OBVIOUS
  <2> QED BY <1>11, <2>1 DEF LauncherSettles, Goto, NewWindow,
                             SameWindow
<1>12. CASE SurfaceBound \/ LauncherStopped
  BY <1>12 DEF SurfaceBound, LauncherStopped, Goto, NewWindow,
               SameWindow, Recorded
<1>13. CASE Orphan \/ Removed \/ Confirmed \/ TerminateNext
  BY <1>13 DEF Orphan, Removed, Confirmed, TerminateNext,
               Goto, SameWindow
<1>14. CASE Return
  BY <1>8, <1>14 DEF Return, Goto, SameWindow, End,
                     Recorded
<1> QED BY <1>2, <1>3, <1>4, <1>5, <1>6, <1>7, <1>9, <1>10, <1>11, <1>12, <1>13, <1>14
    DEF Runner

(* From here on all of it is finite, and read as such.                     *)
USE Commands DEF Operations, NoAnswer, Nothing, Running,
                 CreationPcs, BoundPcs, Present, MayAppear,
                 Gone, Failure

(* A client or the daemon moves, at any moment of the runner.              *)
LEMMA ExternalStep ==
  ASSUME SurfaceInv, External PROVE SurfaceInv'
<1>typed. SurfaceTypeOK'
  BY SurfaceTypeStep DEF SurfaceInv, Runner
<1> USE DEF SurfaceInv, SurfaceTypeOK, Clients, Daemon, Owners, Told, Claims,
            EndIsTrue, runnerVars, clientVars
<1>1. ASSUME NEW o \in Operations, Send(o) PROVE SurfaceInv'
  BY <1>typed, <1>1 DEF Send
<1>2. ASSUME NEW o \in Operations, Serve(o) PROVE SurfaceInv'
  <2>1. CASE o = "create"
    BY <1>typed, <1>2, <2>1 DEF Serve
  <2>2. CASE o = "launch"
    BY <1>typed, <1>2, <2>2 DEF Serve
  <2>3. CASE o = "rm"
    BY <1>typed, <1>2, <2>3 DEF Serve
  <2>4. CASE o = "ps"
    BY <1>typed, <1>2, <2>4 DEF Serve
  <2> QED BY <2>1, <2>2, <2>3, <2>4
<1>3. ASSUME NEW o \in Operations, Close(o) PROVE SurfaceInv'
  BY <1>typed, <1>3 DEF Close
<1>4. ASSUME NEW o \in Operations, Die(o) PROVE SurfaceInv'
  BY <1>typed, <1>4 DEF Die
<1>5. ASSUME NEW o \in Operations, ErrorEvent(o) PROVE SurfaceInv'
  BY <1>typed, <1>5 DEF ErrorEvent
<1>6. ASSUME NEW o \in Operations, StrayCloses(o) PROVE SurfaceInv'
  BY <1>typed, <1>6 DEF StrayCloses
<1>7. CASE SurfaceExits
  BY <1>typed, <1>7 DEF SurfaceExits
<1> QED BY <1>1, <1>2, <1>3, <1>4, <1>5, <1>6, <1>7 DEF External, Runner

(* A command under its deadline (settle).                                  *)
LEMMA CommandStep ==
  ASSUME SurfaceInv, Issue \/ TooLate \/ TakeAnswer
                     \/ AnswerDeadline \/ Released
                     \/ NotReleased \/ Expire
  PROVE  SurfaceInv'
<1>typed. SurfaceTypeOK'
  BY SurfaceTypeStep DEF SurfaceInv, Runner
<1> USE DEF SurfaceInv, SurfaceTypeOK, Clients, Daemon, Owners, Told, Claims,
            EndIsTrue, runnerVars, clientVars
<1>1. CASE Issue
  BY <1>typed, <1>1 DEF Issue, Ask, Spawn
<1>2. CASE TooLate
  BY <1>typed, <1>2 DEF TooLate
<1>3. CASE Expire
  BY <1>typed, <1>3 DEF Expire
<1>4. CASE TakeAnswer
  BY <1>typed, <1>4 DEF TakeAnswer, EndAnswer, Ask, Cancel
<1>5. CASE AnswerDeadline
  BY <1>typed, <1>5 DEF AnswerDeadline, EndAnswer, Ask, Cancel
<1>6. CASE Released
  BY <1>typed, <1>6 DEF Released, Ask, Recorded, LetGo
<1>7. CASE NotReleased
  BY <1>typed, <1>7 DEF NotReleased, Ask, Recorded, LetGo
<1> QED BY <1>1, <1>2, <1>3, <1>4, <1>5, <1>6, <1>7 DEF External, Runner

(* The creation, and its reconciliation when it was not acknowledged.      *)
LEMMA CreationStep ==
  ASSUME SurfaceInv, Begin \/ Created \/ Watched
                     \/ WatchRemoved \/ WatchNext \/ Swept
  PROVE  SurfaceInv'
<1>typed. SurfaceTypeOK'
  BY SurfaceTypeStep DEF SurfaceInv, Runner
<1> USE DEF SurfaceInv, SurfaceTypeOK, Clients, Daemon, Owners, Told, Claims,
            EndIsTrue, runnerVars, clientVars
<1>1. CASE Begin
  BY <1>typed, <1>1 DEF Begin, Goto, NewWindow
<1>2. CASE Created
  <2> USE DEF Created, Goto, NewWindow, SameWindow,
              Spawn, End, Reported, CreationOf
  <2>1. CASE got = "CREATED"
    BY <1>typed, <1>2, <2>1
  <2>2. CASE got = "REJECTED"
    BY <1>typed, <1>2, <2>2
  <2>3. CASE got \notin {"CREATED", "REJECTED"}
    BY <1>typed, <1>2, <2>3
  <2> QED BY <2>1, <2>2, <2>3
<1>3. CASE Watched
  BY <1>typed, <1>3 DEF Watched, Goto, SameWindow, End,
                        Reported
<1>4. CASE WatchRemoved
  BY <1>typed, <1>4 DEF WatchRemoved, Goto, SameWindow
<1>5. CASE WatchNext
  BY <1>typed, <1>5 DEF WatchNext, Goto, NewWindow, SameWindow
<1>6. CASE Swept
  BY <1>typed, <1>6 DEF Swept, Goto, NewWindow, SameWindow,
                        End, Reported
<1> QED BY <1>1, <1>2, <1>3, <1>4, <1>5, <1>6 DEF External, Runner

(* The run, its stop and its end.                                          *)
LEMMA BoundStep ==
  ASSUME SurfaceInv, LauncherSettles \/ SurfaceBound
                     \/ LauncherStopped \/ Orphan \/ Removed
                     \/ Confirmed \/ TerminateNext \/ Return
  PROVE  SurfaceInv'
<1>typed. SurfaceTypeOK'
  BY SurfaceTypeStep DEF SurfaceInv, Runner
<1> USE DEF SurfaceInv, SurfaceTypeOK, Clients, Daemon, Owners, Told, Claims,
            EndIsTrue, runnerVars, clientVars
<1>1. CASE LauncherSettles
  BY <1>typed, <1>1 DEF LauncherSettles, Goto, SameWindow,
                        NewWindow, Cancel
<1>2. CASE SurfaceBound
  BY <1>typed, <1>2 DEF SurfaceBound, Goto, SameWindow,
                        NewWindow, Cancel
<1>3. CASE LauncherStopped
  BY <1>typed, <1>3 DEF LauncherStopped, Goto, SameWindow,
                        Recorded
<1>4. CASE Orphan
  BY <1>typed, <1>4 DEF Orphan, Goto, SameWindow
<1>5. CASE Confirmed
  BY <1>typed, <1>5 DEF Confirmed, Goto, SameWindow
<1>6. CASE Removed
  BY <1>typed, <1>6 DEF Removed, Goto, SameWindow
<1>7. CASE TerminateNext
  BY <1>typed, <1>7 DEF TerminateNext, Goto, SameWindow
<1>8. CASE Return
  BY <1>typed, <1>8 DEF Return, Goto, SameWindow, End,
                        Reported, Recorded
<1> QED BY <1>1, <1>2, <1>3, <1>4, <1>5, <1>6, <1>7, <1>8
    DEF External, Runner

(* A surface that has not begun.                                          *)
LEMMA SurfaceStarts == SurfaceInit => SurfaceInv
<1> SUFFICES ASSUME SurfaceInit PROVE SurfaceInv
  OBVIOUS
<1>1. SurfaceTypeOK
  BY Vocabulary DEF SurfaceInit, SurfaceTypeOK
<1>2. Clients /\ Daemon /\ Owners /\ Told /\ Claims
  BY DEF SurfaceInit, Clients, Daemon, Owners, Told, Claims, EndIsTrue
<1> QED BY <1>1, <1>2 DEF SurfaceInv

(* A step that leaves the surface alone.                                   *)
LEMMA SurfaceStays == ASSUME SurfaceInv, UNCHANGED surfaceVars PROVE SurfaceInv'
  BY DEF SurfaceInv, SurfaceTypeOK, Clients, Daemon, Owners, Told, Claims,
         EndIsTrue, surfaceVars, runnerVars, clientVars

(* Every step of the broker keeps the invariant of the surface, ...        *)
LEMMA SurfaceStep == ASSUME SurfaceInv, [BrokerNext]_allVars PROVE SurfaceInv'
<1>1. CASE Runner \/ Expire \/ External \/ RunSurface
  BY <1>1, ExternalStep, CommandStep, CreationStep, BoundStep
      DEF Runner, RunSurface
<1>2. CASE UNCHANGED surfaceVars
  BY <1>2, SurfaceStays
<1> QED BY <1>1, <1>2 DEF BrokerNext, Job, PrepareFails,
                          SurfaceReturns, Finish, Cleanup,
                          Guard, Hear, GiveUp,
                          ConnectionCloses, allVars

(* What has ended with 0 stays so: nothing of the surface is left to move. *)
LEMMA EndStays ==
  ASSUME SurfaceInv, ended.status = "ZERO", [BrokerNext]_allVars
  PROVE  UNCHANGED <<ended, own, over>>
<1> USE DEF SurfaceInv, Claims, EndIsTrue, Owners
<1>1. pc = "done" /\ container = "none" /\ step = "start"
  OBVIOUS
<1>2. CASE Runner \/ Expire \/ RunSurface
  BY <1>1, <1>2 DEF Runner, Issue, TooLate, TakeAnswer,
                    AnswerDeadline, EndAnswer, Ask, Released,
                    NotReleased, Created, Watched,
                    WatchRemoved, WatchNext, Swept,
                    LauncherSettles, SurfaceBound, LauncherStopped,
                    Orphan, Removed, Confirmed, TerminateNext,
                    Return, Expire, RunSurface, Begin
<1>3. CASE External
  BY <1>1, <1>3 DEF External, Send, Serve, Close, Die,
                    ErrorEvent, StrayCloses, SurfaceExits,
                    runnerVars
<1>4. CASE UNCHANGED surfaceVars
  BY <1>4 DEF surfaceVars, runnerVars
<1> QED BY <1>2, <1>3, <1>4 DEF BrokerNext, Job, PrepareFails,
                                SurfaceReturns, Finish, Cleanup,
                                Guard, Hear, GiveUp,
                                ConnectionCloses, allVars

(* ... and that of what is handed on: a zero that was read does not change.*)
LEMMA BrokerStep ==
  ASSUME BrokerInv, [BrokerNext]_allVars PROVE BrokerTypeOK' /\ Handed'
<1>1. SurfaceInv'
  BY SurfaceStep DEF BrokerInv
<1>2. ended.status = "ZERO" => UNCHANGED <<ended, own, over>>
  BY EndStays DEF BrokerInv
<1>3. CASE UNCHANGED brokerVars
  BY <1>1, <1>2, <1>3 DEF BrokerInv, SurfaceInv, BrokerTypeOK, Handed, brokerVars
<1> USE DEF BrokerInv, BrokerTypeOK, Handed
<1>4. CASE PrepareFails \/ RunSurface \/ SurfaceReturns
  BY <1>1, <1>2, <1>4 DEF SurfaceInv, PrepareFails, RunSurface,
                          SurfaceReturns, Throw, Negative,
                          Succeeded, surfaceVars, runnerVars
<1>5. CASE Finish
  BY <1>1, <1>2, <1>5 DEF SurfaceInv, Finish, Throw, Negative,
                          surfaceVars, runnerVars
<1>6. CASE Cleanup \/ Guard
  BY <1>1, <1>2, <1>6 DEF SurfaceInv, Cleanup, Guard, Answer,
                          surfaceVars, runnerVars
<1>7. CASE Hear \/ GiveUp \/ ConnectionCloses
  BY <1>1, <1>2, <1>7 DEF SurfaceInv, Hear, Read, GiveUp,
                          ConnectionCloses, surfaceVars, runnerVars
<1> QED BY <1>3, <1>4, <1>5, <1>6, <1>7 DEF BrokerNext, Job, allVars

(* Of every order of answers, deaths, deadlines and broken connections:    *)
(* the runner's ledger, what it was told and what it claims agree with     *)
(* what the daemon did (runBoundedSurface, settle, surfaceBroker.ts).      *)
THEOREM BrokerInvariance == BrokerSpec => []BrokerInv
<1>1. BrokerInit => BrokerInv
  <2> SUFFICES ASSUME BrokerInit PROVE BrokerInv
    OBVIOUS
  <2>1. SurfaceInv
    BY SurfaceStarts DEF BrokerInit
  <2> QED BY <2>1 DEF BrokerInit, BrokerInv, SurfaceInv, BrokerTypeOK, Handed,
                      SurfaceInit
<1>2. BrokerInv /\ [BrokerNext]_allVars => BrokerInv'
  BY SurfaceStep, BrokerStep DEF BrokerInv
<1> QED BY <1>1, <1>2, PTL DEF BrokerSpec

(* A run that reports EXITED or TERMINATED left nothing behind, and        *)
(* nothing of it can come up later; one that reports NEVER_CREATED has not *)
(* run the agent and never will (reported, observationOf,                  *)
(* reconcileUnacknowledgedCreation of isolation.ts).                       *)
THEOREM EndsAreTrue == BrokerSpec => []EndIsTrue
<1>1. BrokerInv => EndIsTrue
  BY DEF BrokerInv, SurfaceInv, Claims
<1> QED BY <1>1, BrokerInvariance, PTL

(* A caller that is given a success is given that of a surface which ended *)
(* by itself with 0 inside its bound (the status of runBoundedSurface,     *)
(* answer of surfaceBroker.ts, brokerPostJson).                            *)
THEOREM ValuesAreEarned == BrokerSpec => []ValueIsEarned
<1>1. BrokerInv => ValueIsEarned
  BY DEF BrokerInv, SurfaceInv, Claims, Handed, ValueIsEarned
<1> QED BY <1>1, BrokerInvariance, PTL

(* The promise: one answer, and a success only after one was earned.       *)
Promise == INSTANCE OneAnswer WITH earned <- ended.status = "ZERO", heard <- rpc

(* The broker keeps it: the surface's end, the response, the guard, the    *)
(* caller's budget and the connection race, whoever comes late changes     *)
(* nothing, and a zero that was earned is not unsaid.                      *)
THEOREM AnswersAreSingle == BrokerSpec => Promise!Spec
<1>1. BrokerInit => Promise!Init
  BY DEF BrokerInit, SurfaceInit, Promise!Init
<1>2. BrokerInv /\ [BrokerNext]_allVars => [Promise!Next]_(Promise!vars)
  <2> SUFFICES ASSUME BrokerInv, [BrokerNext]_allVars PROVE [Promise!Next]_(Promise!vars)
    OBVIOUS
  <2> DEFINE earned == ended.status = "ZERO"
  <2>1. CASE UNCHANGED rpc
    <3>1. earned \in BOOLEAN /\ (earned => earned')
      BY EndStays DEF BrokerInv
    <3> QED BY <2>1, <3>1 DEF Promise!Next, Promise!Earn, Promise!vars
  <2>2. CASE Hear \/ GiveUp
    <3>1. UNCHANGED earned /\ rpc = "waiting" /\ rpc' \in {"value", "negative", "failed"}
      BY <2>2 DEF Hear, Read, GiveUp, surfaceVars,
                  runnerVars
    <3>2. rpc' = "value" => earned
      BY <2>2 DEF BrokerInv, Handed, Hear, Read, GiveUp
    <3> QED BY <3>1, <3>2 DEF Promise!Next, Promise!Hear
  <2> QED BY <2>1, <2>2 DEF BrokerNext, brokerVars, Job,
                            PrepareFails, RunSurface, SurfaceReturns,
                            Finish, Cleanup, Guard,
                            ConnectionCloses, allVars
<1> QED BY <1>1, <1>2, BrokerInvariance, PTL DEF BrokerSpec, Promise!Spec
=============================================================================
