--------------------------- MODULE SurfaceRunner ---------------------------
(***************************************************************************)
(* One bounded agent surface: runBoundedSurface of cadp/product/           *)
(* isolation.ts, the docker commands it runs, and the daemon that answers  *)
(* them.                                                                   *)
(*                                                                         *)
(* The runner owns a container through short-lived docker clients.  It     *)
(* waits for a client's answer, and for the client's process to be gone,   *)
(* under the deadline of a window; what has not answered by then has       *)
(* established nothing, and may still act.  A client, a request that has   *)
(* reached the daemon, and a container have three different lifetimes.     *)
(*                                                                         *)
(* Time is the end of the current window, which may come at any moment     *)
(* (Expire).  The container's name is unique to the run, so this module    *)
(* has one run and one container.                                          *)
(***************************************************************************)
EXTENDS FiniteSets

VARIABLES
  \* the runner
  pc,         \* where runBoundedSurface stands
  step,       \* of the control command at pc: not started, which wait, its outcome
  got,        \* what the last control command established
  expired,    \* the current window is over
  held,       \* the ledger: operations of which a client was not confirmed gone
  appeared,   \* reconciling: the container has been seen
  over,       \* the surface's own bound expired before its launcher settled
  claim,      \* the state to report, before the ledger is asked
  ended,      \* RunResult
  \* its commands: of each operation the newest
  client,     \* the docker client's process
  request,    \* its request to the daemon
  reply,      \* what the daemon did with it
  answer,     \* what `result` resolved to
  strays,     \* queries and removals that were let go while their client was there
  \* the daemon
  container,
  own         \* history: how the surface ended, when it ended by itself

runnerVars == <<pc, step, got, expired, held, appeared, over, claim, ended>>
clientVars == <<client, request, reply, answer, strays>>
surfaceVars == <<runnerVars, clientVars, container, own>>

Operations == {"create", "launch", "rm", "ps"}
NoAnswer == "none"
(* An answer that establishes nothing: of a client that was signalled or   *)
(* could not be spawned, and of a query that failed: never ABSENT.         *)
Nothing == "UNKNOWN"
(* What is read from a client that exits with a failure of its own, the    *)
(* daemon's or the lost daemon's: a create counts as refused either way.   *)
Failure(o) == CASE o = "create" -> "REJECTED"
                [] o = "launch" -> "OTHER"
                [] OTHER        -> Nothing
Answers == {NoAnswer, Nothing, "CREATED", "REJECTED", "ZERO", "OTHER", "REMOVED",
            "PRESENT", "ABSENT"}
SurfaceState == {"EXITED", "TERMINATED", "NEVER_CREATED", "TERMINATION_UNCONFIRMED"}
CreationPcs == {"create", "watch", "watch.remove", "watch.next", "sweep"}
BoundPcs == {"running", "stopping", "orphan", "remove", "confirm", "next", "launcher"}
Running == [status |-> "none", state |-> "none"]

SurfaceTypeOK ==
  /\ pc \in {"idle", "done"} \union CreationPcs \union BoundPcs
  /\ step \in {"start", "result", "closed", "over"}
  /\ got \in Answers \union {"DEADLINE"}
  /\ expired \in BOOLEAN /\ appeared \in BOOLEAN /\ over \in BOOLEAN
  /\ held \subseteq Operations /\ strays \subseteq Operations
  /\ claim \in SurfaceState
  /\ ended \in {Running} \union [status : {"ZERO", "OTHER"}, state : SurfaceState]
  /\ client \in [Operations -> {"none", "alive", "killed", "gone"}]
  /\ request \in [Operations -> {"unsent", "sent", "done"}]
  /\ reply \in [Operations -> Answers]
  /\ answer \in [Operations -> Answers]
  /\ container \in {"none", "created", "running"}
  /\ own \in {"none", "ZERO", "OTHER"}

SurfaceInit ==
  /\ pc = "idle" /\ step = "start" /\ got = NoAnswer
  /\ expired = FALSE /\ held = {} /\ appeared = FALSE /\ over = FALSE
  /\ claim = "TERMINATION_UNCONFIRMED" /\ ended = Running
  /\ client = [o \in Operations |-> "none"]
  /\ request = [o \in Operations |-> "unsent"]
  /\ reply = [o \in Operations |-> NoAnswer]
  /\ answer = [o \in Operations |-> NoAnswer]
  /\ strays = {} /\ container = "none" /\ own = "none"

Present(o) == client[o] \in {"alive", "killed"}
(* The create can still bring the container up: its request is with the    *)
(* daemon, or a client is there that can send it.                          *)
MayAppear ==
  \/ request["create"] = "sent"
  \/ request["create"] = "unsent" /\ Present("create")

(***************************************************************************)
(* Docker clients and the daemon (external).  A killed client may have     *)
(* sent its request, or have its answer, before the signal takes effect.   *)
(***************************************************************************)
Send(o) ==
  /\ Present(o) /\ request[o] = "unsent"
  /\ request' = [request EXCEPT ![o] = "sent"]
  /\ UNCHANGED <<runnerVars, client, reply, answer, strays, container, own>>

(* What the daemon does with a request, whether or not anybody waits.      *)
Serve(o) ==
  /\ request[o] = "sent"
  /\ request' = [request EXCEPT ![o] = "done"]
  /\ \/ /\ o = "create"
        /\ \/ container' = "created" /\ reply' = [reply EXCEPT ![o] = "CREATED"]
           \/ reply' = [reply EXCEPT ![o] = "REJECTED"] /\ UNCHANGED container
     \/ /\ o = "launch"
        /\ IF container = "created"
           THEN container' = "running" /\ UNCHANGED reply
           ELSE reply' = [reply EXCEPT ![o] = "OTHER"] /\ UNCHANGED container
     \/ /\ o = "rm"
        /\ container' = "none"
        /\ reply' = [reply EXCEPT ![o] = "REMOVED",
                                  !["launch"] = IF container = "running" THEN "OTHER" ELSE @]
     \/ /\ o = "ps"
        /\ reply' = [reply EXCEPT ![o] = IF container = "none" THEN "ABSENT" ELSE "PRESENT"]
        /\ UNCHANGED container
  /\ UNCHANGED <<runnerVars, client, answer, strays, own>>

(* The surface ends by itself; --rm takes its container with it.           *)
SurfaceExits ==
  /\ container = "running"
  /\ container' = "none"
  /\ own' \in {"ZERO", "OTHER"}
  /\ reply' = [reply EXCEPT !["launch"] = own']
  /\ UNCHANGED <<runnerVars, client, request, answer, strays>>

(* `close`: the client exited by itself.  `result` resolves to what it was *)
(* told, or to a failure when it did not reach, or lost, the daemon: what  *)
(* became of its request is then not known.                                *)
Close(o) ==
  /\ Present(o)
  /\ client' = [client EXCEPT ![o] = "gone"]
  /\ \E a \in {Failure(o)} \union ({reply[o]} \ {NoAnswer}) :
       answer' = [answer EXCEPT ![o] = IF @ # NoAnswer THEN @ ELSE a]
  /\ UNCHANGED <<runnerVars, request, reply, strays, container, own>>

(* A client is killed before it has read its answer.                       *)
Die(o) ==
  /\ Present(o) /\ answer[o] = NoAnswer
  /\ client' = [client EXCEPT ![o] = "gone"]
  /\ answer' = [answer EXCEPT ![o] = Nothing]
  /\ UNCHANGED <<runnerVars, request, reply, strays, container, own>>

(* `error`: there is no answer, and the process may well be alive.         *)
ErrorEvent(o) ==
  /\ Present(o) /\ answer[o] = NoAnswer
  /\ answer' = [answer EXCEPT ![o] = Nothing]
  /\ UNCHANGED <<runnerVars, client, request, reply, strays, container, own>>

StrayCloses(o) ==
  /\ o \in strays
  /\ strays' = strays \ {o}
  /\ UNCHANGED <<runnerVars, client, request, reply, answer, container, own>>

External ==
  \/ \E o \in Operations : Send(o) \/ Serve(o) \/ Close(o) \/ Die(o) \/ ErrorEvent(o)
                           \/ StrayCloses(o)
  \/ SurfaceExits

(***************************************************************************)
(* settle: one control command under a deadline                            *)
(***************************************************************************)
(* The control command that each position runs. *)
Command(p) == CASE p = "create" -> "create"
                [] p \in {"watch", "orphan", "confirm"} -> "ps"
                [] p \in {"watch.remove", "sweep", "remove"} -> "rm"
                [] OTHER -> "none"

Spawn(o) ==
  /\ client' = [client EXCEPT ![o] = "alive"]
  /\ UNCHANGED <<request, reply, answer, strays>>

Cancel(o) == client' = [client EXCEPT ![o] = IF @ = "alive" THEN "killed" ELSE @]

\* Mutant: one flag shared by all commands, cleared by whichever closes.
ClearedByAny(o, released) == IF released THEN {} ELSE held \union {o}
(* The ledger holds commands, and a control command is recorded once: only *)
(* the launcher, recorded again later, can find itself there.              *)
Recorded(o, released) ==
  IF released THEN held \ ({o} \intersect {"launch"}) ELSE held \union {o}

Ask(o) == Command(pc) = o /\ o # "none"

Issue ==
  \E o \in Operations :
    /\ Ask(o) /\ step = "start" /\ ~expired
    /\ Spawn(o)
    /\ step' = "result"
    /\ UNCHANGED <<pc, got, expired, held, appeared, over, claim, ended, container, own>>

(* A command is never started past its deadline. *)
TooLate ==
  /\ Command(pc) # "none" /\ step = "start" /\ expired
  /\ got' = "DEADLINE" /\ step' = "over"
  /\ UNCHANGED <<pc, expired, held, appeared, over, claim, ended, clientVars, container, own>>

(* The wait for the answer ends, answered or not; the client is cancelled. *)
EndAnswer(o, outcome) ==
  /\ Ask(o) /\ step = "result"
  /\ got' = outcome /\ step' = "closed"
  /\ Cancel(o)
  /\ UNCHANGED <<pc, expired, held, appeared, over, claim, ended, request, reply, answer,
                 strays, container, own>>
TakeAnswer == \E o \in Operations : answer[o] # NoAnswer /\ EndAnswer(o, answer[o])
AnswerDeadline == \E o \in Operations : EndAnswer(o, "DEADLINE")

(* The runner is done with a client.  Of a query or a removal nothing more *)
(* is followed: a removal that comes later removes what is to be removed.  *)
LetGo(o) ==
  /\ strays' = IF Present(o) /\ o # "create" THEN strays \union {o} ELSE strays
  /\ IF o = "create" THEN UNCHANGED <<client, request, reply, answer>>
     ELSE /\ client' = [client EXCEPT ![o] = "none"]
          /\ request' = [request EXCEPT ![o] = "unsent"]
          /\ reply' = [reply EXCEPT ![o] = NoAnswer]
          /\ answer' = [answer EXCEPT ![o] = NoAnswer]

Released ==
  \E o \in Operations :
    /\ Ask(o) /\ step = "closed" /\ ~Present(o)
    /\ held' = Recorded(o, TRUE)
    /\ step' = "over"
    /\ LetGo(o)
    /\ UNCHANGED <<pc, got, expired, appeared, over, claim, ended, container, own>>

\* Mutant: stop waits for the client to be reaped, however long it takes.
UnboundedReap == FALSE
(* The window ends before the client is gone: what it said is not taken.   *)
NotReleased ==
  \E o \in Operations :
    /\ Ask(o) /\ step = "closed" /\ Present(o)
    /\ held' = Recorded(o, FALSE)
    /\ got' = "DEADLINE" /\ expired' = TRUE /\ step' = "over"
    /\ LetGo(o)
    /\ UNCHANGED <<pc, appeared, over, claim, ended, container, own>>

Expire ==
  /\ pc \notin {"idle", "done"} /\ ~expired
  /\ expired' = TRUE
  /\ UNCHANGED <<pc, step, got, held, appeared, over, claim, ended, clientVars, container, own>>

(***************************************************************************)
(* runBoundedSurface                                                       *)
(***************************************************************************)
Goto(p) == pc' = p /\ step' = "start" /\ got' = NoAnswer
SameWindow == UNCHANGED expired
NewWindow == expired' = FALSE

(* An owner that still holds a client has not established a clean end.     *)
Reported(s, ledger) == IF ledger = {} THEN s ELSE "TERMINATION_UNCONFIRMED"
End(status, s, ledger) ==
  /\ Goto("done") /\ SameWindow
  /\ ended' = [status |-> status, state |-> Reported(s, ledger)]

Begin ==
  /\ pc = "idle"
  /\ Goto("create") /\ NewWindow
  /\ UNCHANGED <<held, appeared, over, claim, ended, clientVars, container, own>>

(* A create that exits by itself is taken for an acknowledgement either    *)
(* way.                                                                    *)
CreationOf(a) == IF a \in {"CREATED", "REJECTED"} THEN a ELSE "UNKNOWN"

(* The create has answered, or has not: launch, report or reconcile.       *)
Created ==
  /\ pc = "create" /\ step = "over"
  /\ CASE CreationOf(got) = "CREATED"  -> Goto("running") /\ NewWindow /\ Spawn("launch") /\ UNCHANGED ended
       [] CreationOf(got) = "REJECTED" -> End("OTHER", "NEVER_CREATED", held) /\ UNCHANGED clientVars
       [] OTHER            -> Goto("watch") /\ NewWindow /\ UNCHANGED <<ended, clientVars>>
  /\ UNCHANGED <<held, appeared, over, claim, container, own>>

(* reconcileUnacknowledgedCreation: look, remove what appears, look again, *)
(* and sweep once more in the slice kept for it.                           *)
Watched ==
  /\ pc = "watch" /\ step = "over"
  /\ CASE got = "PRESENT"             -> /\ Goto("watch.remove") /\ SameWindow
                                         /\ appeared' = TRUE /\ UNCHANGED ended
       [] got = "ABSENT" /\ appeared  -> End("OTHER", "TERMINATED", held) /\ UNCHANGED appeared
       [] OTHER                       -> Goto("watch.next") /\ SameWindow /\ UNCHANGED <<appeared, ended>>
  /\ UNCHANGED <<held, over, claim, clientVars, container, own>>
WatchRemoved ==
  /\ pc = "watch.remove" /\ step = "over"
  /\ Goto("watch.next") /\ SameWindow
  /\ UNCHANGED <<held, appeared, over, claim, ended, clientVars, container, own>>
WatchNext ==
  /\ pc = "watch.next"
  /\ IF expired THEN Goto("sweep") /\ NewWindow ELSE Goto("watch") /\ SameWindow
  /\ UNCHANGED <<held, appeared, over, claim, ended, clientVars, container, own>>
Swept ==
  /\ pc = "sweep" /\ step = "over"
  /\ End("OTHER", "TERMINATION_UNCONFIRMED", held)
  /\ UNCHANGED <<held, appeared, over, claim, clientVars, container, own>>

(* The launcher settles inside the bound.  Only its normal exit with 0 is  *)
(* the surface's own exit.                                                 *)
LauncherSettles ==
  /\ pc = "running" /\ answer["launch"] # NoAnswer
  /\ IF answer["launch"] = "ZERO"
     THEN /\ Goto("done") /\ SameWindow
          /\ ended' = [status |-> "ZERO", state |-> "EXITED"]
          /\ UNCHANGED client
     ELSE Goto("stopping") /\ NewWindow /\ Cancel("launch") /\ UNCHANGED ended
  /\ UNCHANGED <<held, appeared, over, claim, request, reply, answer, strays, container, own>>

SurfaceBound ==
  /\ pc = "running" /\ expired
  /\ over' = TRUE
  /\ Goto("stopping") /\ NewWindow /\ Cancel("launch")
  /\ UNCHANGED <<held, appeared, claim, ended, request, reply, answer, strays, container, own>>

(* stop(launcher) in a slice of its own: gone in time, or recorded.        *)
LauncherStopped ==
  /\ pc = "stopping"
  /\ \E released \in BOOLEAN :
       /\ released => ~Present("launch")
       /\ held' = Recorded("launch", released)
  /\ Goto(IF over THEN "remove" ELSE "orphan") /\ SameWindow
  /\ UNCHANGED <<appeared, over, claim, ended, clientVars, container, own>>

(* settleOrphanedSurface *)
Orphan ==
  /\ pc = "orphan" /\ step = "over"
  /\ IF got = "ABSENT" THEN claim' = "EXITED" /\ Goto("launcher")
                       ELSE UNCHANGED claim /\ Goto("remove")
  /\ SameWindow
  /\ UNCHANGED <<held, appeared, over, ended, clientVars, container, own>>

(* terminateSurface: remove, look, until it is seen gone or time is up.    *)
Removed ==
  /\ pc = "remove" /\ step = "over"
  /\ Goto("confirm") /\ SameWindow
  /\ UNCHANGED <<held, appeared, over, claim, ended, clientVars, container, own>>
Confirmed ==
  /\ pc = "confirm" /\ step = "over"
  /\ IF got = "ABSENT" THEN claim' = "TERMINATED" /\ Goto("launcher")
                       ELSE UNCHANGED claim /\ Goto("next")
  /\ SameWindow
  /\ UNCHANGED <<held, appeared, over, ended, clientVars, container, own>>
TerminateNext ==
  /\ pc = "next"
  /\ IF expired THEN claim' = "TERMINATION_UNCONFIRMED" /\ Goto("launcher")
                ELSE UNCHANGED claim /\ Goto("remove")
  /\ SameWindow
  /\ UNCHANGED <<held, appeared, over, ended, clientVars, container, own>>

(* A launcher that was not gone gets what is left of the window; over      *)
(* budget the runner also waits for what it managed to say.  A zero that   *)
(* came out of a surface which had to be stopped is not reported as one.   *)
Return ==
  /\ pc = "launcher"
  /\ over => answer["launch"] # NoAnswer \/ expired
  /\ \E ledger \in {held, Recorded("launch", TRUE)} :
       /\ IF "launch" \notin held THEN ledger = held
          ELSE IF ledger = held THEN expired ELSE ~Present("launch")
       /\ held' = ledger
       /\ End("OTHER", claim, ledger)
  /\ UNCHANGED <<appeared, over, claim, clientVars, container, own>>

Runner ==
  \/ Issue \/ TooLate \/ TakeAnswer \/ AnswerDeadline \/ Released \/ NotReleased
  \/ Created \/ Watched \/ WatchRemoved \/ WatchNext \/ Swept
  \/ LauncherSettles \/ SurfaceBound \/ LauncherStopped
  \/ Orphan \/ Removed \/ Confirmed \/ TerminateNext \/ Return
=============================================================================
