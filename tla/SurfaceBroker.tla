--------------------------- MODULE SurfaceBroker ---------------------------
(***************************************************************************)
(* One request of an activity to the surface broker (cadp/product/         *)
(* surfaceBroker.ts and brokerTransport.ts), composed with the surface it  *)
(* runs (SurfaceRunner).  Three timers race with the run: the surface's    *)
(* bound, the broker's response budget and the caller's own budget; the    *)
(* connection may break, and whoever comes late must change nothing.       *)
(*                                                                         *)
(* /implement, /verify, /review and /plan have this shape: prepare a       *)
(* workspace, run one surface on it, make the answer of what it left       *)
(* there, remove the workspace.                                            *)
(***************************************************************************)
EXTENDS SurfaceRunner

VARIABLES
  job,        \* operation.run: where it stands
  outcome,    \* what it resolves with: a value that says success, one that does not, an error
  workspace,  \* the ephemeral clone that is mounted in the surface
  answered,   \* the request's flag
  response,   \* what was written to the connection
  rpc         \* brokerPostJson: waiting, or what it settled with

brokerVars == <<job, outcome, workspace, answered, response, rpc>>
allVars == <<surfaceVars, brokerVars>>

BrokerTypeOK ==
  /\ SurfaceTypeOK
  /\ job \in {"prepare", "surface", "finish", "cleanup", "settled"}
  /\ outcome \in {"none", "value", "negative", "error"}
  /\ workspace \in {"clone", "removed"}
  /\ answered \in BOOLEAN
  /\ response \in {"none", "value", "negative", "error", "overdue"}
  /\ rpc \in {"waiting", "value", "negative", "failed"}

BrokerInit ==
  /\ SurfaceInit
  /\ job = "prepare" /\ outcome = "none" /\ workspace = "clone"
  /\ answered = FALSE /\ response = "none" /\ rpc = "waiting"

(* answer: the first one only. *)
Answer(what) ==
  IF answered THEN UNCHANGED <<answered, response>> ELSE answered' = TRUE /\ response' = what

Throw == outcome' = "error" /\ job' = "cleanup"
(* /verify answers UNKNOWN, or a failed conclusion, where others throw. *)
Negative == outcome' = "negative" /\ job' = "cleanup"

(* Docker probe, clone, checkout, sandbox. *)
PrepareFails ==
  /\ job = "prepare" /\ pc = "idle"
  /\ Throw \/ Negative
  /\ UNCHANGED <<surfaceVars, workspace, answered, response, rpc>>
RunSurface ==
  /\ job = "prepare"
  /\ Begin
  /\ job' = "surface"
  /\ UNCHANGED <<outcome, workspace, answered, response, rpc>>

(* A run with any status but 0 is a failure, never a success. *)
\* Mutant: an exit is taken for a success whatever its status.
ExitIsSuccess == ended.state = "EXITED"
Succeeded == ended.status = "ZERO"
SurfaceReturns ==
  /\ job = "surface" /\ pc = "done"
  /\ IF Succeeded THEN job' = "finish" /\ UNCHANGED outcome ELSE Throw \/ Negative
  /\ UNCHANGED <<surfaceVars, workspace, answered, response, rpc>>

(* Commit and bundle, or parse the verdict, the tests' status or the plan. *)
Finish ==
  /\ job = "finish"
  /\ \/ Throw
     \/ Negative
     \/ outcome' = "value" /\ job' = "cleanup"
  /\ UNCHANGED <<surfaceVars, workspace, answered, response, rpc>>

(* finally: the workspace goes; then `then` or `catch` answers. *)
Cleanup ==
  /\ job = "cleanup"
  /\ workspace' = "removed"
  /\ job' = "settled"
  /\ Answer(outcome)
  /\ UNCHANGED <<surfaceVars, outcome, rpc>>

Guard ==
  /\ ~answered
  /\ Answer("overdue")
  /\ UNCHANGED <<surfaceVars, job, outcome, workspace, rpc>>

(* The caller reads a whole response, ... *)
Read == IF response \in {"value", "negative"} THEN response ELSE "failed"
Hear ==
  /\ rpc = "waiting" /\ response # "none"
  /\ rpc' = Read
  /\ UNCHANGED <<surfaceVars, job, outcome, workspace, answered, response>>
(* ... or its budget ends, or the connection breaks; it never tries again. *)
GiveUp ==
  /\ rpc = "waiting"
  /\ rpc' = "failed"
  /\ UNCHANGED <<surfaceVars, job, outcome, workspace, answered, response>>
(* The broker sees the connection closed. *)
ConnectionCloses ==
  /\ rpc # "waiting" /\ ~answered
  /\ answered' = TRUE
  /\ UNCHANGED <<surfaceVars, job, outcome, workspace, response, rpc>>

Job == PrepareFails \/ RunSurface \/ SurfaceReturns \/ Finish \/ Cleanup
BrokerNext ==
  \/ Runner /\ UNCHANGED brokerVars
  \/ Expire /\ UNCHANGED brokerVars
  \/ External /\ UNCHANGED brokerVars
  \/ Job \/ Guard \/ Hear \/ GiveUp \/ ConnectionCloses

BrokerSpec == BrokerInit /\ [][BrokerNext]_allVars

(* The event loop runs what is ready, timers fire, and what the broker     *)
(* does with the workspace after the surface is local and ends.  Nothing   *)
(* is assumed of docker clients, of the daemon, or of the surface; nor of  *)
(* the preparation: its docker info and its git commands have no deadline. *)
Fairness ==
  /\ WF_allVars(Runner /\ UNCHANGED brokerVars)
  /\ WF_allVars(Expire /\ UNCHANGED brokerVars)
  /\ WF_allVars(SurfaceReturns \/ Finish \/ Cleanup)
  /\ WF_allVars(Guard)
  /\ WF_allVars(GiveUp)
FairSpec == BrokerSpec /\ Fairness

(***************************************************************************)
(* Properties                                                              *)
(***************************************************************************)
(* A run that reports an end of its surface holds no docker client.  One   *)
(* that says EXITED or TERMINATED left no container behind, and none can   *)
(* come up later; EXITED is said only of a surface that ended by itself;   *)
(* and one that says NEVER_CREATED never ran the agent, and never will     *)
(* (reported, observationOf, reconcileUnacknowledgedCreation).             *)
EndIsTrue ==
  /\ ended.state \in {"EXITED", "TERMINATED", "NEVER_CREATED"} =>
       strays = {} /\ \A o \in Operations : ~Present(o)
  /\ ended.state \in {"EXITED", "TERMINATED"} => container = "none" /\ ~MayAppear
  /\ ended.state = "EXITED" => own # "none"
  /\ ended.state = "NEVER_CREATED" =>
       own = "none" /\ container # "running" /\ request["launch"] = "unsent"

(* "no container of this identity was created and none can appear later"   *)
(* (SurfaceCreation, REJECTED).  It fails: a create whose client lost the  *)
(* daemon exits like one that was refused.                                 *)
NeverCreatedIsNever ==
  ended.state = "NEVER_CREATED" => container = "none" /\ ~MayAppear

(* A caller that is given a success is given that of a surface which ended *)
(* by itself with 0 inside its bound, before anybody had given up on it    *)
(* (answer, the status of runBoundedSurface, brokerPostJson).              *)
ValueIsEarned ==
  rpc = "value" =>
    /\ response = "value" /\ outcome = "value" /\ job = "settled"
    /\ ended.status = "ZERO" /\ own = "ZERO" /\ ~over

(* The caller hears and the request is answered, whatever hangs.  And with *)
(* a daemon that never answers, clients that cannot be killed and a        *)
(* surface that never stops, a run that has begun returns and its          *)
(* workspace goes: every wait of the runner is bounded (within, stop,      *)
(* guard, rpc_ms).  A preparation may hang for good.                       *)
EverybodyReturns ==
  /\ <>(rpc # "waiting" /\ answered)
  /\ (job # "prepare") ~> (pc \in {"idle", "done"} /\ job = "settled" /\ workspace = "removed")
=============================================================================
