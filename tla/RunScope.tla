------------------------------- MODULE RunScope --------------------------------
(* Which run an effect belongs to: allocation of effect identities, the first    *)
(* seal of a request, the proof of membership it leaves, the capability that is  *)
(* minted with a run's first dispatch, and the admission that asks for the proof.*)
(* cadp/kernel/ingress.ts, pep.ts, under a cadp.kernel-config.v2 policy.         *)
EXTENDS Integers, FiniteSets, Sequences

CONSTANTS Principals,   \* authenticated callers
          Requesters,   \* requester_refs, which a policy gives to callers
          Effects,      \* a pool of effect identities
          Tuples,       \* allocation tuples
          Contracts,    \* descriptor and mapping of a tuple's schema, by their digest
          Demand,       \* what a contract makes of a tuple: kind and projected bindings
          Subjects,     \* bindings in other namespaces than work-run
          Authorities,  \* of the work-run namespace
          Configs,      \* kernel configurations a policy may carry
          Genesis,      \* the first of them
          Slots,        \* concurrent calls of admit_and_dispatch
          MaxOrdinal,   \* bounds the dispatches of an effect, by its kind
          MaxHeld,      \* bounds the open incidents
          None

Kinds == {"WORK_START", "OTHER"}
(* identity_registry, run_profile_enrolled_requester_refs, the authority that     *)
(* kernel_subject_namespaces declares for work-run, and the allocation schemas.   *)
Config == {c \in [identity : [Principals -> Requesters \cup {None}],
                  enrolled : SUBSET Requesters,
                  declared : Authorities \cup {None},
                  contract : [Tuples -> Contracts \cup {None}]] :
             /\ \A p, q \in Principals :
                   c.identity[p] # None /\ c.identity[p] = c.identity[q] => p = q
             /\ c.enrolled # {} => c.declared # None}

ASSUME PoliciesOk ==
    /\ Configs \subseteq Config /\ Genesis \in Configs
    /\ Demand \in [Contracts -> [Tuples -> [kind : Kinds, subject : Subjects]]]
    /\ MaxOrdinal \in [Kinds -> Nat] /\ MaxHeld \in Nat

VARIABLES
    active,      \* the configuration of the active policy
    alloc,       \* effect_allocation: who allocated, from which tuple and contract
    request,     \* effect_request
    membership,  \* run_membership: effect -> the run it proved to belong to
    capability,  \* run_capability: run -> its holder
    admitted,    \* effect_admission: per effect its dispatches, each as the set of its
                 \* conclusive outcomes
    held,        \* open REQUEST_DIGEST_CONFLICTs, each as the effects it stops
    call,        \* calls of admit_and_dispatch in flight
    delivered    \* per run, to which stamped callers its capability was returned

ledger == <<alloc, request, membership>>
vars == <<active, ledger, capability, admitted, held, call, delivered>>

Allocations == [by : Requesters, tuple : Tuples, contract : Contracts]
Bindings == [authority : Authorities, run : Effects]
Requests == [by : Requesters, kind : Kinds, bound : Bindings \cup {None}, subject : Subjects]
Results == {"COMMITTED", "NO_EFFECT_CONFIRMED"}
Calls == [at : {"waiting", "reading", "sent"}, effect : Effects, secret : BOOLEAN,
          stamped : Requesters \cup {None}, under : Configs \cup {None}]

ASSUME NothingOk == /\ None \notin Requesters /\ None \notin Effects
                    /\ None \notin Contracts /\ None \notin Configs
                    /\ None \notin Authorities /\ None \notin Bindings
                    /\ None \notin Allocations /\ None \notin Requests /\ None \notin Calls

Init ==
    /\ active = Genesis
    /\ alloc = [e \in Effects |-> None]
    /\ request = [e \in Effects |-> None]
    /\ membership = [e \in Effects |-> None]
    /\ capability = [e \in Effects |-> None]
    /\ admitted = [e \in Effects |-> <<>>]
    /\ held = {}
    /\ call = [s \in Slots |-> None]
    /\ delivered = [e \in Effects |-> <<>>]

(* The policy changes between any two steps; how is PolicyActivation's subject.   *)
Activate(c) ==
    /\ active' = c
    /\ UNCHANGED <<ledger, capability, admitted, held, call, delivered>>

--------------------------------------------------------------------------------
(* allocate_effect_id: one identity per requester, tuple and contract.           *)
AllocateEffectId(p, t, e) ==
    LET new == [by |-> active.identity[p], tuple |-> t, contract |-> active.contract[t]] IN
    /\ new.by # None /\ new.contract # None
    /\ \A f \in Effects : alloc[f] # new
    /\ alloc[e] = None
    /\ alloc' = [alloc EXCEPT ![e] = new]
    /\ UNCHANGED <<active, request, membership, capability, admitted, held, call, delivered>>

--------------------------------------------------------------------------------
(* seal_effect_request.  A caller seals in its own name, an identity that it     *)
(* allocated.                                                                    *)
SealsItsOwn(p, e, by) == /\ by = active.identity[p] /\ by # None
                         /\ alloc[e] # None /\ alloc[e].by = by

(* The same identity with another content: refused, and the effect is held, with *)
(* all those of the target that the rejected draft names, whoever sealed them.   *)
SealConflict(p, e, by, others) ==
    /\ SealsItsOwn(p, e, by)
    /\ request[e] # None
    /\ Cardinality(held) < MaxHeld
    /\ held' = held \cup {others \cup {e}}
    /\ UNCHANGED <<active, ledger, capability, admitted, call, delivered>>

(* The first seal: the allocated tuple again, its contract still in force, the   *)
(* subject and the kind those of the contract.                                   *)
(* Mutant: the contract in force, not the allocated one, says what is bound. *)
BoundByActive(e, r) ==
    LET a == alloc[e] IN
    /\ active.contract[a.tuple] # None
    /\ r.subject = Demand[active.contract[a.tuple]][a.tuple].subject
    /\ r.kind = Demand[active.contract[a.tuple]][a.tuple].kind
FirstSealBinding(e, r) ==
    LET a == alloc[e] IN
    /\ active.contract[a.tuple] = a.contract
    /\ r.subject = Demand[a.contract][a.tuple].subject
    /\ r.kind = Demand[a.contract][a.tuple].kind

Enrolled(config, requester) == requester \in config.enrolled
Engaged(config) == config.enrolled # {}
(* The run a request names on the declared pair; there is at most one binding in  *)
(* a declared namespace.                                                         *)
RunOf(config, r) == IF r.bound # None /\ r.bound.authority = config.declared
                    THEN r.bound.run ELSE None
RunEnrollment(r) ==
    Engaged(active) => (Enrolled(active, r.by) <=> RunOf(active, r) # None)

FirstSeal(p, e, r) ==
    /\ request[e] = None
    /\ SealsItsOwn(p, e, r.by)
    /\ FirstSealBinding(e, r)
    /\ RunEnrollment(r)
    /\ request' = [request EXCEPT ![e] = r]
    /\ UNCHANGED <<active, alloc, capability, admitted, held, call, delivered>>

(* Nobody is enrolled here: no run is adjudicated, no membership proven.         *)
SealOutside(p, e, r) ==
    /\ FirstSeal(p, e, r)
    /\ ~Enrolled(active, r.by)
    /\ UNCHANGED membership

(* A WORK_START of an enrolled requester originates its own run, or is refused.  *)
SealOrigin(p, e, r) ==
    /\ FirstSeal(p, e, r)
    /\ Enrolled(active, r.by)
    /\ r.kind = "WORK_START" /\ RunOf(active, r) = e
    /\ membership' = [membership EXCEPT ![e] = e]

(* K7: the latest admitted dispatch of the run is committed, without a contrary row. *)
Graded(run) ==
    /\ admitted[run] # <<>>
    /\ admitted[run][Len(admitted[run])] = {"COMMITTED"}

(* Everything else an enrolled requester seals is a member: it presents the      *)
(* capability of that very run, and holds it.                                    *)
(* Mutant: whoever presents a capability is taken for its holder. *)
Bearer(run, by, presented) == presented = run /\ capability[run] # None
Holder(run, by, presented) == /\ presented = run
                              /\ capability[run] # None /\ capability[run] = by
SealMember(p, e, r, presented) ==
    LET run == RunOf(active, r) IN
    /\ FirstSeal(p, e, r)
    /\ Enrolled(active, r.by)
    /\ r.kind # "WORK_START"
    /\ Holder(run, r.by, presented)
    /\ Graded(run)
    /\ membership' = [membership EXCEPT ![e] = run]

--------------------------------------------------------------------------------
(* admit_and_dispatch.  The caller is stamped before the lock, the policy is     *)
(* read after it, and the admission comes after further reads.                   *)
(* Mutant: every WORK_START mints. *)
MintsByKind(e) == request[e].kind = "WORK_START"
Minting(e) == request[e].kind = "WORK_START" /\ membership[e] = e

BeginCall(s, p, e) ==
    /\ call[s] = None
    /\ request[e] # None
    /\ Minting(e) => active.identity[p] = request[e].by
    /\ call' = [call EXCEPT ![s] =
                 [at |-> "waiting", effect |-> e, under |-> None, secret |-> FALSE,
                  stamped |-> IF Minting(e) THEN active.identity[p] ELSE None]]
    /\ UNCHANGED <<active, ledger, capability, admitted, held, delivered>>

(* One effect has one serialization domain, so its calls take turns.             *)
Acquire(s) ==
    /\ call[s] # None /\ call[s].at = "waiting"
    /\ \A o \in Slots : call[o] # None /\ call[o].effect = call[s].effect
                        => call[o].at = "waiting"
    /\ call' = [call EXCEPT ![s].at = "reading", ![s].under = active]
    /\ UNCHANGED <<active, ledger, capability, admitted, held, delivered>>

(* Recheck #12: nothing after a commit.  Whether an unresolved dispatch may be    *)
(* repeated depends on the operation's adapter and is left open.                 *)
MayDispatch(e) ==
    /\ Len(admitted[e]) < MaxOrdinal[request[e].kind]
    /\ \A n \in 1 .. Len(admitted[e]) : "COMMITTED" \notin admitted[e][n]

(* Recheck #19: the run it is admitted in, under the policy the call has read.    *)
Scope(e, config) == IF Enrolled(config, request[e].by) THEN RunOf(config, request[e]) ELSE None
(* Mutant: the membership is not asked for again. *)
SealedIsEnough(e, config) == TRUE
Proven(e, config) == Scope(e, config) # None => membership[e] = Scope(e, config)

Mints(s) == LET e == call[s].effect IN
            /\ admitted[e] = <<>> /\ Minting(e)
            /\ call[s].stamped = request[e].by /\ capability[e] = None

Admit(s) ==
    /\ call[s] # None /\ call[s].at = "reading"
    /\ LET e == call[s].effect  config == call[s].under IN
         /\ \A h \in held : e \notin h
         /\ MayDispatch(e)
         /\ Proven(e, config)
         /\ admitted' = [admitted EXCEPT ![e] = Append(@, {})]
         /\ capability' = IF Mints(s) THEN [capability EXCEPT ![e] = request[e].by]
                          ELSE capability
    /\ call' = [call EXCEPT ![s].at = "sent", ![s].secret = Mints(s)]
    /\ UNCHANGED <<active, ledger, held, delivered>>

(* Any other recheck, before or in the transaction.                              *)
Refuse(s) ==
    /\ call[s] # None /\ call[s].at # "sent"
    /\ call' = [call EXCEPT ![s] = None]
    /\ UNCHANGED <<active, ledger, capability, admitted, held, delivered>>

(* An outcome row; UNKNOWN is not conclusive and leaves the results as they are.  *)
Told(e, n) == \E rows \in SUBSET Results :
                 /\ Cardinality(rows) <= 1
                 /\ admitted' = [admitted EXCEPT ![e][n] = @ \cup rows]

(* The dispatch is observed, its outcome written, and the capability returned.   *)
Return(s) ==
    /\ call[s] # None /\ call[s].at = "sent"
    /\ LET e == call[s].effect IN
         /\ Told(e, Len(admitted[e]))
         /\ delivered' = IF call[s].secret
                         THEN [delivered EXCEPT ![e] = Append(@, call[s].stamped)]
                         ELSE delivered
    /\ call' = [call EXCEPT ![s] = None]
    /\ UNCHANGED <<active, ledger, capability, held>>

(* The Reconciler writes an outcome of any admission.                            *)
Reconcile(e) ==
    /\ \E n \in 1 .. Len(admitted[e]) : Told(e, n)
    /\ UNCHANGED <<active, ledger, capability, held, call, delivered>>

(* BREAK_GLASS.                                                                  *)
Release(h) ==
    /\ held' = held \ {h}
    /\ UNCHANGED <<active, ledger, capability, admitted, call, delivered>>

(* The service restarts: calls in flight are gone, with what they would return.  *)
Crash ==
    /\ \E s \in Slots : call[s] # None
    /\ call' = [s \in Slots |-> None]
    /\ UNCHANGED <<active, ledger, capability, admitted, held, delivered>>

--------------------------------------------------------------------------------
Seal(p, e) ==
    \/ \E by \in Requesters, others \in SUBSET Effects : SealConflict(p, e, by, others)
    \/ /\ request[e] = None
       /\ \E r \in Requests :
            \/ SealOutside(p, e, r) \/ SealOrigin(p, e, r)
            \/ \E presented \in Effects : SealMember(p, e, r, presented)

Next ==
    \/ \E c \in Configs : Activate(c)
    \/ \E p \in Principals, e \in Effects :
         \/ \E t \in Tuples : AllocateEffectId(p, t, e)
         \/ Seal(p, e)
         \/ \E s \in Slots : BeginCall(s, p, e)
    \/ \E s \in Slots : Acquire(s) \/ Admit(s) \/ Refuse(s) \/ Return(s)
    \/ \E e \in Effects : Reconcile(e)
    \/ \E h \in held : Release(h)
    \/ Crash

Spec == Init /\ [][Next]_vars

--------------------------------------------------------------------------------
(* TypeOK: the tables hold rows of their schemas; a call has its policy once it has lock D. *)
TypeOK ==
    /\ active \in Configs
    /\ alloc \in [Effects -> Allocations \cup {None}]
    /\ request \in [Effects -> Requests \cup {None}]
    /\ membership \in [Effects -> Effects \cup {None}]
    /\ capability \in [Effects -> Requesters \cup {None}]
    /\ admitted \in [Effects -> Seq(SUBSET Results)]
    /\ held \subseteq SUBSET Effects
    /\ call \in [Slots -> Calls \cup {None}]
    /\ delivered \in [Effects -> Seq(Requesters)]
    /\ \A s \in Slots : call[s] # None =>
          /\ request[call[s].effect] # None
          /\ call[s].at # "waiting" => call[s].under # None

(* Allocation is authority for the first seal: whatever policies came between, a *)
(* request was sealed by who allocated its identity, and is of the kind and the  *)
(* bindings that the contract it was allocated under makes of the tuple.         *)
SealedAsAllocated ==
    \A e \in Effects : request[e] # None =>
        /\ alloc[e] # None /\ request[e].by = alloc[e].by
        /\ request[e].kind = Demand[alloc[e].contract][alloc[e].tuple].kind
        /\ request[e].subject = Demand[alloc[e].contract][alloc[e].tuple].subject

CommittedOnce(run) == \E n \in 1 .. Len(admitted[run]) :
                         "COMMITTED" \in admitted[run][n]

(* A run that an effect may be in: sealed as a WORK_START of its own, by the     *)
(* effect's requester; committed, unless it is this effect.                      *)
InRunOf(e, run) ==
    /\ request[run] # None /\ request[run].kind = "WORK_START"
    /\ membership[run] = run
    /\ request[e] # None /\ request[e].by = request[run].by
    /\ request[e].bound # None /\ request[e].bound.run = run
    /\ run # e => /\ request[e].kind # "WORK_START"
                  /\ CommittedOnce(run)

(* Every membership row was earned so.                                           *)
MembershipIsEarned ==
    \A e \in Effects : membership[e] # None => InRunOf(e, membership[e])

(* What an enrolled requester has admitted in a run's scope is in that run, also *)
(* when it was sealed before its requester was enrolled, or before the policy    *)
(* declared the namespace its request is bound in.                               *)
AdmitsInItsRun(s) ==
    LET run == Scope(call[s].effect, call[s].under) IN
    /\ call[s] # None /\ call[s].at = "reading"
    /\ call'[s] # None /\ call'[s].at = "sent"
    /\ run # None
    => InRunOf(call[s].effect, run)
AdmittedInItsRun == [][\A s \in Slots : AdmitsInItsRun(s)]_vars

(* B5(1), B5(7): a capability exists only of a run adjudicated at its seal, and  *)
(* is held by the requester of its WORK_START; it is returned at most once, to   *)
(* that requester, whoever else dispatches, retries or finds the service again   *)
(* after a crash.                                                                *)
MintedOnceToItsOwner ==
    \A e \in Effects :
        /\ capability[e] # None => /\ membership[e] = e /\ admitted[e] # <<>>
                                   /\ capability[e] = request[e].by
        /\ delivered[e] \in {<<>>, <<capability[e]>>}
        /\ delivered[e] # <<>> => capability[e] # None

(* A call that will return a capability is the only one, and the first.          *)
SecretsAreSingle ==
    \A s \in Slots : call[s] # None /\ call[s].secret =>
        LET e == call[s].effect IN
        /\ call[s].at = "sent" /\ capability[e] # None
        /\ call[s].stamped = capability[e] /\ delivered[e] = <<>>

(* Lock D: past waiting, an effect has one call.                                 *)
Busy(s) == call[s] # None /\ call[s].at # "waiting"
OneCallPerEffect ==
    \A s, o \in Slots :
        Busy(s) /\ Busy(o) /\ call[s].effect = call[o].effect => s = o

(* What is sent has its admission; what is admitted is sealed.                   *)
SentIsAdmitted ==
    /\ \A s \in Slots : call[s] # None /\ call[s].at = "sent" => admitted[call[s].effect] # <<>>
    /\ \A e \in Effects : admitted[e] # <<>> => request[e] # None

(* IInv: the inductive invariant.  A member's run has a holder because somebody  *)
(* minted it, and nobody mints but the owner of an adjudicated origin.           *)
IInv ==
    /\ TypeOK
    /\ SealedAsAllocated
    /\ MembershipIsEarned
    /\ MintedOnceToItsOwner
    /\ SecretsAreSingle
    /\ OneCallPerEffect
    /\ SentIsAdmitted
================================================================================
