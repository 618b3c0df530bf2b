----------------------------- MODULE RunScope_proofs -----------------------------
(* What is proved of runs and their capabilities, for any policies, effects and   *)
(* concurrent calls.                                                              *)
EXTENDS RunScope, SequenceTheorems, TLAPS

LEMMA InitInv == Init => IInv
  <1> SUFFICES ASSUME Init PROVE IInv
    OBVIOUS
  <1>1. TypeOK
    <2>1. <<>> \in Seq(SUBSET Results) /\ <<>> \in Seq(Requesters)
      OBVIOUS
    <2>. QED BY <2>1, PoliciesOk DEF Init, TypeOK
  <1>2. /\ SealedAsAllocated /\ MembershipIsEarned /\ MintedOnceToItsOwner
        /\ SecretsAreSingle /\ OneCallPerEffect /\ SentIsAdmitted
    BY DEF Init, SealedAsAllocated, MembershipIsEarned, MintedOnceToItsOwner,
           SecretsAreSingle, OneCallPerEffect, Busy, SentIsAdmitted
  <1>. QED BY <1>1, <1>2 DEF IInv

--------------------------------------------------------------------------------
(* Rows stay, so that what an effect's run once was it remains.                   *)
RowsStay ==
    \A e \in Effects :
        /\ request[e] # None => request'[e] = request[e]
        /\ membership[e] # None => membership'[e] = membership[e]
        /\ CommittedOnce(e) => CommittedOnce(e)'

LEMMA RunsStay ==
  ASSUME RowsStay, NEW e \in Effects, NEW run \in Effects, InRunOf(e, run)
  PROVE  InRunOf(e, run)'
  BY NothingOk DEF RowsStay, InRunOf

(* An action that leaves the ledger alone, and the admissions.                    *)
LEMMA SameRows ==
  ASSUME UNCHANGED <<request, membership, admitted>>
  PROVE  RowsStay
  BY DEF RowsStay, CommittedOnce

LEMMA EarnedStay ==
  ASSUME TypeOK, MembershipIsEarned, RowsStay, UNCHANGED membership
  PROVE  MembershipIsEarned'
  <1> SUFFICES ASSUME NEW e \in Effects, membership[e] # None
               PROVE  InRunOf(e, membership[e])'
    BY DEF MembershipIsEarned
  <1>1. membership[e] \in Effects /\ InRunOf(e, membership[e])
    BY DEF TypeOK, MembershipIsEarned
  <1>2. InRunOf(e, membership[e])'
    <2> DEFINE run == membership[e]
    <2>1. run' = run
      OBVIOUS
    <2>2. ASSUME NEW r \in Effects, InRunOf(e, r) PROVE InRunOf(e, r)'
      BY <2>2, RunsStay
    <2>. QED BY <1>1, <2>1, <2>2 DEF InRunOf
  <1>. QED BY <1>2

(* Outcome rows only grow. *)
LEMMA ToldGrows ==
  ASSUME TypeOK, NEW e \in Effects, NEW n \in 1 .. Len(admitted[e]), Told(e, n)
  PROVE  /\ admitted' \in [Effects -> Seq(SUBSET Results)]
         /\ \A f \in Effects : /\ Len(admitted'[f]) = Len(admitted[f])
                               /\ CommittedOnce(f) => CommittedOnce(f)'
         /\ \A f \in Effects : admitted'[f] = <<>> <=> admitted[f] = <<>>
  <1> PICK rows \in SUBSET Results : admitted' = [admitted EXCEPT ![e][n] = @ \cup rows]
    BY DEF Told
  <1>0. admitted \in [Effects -> Seq(SUBSET Results)]
    BY DEF TypeOK
  <1>1. admitted'[e] = [admitted[e] EXCEPT ![n] = @ \cup rows]
    BY <1>0
  <1>2. \A f \in Effects : f # e => admitted'[f] = admitted[f]
    BY <1>0
  <1>3. /\ admitted'[e] \in Seq(SUBSET Results) /\ Len(admitted'[e]) = Len(admitted[e])
        /\ \A m \in 1 .. Len(admitted[e]) : admitted[e][m] \subseteq admitted'[e][m]
    BY <1>0, <1>1
  <1>4. admitted' \in [Effects -> Seq(SUBSET Results)]
    BY <1>0, <1>2, <1>3
  <1>5. \A f \in Effects : CommittedOnce(f) => CommittedOnce(f)'
    BY <1>2, <1>3 DEF CommittedOnce
  <1>6. \A f \in Effects : Len(admitted'[f]) = Len(admitted[f])
    BY <1>2, <1>3
  <1>7. \A f \in Effects : admitted'[f] = <<>> <=> admitted[f] = <<>>
    BY <1>0, <1>4, <1>6, EmptySeq
  <1>. QED BY <1>4, <1>5, <1>6, <1>7

--------------------------------------------------------------------------------
(* One lemma for the actions that change the same tables.                         *)

LEMMA PolicyStep ==
  ASSUME IInv, NEW c \in Configs, Activate(c)
  PROVE  IInv'
  <1>1. UNCHANGED <<ledger, capability, admitted, held, call, delivered>> /\ active' \in Configs
    BY DEF Activate
  <1>2. TypeOK'
    BY <1>1 DEF IInv, TypeOK, ledger
  <1>3. SealedAsAllocated' /\ MintedOnceToItsOwner'
    BY <1>1 DEF IInv, SealedAsAllocated, MintedOnceToItsOwner, ledger
  <1>4. SecretsAreSingle' /\ OneCallPerEffect' /\ SentIsAdmitted'
    BY <1>1 DEF IInv, SecretsAreSingle, OneCallPerEffect, Busy, SentIsAdmitted, ledger
  <1>5. MembershipIsEarned'
    BY <1>1, SameRows, EarnedStay DEF IInv, ledger
  <1>. QED BY <1>2, <1>3, <1>4, <1>5 DEF IInv

LEMMA AllocateStep ==
  ASSUME IInv, NEW p \in Principals, NEW t \in Tuples, NEW e \in Effects, AllocateEffectId(p, t, e)
  PROVE  IInv'
  <1> DEFINE new == [by |-> active.identity[p], tuple |-> t, contract |-> active.contract[t]]
  <1>1. /\ new.by # None /\ new.contract # None /\ alloc[e] = None
        /\ alloc' = [alloc EXCEPT ![e] = new]
        /\ UNCHANGED <<active, request, membership, capability, admitted, held, call, delivered>>
    BY DEF AllocateEffectId
  <1>2. new \in Allocations
    <2>1. active \in Config
      BY PoliciesOk DEF IInv, TypeOK
    <2>2. active.identity[p] \in Requesters /\ active.contract[t] \in Contracts
      BY <1>1, <2>1 DEF Config
    <2>. QED BY <2>2 DEF Allocations
  <1>3. TypeOK'
    BY <1>1, <1>2 DEF IInv, TypeOK
  <1>4. SealedAsAllocated'
    <2>1. request[e] = None
      BY <1>1 DEF IInv, SealedAsAllocated
    <2>2. \A f \in Effects : f # e => alloc'[f] = alloc[f]
      BY <1>1 DEF IInv, TypeOK
    <2>. QED BY <1>1, <2>1, <2>2, Zenon DEF IInv, SealedAsAllocated
  <1>5. MintedOnceToItsOwner' /\ SecretsAreSingle' /\ OneCallPerEffect' /\ SentIsAdmitted'
    BY <1>1 DEF IInv, MintedOnceToItsOwner, SecretsAreSingle, OneCallPerEffect, Busy,
                SentIsAdmitted
  <1>6. MembershipIsEarned'
    BY <1>1, SameRows, EarnedStay DEF IInv
  <1>. QED BY <1>3, <1>4, <1>5, <1>6 DEF IInv

LEMMA HeldStep ==
  ASSUME IInv, UNCHANGED <<active, ledger, capability, admitted, call, delivered>>,
         held' \subseteq held \cup SUBSET Effects
  PROVE  IInv'
  <1>1. TypeOK'
    BY DEF IInv, TypeOK, ledger
  <1>2. SealedAsAllocated' /\ MintedOnceToItsOwner' /\ SecretsAreSingle'
    BY DEF IInv, SealedAsAllocated, MintedOnceToItsOwner, SecretsAreSingle, ledger
  <1>3. OneCallPerEffect' /\ SentIsAdmitted'
    BY DEF IInv, OneCallPerEffect, Busy, SentIsAdmitted, ledger
  <1>4. MembershipIsEarned'
    BY SameRows, EarnedStay DEF IInv, ledger
  <1>. QED BY <1>1, <1>2, <1>3, <1>4 DEF IInv

LEMMA ConflictStep ==
  ASSUME IInv, NEW p \in Principals, NEW e \in Effects, NEW by \in Requesters,
         NEW others \in SUBSET Effects, SealConflict(p, e, by, others)
  PROVE  IInv'
  BY HeldStep DEF SealConflict

LEMMA ReleaseStep ==
  ASSUME IInv, NEW h \in held, Release(h)
  PROVE  IInv'
  BY HeldStep DEF Release

(* A first seal: what the three kinds of it share.  `row' is the membership row.   *)
LEMMA SealStep ==
  ASSUME IInv, NEW p \in Principals, NEW e \in Effects, NEW r \in Requests, FirstSeal(p, e, r),
         NEW row \in Effects \cup {None}, membership' = [membership EXCEPT ![e] = row],
         row # None => /\ r.bound # None /\ r.bound.run = row
                       /\ row = e => r.kind = "WORK_START"
                       /\ row # e => /\ r.kind # "WORK_START" /\ capability[row] = r.by
                                     /\ Graded(row)
  PROVE  IInv'
  <1>1. /\ request[e] = None /\ request' = [request EXCEPT ![e] = r]
        /\ UNCHANGED <<active, alloc, capability, admitted, held, call, delivered>>
    BY DEF FirstSeal
  <1>2. membership[e] = None
    BY <1>1 DEF IInv, MembershipIsEarned, InRunOf, TypeOK
  <1>3. /\ request' \in [Effects -> Requests \cup {None}] /\ request'[e] = r
        /\ membership' \in [Effects -> Effects \cup {None}] /\ membership'[e] = row
        /\ \A f \in Effects : f # e => request'[f] = request[f] /\ membership'[f] = membership[f]
        /\ r # None
    BY <1>1, NothingOk DEF IInv, TypeOK
  <1>4. RowsStay
    BY <1>1, <1>2, <1>3 DEF RowsStay, CommittedOnce
  <1>5. TypeOK'
    BY <1>1, <1>3 DEF IInv, TypeOK, Calls
  <1>6. SealedAsAllocated'
    <2>1. /\ alloc[e] # None /\ alloc[e].by = r.by
          /\ r.kind = Demand[alloc[e].contract][alloc[e].tuple].kind
          /\ r.subject = Demand[alloc[e].contract][alloc[e].tuple].subject
      BY Zenon DEF FirstSeal, SealsItsOwn, FirstSealBinding
    <2>. QED BY <1>1, <1>3, <2>1, Zenon DEF IInv, SealedAsAllocated
  <1>7. MembershipIsEarned'
    <2> SUFFICES ASSUME NEW f \in Effects, membership'[f] # None
                 PROVE  InRunOf(f, membership[f])'
      BY DEF MembershipIsEarned
    <2>1. CASE f # e
      <3>1. membership[f] \in Effects /\ membership'[f] = membership[f] /\ InRunOf(f, membership[f])
        BY <1>3, <2>1 DEF IInv, TypeOK, MembershipIsEarned
      <3>2. ASSUME NEW run \in Effects, InRunOf(f, run) PROVE InRunOf(f, run)'
        BY <1>4, <3>2, RunsStay
      <3>. QED BY <3>1, <3>2 DEF InRunOf
    <2>2. CASE f = e /\ row = e
      BY <1>3, <2>2, NothingOk DEF InRunOf
    <2>3. CASE f = e /\ row # e
      <3>1. row \in Effects /\ capability[row] = r.by /\ r.by \in Requesters /\ Graded(row)
            /\ r.kind # "WORK_START" /\ r.bound # None /\ r.bound.run = row
        BY <1>3, <2>3 DEF Requests
      <3>2. membership[row] = row /\ capability[row] = request[row].by
        BY <3>1, NothingOk DEF IInv, MintedOnceToItsOwner
      <3>3. InRunOf(row, row)
        BY <3>1, <3>2, NothingOk DEF IInv, MembershipIsEarned
      <3>4. CommittedOnce(row)
        <4>1. admitted[row] \in Seq(SUBSET Results) /\ admitted[row] # <<>>
              /\ admitted[row][Len(admitted[row])] = {"COMMITTED"}
          BY <3>1 DEF IInv, TypeOK, Graded
        <4>2. Len(admitted[row]) \in 1 .. Len(admitted[row])
          BY <4>1, EmptySeq
        <4>. QED BY <4>1, <4>2 DEF CommittedOnce
      <3>5. CommittedOnce(row)'
        BY <1>4, <3>1, <3>4 DEF RowsStay
      <3>6. /\ request'[row] = request[row] /\ membership'[row] = row
            /\ request[row] # None /\ request[row].kind = "WORK_START"
        BY <1>3, <2>3, <3>1, <3>2, <3>3 DEF InRunOf
      <3>7. /\ request'[e] # None /\ request'[e].by = request'[row].by
            /\ request'[e].bound # None /\ request'[e].bound.run = row
            /\ request'[e].kind # "WORK_START"
        BY <1>3, <3>1, <3>2, <3>6
      <3>8. membership'[f] = row /\ f = e
        BY <1>3, <2>3
      <3>. QED BY <3>5, <3>6, <3>7, <3>8 DEF InRunOf
    <2>. QED BY <2>1, <2>2, <2>3
  <1>8. MintedOnceToItsOwner'
    <2>1. \A f \in Effects : capability[f] # None => membership'[f] = f /\ request'[f].by = request[f].by
      BY <1>1, <1>2, <1>3, NothingOk DEF IInv, MintedOnceToItsOwner
    <2>. QED BY <1>1, <2>1 DEF IInv, MintedOnceToItsOwner
  <1>9. SecretsAreSingle' /\ OneCallPerEffect'
    BY <1>1 DEF IInv, SecretsAreSingle, OneCallPerEffect, Busy
  <1>10. SentIsAdmitted'
    BY <1>1, <1>3 DEF IInv, SentIsAdmitted
  <1>. QED BY <1>5, <1>6, <1>7, <1>8, <1>9, <1>10 DEF IInv

LEMMA FirstSealSteps ==
  ASSUME IInv, NEW p \in Principals, NEW e \in Effects, NEW r \in Requests,
         \/ SealOutside(p, e, r) \/ SealOrigin(p, e, r)
         \/ \E presented \in Effects : SealMember(p, e, r, presented)
  PROVE  IInv'
  <1>0. membership \in [Effects -> Effects \cup {None}]
    BY DEF IInv, TypeOK
  <1>1. ASSUME NEW run \in Effects, RunOf(active, r) = run
        PROVE  r.bound # None /\ r.bound.run = run
    BY <1>1, NothingOk DEF RunOf
  <1>2. CASE SealOutside(p, e, r)
    <2>1. FirstSeal(p, e, r) /\ UNCHANGED membership
      BY <1>2 DEF SealOutside
    <2>2. membership[e] = None
      BY <2>1 DEF IInv, MembershipIsEarned, InRunOf, TypeOK, FirstSeal
    <2>3. membership' = [membership EXCEPT ![e] = None]
      BY <1>0, <2>1, <2>2
    <2>. QED BY <2>1, <2>3, SealStep
  <1>3. CASE SealOrigin(p, e, r)
    <2>1. /\ FirstSeal(p, e, r) /\ r.kind = "WORK_START" /\ RunOf(active, r) = e
          /\ membership' = [membership EXCEPT ![e] = e]
      BY <1>3 DEF SealOrigin
    <2>. QED BY <1>1, <2>1, SealStep
  <1>4. ASSUME NEW presented \in Effects, SealMember(p, e, r, presented) PROVE IInv'
    <2>1. /\ FirstSeal(p, e, r) /\ r.kind # "WORK_START" /\ RunOf(active, r) = presented
          /\ capability[presented] # None /\ capability[presented] = r.by /\ Graded(presented)
          /\ membership' = [membership EXCEPT ![e] = presented]
      BY <1>4 DEF SealMember, Holder
    <2>2. presented # e
      <3>1. membership[presented] = presented
        BY <2>1 DEF IInv, MintedOnceToItsOwner
      <3>2. request[presented] # None
        BY <3>1, NothingOk DEF IInv, MembershipIsEarned, InRunOf
      <3>. QED BY <2>1, <3>2 DEF FirstSeal
    <2>. QED BY <1>1, <2>1, <2>2, SealStep
  <1>. QED BY <1>2, <1>3, <1>4

--------------------------------------------------------------------------------
(* Steps of a call that write no row.                                             *)
LEMMA CallStep ==
  ASSUME IInv, UNCHANGED <<active, ledger, capability, admitted, held, delivered>>,
         call' \in [Slots -> Calls \cup {None}],
         \A s \in Slots : call'[s] # None =>
             /\ request[call'[s].effect] # None
             /\ call'[s].at # "waiting" => call'[s].under # None
             /\ \/ call'[s] = call[s]
                \/ ~call'[s].secret /\ call'[s].at # "sent",
         OneCallPerEffect'
  PROVE  IInv'
  <1>1. TypeOK'
    BY DEF IInv, TypeOK, ledger
  <1>2. SealedAsAllocated' /\ MintedOnceToItsOwner'
    BY DEF IInv, SealedAsAllocated, MintedOnceToItsOwner, ledger
  <1>3. SecretsAreSingle'
    BY DEF IInv, SecretsAreSingle
  <1>4. OneCallPerEffect'
    OBVIOUS
  <1>5. SentIsAdmitted'
    BY DEF IInv, SentIsAdmitted, ledger
  <1>6. MembershipIsEarned'
    BY SameRows, EarnedStay DEF IInv, ledger
  <1>. QED BY <1>1, <1>2, <1>3, <1>4, <1>5, <1>6 DEF IInv

LEMMA BeginStep ==
  ASSUME IInv, NEW s \in Slots, NEW p \in Principals, NEW e \in Effects, BeginCall(s, p, e)
  PROVE  IInv'
  <1> DEFINE new == [at |-> "waiting", effect |-> e, under |-> None, secret |-> FALSE,
                     stamped |-> IF Minting(e) THEN active.identity[p] ELSE None]
  <1>1. /\ request[e] # None /\ call[s] = None /\ call' = [call EXCEPT ![s] = new]
        /\ UNCHANGED <<active, ledger, capability, admitted, held, delivered>>
    BY DEF BeginCall
  <1>2. new \in Calls
    BY PoliciesOk DEF IInv, TypeOK, Config, Calls
  <1>3. /\ call' \in [Slots -> Calls \cup {None}] /\ call'[s] = new
        /\ \A o \in Slots : o # s => call'[o] = call[o]
    BY <1>1, <1>2 DEF IInv, TypeOK
  <1>4. \A o \in Slots : call'[o] # None =>
             /\ request[call'[o].effect] # None
             /\ call'[o].at # "waiting" => call'[o].under # None
             /\ \/ call'[o] = call[o]
                \/ ~call'[o].secret /\ call'[o].at # "sent"
    BY <1>1, <1>3 DEF IInv, TypeOK
  <1>5. OneCallPerEffect'
    BY <1>3 DEF IInv, OneCallPerEffect, Busy
  <1>. QED BY <1>1, <1>3, <1>4, <1>5, CallStep

LEMMA AcquireStep ==
  ASSUME IInv, NEW s \in Slots, Acquire(s)
  PROVE  IInv'
  <1>1. /\ call[s] \in Calls /\ call[s].at = "waiting" /\ active \in Configs
        /\ \A o \in Slots : call[o] # None /\ call[o].effect = call[s].effect => call[o].at = "waiting"
        /\ call' = [call EXCEPT ![s].at = "reading", ![s].under = active]
        /\ UNCHANGED <<active, ledger, capability, admitted, held, delivered>>
    BY DEF Acquire, IInv, TypeOK
  <1> DEFINE new == [call[s] EXCEPT !.at = "reading", !.under = active]
  <1>2. ~call[s].secret
    BY <1>1, NothingOk DEF IInv, SecretsAreSingle
  <1>3. /\ new \in Calls /\ new.at = "reading" /\ new.under = active /\ ~new.secret
        /\ new.effect = call[s].effect
    BY <1>1, <1>2 DEF Calls
  <1>4. /\ call' \in [Slots -> Calls \cup {None}] /\ call'[s] = new
        /\ \A o \in Slots : o # s => call'[o] = call[o]
    BY <1>1, <1>3 DEF IInv, TypeOK
  <1>5. \A o \in Slots : call'[o] # None =>
             /\ request[call'[o].effect] # None
             /\ call'[o].at # "waiting" => call'[o].under # None
             /\ \/ call'[o] = call[o]
                \/ ~call'[o].secret /\ call'[o].at # "sent"
    BY <1>1, <1>3, <1>4, NothingOk DEF IInv, TypeOK
  <1>6. OneCallPerEffect'
    BY <1>1, <1>3, <1>4 DEF IInv, OneCallPerEffect, Busy
  <1>. QED BY <1>1, <1>4, <1>5, <1>6, CallStep

LEMMA EndStep ==
  ASSUME IInv, \/ \E s \in Slots : Refuse(s)
               \/ Crash
  PROVE  IInv'
  <1>1. /\ call' \in [Slots -> Calls \cup {None}]
        /\ \A o \in Slots : call'[o] = None \/ call'[o] = call[o]
        /\ UNCHANGED <<active, ledger, capability, admitted, held, delivered>>
    BY DEF Refuse, Crash, IInv, TypeOK
  <1>2. \A o \in Slots : call'[o] # None =>
             /\ request[call'[o].effect] # None
             /\ call'[o].at # "waiting" => call'[o].under # None
             /\ \/ call'[o] = call[o]
                \/ ~call'[o].secret /\ call'[o].at # "sent"
    BY <1>1 DEF IInv, TypeOK
  <1>3. OneCallPerEffect'
    BY <1>1 DEF IInv, OneCallPerEffect, Busy
  <1>. QED BY <1>1, <1>2, <1>3, CallStep

--------------------------------------------------------------------------------
LEMMA AdmitStep ==
  ASSUME IInv, NEW s \in Slots, Admit(s), NEW e, e = call[s].effect
  PROVE  IInv'
  <1> DEFINE new == [call[s] EXCEPT !.at = "sent", !.secret = Mints(s)]
  <1>1. /\ call[s] # None /\ call[s] \in Calls /\ call[s].at = "reading" /\ e \in Effects
        /\ admitted' = [admitted EXCEPT ![e] = Append(@, {})]
        /\ capability' = IF Mints(s) THEN [capability EXCEPT ![e] = request[e].by] ELSE capability
        /\ call' = [call EXCEPT ![s].at = "sent", ![s].secret = Mints(s)]
        /\ UNCHANGED <<active, ledger, held, delivered>>
        /\ request[e] \in Requests /\ call[s].under # None
    BY DEF Admit, IInv, TypeOK, Calls
  <1>2. Mints(s) \in BOOLEAN
    BY DEF Mints, Minting
  <1>3. /\ new \in Calls /\ new.at = "sent" /\ new.effect = e /\ new.secret = Mints(s)
        /\ new.stamped = call[s].stamped /\ new.under = call[s].under
    BY <1>1, <1>2, Zenon DEF Calls
  <1>4. /\ call' \in [Slots -> Calls \cup {None}] /\ call'[s] = new
        /\ \A o \in Slots : o # s => call'[o] = call[o]
    <2>1. call' = [call EXCEPT ![s] = new] /\ call \in [Slots -> Calls \cup {None}]
      BY <1>1, Zenon DEF IInv, TypeOK
    <2>. HIDE DEF new
    <2>. QED BY <1>3, <2>1
  <1>. HIDE DEF new
  <1>5. /\ admitted' \in [Effects -> Seq(SUBSET Results)]
        /\ admitted'[e] # <<>> /\ \A f \in Effects : f # e => admitted'[f] = admitted[f]
        /\ \A f \in Effects : CommittedOnce(f) => CommittedOnce(f)'
    <2>1. admitted \in [Effects -> Seq(SUBSET Results)] /\ {} \in SUBSET Results
      BY DEF IInv, TypeOK
    <2>2. /\ admitted'[e] = Append(admitted[e], {}) /\ admitted[e] \in Seq(SUBSET Results)
          /\ \A f \in Effects : f # e => admitted'[f] = admitted[f]
      BY <1>1, <2>1
    <2>3. /\ admitted'[e] \in Seq(SUBSET Results) /\ Len(admitted'[e]) = Len(admitted[e]) + 1
          /\ Len(admitted[e]) \in Nat /\ admitted'[e] # <<>>
          /\ \A m \in 1 .. Len(admitted[e]) : admitted'[e][m] = admitted[e][m]
      BY <2>1, <2>2
    <2>4. CommittedOnce(e) => CommittedOnce(e)'
      <3> SUFFICES ASSUME NEW m \in 1 .. Len(admitted[e]), "COMMITTED" \in admitted[e][m]
                   PROVE  \E k \in 1 .. Len(admitted'[e]) : "COMMITTED" \in admitted'[e][k]
        BY <1>1, <2>3 DEF CommittedOnce
      <3>. QED BY <2>3
    <2>5. \A f \in Effects : f # e => (CommittedOnce(f) => CommittedOnce(f)')
      BY <2>2 DEF CommittedOnce
    <2>6. admitted' \in [Effects -> Seq(SUBSET Results)]
      BY <1>1, <2>1, <2>2, <2>3
    <2>. QED BY <2>2, <2>3, <2>4, <2>5, <2>6
  <1>6. RowsStay
    BY <1>1, <1>5 DEF RowsStay, ledger
  <1>7. /\ capability' \in [Effects -> Requesters \cup {None}]
        /\ \A f \in Effects : capability[f] # None => capability'[f] = capability[f]
        /\ \A f \in Effects : capability'[f] # capability[f] =>
              f = e /\ Mints(s) /\ capability'[e] = request[e].by /\ capability[e] = None
        /\ Mints(s) => capability'[e] = request[e].by /\ capability[e] = None
    <2>1. capability \in [Effects -> Requesters \cup {None}] /\ request[e].by \in Requesters
      BY <1>1 DEF IInv, TypeOK, Requests
    <2>. QED BY <1>1, <2>1 DEF Mints
  <1>8. Mints(s) => /\ membership[e] = e /\ call[s].stamped = request[e].by
                    /\ request[e].by # None
    BY <1>1, NothingOk DEF Mints, Minting, Requests
  <1>9. TypeOK'
    <2>1. \A o \in Slots : call'[o] # None =>
            request'[call'[o].effect] # None /\ (call'[o].at # "waiting" => call'[o].under # None)
      BY <1>1, <1>3, <1>4, NothingOk DEF IInv, TypeOK, ledger
    <2>. QED BY <1>1, <1>4, <1>5, <1>7, <2>1 DEF IInv, TypeOK, ledger
  <1>10. SealedAsAllocated'
    BY <1>1 DEF IInv, SealedAsAllocated, ledger
  <1>11. MembershipIsEarned'
    BY <1>1, <1>6, EarnedStay DEF IInv, ledger
  <1>12. MintedOnceToItsOwner'
    <2> SUFFICES ASSUME NEW f \in Effects
                 PROVE  /\ capability'[f] # None => /\ membership[f] = f /\ admitted'[f] # <<>>
                                                    /\ capability'[f] = request[f].by
                        /\ delivered[f] \in {<<>>, <<capability'[f]>>}
                        /\ delivered[f] # <<>> => capability'[f] # None
      BY <1>1 DEF MintedOnceToItsOwner, ledger
    <2>1. /\ capability[f] # None => /\ membership[f] = f /\ admitted[f] # <<>>
                                     /\ capability[f] = request[f].by
          /\ delivered[f] \in {<<>>, <<capability[f]>>}
          /\ delivered[f] # <<>> => capability[f] # None
      BY Zenon DEF IInv, MintedOnceToItsOwner
    <2>2. CASE capability'[f] = capability[f]
      <3>1. admitted[f] # <<>> => admitted'[f] # <<>>
        BY <1>5
      <3>. QED BY <2>1, <2>2, <3>1, Zenon
    <2>3. CASE capability'[f] # capability[f]
      <3>1. f = e /\ Mints(s) /\ capability'[f] = request[f].by /\ capability[f] = None
        BY <1>7, <2>3
      <3>2. delivered[f] = <<>>
        BY <2>1, <3>1
      <3>. QED BY <1>5, <1>8, <3>1, <3>2
    <2>. QED BY <2>2, <2>3
  <1>13. SecretsAreSingle'
    <2> SUFFICES ASSUME NEW o \in Slots, call'[o] # None, call'[o].secret
                 PROVE  /\ call'[o].at = "sent" /\ capability'[call'[o].effect] # None
                        /\ call'[o].stamped = capability'[call'[o].effect]
                        /\ delivered[call'[o].effect] = <<>>
      BY <1>1, Zenon DEF SecretsAreSingle
    <2>1. CASE o = s
      <3>1. Mints(s) /\ call'[o].at = "sent" /\ call'[o].effect = e /\ call'[o].stamped = call[s].stamped
        BY <1>3, <1>4, <2>1
      <3>2. capability'[e] = request[e].by /\ capability[e] = None
        BY <1>7, <3>1
      <3>3. delivered[e] = <<>>
        BY <1>1, <3>2 DEF IInv, MintedOnceToItsOwner
      <3>. QED BY <1>8, <3>1, <3>2, <3>3
    <2>2. CASE o # s
      <3>1. call'[o] = call[o] /\ call[o] # None /\ call[o].effect \in Effects
        BY <1>4, <2>2 DEF IInv, TypeOK, Calls
      <3>2. /\ call[o].at = "sent" /\ capability[call[o].effect] # None
            /\ call[o].stamped = capability[call[o].effect] /\ delivered[call[o].effect] = <<>>
        BY <3>1, Zenon DEF IInv, SecretsAreSingle
      <3>. QED BY <1>7, <3>1, <3>2
    <2>. QED BY <2>1, <2>2
  <1>14. OneCallPerEffect'
    BY <1>1, <1>3, <1>4 DEF IInv, OneCallPerEffect, Busy
  <1>15. SentIsAdmitted'
    <2>1. ASSUME NEW o \in Slots, call'[o] # None, call'[o].at = "sent"
          PROVE  admitted'[call'[o].effect] # <<>>
      <3>1. CASE o = s
        BY <1>3, <1>4, <1>5, <3>1
      <3>2. CASE o # s
        <4>1. call'[o] = call[o] /\ call[o].effect \in Effects
          BY <1>4, <2>1, <3>2 DEF IInv, TypeOK, Calls
        <4>2. admitted[call[o].effect] # <<>>
          BY <2>1, <4>1 DEF IInv, SentIsAdmitted
        <4>. QED BY <1>5, <4>1, <4>2
      <3>. QED BY <3>1, <3>2
    <2>2. \A f \in Effects : admitted'[f] # <<>> => request'[f] # None
      BY <1>1, <1>5, NothingOk DEF IInv, SentIsAdmitted, ledger
    <2>. QED BY <2>1, <2>2 DEF SentIsAdmitted
  <1>. QED BY <1>9, <1>10, <1>11, <1>12, <1>13, <1>14, <1>15 DEF IInv

--------------------------------------------------------------------------------
(* An outcome row, and perhaps the end of the call and its delivery.               *)
LEMMA OutcomeStep ==
  ASSUME IInv, NEW e \in Effects, NEW n \in 1 .. Len(admitted[e]), Told(e, n),
         UNCHANGED <<active, ledger, capability, held>>,
         call' \in [Slots -> Calls \cup {None}],
         \A s \in Slots : call'[s] # None => call'[s] = call[s],
         delivered' \in [Effects -> Seq(Requesters)],
         \A f \in Effects :
            \/ delivered'[f] = delivered[f]
            \/ /\ capability[f] # None /\ delivered'[f] = <<capability[f]>>
               /\ \A s \in Slots : call'[s] # None /\ call'[s].secret => call'[s].effect # f
  PROVE  IInv'
  <1>1. /\ admitted' \in [Effects -> Seq(SUBSET Results)]
        /\ \A f \in Effects : CommittedOnce(f) => CommittedOnce(f)'
        /\ \A f \in Effects : admitted'[f] = <<>> <=> admitted[f] = <<>>
    BY ToldGrows DEF IInv
  <1>2. TypeOK'
    BY <1>1 DEF IInv, TypeOK, ledger
  <1>3. SealedAsAllocated'
    BY DEF IInv, SealedAsAllocated, ledger
  <1>4. MembershipIsEarned'
    <2>1. RowsStay
      BY <1>1 DEF RowsStay, ledger
    <2>. QED BY <2>1, EarnedStay DEF IInv, ledger
  <1>5. MintedOnceToItsOwner'
    <2> SUFFICES ASSUME NEW f \in Effects
                 PROVE  /\ capability[f] # None => /\ membership[f] = f /\ admitted'[f] # <<>>
                                                   /\ capability[f] = request[f].by
                        /\ delivered'[f] \in {<<>>, <<capability[f]>>}
                        /\ delivered'[f] # <<>> => capability[f] # None
      BY DEF MintedOnceToItsOwner, ledger
    <2>1. /\ capability[f] # None => /\ membership[f] = f /\ admitted[f] # <<>>
                                     /\ capability[f] = request[f].by
          /\ delivered[f] \in {<<>>, <<capability[f]>>}
          /\ delivered[f] # <<>> => capability[f] # None
      BY Zenon DEF IInv, MintedOnceToItsOwner
    <2>2. capability[f] # None => admitted'[f] # <<>>
      BY <1>1, <2>1
    <2>. QED BY <2>1, <2>2
  <1>6. SecretsAreSingle'
    <2> SUFFICES ASSUME NEW s \in Slots, call'[s] # None, call'[s].secret
                 PROVE  /\ call'[s].at = "sent" /\ capability[call'[s].effect] # None
                        /\ call'[s].stamped = capability[call'[s].effect]
                        /\ delivered'[call'[s].effect] = <<>>
      BY Zenon DEF SecretsAreSingle
    <2>1. call'[s] = call[s] /\ call[s] # None /\ call[s].effect \in Effects
      BY DEF IInv, TypeOK, Calls
    <2>2. /\ call[s].at = "sent" /\ capability[call[s].effect] # None
          /\ call[s].stamped = capability[call[s].effect] /\ delivered[call[s].effect] = <<>>
      BY <2>1, Zenon DEF IInv, SecretsAreSingle
    <2>. QED BY <2>1, <2>2
  <1>7. OneCallPerEffect'
    BY DEF IInv, OneCallPerEffect, Busy
  <1>8. SentIsAdmitted'
    <2>1. ASSUME NEW s \in Slots, call'[s] # None, call'[s].at = "sent"
          PROVE  admitted'[call'[s].effect] # <<>>
      BY <1>1, <2>1 DEF IInv, SentIsAdmitted, TypeOK, Calls
    <2>. QED BY <1>1, <2>1 DEF IInv, SentIsAdmitted, ledger
  <1>. QED BY <1>2, <1>3, <1>4, <1>5, <1>6, <1>7, <1>8 DEF IInv

LEMMA ReturnStep ==
  ASSUME IInv, NEW s \in Slots, Return(s), NEW e, e = call[s].effect
  PROVE  IInv'
  <1>1. /\ call[s] # None /\ call[s] \in Calls /\ call[s].at = "sent" /\ e \in Effects
        /\ Told(e, Len(admitted[e]))
        /\ delivered' = IF call[s].secret THEN [delivered EXCEPT ![e] = Append(@, call[s].stamped)]
                        ELSE delivered
        /\ call' = [call EXCEPT ![s] = None]
        /\ UNCHANGED <<active, ledger, capability, held>>
    BY DEF Return, IInv, TypeOK, Calls
  <1>2. Len(admitted[e]) \in 1 .. Len(admitted[e])
    <2>1. admitted[e] # <<>> /\ admitted[e] \in Seq(SUBSET Results)
      BY <1>1 DEF IInv, SentIsAdmitted, TypeOK
    <2>. QED BY <2>1, EmptySeq
  <1>3. /\ call' \in [Slots -> Calls \cup {None}]
        /\ call'[s] = None
        /\ \A o \in Slots : call'[o] # None => o # s /\ call'[o] = call[o]
    BY <1>1 DEF IInv, TypeOK
  <1>4. /\ delivered' \in [Effects -> Seq(Requesters)]
        /\ \A f \in Effects :
              \/ delivered'[f] = delivered[f]
              \/ /\ capability[f] # None /\ delivered'[f] = <<capability[f]>>
                 /\ \A o \in Slots : call'[o] # None /\ call'[o].secret => call'[o].effect # f
    <2>0. delivered \in [Effects -> Seq(Requesters)] /\ capability \in [Effects -> Requesters \cup {None}]
      BY DEF IInv, TypeOK
    <2>1. CASE ~call[s].secret
      BY <1>1, <2>0, <2>1
    <2>2. CASE call[s].secret
      <3>1. capability[e] # None /\ call[s].stamped = capability[e] /\ delivered[e] = <<>>
        BY <1>1, <2>2, Zenon DEF IInv, SecretsAreSingle
      <3>2. capability[e] \in Requesters
        BY <1>1, <2>0, <3>1
      <3>3. Append(<<>>, capability[e]) = <<capability[e]>> /\ <<capability[e]>> \in Seq(Requesters)
        BY <3>2
      <3>4. delivered' = [delivered EXCEPT ![e] = <<capability[e]>>]
        BY <1>1, <2>0, <2>2, <3>1, <3>3
      <3>5. \A o \in Slots : call'[o] # None /\ call'[o].secret => call'[o].effect # e
        <4> SUFFICES ASSUME NEW o \in Slots, call'[o] # None, call'[o].secret, call'[o].effect = e
                     PROVE  FALSE
          OBVIOUS
        <4>1. o # s /\ call'[o] = call[o]
          BY <1>3
        <4>2. call[o].at = "sent"
          BY <4>1 DEF IInv, SecretsAreSingle
        <4>. QED BY <1>1, <4>1, <4>2 DEF IInv, OneCallPerEffect, Busy
      <3>. QED BY <1>1, <2>0, <3>1, <3>3, <3>4, <3>5
    <2>. QED BY <2>1, <2>2
  <1>. QED BY <1>1, <1>2, <1>3, <1>4, OutcomeStep

LEMMA ReconcileStep ==
  ASSUME IInv, NEW e \in Effects, Reconcile(e)
  PROVE  IInv'
  <1>1. PICK n \in 1 .. Len(admitted[e]) : Told(e, n)
    BY DEF Reconcile
  <1>2. UNCHANGED <<active, ledger, capability, held, call, delivered>>
    BY DEF Reconcile
  <1>3. call' \in [Slots -> Calls \cup {None}] /\ delivered' \in [Effects -> Seq(Requesters)]
    BY <1>2 DEF IInv, TypeOK
  <1>. QED BY <1>1, <1>2, <1>3, OutcomeStep

LEMMA Stutter ==
  ASSUME IInv, UNCHANGED vars
  PROVE  IInv'
  <1>1. UNCHANGED <<active, ledger, capability, admitted, call, delivered>> /\ held' = held
    BY DEF vars, ledger
  <1>. QED BY <1>1, HeldStep

LEMMA StepInv == IInv /\ [Next]_vars => IInv'
  <1> SUFFICES ASSUME IInv, [Next]_vars PROVE IInv'
    OBVIOUS
  <1>1. ASSUME NEW c \in Configs, Activate(c) PROVE IInv'
    BY <1>1, PolicyStep
  <1>2. ASSUME NEW p \in Principals, NEW e \in Effects, NEW t \in Tuples, AllocateEffectId(p, t, e)
        PROVE  IInv'
    BY <1>2, AllocateStep
  <1>3. ASSUME NEW p \in Principals, NEW e \in Effects, Seal(p, e) PROVE IInv'
    BY <1>3, ConflictStep, FirstSealSteps DEF Seal
  <1>4. ASSUME NEW p \in Principals, NEW e \in Effects, NEW s \in Slots, BeginCall(s, p, e)
        PROVE  IInv'
    BY <1>4, BeginStep
  <1>5. ASSUME NEW s \in Slots, Acquire(s) PROVE IInv'
    BY <1>5, AcquireStep
  <1>6. ASSUME NEW s \in Slots, Admit(s) PROVE IInv'
    BY <1>6, AdmitStep
  <1>7. ASSUME NEW s \in Slots, Return(s) PROVE IInv'
    BY <1>7, ReturnStep
  <1>8. ASSUME NEW e \in Effects, Reconcile(e) PROVE IInv'
    BY <1>8, ReconcileStep
  <1>9. ASSUME NEW h \in held, Release(h) PROVE IInv'
    BY <1>9, ReleaseStep
  <1>. QED BY <1>1, <1>2, <1>3, <1>4, <1>5, <1>6, <1>7, <1>8, <1>9, EndStep, Stutter DEF Next

--------------------------------------------------------------------------------
(* The tables are well formed, and the invariant holds, in every reachable state. *)
THEOREM Invariance == Spec => []IInv
  BY InitInv, StepInv, PTL DEF Spec

THEOREM TypeCorrect == Spec => []TypeOK
  <1>1. IInv => TypeOK
    BY DEF IInv
  <1>. QED BY Invariance, <1>1, PTL

(* Whatever policies come and go, a request is what its allocation made of it.     *)
THEOREM AllocationIsAuthority == Spec => []SealedAsAllocated
  <1>1. IInv => SealedAsAllocated
    BY DEF IInv
  <1>. QED BY Invariance, <1>1, PTL

(* A membership row is of a committed run of the same requester, or of itself.     *)
THEOREM MembershipsAreEarned == Spec => []MembershipIsEarned
  <1>1. IInv => MembershipIsEarned
    BY DEF IInv
  <1>. QED BY Invariance, <1>1, PTL

(* A run's capability is minted by its adjudicated start and returned at most once,*)
(* to the one who holds it.                                                        *)
THEOREM CapabilitiesAreMintedOnce == Spec => []MintedOnceToItsOwner
  <1>1. IInv => MintedOnceToItsOwner
    BY DEF IInv
  <1>. QED BY Invariance, <1>1, PTL

--------------------------------------------------------------------------------
(* Only an admission makes a reading call a sent one.                              *)
LEMMA OnlyAdmitSends ==
  ASSUME IInv, [Next]_vars, NEW s \in Slots,
         call[s] # None, call[s].at = "reading", call'[s] # None, call'[s].at = "sent"
  PROVE  Admit(s)
  <1>0. call \in [Slots -> Calls \cup {None}]
    BY DEF IInv, TypeOK
  <1>1. call' # call
    OBVIOUS
  <1>2. ASSUME NEW o \in Slots, NEW p \in Principals, NEW e \in Effects, BeginCall(o, p, e)
        PROVE  FALSE
    BY <1>0, <1>2 DEF BeginCall
  <1>3. ASSUME NEW o \in Slots, Acquire(o) PROVE FALSE
    BY <1>0, <1>3 DEF Acquire
  <1>4. ASSUME NEW o \in Slots, Refuse(o) \/ Return(o) \/ (Admit(o) /\ o # s) PROVE FALSE
    BY <1>0, <1>4 DEF Refuse, Return, Admit
  <1>5. ~Crash
    BY DEF Crash
  <1>6. ASSUME NEW p \in Principals, NEW e \in Effects, NEW t \in Tuples, AllocateEffectId(p, t, e)
        PROVE  FALSE
    BY <1>1, <1>6 DEF AllocateEffectId
  <1>7. ASSUME NEW p \in Principals, NEW e \in Effects, Seal(p, e) PROVE FALSE
    BY <1>1, <1>7 DEF Seal, SealConflict, SealOutside, SealOrigin, SealMember, FirstSeal
  <1>8. /\ \A c \in Configs : ~Activate(c)
        /\ \A e \in Effects : ~Reconcile(e)
        /\ \A h \in held : ~Release(h)
        /\ ~UNCHANGED vars
    BY <1>1 DEF Activate, Reconcile, Release, vars
  <1>. QED BY <1>2, <1>3, <1>4, <1>5, <1>6, <1>7, <1>8 DEF Next

(* What recheck #19 lets pass under a policy that enrols the requester is in the   *)
(* run it names, however it was sealed.                                            *)
THEOREM AdmissionsAreInTheirRun == Spec => AdmittedInItsRun
  <1>1. ASSUME IInv, [Next]_vars, NEW s \in Slots PROVE AdmitsInItsRun(s)
    <2> DEFINE run == Scope(call[s].effect, call[s].under)
    <2> SUFFICES ASSUME call[s] # None, call[s].at = "reading", call'[s] # None, call'[s].at = "sent",
                        run # None
                 PROVE  InRunOf(call[s].effect, run)
      BY DEF AdmitsInItsRun
    <2>1. Admit(s)
      BY <1>1, OnlyAdmitSends
    <2>2. membership[call[s].effect] = run
      BY <2>1 DEF Admit, Proven
    <2>3. call[s].effect \in Effects
      BY <1>1 DEF IInv, TypeOK, Calls
    <2>. QED BY <1>1, <2>2, <2>3 DEF IInv, MembershipIsEarned
  <1>2. IInv /\ [Next]_vars => [\A s \in Slots : AdmitsInItsRun(s)]_vars
    BY <1>1
  <1>. QED BY Invariance, <1>2, PTL DEF Spec, AdmittedInItsRun
================================================================================
