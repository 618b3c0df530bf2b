------------------------ MODULE EffectKernel_proofs ------------------------
(* Proofs about EffectKernel, for every value of its constants.             *)
EXTENDS EffectKernel, TLAPS

LEMMA ContradictionType ==
  ASSUME NEW e \in Effects, NEW k, NEW res
  PROVE  Contradiction(e, k, res) \subseteq Incident
<1>1. [kind |-> "OUTCOME_CONTRADICTION", effect |-> e, wide |-> FALSE] \in Incident
  BY DEF Incident
<1> QED BY <1>1 DEF Contradiction

LEMMA MismatchType ==
  ASSUME NEW e \in Effects, NEW wide \in BOOLEAN
  PROVE  Mismatch(e, wide) \subseteq Incident
BY DEF Mismatch, Incident

LEMMA WriteOutcomeType ==
  ASSUME TypeOK, NEW e \in Effects, NEW k \in Ordinals, NEW res \in Result,
         NEW receipt \in SUBSET Incident, WriteOutcome(e, k, res, receipt)
  PROVE  /\ results' \in [Effects -> [Ordinals -> SUBSET Result]]
         /\ incidents' \subseteq Incident
         /\ open' \subseteq incidents'
<1>1. results' \in [Effects -> [Ordinals -> SUBSET Result]]
  BY DEF TypeOK, WriteOutcome
<1>2. Contradiction(e, k, res) \subseteq Incident
  BY ContradictionType
<1>3. incidents' \subseteq Incident /\ open' \subseteq incidents'
  BY <1>2 DEF TypeOK, WriteOutcome, Seal
<1> QED BY <1>1, <1>3

LEMMA TypeInit == Init => TypeOK
BY ConstantsOk DEF Init, TypeOK, Ordinals

LEMMA TypeAdmit ==
  ASSUME TypeOK, NEW c \in calls, Admit(c)
  PROVE  TypeOK'
<1> DEFINE d == c.decision
           e == d.effect
           k == ordinal[e] + 1
           row == [effect |-> e, ord |-> k, policy |-> d.policy, human |-> d.human,
                   activeAt |-> active]
<1>1. c \in Call /\ d \in Decision /\ e \in Effects
  BY DEF TypeOK, Call, Decision
<1>2. k \in Ordinals
  BY <1>1, ConstantsOk DEF TypeOK, Admit, Ordinals
<1>3. admissions' \subseteq Admission
  <2>1. row \in Admission
    BY <1>1, <1>2 DEF TypeOK, Decision, Admission
  <2> QED BY <2>1 DEF TypeOK, Admit
<1>4. ordinal' \in [Effects -> 0 .. MaxOrdinal]
  BY <1>1, <1>2, ConstantsOk DEF TypeOK, Admit, Ordinals
<1>5. calls' \subseteq Call
  <2>1. [c EXCEPT !.phase = "admitted", !.ord = k] \in Call
    BY <1>1, <1>2 DEF Call, Phase
  <2> QED BY <2>1 DEF TypeOK, Admit
<1> QED BY <1>3, <1>4, <1>5 DEF TypeOK, Admit, targetVars

LEMMA TypeAcquire ==
  ASSUME TypeOK, NEW d \in decisions, Acquire(d)
  PROVE  TypeOK'
<1>1. d \in Decision /\ active \in 1 .. MaxPolicy /\ 1 \in Ordinals
  BY ConstantsOk DEF TypeOK, Acquire, Ordinals
<1>2. [decision |-> d, snap |-> active, ord |-> 1, phase |-> "reading"] \in Call
  BY <1>1 DEF Call, Phase
<1>3. calls' \subseteq Call
  BY <1>2 DEF TypeOK, Acquire
<1> QED BY <1>3 DEF TypeOK, Acquire, storeVars, targetVars

LEMMA AdvanceType ==
  ASSUME TypeOK, NEW p \in passes, NEW k \in Heads(p), Advance(p, k)
  PROVE  passes' \subseteq Pass
<1>1. p \in Pass
  BY DEF TypeOK
<1>2. [p EXCEPT !.todo = p.todo \ {k}, !.prior = 0, !.saw = "NOTHING"] \in Pass
  BY <1>1 DEF Pass
<1> QED BY <1>2 DEF TypeOK, Advance

LEMMA TypeRecord ==
  ASSUME TypeOK, NEW p \in passes, NEW k \in Heads(p), Record(p, k)
  PROVE  TypeOK'
<1> DEFINE res == IF p.saw = "UNBOUND" THEN "UNKNOWN" ELSE p.saw
           receipt == IF p.saw = "UNBOUND" THEN Mismatch(p.effect, FALSE) ELSE {}
<1>1. p \in Pass /\ p.effect \in Effects /\ k \in Ordinals
  BY DEF TypeOK, Pass, Heads
<1>2. res \in Result /\ receipt \in SUBSET Incident
  BY <1>1, MismatchType DEF Record, Result
<1>3. WriteOutcome(p.effect, k, res, receipt)
  BY DEF Record
<1>4. /\ results' \in [Effects -> [Ordinals -> SUBSET Result]]
      /\ incidents' \subseteq Incident
      /\ open' \subseteq incidents'
  BY <1>1, <1>2, <1>3, WriteOutcomeType
<1>5. attempts' \in [Effects -> [Ordinals -> Nat]]
  BY <1>1 DEF TypeOK, Record
<1>6. passes' \subseteq Pass
  <2>1. [p EXCEPT !.saw = "SPENT"] \in Pass
    BY <1>1 DEF Pass
  <2> QED BY <2>1, AdvanceType DEF TypeOK, Record
<1> QED BY <1>4, <1>5, <1>6 DEF TypeOK, Record, targetVars

LEMMA TypeRead ==
  ASSUME TypeOK, NEW p \in passes, NEW k \in Heads(p), Read(p, k)
  PROVE  TypeOK'
<1>1. p \in Pass /\ p.effect \in Effects /\ k \in Ordinals
  BY DEF TypeOK, Pass, Heads
<1>2. attempts[p.effect][k] \in Nat
  BY <1>1 DEF TypeOK
<1>3. passes' \subseteq Pass
  <2>1. PICK saw \in TargetReads(p.effect) :
          passes' = (passes \ {p}) \union
                    {[p EXCEPT !.prior = attempts[p.effect][k], !.saw = saw]}
    BY DEF Read
  <2>2. saw \in Result \union {"UNBOUND"}
    BY DEF TargetReads, Result
  <2>3. [p EXCEPT !.prior = attempts[p.effect][k], !.saw = saw] \in Pass
    BY <1>1, <1>2, <2>2 DEF Pass
  <2> QED BY <2>1, <2>3 DEF TypeOK
<1> QED BY <1>3 DEF TypeOK, Read, storeVars, targetVars

LEMMA TypeExhaust ==
  ASSUME TypeOK, NEW p \in passes, NEW k \in Heads(p), Exhaust(p, k)
  PROVE  TypeOK'
<1>1. p.effect \in Effects
  BY DEF TypeOK, Pass
<1>2. passes' \subseteq Pass
  BY AdvanceType DEF Exhaust
<1> QED BY <1>1, <1>2 DEF TypeOK, Exhaust, targetVars

LEMMA NewPassType ==
  ASSUME TypeOK, NEW r \in PassIds, NEW e \in Effects
  PROVE  NewPass(r, e) \in Pass
<1>1. OpenOrdinals(e) \subseteq Ordinals
  BY ConstantsOk DEF TypeOK, OpenOrdinals, Ordinals
<1> QED BY <1>1 DEF NewPass, Pass

(* The writes of a call that returns: an outcome row and maybe an incident. *)
LEMMA TypeOutcome ==
  ASSUME TypeOK, NEW c \in calls, NEW res \in Result, NEW receipt \in SUBSET Incident,
         WriteOutcome(c.decision.effect, c.ord, res, receipt), Return(c),
         UNCHANGED <<active, decisions, admissions, ordinal, attempts, exhausted,
                     svc, scan, passes, crashes, targetVars>>
  PROVE  TypeOK'
<1>1. c.decision.effect \in Effects /\ c.ord \in Ordinals
  BY DEF TypeOK, Call, Decision
<1>2. /\ results' \in [Effects -> [Ordinals -> SUBSET Result]]
      /\ incidents' \subseteq Incident
      /\ open' \subseteq incidents'
  BY <1>1, WriteOutcomeType
<1> QED BY <1>2 DEF TypeOK, Return, targetVars

LEMMA TypeCall ==
  ASSUME TypeOK, NEW c \in calls, CallStep(c)
  PROVE  TypeOK'
<1> DEFINE e == c.decision.effect
<1>1. c \in Call /\ e \in Effects /\ c.ord \in Ordinals
  BY DEF TypeOK, Call, Decision
<1>2. CASE Refuse(c)
  <2>1. Corruption(e) \subseteq Incident
    BY <1>1 DEF Corruption, Incident
  <2> QED BY <1>2, <2>1 DEF TypeOK, Refuse, Return, Seal, targetVars
<1>3. CASE Admit(c)
  BY <1>3, TypeAdmit
<1>4. CASE Send(c)
  <2>1. [c EXCEPT !.phase = "sent"] \in Call
    BY <1>1 DEF Call, Phase
  <2>2. <<e, c.ord>> \in Request
    BY <1>1 DEF Request
  <2> QED BY <1>4, <2>1, <2>2 DEF TypeOK, Send, Become, storeVars
<1>5. CASE GiveUp(c)
  BY <1>5, TypeOutcome DEF GiveUp, Result
<1>6. CASE ObserveAccepted(c)
  <2>1. Mismatch(e, TRUE) \in SUBSET Incident /\ {} \in SUBSET Incident
    BY <1>1, MismatchType
  <2>2. CASE c.phase = "accepted"
    BY <1>6, <2>1, <2>2, TypeOutcome DEF ObserveAccepted, Result
  <2>3. CASE c.phase # "accepted"
    BY <1>6, <2>1, <2>3, TypeOutcome DEF ObserveAccepted, Result
  <2> QED BY <2>2, <2>3
<1>7. CASE ObserveRejected(c)
  BY <1>7, TypeOutcome DEF ObserveRejected, RejectionResult, Result
<1> QED BY <1>2, <1>3, <1>4, <1>5, <1>6, <1>7 DEF CallStep

LEMMA AnswerType ==
  ASSUME TypeOK, NEW q \in wire, NEW answer \in Phase, Answer(q, answer)
  PROVE  calls' \subseteq Call
<1>1. \A c \in calls : [c EXCEPT !.phase = answer] \in Call
  BY DEF TypeOK, Call, Phase
<1> QED BY <1>1 DEF TypeOK, Answer, Waiting

LEMMA TypeTarget ==
  ASSUME TypeOK, NEW q \in wire, Land(q) \/ FindTaken(q) \/ Reject(q) \/ Drop(q)
  PROVE  TypeOK'
<1>1. q[1] \in Effects
  BY DEF TypeOK, Request
<1>2. CASE Land(q)
  <2>1. calls' \subseteq Call
    BY <1>2, AnswerType DEF Land, Phase
  <2>2. times' \in [Effects -> Nat]
    BY <1>1, <1>2 DEF TypeOK, Land
  <2> QED BY <1>2, <2>1, <2>2 DEF TypeOK, Land, storeVars
<1>3. CASE FindTaken(q)
  <2>1. calls' \subseteq Call
    BY <1>3, AnswerType DEF FindTaken, Phase
  <2> QED BY <1>3, <2>1 DEF TypeOK, FindTaken, storeVars
<1>4. CASE Reject(q)
  <2>1. calls' \subseteq Call
    BY <1>4, AnswerType DEF Reject, Phase
  <2> QED BY <1>4, <2>1 DEF TypeOK, Reject, storeVars
<1>5. CASE Drop(q)
  BY <1>5 DEF TypeOK, Drop, storeVars, memoryVars
<1> QED BY <1>2, <1>3, <1>4, <1>5

LEMMA TypeCrash ==
  ASSUME TypeOK, Crash
  PROVE  TypeOK'
<1>1. PICK sealed \in HalfWritten : Seal(sealed)
  BY DEF Crash
<1>2. sealed \subseteq Incident
  <2>1. \A c \in calls : c.decision.effect \in Effects
    BY DEF TypeOK, Call, Decision
  <2>2. \A p \in passes : p.effect \in Effects
    BY DEF TypeOK, Pass
  <2>3. \A c \in calls : \A k, res : Contradiction(c.decision.effect, k, res) \subseteq Incident
    BY <2>1, ContradictionType
  <2>4. \A p \in passes : \A k, res : Contradiction(p.effect, k, res) \subseteq Incident
    BY <2>2, ContradictionType
  <2>5. \A c \in calls : Mismatch(c.decision.effect, TRUE) \subseteq Incident
    BY <2>1, MismatchType
  <2>6. \A p \in passes : Mismatch(p.effect, FALSE) \subseteq Incident
    BY <2>2, MismatchType
  <2> DEFINE ofAccepted == {Contradiction(c.decision.effect, c.ord, "COMMITTED") :
                              c \in {c \in calls : c.phase = "accepted"}}
             ofRejected == {Contradiction(c.decision.effect, c.ord,
                                          RejectionResult(c.decision.effect)) :
                              c \in {c \in calls : c.phase = "rejected"}}
             ofUnbound  == {Mismatch(c.decision.effect, TRUE) :
                              c \in {c \in calls : c.phase = "unbound"}}
             ofRead     == UNION {{Contradiction(p.effect, k, p.saw) : k \in Heads(p)} :
                                    p \in {p \in passes : p.saw \in Result}}
             ofForeign  == {Mismatch(p.effect, FALSE) :
                              p \in {p \in passes : p.saw = "UNBOUND"}}
  <2>7. sealed \in {{}} \union ofAccepted \union ofRejected \union ofUnbound
                   \union ofRead \union ofForeign
    BY <1>1 DEF HalfWritten
  <2>8. ASSUME NEW s \in ofRead PROVE s \subseteq Incident
    <3>1. PICK p \in passes : \E k \in Heads(p) : s = Contradiction(p.effect, k, p.saw)
      OBVIOUS
    <3> QED BY <3>1, <2>4
  <2>9. ASSUME NEW s \in ofAccepted \union ofRejected PROVE s \subseteq Incident
    <3>1. PICK c \in calls : \E k, res : s = Contradiction(c.decision.effect, k, res)
      OBVIOUS
    <3> QED BY <3>1, <2>3
  <2>10. ASSUME NEW s \in ofUnbound PROVE s \subseteq Incident
    BY <2>5
  <2>11. ASSUME NEW s \in ofForeign PROVE s \subseteq Incident
    BY <2>6
  <2> QED BY <2>7, <2>8, <2>9, <2>10, <2>11
<1>3. scan' \subseteq Request
  BY DEF TypeOK, Crash, Admission, Request
<1> QED BY <1>1, <1>2, <1>3, ConstantsOk DEF TypeOK, Crash, Seal, targetVars

LEMMA TypeNext == TypeOK /\ [Next]_vars => TypeOK'
<1> SUFFICES ASSUME TypeOK, [Next]_vars PROVE TypeOK'
  OBVIOUS
<1>1. CASE Activate
  BY <1>1, ConstantsOk DEF TypeOK, Activate, memoryVars, targetVars
<1>2. ASSUME NEW e \in Effects, NEW h \in Humans \union {NoHuman}, NEW policy \in 1 .. MaxPolicy,
             Evaluate(e, h, policy)
      PROVE  TypeOK'
  <2>1. [effect |-> e, policy |-> policy, human |-> h] \in Decision
    BY DEF Decision
  <2> QED BY <1>2, <2>1 DEF TypeOK, Evaluate, memoryVars, targetVars
<1>3. ASSUME NEW i \in open, Release(i) PROVE TypeOK'
  BY <1>3 DEF TypeOK, Release, memoryVars, targetVars
<1>4. ASSUME NEW d \in decisions, Acquire(d) PROVE TypeOK'
  BY <1>4, TypeAcquire
<1>5. ASSUME NEW c \in calls, CallStep(c) PROVE TypeOK'
  BY <1>5, TypeCall
<1>6. ASSUME NEW q \in wire, Land(q) \/ FindTaken(q) \/ Reject(q) \/ Drop(q)
      PROVE  TypeOK'
  BY <1>6, TypeTarget
<1>7. ASSUME NEW e \in Effects, LosePrecondition(e) \/ Match(e) \/ Occupy(e) PROVE TypeOK'
  BY <1>7 DEF TypeOK, LosePrecondition, Match, Occupy, MovedFor, storeVars, memoryVars
<1>8. ASSUME NEW r \in Passes, NEW e \in Effects, StartPass(r, e) PROVE TypeOK'
  <2>1. NewPass(r, e) \in Pass
    BY NewPassType DEF PassIds
  <2> QED BY <1>8, <2>1 DEF TypeOK, StartPass, storeVars, targetVars
<1>9. ASSUME NEW p \in passes, PassStep(p) PROVE TypeOK'
  BY <1>9, TypeExhaust, TypeRead, TypeRecord DEF PassStep
<1>10. CASE Crash
  BY <1>10, TypeCrash
<1>11. CASE ScanStep
  <2>1. ASSUME NEW q \in scan, ScanNext(q) PROVE TypeOK'
    <3>1. NewPass(Boot, q[1]) \in Pass
      BY NewPassType DEF TypeOK, Request, PassIds
    <3> QED BY <2>1, <3>1 DEF TypeOK, ScanNext, storeVars, targetVars
  <2>2. CASE ScanDone
    BY <2>2 DEF TypeOK, ScanDone, storeVars, targetVars
  <2> QED BY <1>11, <2>1, <2>2 DEF ScanStep
<1>12. CASE UNCHANGED vars
  BY <1>12 DEF TypeOK, vars, storeVars, memoryVars, targetVars
<1> QED BY <1>1, <1>2, <1>3, <1>4, <1>5, <1>6, <1>7, <1>8, <1>9, <1>10, <1>11, <1>12 DEF Next

(* Every row, every call and pass in progress and every request is of the   *)
(* form the code gives it, at every point of every run.                     *)
THEOREM TypeCorrect == Spec => []TypeOK
<1> QED BY TypeInit, TypeNext, PTL DEF Spec

-----------------------------------------------------------------------------
(* The inductive invariant.                                                 *)

LEMMA OrdinalsAreNat == Ordinals \subseteq Nat \ {0}
BY ConstantsOk DEF Ordinals

LEMMA CallFields ==
  ASSUME TypeOK, NEW c \in calls
  PROVE  /\ c \in Call
         /\ c.decision.effect \in Effects
         /\ c.ord \in Ordinals
         /\ c.ord \in Nat
BY OrdinalsAreNat DEF TypeOK, Call, Decision

LEMMA PassFields ==
  ASSUME TypeOK, NEW p \in passes
  PROVE  /\ p \in Pass
         /\ p.effect \in Effects
         /\ p.todo \subseteq Ordinals
         /\ p.todo \subseteq Nat
BY OrdinalsAreNat DEF TypeOK, Pass

LEMMA RequestFields ==
  ASSUME TypeOK, NEW q \in wire
  PROVE  q[1] \in Effects /\ q[2] \in Ordinals /\ q[2] \in Nat
BY OrdinalsAreNat DEF TypeOK, Request

LEMMA Counts ==
  ASSUME TypeOK, NEW e \in Effects
  PROVE  ordinal[e] \in Nat /\ ordinal[e] <= MaxOrdinal /\ times[e] \in Nat
BY ConstantsOk DEF TypeOK

LEMMA InvInit == Init => IInv
<1> SUFFICES ASSUME Init PROVE IInv
  OBVIOUS
<1>1. TypeOK
  BY TypeInit
<1> QED BY <1>1 DEF Init, IInv, OneCallPerDomain, MemoryIsAdmitted, MemoryIsTrue,
     SentOnce, AttemptsAreThere, NothingUnadmitted, CommittedIsTrue, AtMostOneEffect

LEMMA InvUnmoved ==
  ASSUME IInv, TypeOK', UNCHANGED <<ordinal, results, attempts, calls, passes, wire, times>>,
         met \subseteq met'
  PROVE  IInv'
BY DEF IInv, OneCallPerDomain, MemoryIsAdmitted, MemoryIsTrue, SentOnce,
     AttemptsAreThere, NothingUnadmitted, CommittedIsTrue, AtMostOneEffect

(* A call that enters lock D, or leaves it without a row.                   *)
LEMMA InvAcquire ==
  ASSUME IInv, TypeOK', NEW d \in decisions, Acquire(d)
  PROVE  IInv'
<1> DEFINE new == [decision |-> d, snap |-> active, ord |-> 1, phase |-> "reading"]
<1>1. calls' = calls \union {new} /\ LockFree(Domain[d.effect])
  BY DEF Acquire
<1>2. UNCHANGED <<ordinal, results, attempts, passes, wire, times, met>>
  BY DEF Acquire, storeVars, targetVars
<1>3. OneCallPerDomain'
  BY <1>1 DEF IInv, OneCallPerDomain, LockFree
<1>4. MemoryIsAdmitted' /\ MemoryIsTrue'
  BY <1>1, <1>2 DEF IInv, MemoryIsAdmitted, MemoryIsTrue
<1>5. SentOnce'
  BY <1>1, <1>2 DEF IInv, SentOnce
<1> QED BY <1>2, <1>3, <1>4, <1>5 DEF IInv, AttemptsAreThere, NothingUnadmitted,
     CommittedIsTrue, AtMostOneEffect

LEMMA InvFewerCalls ==
  ASSUME IInv, TypeOK', calls' \subseteq calls,
         UNCHANGED <<ordinal, results, attempts, passes, wire, times, met>>
  PROVE  IInv'
<1>1. OneCallPerDomain'
  BY DEF IInv, OneCallPerDomain
<1>2. MemoryIsAdmitted' /\ MemoryIsTrue'
  BY DEF IInv, MemoryIsAdmitted, MemoryIsTrue
<1>3. SentOnce'
  BY DEF IInv, SentOnce
<1> QED BY <1>1, <1>2, <1>3 DEF IInv, AttemptsAreThere, NothingUnadmitted,
     CommittedIsTrue, AtMostOneEffect

LEMMA InvAdmit ==
  ASSUME IInv, TypeOK', NEW c \in calls, Admit(c)
  PROVE  IInv'
<1> DEFINE e == c.decision.effect
           k == ordinal[e] + 1
           new == [c EXCEPT !.phase = "admitted", !.ord = k]
<1>1. c \in Call /\ e \in Effects /\ ordinal[e] \in Nat
  BY CallFields, Counts DEF IInv
<1>2. /\ ordinal' = [ordinal EXCEPT ![e] = k]
      /\ calls' = (calls \ {c}) \union {new}
      /\ NextOrdinalAllowed(e)
      /\ UNCHANGED <<results, attempts, passes, wire, times, met>>
  BY DEF Admit, targetVars
<1>3. /\ ordinal'[e] = ordinal[e] + 1
      /\ \A f \in Effects : ordinal[f] <= ordinal'[f] /\ (f # e => ordinal'[f] = ordinal[f])
  BY <1>1, <1>2 DEF IInv, TypeOK
<1>4. new.decision = c.decision /\ new.phase = "admitted" /\ new.ord = ordinal'[e]
  BY <1>1, <1>2, <1>3 DEF Call
<1> HIDE DEF new, k
<1>5. OneCallPerDomain'
  BY <1>2, <1>4 DEF IInv, OneCallPerDomain
<1>6. MemoryIsAdmitted'
  <2>1. \A x \in calls' : x.phase # "reading" => x.ord <= ordinal'[x.decision.effect]
    <3> SUFFICES ASSUME NEW x \in calls', x.phase # "reading"
                 PROVE  x.ord <= ordinal'[x.decision.effect]
      OBVIOUS
    <3>1. CASE x = new
      <4>1. x.ord = ordinal'[e] /\ x.decision.effect = e
        BY <1>4, <3>1
      <4>2. ordinal'[e] \in Nat
        BY <1>1, <1>3
      <4>3. ordinal'[e] <= ordinal'[e]
        BY <4>2
      <4> QED BY <4>1, <4>3
    <3>2. CASE x \in calls
      <4>1. x.ord \in Nat /\ x.decision.effect \in Effects
        BY <3>2, CallFields DEF IInv
      <4>2. x.ord <= ordinal[x.decision.effect]
        BY <3>2 DEF IInv, MemoryIsAdmitted
      <4>3. ordinal[x.decision.effect] \in Nat
        BY <4>1, Counts DEF IInv
      <4> QED BY <4>1, <4>2, <4>3, <1>1, <1>3
    <3> QED BY <1>2, <3>1, <3>2
  <2>2. \A p \in passes' : \A j \in p.todo : j <= ordinal'[p.effect]
    <3> SUFFICES ASSUME NEW p \in passes, NEW j \in p.todo PROVE j <= ordinal'[p.effect]
      BY <1>2
    <3>1. p.effect \in Effects /\ j \in Nat
      BY PassFields DEF IInv
    <3>2. j <= ordinal[p.effect]
      BY DEF IInv, MemoryIsAdmitted
    <3>3. ordinal[p.effect] \in Nat
      BY <3>1, Counts DEF IInv
    <3> QED BY <3>1, <3>2, <3>3, <1>1, <1>3
  <2> QED BY <2>1, <2>2 DEF MemoryIsAdmitted
<1>7. MemoryIsTrue'
  BY <1>2, <1>4 DEF IInv, MemoryIsTrue
<1>8. NothingUnadmitted'
  <2>1. \A q \in wire : q[1] \in Effects /\ q[2] \in Nat
    BY RequestFields DEF IInv
  <2>2. \A f \in Effects : ordinal[f] \in Nat /\ ordinal'[f] \in Nat
    BY <1>3, Counts DEF IInv
  <2>3. \A q \in wire' : q[2] <= ordinal'[q[1]]
    BY <1>2, <1>3, <2>1, <2>2 DEF IInv, NothingUnadmitted
  <2>4. \A f \in Effects : times'[f] > 0 => ordinal'[f] > 0
    BY <1>2, <1>3, <2>2 DEF IInv, NothingUnadmitted
  <2>5. \A f \in Effects, j \in Ordinals : results'[f][j] # {} => j <= ordinal'[f]
    <3> SUFFICES ASSUME NEW f \in Effects, NEW j \in Ordinals, results'[f][j] # {}
                 PROVE  j <= ordinal'[f]
      OBVIOUS
    <3>1. j <= ordinal[f] /\ j \in Nat
      BY <1>2, ConstantsOk DEF IInv, NothingUnadmitted, Ordinals
    <3> QED BY <3>1, <1>3, <2>2
  <2> QED BY <2>3, <2>4, <2>5 DEF NothingUnadmitted
<1>9. SentOnce'
  <2> SUFFICES ASSUME NEW f \in Effects, Idempotency[f] = "NONE"
               PROVE  /\ \A j \in Ordinals : "NO_EFFECT_CONFIRMED" \notin results'[f][j]
                      /\ \A p \in passes' : p.effect = f => p.saw # "NO_EFFECT_CONFIRMED"
                      /\ ordinal'[f] <= 1
                      /\ \A x \in calls' : x.decision.effect = f /\ x.phase = "admitted" =>
                           times'[f] = 0 /\ \A q \in wire' : q[1] # f
                      /\ \A q \in wire' : q[1] = f => times'[f] = 0
    BY DEF SentOnce
  <2>1. /\ \A j \in Ordinals : "NO_EFFECT_CONFIRMED" \notin results[f][j]
        /\ \A p \in passes : p.effect = f => p.saw # "NO_EFFECT_CONFIRMED"
        /\ ordinal[f] <= 1
        /\ \A x \in calls : x.decision.effect = f /\ x.phase = "admitted" =>
             times[f] = 0 /\ \A q \in wire : q[1] # f
        /\ \A q \in wire : q[1] = f => times[f] = 0
    BY DEF IInv, SentOnce
  <2>2. CASE f # e
    BY <2>1, <2>2, <1>2, <1>3, <1>4
  <2>3. CASE f = e
    <3>1. ordinal[e] = 0
      <4>1. ordinal[e] \in 0 .. MaxOrdinal
        BY <1>1 DEF IInv, TypeOK
      <4>2. ASSUME ordinal[e] > 0 PROVE "NO_EFFECT_CONFIRMED" \in results[e][ordinal[e]]
        BY <4>2, <2>3, <1>2 DEF NextOrdinalAllowed
      <4> QED BY <4>1, <4>2, <2>1, <2>3, ConstantsOk DEF Ordinals
    <3>2. times[e] = 0
      <4>1. times[e] \in Nat
        BY <1>1 DEF IInv, TypeOK
      <4>2. times[e] > 0 => ordinal[e] > 0
        BY <1>1 DEF IInv, NothingUnadmitted
      <4> QED BY <3>1, <4>1, <4>2
    <3>3. \A q \in wire : q[1] # e
      <4> SUFFICES ASSUME NEW q \in wire, q[1] = e PROVE FALSE
        OBVIOUS
      <4>1. q[2] \in Ordinals
        BY DEF IInv, TypeOK, Request
      <4>2. q[2] <= ordinal[e]
        BY DEF IInv, NothingUnadmitted
      <4> QED BY <3>1, <4>1, <4>2, ConstantsOk DEF Ordinals
    <3> QED BY <2>1, <2>3, <3>1, <3>2, <3>3, <1>2, <1>3
  <2> QED BY <2>2, <2>3
<1> QED BY <1>2, <1>5, <1>6, <1>7, <1>8, <1>9 DEF IInv, AttemptsAreThere,
     CommittedIsTrue, AtMostOneEffect

LEMMA InvSend ==
  ASSUME IInv, TypeOK', NEW c \in calls, Send(c)
  PROVE  IInv'
<1> DEFINE e == c.decision.effect
           q == <<e, c.ord>>
           new == [c EXCEPT !.phase = "sent"]
<1>1. /\ wire' = wire \union {q}
      /\ calls' = (calls \ {c}) \union {new}
      /\ c.phase = "admitted"
      /\ UNCHANGED <<ordinal, results, attempts, passes, times, met>>
  BY DEF Send, Become, storeVars
<1>2. /\ new.decision = c.decision /\ new.phase = "sent" /\ new.ord = c.ord
      /\ e \in Effects /\ q[1] = e /\ q[2] = c.ord
  BY CallFields DEF IInv, Call
<1> HIDE DEF new, q
<1>3. OneCallPerDomain'
  BY <1>1, <1>2 DEF IInv, OneCallPerDomain
<1>4. MemoryIsAdmitted'
  BY <1>1, <1>2 DEF IInv, MemoryIsAdmitted
<1>5. MemoryIsTrue'
  BY <1>1, <1>2 DEF IInv, MemoryIsTrue
<1>6. NothingUnadmitted'
  BY <1>1, <1>2 DEF IInv, NothingUnadmitted, MemoryIsAdmitted
<1>7. SentOnce'
  <2> SUFFICES ASSUME NEW f \in Effects, Idempotency[f] = "NONE"
               PROVE  /\ \A x \in calls' : x.decision.effect = f /\ x.phase = "admitted" =>
                           times'[f] = 0 /\ \A r \in wire' : r[1] # f
                      /\ \A r \in wire' : r[1] = f => times'[f] = 0
    BY <1>1 DEF IInv, SentOnce
  <2>1. ASSUME NEW x \in calls', x.decision.effect = f, x.phase = "admitted"
        PROVE  times'[f] = 0 /\ \A r \in wire' : r[1] # f
    <3>1. x \in calls /\ x # c
      BY <1>1, <1>2, <2>1
    <3>2. f # e
      BY <2>1, <3>1 DEF IInv, OneCallPerDomain
    <3> QED BY <1>1, <1>2, <2>1, <3>1, <3>2 DEF IInv, SentOnce
  <2>2. ASSUME NEW r \in wire', r[1] = f PROVE times'[f] = 0
    BY <1>1, <1>2, <2>2 DEF IInv, SentOnce
  <2> QED BY <2>1, <2>2
<1> QED BY <1>1, <1>3, <1>4, <1>5, <1>6, <1>7 DEF IInv, AttemptsAreThere,
     CommittedIsTrue, AtMostOneEffect

(* An outcome row whose result is true of the target leaves the invariant,  *)
(* whoever writes it, as far as the rows are concerned.                     *)
LEMMA RowsOutcome ==
  ASSUME IInv, NEW e \in Effects, NEW k \in Ordinals, NEW res \in Result, NEW receipt,
         WriteOutcome(e, k, res, receipt),
         k <= ordinal[e],
         res = "COMMITTED" => There(e),
         res = "NO_EFFECT_CONFIRMED" => Idempotency[e] # "NONE",
         UNCHANGED <<ordinal, times, met, wire>>
  PROVE  /\ NothingUnadmitted'
         /\ CommittedIsTrue'
         /\ AtMostOneEffect'
         /\ \A f \in Effects : Idempotency[f] = "NONE" =>
              \A j \in Ordinals : "NO_EFFECT_CONFIRMED" \notin results'[f][j]
<1>1. \A f \in Effects, j \in Ordinals :
        results'[f][j] = IF f = e /\ j = k THEN results[f][j] \union {res} ELSE results[f][j]
  BY DEF WriteOutcome, IInv, TypeOK
<1>2. NothingUnadmitted'
  BY <1>1 DEF IInv, NothingUnadmitted
<1>3. CommittedIsTrue'
  <2> SUFFICES ASSUME NEW f \in Effects, NEW j \in Ordinals, "COMMITTED" \in results'[f][j]
               PROVE  There(f)
    BY DEF CommittedIsTrue, There
  <2>1. "COMMITTED" \in results[f][j] => There(f)
    BY DEF IInv, CommittedIsTrue, There
  <2> QED BY <1>1, <2>1
<1>4. AtMostOneEffect'
  BY DEF IInv, AtMostOneEffect
<1>5. \A f \in Effects : Idempotency[f] = "NONE" =>
        \A j \in Ordinals : "NO_EFFECT_CONFIRMED" \notin results'[f][j]
  <2> SUFFICES ASSUME NEW f \in Effects, Idempotency[f] = "NONE", NEW j \in Ordinals
               PROVE  "NO_EFFECT_CONFIRMED" \notin results'[f][j]
    OBVIOUS
  <2>1. "NO_EFFECT_CONFIRMED" \notin results[f][j]
    BY DEF IInv, SentOnce
  <2> QED BY <1>1, <2>1
<1> QED BY <1>2, <1>3, <1>4, <1>5

LEMMA InvOutcome ==
  ASSUME IInv, TypeOK', NEW c \in calls, NEW res \in Result, NEW receipt,
         WriteOutcome(c.decision.effect, c.ord, res, receipt), Return(c),
         c.phase # "reading",
         res = "COMMITTED" => c.phase = "accepted",
         res = "NO_EFFECT_CONFIRMED" => Idempotency[c.decision.effect] # "NONE",
         UNCHANGED <<ordinal, attempts, passes, wire, times, met>>
  PROVE  IInv'
<1>1. calls' \subseteq calls
  BY DEF Return
<1>2. /\ c.decision.effect \in Effects /\ c.ord \in Ordinals
      /\ c.ord <= ordinal[c.decision.effect]
      /\ res = "COMMITTED" => There(c.decision.effect)
  BY CallFields DEF IInv, MemoryIsAdmitted, MemoryIsTrue, There
<1>3. /\ NothingUnadmitted' /\ CommittedIsTrue' /\ AtMostOneEffect'
      /\ \A f \in Effects : Idempotency[f] = "NONE" =>
           \A j \in Ordinals : "NO_EFFECT_CONFIRMED" \notin results'[f][j]
  BY <1>2, RowsOutcome
<1>4. OneCallPerDomain'
  BY <1>1 DEF IInv, OneCallPerDomain
<1>5. MemoryIsAdmitted' /\ MemoryIsTrue'
  BY <1>1 DEF IInv, MemoryIsAdmitted, MemoryIsTrue
<1>6. SentOnce'
  BY <1>1, <1>3 DEF IInv, SentOnce
<1>7. AttemptsAreThere'
  BY DEF IInv, AttemptsAreThere
<1> QED BY <1>3, <1>4, <1>5, <1>6, <1>7 DEF IInv

LEMMA InvCall ==
  ASSUME IInv, TypeOK', NEW c \in calls, CallStep(c)
  PROVE  IInv'
<1>1. CASE Refuse(c)
  BY <1>1, InvFewerCalls DEF Refuse, Return, targetVars
<1>2. CASE Admit(c)
  BY <1>2, InvAdmit
<1>3. CASE Send(c)
  BY <1>3, InvSend
<1>4. CASE GiveUp(c)
  BY <1>4, InvOutcome DEF GiveUp, targetVars, Result
<1>5. CASE ObserveAccepted(c)
  <2>1. CASE c.phase = "accepted"
    BY <1>5, <2>1, InvOutcome DEF ObserveAccepted, targetVars, Result
  <2>2. CASE c.phase # "accepted"
    BY <1>5, <2>2, InvOutcome DEF ObserveAccepted, targetVars, Result
  <2> QED BY <2>1, <2>2
<1>6. CASE ObserveRejected(c)
  <2>1. c.decision.effect \in Effects
    BY CallFields DEF IInv
  <2>2. RejectionResult(c.decision.effect) \in Result
    BY DEF RejectionResult, Result
  <2>3. RejectionResult(c.decision.effect) = "NO_EFFECT_CONFIRMED" =>
          Idempotency[c.decision.effect] # "NONE"
    BY <2>1, AdaptersOk DEF RejectionResult
  <2>4. RejectionResult(c.decision.effect) # "COMMITTED"
    BY DEF RejectionResult
  <2> QED BY <1>6, <2>2, <2>3, <2>4, InvOutcome DEF ObserveRejected, targetVars
<1> QED BY <1>1, <1>2, <1>3, <1>4, <1>5, <1>6 DEF CallStep

(* An answer changes the phase of the call that waits for it, if any.       *)
LEMMA AnswerCalls ==
  ASSUME IInv, NEW q \in wire, NEW answer, Answer(q, answer)
  PROVE  /\ OneCallPerDomain'
         /\ \A x \in calls' : \E c \in calls :
              /\ x.decision = c.decision /\ x.ord = c.ord
              /\ x = c \/ (c.phase = "sent" /\ x.phase = answer /\ c.decision.effect = q[1])
<1> DEFINE answered(c) == [c EXCEPT !.phase = answer]
<1>1. \A x \in calls' :
        \/ x \in calls /\ x \notin Waiting(q)
        \/ \E c \in Waiting(q) : x = answered(c)
  BY DEF Answer
<1>2. \A c \in calls : answered(c).decision = c.decision /\ answered(c).ord = c.ord
                       /\ answered(c).phase = answer
  BY CallFields DEF IInv, Call
<1>3. \A c \in Waiting(q) : c \in calls /\ c.phase = "sent" /\ c.decision.effect = q[1]
  BY DEF Waiting
<1> HIDE DEF answered
<1>4. OneCallPerDomain'
  <2> SUFFICES ASSUME NEW x \in calls', NEW y \in calls',
                      Domain[x.decision.effect] = Domain[y.decision.effect]
               PROVE  x = y
    BY DEF OneCallPerDomain
  <2>1. \A c, d \in calls : Domain[c.decision.effect] = Domain[d.decision.effect] => c = d
    BY DEF IInv, OneCallPerDomain
  <2> QED BY <1>1, <1>2, <1>3, <2>1
<1> QED BY <1>1, <1>2, <1>3, <1>4

LEMMA InvAnswer ==
  ASSUME IInv, TypeOK', NEW q \in wire,
         NEW answer \in {"accepted", "unbound", "rejected"}, Answer(q, answer),
         answer = "accepted" => times'[q[1]] > 0 \/ q[1] \in met,
         wire' = wire \ {q},
         \/ UNCHANGED times
         \/ times' = [times EXCEPT ![q[1]] = @ + 1] /\ times[q[1]] = 0,
         UNCHANGED <<ordinal, results, attempts, passes, met>>
  PROVE  IInv'
<1>1. /\ OneCallPerDomain'
      /\ \A x \in calls' : \E c \in calls :
           /\ x.decision = c.decision /\ x.ord = c.ord
           /\ x = c \/ (c.phase = "sent" /\ x.phase = answer /\ c.decision.effect = q[1])
  BY AnswerCalls
<1>2. q[1] \in Effects /\ q[2] \in Nat /\ q[2] \in Ordinals
  BY RequestFields DEF IInv
<1>3. \A f \in Effects : times[f] \in Nat /\ times'[f] \in Nat
  BY Counts, TypeOK' DEF IInv, TypeOK
<1>4. \A f \in Effects : /\ f # q[1] => times'[f] = times[f]
                         /\ times'[f] = times[f] \/ (times[f] = 0 /\ times'[f] = 1)
  BY <1>2, <1>3 DEF IInv, TypeOK
<1>5. \A f \in Effects : times[f] > 0 => times'[f] > 0
  BY <1>3, <1>4
<1>6. MemoryIsAdmitted'
  BY <1>1 DEF IInv, MemoryIsAdmitted
<1>7. MemoryIsTrue'
  <2>1. \A x \in calls' : x.phase = "accepted" =>
          times'[x.decision.effect] > 0 \/ x.decision.effect \in met
    <3> SUFFICES ASSUME NEW x \in calls', x.phase = "accepted"
                 PROVE  times'[x.decision.effect] > 0 \/ x.decision.effect \in met
      OBVIOUS
    <3>1. PICK c \in calls :
            /\ x.decision = c.decision
            /\ x = c \/ (x.phase = answer /\ c.decision.effect = q[1])
      BY <1>1
    <3>2. c.decision.effect \in Effects
      BY CallFields DEF IInv
    <3>3. CASE x = c
      BY <1>5, <3>2, <3>3 DEF IInv, MemoryIsTrue
    <3>4. CASE x # c
      BY <3>1, <3>4
    <3> QED BY <3>3, <3>4
  <2>2. \A p \in passes' : p.saw = "COMMITTED" => times'[p.effect] > 0 \/ p.effect \in met
    <3> SUFFICES ASSUME NEW p \in passes, p.saw = "COMMITTED"
                 PROVE  times'[p.effect] > 0 \/ p.effect \in met
      OBVIOUS
    <3>1. p.effect \in Effects /\ (times[p.effect] > 0 \/ p.effect \in met)
      BY PassFields DEF IInv, MemoryIsTrue
    <3> QED BY <1>5, <3>1
  <2> QED BY <2>1, <2>2 DEF MemoryIsTrue
<1>8. NothingUnadmitted'
  <2>1. ordinal[q[1]] > 0
    <3>1. q[2] <= ordinal[q[1]] /\ ordinal[q[1]] \in Nat
      BY <1>2, Counts DEF IInv, NothingUnadmitted
    <3>2. q[2] > 0
      BY <1>2, OrdinalsAreNat
    <3> QED BY <1>2, <3>1, <3>2
  <2>2. \A f \in Effects : times'[f] > 0 => ordinal[f] > 0
    BY <2>1, <1>4 DEF IInv, NothingUnadmitted
  <2> QED BY <2>2 DEF IInv, NothingUnadmitted
<1>9. CommittedIsTrue'
  BY <1>5 DEF IInv, CommittedIsTrue
<1>10. AtMostOneEffect'
  BY <1>3, <1>4 DEF IInv, AtMostOneEffect
<1>11. SentOnce'
  <2> SUFFICES ASSUME NEW f \in Effects, Idempotency[f] = "NONE"
               PROVE  /\ \A x \in calls' : x.decision.effect = f /\ x.phase = "admitted" =>
                           times'[f] = 0 /\ \A r \in wire' : r[1] # f
                      /\ \A r \in wire' : r[1] = f => times'[f] = 0
    BY DEF IInv, SentOnce
  <2>1. ASSUME NEW x \in calls', x.decision.effect = f, x.phase = "admitted"
        PROVE  times'[f] = 0 /\ \A r \in wire' : r[1] # f
    <3>1. x \in calls
      BY <1>1, <2>1
    <3>2. times[f] = 0 /\ \A r \in wire : r[1] # f
      BY <2>1, <3>1 DEF IInv, SentOnce
    <3> QED BY <1>4, <3>2
  <2>2. ASSUME NEW r \in wire', r[1] = f PROVE times'[f] = 0
    <3>1. r \in wire /\ r # q /\ times[f] = 0
      BY <2>2 DEF IInv, SentOnce
    <3>2. CASE f # q[1]
      BY <1>4, <3>1, <3>2
    <3>3. CASE f = q[1]
      <4>1. /\ r[1] = q[1] /\ r \in Effects \X Ordinals /\ q \in Effects \X Ordinals
            /\ ordinal[f] <= 1
            /\ r[2] <= ordinal[f] /\ q[2] <= ordinal[f]
        BY <2>2, <3>1, <3>3 DEF IInv, TypeOK, Request, SentOnce, NothingUnadmitted
      <4>2. r[2] \in Nat \ {0} /\ q[2] \in Nat \ {0} /\ ordinal[f] \in Nat
        BY <4>1, OrdinalsAreNat, Counts DEF IInv
      <4>3. r[2] = q[2]
        BY <4>1, <4>2
      <4>4. r = q
        BY <4>1, <4>3
      <4> QED BY <3>1, <4>4
    <3> QED BY <3>2, <3>3
  <2> QED BY <2>1, <2>2
<1> QED BY <1>1, <1>6, <1>7, <1>8, <1>9, <1>10, <1>11 DEF IInv, AttemptsAreThere

LEMMA InvTarget ==
  ASSUME IInv, TypeOK', NEW q \in wire, Land(q) \/ FindTaken(q) \/ Reject(q) \/ Drop(q)
  PROVE  IInv'
<1>1. q[1] \in Effects /\ times[q[1]] \in Nat
  BY RequestFields, Counts DEF IInv
<1>2. CASE Land(q)
  <2>1. times[q[1]] = 0
    BY <1>1, <1>2, ConstantsOk DEF Land, MayTakePlace, IInv, SentOnce
  <2>2. times'[q[1]] > 0
    BY <1>1, <1>2, <2>1 DEF Land, IInv, TypeOK
  <2> QED BY <1>2, <2>1, <2>2, InvAnswer DEF Land, storeVars
<1>3. CASE FindTaken(q)
  <2>1. /\ wire' = wire \ {q}
        /\ UNCHANGED <<ordinal, results, attempts, passes, times, met>>
    BY <1>3 DEF FindTaken, storeVars
  <2>2. CASE There(q[1]) /\ Answer(q, "accepted")
    BY <2>1, <2>2, InvAnswer DEF There
  <2>3. CASE Answer(q, "unbound")
    BY <2>1, <2>3, InvAnswer
  <2> QED BY <1>3, <2>2, <2>3 DEF FindTaken
<1>4. CASE Reject(q)
  BY <1>4, InvAnswer DEF Reject, storeVars
<1>5. CASE Drop(q)
  <2>1. wire' \subseteq wire /\ UNCHANGED <<ordinal, results, attempts, calls, passes, times, met>>
    BY <1>5 DEF Drop, storeVars, memoryVars
  <2>2. SentOnce'
    BY <2>1 DEF IInv, SentOnce
  <2>3. NothingUnadmitted'
    BY <2>1 DEF IInv, NothingUnadmitted
  <2> QED BY <2>1, <2>2, <2>3 DEF IInv, OneCallPerDomain, MemoryIsAdmitted, MemoryIsTrue,
       AttemptsAreThere, CommittedIsTrue, AtMostOneEffect
<1> QED BY <1>2, <1>3, <1>4, <1>5

(* A pass that begins, or goes on, has read nothing.                        *)
LEMMA InvPasses ==
  ASSUME IInv, TypeOK',
         \A p \in passes' :
           \/ p \in passes
           \/ /\ p.saw = "NOTHING"
              /\ \A k \in p.todo : k <= ordinal[p.effect],
         UNCHANGED <<ordinal, results, attempts, calls, wire, times, met>>
  PROVE  IInv'
<1>1. MemoryIsAdmitted'
  BY DEF IInv, MemoryIsAdmitted
<1>2. MemoryIsTrue'
  BY DEF IInv, MemoryIsTrue
<1>3. SentOnce'
  BY DEF IInv, SentOnce
<1>4. AttemptsAreThere'
  BY DEF IInv, AttemptsAreThere, Heads
<1> QED BY <1>1, <1>2, <1>3, <1>4 DEF IInv, OneCallPerDomain, NothingUnadmitted,
     CommittedIsTrue, AtMostOneEffect

LEMMA NewPassAdmitted ==
  ASSUME NEW r, NEW e
  PROVE  /\ NewPass(r, e).saw = "NOTHING"
         /\ \A k \in NewPass(r, e).todo : k <= ordinal[NewPass(r, e).effect]
BY DEF NewPass, OpenOrdinals

LEMMA AdvancePasses ==
  ASSUME IInv, NEW p \in passes, NEW k, Advance(p, k)
  PROVE  \A x \in passes' :
           \/ x \in passes
           \/ /\ x.saw = "NOTHING"
              /\ x.effect = p.effect
              /\ x.todo \subseteq p.todo
BY PassFields DEF IInv, Pass, Advance

LEMMA InvExhaust ==
  ASSUME IInv, TypeOK', NEW p \in passes, NEW k \in Heads(p), Exhaust(p, k)
  PROVE  IInv'
<1>1. \A x \in passes' :
        x \in passes \/ (x.saw = "NOTHING" /\ \A j \in x.todo : j <= ordinal[x.effect])
  BY AdvancePasses DEF Exhaust, IInv, MemoryIsAdmitted
<1> QED BY <1>1, InvPasses DEF Exhaust, targetVars

LEMMA InvRead ==
  ASSUME IInv, TypeOK', NEW p \in passes, NEW k \in Heads(p), Read(p, k)
  PROVE  IInv'
<1>1. PICK saw \in TargetReads(p.effect) :
        passes' = (passes \ {p}) \union
                  {[p EXCEPT !.prior = attempts[p.effect][k], !.saw = saw]}
  BY DEF Read
<1> DEFINE new == [p EXCEPT !.prior = attempts[p.effect][k], !.saw = saw]
<1>2. /\ new.effect = p.effect /\ new.todo = p.todo
      /\ new.prior = attempts[p.effect][k] /\ new.saw = saw
      /\ p.effect \in Effects /\ p.todo \subseteq Nat /\ p.todo \subseteq Ordinals
  BY PassFields DEF IInv, Pass
<1>3. UNCHANGED <<ordinal, results, attempts, calls, wire, times, met>>
  BY DEF Read, storeVars, targetVars
<1>4. /\ saw = "COMMITTED" => There(p.effect)
      /\ saw = "NO_EFFECT_CONFIRMED" => Idempotency[p.effect] # "NONE"
      /\ saw \notin {"NOTHING", "SPENT"}
  BY DEF TargetReads
<1>5. passes' = (passes \ {p}) \union {new}
  BY <1>1
<1> HIDE DEF new
<1>6. MemoryIsAdmitted'
  BY <1>2, <1>3, <1>5 DEF IInv, MemoryIsAdmitted
<1>7. MemoryIsTrue'
  BY <1>2, <1>3, <1>4, <1>5 DEF IInv, MemoryIsTrue, There
<1>8. SentOnce'
  BY <1>2, <1>3, <1>4, <1>5 DEF IInv, SentOnce
<1>9. AttemptsAreThere'
  <2> SUFFICES ASSUME NEW x \in passes', NEW j \in x.todo, \A i \in x.todo : j <= i
               PROVE  /\ x.saw # "NOTHING" => x.prior <= attempts[x.effect][j]
                      /\ x.saw = "SPENT" => attempts[x.effect][j] >= MaxAttempts
    BY <1>3 DEF AttemptsAreThere, Heads
  <2>1. CASE x \in passes
    BY <2>1 DEF IInv, AttemptsAreThere, Heads
  <2>2. CASE x = new
    <3>1. k \in p.todo /\ \A i \in p.todo : k <= i
      BY DEF Heads
    <3>2. j = k
      BY <1>2, <2>2, <3>1
    <3>3. attempts[p.effect][k] \in Nat
      BY <1>2, <3>1 DEF IInv, TypeOK
    <3> QED BY <1>2, <1>4, <2>2, <3>2, <3>3
  <2> QED BY <1>5, <2>1, <2>2
<1> QED BY <1>3, <1>6, <1>7, <1>8, <1>9 DEF IInv, OneCallPerDomain, NothingUnadmitted,
     CommittedIsTrue, AtMostOneEffect

LEMMA InvRecord ==
  ASSUME IInv, TypeOK', NEW p \in passes, NEW k \in Heads(p), Record(p, k)
  PROVE  IInv'
<1> DEFINE e == p.effect
           res == IF p.saw = "UNBOUND" THEN "UNKNOWN" ELSE p.saw
           receipt == IF p.saw = "UNBOUND" THEN Mismatch(e, FALSE) ELSE {}
           spent == [p EXCEPT !.saw = "SPENT"]
<1>1. /\ p \in Pass /\ e \in Effects /\ k \in p.todo /\ k \in Ordinals
      /\ p.todo \subseteq Nat /\ \A i \in p.todo : k <= i
  BY PassFields DEF IInv, Heads
<1>2. /\ WriteOutcome(e, k, res, receipt)
      /\ res \in Result
      /\ UNCHANGED <<ordinal, calls, wire, times, met>>
  BY DEF Record, Result, targetVars
<1>3. /\ k <= ordinal[e]
      /\ res = "COMMITTED" => There(e)
      /\ res = "NO_EFFECT_CONFIRMED" => Idempotency[e] # "NONE"
  BY <1>1 DEF IInv, MemoryIsAdmitted, MemoryIsTrue, SentOnce, There
<1>4. /\ NothingUnadmitted' /\ CommittedIsTrue' /\ AtMostOneEffect'
      /\ \A f \in Effects : Idempotency[f] = "NONE" =>
           \A j \in Ordinals : "NO_EFFECT_CONFIRMED" \notin results'[f][j]
  BY <1>1, <1>2, <1>3, RowsOutcome
<1>5. \A x \in passes' :
        \/ x \in passes
        \/ x.saw = "NOTHING" /\ x.effect = e /\ x.todo \subseteq p.todo
        \/ x = spent /\ p.saw = "UNKNOWN" /\ p.prior + 1 >= MaxAttempts
  BY AdvancePasses DEF Record
<1>6. /\ spent.saw = "SPENT" /\ spent.effect = e
      /\ spent.todo = p.todo /\ spent.prior = p.prior
  BY <1>1 DEF Pass
<1> HIDE DEF spent
<1>7. MemoryIsAdmitted'
  BY <1>2, <1>5, <1>6 DEF IInv, MemoryIsAdmitted
<1>8. MemoryIsTrue'
  BY <1>2, <1>5, <1>6 DEF IInv, MemoryIsTrue
<1>9. SentOnce'
  BY <1>2, <1>4, <1>5, <1>6 DEF IInv, SentOnce
<1>10. \A f \in Effects, j \in Ordinals :
         /\ attempts[f][j] \in Nat
         /\ attempts'[f][j] = IF res = "UNKNOWN" /\ f = e /\ j = k
                              THEN attempts[f][j] + 1 ELSE attempts[f][j]
  BY <1>1 DEF Record, IInv, TypeOK
<1>11. AttemptsAreThere'
  <2> SUFFICES ASSUME NEW x \in passes', NEW j \in x.todo, \A i \in x.todo : j <= i
               PROVE  /\ x.saw # "NOTHING" => x.prior <= attempts'[x.effect][j]
                      /\ x.saw = "SPENT" => attempts'[x.effect][j] >= MaxAttempts
    BY DEF AttemptsAreThere, Heads
  <2>1. CASE x \in passes
    <3>1. /\ x.saw # "NOTHING" => x.prior <= attempts[x.effect][j]
          /\ x.saw = "SPENT" => attempts[x.effect][j] >= MaxAttempts
      BY <2>1 DEF IInv, AttemptsAreThere, Heads
    <3>2. x.effect \in Effects /\ j \in Ordinals /\ x.prior \in Nat
      BY <2>1, PassFields DEF IInv, Pass
    <3>3. attempts[x.effect][j] \in Nat /\ attempts'[x.effect][j] \in Nat
          /\ attempts[x.effect][j] <= attempts'[x.effect][j]
      BY <1>10, <3>2
    <3> QED BY <3>1, <3>2, <3>3, ConstantsOk
  <2>2. CASE x.saw = "NOTHING"
    BY <2>2
  <2>3. CASE x = spent /\ p.saw = "UNKNOWN" /\ p.prior + 1 >= MaxAttempts
    <3>1. j = k
      BY <1>1, <1>6, <2>3
    <3>2. p.prior <= attempts[e][k] /\ p.prior \in Nat
      BY <1>1, <2>3 DEF IInv, AttemptsAreThere, Heads, Pass
    <3>3. attempts[e][k] \in Nat /\ attempts'[e][k] = attempts[e][k] + 1
      BY <1>1, <1>10, <2>3
    <3>4. p.prior <= attempts'[e][k] /\ attempts'[e][k] >= MaxAttempts
      BY <2>3, <3>2, <3>3, ConstantsOk
    <3> QED BY <1>6, <2>3, <3>1, <3>4
  <2> QED BY <1>5, <2>1, <2>2, <2>3
<1>12. OneCallPerDomain'
  BY <1>2 DEF IInv, OneCallPerDomain
<1> QED BY <1>4, <1>7, <1>8, <1>9, <1>11, <1>12 DEF IInv

LEMMA InvCrash ==
  ASSUME IInv, TypeOK', Crash
  PROVE  IInv'
<1>1. calls' = {} /\ passes' = {} /\ UNCHANGED <<ordinal, results, attempts, wire, times, met>>
  BY DEF Crash, targetVars
<1>2. SentOnce'
  BY <1>1 DEF IInv, SentOnce
<1> QED BY <1>1, <1>2 DEF IInv, OneCallPerDomain, MemoryIsAdmitted, MemoryIsTrue,
     AttemptsAreThere, NothingUnadmitted, CommittedIsTrue, AtMostOneEffect

LEMMA InvNext == IInv /\ [Next]_vars => IInv'
<1> SUFFICES ASSUME IInv, [Next]_vars PROVE IInv'
  OBVIOUS
<1>0. TypeOK'
  BY TypeNext DEF IInv
<1>1. CASE Activate
  BY <1>0, <1>1, InvUnmoved DEF Activate, memoryVars, targetVars
<1>2. ASSUME NEW e \in Effects, NEW h \in Humans \union {NoHuman}, NEW policy \in 1 .. MaxPolicy,
             Evaluate(e, h, policy)
      PROVE  IInv'
  BY <1>0, <1>2, InvUnmoved DEF Evaluate, memoryVars, targetVars
<1>3. ASSUME NEW i \in open, Release(i) PROVE IInv'
  BY <1>0, <1>3, InvUnmoved DEF Release, memoryVars, targetVars
<1>4. ASSUME NEW d \in decisions, Acquire(d) PROVE IInv'
  BY <1>0, <1>4, InvAcquire
<1>5. ASSUME NEW c \in calls, CallStep(c) PROVE IInv'
  BY <1>0, <1>5, InvCall
<1>6. ASSUME NEW q \in wire, Land(q) \/ FindTaken(q) \/ Reject(q) \/ Drop(q)
      PROVE  IInv'
  BY <1>0, <1>6, InvTarget
<1>7. ASSUME NEW e \in Effects, LosePrecondition(e) \/ Match(e) \/ Occupy(e) PROVE IInv'
  BY <1>0, <1>7, InvUnmoved DEF LosePrecondition, Match, Occupy, storeVars, memoryVars
<1>8. ASSUME NEW r \in Passes, NEW e \in Effects, StartPass(r, e) PROVE IInv'
  BY <1>0, <1>8, InvPasses, NewPassAdmitted DEF StartPass, storeVars, targetVars
<1>9. ASSUME NEW p \in passes, PassStep(p) PROVE IInv'
  BY <1>0, <1>9, InvExhaust, InvRead, InvRecord DEF PassStep
<1>10. CASE Crash
  BY <1>0, <1>10, InvCrash
<1>11. CASE ScanStep
  <2>1. ASSUME NEW q \in scan, ScanNext(q) PROVE IInv'
    <3>1. \A p \in passes' : p = NewPass(Boot, q[1])
      BY <2>1 DEF ScanNext
    <3> QED BY <1>0, <2>1, <3>1, InvPasses, NewPassAdmitted DEF ScanNext, storeVars, targetVars
  <2>2. CASE ScanDone
    BY <1>0, <2>2, InvUnmoved DEF ScanDone, storeVars, targetVars
  <2> QED BY <1>11, <2>1, <2>2 DEF ScanStep
<1>12. CASE UNCHANGED vars
  BY <1>0, <1>12, InvUnmoved DEF vars, storeVars, memoryVars, targetVars
<1> QED BY <1>1, <1>2, <1>3, <1>4, <1>5, <1>6, <1>7, <1>8, <1>9, <1>10, <1>11, <1>12 DEF Next

(* IInv holds throughout.                                                   *)
THEOREM Invariance == Spec => []IInv
<1> QED BY InvInit, InvNext, PTL DEF Spec

-----------------------------------------------------------------------------
(* What follows from it.                                                    *)

(* However calls, passes, crashes and delayed requests interleave, for any  *)
(* number of effects, domains and passes, no effect takes place twice.      *)
THEOREM EffectsAreSingle == Spec => []AtMostOneEffect
<1>1. IInv => AtMostOneEffect
  BY DEF IInv
<1> QED BY <1>1, Invariance, PTL

(* What a COMMITTED row tells of is or was at the target, by this effect's  *)
(* doing or, of an anonymous effect, by somebody else's.                    *)
THEOREM CommitsAreTrue == Spec => []CommittedIsTrue
<1>1. IInv => CommittedIsTrue
  BY DEF IInv
<1> QED BY <1>1, Invariance, PTL

(* Nothing reaches a target, or the ledger, that has no admission row.      *)
THEOREM NothingIsUnadmitted == Spec => []NothingUnadmitted
<1>1. IInv => NothingUnadmitted
  BY DEF IInv
<1> QED BY <1>1, Invariance, PTL

-----------------------------------------------------------------------------
(* EffectKernel implements OneEffect.                                       *)

LEMMA PromiseInit == Init => Promise!Init
BY ConstantsOk DEF Init, Promise!Init

LEMMA PromiseStutter ==
  ASSUME UNCHANGED <<ordinal, results, times, met>>
  PROVE  UNCHANGED Promise!vars
BY DEF Promise!vars

(* A row that is not COMMITTED is a stutter, one that is tells the effect.  *)
LEMMA PromiseOutcome ==
  ASSUME IInv, NEW e \in Effects, NEW k \in Ordinals, NEW res \in Result, NEW receipt,
         WriteOutcome(e, k, res, receipt),
         res = "COMMITTED" => There(e),
         UNCHANGED <<ordinal, times, met>>
  PROVE  Promise!Tell(e) \/ UNCHANGED Promise!vars
<1> DEFINE told == {f \in Effects : \E j \in Ordinals : "COMMITTED" \in results[f][j]}
<1>1. \A f \in Effects, j \in Ordinals :
        results'[f][j] = IF f = e /\ j = k THEN results[f][j] \union {res} ELSE results[f][j]
  BY DEF WriteOutcome, IInv, TypeOK
<1>2. CASE res = "COMMITTED"
  <2>1. times[e] = 1 \/ e \in met
    BY <1>2, Counts DEF IInv, AtMostOneEffect, There
  <2>2. told' = told \union {e}
    BY <1>1, <1>2
  <2> QED BY <2>1, <2>2 DEF Promise!Tell
<1>3. CASE res # "COMMITTED"
  <2>1. told' = told
    BY <1>1, <1>3
  <2> QED BY <2>1 DEF Promise!vars
<1> QED BY <1>2, <1>3

LEMMA PromiseAdmit ==
  ASSUME IInv, NEW c \in calls, Admit(c)
  PROVE  Promise!Ask(c.decision.effect)
<1> DEFINE e == c.decision.effect
           asked == {f \in Effects : ordinal[f] > 0}
<1>1. e \in Effects /\ ordinal[e] \in Nat
  BY CallFields, Counts DEF IInv
<1>2. ordinal' = [ordinal EXCEPT ![e] = ordinal[e] + 1] /\ UNCHANGED <<results, times, met>>
  BY DEF Admit, targetVars
<1>3. /\ ordinal'[e] = ordinal[e] + 1
      /\ \A f \in Effects : f # e => ordinal'[f] = ordinal[f]
  BY <1>1, <1>2 DEF IInv, TypeOK
<1>4. asked' = asked \union {e}
  BY <1>1, <1>3
<1> QED BY <1>2, <1>4 DEF Promise!Ask

LEMMA PromiseLand ==
  ASSUME IInv, NEW q \in wire, Land(q)
  PROVE  Promise!Take(q[1])
<1>1. q[1] \in Effects /\ q[2] \in Nat \ {0}
  BY RequestFields, OrdinalsAreNat DEF IInv
<1>2. ordinal[q[1]] > 0
  <2>1. q[2] <= ordinal[q[1]] /\ ordinal[q[1]] \in Nat
    BY <1>1, Counts DEF IInv, NothingUnadmitted
  <2> QED BY <1>1, <2>1
<1>3. times[q[1]] = 0
  BY <1>1, ConstantsOk DEF Land, MayTakePlace, IInv, SentOnce
<1>4. times' = [times EXCEPT ![q[1]] = 1]
  BY <1>3 DEF Land
<1> QED BY <1>1, <1>2, <1>3, <1>4 DEF Land, storeVars, Promise!Take

LEMMA PromiseCall ==
  ASSUME IInv, NEW c \in calls, CallStep(c)
  PROVE  [Promise!Next]_(Promise!vars)
<1> DEFINE e == c.decision.effect
<1>1. e \in Effects /\ c.ord \in Ordinals
  BY CallFields DEF IInv
<1>2. CASE Refuse(c) \/ Send(c)
  <2>1. UNCHANGED <<ordinal, results, times, met>>
    BY <1>2 DEF Refuse, Send, storeVars, targetVars
  <2> QED BY <2>1, PromiseStutter
<1>3. CASE Admit(c)
  BY <1>1, <1>3, PromiseAdmit DEF Promise!Next
<1>4. CASE GiveUp(c) \/ ObserveAccepted(c) \/ ObserveRejected(c)
  <2>1. PICK res \in Result, receipt \in {{}, Mismatch(e, TRUE)} :
          /\ WriteOutcome(e, c.ord, res, receipt)
          /\ res = "COMMITTED" => c.phase = "accepted"
    BY <1>4 DEF GiveUp, ObserveAccepted, ObserveRejected, RejectionResult, Result
  <2>2. res = "COMMITTED" => There(e)
    BY <2>1 DEF IInv, MemoryIsTrue, There
  <2>3. UNCHANGED <<ordinal, times, met>>
    BY <1>4 DEF GiveUp, ObserveAccepted, ObserveRejected, targetVars
  <2> QED BY <1>1, <2>1, <2>2, <2>3, PromiseOutcome DEF Promise!Next
<1> QED BY <1>2, <1>3, <1>4 DEF CallStep

LEMMA PromisePass ==
  ASSUME IInv, NEW p \in passes, PassStep(p)
  PROVE  [Promise!Next]_(Promise!vars)
<1>1. PICK k \in Heads(p) : Exhaust(p, k) \/ Read(p, k) \/ Record(p, k)
  BY DEF PassStep
<1>2. CASE Exhaust(p, k) \/ Read(p, k)
  <2>1. UNCHANGED <<ordinal, results, times, met>>
    BY <1>2 DEF Exhaust, Read, storeVars, targetVars
  <2> QED BY <2>1, PromiseStutter
<1>3. CASE Record(p, k)
  <2> DEFINE res == IF p.saw = "UNBOUND" THEN "UNKNOWN" ELSE p.saw
             receipt == IF p.saw = "UNBOUND" THEN Mismatch(p.effect, FALSE) ELSE {}
  <2>1. p.effect \in Effects /\ k \in Ordinals
    BY PassFields DEF IInv, Heads
  <2>2. /\ WriteOutcome(p.effect, k, res, receipt) /\ res \in Result
        /\ UNCHANGED <<ordinal, times, met>>
    BY <1>3 DEF Record, Result, targetVars
  <2>3. res = "COMMITTED" => There(p.effect)
    BY DEF IInv, MemoryIsTrue, There
  <2> HIDE DEF res, receipt
  <2> QED BY <2>1, <2>2, <2>3, PromiseOutcome DEF Promise!Next
<1> QED BY <1>1, <1>2, <1>3

LEMMA PromiseNext == IInv /\ [Next]_vars => [Promise!Next]_(Promise!vars)
<1> SUFFICES ASSUME IInv, [Next]_vars PROVE [Promise!Next]_(Promise!vars)
  OBVIOUS
<1>1. CASE \/ Activate \/ Crash \/ ScanStep \/ UNCHANGED vars
           \/ \E e \in Effects, h \in Humans \union {NoHuman}, policy \in 1 .. MaxPolicy :
                Evaluate(e, h, policy)
           \/ \E i \in open : Release(i)
           \/ \E d \in decisions : Acquire(d)
           \/ \E q \in wire : FindTaken(q) \/ Reject(q) \/ Drop(q)
           \/ \E e \in Effects : LosePrecondition(e) \/ Occupy(e)
           \/ \E r \in Passes, e \in Effects : StartPass(r, e)
  <2>1. UNCHANGED <<ordinal, results, times, met>>
    BY <1>1 DEF Activate, Crash, ScanStep, ScanNext, ScanDone, Evaluate, Release, Acquire,
       FindTaken, Reject, Drop, LosePrecondition, Occupy, StartPass,
       vars, storeVars, memoryVars, targetVars
  <2> QED BY <2>1, PromiseStutter
<1>2. CASE \E c \in calls : CallStep(c)
  BY <1>2, PromiseCall
<1>3. CASE \E q \in wire : Land(q)
  <2>1. PICK q \in wire : Land(q)
    BY <1>3
  <2>2. q[1] \in Effects
    BY RequestFields DEF IInv
  <2> QED BY <2>1, <2>2, PromiseLand DEF Promise!Next
<1>4. CASE \E p \in passes : PassStep(p)
  BY <1>4, PromisePass
<1>5. ASSUME NEW e \in Effects, Match(e) PROVE Promise!Meet(e)
  BY <1>5 DEF Match, storeVars, Promise!Meet
<1> QED BY <1>1, <1>2, <1>3, <1>4, <1>5 DEF Next, Promise!Next

(* The governed-effect path keeps the promise of OneEffect: every step of a *)
(* call, a pass, a target or a crash is an Ask, a Take, a Tell or nothing;  *)
(* a step of somebody else at a target is a Meet or nothing.                *)
THEOREM Refinement == Spec => PromiseKept
<1> QED BY PromiseInit, PromiseNext, Invariance, PTL DEF Spec, PromiseKept, Promise!Spec

-----------------------------------------------------------------------------
(* The ledger only grows, and by which steps.                               *)

LEMMA OutcomeGrows ==
  ASSUME TypeOK, NEW e \in Effects, NEW k \in Ordinals, NEW res \in Result, NEW receipt,
         WriteOutcome(e, k, res, receipt)
  PROVE  /\ \A f \in Effects, j \in Ordinals : results[f][j] \subseteq results'[f][j]
         /\ incidents \subseteq incidents'
         /\ ContradictionIsReported => ContradictionIsReported'
<1>1. \A f \in Effects, j \in Ordinals :
        results'[f][j] = IF f = e /\ j = k THEN results[f][j] \union {res} ELSE results[f][j]
  BY DEF WriteOutcome, TypeOK
<1>2. incidents' = incidents \union receipt \union Contradiction(e, k, res)
  BY DEF WriteOutcome, Seal
<1>3. ASSUME ContradictionIsReported PROVE ContradictionIsReported'
  <2> SUFFICES ASSUME NEW f \in Effects, NEW j \in Ordinals,
                      {"COMMITTED", "NO_EFFECT_CONFIRMED"} \subseteq results'[f][j]
               PROVE  \E i \in incidents' : i.effect = f /\ i.kind = "OUTCOME_CONTRADICTION"
    BY DEF ContradictionIsReported, Contradictory
  <2>1. CASE {"COMMITTED", "NO_EFFECT_CONFIRMED"} \subseteq results[f][j]
    BY <1>2, <1>3, <2>1 DEF ContradictionIsReported, Contradictory
  <2>2. CASE ~({"COMMITTED", "NO_EFFECT_CONFIRMED"} \subseteq results[f][j])
    <3> DEFINE incident == [kind |-> "OUTCOME_CONTRADICTION", effect |-> e, wide |-> FALSE]
    <3>1. f = e /\ j = k
      BY <1>1, <2>2
    <3>2. \/ res = "COMMITTED" /\ "NO_EFFECT_CONFIRMED" \in results[e][k]
          \/ res = "NO_EFFECT_CONFIRMED" /\ "COMMITTED" \in results[e][k]
      <4>1. /\ "COMMITTED" \in results[e][k] \/ res = "COMMITTED"
            /\ "NO_EFFECT_CONFIRMED" \in results[e][k] \/ res = "NO_EFFECT_CONFIRMED"
        BY <1>1, <3>1
      <4> QED BY <2>2, <3>1, <4>1
    <3>3. Contradiction(e, k, res) = {incident}
      BY <3>2 DEF Contradiction, Opposite
    <3>4. incident.effect = f /\ incident.kind = "OUTCOME_CONTRADICTION"
      BY <3>1
    <3>5. incident \in incidents'
      BY <1>2, <3>3
    <3> QED BY <3>4, <3>5
  <2> QED BY <2>1, <2>2
<1> QED BY <1>1, <1>2, <1>3

LEMMA LedgerCall ==
  ASSUME TypeOK, NEW c \in calls, CallStep(c)
  PROVE  /\ \A f \in Effects, j \in Ordinals : results[f][j] \subseteq results'[f][j]
         /\ \A f \in Effects, j \in Ordinals : attempts[f][j] <= attempts'[f][j]
         /\ incidents \subseteq incidents'
         /\ ContradictionIsReported => ContradictionIsReported'
         /\ UNCHANGED exhausted
<1> DEFINE e == c.decision.effect
<1>1. e \in Effects /\ c.ord \in Ordinals
  BY CallFields
<1>2. \A f \in Effects, j \in Ordinals : attempts[f][j] \in Nat
  BY DEF TypeOK
<1>3. CASE Refuse(c)
  <2>1. UNCHANGED <<results, attempts, exhausted>> /\ incidents \subseteq incidents'
    BY <1>3 DEF Refuse, Seal, targetVars
  <2> QED BY <1>2, <2>1 DEF ContradictionIsReported, Contradictory
<1>4. CASE Admit(c) \/ Send(c)
  <2>1. UNCHANGED <<results, attempts, exhausted, incidents>>
    BY <1>4 DEF Admit, Send, storeVars, targetVars
  <2> QED BY <1>2, <2>1 DEF ContradictionIsReported, Contradictory
<1>5. CASE GiveUp(c) \/ ObserveAccepted(c) \/ ObserveRejected(c)
  <2>1. PICK res \in Result, receipt \in {{}, Mismatch(e, TRUE)} :
          WriteOutcome(e, c.ord, res, receipt)
    BY <1>5 DEF GiveUp, ObserveAccepted, ObserveRejected, RejectionResult, Result
  <2>2. UNCHANGED <<attempts, exhausted>>
    BY <1>5 DEF GiveUp, ObserveAccepted, ObserveRejected, targetVars
  <2>3. /\ \A f \in Effects, j \in Ordinals : results[f][j] \subseteq results'[f][j]
        /\ incidents \subseteq incidents'
        /\ ContradictionIsReported => ContradictionIsReported'
    BY <1>1, <2>1, OutcomeGrows
  <2> QED BY <1>2, <2>2, <2>3
<1> QED BY <1>3, <1>4, <1>5 DEF CallStep

LEMMA LedgerPass ==
  ASSUME IInv, NEW p \in passes, PassStep(p)
  PROVE  /\ \A f \in Effects, j \in Ordinals : results[f][j] \subseteq results'[f][j]
         /\ \A f \in Effects, j \in Ordinals : attempts[f][j] <= attempts'[f][j]
         /\ incidents \subseteq incidents'
         /\ ContradictionIsReported => ContradictionIsReported'
         /\ \A e \in exhausted' \ exhausted :
              \E k \in Ordinals : attempts[e][k] >= MaxAttempts
<1>0. \A f \in Effects, j \in Ordinals : attempts[f][j] \in Nat
  BY DEF IInv, TypeOK
<1>1. PICK k \in Heads(p) : Exhaust(p, k) \/ Read(p, k) \/ Record(p, k)
  BY DEF PassStep
<1>2. p.effect \in Effects /\ k \in Ordinals
  BY PassFields DEF IInv, Heads
<1>3. CASE Exhaust(p, k)
  <2>1. UNCHANGED <<results, attempts, incidents>> /\ exhausted' = exhausted \union {p.effect}
    BY <1>3 DEF Exhaust, targetVars
  <2>2. attempts[p.effect][k] >= MaxAttempts
    BY <1>3 DEF Exhaust, IInv, AttemptsAreThere
  <2> QED BY <1>0, <1>2, <2>1, <2>2 DEF ContradictionIsReported, Contradictory
<1>4. CASE Read(p, k)
  <2>1. UNCHANGED <<results, attempts, incidents, exhausted>>
    BY <1>4 DEF Read, storeVars, targetVars
  <2> QED BY <1>0, <2>1 DEF ContradictionIsReported, Contradictory
<1>5. CASE Record(p, k)
  <2> DEFINE res == IF p.saw = "UNBOUND" THEN "UNKNOWN" ELSE p.saw
             receipt == IF p.saw = "UNBOUND" THEN Mismatch(p.effect, FALSE) ELSE {}
  <2>1. WriteOutcome(p.effect, k, res, receipt) /\ res \in Result /\ UNCHANGED exhausted
    BY <1>5 DEF Record, Result, targetVars
  <2>2. \A f \in Effects, j \in Ordinals : attempts[f][j] <= attempts'[f][j]
    BY <1>0, <1>2, <1>5 DEF Record, IInv, TypeOK
  <2> HIDE DEF res, receipt
  <2>3. /\ \A f \in Effects, j \in Ordinals : results[f][j] \subseteq results'[f][j]
        /\ incidents \subseteq incidents'
        /\ ContradictionIsReported => ContradictionIsReported'
    BY <1>2, <2>1, OutcomeGrows DEF IInv
  <2> QED BY <2>1, <2>2, <2>3
<1> QED BY <1>1, <1>3, <1>4, <1>5

LEMMA LedgerGrows ==
  ASSUME IInv, [Next]_vars
  PROVE  /\ \A f \in Effects, j \in Ordinals : results[f][j] \subseteq results'[f][j]
         /\ \A f \in Effects, j \in Ordinals : attempts[f][j] <= attempts'[f][j]
         /\ ContradictionIsReported => ContradictionIsReported'
         /\ \A e \in exhausted' \ exhausted :
              \E k \in Ordinals : attempts[e][k] >= MaxAttempts
<1>0. \A f \in Effects, j \in Ordinals : attempts[f][j] \in Nat
  BY DEF IInv, TypeOK
<1>1. CASE \/ Activate \/ Crash \/ ScanStep \/ UNCHANGED vars
           \/ \E e \in Effects, h \in Humans \union {NoHuman}, policy \in 1 .. MaxPolicy :
                Evaluate(e, h, policy)
           \/ \E i \in open : Release(i)
           \/ \E d \in decisions : Acquire(d)
           \/ \E q \in wire : Land(q) \/ FindTaken(q) \/ Reject(q) \/ Drop(q)
           \/ \E e \in Effects : LosePrecondition(e) \/ Match(e) \/ Occupy(e)
           \/ \E r \in Passes, e \in Effects : StartPass(r, e)
  <2>1. UNCHANGED <<results, attempts, exhausted>> /\ incidents \subseteq incidents'
    BY <1>1 DEF Activate, Crash, Seal, ScanStep, ScanNext, ScanDone, Evaluate, Release, Acquire,
       Land, FindTaken, Reject, Drop, LosePrecondition, Match, Occupy, StartPass,
       vars, storeVars, memoryVars, targetVars
  <2> QED BY <1>0, <2>1 DEF ContradictionIsReported, Contradictory
<1>2. CASE \E c \in calls : CallStep(c)
  BY <1>2, LedgerCall DEF IInv
<1>3. CASE \E p \in passes : PassStep(p)
  BY <1>3, LedgerPass
<1> QED BY <1>1, <1>2, <1>3 DEF Next

LEMMA OnlyAdmitAdmits ==
  ASSUME IInv, [Next]_vars
  PROVE  \/ UNCHANGED <<admissions, ordinal>>
         \/ \E c \in calls : Admit(c)
BY DEF Next, CallStep, PassStep, ScanStep, Activate, Crash, Evaluate, Release, Acquire, Refuse,
   Send, GiveUp, ObserveAccepted, ObserveRejected, Land, FindTaken, Reject, Drop,
   LosePrecondition, Match, Occupy, StartPass, Exhaust, Read, Record, ScanNext, ScanDone,
   vars, storeVars, memoryVars, targetVars

(* Two answers that cannot both be true are never silently both recorded.   *)
THEOREM ContradictionsAreReported == Spec => []ContradictionIsReported
<1>1. Init => ContradictionIsReported
  BY DEF Init, ContradictionIsReported, Contradictory
<1>2. IInv /\ ContradictionIsReported /\ [Next]_vars => ContradictionIsReported'
  BY LedgerGrows
<1> QED BY <1>1, <1>2, Invariance, PTL DEF Spec

(* The exception branch is entered only when the attempts are used up.      *)
THEOREM ExhaustionIsEarned == Spec => []ExhaustedAfterAttempts
<1>1. Init => ExhaustedAfterAttempts
  BY DEF Init, ExhaustedAfterAttempts
<1>2. IInv /\ ExhaustedAfterAttempts /\ [Next]_vars => ExhaustedAfterAttempts'
  <2> SUFFICES ASSUME IInv, ExhaustedAfterAttempts, [Next]_vars, NEW e \in exhausted'
               PROVE  \E k \in Ordinals : attempts'[e][k] >= MaxAttempts
    BY DEF ExhaustedAfterAttempts
  <2>1. PICK k \in Ordinals : attempts[e][k] >= MaxAttempts
    BY LedgerGrows DEF ExhaustedAfterAttempts
  <2>2. e \in Effects
    BY TypeNext DEF IInv, TypeOK
  <2>3. attempts[e][k] \in Nat /\ attempts'[e][k] \in Nat /\ attempts[e][k] <= attempts'[e][k]
    BY <2>2, LedgerGrows, TypeNext DEF IInv, TypeOK
  <2> QED BY <2>1, <2>3, ConstantsOk
<1> QED BY <1>1, <1>2, Invariance, PTL DEF Spec

(* No blind retry, whoever records what while a call awaits its reads.      *)
THEOREM RetriesAreNotBlind == Spec => []NoBlindRetry
<1>1. Init => NoBlindRetry
  BY DEF Init, NoBlindRetry
<1>2. IInv /\ NoBlindRetry /\ [Next]_vars => NoBlindRetry'
  <2> SUFFICES ASSUME IInv, NoBlindRetry, [Next]_vars,
                      NEW e \in Effects, Idempotency[e] # "NATIVE_KEY",
                      NEW k \in 1 .. ordinal'[e] - 1
               PROVE  "NO_EFFECT_CONFIRMED" \in results'[e][k]
    BY DEF NoBlindRetry
  <2>1. ordinal[e] \in Nat /\ ordinal'[e] \in Nat /\ ordinal'[e] <= MaxOrdinal /\ k \in Ordinals
    <3>1. ordinal[e] \in 0 .. MaxOrdinal /\ ordinal'[e] \in 0 .. MaxOrdinal
      BY TypeNext DEF IInv, TypeOK
    <3> QED BY <3>1, ConstantsOk DEF Ordinals
  <2>2. CASE k \in 1 .. ordinal[e] - 1
    BY <2>1, <2>2, LedgerGrows DEF NoBlindRetry
  <2>3. CASE k \notin 1 .. ordinal[e] - 1
    <3>1. ordinal'[e] # ordinal[e]
      BY <2>3
    <3>2. PICK c \in calls : Admit(c)
      BY <3>1, OnlyAdmitAdmits
    <3>3. c.decision.effect = e /\ ordinal'[e] = ordinal[e] + 1
      BY <3>1, <3>2 DEF Admit, IInv, TypeOK
    <3>4. k = ordinal[e]
      BY <2>1, <2>3, <3>3
    <3>5. "NO_EFFECT_CONFIRMED" \in results[e][k]
      BY <2>1, <3>2, <3>3, <3>4, OrdinalsAreNat DEF Admit, NextOrdinalAllowed
    <3> QED BY <2>1, <3>5, LedgerGrows
  <2> QED BY <2>2, <2>3
<1> QED BY <1>1, <1>2, Invariance, PTL DEF Spec

(* A Human decision is spent on one effect, in whatever domain.             *)
THEOREM HumanDecisionsAreSpent == Spec => []HumanDecisionUsedOnce
<1>1. Init => HumanDecisionUsedOnce
  BY DEF Init, HumanDecisionUsedOnce
<1>2. IInv /\ HumanDecisionUsedOnce /\ [Next]_vars => HumanDecisionUsedOnce'
  <2> SUFFICES ASSUME IInv, HumanDecisionUsedOnce, [Next]_vars PROVE HumanDecisionUsedOnce'
    OBVIOUS
  <2>1. CASE UNCHANGED admissions
    BY <2>1 DEF HumanDecisionUsedOnce
  <2>2. CASE \E c \in calls : Admit(c)
    <3>1. PICK c \in calls : Admit(c)
      BY <2>2
    <3> DEFINE row == [effect |-> c.decision.effect, ord |-> ordinal[c.decision.effect] + 1,
                       policy |-> c.decision.policy, human |-> c.decision.human,
                       activeAt |-> active]
    <3>2. admissions' = admissions \union {row} /\ HumanUnused(c.decision)
      BY <3>1 DEF Admit
    <3>3. row.effect = c.decision.effect /\ row.human = c.decision.human
      OBVIOUS
    <3> HIDE DEF row
    <3> QED BY <3>2, <3>3 DEF HumanDecisionUsedOnce, HumanUnused
  <2> QED BY <2>1, <2>2, OnlyAdmitAdmits
<1> QED BY <1>1, <1>2, Invariance, PTL DEF Spec

-----------------------------------------------------------------------------
(* No request after the effect.  Of an effect whose target would not         *)
(* recognise a second request, at most one is ever under way: whoever admits *)
(* again has it in writing that the request before was answered, or that the *)
(* native precondition is lost.                                              *)

(* A native precondition, once lost, can be met no more.                     *)
LostIsUntaken ==
  \A e \in lost : Idempotency[e] = "NATIVE_PRECONDITION" /\ times[e] = 0

(* The Reconciler proves absence by nothing else.                            *)
AbsenceIsLost ==
  \A p \in passes :
    Idempotency[p.effect] # "NATIVE_KEY" /\ p.saw = "NO_EFFECT_CONFIRMED" => p.effect \in lost

(* No request of e is under way but, possibly, that of its last admission.   *)
Quiet(e, but) == e \in lost \/ \A q \in wire : q[1] = e => but /\ q[2] = ordinal[e]

(* The call of the last admission, up to the answer that says it took place. *)
CallIsFirst ==
  \A c \in calls :
    LET e == c.decision.effect IN
    Idempotency[e] # "NATIVE_KEY" /\ c.phase \in {"admitted", "sent", "rejected"} =>
      /\ times[e] = 0
      /\ c.ord = ordinal[e]
      /\ Quiet(e, c.phase = "sent")
      /\ c.phase # "rejected" /\ "NO_EFFECT_CONFIRMED" \in results[e][ordinal[e]] => e \in lost

(* What allows another admission.                                            *)
NoEffectIsFinal ==
  \A e \in Effects :
    /\ Idempotency[e] # "NATIVE_KEY"
    /\ ordinal[e] > 0
    /\ "NO_EFFECT_CONFIRMED" \in results[e][ordinal[e]]
    => times[e] = 0 /\ Quiet(e, FALSE)

SendInv == IInv /\ LostIsUntaken /\ AbsenceIsLost /\ CallIsFirst /\ NoEffectIsFinal

(* At most one call in lock D is at work for an effect.                      *)
LEMMA OneCall ==
  ASSUME IInv, NEW c \in calls, NEW d \in calls, c.decision.effect = d.decision.effect
  PROVE  c = d
BY DEF IInv, OneCallPerDomain

(* Steps that neither write a row nor reach a target.                        *)
LEMMA SendUnmoved ==
  ASSUME SendInv, UNCHANGED <<ordinal, results, wire, times, lost>>,
         \A c \in calls' : c \in calls \/ c.phase = "reading",
         \A p \in passes' : \/ p \in passes
                            \/ p.saw # "NO_EFFECT_CONFIRMED"
                            \/ p.effect \in lost \/ Idempotency[p.effect] = "NATIVE_KEY"
  PROVE  LostIsUntaken' /\ AbsenceIsLost' /\ CallIsFirst' /\ NoEffectIsFinal'
<1>1. LostIsUntaken' /\ AbsenceIsLost'
  BY DEF SendInv, LostIsUntaken, AbsenceIsLost
<1>2. CallIsFirst'
  BY DEF SendInv, CallIsFirst, Quiet
<1>3. NoEffectIsFinal'
  BY DEF SendInv, NoEffectIsFinal, Quiet
<1> QED BY <1>1, <1>2, <1>3

(* The row of an outcome.  NO_EFFECT_CONFIRMED is of a precondition that is  *)
(* lost, or comes from the call itself, which then has nothing more to send. *)
LEMMA SendOutcome ==
  ASSUME SendInv, NEW e \in Effects, NEW k \in Ordinals, NEW res \in Result, NEW receipt,
         WriteOutcome(e, k, res, receipt),
         UNCHANGED <<ordinal, wire, times, lost>>,
         calls' \subseteq calls,
         \A p \in passes' : p \in passes \/ p.saw # "NO_EFFECT_CONFIRMED",
         res = "NO_EFFECT_CONFIRMED" /\ Idempotency[e] # "NATIVE_KEY" =>
           \/ e \in lost
           \/ times[e] = 0 /\ Quiet(e, FALSE) /\ \A c \in calls' : c.decision.effect # e
  PROVE  LostIsUntaken' /\ AbsenceIsLost' /\ CallIsFirst' /\ NoEffectIsFinal'
<1>1. \A f \in Effects, j \in Ordinals :
        results'[f][j] = IF f = e /\ j = k THEN results[f][j] \union {res} ELSE results[f][j]
  BY DEF WriteOutcome, SendInv, IInv, TypeOK
<1>2. LostIsUntaken' /\ AbsenceIsLost'
  BY DEF SendInv, LostIsUntaken, AbsenceIsLost
<1>3. \A c \in calls : c.decision.effect \in Effects /\ c.ord \in Ordinals
  BY CallFields DEF SendInv, IInv
<1>4. CallIsFirst'
  <2> SUFFICES ASSUME NEW c \in calls', NEW f, f = c.decision.effect,
                      Idempotency[f] # "NATIVE_KEY", c.phase \in {"admitted", "sent", "rejected"}
               PROVE  /\ times[f] = 0 /\ c.ord = ordinal[f] /\ Quiet(f, c.phase = "sent")
                      /\ c.phase # "rejected" /\ "NO_EFFECT_CONFIRMED" \in results'[f][ordinal[f]]
                           => f \in lost
    BY DEF CallIsFirst, Quiet
  <2>1. /\ times[f] = 0 /\ c.ord = ordinal[f] /\ Quiet(f, c.phase = "sent")
        /\ c.phase # "rejected" /\ "NO_EFFECT_CONFIRMED" \in results[f][ordinal[f]] => f \in lost
    BY DEF SendInv, CallIsFirst
  <2>2. f \in Effects /\ ordinal[f] \in Ordinals
    BY <1>3, <2>1
  <2>3. ASSUME c.phase # "rejected", "NO_EFFECT_CONFIRMED" \in results'[f][ordinal[f]],
               "NO_EFFECT_CONFIRMED" \notin results[f][ordinal[f]]
        PROVE  f \in lost
    <3>1. f = e /\ res = "NO_EFFECT_CONFIRMED"
      BY <1>1, <2>2, <2>3
    <3> QED BY <3>1
  <2> QED BY <2>1, <2>3, Zenon
<1>5. NoEffectIsFinal'
  <2> SUFFICES ASSUME NEW f \in Effects, Idempotency[f] # "NATIVE_KEY", ordinal[f] > 0,
                      "NO_EFFECT_CONFIRMED" \in results'[f][ordinal[f]]
               PROVE  times[f] = 0 /\ Quiet(f, FALSE)
    BY DEF NoEffectIsFinal, Quiet
  <2>1. ordinal[f] \in Ordinals
    BY Counts, ConstantsOk DEF SendInv, IInv, Ordinals
  <2>2. CASE "NO_EFFECT_CONFIRMED" \in results[f][ordinal[f]]
    BY <2>2 DEF SendInv, NoEffectIsFinal
  <2>3. CASE "NO_EFFECT_CONFIRMED" \notin results[f][ordinal[f]]
    <3>1. f = e /\ res = "NO_EFFECT_CONFIRMED"
      BY <1>1, <2>1, <2>3
    <3> QED BY <3>1 DEF SendInv, LostIsUntaken, Quiet
  <2> QED BY <2>2, <2>3
<1> QED BY <1>2, <1>4, <1>5

(* Another admission of an effect: there was none before, or the one before  *)
(* is proven to have no effect.                                              *)
LEMMA SendAdmit ==
  ASSUME SendInv, NEW c \in calls, Admit(c)
  PROVE  LostIsUntaken' /\ AbsenceIsLost' /\ CallIsFirst' /\ NoEffectIsFinal'
<1> DEFINE e == c.decision.effect
           k == ordinal[e] + 1
           new == [c EXCEPT !.phase = "admitted", !.ord = k]
<1>1. c \in Call /\ e \in Effects /\ ordinal[e] \in Nat /\ k <= MaxOrdinal /\ times[e] \in Nat
  BY CallFields, Counts DEF SendInv, IInv, Admit
<1>2. /\ ordinal' = [ordinal EXCEPT ![e] = k]
      /\ calls' = (calls \ {c}) \union {new}
      /\ NextOrdinalAllowed(e)
      /\ UNCHANGED <<results, passes, wire, times, lost>>
  BY DEF Admit, targetVars
<1>3. ordinal'[e] = k /\ \A f \in Effects : f # e => ordinal'[f] = ordinal[f]
  BY <1>1, <1>2 DEF SendInv, IInv, TypeOK
<1>4. new.decision = c.decision /\ new.phase = "admitted" /\ new.ord = k
  BY <1>1 DEF Call
<1>5. results[e][k] = {}
  <2>1. k \in Ordinals /\ ~(k <= ordinal[e])
    BY <1>1 DEF Ordinals
  <2> QED BY <1>1, <2>1 DEF SendInv, IInv, NothingUnadmitted
<1>6. Idempotency[e] # "NATIVE_KEY" => times[e] = 0 /\ Quiet(e, FALSE)
  <2>1. CASE ordinal[e] = 0
    <3>1. times[e] = 0
      BY <1>1, <2>1 DEF SendInv, IInv, NothingUnadmitted
    <3>2. \A q \in wire : q[1] # e
      BY <1>1, <2>1, RequestFields, OrdinalsAreNat DEF SendInv, IInv, NothingUnadmitted
    <3> QED BY <3>1, <3>2 DEF Quiet
  <2>2. CASE ordinal[e] > 0
    BY <1>1, <1>2, <2>2 DEF NextOrdinalAllowed, SendInv, NoEffectIsFinal
  <2>3. ordinal[e] = 0 \/ ordinal[e] > 0
    BY <1>1
  <2> QED BY <2>1, <2>2, <2>3, Zenon
<1> HIDE DEF new, k
<1>7. LostIsUntaken' /\ AbsenceIsLost'
  BY <1>2 DEF SendInv, LostIsUntaken, AbsenceIsLost
<1>8. CallIsFirst'
  <2> SUFFICES ASSUME NEW x \in calls', NEW f, f = x.decision.effect,
                      Idempotency[f] # "NATIVE_KEY", x.phase \in {"admitted", "sent", "rejected"}
               PROVE  /\ times[f] = 0 /\ x.ord = ordinal'[f] /\ Quiet(f, x.phase = "sent")'
                      /\ x.phase # "rejected" /\ "NO_EFFECT_CONFIRMED" \in results[f][ordinal'[f]]
                           => f \in lost
    BY <1>2 DEF CallIsFirst, Quiet
  <2>1. CASE x = new
    BY <1>2, <1>3, <1>4, <1>5, <1>6, <2>1 DEF Quiet
  <2>2. CASE x \in calls /\ x # c
    <3>1. f # e /\ f \in Effects
      BY <2>2, OneCall, CallFields DEF SendInv, IInv
    <3>2. ordinal'[f] = ordinal[f]
      BY <1>3, <3>1
    <3> QED BY <1>2, <2>2, <3>2 DEF SendInv, CallIsFirst, Quiet
  <2> QED BY <1>2, <2>1, <2>2
<1>9. NoEffectIsFinal'
  <2> SUFFICES ASSUME NEW f \in Effects, Idempotency[f] # "NATIVE_KEY", ordinal'[f] > 0,
                      "NO_EFFECT_CONFIRMED" \in results[f][ordinal'[f]]
               PROVE  times[f] = 0 /\ Quiet(f, FALSE)'
    BY <1>2 DEF NoEffectIsFinal
  <2>1. f # e
    BY <1>3, <1>5
  <2> QED BY <1>2, <1>3, <2>1 DEF SendInv, NoEffectIsFinal, Quiet
<1> QED BY <1>7, <1>8, <1>9

(* The one request of an admission: no other of its effect is under way that *)
(* could still take place.                                                   *)
LEMMA SendSend ==
  ASSUME SendInv, NEW c \in calls, Send(c)
  PROVE  LostIsUntaken' /\ AbsenceIsLost' /\ CallIsFirst' /\ NoEffectIsFinal'
<1> DEFINE e == c.decision.effect
           q == <<e, c.ord>>
           new == [c EXCEPT !.phase = "sent"]
<1>1. /\ wire' = wire \union {q}
      /\ calls' = (calls \ {c}) \union {new}
      /\ c.phase = "admitted"
      /\ UNCHANGED <<ordinal, results, passes, times, lost>>
  BY DEF Send, Become, storeVars
<1>2. /\ new.decision = c.decision /\ new.phase = "sent" /\ new.ord = c.ord
      /\ e \in Effects /\ q[1] = e /\ q[2] = c.ord
  BY CallFields DEF SendInv, IInv, Call
<1>3. Idempotency[e] # "NATIVE_KEY" =>
        /\ times[e] = 0 /\ c.ord = ordinal[e]
        /\ e \in lost \/ \A r \in wire : r[1] # e
        /\ "NO_EFFECT_CONFIRMED" \in results[e][ordinal[e]] => e \in lost
  BY <1>1 DEF SendInv, CallIsFirst, Quiet
<1> HIDE DEF new, q
<1>4. LostIsUntaken' /\ AbsenceIsLost'
  BY <1>1 DEF SendInv, LostIsUntaken, AbsenceIsLost
<1>5. CallIsFirst'
  <2> SUFFICES ASSUME NEW x \in calls', NEW f, f = x.decision.effect,
                      Idempotency[f] # "NATIVE_KEY", x.phase \in {"admitted", "sent", "rejected"}
               PROVE  /\ times[f] = 0 /\ x.ord = ordinal[f]
                      /\ f \in lost \/ \A r \in wire' : r[1] = f => x.phase = "sent" /\ r[2] = ordinal[f]
                      /\ x.phase # "rejected" /\ "NO_EFFECT_CONFIRMED" \in results[f][ordinal[f]]
                           => f \in lost
    BY <1>1 DEF CallIsFirst, Quiet
  <2>1. CASE x = new
    BY <1>1, <1>2, <1>3, <2>1
  <2>2. CASE x \in calls /\ x # c
    <3>1. f # e
      BY <2>2, OneCall DEF SendInv
    <3> QED BY <1>1, <1>2, <2>2, <3>1 DEF SendInv, CallIsFirst, Quiet
  <2> QED BY <1>1, <2>1, <2>2
<1>6. NoEffectIsFinal'
  <2> SUFFICES ASSUME NEW f \in Effects, Idempotency[f] # "NATIVE_KEY", ordinal[f] > 0,
                      "NO_EFFECT_CONFIRMED" \in results[f][ordinal[f]]
               PROVE  times[f] = 0 /\ (f \in lost \/ \A r \in wire' : r[1] # f)
    BY <1>1 DEF NoEffectIsFinal, Quiet
  <2>1. CASE f = e
    BY <1>3, <2>1
  <2>2. CASE f # e
    BY <1>1, <1>2, <2>2 DEF SendInv, NoEffectIsFinal, Quiet
  <2> QED BY <2>1, <2>2
<1> QED BY <1>4, <1>5, <1>6

(* A call that waits for the answer to a request gets it.                    *)
LEMMA AnswerReaches ==
  ASSUME IInv, NEW q \in wire, NEW answer, answer # "sent", Answer(q, answer)
  PROVE  \A x \in calls' :
           \/ x \in calls /\ (x.phase = "sent" => <<x.decision.effect, x.ord>> # q)
           \/ \E c \in calls : /\ c.phase = "sent" /\ <<c.decision.effect, c.ord>> = q
                               /\ x.decision = c.decision /\ x.ord = c.ord /\ x.phase = answer
<1> DEFINE answered(c) == [c EXCEPT !.phase = answer]
<1>1. \A c \in calls : answered(c).decision = c.decision /\ answered(c).ord = c.ord
                       /\ answered(c).phase = answer
  BY CallFields DEF IInv, Call
<1>2. \A x \in calls' :
        \/ x \in calls /\ x \notin Waiting(q)
        \/ \E c \in Waiting(q) : x = answered(c)
  BY DEF Answer
<1> HIDE DEF answered
<1> QED BY <1>1, <1>2 DEF Waiting

(* The target processes a request.  It takes place only if its effect is     *)
(* not lost, and then its call is the only one of the effect, and waits.     *)
LEMMA SendAnswer ==
  ASSUME SendInv, NEW q \in wire, NEW answer \in {"accepted", "unbound", "rejected"},
         Answer(q, answer), wire' = wire \ {q},
         UNCHANGED <<ordinal, results, passes, lost>>,
         \/ UNCHANGED times
         \/ /\ MayTakePlace(q[1]) /\ answer = "accepted"
            /\ times' = [times EXCEPT ![q[1]] = @ + 1]
  PROVE  LostIsUntaken' /\ AbsenceIsLost' /\ CallIsFirst' /\ NoEffectIsFinal'
<1>1. q[1] \in Effects /\ q = <<q[1], q[2]>>
  BY DEF SendInv, IInv, TypeOK, Request
<1>2. \A f \in Effects :
        \/ times'[f] = times[f]
        \/ f = q[1] /\ q[1] \notin lost /\ answer = "accepted"
  <2>1. MayTakePlace(q[1]) => q[1] \notin lost
    BY DEF MayTakePlace, SendInv, LostIsUntaken
  <2> QED BY <1>1, <2>1 DEF SendInv, IInv, TypeOK
<1>3. \A x \in calls' :
        \/ x \in calls /\ (x.phase = "sent" => <<x.decision.effect, x.ord>> # q)
        \/ \E c \in calls : /\ c.phase = "sent" /\ <<c.decision.effect, c.ord>> = q
                            /\ x.decision = c.decision /\ x.ord = c.ord /\ x.phase = answer
  BY AnswerReaches DEF SendInv
<1>4. LostIsUntaken' /\ AbsenceIsLost'
  <2>1. lost \subseteq Effects
    BY DEF SendInv, IInv, TypeOK
  <2> QED BY <1>2, <2>1 DEF SendInv, LostIsUntaken, AbsenceIsLost
<1>5. CallIsFirst'
  <2> SUFFICES ASSUME NEW x \in calls', NEW f, f = x.decision.effect,
                      Idempotency[f] # "NATIVE_KEY", x.phase \in {"admitted", "sent", "rejected"}
               PROVE  /\ times'[f] = 0 /\ x.ord = ordinal[f]
                      /\ f \in lost \/ \A r \in wire' : r[1] = f => x.phase = "sent" /\ r[2] = ordinal[f]
                      /\ x.phase # "rejected" /\ "NO_EFFECT_CONFIRMED" \in results[f][ordinal[f]]
                           => f \in lost
    BY DEF CallIsFirst, Quiet
  <2>1. CASE x \in calls /\ (x.phase = "sent" => <<f, x.ord>> # q)
    <3>1. /\ times[f] = 0 /\ x.ord = ordinal[f]
          /\ f \in lost \/ \A r \in wire : r[1] = f => x.phase = "sent" /\ r[2] = ordinal[f]
          /\ x.phase # "rejected" /\ "NO_EFFECT_CONFIRMED" \in results[f][ordinal[f]] => f \in lost
      BY <2>1 DEF SendInv, CallIsFirst, Quiet
    <3>2. f \in Effects
      BY <2>1, CallFields DEF SendInv, IInv
    <3>3. times'[f] = times[f]
      <4> SUFFICES ASSUME f = q[1], q[1] \notin lost PROVE FALSE
        BY <1>2, <3>2
      <4>1. x.phase = "sent" /\ q[2] = x.ord
        BY <3>1
      <4> QED BY <1>1, <2>1, <4>1
    <3> QED BY <3>1, <3>3
  <2>2. ASSUME NEW c \in calls, c.phase = "sent", <<c.decision.effect, c.ord>> = q,
               x.decision = c.decision, x.ord = c.ord, x.phase = answer
        PROVE  /\ times'[f] = 0 /\ x.ord = ordinal[f]
               /\ f \in lost \/ \A r \in wire' : r[1] = f => x.phase = "sent" /\ r[2] = ordinal[f]
               /\ x.phase # "rejected" /\ "NO_EFFECT_CONFIRMED" \in results[f][ordinal[f]]
                    => f \in lost
    <3>1. x.phase = "rejected" /\ f = q[1] /\ q[2] = c.ord
      BY <2>2
    <3>2. /\ times[f] = 0 /\ c.ord = ordinal[f]
          /\ f \in lost \/ \A r \in wire : r[1] = f => r[2] = ordinal[f]
      BY <2>2 DEF SendInv, CallIsFirst, Quiet
    <3>3. times'[f] = 0
      BY <1>1, <1>2, <2>2, <3>1, <3>2
    <3>4. ASSUME f \notin lost, NEW r \in wire', r[1] = f PROVE FALSE
      <4>1. r \in wire /\ r # q /\ r[2] = q[2]
        BY <3>1, <3>2, <3>4
      <4>2. r = <<r[1], r[2]>>
        BY <4>1 DEF SendInv, IInv, TypeOK, Request
      <4> QED BY <1>1, <3>1, <3>4, <4>1, <4>2
    <3> QED BY <2>2, <3>1, <3>2, <3>3, <3>4
  <2> QED BY <1>3, <2>1, <2>2
<1>6. NoEffectIsFinal'
  <2> SUFFICES ASSUME NEW f \in Effects, Idempotency[f] # "NATIVE_KEY", ordinal[f] > 0,
                      "NO_EFFECT_CONFIRMED" \in results[f][ordinal[f]]
               PROVE  times'[f] = 0 /\ (f \in lost \/ \A r \in wire' : r[1] # f)
    BY DEF NoEffectIsFinal, Quiet
  <2>1. times[f] = 0 /\ (f \in lost \/ \A r \in wire : r[1] # f)
    BY DEF SendInv, NoEffectIsFinal, Quiet
  <2>2. times'[f] = times[f]
    BY <1>2, <2>1
  <2> QED BY <2>1, <2>2
<1> QED BY <1>4, <1>5, <1>6

(* A request fewer, or a precondition fewer.                                 *)
LEMMA SendLess ==
  ASSUME SendInv, UNCHANGED <<ordinal, results, calls, passes, times>>,
         wire' \subseteq wire, lost \subseteq lost', lost' \subseteq Effects,
         \A e \in lost' : e \in lost \/ (Idempotency[e] = "NATIVE_PRECONDITION" /\ times[e] = 0)
  PROVE  LostIsUntaken' /\ AbsenceIsLost' /\ CallIsFirst' /\ NoEffectIsFinal'
<1>1. LostIsUntaken' /\ AbsenceIsLost'
  BY DEF SendInv, LostIsUntaken, AbsenceIsLost
<1>2. CallIsFirst'
  BY DEF SendInv, CallIsFirst, Quiet
<1>3. NoEffectIsFinal'
  BY DEF SendInv, NoEffectIsFinal, Quiet
<1> QED BY <1>1, <1>2, <1>3

(* The steps of a call.                                                      *)
LEMMA SendCall ==
  ASSUME SendInv, NEW c \in calls, CallStep(c)
  PROVE  LostIsUntaken' /\ AbsenceIsLost' /\ CallIsFirst' /\ NoEffectIsFinal'
<1> DEFINE e == c.decision.effect
<1>1. e \in Effects /\ c.ord \in Ordinals
  BY CallFields DEF SendInv, IInv
<1>2. CASE Refuse(c)
  BY <1>2, SendUnmoved DEF Refuse, Return, targetVars
<1>3. CASE Admit(c)
  BY <1>3, SendAdmit
<1>4. CASE Send(c)
  BY <1>4, SendSend
<1>5. CASE GiveUp(c)
  BY <1>1, <1>5, SendOutcome DEF GiveUp, Return, targetVars, Result
<1>6. CASE ObserveAccepted(c)
  <2>1. CASE c.phase = "accepted"
    BY <1>1, <1>6, <2>1, SendOutcome DEF ObserveAccepted, Return, targetVars, Result
  <2>2. CASE c.phase # "accepted"
    BY <1>1, <1>6, <2>2, SendOutcome DEF ObserveAccepted, Return, targetVars, Result
  <2> QED BY <2>1, <2>2
<1>7. CASE ObserveRejected(c)
  <2>1. RejectionResult(e) \in Result
    BY DEF RejectionResult, Result
  <2>2. /\ WriteOutcome(e, c.ord, RejectionResult(e), {})
        /\ calls' = calls \ {c} /\ c.phase = "rejected"
        /\ UNCHANGED <<ordinal, passes, wire, times, lost>>
    BY <1>7 DEF ObserveRejected, Return, targetVars
  <2>3. Idempotency[e] # "NATIVE_KEY" => times[e] = 0 /\ Quiet(e, FALSE)
    BY <2>2 DEF SendInv, CallIsFirst, Quiet
  <2>4. \A d \in calls' : d.decision.effect # e
    BY <2>2, OneCall DEF SendInv
  <2> HIDE DEF e
  <2> QED BY <1>1, <2>1, <2>2, <2>3, <2>4, SendOutcome
<1> QED BY <1>2, <1>3, <1>4, <1>5, <1>6, <1>7 DEF CallStep

(* The steps of a pass.                                                      *)
LEMMA SendPass ==
  ASSUME SendInv, NEW p \in passes, PassStep(p)
  PROVE  LostIsUntaken' /\ AbsenceIsLost' /\ CallIsFirst' /\ NoEffectIsFinal'
<1> DEFINE e == p.effect
<1>1. PICK k \in Heads(p) : Exhaust(p, k) \/ Read(p, k) \/ Record(p, k)
  BY DEF PassStep
<1>2. p \in Pass /\ e \in Effects /\ k \in Ordinals
  BY DEF SendInv, IInv, TypeOK, Pass, Heads
<1>3. Advance(p, k) => \A x \in passes' : x \in passes \/ x.saw = "NOTHING"
  BY <1>2 DEF Advance, Pass
<1>4. CASE Exhaust(p, k)
  BY <1>3, <1>4, SendUnmoved DEF Exhaust, targetVars
<1>5. CASE Read(p, k)
  <2>1. PICK saw \in TargetReads(e) :
          passes' = (passes \ {p}) \union
                    {[p EXCEPT !.prior = attempts[p.effect][k], !.saw = saw]}
    BY <1>5 DEF Read
  <2>2. saw = "NO_EFFECT_CONFIRMED" => e \in lost \/ Idempotency[e] = "NATIVE_KEY"
    BY <1>2 DEF TargetReads
  <2> DEFINE new == [p EXCEPT !.prior = attempts[p.effect][k], !.saw = saw]
  <2>3. new.saw = saw /\ new.effect = e
    BY <1>2 DEF Pass
  <2>4. \A x \in passes' : x \in passes \/ x = new
    BY <2>1
  <2> HIDE DEF new
  <2> QED BY <1>5, <2>2, <2>3, <2>4, SendUnmoved DEF Read, storeVars, targetVars
<1>6. CASE Record(p, k)
  <2> DEFINE res == IF p.saw = "UNBOUND" THEN "UNKNOWN" ELSE p.saw
             receipt == IF p.saw = "UNBOUND" THEN Mismatch(e, FALSE) ELSE {}
  <2>1. /\ WriteOutcome(e, k, res, receipt) /\ res \in Result
        /\ UNCHANGED <<ordinal, calls, wire, times, lost>>
    BY <1>6 DEF Record, targetVars, Result
  <2>2. \A x \in passes' : x \in passes \/ x.saw # "NO_EFFECT_CONFIRMED"
    <3>1. CASE Advance(p, k)
      BY <1>3, <3>1
    <3>2. CASE passes' = (passes \ {p}) \union {[p EXCEPT !.saw = "SPENT"]}
      BY <1>2, <3>2 DEF Pass
    <3> QED BY <1>6, <3>1, <3>2 DEF Record
  <2>3. res = "NO_EFFECT_CONFIRMED" /\ Idempotency[e] # "NATIVE_KEY" => e \in lost
    BY DEF SendInv, AbsenceIsLost
  <2> HIDE DEF res, receipt, e
  <2> QED BY <1>2, <2>1, <2>2, <2>3, SendOutcome
<1> QED BY <1>1, <1>4, <1>5, <1>6

(* The steps of the targets and of those who share them.                     *)
LEMMA SendTarget ==
  ASSUME SendInv,
         \/ \E q \in wire : Land(q) \/ FindTaken(q) \/ Reject(q) \/ Drop(q)
         \/ \E e \in Effects : LosePrecondition(e) \/ Match(e) \/ Occupy(e)
  PROVE  LostIsUntaken' /\ AbsenceIsLost' /\ CallIsFirst' /\ NoEffectIsFinal'
<1>1. ASSUME NEW q \in wire, Land(q) \/ FindTaken(q) \/ Reject(q)
      PROVE  LostIsUntaken' /\ AbsenceIsLost' /\ CallIsFirst' /\ NoEffectIsFinal'
  <2>1. CASE Land(q)
    BY <2>1, SendAnswer DEF Land, storeVars
  <2>2. CASE FindTaken(q)
    <3>1. /\ wire' = wire \ {q}
          /\ UNCHANGED <<ordinal, results, passes, lost, times>>
      BY <2>2 DEF FindTaken, storeVars
    <3>2. Answer(q, "accepted") \/ Answer(q, "unbound")
      BY <2>2 DEF FindTaken
    <3> QED BY <3>1, <3>2, SendAnswer
  <2>3. CASE Reject(q)
    BY <2>3, SendAnswer DEF Reject, storeVars
  <2> QED BY <1>1, <2>1, <2>2, <2>3
<1>2. ASSUME NEW q \in wire, Drop(q)
      PROVE  LostIsUntaken' /\ AbsenceIsLost' /\ CallIsFirst' /\ NoEffectIsFinal'
  <2>1. lost' \subseteq Effects /\ UNCHANGED lost
    BY <1>2 DEF Drop, SendInv, IInv, TypeOK
  <2> QED BY <1>2, <2>1, SendLess DEF Drop, storeVars, memoryVars
<1>3. ASSUME NEW e \in Effects, LosePrecondition(e) \/ Match(e) \/ Occupy(e)
      PROVE  LostIsUntaken' /\ AbsenceIsLost' /\ CallIsFirst' /\ NoEffectIsFinal'
  <2>1. /\ lost' = lost \/ lost' = lost \union {e}
        /\ e \in lost' => e \in lost \/ Idempotency[e] = "NATIVE_PRECONDITION"
        /\ times[e] = 0
    BY <1>3 DEF LosePrecondition, Match, Occupy, MovedFor
  <2>2. lost' \subseteq Effects
    BY <2>1 DEF SendInv, IInv, TypeOK
  <2>3. UNCHANGED <<ordinal, results, calls, passes, times, wire>>
    BY <1>3 DEF LosePrecondition, Match, Occupy, storeVars, memoryVars
  <2> QED BY <2>1, <2>2, <2>3, SendLess
<1> QED BY <1>1, <1>2, <1>3

LEMMA SendInit == Init => SendInv
<1> SUFFICES ASSUME Init PROVE SendInv
  OBVIOUS
<1>1. IInv
  BY InvInit
<1>2. LostIsUntaken /\ AbsenceIsLost /\ CallIsFirst /\ NoEffectIsFinal
  BY DEF Init, LostIsUntaken, AbsenceIsLost, CallIsFirst, NoEffectIsFinal
<1> QED BY <1>1, <1>2 DEF SendInv

LEMMA SendNext == SendInv /\ [Next]_vars => SendInv'
<1> SUFFICES ASSUME SendInv, [Next]_vars PROVE SendInv'
  OBVIOUS
<1>0. IInv'
  BY InvNext DEF SendInv
<1> DEFINE Kept == LostIsUntaken' /\ AbsenceIsLost' /\ CallIsFirst' /\ NoEffectIsFinal'
<1>1. ASSUME Activate PROVE Kept
  BY <1>1, SendUnmoved DEF Activate, memoryVars, targetVars
<1>2. ASSUME NEW e \in Effects, NEW h \in Humans \union {NoHuman}, NEW policy \in 1 .. MaxPolicy,
             Evaluate(e, h, policy)
      PROVE  Kept
  BY <1>2, SendUnmoved DEF Evaluate, memoryVars, targetVars
<1>3. ASSUME NEW i \in open, Release(i) PROVE Kept
  BY <1>3, SendUnmoved DEF Release, memoryVars, targetVars
<1>4. ASSUME NEW d \in decisions, Acquire(d) PROVE Kept
  BY <1>4, SendUnmoved DEF Acquire, storeVars, targetVars
<1>5. ASSUME NEW c \in calls, CallStep(c) PROVE Kept
  BY <1>5, SendCall
<1>6. ASSUME \/ \E q \in wire : Land(q) \/ FindTaken(q) \/ Reject(q) \/ Drop(q)
             \/ \E e \in Effects : LosePrecondition(e) \/ Match(e) \/ Occupy(e)
      PROVE  Kept
  BY <1>6, SendTarget
<1>7. ASSUME NEW r \in Passes, NEW e \in Effects, StartPass(r, e) PROVE Kept
  BY <1>7, SendUnmoved DEF StartPass, NewPass, storeVars, targetVars
<1>8. ASSUME NEW p \in passes, PassStep(p) PROVE Kept
  BY <1>8, SendPass
<1>9. ASSUME Crash PROVE Kept
  BY <1>9, SendUnmoved DEF Crash, targetVars
<1>10. ASSUME ScanStep PROVE Kept
  <2>1. ASSUME NEW q \in scan, ScanNext(q) PROVE Kept
    BY <2>1, SendUnmoved DEF ScanNext, NewPass, storeVars, targetVars
  <2>2. ASSUME ScanDone PROVE Kept
    BY <2>2, SendUnmoved DEF ScanDone, storeVars, targetVars
  <2> QED BY <1>10, <2>1, <2>2 DEF ScanStep
<1>11. ASSUME UNCHANGED vars PROVE Kept
  BY <1>11, SendUnmoved DEF vars, storeVars, memoryVars, targetVars
<1>12. Kept
  BY <1>1, <1>2, <1>3, <1>4, <1>5, <1>6, <1>7, <1>8, <1>9, <1>10, <1>11 DEF Next
<1> QED BY <1>0, <1>12 DEF SendInv

(* Only a call that has just been admitted sends.                            *)
LEMMA OnlySendSends ==
  ASSUME SendInv, [Next]_vars
  PROVE  wire' \subseteq wire \/ \E c \in calls : Send(c)
<1>1. ASSUME NEW c \in calls, CallStep(c) PROVE wire' \subseteq wire \/ Send(c)
  BY <1>1 DEF CallStep, Refuse, Admit, GiveUp, ObserveAccepted, ObserveRejected, targetVars
<1>2. ASSUME NEW p \in passes, PassStep(p) PROVE wire' \subseteq wire
  BY <1>2 DEF PassStep, Exhaust, Read, Record, targetVars
<1>3. ASSUME NEW q \in wire, Land(q) \/ FindTaken(q) \/ Reject(q) \/ Drop(q)
      PROVE  wire' \subseteq wire
  BY <1>3 DEF Land, FindTaken, Reject, Drop
<1>4. CASE \/ Activate
           \/ \E e \in Effects, h \in Humans \union {NoHuman}, policy \in 1 .. MaxPolicy :
                Evaluate(e, h, policy)
           \/ \E i \in open : Release(i)
           \/ \E d \in decisions : Acquire(d)
           \/ \E e \in Effects : LosePrecondition(e) \/ Match(e) \/ Occupy(e)
           \/ \E r \in Passes, e \in Effects : StartPass(r, e)
           \/ Crash
           \/ ScanStep
           \/ UNCHANGED vars
  BY <1>4 DEF Activate, Evaluate, Release, Acquire, LosePrecondition, Match, Occupy, StartPass, Crash,
              ScanStep, ScanNext, ScanDone, vars, targetVars
<1> QED BY <1>1, <1>2, <1>3, <1>4 DEF Next

(* Once an effect has taken place at a target that would not recognise it,   *)
(* no call, retry or restart sends it again.                                 *)
THEOREM NothingIsSentAfterTheEffect == Spec => NoSendAfterEffect
<1> DEFINE A == \A e \in Effects : Idempotency[e] # "NATIVE_KEY" /\ times[e] > 0 =>
                  \A q \in wire' : q[1] = e => q \in wire
<1>1. SendInv /\ [Next]_vars => A
  <2> SUFFICES ASSUME SendInv, [Next]_vars, NEW e \in Effects, Idempotency[e] # "NATIVE_KEY",
                      times[e] > 0, NEW q \in wire', q[1] = e, q \notin wire
               PROVE  FALSE
    OBVIOUS
  <2>1. PICK c \in calls : Send(c)
    BY OnlySendSends
  <2>2. q = <<c.decision.effect, c.ord>> /\ c.phase = "admitted"
    BY <2>1 DEF Send
  <2>3. times[e] = 0
    BY <2>2 DEF SendInv, CallIsFirst
  <2> QED BY <2>3
<1>2. SendInv /\ [Next]_vars => [A]_vars
  BY <1>1
<1> QED BY <1>2, SendInit, SendNext, PTL DEF Spec, NoSendAfterEffect

(* Absence is proof: what the last admission's rows say has not taken place  *)
(* has not, and no request that could still make it so is under way.         *)
THEOREM AbsencesAreTrue == Spec => []AbsenceIsTrue
<1>1. SendInv => AbsenceIsTrue
  BY DEF SendInv, NoEffectIsFinal, AbsenceIsTrue
<1> QED BY <1>1, SendInit, SendNext, PTL DEF Spec

-----------------------------------------------------------------------------
(* Nothing is forgotten: the safety half of AdmissionGetsOutcome, which is   *)
(* all of it that needs no fairness.                                         *)

(* Somebody is there who will write the first row of an admission: its call, *)
(* the restart scan that has yet to come to it, or a pass.                   *)
InHand(e, k) ==
  \/ \E c \in calls : c.phase # "reading" /\ c.decision.effect = e /\ c.ord = k
  \/ svc = "scan" /\ <<e, k>> \in scan
  \/ \E p \in passes : p.effect = e /\ k \in p.todo

NothingForgotten ==
  \A e \in Effects : \A k \in 1 .. ordinal[e] : results[e][k] = {} => InHand(e, k)

(* A restart finds every ordinal, and an attempt that was counted is a row:  *)
(* a pass that finds its attempts used up has nothing left to write.         *)
AdmissionsAreThere ==
  \A e \in Effects : \A k \in 1 .. ordinal[e] : \E a \in admissions : a.effect = e /\ a.ord = k
AttemptsAreTold ==
  \A e \in Effects, k \in Ordinals : attempts[e][k] > 0 => "UNKNOWN" \in results[e][k]

KnownInv == IInv /\ NothingForgotten /\ AdmissionsAreThere /\ AttemptsAreTold

(* What an admission without a row needs of a step.                          *)
Unanswered(e, k) == k <= ordinal[e] /\ results[e][k] = {}

(* Of a call: another one, or it again, holds what it held.                  *)
LEMMA CallsHold ==
  ASSUME KnownInv, UNCHANGED <<svc, scan, passes>>,
         NEW e \in Effects, NEW k \in Ordinals, Unanswered(e, k),
         \A c \in calls : c.phase # "reading" /\ c.decision.effect = e /\ c.ord = k =>
           \E d \in calls' : d.phase # "reading" /\ d.decision.effect = e /\ d.ord = k
  PROVE  InHand(e, k)'
<1>1. k \in 1 .. ordinal[e]
  BY ConstantsOk, Counts DEF Unanswered, KnownInv, IInv, Ordinals
<1>2. InHand(e, k)
  BY <1>1 DEF KnownInv, NothingForgotten, Unanswered
<1> QED BY <1>2 DEF InHand

(* A step of a call.                                                         *)
LEMMA CallHolds ==
  ASSUME KnownInv, NEW c \in calls, CallStep(c),
         NEW e \in Effects, NEW k \in Ordinals, Unanswered(e, k)', Unanswered(e, k)
  PROVE  InHand(e, k)'
<1>1. UNCHANGED <<svc, scan, passes>>
  BY DEF CallStep, Refuse, Admit, Send, GiveUp, ObserveAccepted, ObserveRejected
<1>2. c \in Call
  BY CallFields DEF KnownInv, IInv
<1>3. CASE Refuse(c) \/ Admit(c)
  <2>1. c.phase = "reading" /\ calls \ {c} \subseteq calls'
    BY <1>3 DEF Refuse, Admit, Return
  <2> QED BY <1>1, <2>1, CallsHold
<1>4. CASE Send(c)
  <2> DEFINE d == [c EXCEPT !.phase = "sent"]
  <2>1. calls' = (calls \ {c}) \union {d}
    BY <1>4 DEF Send, Become
  <2>2. d.phase = "sent" /\ d.decision = c.decision /\ d.ord = c.ord
    BY <1>2 DEF Call
  <2> HIDE DEF d
  <2> QED BY <1>1, <2>1, <2>2, CallsHold
<1>5. CASE GiveUp(c) \/ ObserveAccepted(c) \/ ObserveRejected(c)
  <2>1. calls' = calls \ {c}
    BY <1>5 DEF GiveUp, ObserveAccepted, ObserveRejected, Return
  <2>2. results'[c.decision.effect][c.ord] # {}
    <3>1. PICK res, receipt : WriteOutcome(c.decision.effect, c.ord, res, receipt)
      BY <1>5 DEF GiveUp, ObserveAccepted, ObserveRejected
    <3>2. c.decision.effect \in Effects /\ c.ord \in Ordinals
      BY CallFields DEF KnownInv, IInv
    <3> QED BY <3>1, <3>2 DEF WriteOutcome, KnownInv, IInv, TypeOK
  <2>3. c.decision.effect # e \/ c.ord # k
    BY <2>2 DEF Unanswered
  <2> QED BY <1>1, <2>1, <2>3, CallsHold
<1> QED BY <1>3, <1>4, <1>5 DEF CallStep

(* An answer that reaches a call leaves it where it was.                     *)
LEMMA AnswerHolds ==
  ASSUME KnownInv, NEW q \in wire, Land(q) \/ FindTaken(q) \/ Reject(q),
         NEW e \in Effects, NEW k \in Ordinals, Unanswered(e, k)
  PROVE  InHand(e, k)'
<1>1. UNCHANGED <<svc, scan, passes>>
  BY DEF Land, FindTaken, Reject
<1>2. PICK answer \in {"accepted", "unbound", "rejected"} : Answer(q, answer)
  BY DEF Land, FindTaken, Reject
<1>3. ASSUME NEW c \in calls, c.phase # "reading", c.decision.effect = e, c.ord = k
      PROVE  \E d \in calls' : d.phase # "reading" /\ d.decision.effect = e /\ d.ord = k
  <2> DEFINE d == [c EXCEPT !.phase = answer]
  <2>1. d.phase = answer /\ d.decision = c.decision /\ d.ord = c.ord
    BY CallFields DEF Call, KnownInv, IInv
  <2>2. c \in calls' \/ d \in calls'
    BY <1>2 DEF Answer
  <2> HIDE DEF d
  <2> QED BY <1>3, <2>1, <2>2
<1> QED BY <1>1, <1>3, CallsHold

(* A step of a pass: what it lets go of has a row.                           *)
LEMMA PassHolds ==
  ASSUME KnownInv, NEW p \in passes, PassStep(p),
         NEW e \in Effects, NEW k \in Ordinals, Unanswered(e, k)', Unanswered(e, k)
  PROVE  InHand(e, k)'
<1> USE DEF KnownInv
<1>1. UNCHANGED <<svc, scan, calls>>
  BY DEF PassStep, Exhaust, Read, Record
<1>2. p \in Pass /\ p.effect \in Effects /\ p.todo \subseteq Ordinals
  BY PassFields DEF IInv
<1>3. PICK j \in Heads(p) : Exhaust(p, j) \/ Read(p, j) \/ Record(p, j)
  BY DEF PassStep
<1>4. j \in p.todo /\ j \in Ordinals
  BY <1>2, <1>3 DEF Heads
<1>5. \/ Advance(p, j) /\ results'[p.effect][j] # {}
      \/ \E d : passes' = (passes \ {p}) \union {d} /\ d.effect = p.effect /\ d.todo = p.todo
  <2>1. CASE Exhaust(p, j)
    <3>1. attempts[p.effect][j] >= MaxAttempts
      BY <1>3, <2>1 DEF Exhaust, IInv, AttemptsAreThere
    <3>2. attempts[p.effect][j] > 0
      BY <1>2, <1>4, <3>1, ConstantsOk DEF IInv, TypeOK
    <3>3. results[p.effect][j] # {} /\ results' = results
      BY <1>2, <1>4, <2>1, <3>2 DEF AttemptsAreTold, Exhaust
    <3> QED BY <2>1, <3>3 DEF Exhaust
  <2>2. CASE Read(p, j)
    <3>1. PICK saw : passes' = (passes \ {p}) \union
                       {[p EXCEPT !.prior = attempts[p.effect][j], !.saw = saw]}
      BY <2>2 DEF Read
    <3> DEFINE d == [p EXCEPT !.prior = attempts[p.effect][j], !.saw = saw]
    <3>2. d.effect = p.effect /\ d.todo = p.todo
      BY <1>2 DEF Pass
    <3> QED BY <3>1, <3>2
  <2>3. CASE Record(p, j)
    <3>1. PICK res, receipt : WriteOutcome(p.effect, j, res, receipt)
      BY <2>3 DEF Record
    <3>2. results'[p.effect][j] # {}
      BY <1>2, <1>4, <3>1 DEF WriteOutcome, IInv, TypeOK
    <3> DEFINE d == [p EXCEPT !.saw = "SPENT"]
    <3>3. d.effect = p.effect /\ d.todo = p.todo
      BY <1>2 DEF Pass
    <3>4. Advance(p, j) \/ passes' = (passes \ {p}) \union {d}
      BY <2>3 DEF Record
    <3> QED BY <3>2, <3>3, <3>4
  <2> QED BY <1>3, <2>1, <2>2, <2>3
<1>6. k \in 1 .. ordinal[e]
  BY ConstantsOk, Counts DEF Unanswered, IInv, Ordinals
<1>7. InHand(e, k)
  BY <1>6 DEF NothingForgotten, Unanswered
<1>8. ASSUME p.effect = e, k \in p.todo
      PROVE  \E d \in passes' : d.effect = e /\ k \in d.todo
  <2>1. CASE Advance(p, j) /\ results'[p.effect][j] # {}
    <3> DEFINE rest == p.todo \ {j}
               d == [p EXCEPT !.todo = rest, !.prior = 0, !.saw = "NOTHING"]
    <3>1. k \in rest
      BY <1>8, <2>1 DEF Unanswered
    <3>2. d \in passes'
      BY <2>1, <3>1 DEF Advance
    <3>3. d.effect = p.effect /\ d.todo = rest
      BY <1>2 DEF Pass
    <3> HIDE DEF d, rest
    <3> QED BY <1>8, <3>1, <3>2, <3>3
  <2>2. CASE \E d : passes' = (passes \ {p}) \union {d} /\ d.effect = p.effect /\ d.todo = p.todo
    BY <1>8, <2>2
  <2> QED BY <1>5, <2>1, <2>2
<1>9. ASSUME NEW x \in passes, x # p PROVE x \in passes'
  BY <1>5, <1>9 DEF Advance
<1> QED BY <1>1, <1>7, <1>8, <1>9 DEF InHand

(* A crash forgets calls and passes, and lists every admission; the scan     *)
(* hands each that is open to a pass.                                        *)
LEMMA RestartHolds ==
  ASSUME KnownInv, Crash \/ ScanStep,
         NEW e \in Effects, NEW k \in Ordinals, Unanswered(e, k)
  PROVE  InHand(e, k)'
<1> USE DEF KnownInv
<1>1. k \in 1 .. ordinal[e] /\ ordinal[e] \in Nat /\ k \in Nat
  BY ConstantsOk, Counts DEF Unanswered, IInv, Ordinals
<1>2. InHand(e, k)
  BY <1>1 DEF NothingForgotten, Unanswered
<1>3. CASE Crash
  <2>1. PICK a \in admissions : a.effect = e /\ a.ord = k
    BY <1>1 DEF AdmissionsAreThere
  <2>2. <<e, k>> \in scan' /\ svc' = "scan"
    BY <1>3, <2>1 DEF Crash
  <2> QED BY <2>2 DEF InHand
<1>4. CASE ScanDone
  BY <1>2, <1>4 DEF InHand, ScanDone
<1>5. ASSUME NEW q \in scan, ScanNext(q) PROVE InHand(e, k)'
  <2>1. passes = {} /\ calls' = calls /\ svc' = svc /\ scan' = scan \ {q}
    BY <1>5 DEF ScanNext
  <2>2. CASE q = <<e, k>>
    <3>1. ~Conclusive(e, k) /\ k \in OpenOrdinals(e)
      BY <1>1 DEF Conclusive, OpenOrdinals, Unanswered
    <3>2. NewPass(Boot, e) \in passes'
      BY <1>5, <2>2, <3>1 DEF ScanNext
    <3>3. NewPass(Boot, e).effect = e /\ k \in NewPass(Boot, e).todo
      BY <3>1 DEF NewPass
    <3> QED BY <3>2, <3>3 DEF InHand
  <2>3. CASE q # <<e, k>>
    BY <1>2, <2>1, <2>3 DEF InHand
  <2> QED BY <2>2, <2>3
<1> QED BY <1>3, <1>4, <1>5 DEF ScanStep

LEMMA HandsNext ==
  ASSUME KnownInv, [Next]_vars,
         NEW e \in Effects, NEW k \in Ordinals, Unanswered(e, k)', Unanswered(e, k)
  PROVE  InHand(e, k)'
<1>1. CASE \/ Activate \/ UNCHANGED vars
           \/ \E f \in Effects, h \in Humans \union {NoHuman}, policy \in 1 .. MaxPolicy :
                Evaluate(f, h, policy)
           \/ \E i \in open : Release(i)
           \/ \E q \in wire : Drop(q)
           \/ \E f \in Effects : LosePrecondition(f) \/ Match(f) \/ Occupy(f)
           \/ \E d \in decisions : Acquire(d)
  <2>1. UNCHANGED <<svc, scan, passes>> /\ calls \subseteq calls'
    BY <1>1 DEF Activate, Evaluate, Release, Drop, LosePrecondition, Match, Occupy, Acquire,
       vars, memoryVars
  <2> QED BY <2>1, CallsHold
<1>2. CASE \E r \in Passes, f \in Effects : StartPass(r, f)
  <2>1. UNCHANGED <<svc, scan, calls>> /\ passes \subseteq passes'
    BY <1>2 DEF StartPass
  <2>2. k \in 1 .. ordinal[e]
    BY ConstantsOk, Counts DEF Unanswered, KnownInv, IInv, Ordinals
  <2> QED BY <2>1, <2>2 DEF KnownInv, NothingForgotten, Unanswered, InHand
<1>3. ASSUME NEW c \in calls, CallStep(c) PROVE InHand(e, k)'
  BY <1>3, CallHolds
<1>4. ASSUME NEW q \in wire, Land(q) \/ FindTaken(q) \/ Reject(q) PROVE InHand(e, k)'
  BY <1>4, AnswerHolds
<1>5. ASSUME NEW p \in passes, PassStep(p) PROVE InHand(e, k)'
  BY <1>5, PassHolds
<1>6. CASE Crash \/ ScanStep
  BY <1>6, RestartHolds
<1> QED BY <1>1, <1>2, <1>3, <1>4, <1>5, <1>6 DEF Next

(* A new ordinal has its row, and its call.                                  *)
LEMMA AdmitHolds ==
  ASSUME KnownInv, NEW c \in calls, Admit(c), NEW e \in Effects, NEW k \in 1 .. ordinal'[e]
  PROVE  /\ \E a \in admissions' : a.effect = e /\ a.ord = k
         /\ k > ordinal[e] => InHand(e, k)'
<1> USE DEF KnownInv
<1> DEFINE f == c.decision.effect
           new == [c EXCEPT !.phase = "admitted", !.ord = ordinal[f] + 1]
           row == [effect |-> f, ord |-> ordinal[f] + 1, policy |-> c.decision.policy,
                   human |-> c.decision.human, activeAt |-> active]
<1>1. c \in Call /\ f \in Effects /\ ordinal[f] \in Nat /\ ordinal[e] \in Nat
  BY CallFields, Counts DEF IInv
<1>2. /\ admissions' = admissions \union {row}
      /\ ordinal' = [ordinal EXCEPT ![f] = ordinal[f] + 1]
      /\ calls' = (calls \ {c}) \union {new}
  BY DEF Admit
<1>3. ordinal'[e] = IF e = f THEN ordinal[e] + 1 ELSE ordinal[e]
  BY <1>1, <1>2 DEF IInv, TypeOK
<1>4. new.phase = "admitted" /\ new.decision = c.decision /\ new.ord = ordinal[f] + 1
  BY <1>1 DEF Call
<1>5. row.effect = f /\ row.ord = ordinal[f] + 1
  OBVIOUS
<1> HIDE DEF new, row
<1>6. CASE k \in 1 .. ordinal[e]
  BY <1>1, <1>2, <1>6 DEF AdmissionsAreThere
<1>7. CASE k \notin 1 .. ordinal[e]
  <2>1. e = f /\ k = ordinal[f] + 1
    BY <1>1, <1>3, <1>7
  <2> QED BY <1>2, <1>4, <1>5, <2>1 DEF InHand
<1> QED BY <1>1, <1>6, <1>7

LEMMA KnownNext == KnownInv /\ [Next]_vars => KnownInv'
<1> SUFFICES ASSUME KnownInv, [Next]_vars PROVE KnownInv'
  OBVIOUS
<1>1. IInv /\ IInv'
  BY InvNext DEF KnownInv
<1>2. \A f \in Effects, j \in Ordinals : results[f][j] \subseteq results'[f][j]
  BY <1>1, LedgerGrows
<1>3. ASSUME UNCHANGED <<admissions, ordinal>> PROVE AdmissionsAreThere' /\ NothingForgotten'
  <2>1. AdmissionsAreThere'
    BY <1>3 DEF KnownInv, AdmissionsAreThere
  <2>2. ASSUME NEW e \in Effects, NEW k \in 1 .. ordinal'[e], results'[e][k] = {}
        PROVE  InHand(e, k)'
    <3>1. ordinal'[e] \in Nat /\ ordinal'[e] <= MaxOrdinal /\ ordinal' = ordinal
      BY <1>1, <1>3, Counts DEF IInv
    <3>2. k \in Ordinals /\ k <= ordinal[e]
      BY <3>1, ConstantsOk DEF Ordinals
    <3>3. Unanswered(e, k) /\ Unanswered(e, k)'
      BY <1>2, <2>2, <3>1, <3>2 DEF Unanswered
    <3> QED BY <3>2, <3>3, HandsNext
  <2> QED BY <2>1, <2>2 DEF NothingForgotten
<1>4. ASSUME NEW c \in calls, Admit(c) PROVE AdmissionsAreThere' /\ NothingForgotten'
  <2>1. ASSUME NEW e \in Effects, NEW k \in 1 .. ordinal'[e], results'[e][k] = {}
        PROVE  InHand(e, k)'
    <3>1. /\ ordinal[e] \in Nat /\ ordinal'[e] \in Nat /\ ordinal'[e] <= MaxOrdinal
      BY <1>1, <1>4, TypeNext DEF IInv, TypeOK
    <3>2. k \in Ordinals /\ k <= ordinal'[e]
      BY <3>1, ConstantsOk DEF Ordinals
    <3>3. CASE k <= ordinal[e]
      <4>1. Unanswered(e, k) /\ Unanswered(e, k)'
        BY <1>2, <2>1, <3>2, <3>3 DEF Unanswered
      <4> QED BY <3>2, <4>1, HandsNext
    <3>4. CASE k > ordinal[e]
      BY <1>4, <3>4, AdmitHolds
    <3> QED BY <3>1, <3>3, <3>4
  <2> QED BY <1>4, <2>1, AdmitHolds DEF NothingForgotten, AdmissionsAreThere
<1>5. AttemptsAreTold'
  <2>1. CASE attempts' = attempts
    BY <1>2, <2>1 DEF KnownInv, AttemptsAreTold
  <2>2. ASSUME NEW p \in passes, NEW k \in Heads(p), Record(p, k), attempts' # attempts
        PROVE  AttemptsAreTold'
    <3>1. p.effect \in Effects /\ k \in Ordinals
      BY <1>1, PassFields DEF IInv, Heads
    <3>2. /\ attempts' = [attempts EXCEPT ![p.effect][k] = @ + 1]
          /\ results' = [results EXCEPT ![p.effect][k] = @ \union {"UNKNOWN"}]
      BY <2>2 DEF Record, WriteOutcome
    <3> QED BY <1>1, <1>2, <3>1, <3>2 DEF KnownInv, AttemptsAreTold, IInv, TypeOK
  <2> QED BY <2>1, <2>2 DEF Next, CallStep, PassStep, ScanStep, Activate, Crash, Evaluate,
        Release, Acquire, Refuse, Admit, Send, GiveUp, ObserveAccepted, ObserveRejected, Land,
        FindTaken, Reject, Drop, LosePrecondition, Match, Occupy, StartPass, Exhaust, Read,
        ScanNext, ScanDone, vars, storeVars
<1>6. AdmissionsAreThere' /\ NothingForgotten'
  BY <1>1, <1>3, <1>4, OnlyAdmitAdmits
<1> QED BY <1>1, <1>5, <1>6 DEF KnownInv

(* Whatever crashes, is lost or is recorded by whom: an admission without an *)
(* outcome is in the hands of its call, of the restart scan or of a pass     *)
(* (#dispatchAndObserve, reconcileOpenAdmissions and reconcileEffect).       *)
THEOREM NothingIsForgotten == Spec => []NothingForgotten
<1>1. Init => KnownInv
  <2>1. Init => IInv
    BY InvInit
  <2> QED BY <2>1 DEF Init, KnownInv, NothingForgotten, AdmissionsAreThere, AttemptsAreTold
<1>2. KnownInv => NothingForgotten
  BY DEF KnownInv
<1> QED BY <1>1, <1>2, KnownNext, PTL DEF Spec
=============================================================================
