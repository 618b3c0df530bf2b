------------------------- MODULE Deployment_proofs -------------------------
(***************************************************************************)
(* What holds of Deployment for all effects, components and bounds.        *)
(***************************************************************************)
EXTENDS Deployment, FiniteSetTheorems, FunctionTheorems, TLAPS

(* What a call that has stopped a component is about to start.              *)
ReplacesOne ==
  call # NoCall =>
    /\ call.phase \in {"stopped", "started"} => call.part \in Components
    /\ call.phase = "started" => call.pid \in 1 .. MaxPid

(* The scan visits and a pass writes under admissions that there are, and   *)
(* nothing is known of one that there is not.                               *)
OnlyAdmitted ==
  /\ \A e \in scan : ordinal[e] > 0
  /\ \A r \in passes : r.ord <= ordinal[r.effect]
  /\ \A e \in Effects, k \in Ordinals : k > ordinal[e] => results[e][k] = {}

(* From the admission to the outcome row the admission has no NO_EFFECT     *)
(* row, and until the whole set was compared it has touched nothing.        *)
InFlight ==
  call # NoCall /\ call.phase \notin {"reading", "pinned"} =>
    LET k == ordinal[call.effect] IN
    /\ k > 0
    /\ "NO_EFFECT_CONFIRMED" \notin results[call.effect][k]
    /\ call.phase \in {"admitted", "rejected"} => <<call.effect, k>> \notin touched

(* What has touched a component is the last admission of its effect.        *)
TouchedIsLast == \A e \in Effects, k \in Ordinals : <<e, k>> \in touched => k = ordinal[e]

(* The failure that was found after a component was touched is not          *)
(* forgotten.                                                               *)
BrokenIsFailed ==
  \A e \in broken : e \in failed /\ \E k \in Ordinals : <<e, k>> \in touched

IInv ==
  /\ TypeOK
  /\ ReplacesOne
  /\ OnlyAdmitted
  /\ InFlight
  /\ NoEffectIsUntouched
  /\ TouchedIsLast
  /\ BrokenIsFailed

-----------------------------------------------------------------------------
(* Data                                                                     *)

LEMMA Bounds ==
  /\ MaxOrdinal \in Nat \ {0} /\ MaxAttempts \in Nat \ {0}
  /\ MaxPid \in Nat /\ MaxCrashes \in Nat
  /\ Ordinals \subseteq Nat \ {0}
  BY ConstantsOk DEF Ordinals

LEMMA CallFields ==
  ASSUME TypeOK, call # NoCall
  PROVE  /\ call \in Call
         /\ call.effect \in Effects /\ call.phase \in Phase
         /\ call.todo \subseteq Components /\ call.part \in Components \union {Nobody}
         /\ call.pid \in 0 .. MaxPid
  BY DEF TypeOK, Call

(* A call that only goes on to another phase is still a call.               *)
LEMMA BecomeType ==
  ASSUME TypeOK, call # NoCall, NEW p \in Phase, Become(p)
  PROVE  /\ call' \in Call
         /\ call'.effect = call.effect /\ call'.phase = p
         /\ call'.part = call.part /\ call'.pid = call.pid /\ call'.todo = call.todo
  BY CallFields DEF Become, Call

LEMMA PassFields ==
  ASSUME TypeOK, NEW r \in passes
  PROVE  r.id \in PassIds /\ r.effect \in Effects /\ r.ord \in Ordinals /\ r.prior \in Nat
  BY DEF TypeOK, Pass

LEMMA AttestFields ==
  ASSUME TypeOK, NEW a \in attests
  PROVE  /\ a \in Attest
         /\ a.owner \in PassIds \union {Nobody} /\ a.effect \in Effects \union {Nobody}
  BY DEF TypeOK, Attest

(* The components start under different pids.                               *)
LEMMA FirstPidType == FirstPid \in [Components -> 1 .. MaxPid]
  <1> DEFINE n == Cardinality(Components)
  <1>1. n \in Nat /\ n <= MaxPid /\ MaxPid \in Nat
    BY FS_CardinalityType, ConstantsOk
  <1>2. PICK f \in [Components -> 1 .. n] : \A c, d \in Components : f[c] = f[d] => c = d
    <2>1. ExistsBijection(1 .. n, Components)  BY FS_CardinalityType, ConstantsOk
    <2>2. ExistsBijection(Components, 1 .. n)  BY <2>1, Fun_ExistsBijSymmetric
    <2>3. PICK f : f \in Bijection(Components, 1 .. n)  BY <2>2, Fun_ExistsBij
    <2>4. f \in [Components -> 1 .. n] /\ \A c, d \in Components : f[c] = f[d] => c = d
      BY <2>3, Fun_BijectionProperties
    <2> HIDE DEF n
    <2> QED  BY <2>4
  <1>3. FirstPid \in [Components -> 1 .. n]  BY <1>2 DEF FirstPid
  <1> QED  BY <1>1, <1>3

-----------------------------------------------------------------------------
(* Types                                                                    *)

LEMMA TypeInit == Init => TypeOK
  <1> SUFFICES ASSUME Init PROVE TypeOK  OBVIOUS
  <1> USE Bounds DEF Init
  <1>1. /\ ordinal \in [Effects -> 0 .. MaxOrdinal]
        /\ results \in [Effects -> [Ordinals -> SUBSET Results]]
        /\ attempts \in [Effects -> [Ordinals -> Nat]]
    OBVIOUS
  <1>2. reach \in Envelope /\ immutable \in Envelope  BY DEF Envelope
  <1>3. pidfile \in [Components -> 1 .. MaxPid]  BY FirstPidType
  <1>4. procs \subseteq Process  BY <1>3, ConstantsOk DEF Process
  <1>5. spawned \in 0 .. MaxPid  BY FS_CardinalityType, ConstantsOk
  <1>6. head \in Shas /\ crashes \in 0 .. MaxCrashes  BY ConstantsOk
  <1> QED  BY <1>1, <1>2, <1>3, <1>4, <1>5, <1>6 DEF TypeOK

(* A process that starts runs what the checkout is at.                      *)
LEMMA StartType ==
  ASSUME TypeOK, spawned < MaxPid, NEW c \in Components,
         spawned' = spawned + 1,
         procs' = procs \union {[comp |-> c, pid |-> spawned', code |-> head]}
  PROVE  spawned' \in 0 .. MaxPid /\ spawned' \in 1 .. MaxPid /\ procs' \subseteq Process
  <1>1. spawned' \in 1 .. MaxPid  BY Bounds DEF TypeOK
  <1> QED  BY <1>1 DEF TypeOK, Process

LEMMA TypeHost ==
  ASSUME TypeOK, Environment PROVE TypeOK'
  <1>1. ASSUME NEW c \in Components, OperatorStarts(c) PROVE TypeOK'
    <2>1. spawned' \in 0 .. MaxPid /\ spawned' \in 1 .. MaxPid /\ procs' \subseteq Process
      BY <1>1, StartType DEF OperatorStarts
    <2>2. pidfile' \in [Components -> 1 .. MaxPid]  BY <1>1, <2>1 DEF OperatorStarts, TypeOK
    <2> QED
      BY <1>1, <2>1, <2>2 DEF OperatorStarts, TypeOK, storeVars, serviceVars, historyVars
  <1>2. ASSUME NEW s \in Shas, MoveCheckout(s) PROVE TypeOK'
    BY <1>2 DEF MoveCheckout, TypeOK, storeVars, serviceVars, historyVars
  <1>3. CASE RunAttest
    <2>1. [owner |-> Nobody, effect |-> Nobody, step |-> "reach"] \in Attest  BY DEF Attest
    <2> QED
      BY <1>3, <2>1 DEF RunAttest, TypeOK, storeVars, serviceVars, hostVars, historyVars
  <1> QED  BY <1>1, <1>2, <1>3 DEF Environment

(* A call that is where another phase leaves it, and nothing else.          *)
LEMMA TypeOnlyCall ==
  ASSUME TypeOK, call' \in Call \union {NoCall},
         UNCHANGED <<storeVars, svc, scan, passes, crashes, hostVars, attests, historyVars>>
  PROVE  TypeOK'
  BY DEF TypeOK, storeVars, hostVars, historyVars

LEMMA TypeDispatch ==
  ASSUME TypeOK, ReplacesOne, InFlight, Dispatch PROVE TypeOK' /\ ReplacesOne'
  <1> USE DEF In, Phase
  <1>1. CASE ReadCheckout
    <2>1. call' \in Call /\ call'.phase = "pinned"  BY <1>1, BecomeType DEF ReadCheckout
    <2> QED  BY <1>1, <2>1, TypeOnlyCall DEF ReadCheckout, ReplacesOne
  <1>2. CASE Refuse
    BY <1>2, TypeOnlyCall DEF Refuse, ReplacesOne
  <1>3. CASE Admit
    <2>1. call' \in Call /\ call'.phase = "admitted"  BY <1>3, BecomeType DEF Admit
    <2>2. call.effect \in Effects  BY <1>3, CallFields DEF Admit
    <2>3. ordinal' \in [Effects -> 0 .. MaxOrdinal]
      BY <1>3, <2>2, Bounds DEF Admit, TypeOK
    <2>4. reach' \in Envelope /\ immutable' \in Envelope
      BY <1>3, <2>2 DEF Admit, TypeOK, Older, Envelope
    <2> QED
      BY <1>3, <2>1, <2>3, <2>4 DEF Admit, TypeOK, ReplacesOne, hostVars, historyVars
  <1>4. CASE Compare
    <2>1. call' \in Call /\ call'.phase \in {"replacing", "rejected"}
      BY <1>4, BecomeType DEF Compare
    <2> QED  BY <1>4, <2>1, TypeOnlyCall DEF Compare, ReplacesOne
  <1>5. CASE Throws
    <2>1. call' \in Call /\ call'.phase = "ambiguous"  BY <1>5, BecomeType DEF Throws
    <2> QED  BY <1>5, <2>1, TypeOnlyCall DEF Throws, ReplacesOne
  <1>6. CASE Spawn
    <2>1. call.part \in Components  BY <1>6 DEF Spawn, ReplacesOne
    <2>2. spawned' \in 0 .. MaxPid /\ spawned' \in 1 .. MaxPid /\ procs' \subseteq Process
      BY <1>6, <2>1, StartType DEF Spawn
    <2>3. /\ call' \in Call /\ call'.phase = "started"
          /\ call'.pid = spawned' /\ call'.part = call.part
      BY <1>6, <2>2, CallFields DEF Spawn, Call
    <2> QED
      BY <1>6, <2>1, <2>2, <2>3 DEF Spawn, TypeOK, ReplacesOne, storeVars, historyVars
  <1>7. CASE WritePid
    <2>1. call' \in Call /\ call'.phase \in {"ambiguous", "replacing"}
      BY <1>7, BecomeType DEF WritePid
    <2>2. pidfile' \in [Components -> 1 .. MaxPid]  BY <1>7 DEF WritePid, TypeOK, ReplacesOne
    <2> QED  BY <1>7, <2>1, <2>2 DEF WritePid, TypeOK, ReplacesOne, storeVars, historyVars
  <1>8. CASE Conclude
    <2>1. call.effect \in Effects  BY <1>8, CallFields DEF Conclude
    <2>2. PICK result \in Results :
            results' = [results EXCEPT ![call.effect][ordinal[call.effect]] = @ \union {result}]
      BY <1>8 DEF Conclude, Results
    <2>3. results' \in [Effects -> [Ordinals -> SUBSET Results]]  BY <2>1, <2>2 DEF TypeOK
    <2> QED  BY <1>8, <2>3 DEF Conclude, TypeOK, ReplacesOne, hostVars, historyVars
  <1>9. ASSUME NEW c \in Components, Stop(c) PROVE TypeOK' /\ ReplacesOne'
    <2>1. /\ call.effect \in Effects
          /\ call' \in Call /\ call'.phase = "stopped" /\ call'.part = c
      BY <1>9, CallFields DEF Stop, Call
    <2>2. procs' \subseteq Process  BY <1>9 DEF Stop, WithoutNamed, TypeOK
    <2>3. ordinal[call.effect] \in Ordinals
      BY <1>9, <2>1, Bounds DEF Stop, InFlight, TypeOK, Ordinals
    <2>4. touched' \subseteq Effects \X Ordinals  BY <1>9, <2>1, <2>3 DEF Stop, TypeOK
    <2> QED  BY <1>9, <2>1, <2>2, <2>4 DEF Stop, TypeOK, ReplacesOne, storeVars
  <1> QED
    BY <1>1, <1>2, <1>3, <1>4, <1>5, <1>6, <1>7, <1>8, <1>9 DEF Dispatch

(* What a pass that begins puts into its variables.                         *)
LEMMA PursueType ==
  ASSUME TypeOK, NEW p \in PassIds, NEW e \in Effects, ordinal[e] > 0, Pursue(p, e)
  PROVE  exhausted' \subseteq Effects /\ passes' \subseteq Pass /\ attests' \subseteq Attest
  <1>1. ordinal[e] \in Ordinals  BY Bounds DEF TypeOK, Ordinals
  <1>2. [id |-> p, effect |-> e, ord |-> ordinal[e], prior |-> attempts[e][ordinal[e]]] \in Pass
    BY <1>1 DEF TypeOK, Pass
  <1>3. [owner |-> p, effect |-> e, step |-> "reach"] \in Attest  BY DEF Attest
  <1> QED  BY <1>2, <1>3 DEF Pursue, TypeOK

LEMMA GoOnType ==
  ASSUME TypeOK, NEW a \in attests, NEW step \in {"reach", "immutable", "done", "failed"},
         GoOn(a, step)
  PROVE  attests' \subseteq Attest
  <1>1. [a EXCEPT !.step = step] \in Attest  BY AttestFields DEF Attest
  <1> QED  BY <1>1 DEF GoOn, TypeOK

LEMMA TypeAttest ==
  ASSUME TypeOK, NEW a \in attests, Sealing(a) \/ AttestFails(a) PROVE TypeOK'
  <1> USE AttestFields
  <1>1. ASSUME NEW ok \in BOOLEAN, SealReach(a, ok) PROVE TypeOK'
    <2>1. attests' \subseteq Attest  BY <1>1, GoOnType DEF SealReach
    <2>2. reach' \in Envelope  BY <1>1 DEF SealReach, Envelope
    <2>3. failed' \subseteq Effects /\ broken' \subseteq Effects  BY <1>1 DEF SealReach, TypeOK
    <2> QED  BY <1>1, <2>1, <2>2, <2>3 DEF SealReach, TypeOK, serviceVars, hostVars
  <1>2. ASSUME NEW ok \in BOOLEAN, SealImmutable(a, ok) PROVE TypeOK'
    <2>1. attests' \subseteq Attest  BY <1>2, GoOnType DEF SealImmutable
    <2>2. immutable' \in Envelope  BY <1>2 DEF SealImmutable, Envelope
    <2> QED
      BY <1>2, <2>1, <2>2 DEF SealImmutable, TypeOK, serviceVars, hostVars, historyVars
  <1>3. CASE AttestFails(a)
    <2>1. attests' \subseteq Attest  BY <1>3, GoOnType DEF AttestFails
    <2> QED
      BY <1>3, <2>1 DEF AttestFails, TypeOK, storeVars, serviceVars, hostVars, historyVars
  <1> QED  BY <1>1, <1>2, <1>3 DEF Sealing

LEMMA TypeConclusion ==
  ASSUME TypeOK, NEW r \in passes, Conclusion(r) PROVE TypeOK'
  <1> USE PassFields
  <1>1. ASSUME NEW a \in attests, Judge(r, a) PROVE TypeOK'
    <2>1. results' \in [Effects -> [Ordinals -> SUBSET Results]]
      BY <1>1 DEF Judge, TypeOK, Results
    <2>2. attempts' \in [Effects -> [Ordinals -> Nat]]  BY <1>1 DEF Judge, TypeOK
    <2>3. exhausted' \subseteq Effects /\ passes' \subseteq Pass /\ attests' \subseteq Attest
      BY <1>1 DEF Judge, TypeOK
    <2> QED  BY <1>1, <2>1, <2>2, <2>3 DEF Judge, TypeOK, hostVars, historyVars
  <1>2. ASSUME NEW a \in attests, JudgeThrows(r, a) PROVE TypeOK'
    BY <1>2 DEF JudgeThrows, TypeOK, storeVars, hostVars, historyVars
  <1> QED  BY <1>1, <1>2 DEF Conclusion

LEMMA TypeService ==
  ASSUME TypeOK,
         \/ \E e \in Effects : Begin(e)
         \/ ScanDone
         \/ Crash
  PROVE  TypeOK'
  <1>1. ASSUME NEW e \in Effects, Begin(e) PROVE TypeOK'
    <2>1. Parts[e] \subseteq Components  BY ConstantsOk
    <2>2. call' \in Call  BY <1>1, <2>1, Bounds DEF Begin, Call, Phase
    <2> QED  BY <1>1, <2>2, TypeOnlyCall DEF Begin
  <1>2. CASE ScanDone
    BY <1>2 DEF ScanDone, TypeOK, storeVars, hostVars, historyVars
  <1>3. CASE Crash
    <2>1. attests' \subseteq Attest
      <3>1. \A a \in attests : [a EXCEPT !.owner = Nobody] \in Attest  BY AttestFields DEF Attest
      <3> QED  BY <1>3, <3>1 DEF Crash
    <2>2. crashes' \in 0 .. MaxCrashes  BY <1>3, Bounds DEF Crash, TypeOK
    <2> QED  BY <1>3, <2>1, <2>2 DEF Crash, TypeOK, storeVars, hostVars, historyVars
  <1> QED  BY <1>1, <1>2, <1>3

-----------------------------------------------------------------------------
(* The invariant                                                            *)

LEMMA InvInit == Init => IInv
  <1> SUFFICES ASSUME Init PROVE IInv  OBVIOUS
  <1>1. TypeOK  BY TypeInit
  <1>2. ReplacesOne /\ InFlight /\ BrokenIsFailed /\ TouchedIsLast /\ NoEffectIsUntouched
    BY DEF Init, ReplacesOne, InFlight, BrokenIsFailed, TouchedIsLast, NoEffectIsUntouched
  <1>3. OnlyAdmitted  BY Bounds DEF Init, OnlyAdmitted
  <1> QED  BY <1>1, <1>2, <1>3 DEF IInv

(* A step that touches neither the ledger nor a component: what is left to  *)
(* show is what the call and the passes have become.                        *)
LEMMA InvQuiet ==
  ASSUME IInv, TypeOK', ReplacesOne',
         UNCHANGED <<ordinal, results, touched>>,
         scan' \subseteq scan \union {e \in Effects : Open(e)},
         \A r \in passes' : r \in passes \/ r.ord <= ordinal[r.effect],
         call' # NoCall =>
           \/ call' = call
           \/ call'.phase \in {"reading", "pinned"}
           \/ /\ call # NoCall
              /\ call.phase \notin {"reading", "pinned"}
              /\ call'.effect = call.effect
              /\ call'.phase \in {"admitted", "rejected"} => call.phase = "admitted",
         failed \subseteq failed',
         \A e \in broken' : e \in broken \/ (e \in failed' /\ \E k \in Ordinals : <<e, k>> \in touched)
  PROVE  IInv'
  <1> USE DEF IInv
  <1>1. OnlyAdmitted'  BY DEF OnlyAdmitted, Open
  <1>2. InFlight'  BY DEF InFlight
  <1>3. NoEffectIsUntouched' /\ TouchedIsLast' /\ BrokenIsFailed'
    BY DEF NoEffectIsUntouched, TouchedIsLast, BrokenIsFailed
  <1> QED  BY <1>1, <1>2, <1>3

(* NO_EFFECT_CONFIRMED of the last admission is what lets it be followed by *)
(* another: nothing was touched for the effect, and no failure of it is     *)
(* forgotten (pep.ts, recheck #12).                                         *)
LEMMA InvAdmit == ASSUME IInv, Admit PROVE IInv'
  <1> USE Bounds
  <1> DEFINE e == call.effect
             k == ordinal[e]
  <1>1. TypeOK' /\ ReplacesOne'
    BY TypeDispatch DEF IInv, Dispatch
  <1>2. e \in Effects /\ k \in Nat /\ k < MaxOrdinal
    BY CallFields DEF IInv, Admit, In, TypeOK
  <1>3. /\ ordinal' = [ordinal EXCEPT ![e] = k + 1]
        /\ call'.effect = e /\ call'.phase = "admitted"
        /\ failed' = failed \ {e}
        /\ UNCHANGED <<results, touched, broken, passes>>
    BY <1>2, CallFields, BecomeType DEF IInv, Admit, In, historyVars, Phase
  <1>4. /\ ordinal'[e] = k + 1
        /\ \A f \in Effects : f # e => ordinal'[f] = ordinal[f]
    BY <1>2, <1>3 DEF IInv, TypeOK
  <1>5. \A j \in Ordinals : <<e, j>> \notin touched
    <2>1. SUFFICES ASSUME NEW j \in Ordinals, <<e, j>> \in touched PROVE FALSE  OBVIOUS
    <2>2. j = k  BY <1>2, <2>1 DEF IInv, TouchedIsLast
    <2>3. "NO_EFFECT_CONFIRMED" \in results[e][k]
      BY <2>2, <1>2 DEF Admit, NextOrdinalAllowed
    <2> QED  BY <2>1, <2>2, <2>3, <1>2 DEF IInv, NoEffectIsUntouched
  <1>6. k + 1 \in Ordinals  BY <1>2 DEF Ordinals
  <1>7. results[e][k + 1] = {}  BY <1>2, <1>6 DEF IInv, OnlyAdmitted
  <1>8. OnlyAdmitted'
    <2>1. ASSUME NEW r \in passes PROVE r.ord <= ordinal'[r.effect]
      <3>1. r.effect \in Effects /\ r.ord \in Nat
        BY PassFields DEF IInv
      <3>2. ordinal[r.effect] \in Nat /\ r.ord <= ordinal[r.effect]
        BY <3>1 DEF IInv, OnlyAdmitted, TypeOK
      <3>3. CASE r.effect = e  BY <1>4, <3>1, <3>2, <3>3
      <3>4. CASE r.effect # e  BY <1>4, <3>1, <3>2, <3>4
      <3> QED  BY <3>3, <3>4
    <2>2. \A f \in Effects, j \in Ordinals : j > ordinal'[f] => results'[f][j] = {}
      BY <1>2, <1>3, <1>4 DEF IInv, OnlyAdmitted, TypeOK
    <2>3. \A f \in scan' : ordinal'[f] > 0
      <3>1. scan' = scan /\ scan \subseteq Effects  BY DEF Admit, IInv, TypeOK
      <3> QED  BY <1>2, <1>4, <3>1 DEF IInv, OnlyAdmitted
    <2> QED  BY <1>3, <2>1, <2>2, <2>3 DEF OnlyAdmitted
  <1>9. InFlight'  BY <1>2, <1>3, <1>4, <1>5, <1>6, <1>7 DEF InFlight
  <1>10. NoEffectIsUntouched'  BY <1>3 DEF IInv, NoEffectIsUntouched
  <1>11. TouchedIsLast'  BY <1>3, <1>4, <1>5 DEF IInv, TouchedIsLast
  <1>12. BrokenIsFailed'  BY <1>3, <1>5 DEF IInv, BrokenIsFailed
  <1> QED  BY <1>1, <1>8, <1>9, <1>10, <1>11, <1>12 DEF IInv

(* The first component is stopped: the admission has no NO_EFFECT row, and  *)
(* it is the last one.                                                      *)
LEMMA InvStop == ASSUME IInv, NEW c \in Components, Stop(c) PROVE IInv'
  <1> DEFINE e == call.effect
             k == ordinal[e]
  <1>1. TypeOK' /\ ReplacesOne'
    BY TypeDispatch DEF IInv, Dispatch
  <1>2. /\ touched' = touched \union {<<e, k>>}
        /\ UNCHANGED <<ordinal, results, scan, passes, failed, broken>>
        /\ call # NoCall /\ call.phase = "replacing"
    BY DEF Stop, In, storeVars
  <1>3. call'.effect = e /\ call'.phase = "stopped"
    BY <1>2, CallFields DEF IInv, Stop, Call
  <1>4. k > 0 /\ "NO_EFFECT_CONFIRMED" \notin results[e][k]
    BY <1>2 DEF IInv, InFlight
  <1>5. OnlyAdmitted' /\ InFlight'  BY <1>2, <1>3, <1>4 DEF IInv, OnlyAdmitted, InFlight
  <1>6. NoEffectIsUntouched'  BY <1>2, <1>4 DEF IInv, NoEffectIsUntouched
  <1>7. TouchedIsLast'  BY <1>2 DEF IInv, TouchedIsLast
  <1>8. BrokenIsFailed'  BY <1>2 DEF IInv, BrokenIsFailed
  <1> QED  BY <1>1, <1>5, <1>6, <1>7, <1>8 DEF IInv

(* The outcome row: NO_EFFECT_CONFIRMED only of a rejection, which has      *)
(* touched nothing.                                                         *)
LEMMA InvConclude == ASSUME IInv, Conclude PROVE IInv'
  <1> DEFINE e == call.effect
             k == ordinal[e]
  <1>1. TypeOK' /\ ReplacesOne'
    BY TypeDispatch DEF IInv, Dispatch
  <1>2. PICK result \in Results :
          /\ results' = [results EXCEPT ![e][k] = @ \union {result}]
          /\ result = "NO_EFFECT_CONFIRMED" => call.phase = "rejected"
    BY DEF Conclude, Results
  <1>3. /\ call # NoCall /\ call.phase \in {"rejected", "ambiguous"} /\ call' = NoCall
        /\ UNCHANGED <<ordinal, touched, scan, passes, failed, broken>>
    BY DEF Conclude, In, historyVars
  <1>4. e \in Effects  BY <1>3, CallFields DEF IInv
  <1>5. /\ k > 0 /\ k \in Nat
        /\ result = "NO_EFFECT_CONFIRMED" => <<e, k>> \notin touched
    BY <1>2, <1>3, <1>4, Bounds DEF IInv, InFlight, TypeOK
  <1>6. \A f \in Effects, j \in Ordinals :
          \/ results'[f][j] = results[f][j]
          \/ f = e /\ j = k /\ results'[f][j] = results[f][j] \union {result}
    BY <1>2, <1>4 DEF IInv, TypeOK
  <1>7. OnlyAdmitted'
    BY <1>3, <1>4, <1>5, <1>6, Bounds DEF IInv, OnlyAdmitted, TypeOK
  <1>8. InFlight'  BY <1>3 DEF InFlight
  <1>9. NoEffectIsUntouched'  BY <1>3, <1>5, <1>6 DEF IInv, NoEffectIsUntouched
  <1>10. TouchedIsLast' /\ BrokenIsFailed'
    BY <1>3 DEF IInv, TouchedIsLast, BrokenIsFailed
  <1> QED  BY <1>1, <1>7, <1>8, <1>9, <1>10 DEF IInv

LEMMA InvDispatch == ASSUME IInv, Dispatch PROVE IInv'
  <1> USE DEF In, Phase
  <1>1. TypeOK' /\ ReplacesOne' /\ TypeOK
    BY TypeDispatch DEF IInv
  <1>2. CASE ReadCheckout
    <2>1. call'.phase = "pinned"  BY <1>1, <1>2, BecomeType DEF ReadCheckout
    <2> QED  BY <1>1, <1>2, <2>1, InvQuiet DEF ReadCheckout, storeVars, historyVars
  <1>3. CASE Refuse
    BY <1>1, <1>3, InvQuiet DEF Refuse, storeVars, historyVars
  <1>4. CASE Compare
    <2>1. /\ call'.phase \in {"replacing", "rejected"} /\ call'.effect = call.effect
          /\ call # NoCall /\ call.phase = "admitted"
      BY <1>1, <1>4, BecomeType DEF Compare
    <2> QED  BY <1>1, <1>4, <2>1, InvQuiet DEF Compare, storeVars, historyVars
  <1>5. CASE Throws
    <2>1. /\ call'.phase = "ambiguous" /\ call'.effect = call.effect
          /\ call # NoCall /\ call.phase \in {"admitted", "stopped"}
      BY <1>1, <1>5, BecomeType DEF Throws
    <2> QED  BY <1>1, <1>5, <2>1, InvQuiet DEF Throws, storeVars, historyVars
  <1>6. CASE Spawn
    <2>1. /\ call'.phase = "started" /\ call'.effect = call.effect
          /\ call # NoCall /\ call.phase = "stopped"
      BY <1>1, <1>6, CallFields DEF Spawn, Call
    <2> QED  BY <1>1, <1>6, <2>1, InvQuiet DEF Spawn, storeVars, historyVars
  <1>7. CASE WritePid
    <2>1. /\ call'.phase \in {"ambiguous", "replacing"} /\ call'.effect = call.effect
          /\ call # NoCall /\ call.phase = "started"
      BY <1>1, <1>7, BecomeType DEF WritePid
    <2> QED  BY <1>1, <1>7, <2>1, InvQuiet DEF WritePid, storeVars, historyVars
  <1> QED
    BY <1>2, <1>3, <1>4, <1>5, <1>6, <1>7, InvAdmit, InvStop, InvConclude DEF Dispatch

(* The service dies at any point of a dispatch: what was touched stays      *)
(* known, and the admission has no row of its own.                          *)
LEMMA InvService ==
  ASSUME IInv,
         \/ \E e \in Effects : Begin(e)
         \/ ScanDone
         \/ Crash
  PROVE  IInv'
  <1>1. TypeOK'  BY TypeService DEF IInv
  <1>2. ASSUME NEW e \in Effects, Begin(e) PROVE IInv'
    <2>1. call'.phase = "reading"  BY <1>2 DEF Begin
    <2> QED
      BY <1>1, <1>2, <2>1, InvQuiet DEF Begin, IInv, ReplacesOne, storeVars, historyVars
  <1>3. CASE ScanDone
    BY <1>1, <1>3, InvQuiet DEF ScanDone, IInv, ReplacesOne, storeVars, historyVars
  <1>4. CASE Crash
    BY <1>1, <1>4, InvQuiet DEF Crash, IInv, ReplacesOne, storeVars, historyVars
  <1> QED  BY <1>2, <1>3, <1>4

(* A visit of the scan, or a reconciliation that is asked for, is of an     *)
(* admission.                                                               *)
LEMMA InvPursue ==
  ASSUME IInv, NEW e \in Effects, ScanNext(e) \/ \E p \in Passes : Reconcile(p, e)
  PROVE  IInv'
  <1>1. ordinal[e] > 0
    BY DEF ScanNext, Reconcile, Open, IInv, OnlyAdmitted
  <1>2. PICK p \in PassIds : Pursue(p, e)
    BY DEF ScanNext, Reconcile, PassIds
  <1>3. exhausted' \subseteq Effects /\ passes' \subseteq Pass /\ attests' \subseteq Attest
    BY <1>1, <1>2, PursueType DEF IInv
  <1>4. /\ scan' \subseteq scan
        /\ UNCHANGED <<ordinal, results, attempts, reach, immutable, failed, svc, call,
                       crashes, head, pidfile, procs, spawned, touched, broken>>
    BY DEF ScanNext, Reconcile, hostVars, historyVars
  <1>5. TypeOK'  BY <1>3, <1>4 DEF IInv, TypeOK
  <1>6. ReplacesOne'  BY <1>4 DEF IInv, ReplacesOne
  <1>7. \A r \in passes' : r \in passes \/ r.ord <= ordinal[r.effect]
    <2>1. ordinal[e] <= ordinal[e]  BY DEF IInv, TypeOK
    <2> QED  BY <1>2, <2>1 DEF Pursue
  <1> QED  BY <1>4, <1>5, <1>6, <1>7, InvQuiet

LEMMA InvAttest ==
  ASSUME IInv, NEW a \in attests, Sealing(a) \/ AttestFails(a) PROVE IInv'
  <1>1. TypeOK'  BY TypeAttest DEF IInv
  <1>2. /\ UNCHANGED <<ordinal, results, touched, scan, passes, call>>
        /\ failed \subseteq failed'
    BY DEF Sealing, SealReach, SealImmutable, AttestFails, storeVars, serviceVars, historyVars
  <1>3. \A e \in broken' : \/ e \in broken
                           \/ e \in failed' /\ \E k \in Ordinals : <<e, k>> \in touched
    BY DEF Sealing, SealReach, SealImmutable, AttestFails, storeVars, serviceVars, historyVars
  <1>4. ReplacesOne'  BY <1>2 DEF IInv, ReplacesOne
  <1> QED  BY <1>1, <1>2, <1>3, <1>4, InvQuiet

(* The end of a pass never writes NO_EFFECT_CONFIRMED.                      *)
LEMMA InvConclusion == ASSUME IInv, NEW r \in passes, Conclusion(r) PROVE IInv'
  <1>1. TypeOK'  BY TypeConclusion DEF IInv
  <1>2. r.effect \in Effects /\ r.ord \in Ordinals /\ r.ord <= ordinal[r.effect]
    BY PassFields DEF IInv, OnlyAdmitted
  <1>3. /\ UNCHANGED <<ordinal, touched, broken, failed, scan, call>>
        /\ passes' \subseteq passes
    BY DEF Conclusion, Judge, JudgeThrows, storeVars, historyVars
  <1>4. ReplacesOne'  BY <1>3 DEF IInv, ReplacesOne
  <1>5. \A e \in Effects, k \in Ordinals :
          \/ results'[e][k] = results[e][k]
          \/ /\ e = r.effect /\ k = r.ord
             /\ "NO_EFFECT_CONFIRMED" \in results'[e][k] => "NO_EFFECT_CONFIRMED" \in results[e][k]
    <2>1. CASE results' = results  BY <2>1
    <2>2. ASSUME NEW a \in attests, Judge(r, a)
          PROVE  \E result \in {"COMMITTED", "UNKNOWN"} :
                   results' = [results EXCEPT ![r.effect][r.ord] = @ \union {result}]
      BY <2>2 DEF Judge
    <2>3. CASE \E result \in {"COMMITTED", "UNKNOWN"} :
                 results' = [results EXCEPT ![r.effect][r.ord] = @ \union {result}]
      BY <1>2, <2>3 DEF IInv, TypeOK
    <2> QED  BY <2>1, <2>2, <2>3 DEF Conclusion, JudgeThrows, storeVars
  <1>6. OnlyAdmitted'
    <2>1. \A e \in Effects, k \in Ordinals : k > ordinal'[e] => results'[e][k] = {}
      BY <1>2, <1>3, <1>5, Bounds DEF IInv, OnlyAdmitted, TypeOK
    <2> QED  BY <1>3, <2>1 DEF IInv, OnlyAdmitted
  <1>7. InFlight'
    <2> SUFFICES ASSUME call # NoCall, call.phase \notin {"reading", "pinned"}
                 PROVE  "NO_EFFECT_CONFIRMED" \notin results'[call.effect][ordinal[call.effect]]
      BY <1>3 DEF IInv, InFlight
    <2>1. call.effect \in Effects  BY CallFields DEF IInv
    <2>2. ordinal[call.effect] \in Ordinals  BY <2>1, Bounds DEF IInv, InFlight, TypeOK, Ordinals
    <2> QED  BY <1>5, <2>1, <2>2 DEF IInv, InFlight
  <1>8. NoEffectIsUntouched'  BY <1>3, <1>5 DEF IInv, NoEffectIsUntouched
  <1>9. TouchedIsLast' /\ BrokenIsFailed'  BY <1>3 DEF IInv, TouchedIsLast, BrokenIsFailed
  <1> QED  BY <1>1, <1>4, <1>6, <1>7, <1>8, <1>9 DEF IInv

LEMMA InvHost == ASSUME IInv, Environment PROVE IInv'
  <1>1. TypeOK'  BY TypeHost DEF IInv
  <1>2. UNCHANGED <<storeVars, serviceVars, historyVars>>
    BY DEF Environment, OperatorStarts, MoveCheckout, RunAttest
  <1>3. ReplacesOne'  BY <1>2 DEF IInv, ReplacesOne, serviceVars
  <1> QED  BY <1>1, <1>2, <1>3, InvQuiet DEF storeVars, serviceVars, historyVars

LEMMA InvNext == IInv /\ [Next]_vars => IInv'
  <1> SUFFICES ASSUME IInv, [Next]_vars PROVE IInv'  OBVIOUS
  <1>1. CASE UNCHANGED vars
    <2>1. UNCHANGED <<storeVars, serviceVars, hostVars, attests, historyVars>>
      BY <1>1 DEF vars
    <2> QED
      BY <2>1 DEF IInv, TypeOK, ReplacesOne, OnlyAdmitted, InFlight, NoEffectIsUntouched,
                  TouchedIsLast, BrokenIsFailed, storeVars, serviceVars, hostVars, historyVars
  <1> QED
    BY <1>1, InvService, InvPursue, InvDispatch, InvAttest, InvConclusion, InvHost DEF Next

-----------------------------------------------------------------------------
(* Theorems                                                                 *)

(* For all effects, components, bounds, crashes of the service and what     *)
(* goes on beside it on the host: the invariant on which the others rest.   *)
THEOREM Invariance == Spec => []IInv
  BY InvInit, InvNext, PTL DEF Spec

(* The variables have their types in every reachable state.                 *)
THEOREM TypeCorrect == Spec => []TypeOK
  <1>1. IInv => TypeOK  BY DEF IInv
  <1> QED  BY <1>1, Invariance, PTL

(* A dispatch with a NO_EFFECT_CONFIRMED row has stopped and started        *)
(* nothing (deploymentActuation.ts: only the comparison, which comes before *)
(* the first stop, is answered as a rejection).                             *)
THEOREM RejectionsAreUntouched == Spec => []NoEffectIsUntouched
  <1>1. IInv => NoEffectIsUntouched  BY DEF IInv
  <1> QED  BY <1>1, Invariance, PTL

(* Of all admissions of a DEPLOY at most one has touched a component: it is *)
(* the last, for it can have no NO_EFFECT row and without one no other is   *)
(* admitted (pep.ts, recheck #12).                                          *)
THEOREM ComponentsAreTouchedOnce == Spec => []TouchedOnce
  <1>1. IInv => TouchedOnce
    <2> SUFFICES ASSUME IInv, NEW e \in Effects, NEW j \in Ordinals, NEW k \in Ordinals,
                        <<e, j>> \in touched, <<e, k>> \in touched
                 PROVE  j = k
      BY DEF TouchedOnce
    <2> QED  BY DEF IInv, TouchedIsLast
  <1> QED  BY <1>1, Invariance, PTL

(* Once an envelope says that the boundary was broken after a DEPLOY had    *)
(* touched a component, no reconciliation commits that DEPLOY any more: the *)
(* failure counts until the next admission, and there is none (reconcile    *)
(* and attestationsSince of deploymentActuation.ts).                        *)
THEOREM FailuresAreFinal == Spec => FailureIsFinal
  <1> DEFINE Keeps(e, k) == "COMMITTED" \in results'[e][k] => "COMMITTED" \in results[e][k]
  <1>1. IInv /\ [Next]_vars => [\A e \in broken, k \in Ordinals : Keeps(e, k)]_results
    <2> SUFFICES ASSUME IInv, Next, results' # results, NEW e \in broken, NEW k \in Ordinals
                 PROVE  Keeps(e, k)
      BY DEF vars, storeVars
    <2>1. e \in Effects /\ e \in failed  BY DEF IInv, TypeOK, BrokenIsFailed
    <2>2. CASE Conclude
      <3>1. \E result \in {"NO_EFFECT_CONFIRMED", "UNKNOWN"} :
              results' = [results EXCEPT ![call.effect][ordinal[call.effect]] = @ \union {result}]
        BY <2>2 DEF Conclude
      <3> QED  BY <2>1, <3>1 DEF IInv, TypeOK
    <2>3. ASSUME NEW r \in passes, NEW a \in attests, Judge(r, a) PROVE Keeps(e, k)
      <3>1. CASE r.effect = e
        <4>1. results' = [results EXCEPT ![e][r.ord] = @ \union {"UNKNOWN"}]
          BY <2>1, <2>3, <3>1 DEF Judge, Attested
        <4> QED  BY <2>1, <4>1 DEF IInv, TypeOK
      <3>2. CASE r.effect # e
        BY <2>1, <2>3, <3>2 DEF Judge, IInv, TypeOK
      <3> QED  BY <3>1, <3>2
    <2>4. Conclude \/ \E r \in passes : \E a \in attests : Judge(r, a)
      BY DEF Next, Begin, ScanNext, Reconcile, Dispatch, ReadCheckout, Refuse, Admit, Compare,
             Throws, Spawn, WritePid, Stop, ScanDone, Sealing, SealReach, SealImmutable,
             AttestFails, Conclusion, JudgeThrows, Crash, Environment, OperatorStarts,
             MoveCheckout, RunAttest, storeVars
    <2> QED  BY <2>2, <2>3, <2>4
  <1> QED  BY <1>1, Invariance, PTL DEF Spec, FailureIsFinal
=============================================================================
