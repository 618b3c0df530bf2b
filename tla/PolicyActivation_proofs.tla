---------------------- MODULE PolicyActivation_proofs ----------------------
(* Proofs about PolicyActivation, for every value of its constants.         *)
EXTENDS PolicyActivation, SequenceTheorems, TLAPS

Rows == [content : Contents, by : Effects \union Documents \union {Boot}]

LEMMA ActiveIsContent ==
  ASSUME TypeOK, log # <<>>
  PROVE  Len(log) \in Nat \ {0} /\ Active \in Contents
<1>1. log \in Seq(Rows)
  BY DEF TypeOK, Rows
<1>2. Len(log) \in Nat \ {0}
  BY <1>1
<1>3. log[Len(log)] \in Rows
  BY <1>1, <1>2
<1> QED BY <1>2, <1>3 DEF Active, Rows

LEMMA InstallGrows ==
  ASSUME TypeOK, log # <<>>,
         NEW c \in Contents, NEW by \in Effects \union Documents \union {Boot},
         Install(c, by)
  PROVE  /\ log' \in Seq(Rows) /\ published' \subseteq Contents
         /\ Len(log') = Len(log) + 1
         /\ \A n \in 1 .. Len(log) : log'[n] = log[n]
         /\ log'[Len(log) + 1] = [content |-> c, by |-> by]
<1>1. log \in Seq(Rows) /\ [content |-> c, by |-> by] \in Rows
  BY DEF TypeOK, Rows
<1>2. log' = Append(log, [content |-> c, by |-> by])
  BY DEF Install
<1>3. Len(log) \in Nat
  BY <1>1
<1> QED BY <1>1, <1>2, <1>3 DEF Install, TypeOK

(* What was active stays in the log.                                        *)
LEMMA PastStays ==
  ASSUME TypeOK, log # <<>>, DecisionsArePast, EvalsArePast,
         NEW c \in Contents, NEW by \in Effects \union Documents \union {Boot},
         Install(c, by)
  PROVE  /\ decisions' = decisions => DecisionsArePast'
         /\ evals' = evals => EvalsArePast'
<1>1. \A n \in 1 .. Len(log) : n \in 1 .. Len(log') /\ log'[n] = log[n]
  <2>1. Len(log) \in Nat /\ Len(log') = Len(log) + 1
    BY InstallGrows, ActiveIsContent
  <2>2. \A n \in 1 .. Len(log) : n \in 1 .. Len(log')
    BY <2>1
  <2>3. \A n \in 1 .. Len(log) : log'[n] = log[n]
    BY InstallGrows
  <2> QED BY <2>2, <2>3
<1>2. ASSUME decisions' = decisions PROVE DecisionsArePast'
  <2> SUFFICES ASSUME NEW d \in decisions
               PROVE  \E n \in 1 .. Len(log') : log'[n].content = d.policy
    BY <1>2 DEF DecisionsArePast, WasActive
  <2>1. PICK n \in 1 .. Len(log) : log[n].content = d.policy
    BY DEF DecisionsArePast, WasActive
  <2> QED BY <1>1, <2>1
<1>3. ASSUME evals' = evals PROVE EvalsArePast'
  <2> SUFFICES ASSUME NEW v \in Evals, evals[v].pc \notin {"idle", "done"}
               PROVE  /\ evals[v].effect \in Effects
                      /\ \E n \in 1 .. Len(log') : log'[n].content = evals[v].policy
    BY <1>3 DEF EvalsArePast, WasActive
  <2>1. PICK n \in 1 .. Len(log) : log[n].content = evals[v].policy
    BY DEF EvalsArePast, WasActive
  <2> QED BY <1>1, <2>1 DEF EvalsArePast
<1> QED BY <1>2, <1>3

(* Whoever activates a bundle that does not conflict keeps the bundles       *)
(* resolvable, and the rows in the places where they were expected.          *)
LEMMA InstallKeeps ==
  ASSUME TypeOK, RowsAreExpected, ActiveResolves,
         NEW c \in Contents, NEW by \in Effects \union Documents,
         Install(c, by), ~Conflicts(c),
         by \in Effects => /\ Expects[by].seq = Len(log)
                           /\ c = Proposes[by]
                           /\ by \in admitted',
         by \in Documents => Base[by].seq = Len(log),
         admitted \subseteq admitted'
  PROVE  ActiveResolves' /\ RowsAreExpected'
<1>0. log # <<>> /\ Len(log) \in Nat \ {0}
  BY ActiveIsContent DEF RowsAreExpected
<1>1. /\ Len(log') = Len(log) + 1
      /\ \A n \in 1 .. Len(log) : log'[n] = log[n]
      /\ log'[Len(log) + 1] = [content |-> c, by |-> by]
  BY <1>0, InstallGrows
<1>2. \A n \in 1 .. Len(log') : n \in 1 .. Len(log) \/ n = Len(log) + 1
  BY <1>0, <1>1
<1>3. ActiveResolves'
  <2>1. published' = published \union {c}
    BY DEF Install
  <2>2. \A n \in 1 .. Len(log') : log'[n].content \in published'
    BY <1>1, <1>2, <2>1 DEF ActiveResolves
  <2>3. \A p, q \in published' : Ref[p] = Ref[q] => p = q
    BY <2>1 DEF ActiveResolves, Conflicts
  <2> QED BY <2>2, <2>3 DEF ActiveResolves
<1>4. RowsAreExpected'
  <2>1. by # Boot
    BY ConstantsOk
  <2>2. log' # <<>>
    BY <1>0, <1>1
  <2> SUFFICES ASSUME NEW n \in 1 .. Len(log')
               PROVE  /\ log'[n].by = Boot => n = 1
                      /\ log'[n].by \in Effects =>
                           /\ n = Expects[log'[n].by].seq + 1
                           /\ log'[n].content = Proposes[log'[n].by]
                           /\ log'[n].by \in admitted'
                      /\ log'[n].by \in Documents => n = Base[log'[n].by].seq + 1
    BY <2>2 DEF RowsAreExpected
  <2>3. CASE n \in 1 .. Len(log)
    BY <1>1, <2>3 DEF RowsAreExpected
  <2>4. CASE n = Len(log) + 1
    BY <1>1, <2>1, <2>4
  <2> QED BY <1>2, <2>3, <2>4
<1> QED BY <1>3, <1>4

(* A row for e, or none, and a result that is true of it: the outcomes stay  *)
(* true.                                                                     *)
LEMMA OutcomesKept ==
  ASSUME TypeOK, RowsAreExpected, OutcomesAreTrue,
         NEW c \in Contents, NEW by \in Effects \union Documents,
         Install(c, by),
         by \in Effects => Expects[by].seq = Len(log) /\ c = Proposes[by],
         \A f \in Effects : results'[f] # results[f] =>
           /\ f = by
           /\ results'[f] = results[f] \union {"COMMITTED"}
  PROVE  OutcomesAreTrue'
<1>0. log # <<>> /\ Len(log) \in Nat \ {0}
  BY ActiveIsContent DEF RowsAreExpected
<1>1. /\ Len(log') = Len(log) + 1
      /\ \A n \in 1 .. Len(log) : log'[n] = log[n]
      /\ log'[Len(log) + 1] = [content |-> c, by |-> by]
  BY <1>0, InstallGrows
<1> SUFFICES ASSUME NEW f \in Effects
             PROVE  /\ "COMMITTED" \in results'[f] =>
                         /\ Expects[f].seq < Len(log')
                         /\ log'[Expects[f].seq + 1].content = Proposes[f]
                    /\ "NO_EFFECT_CONFIRMED" \in results'[f] =>
                         /\ Expects[f].seq < Len(log')
                         /\ \A n \in 1 .. Len(log') : log'[n].by # f
                    /\ ~ {"COMMITTED", "NO_EFFECT_CONFIRMED"} \subseteq results'[f]
  BY DEF OutcomesAreTrue
<1>2. Expects[f].seq \in Nat
  BY ConstantsOk DEF Row
<1>3. CASE f = by
  <2>1. Expects[f].seq = Len(log) /\ c = Proposes[f]
    BY <1>3
  <2>2. "COMMITTED" \notin results[f] /\ "NO_EFFECT_CONFIRMED" \notin results[f]
    BY <2>1, <1>0 DEF OutcomesAreTrue
  <2>3. "NO_EFFECT_CONFIRMED" \notin results'[f]
    BY <2>2
  <2> QED BY <1>0, <1>1, <2>1, <2>3
<1>4. CASE f # by
  <2>1. results'[f] = results[f]
    BY <1>4
  <2>2. ~ {"COMMITTED", "NO_EFFECT_CONFIRMED"} \subseteq results'[f]
    BY <2>1 DEF OutcomesAreTrue
  <2>3. ASSUME "COMMITTED" \in results'[f]
        PROVE  /\ Expects[f].seq < Len(log')
               /\ log'[Expects[f].seq + 1].content = Proposes[f]
    <3>1. /\ Expects[f].seq < Len(log)
          /\ log[Expects[f].seq + 1].content = Proposes[f]
      BY <2>1, <2>3 DEF OutcomesAreTrue
    <3>2. Expects[f].seq + 1 \in 1 .. Len(log)
      BY <1>0, <1>2, <3>1
    <3> QED BY <1>0, <1>1, <1>2, <3>1, <3>2
  <2>4. ASSUME "NO_EFFECT_CONFIRMED" \in results'[f]
        PROVE  /\ Expects[f].seq < Len(log')
               /\ \A n \in 1 .. Len(log') : log'[n].by # f
    <3>1. /\ Expects[f].seq < Len(log)
          /\ \A n \in 1 .. Len(log) : log[n].by # f
      BY <2>1, <2>4 DEF OutcomesAreTrue
    <3>2. \A n \in 1 .. Len(log') : n \in 1 .. Len(log) \/ n = Len(log) + 1
      BY <1>0, <1>1
    <3>3. \A n \in 1 .. Len(log') : log'[n].by # f
      BY <1>1, <1>4, <3>1, <3>2
    <3> QED BY <1>0, <1>1, <1>2, <3>1, <3>3
  <2> QED BY <2>2, <2>3, <2>4
<1> QED BY <1>3, <1>4

-----------------------------------------------------------------------------
(* What depends on the store alone, and on the sidecar alone.               *)
StoreInv ==
  /\ DecisionsArePast
  /\ RowsAreExpected
  /\ ComputedByItsPolicy
  /\ OutcomesAreTrue
  /\ ActiveResolves

LEMMA StoreUnmoved ==
  ASSUME StoreInv, UNCHANGED storeVars
  PROVE  StoreInv'
<1>1. DecisionsArePast' /\ ComputedByItsPolicy'
  BY DEF StoreInv, storeVars, DecisionsArePast, WasActive, ComputedByItsPolicy
<1>2. RowsAreExpected'
  BY DEF StoreInv, storeVars, RowsAreExpected
<1>3. OutcomesAreTrue' /\ ActiveResolves'
  BY DEF StoreInv, storeVars, OutcomesAreTrue, ActiveResolves
<1> QED BY <1>1, <1>2, <1>3 DEF StoreInv

LEMMA InvInit == Init => IInv
<1> SUFFICES ASSUME Init PROVE IInv
  OBVIOUS
<1>0. /\ [content |-> Genesis, by |-> Boot] \in Rows
      /\ log = <<[content |-> Genesis, by |-> Boot]>>
  BY ConstantsOk DEF Init, Rows
<1>1. log \in Seq(Rows) /\ Len(log) = 1 /\ log[1] = [content |-> Genesis, by |-> Boot]
  BY <1>0
<1>2. Idle \in Eval
  BY DEF Idle, Eval
<1>3. TypeOK
  <2>1. Boot \in Pids
    BY DEF Pids
  <2> QED BY <1>1, <1>2, <2>1, ConstantsOk DEF Init, TypeOK, Rows
<1>4. DecisionsArePast /\ ComputedByItsPolicy
  BY DEF Init, DecisionsArePast, ComputedByItsPolicy
<1>5. EvalsArePast
  BY DEF Init, EvalsArePast, Idle
<1>6. RowsAreExpected
  <2>1. \A n \in 1 .. Len(log) : n = 1 /\ log[n].by = Boot
    BY <1>1
  <2>2. Boot \notin Effects \union Documents
    BY ConstantsOk
  <2>3. log # <<>>
    BY <1>0
  <2> QED BY <2>1, <2>2, <2>3 DEF RowsAreExpected
<1>7. OutcomesAreTrue
  BY DEF Init, OutcomesAreTrue
<1>8. ActiveResolves
  <2>1. \A n \in 1 .. Len(log) : log[n].content = Genesis
    BY <1>1
  <2> QED BY <2>1 DEF Init, ActiveResolves
<1>9. NoStraySidecar
  BY DEF Init, NoStraySidecar
<1> QED BY <1>3, <1>4, <1>5, <1>6, <1>7, <1>8, <1>9 DEF IInv

-----------------------------------------------------------------------------
(* The actions on the store.                                                *)

LEMMA InvExecuteRoot ==
  ASSUME IInv, NEW d \in Documents, ExecuteRoot(d)
  PROVE  IInv'
<1>1. /\ Decrees[d] \in Contents /\ Install(Decrees[d], d)
      /\ d \in Effects \union Documents /\ d \notin Effects
      /\ log # <<>>
  BY ConstantsOk DEF ExecuteRoot, IInv, RowsAreExpected
<1>2. Base[d].seq = Len(log)
  BY DEF ExecuteRoot, ActiveRow
<1>3. TypeOK'
  <2>1. log' \in Seq(Rows) /\ published' \subseteq Contents
    BY <1>1, InstallGrows DEF IInv
  <2>2. held' \subseteq held
    BY DEF ExecuteRoot
  <2>3. UNCHANGED <<decisions, admitted, results, evals, opaVars, crashes>>
    BY DEF ExecuteRoot
  <2> QED BY <2>1, <2>2, <2>3 DEF IInv, TypeOK, opaVars, Rows
<1>4. DecisionsArePast' /\ EvalsArePast'
  <2>1. decisions' = decisions /\ evals' = evals
    BY DEF ExecuteRoot
  <2> QED BY <1>1, <2>1, PastStays DEF IInv
<1>5. ActiveResolves' /\ RowsAreExpected'
  <2>1. admitted \subseteq admitted' /\ ~Conflicts(Decrees[d])
    BY DEF ExecuteRoot
  <2> QED BY <1>1, <1>2, <2>1, InstallKeeps DEF IInv
<1>6. OutcomesAreTrue'
  <2>1. results' = results
    BY DEF ExecuteRoot
  <2> QED BY <1>1, <2>1, OutcomesKept DEF IInv
<1>7. ComputedByItsPolicy' /\ NoStraySidecar'
  BY DEF IInv, ExecuteRoot, opaVars, ComputedByItsPolicy, NoStraySidecar
<1> QED BY <1>3, <1>4, <1>5, <1>6, <1>7 DEF IInv

LEMMA ForgetKeeps ==
  ASSUME TypeOK, crashes < MaxCrashes, Forget
  PROVE  /\ evals' \in [Evals -> Eval]
         /\ handle' = None /\ loaded' = None /\ heard' = {}
         /\ crashes' \in 0 .. MaxCrashes
         /\ UNCHANGED <<proc, serves, file, pidfile, sock>>
         /\ \A v \in Evals : evals'[v].pc \in {"idle", "done"}
<1>1. Idle \in Eval /\ [Idle EXCEPT !.pc = "done"] \in Eval
  BY DEF Idle, Eval
<1>2. evals' \in [Evals -> Eval]
  BY <1>1 DEF Forget
<1>3. \A v \in Evals : evals'[v].pc \in {"idle", "done"}
  BY DEF Forget, Idle
<1>4. crashes' \in 0 .. MaxCrashes
  BY ConstantsOk DEF TypeOK, Forget
<1> QED BY <1>2, <1>3, <1>4 DEF Forget

LEMMA InvAdmitAndDispatch ==
  ASSUME IInv, NEW d \in decisions,
         NEW end \in Result \union {"ADMISSION", "ACTIVATION"},
         end # "NO_EFFECT_CONFIRMED", AdmitAndDispatch(d, end)
  PROVE  IInv'
<1> DEFINE e == d.effect
<1>1. e \in Effects /\ Proposes[e] \in Contents /\ log # <<>> /\ d \in Decision
  BY ConstantsOk DEF IInv, TypeOK, Decision, RowsAreExpected
<1>2. /\ Expects[e].seq = Len(log) /\ ~Conflicts(Proposes[e])
      /\ admitted' = admitted \union {e}
      /\ decisions' = decisions /\ held' = held
  BY DEF AdmitAndDispatch, Admissible, ActiveRow
<1>3. results' = IF end \in Result THEN [results EXCEPT ![e] = @ \union {end}] ELSE results
  BY DEF AdmitAndDispatch
<1>4. /\ evals' \in [Evals -> Eval] /\ handle' \in Pids \union {None}
      /\ loaded' \in Contents \union {None} /\ heard' \subseteq Pids
      /\ crashes' \in 0 .. MaxCrashes
      /\ UNCHANGED <<proc, serves, file, pidfile, sock>>
      /\ evals' = evals \/ \A v \in Evals : evals'[v].pc \in {"idle", "done"}
  <2>1. CASE end \in Result
    BY <2>1 DEF AdmitAndDispatch, IInv, TypeOK, opaVars
  <2>2. CASE end \notin Result
    <3>1. crashes < MaxCrashes /\ Forget
      BY <2>2 DEF AdmitAndDispatch
    <3> QED BY <3>1, ForgetKeeps DEF IInv
  <2> QED BY <2>1, <2>2
<1>5. results' \in [Effects -> SUBSET Result]
  BY <1>1, <1>3 DEF IInv, TypeOK
<1>6. NoStraySidecar' /\ ComputedByItsPolicy'
  BY <1>2, <1>4 DEF IInv, NoStraySidecar, ComputedByItsPolicy
<1> HIDE DEF e
<1>7. CASE end \in {"ACTIVATION", "COMMITTED"}
  <2>1. Install(Proposes[e], e) /\ e \in Effects \union Documents
    BY <1>1, <1>7 DEF AdmitAndDispatch, e
  <2>2. TypeOK'
    <3>1. log' \in Seq(Rows) /\ published' \subseteq Contents
      BY <1>1, <2>1, InstallGrows DEF IInv
    <3> QED BY <1>1, <1>2, <1>4, <1>5, <3>1 DEF IInv, TypeOK, Rows
  <2>3. DecisionsArePast'
    BY <1>1, <1>2, <2>1, PastStays DEF IInv
  <2>4. EvalsArePast'
    <3>1. CASE evals' = evals
      BY <1>1, <2>1, <3>1, PastStays DEF IInv
    <3>2. CASE \A v \in Evals : evals'[v].pc \in {"idle", "done"}
      BY <3>2 DEF EvalsArePast
    <3> QED BY <1>4, <3>1, <3>2
  <2>5. ActiveResolves' /\ RowsAreExpected'
    <3>1. e \notin Documents
      BY <1>1, ConstantsOk
    <3> QED BY <1>1, <1>2, <2>1, <3>1, InstallKeeps DEF IInv
  <2>6. OutcomesAreTrue'
    <3>1. \A f \in Effects : results'[f] # results[f] =>
            f = e /\ results'[f] = results[f] \union {"COMMITTED"}
      BY <1>1, <1>3, <1>7 DEF IInv, TypeOK, Result
    <3> QED BY <1>1, <1>2, <2>1, <3>1, OutcomesKept DEF IInv
  <2> QED BY <1>6, <2>2, <2>3, <2>4, <2>5, <2>6 DEF IInv
<1>8. CASE end \in {"ADMISSION", "UNKNOWN"}
  <2>1. log' = log /\ published' = published
    BY <1>8 DEF AdmitAndDispatch
  <2>2. TypeOK'
    BY <1>1, <1>2, <1>4, <1>5, <2>1 DEF IInv, TypeOK
  <2>3. DecisionsArePast'
    BY <1>2, <2>1 DEF IInv, DecisionsArePast, WasActive
  <2>4. EvalsArePast'
    BY <1>4, <2>1 DEF IInv, EvalsArePast, WasActive
  <2>5. RowsAreExpected' /\ ActiveResolves'
    BY <1>2, <2>1 DEF IInv, RowsAreExpected, ActiveResolves
  <2>6. OutcomesAreTrue'
    <3>1. \A f \in Effects : \A r \in {"COMMITTED", "NO_EFFECT_CONFIRMED"} :
            r \in results'[f] <=> r \in results[f]
      BY <1>1, <1>3, <1>8 DEF IInv, TypeOK
    <3> QED BY <2>1, <3>1 DEF IInv, OutcomesAreTrue
  <2> QED BY <1>6, <2>2, <2>3, <2>4, <2>5, <2>6 DEF IInv
<1> QED BY <1>7, <1>8 DEF Result

LEMMA InvReconcile ==
  ASSUME IInv, NEW e \in Effects, Reconcile(e)
  PROVE  IInv'
<1>1. /\ results' = [results EXCEPT ![e] = @ \union {Observed(e)}]
      /\ results[e] \subseteq {"UNKNOWN"}
      /\ UNCHANGED <<log, published, decisions, admitted, held, evals, opaVars, crashes>>
  BY DEF Reconcile
<1>2. Observed(e) \in Result
  BY DEF Observed, Result
<1>3. TypeOK'
  BY <1>1, <1>2 DEF IInv, TypeOK, opaVars
<1>4. /\ DecisionsArePast' /\ EvalsArePast' /\ RowsAreExpected'
      /\ ComputedByItsPolicy' /\ ActiveResolves' /\ NoStraySidecar'
  BY <1>1 DEF IInv, DecisionsArePast, EvalsArePast, WasActive, RowsAreExpected,
     ComputedByItsPolicy, ActiveResolves, NoStraySidecar, opaVars
<1>5. OutcomesAreTrue'
  <2>0. Expects[e].seq \in Nat /\ Len(log) \in Nat
    BY ConstantsOk, ActiveIsContent DEF Row, IInv, RowsAreExpected
  <2>1. results'[e] = results[e] \union {Observed(e)} /\ \A f \in Effects \ {e} : results'[f] = results[f]
    BY <1>1 DEF IInv, TypeOK
  <2>2. ASSUME Observed(e) = "COMMITTED"
        PROVE  Expects[e].seq < Len(log) /\ log[Expects[e].seq + 1].content = Proposes[e]
    BY <2>0, <2>2 DEF Observed
  <2>3. ASSUME Observed(e) = "NO_EFFECT_CONFIRMED"
        PROVE  /\ Expects[e].seq < Len(log)
               /\ log[Expects[e].seq + 1].content # Proposes[e]
    BY <2>0, <2>3 DEF Observed
  <2>4. ASSUME Observed(e) = "NO_EFFECT_CONFIRMED"
        PROVE  \A n \in 1 .. Len(log) : log[n].by # e
    BY <2>3, <2>4 DEF IInv, RowsAreExpected
  <2>5. /\ "COMMITTED" \in results'[e] <=> Observed(e) = "COMMITTED"
        /\ "NO_EFFECT_CONFIRMED" \in results'[e] <=> Observed(e) = "NO_EFFECT_CONFIRMED"
    BY <1>1, <2>1
  <2>6. ~ {"COMMITTED", "NO_EFFECT_CONFIRMED"} \subseteq results'[e]
    BY <2>5
  <2>7. log' = log
    BY <1>1
  <2> SUFFICES ASSUME NEW f \in Effects
               PROVE  /\ "COMMITTED" \in results'[f] =>
                           /\ Expects[f].seq < Len(log)
                           /\ log[Expects[f].seq + 1].content = Proposes[f]
                      /\ "NO_EFFECT_CONFIRMED" \in results'[f] =>
                           /\ Expects[f].seq < Len(log)
                           /\ \A n \in 1 .. Len(log) : log[n].by # f
                      /\ ~ {"COMMITTED", "NO_EFFECT_CONFIRMED"} \subseteq results'[f]
    BY <2>7 DEF OutcomesAreTrue
  <2>8. CASE f = e
    BY <2>2, <2>3, <2>4, <2>5, <2>6, <2>8
  <2>9. CASE f # e
    BY <2>1, <2>9 DEF IInv, OutcomesAreTrue
  <2> QED BY <2>8, <2>9
<1> QED BY <1>3, <1>4, <1>5 DEF IInv

LEMMA InvReleaseHold ==
  ASSUME IInv, NEW e \in Effects, ReleaseHold(e)
  PROVE  IInv'
<1>1. TypeOK'
  BY DEF IInv, TypeOK, ReleaseHold, opaVars
<1>2. DecisionsArePast' /\ EvalsArePast' /\ ComputedByItsPolicy' /\ NoStraySidecar'
  BY DEF IInv, DecisionsArePast, EvalsArePast, WasActive, ComputedByItsPolicy,
     NoStraySidecar, opaVars, ReleaseHold
<1>3. RowsAreExpected' /\ ActiveResolves' /\ OutcomesAreTrue'
  BY DEF IInv, RowsAreExpected, ActiveResolves, OutcomesAreTrue, ReleaseHold
<1> QED BY <1>1, <1>2, <1>3 DEF IInv

LEMMA InvCrash ==
  ASSUME IInv, Crash
  PROVE  IInv'
<1>1. crashes < MaxCrashes /\ Forget /\ UNCHANGED storeVars
  BY DEF Crash
<1>2. StoreInv'
  BY <1>1, StoreUnmoved DEF IInv, StoreInv
<1>3. TypeOK'
  BY <1>1, ForgetKeeps DEF IInv, TypeOK, storeVars
<1>4. EvalsArePast'
  BY <1>1, ForgetKeeps DEF IInv, EvalsArePast
<1>5. NoStraySidecar'
  BY <1>1, ForgetKeeps DEF IInv, NoStraySidecar
<1> QED BY <1>2, <1>3, <1>4, <1>5 DEF IInv, StoreInv

-----------------------------------------------------------------------------
(* The evaluations and the sidecar.                                         *)

LEMMA PastIsContent ==
  ASSUME TypeOK, NEW c, WasActive(c)
  PROVE  c \in Contents
<1>1. log \in Seq(Rows)
  BY DEF TypeOK, Rows
<1>2. PICK n \in 1 .. Len(log) : log[n].content = c
  BY DEF WasActive
<1>3. log[n] \in Rows
  BY <1>1, <1>2
<1> QED BY <1>2, <1>3 DEF Rows

(* A step of one evaluation that leaves what it evaluates alone.            *)
LEMMA EvalMoves ==
  ASSUME IInv, NEW v \in Evals, NEW x \in Eval,
         evals' = [evals EXCEPT ![v] = x], log' = log,
         x.pc \notin {"idle", "done"} => x.effect \in Effects /\ WasActive(x.policy)
  PROVE  evals' \in [Evals -> Eval] /\ EvalsArePast'
<1>1. evals' \in [Evals -> Eval]
  BY DEF IInv, TypeOK
<1>2. EvalsArePast'
  <2> SUFFICES ASSUME NEW w \in Evals, evals'[w].pc \notin {"idle", "done"}
               PROVE  evals'[w].effect \in Effects /\ WasActive(evals'[w].policy)
    BY DEF EvalsArePast, WasActive
  <2>1. CASE w = v
    BY <2>1 DEF IInv, TypeOK
  <2>2. CASE w # v
    BY <2>2 DEF IInv, TypeOK, EvalsArePast
  <2> QED BY <2>1, <2>2
<1> QED BY <1>1, <1>2

LEMMA GoKeeps ==
  ASSUME IInv, NEW v \in Evals, log' = log,
         NEW pc \in {"starting", "waiting", "reported", "posting", "answered", "checked", "done"},
         Go(v, pc), evals[v].pc \notin {"idle", "done"}
  PROVE  evals' \in [Evals -> Eval] /\ EvalsArePast'
<1> DEFINE x == [evals[v] EXCEPT !.pc = pc]
<1>1. evals[v] \in Eval
  BY DEF IInv, TypeOK
<1>2. x \in Eval /\ x.effect = evals[v].effect /\ x.policy = evals[v].policy
  BY <1>1 DEF Eval
<1>3. evals' = [evals EXCEPT ![v] = x]
  BY DEF Go
<1>4. x.effect \in Effects /\ WasActive(x.policy)
  BY <1>2 DEF IInv, EvalsArePast
<1> HIDE DEF x
<1> QED BY <1>2, <1>3, <1>4, EvalMoves

LEMMA SpawnKeeps ==
  ASSUME IInv, NEW v \in Evals, NEW gone \in Pids \union {None}, Spawn(v, gone)
  PROVE  /\ proc' \in [Pids -> {"unborn", "running", "dying", "gone"}]
         /\ heard' \subseteq Pids /\ sock' = None
         /\ handle' \in Pids /\ pidfile' \in Pids
         /\ NoStraySidecar'
<1>1. v \in Pids
  BY DEF Pids
<1>2. proc' \in [Pids -> {"unborn", "running", "dying", "gone"}]
  BY DEF Spawn, IInv, TypeOK
<1>3. NoStraySidecar'
  BY DEF Spawn, IInv, TypeOK, NoStraySidecar
<1> QED BY <1>1, <1>2, <1>3 DEF Spawn, IInv, TypeOK

LEMMA InvBegin ==
  ASSUME IInv, NEW v \in Evals, NEW e \in Effects, Begin(v, e)
  PROVE  IInv'
<1> DEFINE x(pc, p) == [pc |-> pc, effect |-> e, policy |-> Active, awaits |-> p,
                        echo |-> None, status |-> None]
<1>1. StoreInv' /\ log' = log
  BY StoreUnmoved DEF Begin, IInv, StoreInv, storeVars
<1>2. Active \in Contents /\ WasActive(Active)
  <2>1. Len(log) \in Nat \ {0} /\ Active \in Contents
    BY ActiveIsContent DEF IInv, RowsAreExpected
  <2>2. Len(log) \in 1 .. Len(log)
    BY <2>1
  <2> QED BY <2>1, <2>2 DEF WasActive, Active
<1>3. ASSUME NEW pc \in {"posting", "stopping", "starting"}, NEW p \in Pids \union {None},
             evals' = [evals EXCEPT ![v] = x(pc, p)]
      PROVE  evals' \in [Evals -> Eval] /\ EvalsArePast'
  <2>1. x(pc, p) \in Eval /\ x(pc, p).effect \in Effects /\ WasActive(x(pc, p).policy)
    BY <1>2, <1>3 DEF Eval
  <2> HIDE DEF x
  <2> QED BY <1>1, <1>3, <2>1, EvalMoves
<1>4. CASE handle # None /\ loaded = Active
  <2>1. evals' = [evals EXCEPT ![v] = x("posting", None)] /\ UNCHANGED opaVars
    BY <1>4 DEF Begin
  <2>2. evals' \in [Evals -> Eval] /\ EvalsArePast'
    BY <1>3, <2>1
  <2>3. TypeOK'
    BY <2>1, <2>2 DEF Begin, IInv, TypeOK, opaVars, storeVars
  <2>4. NoStraySidecar'
    BY <2>1 DEF IInv, NoStraySidecar, opaVars
  <2> QED BY <1>1, <2>2, <2>3, <2>4 DEF IInv, StoreInv
<1>5. CASE handle # None /\ loaded # Active
  <2>1. /\ evals' = [evals EXCEPT ![v] = x("stopping", handle)]
        /\ proc' = [proc EXCEPT ![handle] = "dying"]
        /\ handle' = None
        /\ UNCHANGED <<heard, loaded, serves, file, pidfile, sock>>
    BY <1>5 DEF Begin
  <2>2. handle \in Pids
    BY <1>5 DEF IInv, TypeOK
  <2>3. evals' \in [Evals -> Eval] /\ EvalsArePast'
    BY <1>3, <2>1, <2>2
  <2>4. TypeOK'
    BY <2>1, <2>2, <2>3 DEF Begin, IInv, TypeOK, storeVars
  <2>5. NoStraySidecar'
    BY <2>1, <2>2 DEF IInv, TypeOK, NoStraySidecar
  <2> QED BY <1>1, <2>3, <2>4, <2>5 DEF IInv, StoreInv
<1>6. CASE handle = None
  <2>1. /\ evals' = [evals EXCEPT ![v] = x("starting", None)]
        /\ file' = Active
        /\ Spawn(v, None)
        /\ UNCHANGED <<loaded, serves>>
    BY <1>6 DEF Begin
  <2>2. evals' \in [Evals -> Eval] /\ EvalsArePast'
    BY <1>3, <2>1
  <2>3. TypeOK'
    BY <1>2, <2>1, <2>2, SpawnKeeps DEF Begin, IInv, TypeOK, storeVars
  <2> QED BY <1>1, <2>1, <2>2, <2>3, SpawnKeeps DEF IInv, StoreInv
<1> QED BY <1>4, <1>5, <1>6

LEMMA InvResume ==
  ASSUME IInv, NEW v \in Evals, Resume(v)
  PROVE  IInv'
<1>1. StoreInv' /\ log' = log
  BY StoreUnmoved DEF Resume, IInv, StoreInv, storeVars
<1>2. evals' \in [Evals -> Eval] /\ EvalsArePast'
  BY <1>1, GoKeeps DEF Resume
<1>3. evals[v].awaits \in Pids \union {None} /\ Spawn(v, evals[v].awaits)
  BY DEF Resume, IInv, TypeOK, Eval
<1>4. file' \in Contents
  <2>1. WasActive(evals[v].policy)
    BY DEF Resume, IInv, EvalsArePast
  <2> QED BY <2>1, PastIsContent DEF Resume, IInv
<1>5. TypeOK'
  BY <1>2, <1>3, <1>4, SpawnKeeps DEF Resume, IInv, TypeOK, storeVars
<1> QED BY <1>1, <1>2, <1>3, <1>5, SpawnKeeps DEF IInv, StoreInv

(* The steps that read and say, and start or stop no process.               *)
LEMMA InvQuiet ==
  ASSUME IInv, NEW v \in Evals,
         Ready(v) \/ Report(v) \/ Confirm(v) \/ Answer(v) \/ ReadStatus(v) \/ Fail(v)
  PROVE  IInv'
<1>1. UNCHANGED storeVars
  BY DEF Ready, Report, Confirm, Answer, ReadStatus, Fail
<1>2. StoreInv' /\ log' = log
  BY <1>1, StoreUnmoved DEF IInv, StoreInv, storeVars
<1>3. evals' \in [Evals -> Eval] /\ EvalsArePast'
  <2>1. CASE Ready(v) \/ Report(v) \/ Confirm(v) \/ Fail(v)
    BY <1>2, <2>1, GoKeeps DEF Ready, Report, Confirm, Fail
  <2>2. CASE Answer(v) \/ ReadStatus(v)
    <3> DEFINE x == evals'[v]
    <3>0. sock \in Pids
      BY <2>2 DEF IInv, TypeOK, Answer, ReadStatus, Alive
    <3>1. evals[v] \in Eval /\ serves[sock] \in Contents \union {None}
      BY <3>0 DEF IInv, TypeOK
    <3>2. /\ evals' = [evals EXCEPT ![v] = x]
          /\ \/ x = [evals[v] EXCEPT !.pc = "answered", !.echo = serves[sock]]
             \/ x = [evals[v] EXCEPT !.pc = "checked", !.status = serves[sock]]
      BY <2>2 DEF Answer, ReadStatus, IInv, TypeOK
    <3> HIDE DEF x
    <3>3. x \in Eval /\ x.effect = evals[v].effect /\ x.policy = evals[v].policy
      BY <3>1, <3>2 DEF Eval
    <3>4. x.effect \in Effects /\ WasActive(x.policy)
      BY <2>2, <3>3 DEF IInv, EvalsArePast, Answer, ReadStatus
    <3> QED BY <1>2, <3>2, <3>3, <3>4, EvalMoves
  <2> QED BY <2>1, <2>2
<1>4. /\ UNCHANGED <<handle, heard, proc, serves, file, pidfile, sock, crashes>>
      /\ loaded' \in Contents \union {None}
  <2>1. evals[v].policy \in Contents \union {None}
    BY DEF IInv, TypeOK, Eval
  <2> QED BY <2>1 DEF Ready, Report, Confirm, Answer, ReadStatus, Fail, opaVars, IInv, TypeOK
<1>5. TypeOK'
  BY <1>1, <1>3, <1>4 DEF IInv, TypeOK, storeVars
<1>6. NoStraySidecar'
  BY <1>4 DEF IInv, NoStraySidecar
<1> QED BY <1>2, <1>3, <1>5, <1>6 DEF IInv, StoreInv

LEMMA InvSealDecision ==
  ASSUME IInv, NEW v \in Evals, SealDecision(v)
  PROVE  IInv'
<1> DEFINE d == [effect |-> evals[v].effect, policy |-> evals[v].policy,
                 computed |-> evals[v].echo]
<1>1. /\ evals[v].effect \in Effects /\ WasActive(evals[v].policy)
      /\ UNCHANGED <<log, published, admitted, results, opaVars, crashes>>
  BY DEF SealDecision, IInv, EvalsArePast
<1>2. evals' \in [Evals -> Eval] /\ EvalsArePast'
  BY <1>1, GoKeeps DEF SealDecision
<1>3. \/ decisions' = decisions
      \/ /\ decisions' = decisions \union {d}
         /\ evals[v].echo = evals[v].policy
  BY DEF SealDecision, Consistent
<1>4. evals[v].policy \in Contents
  BY <1>1, PastIsContent DEF IInv
<1>5. evals[v].echo = evals[v].policy => d \in Decision /\ d.computed = d.policy
  BY <1>1, <1>4 DEF Decision
<1>6. d.policy = evals[v].policy
  OBVIOUS
<1> HIDE DEF d
<1>7. TypeOK'
  <2>1. held' \subseteq Effects
    BY <1>1 DEF SealDecision, IInv, TypeOK
  <2> QED BY <1>1, <1>2, <1>3, <1>5, <2>1 DEF IInv, TypeOK, opaVars
<1>8. DecisionsArePast' /\ ComputedByItsPolicy'
  BY <1>1, <1>3, <1>5, <1>6 DEF IInv, DecisionsArePast, WasActive, ComputedByItsPolicy
<1>9. RowsAreExpected' /\ OutcomesAreTrue' /\ ActiveResolves' /\ NoStraySidecar'
  BY <1>1 DEF IInv, RowsAreExpected, OutcomesAreTrue, ActiveResolves, NoStraySidecar, opaVars
<1> QED BY <1>2, <1>7, <1>8, <1>9 DEF IInv

LEMMA InvProcess ==
  ASSUME IInv, NEW p \in Pids, Bind(p) \/ LoadFile(p) \/ Exit(p)
  PROVE  IInv'
<1>1. StoreInv' /\ log' = log /\ evals' = evals
  BY StoreUnmoved DEF Bind, LoadFile, Exit, IInv, StoreInv, storeVars
<1>2. EvalsArePast'
  BY <1>1 DEF IInv, EvalsArePast, WasActive
<1>3. TypeOK'
  BY DEF Bind, LoadFile, Exit, IInv, TypeOK, storeVars
<1>4. NoStraySidecar'
  BY DEF Bind, LoadFile, Exit, IInv, TypeOK, NoStraySidecar
<1> QED BY <1>1, <1>2, <1>3, <1>4 DEF IInv, StoreInv

LEMMA InvNext == IInv /\ [Next]_vars => IInv'
<1> SUFFICES ASSUME IInv, [Next]_vars PROVE IInv'
  OBVIOUS
<1>1. ASSUME NEW d \in Documents, ExecuteRoot(d) PROVE IInv'
  BY <1>1, InvExecuteRoot
<1>2. ASSUME NEW e \in Effects, ReleaseHold(e) \/ Reconcile(e) PROVE IInv'
  BY <1>2, InvReleaseHold, InvReconcile
<1>3. ASSUME NEW d \in decisions, NEW end \in Result \union {"ADMISSION", "ACTIVATION"},
             end # "NO_EFFECT_CONFIRMED", AdmitAndDispatch(d, end)
      PROVE  IInv'
  BY <1>3, InvAdmitAndDispatch
<1>4. ASSUME NEW v \in Evals, NEW e \in Effects, Begin(v, e) PROVE IInv'
  BY <1>4, InvBegin
<1>5. ASSUME NEW v \in Evals, EvalStep(v) PROVE IInv'
  BY <1>5, InvResume, InvQuiet, InvSealDecision DEF EvalStep
<1>6. ASSUME NEW p \in Pids, Bind(p) \/ LoadFile(p) \/ Exit(p) PROVE IInv'
  BY <1>6, InvProcess
<1>7. CASE Crash
  BY <1>7, InvCrash
<1>8. CASE UNCHANGED vars
  <2>1. StoreInv' /\ log' = log /\ evals' = evals /\ UNCHANGED opaVars
    BY <1>8, StoreUnmoved DEF IInv, StoreInv, vars, storeVars
  <2>2. TypeOK' /\ NoStraySidecar'
    BY <1>8 DEF IInv, TypeOK, NoStraySidecar, vars, storeVars, opaVars
  <2>3. EvalsArePast'
    BY <2>1 DEF IInv, EvalsArePast, WasActive
  <2> QED BY <2>1, <2>2, <2>3 DEF IInv, StoreInv
<1> QED BY <1>1, <1>2, <1>3, <1>4, <1>5, <1>6, <1>7, <1>8 DEF Next

(* The invariant of the activation log, the outcomes and the sidecar.       *)
THEOREM Invariance == Spec => []IInv
BY InvInit, InvNext, PTL DEF Spec

THEOREM TypeCorrect == Spec => []TypeOK
<1>1. IInv => TypeOK
  BY DEF IInv
<1> QED BY <1>1, Invariance, PTL

(* A decision was computed by the bundle of the policy it names.            *)
THEOREM DecisionsAreComputed == Spec => []ComputedByItsPolicy
<1>1. IInv => ComputedByItsPolicy
  BY DEF IInv
<1> QED BY <1>1, Invariance, PTL

(* What is recorded of an activation is what the log says, for good.        *)
THEOREM RecordsAreTrue == Spec => []OutcomesAreTrue
<1>1. IInv => OutcomesAreTrue
  BY DEF IInv
<1> QED BY <1>1, Invariance, PTL

(* Nobody activates twice: the row of an effect or a document is the one     *)
(* after the row that its material names.                                   *)
THEOREM NobodyActivatesTwice == Spec => []ActivatedOnce
<1>1. IInv => ActivatedOnce
  <2> SUFFICES ASSUME IInv, NEW m \in 1 .. Len(log), NEW n \in 1 .. Len(log),
                      log[m].by = log[n].by
               PROVE  m = n
    BY DEF ActivatedOnce
  <2>1. log \in Seq(Rows)
    BY DEF IInv, TypeOK, Rows
  <2>2. log[m] \in Rows
    BY <2>1
  <2>3. log[m].by \in Effects \union Documents \union {Boot}
    BY <2>2 DEF Rows
  <2> QED BY <2>3 DEF IInv, RowsAreExpected
<1> QED BY <1>1, Invariance, PTL

(* The active policy can always be read.                                    *)
THEOREM PoliciesResolve == Spec => []ActiveResolves
<1>1. IInv => ActiveResolves
  BY DEF IInv
<1> QED BY <1>1, Invariance, PTL

THEOREM SidecarsAreOwned == Spec => []NoStraySidecar
<1>1. IInv => NoStraySidecar
  BY DEF IInv
<1> QED BY <1>1, Invariance, PTL

-----------------------------------------------------------------------------
(* The refinement of PolicyChain.                                           *)

By(n) == IF log[n].by \in Effects THEN "POLICY" ELSE "ROOT"
Chain == [n \in 1 .. Len(log) |-> [content |-> log[n].content, by |-> By(n)]]
Verdicts == {<<d.computed, Proposes[d.effect]>> : d \in decisions}
ChainRows == [content : Contents, by : {"POLICY", "ROOT"}]

LEMMA ChainIsSeq ==
  ASSUME IInv
  PROVE  /\ Chain \in Seq(ChainRows) /\ Len(Chain) = Len(log)
         /\ \A n \in 1 .. Len(log) : Chain[n] = [content |-> log[n].content, by |-> By(n)]
         /\ \A n \in 1 .. Len(log) : Chain[n].content = log[n].content
         /\ Len(log) \in Nat \ {0}
<1>1. log \in Seq(Rows) /\ Len(log) \in Nat \ {0}
  BY ActiveIsContent DEF IInv, TypeOK, Rows, RowsAreExpected
<1>2. \A n \in 1 .. Len(log) : [content |-> log[n].content, by |-> By(n)] \in ChainRows
  <2>1. \A n \in 1 .. Len(log) : log[n] \in Rows
    BY <1>1
  <2> QED BY <2>1 DEF Rows, ChainRows, By
<1>3. Chain \in [1 .. Len(log) -> ChainRows]
  BY <1>2 DEF Chain
<1>4. Chain \in Seq(ChainRows) /\ Len(Chain) = Len(log)
  BY <1>1, <1>3
<1> QED BY <1>1, <1>4 DEF Chain

LEMMA PromiseInit == Init => Promise!Init
<1> SUFFICES ASSUME Init PROVE Promise!Init
  OBVIOUS
<1>1. IInv
  BY InvInit
<1>2. /\ Len(log) = 1 /\ log[1].content = Genesis /\ log[1].by = Boot
  BY DEF Init
<1>3. By(1) = "ROOT"
  BY <1>2, ConstantsOk DEF By
<1>4. Chain = <<[content |-> Genesis, by |-> "ROOT"]>>
  BY <1>2, <1>3 DEF Chain
<1>5. Verdicts = {}
  BY DEF Init, Verdicts
<1> QED BY <1>4, <1>5 DEF Promise!Init, Chain, Verdicts, By

(* A row of the log is a policy of the chain.                               *)
LEMMA ChainInstall ==
  ASSUME IInv, IInv', NEW c \in Contents, NEW by \in Effects \union Documents, Install(c, by)
  PROVE  Chain' = Append(Chain, [content |-> c, by |-> IF by \in Effects THEN "POLICY" ELSE "ROOT"])
<1> DEFINE row == [content |-> c, by |-> IF by \in Effects THEN "POLICY" ELSE "ROOT"]
<1>1. /\ Chain \in Seq(ChainRows) /\ Len(Chain) = Len(log) /\ Len(log) \in Nat \ {0}
      /\ \A n \in 1 .. Len(log) : Chain[n] = [content |-> log[n].content, by |-> By(n)]
  BY ChainIsSeq
<1>2. /\ Len(log') = Len(log) + 1
      /\ \A n \in 1 .. Len(log) : log'[n] = log[n]
      /\ log'[Len(log) + 1] = [content |-> c, by |-> by]
  BY InstallGrows DEF IInv, RowsAreExpected
<1>3. row \in ChainRows
  BY DEF ChainRows
<1> HIDE DEF row
<1>4. /\ Append(Chain, row) \in Seq(ChainRows)
      /\ Len(Append(Chain, row)) = Len(log) + 1
      /\ \A n \in 1 .. Len(log) : Append(Chain, row)[n] = Chain[n]
      /\ Append(Chain, row)[Len(log) + 1] = row
  BY <1>1, <1>3
<1>5. Chain' \in [1 .. Len(log) + 1 -> ChainRows]
  <2>1. log' \in Seq(Rows)
    BY InstallGrows DEF IInv, RowsAreExpected
  <2>2. \A n \in 1 .. Len(log') : log'[n] \in Rows
    BY <2>1
  <2>3. \A n \in 1 .. Len(log') : [content |-> log'[n].content, by |-> By(n)'] \in ChainRows
    BY <2>2 DEF Rows, ChainRows, By
  <2> QED BY <1>2, <2>3 DEF Chain
<1>6. Append(Chain, row) \in [1 .. Len(log) + 1 -> ChainRows]
  BY <1>4, LenProperties
<1>7. ASSUME NEW n \in 1 .. Len(log) + 1 PROVE Chain'[n] = Append(Chain, row)[n]
  <2>1. Chain'[n] = [content |-> log'[n].content, by |-> IF log'[n].by \in Effects THEN "POLICY" ELSE "ROOT"]
    BY <1>2 DEF Chain, By
  <2>2. CASE n \in 1 .. Len(log)
    BY <1>1, <1>2, <1>4, <2>1, <2>2 DEF By
  <2>3. CASE n = Len(log) + 1
    BY <1>2, <1>4, <2>1, <2>3 DEF row
  <2> QED BY <1>1, <2>2, <2>3
<1>8. Chain' = Append(Chain, row)
  BY <1>5, <1>6, <1>7
<1> QED BY <1>8 DEF row

LEMMA ChainUnmoved ==
  ASSUME UNCHANGED <<log, decisions>>
  PROVE  Chain' = Chain /\ Verdicts' = Verdicts
BY DEF Chain, By, Verdicts

LEMMA PromiseNext == IInv /\ [Next]_vars => [Promise!Next]_(Promise!vars)
<1> SUFFICES ASSUME IInv, [Next]_vars PROVE [Promise!Next]_(Promise!vars)
  OBVIOUS
<1>0. IInv'
  BY InvNext
<1>1. ASSUME Chain' = Chain, Verdicts' = Verdicts
      PROVE  UNCHANGED Promise!vars
  BY <1>1 DEF Promise!vars, Chain, Verdicts, By
<1>2. ASSUME NEW d \in Documents, ExecuteRoot(d) PROVE Promise!Next
  <2>1. /\ Install(Decrees[d], d) /\ Decrees[d] \in Contents /\ d \notin Effects
        /\ decisions' = decisions
    BY <1>2, ConstantsOk DEF ExecuteRoot
  <2>2. Chain' = Append(Chain, [content |-> Decrees[d], by |-> "ROOT"]) /\ Verdicts' = Verdicts
    BY <1>0, <2>1, ChainInstall DEF Verdicts
  <2>3. Promise!Decree(Decrees[d])
    BY <2>2 DEF Promise!Decree, Chain, Verdicts, By
  <2> QED BY <2>1, <2>3 DEF Promise!Next
<1>3. ASSUME NEW d \in decisions, NEW end, AdmitAndDispatch(d, end)
      PROVE  Promise!Next \/ UNCHANGED Promise!vars
  <2>1. /\ d.effect \in Effects /\ Proposes[d.effect] \in Contents
        /\ d.policy = Active /\ d.computed = d.policy /\ decisions' = decisions
    BY <1>3, ConstantsOk DEF AdmitAndDispatch, Admissible, IInv, TypeOK, Decision, ComputedByItsPolicy
  <2>2. CASE Install(Proposes[d.effect], d.effect)
    <3>1. /\ Chain' = Append(Chain, [content |-> Proposes[d.effect], by |-> "POLICY"])
          /\ Verdicts' = Verdicts
      BY <1>0, <2>1, <2>2, ChainInstall DEF Verdicts
    <3>2. <<Chain[Len(Chain)].content, Proposes[d.effect]>> \in Verdicts
      <4>1. Chain[Len(Chain)].content = Active
        <5>0. Len(Chain) = Len(log) /\ Len(log) \in Nat \ {0}
          BY ChainIsSeq
        <5>1. Len(Chain) = Len(log) /\ Len(log) \in 1 .. Len(log)
          BY <5>0
        <5>2. Chain[Len(log)].content = log[Len(log)].content
          BY <5>1, ChainIsSeq
        <5> QED BY <5>1, <5>2 DEF Active
      <4> QED BY <2>1, <4>1 DEF Verdicts
    <3>3. Promise!Succeed(Proposes[d.effect])
      BY <3>1, <3>2 DEF Promise!Succeed, Promise!Last, Chain, Verdicts, By
    <3> QED BY <2>1, <3>3 DEF Promise!Next
  <2>3. CASE log' = log
    BY <1>1, <2>1, <2>3, ChainUnmoved
  <2> QED BY <1>3, <2>2, <2>3 DEF AdmitAndDispatch
<1>4. ASSUME NEW v \in Evals, SealDecision(v)
      PROVE  Promise!Next \/ UNCHANGED Promise!vars
  <2> DEFINE d == [effect |-> evals[v].effect, policy |-> evals[v].policy,
                   computed |-> evals[v].echo]
  <2>1. CASE decisions' = decisions
    BY <1>1, <1>4, <2>1, ChainUnmoved DEF SealDecision
  <2>2. CASE decisions' = decisions \union {d} /\ evals[v].echo = evals[v].policy
    <3>1. log' = log /\ d.effect \in Effects /\ WasActive(d.computed)
      BY <1>4, <2>2 DEF SealDecision, IInv, EvalsArePast
    <3>2. PICK n \in 1 .. Len(log) : log[n].content = d.computed
      BY <3>1 DEF WasActive
    <3>3. n \in 1 .. Len(Chain) /\ Chain[n].content = d.computed
      <4>1. Len(Chain) = Len(log)
        BY ChainIsSeq
      <4>2. Chain[n].content = log[n].content
        BY <3>2, ChainIsSeq
      <4> QED BY <3>2, <4>1, <4>2
    <3> HIDE DEF d
    <3>4. /\ Verdicts' = Verdicts \union {<<Chain[n].content, Proposes[d.effect]>>}
          /\ Chain' = Chain
      BY <2>2, <3>1, <3>3 DEF Verdicts, Chain, By
    <3>5. Promise!Allow(n, Proposes[d.effect])
      BY <3>3, <3>4 DEF Promise!Allow, Chain, Verdicts, By
    <3>6. Proposes[d.effect] \in Contents
      BY <3>1, ConstantsOk
    <3>7. \E m \in 1 .. Len(Chain) : Promise!Allow(m, Proposes[d.effect])
      BY <3>3, <3>5
    <3>8. Promise!Next
      BY <3>6, <3>7 DEF Promise!Next, Promise!Allow, Chain, By, Verdicts
    <3> QED BY <3>8
  <2> QED BY <1>4, <2>1, <2>2 DEF SealDecision, Consistent
<1>5. CASE UNCHANGED <<log, decisions>>
  BY <1>1, <1>5, ChainUnmoved
<1>6. CASE Next
  <2>1. ASSUME NEW e \in Effects, ReleaseHold(e) \/ Reconcile(e) PROVE UNCHANGED <<log, decisions>>
    BY <2>1 DEF ReleaseHold, Reconcile
  <2>2. ASSUME NEW v \in Evals, NEW e \in Effects, Begin(v, e) PROVE UNCHANGED <<log, decisions>>
    BY <2>2 DEF Begin, storeVars
  <2>3. ASSUME NEW v \in Evals, EvalStep(v), ~SealDecision(v) PROVE UNCHANGED <<log, decisions>>
    BY <2>3 DEF EvalStep, Resume, Ready, Report, Confirm, Answer, ReadStatus, Fail, storeVars
  <2>4. ASSUME NEW p \in Pids, Bind(p) \/ LoadFile(p) \/ Exit(p) PROVE UNCHANGED <<log, decisions>>
    BY <2>4 DEF Bind, LoadFile, Exit, storeVars
  <2>5. Crash => UNCHANGED <<log, decisions>>
    BY DEF Crash, storeVars
  <2> QED BY <1>2, <1>3, <1>4, <1>5, <1>6, <2>1, <2>2, <2>3, <2>4, <2>5 DEF Next
<1>7. CASE UNCHANGED vars
  BY <1>5, <1>7 DEF vars, storeVars
<1> QED BY <1>6, <1>7

(* The activation log is a chain in which each policy allowed its successor, *)
(* or Root decreed it.                                                      *)
THEOREM Refinement == Spec => ChainKept
<1>1. Spec => Promise!Spec
  BY PromiseInit, PromiseNext, Invariance, PTL DEF Spec, Promise!Spec
<1> QED BY <1>1 DEF ChainKept
=============================================================================
