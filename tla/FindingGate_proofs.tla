------------------------- MODULE FindingGate_proofs -------------------------
(***************************************************************************)
(* What holds of FindingGate for all values of its constants: any number   *)
(* of findings, effects, policies, dispatches and crashes.                 *)
(***************************************************************************)
EXTENDS FindingGate, TLAPS

(* The types that the proofs need.                                          *)
LogRow == [contract : BOOLEAN, subject : Subjects, supersedes : SUBSET Nat,
           kind : Kinds, source : Effects \union {Intake}]
Types ==
  /\ log \in Seq(LogRow)
  /\ observed \subseteq [predecessor : DOMAIN log, subject : Subjects]
  /\ active \in DOMAIN Policies
  /\ drafts \in [Effects -> Draft \union {NoDraft}]
  /\ approved \subseteq Effects
  /\ results \in [Effects -> Seq(SUBSET Result)]
  /\ sealedUnder \in [Effects -> {0} \union DOMAIN Policies]
  /\ call \in Call \union {NoCall}

(* A row that an effect sealed is that effect's draft, under an authority.  *)
Authorized ==
  \A d \in DOMAIN log : log[d].source # Intake =>
    drafts[log[d].source] # NoDraft /\ AuthorityOf(log[d].source, log[d])

(* No two rows that effects sealed have the same predecessors.              *)
Unique ==
  \A d1, d2 \in DOMAIN log :
    /\ log[d1].source # Intake /\ log[d2].source # Intake
    /\ log[d1].supersedes = log[d2].supersedes
    => d1 = d2

(* What a dispatch is about to record agrees with the store.                *)
CallIsTrue ==
  call # NoCall =>
    /\ drafts[call.effect] # NoDraft
    /\ call.answer = "COMMITTED" => InStore(call.effect)
    /\ call.answer = "NO_EFFECT_CONFIRMED" => ~InStore(call.effect)

IInv == Types /\ Authorized /\ Unique /\ CallIsTrue

-----------------------------------------------------------------------------
LEMMA DraftIsDraft == ASSUME NEW d \in Draft PROVE d # NoDraft
  <1>1. DOMAIN d = {"contract", "subject", "supersedes", "kind"}  BY DEF Draft
  <1>2. DOMAIN NoDraft = {"contract"}  BY DEF NoDraft
  <1> QED  BY <1>1, <1>2

LEMMA RowTyped ==
  ASSUME Types, NEW d \in DOMAIN log
  PROVE  log[d] \in LogRow /\ (log[d].source # Intake => log[d].source \in Effects)
  <1>1. log[d] \in LogRow  BY DEF Types
  <1> QED  BY <1>1 DEF LogRow

LEMMA CallIsCall == ASSUME NEW c \in Call PROVE c # NoCall
  BY ConstantsOk DEF Call, NoCall

LEMMA RowSaysItsDraft ==
  ASSUME NEW d \in Draft, NEW e \in Effects
  PROVE  /\ Stamped(d, e) \in LogRow
         /\ Semantic(Stamped(d, e)) = d
         /\ Stamped(d, e).source = e /\ Stamped(d, e).supersedes = d.supersedes
  BY DEF Draft, Stamped, Semantic, LogRow, Ids

(* Whatever an admission leaves alone or changes.                           *)
LEMMA AdmitFacts ==
  ASSUME Types, NEW e \in Effects, NEW p \in 1 .. active, Admit(e, p)
  PROVE  /\ call = NoCall /\ drafts[e] \in Draft
         /\ results' = [results EXCEPT ![e] = Append(@, {})]
         /\ sealedUnder' = [sealedUnder EXCEPT ![e] = p]
         /\ p # 0 /\ p \in DOMAIN Policies
         /\ IF drafts[e].kind = "HUMAN_JUDGMENT" THEN e \in approved
            ELSE DeterministicAuthorityOk(drafts[e], p)
  <1>1. p # 0 /\ p \in DOMAIN Policies  BY ConstantsOk DEF Types
  <1> QED  BY <1>1 DEF Admit, SealAllowed, Types

(* The log grows at its end: by a row of the intake, or by one dispatch of  *)
(* an effect whose edge nobody holds.                                       *)
LEMMA LogStep ==
  ASSUME Types, [Next]_vars
  PROVE  \/ log' = log
         \/ \E f \in LogRow : f.source = Intake /\ log' = Append(log, f) /\ drafts' = drafts
                              /\ call' = call
         \/ \E e \in Effects, p \in 1 .. active :
              Dispatch(e, p) /\ Holder(e) = {} /\ log' = Append(log, Stamped(drafts[e], e))
  <1>1. ASSUME NEW b \in BOOLEAN, NEW s \in Subjects, NEW sup \in SUBSET DOMAIN log,
               Submit(b, s, sup)
        PROVE  \E f \in LogRow : f.source = Intake /\ log' = Append(log, f)
                                 /\ drafts' = drafts /\ call' = call
    <2>1. DOMAIN log \subseteq Nat  BY DEF Types
    <2>2. Claimed(b, s, sup) \in LogRow /\ Claimed(b, s, sup).source = Intake
      BY <2>1 DEF Claimed, LogRow, Kinds
    <2> QED  BY <1>1, <2>2 DEF Submit, effectVars
  <1>2. ASSUME NEW e \in Effects, NEW p \in 1 .. active, Dispatch(e, p), log' # log
        PROVE  Holder(e) = {} /\ log' = Append(log, Stamped(drafts[e], e))
    BY <1>2 DEF Dispatch
  <1> QED
    BY <1>1, <1>2 DEF Next, vars, evidenceVars, Resolve, Observe, Activate, Request, Approve,
       DieInside, Record, Crash, Reconcile, Release

LEMMA TypeStep == ASSUME Types, [Next]_vars PROVE Types'
  <1>1. log' \in Seq(LogRow) /\ DOMAIN log \subseteq DOMAIN log'
    <2>1. ASSUME NEW e \in Effects, NEW p \in 1 .. active, Dispatch(e, p)
          PROVE  Stamped(drafts[e], e) \in LogRow
      BY <2>1, AdmitFacts, RowSaysItsDraft DEF Dispatch
    <2>2. ASSUME NEW f \in LogRow, log' = Append(log, f)
          PROVE  log' \in Seq(LogRow) /\ DOMAIN log \subseteq DOMAIN log'
      BY <2>2 DEF Types
    <2> QED  BY <2>1, <2>2, LogStep DEF Types
  <1>2. observed' \subseteq [predecessor : DOMAIN log', subject : Subjects]
    <2>1. observed' = observed
            \/ \E a \in [predecessor : DOMAIN log, subject : Subjects] : observed' = observed \union {a}
      BY DEF Next, vars, evidenceVars, effectVars, Submit, Resolve, Observe, Activate, Request,
         Approve, Dispatch, DieInside, Record, Crash, Reconcile, Release
    <2> QED  BY <1>1, <2>1 DEF Types
  <1>3. active' \in DOMAIN Policies
    <2>1. CASE Activate  BY <2>1, ConstantsOk DEF Activate, Types
    <2> QED
      BY <2>1 DEF Types, Next, vars, evidenceVars, effectVars, Submit, Resolve, Observe, Request,
         Approve, Dispatch, DieInside, Record, Crash, Reconcile, Release
  <1>4. drafts' \in [Effects -> Draft \union {NoDraft}]
    BY DEF Types, Next, vars, evidenceVars, effectVars, Submit, Resolve, Observe, Activate,
       Request, Approve, Dispatch, DieInside, Record, Crash, Reconcile, Release
  <1>5. approved' \subseteq Effects
    BY DEF Types, Next, vars, evidenceVars, effectVars, Submit, Resolve, Observe, Activate,
       Request, Approve, Dispatch, DieInside, Record, Crash, Reconcile, Release
  <1>6. results' \in [Effects -> Seq(SUBSET Result)]
    <2>1. ASSUME NEW e \in Effects, NEW p \in 1 .. active, Admit(e, p)
          PROVE  results' \in [Effects -> Seq(SUBSET Result)]
      <3>1. results[e] \in Seq(SUBSET Result)  BY DEF Types
      <3>2. Append(results[e], {}) \in Seq(SUBSET Result)  BY <3>1
      <3> QED  BY <2>1, <3>2, AdmitFacts DEF Types
    <2>2. ASSUME NEW e \in Effects, NEW k \in DOMAIN results[e], NEW res \in Result, Outcome(e, k, res)
          PROVE  results' \in [Effects -> Seq(SUBSET Result)]
      <3>1. results[e] \in Seq(SUBSET Result)  BY DEF Types
      <3>2. [results[e] EXCEPT ![k] = @ \union {res}] \in Seq(SUBSET Result)  BY <3>1
      <3> QED  BY <2>2, <3>2 DEF Outcome, Types
    <2>3. CASE Record
      <3>1. call \in Call /\ call.effect \in Effects /\ call.answer \in Result
        BY <2>3 DEF Record, Types, Call
      <3>2. CASE Len(results[call.effect]) \in DOMAIN results[call.effect]
        BY <2>2, <2>3, <3>1, <3>2 DEF Record
      <3>3. CASE Len(results[call.effect]) \notin DOMAIN results[call.effect]
        <4> DEFINE r == results[call.effect]
        <4>1. r \in Seq(SUBSET Result)  BY <3>1 DEF Types
        <4>2. [r EXCEPT ![Len(r)] = @ \union {call.answer}] = r  BY <3>3, <4>1
        <4> QED  BY <2>3, <3>1, <4>1, <4>2 DEF Record, Outcome, Types
      <3> QED  BY <3>2, <3>3
    <2>4. ASSUME NEW e \in Effects, NEW k \in 1 .. MaxOrdinal, Reconcile(e, k)
          PROVE  results' \in [Effects -> Seq(SUBSET Result)]
      <3>1. EdgeRead(e) \in Result  BY DEF EdgeRead, Result
      <3> QED  BY <2>2, <2>4, <3>1 DEF Reconcile
    <2> QED
      BY <2>1, <2>3, <2>4 DEF Types, Next, vars, evidenceVars, effectVars, Submit, Resolve,
         Observe, Activate, Request, Approve, Dispatch, DieInside, Crash, Release
  <1>7. sealedUnder' \in [Effects -> {0} \union DOMAIN Policies]
    <2>1. ASSUME NEW e \in Effects, NEW p \in 1 .. active, Admit(e, p)
          PROVE  sealedUnder' \in [Effects -> {0} \union DOMAIN Policies]
      BY <2>1, AdmitFacts DEF Types
    <2> QED
      BY <2>1 DEF Types, Next, vars, evidenceVars, effectVars, Submit, Resolve, Observe,
         Activate, Request, Approve, Dispatch, DieInside, Record, Crash, Reconcile, Release
  <1>8. call' \in Call \union {NoCall}
    <2>1. ASSUME NEW e \in Effects, NEW p \in 1 .. active, Dispatch(e, p) PROVE call' \in Call
      BY <2>1 DEF Dispatch, Answered, Call, Result
    <2> QED
      BY <2>1 DEF Types, Next, vars, evidenceVars, effectVars, Submit, Resolve, Observe,
         Activate, Request, Approve, DieInside, Record, Crash, Reconcile, Release
  <1> QED  BY <1>1, <1>2, <1>3, <1>4, <1>5, <1>6, <1>7, <1>8 DEF Types

-----------------------------------------------------------------------------
(* What is said of a row, a draft, an approval or an observation once is    *)
(* said for good.                                                           *)
LEMMA Monotone ==
  ASSUME Types, [Next]_vars
  PROVE  /\ \A d \in DOMAIN log : d \in DOMAIN log' /\ log'[d] = log[d]
         /\ \A e \in Effects : drafts[e] # NoDraft => drafts'[e] = drafts[e]
         /\ approved \subseteq approved' /\ observed \subseteq observed'
  <1>1. \A d \in DOMAIN log : d \in DOMAIN log' /\ log'[d] = log[d]
    <2>1. ASSUME NEW e \in Effects, NEW p \in 1 .. active, Dispatch(e, p)
          PROVE  Stamped(drafts[e], e) \in LogRow
      BY <2>1, AdmitFacts, RowSaysItsDraft DEF Dispatch
    <2>2. ASSUME NEW f \in LogRow, log' = Append(log, f)
          PROVE  \A d \in DOMAIN log : d \in DOMAIN log' /\ log'[d] = log[d]
      BY <2>2 DEF Types
    <2> QED  BY <2>1, <2>2, LogStep
  <1>2. \A e \in Effects : drafts[e] # NoDraft => drafts'[e] = drafts[e]
    BY DEF Types, Next, vars, evidenceVars, effectVars, Submit, Resolve, Observe, Activate,
       Request, Approve, Dispatch, DieInside, Record, Crash, Reconcile, Release
  <1>3. approved \subseteq approved' /\ observed \subseteq observed'
    BY DEF Next, vars, evidenceVars, effectVars, Submit, Resolve, Observe, Activate,
       Request, Approve, Dispatch, DieInside, Record, Crash, Reconcile, Release
  <1> QED  BY <1>1, <1>2, <1>3

LEMMA SealedUnderStep ==
  ASSUME Types, [Next]_vars, NEW e \in Effects
  PROVE  \/ sealedUnder'[e] = sealedUnder[e]
         \/ \E p \in 1 .. active : Admit(e, p) /\ sealedUnder'[e] = p
  <1>1. ASSUME NEW e1 \in Effects, NEW p \in 1 .. active, Admit(e1, p)
        PROVE  \/ sealedUnder'[e] = sealedUnder[e]
               \/ e1 = e /\ sealedUnder'[e] = p
    BY <1>1, AdmitFacts DEF Types
  <1> QED
    BY <1>1 DEF Next, vars, evidenceVars, effectVars, Submit, Resolve, Observe, Activate,
       Request, Approve, Dispatch, DieInside, Record, Crash, Reconcile, Release

(* An authority over a draft stays one.  An effect that is dispatched again *)
(* has one under the policy it is now admitted under as well.               *)
LEMMA AuthorityStays ==
  ASSUME Types, [Next]_vars, NEW e \in Effects, NEW f, drafts[e] # NoDraft, AuthorityOf(e, f)
  PROVE  AuthorityOf(e, f)'
  <1>1. drafts'[e] = drafts[e]  BY Monotone
  <1>2. drafts[e] = Semantic(f)  BY DEF AuthorityOf
  <1>3. CASE f.kind = "HUMAN_JUDGMENT"
    BY <1>1, <1>2, <1>3, Monotone DEF AuthorityOf
  <1>4. CASE f.kind # "HUMAN_JUDGMENT"
    <2>1. ASSUME NEW a \in observed PROVE a \in observed' /\ DerivedDraft(a)' = DerivedDraft(a)
      BY Monotone DEF DerivedDraft, Types
    <2>2. PICK a \in observed : DerivedDraft(a) = drafts[e]
      BY <1>4 DEF AuthorityOf, DeterministicAuthorityOk
    <2>3. /\ sealedUnder'[e] # 0
          /\ Policies[sealedUnder'[e]].rules[Transition(drafts[e])] = 1
      <3>1. CASE sealedUnder'[e] = sealedUnder[e]
        BY <1>4, <3>1 DEF AuthorityOf, DeterministicAuthorityOk
      <3>2. ASSUME NEW p \in 1 .. active, Admit(e, p), sealedUnder'[e] = p
            PROVE  <2>3
        <4>1. drafts[e].kind # "HUMAN_JUDGMENT"  BY <1>2, <1>4 DEF Semantic
        <4> QED  BY <3>2, <4>1, AdmitFacts DEF DeterministicAuthorityOk
      <3> QED  BY <3>1, <3>2, SealedUnderStep
    <2>4. Transition(drafts[e])' = Transition(drafts[e])  BY <1>1 DEF Transition
    <2>5. DeterministicAuthorityOk(drafts[e], sealedUnder[e])'
      BY <1>1, <2>1, <2>2, <2>3, <2>4 DEF DeterministicAuthorityOk
    <2> QED  BY <1>1, <1>2, <1>4, <2>3, <2>5 DEF AuthorityOf
  <1> QED  BY <1>3, <1>4

(* Nobody but a dispatch makes a governed row, and it has authority.        *)
LEMMA AuthorizedStep == ASSUME Types, Authorized, [Next]_vars PROVE Authorized'
  <1>1. ASSUME NEW d \in DOMAIN log, log[d].source # Intake
        PROVE  drafts'[log[d].source] # NoDraft /\ AuthorityOf(log[d].source, log[d])'
    <2>1. log[d] \in LogRow /\ log[d].source \in Effects  BY <1>1, RowTyped
    <2>2. PICK e \in Effects, f \in LogRow : e = log[d].source /\ f = log[d]  BY <2>1
    <2>3. drafts[e] # NoDraft /\ AuthorityOf(e, f)  BY <1>1, <2>2 DEF Authorized
    <2>4. AuthorityOf(e, f)' /\ drafts'[e] = drafts[e]  BY <2>3, AuthorityStays, Monotone
    <2>5. log'[d] = log[d]  BY <1>1, Monotone
    <2> QED  BY <2>2, <2>3, <2>4, <2>5 DEF AuthorityOf
  <1>2. ASSUME NEW e \in Effects, NEW p \in 1 .. active, Dispatch(e, p)
        PROVE  drafts'[e] # NoDraft /\ AuthorityOf(e, Stamped(drafts[e], e))'
    <2>1. PICK d \in Draft : d = drafts[e]  BY <1>2, AdmitFacts DEF Dispatch
    <2>2. drafts' = drafts /\ observed' = observed /\ approved' = approved
          /\ sealedUnder'[e] = p /\ p # 0
      BY <1>2, AdmitFacts DEF Dispatch, Types
    <2>3. IF d.kind = "HUMAN_JUDGMENT" THEN e \in approved ELSE DeterministicAuthorityOk(d, p)
      BY <1>2, <2>1, AdmitFacts DEF Dispatch
    <2>4. ASSUME DeterministicAuthorityOk(d, p) PROVE DeterministicAuthorityOk(d, p)'
      <3>1. ASSUME NEW a \in observed PROVE DerivedDraft(a)' = DerivedDraft(a)
        BY Monotone DEF DerivedDraft, Types
      <3> QED  BY <2>2, <2>4, <3>1 DEF DeterministicAuthorityOk, Transition
    <2>5. Stamped(d, e).kind = d.kind /\ Semantic(Stamped(d, e)) = d
      BY RowSaysItsDraft DEF Stamped
    <2> QED
      BY <2>1, <2>2, <2>3, <2>4, <2>5, DraftIsDraft DEF AuthorityOf, DeterministicAuthorityOk
  <1>3. SUFFICES ASSUME NEW d \in DOMAIN log', log'[d].source # Intake
                 PROVE  drafts'[log'[d].source] # NoDraft /\ AuthorityOf(log[d].source, log[d])'
    BY DEF Authorized
  <1>4. CASE d \in DOMAIN log  BY <1>1, <1>3, <1>4, Monotone
  <1>5. CASE d \notin DOMAIN log
    <2>1. ASSUME NEW f \in LogRow, log' = Append(log, f) PROVE log'[d] = f
      BY <1>3, <1>5, <2>1 DEF Types
    <2>2. log' # log  BY <1>3, <1>5
    <2>3. PICK e \in Effects, p \in 1 .. active :
            Dispatch(e, p) /\ log' = Append(log, Stamped(drafts[e], e))
      BY <1>3, <2>1, <2>2, LogStep
    <2>4. drafts[e] \in Draft  BY <2>3, AdmitFacts DEF Dispatch
    <2>5. Stamped(drafts[e], e) \in LogRow /\ Stamped(drafts[e], e).source = e
      BY <2>4, RowSaysItsDraft
    <2>6. log'[d] = Stamped(drafts[e], e)  BY <2>1, <2>3, <2>5
    <2>7. drafts' = drafts  BY <2>3 DEF Dispatch
    <2> QED  BY <1>2, <2>3, <2>5, <2>6, <2>7 DEF AuthorityOf
  <1> QED  BY <1>4, <1>5

-----------------------------------------------------------------------------
(* A row is added to an edge only when no governed row holds it.            *)
LEMMA UniqueStep == ASSUME Types, Unique, [Next]_vars PROVE Unique'
  <1>1. ASSUME NEW f \in LogRow, log' = Append(log, f),
               f.source = Intake \/ \A d \in DOMAIN log :
                  log[d].source # Intake => log[d].supersedes # f.supersedes
        PROVE  Unique'
    <2>1. \A d \in DOMAIN log' : d \in DOMAIN log \/ log'[d] = f  BY <1>1 DEF Types
    <2>2. \A d1, d2 \in DOMAIN log' : d1 \notin DOMAIN log /\ d2 \notin DOMAIN log => d1 = d2
      BY <1>1 DEF Types
    <2> QED  BY <1>1, <2>1, <2>2, Monotone DEF Unique
  <1>2. ASSUME NEW e \in Effects, NEW p \in 1 .. active, Dispatch(e, p), Holder(e) = {},
               log' = Append(log, Stamped(drafts[e], e))
        PROVE  Unique'
    <2>1. drafts[e] \in Draft  BY <1>2, AdmitFacts DEF Dispatch
    <2>2. \A d \in DOMAIN log : log[d].source # Intake => log[d].supersedes # drafts[e].supersedes
      BY <1>2 DEF Holder
    <2> QED  BY <1>1, <1>2, <2>1, <2>2, RowSaysItsDraft
  <1> QED  BY <1>1, <1>2, LogStep DEF Unique

-----------------------------------------------------------------------------
(* The answer of a dispatch is true when it is given.                       *)
LEMMA DispatchIsTrue ==
  ASSUME Types, Authorized, Unique, [Next]_vars,
         NEW e \in Effects, NEW p \in 1 .. active, Dispatch(e, p)
  PROVE  CallIsTrue'
  <1>1. drafts[e] \in Draft /\ drafts' = drafts /\ drafts[e] # NoDraft
    BY AdmitFacts, DraftIsDraft DEF Dispatch
  <1> DEFINE InStoreNow == \E d \in DOMAIN log' :
               log'[d].source # Intake /\ Semantic(log'[d]) = drafts[e]
  <1>2. CASE Answered(e, "UNKNOWN")
    BY <1>1, <1>2 DEF Answered, CallIsTrue
  <1>3. CASE Holder(e) = {} /\ log' = Append(log, Stamped(drafts[e], e)) /\ Answered(e, "COMMITTED")
    <2>1. Stamped(drafts[e], e) \in LogRow /\ Semantic(Stamped(drafts[e], e)) = drafts[e]
          /\ Stamped(drafts[e], e).source # Intake
      BY <1>1, RowSaysItsDraft, ConstantsOk
    <2>2. Len(log) + 1 \in DOMAIN log' /\ log'[Len(log) + 1] = Stamped(drafts[e], e)
      BY <1>3, <2>1 DEF Types
    <2>3. InStoreNow  BY <2>1, <2>2
    <2> QED  BY <1>1, <1>3, <2>3 DEF Answered, CallIsTrue, InStore
  <1>4. CASE (\E d \in Holder(e) : Semantic(log[d]) = drafts[e]) /\ Answered(e, "COMMITTED")
             /\ log' = log
    <2>1. \A d \in Holder(e) : d \in DOMAIN log /\ log[d].source # Intake
      BY ConstantsOk DEF Holder
    <2>2. InStoreNow  BY <1>4, <2>1
    <2> QED  BY <1>1, <1>4, <2>2 DEF Answered, CallIsTrue, InStore
  <1>5. CASE (\E d \in Holder(e) : Semantic(log[d]) # drafts[e])
             /\ Answered(e, "NO_EFFECT_CONFIRMED") /\ log' = log
    <2>1. PICK d \in Holder(e) : Semantic(log[d]) # drafts[e]  BY <1>5
    <2>2. log[d].source # e
      BY <2>1, ConstantsOk DEF Holder, Authorized, AuthorityOf
    <2>3. d \in DOMAIN log /\ log[d].source # Intake /\ log[d].supersedes = drafts[e].supersedes
      BY <2>2 DEF Holder
    <2>4. ASSUME NEW x \in DOMAIN log, log[x].source # Intake, Semantic(log[x]) = drafts[e]
          PROVE  FALSE
      <3>1. log[x].supersedes = drafts[e].supersedes  BY <2>4 DEF Semantic
      <3>2. x = d  BY <2>3, <2>4, <3>1 DEF Unique
      <3> QED  BY <2>1, <2>4, <3>2
    <2>5. ~InStoreNow  BY <1>5, <2>4
    <2> QED  BY <1>1, <1>5, <2>5 DEF Answered, CallIsTrue, InStore
  <1> QED  BY <1>2, <1>3, <1>4, <1>5 DEF Dispatch

(* While a dispatch waits to be recorded nobody else dispatches, so the     *)
(* governed rows are those it saw.                                          *)
LEMMA CallStep ==
  ASSUME Types, Authorized, Unique, CallIsTrue, [Next]_vars PROVE CallIsTrue'
  <1>1. ASSUME NEW e \in Effects, NEW p \in 1 .. active, Dispatch(e, p) PROVE CallIsTrue'
    BY <1>1, DispatchIsTrue
  <1>2. CASE call' = NoCall  BY <1>2 DEF CallIsTrue
  <1>3. CASE call' = call /\ call # NoCall
             /\ (log' = log \/ \E f \in LogRow : f.source = Intake /\ log' = Append(log, f))
    <2>1. PICK e \in Effects : e = call.effect  BY <1>3 DEF Types, Call
    <2>2. drafts[e] # NoDraft /\ drafts'[e] = drafts[e]
      BY <1>3, <2>1, Monotone DEF CallIsTrue
    <2>3. ASSUME NEW f \in LogRow, log' = Append(log, f)
          PROVE  \A d \in DOMAIN log' : d \in DOMAIN log \/ log'[d] = f
      BY <2>3 DEF Types
    <2>4. \A d \in DOMAIN log' :
             log'[d].source # Intake => d \in DOMAIN log /\ log'[d] = log[d]
      BY <1>3, <2>3, Monotone
    <2>5. (\E d \in DOMAIN log' : log'[d].source # Intake /\ Semantic(log'[d]) = drafts'[e])
          <=> InStore(e)
      BY <2>2, <2>4, Monotone DEF InStore
    <2> QED  BY <1>3, <2>1, <2>2, <2>5 DEF CallIsTrue, InStore
  <1>4. \/ \E e \in Effects, p \in 1 .. active : Dispatch(e, p)
        \/ call' = NoCall
        \/ call' = call /\ (log' = log \/ \E f \in LogRow : f.source = Intake /\ log' = Append(log, f))
    <2>1. \/ \E e \in Effects, p \in 1 .. active : Dispatch(e, p)
          \/ call' = NoCall \/ call' = call
      BY DEF Next, vars, effectVars, Submit, Resolve, Observe, Activate, Request, Approve,
         DieInside, Record, Crash, Reconcile, Release
    <2> QED  BY <2>1, LogStep
  <1> QED  BY <1>1, <1>2, <1>3, <1>4

-----------------------------------------------------------------------------
(* All four parts hold in every reachable state.                            *)
THEOREM Invariance == Spec => []IInv
  <1>1. Init => IInv
    <2> SUFFICES ASSUME Init PROVE IInv  OBVIOUS
    <2>1. PICK s \in Subjects : log = <<Claimed(TRUE, s, {})>>  BY DEF Init
    <2>2. Claimed(TRUE, s, {}) \in LogRow /\ Claimed(TRUE, s, {}).source = Intake
      BY DEF Claimed, LogRow, Kinds
    <2>3. DOMAIN log = {1} /\ log[1] = Claimed(TRUE, s, {})  BY <2>1
    <2>4. Types
      <3>1. log \in Seq(LogRow)
        <4>1. \A S : \A x \in S : <<x>> \in Seq(S)  OBVIOUS
        <4> QED  BY <2>1, <2>2, <4>1
      <3>2. active \in DOMAIN Policies  BY ConstantsOk DEF Init
      <3>3. /\ drafts \in [Effects -> Draft \union {NoDraft}]
            /\ results \in [Effects -> Seq(SUBSET Result)]
            /\ sealedUnder \in [Effects -> {0} \union DOMAIN Policies]
        <4>1. << >> \in Seq(SUBSET Result)  OBVIOUS
        <4> QED  BY <4>1 DEF Init
      <3>4. observed = {} /\ approved = {} /\ call = NoCall  BY DEF Init
      <3> QED  BY <3>1, <3>2, <3>3, <3>4 DEF Types
    <2>5. Authorized /\ Unique  BY <2>2, <2>3 DEF Authorized, Unique
    <2>6. CallIsTrue  BY DEF Init, CallIsTrue
    <2> QED  BY <2>4, <2>5, <2>6 DEF IInv
  <1>2. IInv /\ [Next]_vars => IInv'
    BY TypeStep, AuthorizedStep, UniqueStep, CallStep DEF IInv
  <1> QED  BY <1>1, <1>2, PTL DEF Spec

(* Whatever subset of the findings a caller presents, work starts or goes   *)
(* on only over contract findings that were handed on or closed by an       *)
(* authority (referencePolicy.ts contract_barrier).                         *)
THEOREM ReleasesAreCleared == Spec => []ReleasedIsCleared
  <1>1. IInv => ReleasedIsCleared
    <2> SUFFICES ASSUME IInv, NEW t \in DOMAIN log, NEW P \in SUBSET DOMAIN log,
                        StartAllowed(t, P) \/ MutationAllowed(t, P)
                 PROVE  Cleared(t)
      BY DEF ReleasedIsCleared
    <2>1. ~Contract(t) /\ ~ContractBarrier(t, P)
      BY DEF StartAllowed, MutationAllowed, ImplementationClear
    <2>2. ASSUME NEW d \in Ancestry(t), NEW c \in log[d].supersedes, Contract(c)
          PROVE  Carried(c, d)
      <3>1. d \in DOMAIN log  BY <2>1 DEF ContractBarrier
      <3>2. EntryResolved(c, d, P) \/ Landed(c)  BY <2>1, <2>2 DEF ContractBarrier
      <3>3. ASSUME GovernedTransition(d)
            PROVE  log[d].source \in Effects /\ AuthorityOf(log[d].source, log[d])
        BY <3>1, <3>3, RowTyped DEF IInv, Authorized, GovernedTransition
      <3> QED
        BY <3>2, <3>3 DEF EntryResolved, ClearingEdge, DelegationEdge, TransferEdge, Carried
    <2> QED  BY <2>1, <2>2 DEF Cleared
  <1> QED  BY <1>1, Invariance, PTL

(* No predecessor ever has two governed successors (insertGovernedEvidence).*)
THEOREM EdgesAreSingle == Spec => []OneGovernedEdge
  <1>1. IInv => OneGovernedEdge
    BY DEF IInv, Unique, OneGovernedEdge, Ambiguous, GovernedResolver, ClearingEdge,
       TransferEdge, SolePredecessor, GovernedTransition
  <1> QED  BY <1>1, Invariance, PTL

(* Every outcome of a seal is true when it is recorded: by the dispatch, or *)
(* by any reconcile after a crash (findingSeal.ts).                         *)
THEOREM SealOutcomesAreTrue == Spec => SealOutcomeIsTrue
  <1> DEFINE A == \A e \in Effects : \A k \in DOMAIN results[e] :
               LET new == results'[e][k] \ results[e][k] IN
               /\ "COMMITTED" \in new => InStore(e)
               /\ "NO_EFFECT_CONFIRMED" \in new => ~InStore(e)
  <1>1. IInv /\ [Next]_vars => A
    <2> SUFFICES ASSUME IInv, [Next]_vars, NEW e \in Effects, NEW k \in DOMAIN results[e]
                 PROVE  /\ "COMMITTED" \in results'[e][k] \ results[e][k] => InStore(e)
                        /\ "NO_EFFECT_CONFIRMED" \in results'[e][k] \ results[e][k] => ~InStore(e)
      OBVIOUS
    <2>1. Types  BY DEF IInv
    <2>2. results[e] \in Seq(SUBSET Result)  BY <2>1 DEF Types
    <2>3. CASE results'[e][k] = results[e][k]  BY <2>3
    <2>4. ASSUME NEW e1 \in Effects, NEW p \in 1 .. active, Admit(e1, p)
          PROVE  results'[e][k] = results[e][k]
      <3>1. CASE e1 = e
        <4>1. results'[e] = Append(results[e], {})  BY <2>1, <2>4, <3>1, AdmitFacts DEF Types
        <4> QED  BY <2>2, <4>1
      <3>2. CASE e1 # e  BY <2>1, <2>4, <3>2, AdmitFacts DEF Types
      <3> QED  BY <3>1, <3>2
    <2>5. ASSUME NEW e1 \in Effects, NEW j, NEW res, Outcome(e1, j, res)
          PROVE  \/ results'[e][k] = results[e][k]
                 \/ e1 = e /\ results'[e][k] = results[e][k] \union {res}
      BY <2>1, <2>2, <2>5 DEF Outcome, Types
    <2>6. CASE Record
      <3>1. call # NoCall /\ call.effect \in Effects
        BY <2>1, <2>6 DEF Record, Types, Call
      <3>2. \/ results'[e][k] = results[e][k]
            \/ call.effect = e /\ results'[e][k] = results[e][k] \union {call.answer}
        BY <2>5, <2>6, <3>1 DEF Record
      <3> QED  BY <3>1, <3>2 DEF IInv, CallIsTrue
    <2>7. ASSUME NEW e1 \in Effects, NEW j \in 1 .. MaxOrdinal, Reconcile(e1, j)
          PROVE  \/ results'[e][k] = results[e][k]
                 \/ results'[e][k] = results[e][k] \union {EdgeRead(e)}
      BY <2>5, <2>7 DEF Reconcile
    <2>8. CASE results'[e][k] = results[e][k] \union {EdgeRead(e)}
      BY <2>8 DEF EdgeRead, InStore
    <2> QED
      BY <2>3, <2>4, <2>6, <2>7, <2>8 DEF Next, vars, effectVars, Submit, Resolve, Observe,
         Activate, Request, Approve, Dispatch, DieInside, Crash, Release
  <1>2. IInv /\ [Next]_vars => [A]_results  BY <1>1
  <1>3. Spec => [][A]_results  BY <1>2, Invariance, PTL DEF Spec
  <1> QED  BY <1>3 DEF SealOutcomeIsTrue
=============================================================================
