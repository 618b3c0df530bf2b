-------------------------- MODULE WorkFlow_proofs --------------------------
(***************************************************************************)
(* Proofs about WorkFlow, for every number of rounds, steps, records,      *)
(* attempts, faults and abandoned attempts.                                *)
(*                                                                         *)
(* The argument: what is done under an ordinal, by whichever attempt and   *)
(* whichever effect, is one activity for one candidate, and was scheduled  *)
(* by the workflow when everything before it was in place.                 *)
(***************************************************************************)
EXTENDS WorkFlow, FiniteSetTheorems, TLAPS

-----------------------------------------------------------------------------
(* The inductive invariant. *)

(* Types, those TypeOK leaves open included. *)
StepType == [digest : Digests, prior : Digests]
EffectType == [kind : Kinds, of : Ids, rows : Seq(Row), flight : BOOLEAN, times : Nat]
Tables == steps \in [DOMAIN steps -> StepType] /\ fx \in [DOMAIN fx -> EffectType]

(* Where an attempt of each kind can be. *)
PlacesOf(kind) ==
  CASE kind \in SurfaceKinds \union {"implement"} -> {"surface", "step", "done", "failed"}
    [] kind \in GovernedKinds -> Positions \ {"surface"}
    [] kind = "prepare" -> {"evaluate", "step", "done", "failed"}
    [] kind = "merge" -> {"evaluate", "admit", "dispatch", "done"}
    [] OTHER -> {"done"}
InPlace ==
  \A a \in attempts : a.at \in PlacesOf(a.kind) /\ (a.kind # "stop" => a.ord \in 1 .. ord)

Types == TypeOK /\ Tables /\ InPlace

(* The request of a merge is the one its preparation sealed. *)
Line(kind) == IF kind = "merge" THEN "prepare" ELSE kind

(* What an attempt does, or an effect records, under an ordinal. *)
Did(kind, o, c) ==
  \/ \E a \in attempts : a.kind # "stop" /\ Line(a.kind) = kind /\ a.ord = o /\ a.cand = c
  \/ \E k \in DOMAIN fx : fx[k].kind = kind /\ k = <<o, 0>> /\ fx[k].of = c

(* It is one thing, and that of the last ordinal is what the workflow waits *)
(* for.                                                                     *)
OneThing ==
  /\ \A kind, o, c : Did(kind, o, c) => o \in 1 .. ord
  /\ \A kind, o, c, other, d : Did(kind, o, c) /\ Did(other, o, d) => kind = other /\ c = d
  /\ (busy # 0 /\ stage # "stop") \/ stage = "merge" =>
       \A kind, o, c : Did(kind, o, c) /\ o = ord => kind = Line(stage) /\ c = cand
  /\ \A k \in DOMAIN fx : k = <<k[1], 0>>

(* A request is sealed before it is admitted, and a merge prepared. *)
Prepared ==
  /\ stage = "merge" => <<ord, 0>> \in DOMAIN fx
  /\ \A a \in attempts : \/ a.at \in {"admit", "dispatch", "reread"}
                         \/ a.kind = "merge"
                         \/ a.kind = "prepare" /\ a.at \in {"step", "done", "failed"}
                         => Key(a) \in DOMAIN fx

(* A candidate is pushed by the step after the one that made it. *)
PushFollows ==
  /\ \A o, c : Did("push", o, c) => c[1] = o - 1
  /\ stage = "push" /\ report = Running => cand[1] = IF busy = 0 THEN ord ELSE ord - 1

(* The pull request and its merge are steps of their own, and the last. *)
Once ==
  \A kind \in {"pr", "prepare"} : \A o, c :
    Did(kind, o, c) =>
      /\ \A p, d : Did(kind, p, d) => p = o
      /\ stage \in (IF kind = "pr" THEN {"pr"} ELSE {}) \union {"prepare", "merge", "stop"}
      /\ stage = kind /\ report = Running => busy # 0

(* An effect that took place is told of, and only then; a pull request is   *)
(* asked for again only if it was not opened.                               *)
Told ==
  /\ \A k \in DOMAIN fx : Has(k, "COMMITTED") => Taken(k)
  /\ \A k \in DOMAIN fx : fx[k].kind = "pr" =>
       /\ fx[k].times <= 1
       /\ fx[k].flight => fx[k].times = 0
       /\ Latest(k) \in {"none", "NO_EFFECT_CONFIRMED"} => fx[k].times = 0 /\ ~fx[k].flight
  /\ \A a \in attempts : a.val = "COMMITTED" => Key(a) \in DOMAIN fx /\ Taken(Key(a))

(* What an attempt found is evidence about its candidate. *)
Found ==
  \A a \in attempts : a.kind \in SurfaceKinds /\ a.at # "surface" => Seen(a.kind, a.cand, a.val)

Pushed(c) == \E k \in EffectsOf("push") : fx[k].of = c
Approvable(c) ==
  /\ Pushed(c)
  /\ Seen("verify", c, "success") /\ Seen("review", c, "APPROVE")
  /\ args.external => Seen("external", c, "success")

(* What has been established of the candidate when a stage is reached. *)
Established ==
  /\ stage \in {"implement", "push", "verify"} => checks = Unchecked
  /\ stage \in {"verify", "external", "review", "pr", "prepare", "merge"} => Pushed(cand)
  /\ checks.verify = "success" => Seen("verify", cand, "success")
  /\ stage = "review" /\ args.external => Seen("external", cand, "success")
  /\ stage \in {"pr", "prepare", "merge"} => Approvable(cand)
  /\ stage \in {"prepare", "merge"} => \E k \in EffectsOf("pr") : fx[k].of = cand
  /\ \A o, c : Did("pr", o, c) \/ Did("prepare", o, c) => Approvable(c)

(* A run of the record vertical writes one record after the other. *)
Recorded ==
  /\ IF args.vertical = "record" THEN stage \in {"record", "stop"} ELSE stage # "record"
  /\ \A o, c : Did("record", o, c) => o <= Records
  /\ stage = "record" /\ report = Running =>
       /\ busy = 0 => ord < Records
       /\ \A i \in 1 .. (IF busy = 0 THEN ord ELSE ord - 1) : <<i, 0>> \in EffectsOf("record")

Reported ==
  report.end = "completed" =>
    IF args.vertical = "record"
    THEN \A i \in 1 .. Records : <<i, 0>> \in EffectsOf("record")
    ELSE /\ \E k \in EffectsOf("pr") : fx[k].of = cand
         /\ report.stage = "merge" => \E k \in EffectsOf("prepare") : fx[k].of = cand

(* d is the digest of the step before ordinal o. *)
Follows(o, d) ==
  \/ o = 1 /\ d = NoDigest
  \/ o - 1 \in DOMAIN steps /\ d = steps[o - 1].digest

Linked ==
  /\ \A k \in DOMAIN steps : Follows(k, steps[k].prior)
  /\ \A a \in attempts : a.kind \notin {"merge", "stop"} =>
       /\ Follows(a.ord, a.prior)
       /\ a.at = "done" => a.ord \in DOMAIN steps /\ steps[a.ord].digest = StepOf(a).digest
  /\ report = Running /\ stage \notin {"merge", "stop"} =>
       Follows(IF busy = 0 THEN ord + 1 ELSE ord, prior)

IInv ==
  /\ Types /\ OneThing /\ Prepared /\ PushFollows /\ Once
  /\ Told /\ Found /\ Established /\ Recorded /\ Reported /\ Linked

-----------------------------------------------------------------------------
(* Types. *)

LEMMA AttemptFields ==
  ASSUME Types, NEW a \in attempts
  PROVE  /\ a \in Attempt /\ a.kind \in Kinds /\ a.n \in 1 .. MaxAttempts /\ a.ord \in Nat
         /\ a.cand \in Ids /\ a.prior \in Digests /\ a.val \in Values
         /\ a.at \in PlacesOf(a.kind)
         /\ a.kind # "stop" => a.ord \in 1 .. ord /\ a.ord \in Ordinals /\ Key(a) \in Ids
<1>1. a \in Attempt /\ a.at \in PlacesOf(a.kind) /\ (a.kind # "stop" => a.ord \in 1 .. ord)
  BY DEF Types, TypeOK, InPlace
<1>2. /\ a.kind \in Kinds /\ a.n \in 1 .. MaxAttempts /\ a.ord \in Ordinals \union {MaxSteps + 1}
      /\ a.cand \in Ids /\ a.prior \in Digests /\ a.val \in Values
  BY <1>1 DEF Attempt
<1>3. ord \in 0 .. MaxSteps /\ MaxSteps \in Nat /\ MaxAttempts \in Nat
  BY BoundsOk DEF Types, TypeOK
<1>4. a.kind # "stop" => a.ord \in Ordinals /\ Key(a) \in Ids
  BY <1>1, <1>2, <1>3 DEF Ordinals, Key, Ids
<1> QED BY <1>1, <1>2, <1>3, <1>4 DEF Ordinals

LEMMA Places ==
  ASSUME NEW kind \in Kinds PROVE PlacesOf(kind) \subseteq Positions
BY DEF PlacesOf, Positions

LEMMA GotoTypes ==
  ASSUME Types, NEW a \in attempts, NEW at \in PlacesOf(a.kind), NEW val \in Values,
         Goto(a, at, val), UNCHANGED ord
  PROVE  attempts' \subseteq Attempt /\ InPlace'
<1> DEFINE b == [a EXCEPT !.at = at, !.val = val]
<1>1. a \in Attempt /\ at \in Positions
  BY AttemptFields, Places
<1>2. /\ b \in Attempt /\ b.at = at /\ b.kind = a.kind /\ b.ord = a.ord
  BY <1>1 DEF Attempt
<1>3. attempts' = (attempts \ {a}) \union {b}
  BY DEF Goto, Become
<1>4. attempts \subseteq Attempt
  BY DEF Types, TypeOK
<1>5. \A x \in attempts : x.at \in PlacesOf(x.kind) /\ (x.kind # "stop" => x.ord \in 1 .. ord)
  BY DEF Types, InPlace
<1>6. b.at \in PlacesOf(b.kind) /\ (b.kind # "stop" => b.ord \in 1 .. ord)
  BY <1>2, <1>5
<1> HIDE DEF b
<1>7. InPlace'
  BY <1>3, <1>5, <1>6 DEF InPlace
<1> QED BY <1>2, <1>3, <1>4, <1>7

RowsBounded == \A k \in DOMAIN fx : Len(fx[k].rows) <= MaxAdmissions

(* What TypeOK says of the tables follows from their types. *)
TablesInRange ==
  /\ Range(steps) \subseteq StepType
  /\ \A f \in Range(fx) : /\ f.kind \in Kinds /\ f.of \in Ids
                          /\ Len(f.rows) <= MaxAdmissions /\ Range(f.rows) \subseteq Row
                          /\ f.flight \in BOOLEAN /\ f.times \in Nat

LEMMA TablesTyped == Tables /\ RowsBounded => TablesInRange
<1> SUFFICES ASSUME Tables, RowsBounded PROVE TablesInRange
  OBVIOUS
<1>1. Range(steps) \subseteq StepType
  BY DEF Tables, Range
<1>2. ASSUME NEW k \in DOMAIN fx
      PROVE  /\ fx[k].kind \in Kinds /\ fx[k].of \in Ids /\ Range(fx[k].rows) \subseteq Row
             /\ fx[k].flight \in BOOLEAN /\ fx[k].times \in Nat
  <2>1. fx[k] \in EffectType
    BY DEF Tables
  <2> QED BY <2>1 DEF EffectType, Range
<1> QED BY <1>1, <1>2 DEF Range, RowsBounded, TablesInRange

LEMMA TablesTypedNext == Tables' /\ RowsBounded' => TablesInRange'
BY TablesTyped, PTL

LEMMA EffectFields ==
  ASSUME Types, NEW k \in DOMAIN fx
  PROVE  /\ fx[k] \in EffectType /\ k \in Ids
         /\ fx[k].kind \in Kinds /\ fx[k].of \in Ids /\ fx[k].rows \in Seq(Row)
         /\ fx[k].flight \in BOOLEAN /\ fx[k].times \in Nat
         /\ Len(fx[k].rows) <= MaxAdmissions
<1>1. fx[k] \in EffectType /\ k \in Ids
  BY DEF Types, Tables, TypeOK
<1>2. Len(fx[k].rows) <= MaxAdmissions
  BY DEF Types, TypeOK, Range
<1> QED BY <1>1, <1>2 DEF EffectType

(* The types after a step of an attempt, given those of what it changed. *)
LEMMA TypesOfWork ==
  ASSUME Types, NEW a \in attempts, NEW at \in PlacesOf(a.kind), NEW val \in Values,
         Goto(a, at, val), UNCHANGED <<workflowVars, faults>>,
         Tables', DOMAIN steps' \subseteq Ordinals, DOMAIN fx' \subseteq Ids,
         RowsBounded', held' \in BOOLEAN,
         \A e \in evidence' : e \in [kind : SurfaceKinds, of : Ids, val : Values, id : Ids]
  PROVE  Types'
<1>1. attempts' \subseteq Attempt /\ InPlace'
  BY GotoTypes DEF workflowVars
<1>2. TablesInRange'
  BY TablesTypedNext
<1>3. TypeOK'
  BY <1>1, <1>2 DEF TablesInRange, Types, TypeOK, workflowVars, StepType
<1> QED BY <1>1, <1>3 DEF Types

LEMMA PlacesByKind ==
  ASSUME NEW kind
  PROVE  /\ kind \in SurfaceKinds \union {"implement"} =>
              PlacesOf(kind) = {"surface", "step", "done", "failed"}
         /\ kind \in GovernedKinds => PlacesOf(kind) = Positions \ {"surface"}
         /\ kind = "prepare" => PlacesOf(kind) = {"evaluate", "step", "done", "failed"}
         /\ kind = "merge" => PlacesOf(kind) = {"evaluate", "admit", "dispatch", "done"}
         /\ kind = "stop" => PlacesOf(kind) = {"done"}
BY DEF PlacesOf, SurfaceKinds, GovernedKinds

LEMMA LatestRow ==
  ASSUME Types, NEW k
  PROVE  /\ Rows(k) \in Seq(Row)
         /\ Latest(k) \in Row \union {"none"}
         /\ Latest(k) # "none" => k \in DOMAIN fx /\ Latest(k) = fx[k].rows[Len(fx[k].rows)]
                                  /\ Len(fx[k].rows) > 0
<1>1. CASE k \notin DOMAIN fx
  BY <1>1 DEF Latest, Rows
<1>2. CASE k \in DOMAIN fx
  <2>1. fx[k].rows \in Seq(Row) /\ Rows(k) = fx[k].rows
    BY <1>2, EffectFields DEF Rows
  <2>2. CASE fx[k].rows = <<>>
    BY <2>1, <2>2 DEF Latest
  <2>3. CASE fx[k].rows # <<>>
    <3>1. Len(fx[k].rows) \in Nat \ {0} /\ fx[k].rows[Len(fx[k].rows)] \in Row
      BY <2>1, <2>3
    <3>2. Latest(k) = fx[k].rows[Len(fx[k].rows)]
      BY <2>1, <2>3 DEF Latest
    <3>3. "none" \notin Row
      BY DEF Row, Conclusive
    <3> QED BY <1>2, <2>1, <3>1, <3>2, <3>3
  <2> QED BY <2>2, <2>3
<1> QED BY <1>1, <1>2

(* A step of an attempt moves it, and nothing of the workflow. *)
LEMMA WorksMoves ==
  ASSUME Types, NEW a \in attempts, Works(a)
  PROVE  /\ \E at \in PlacesOf(a.kind), val \in Values : Goto(a, at, val)
         /\ UNCHANGED <<workflowVars, faults>>
<1>1. a.kind \in Kinds /\ a.at \in PlacesOf(a.kind) /\ a.val \in Values
  BY AttemptFields
<1>2. CASE Surface(a)
  <2>1. PICK v \in Answers(a.kind) : Goto(a, "step", v)
    BY <1>2 DEF Surface
  <2>2. a.kind \in SurfaceKinds \union {"implement"}
    BY <1>1, <1>2 DEF Surface, PlacesOf, Positions
  <2>3. "step" \in PlacesOf(a.kind)
    BY <2>2, PlacesByKind
  <2>4. Answers(a.kind) \in {{"none"}, {"APPROVE", "REQUEST_CHANGES"}, {"success", "failure"}}
    BY DEF Answers
  <2>5. v \in Values
    BY <2>1, <2>4 DEF Values
  <2> QED BY <1>2, <2>1, <2>3, <2>5 DEF Surface
<1>3. CASE ReadState(a)
  <2>1. {"step", "evaluate", "reconcile"} \subseteq PlacesOf(a.kind)
    BY <1>1, <1>3 DEF ReadState, PlacesOf, Positions, GovernedKinds, SurfaceKinds
  <2>2. \E at \in {"step", "evaluate", "reconcile"}, val \in {"COMMITTED", "none"} : Goto(a, at, val)
    BY <1>3 DEF ReadState
  <2> QED BY <1>3, <2>1, <2>2 DEF ReadState, Values, Outcomes, Conclusive
<1>4. CASE ReadReconciled(a)
  <2>1. {"step", "evaluate"} \subseteq PlacesOf(a.kind)
    BY <1>1, <1>4 DEF ReadReconciled, PlacesOf, Positions, GovernedKinds, SurfaceKinds
  <2>2. \E at \in {"step", "evaluate"}, val \in {"COMMITTED", "UNKNOWN", "none"} : Goto(a, at, val)
    BY <1>4 DEF ReadReconciled, Unresolved
  <2> QED BY <1>4, <2>1, <2>2 DEF ReadReconciled, Values, Outcomes, Conclusive
<1>5. CASE SealAndEvaluate(a)
  <2>1. \E at \in {"admit", "step", "done"}, val \in {"none", "DENIED", "human", "auto"} :
          Goto(a, at, val) /\ at \in PlacesOf(a.kind)
    BY <1>5 DEF SealAndEvaluate, PlacesOf, Positions, GovernedKinds, SurfaceKinds
  <2> QED BY <1>5, <2>1 DEF SealAndEvaluate, Values, Outcomes, Conclusive
<1>6. CASE Admit(a)
  <2>1. \E at \in {"dispatch", "step", "done"}, val \in {"none", "REFUSED"} :
          Goto(a, at, val) /\ at \in PlacesOf(a.kind)
    BY <1>1, <1>6 DEF Admit, Concluded, PlacesOf, Positions, GovernedKinds, SurfaceKinds
  <2> QED BY <1>6, <2>1 DEF Admit, Values, Outcomes, Conclusive
<1>7. CASE Dispatched(a)
  <2>1. {"step", "done", "reread"} \subseteq Positions
    BY DEF Positions
  <2>2. Latest(Key(a)) \in Values
    BY <1>7, LatestRow DEF Dispatched, Row, Values, Outcomes
  <2>3. a.kind # "merge" => {"step", "reread"} \subseteq PlacesOf(a.kind)
    BY <1>1, <1>7 DEF Dispatched, PlacesOf, Positions, GovernedKinds, SurfaceKinds
  <2> QED BY <1>1, <1>7, <2>1, <2>2, <2>3 DEF Dispatched, Concluded, PlacesOf, Values, GovernedKinds, SurfaceKinds
<1>8. CASE ReadAgain(a)
  <2>1. "step" \in PlacesOf(a.kind)
    BY <1>1, <1>8 DEF ReadAgain, PlacesOf, Positions, GovernedKinds, SurfaceKinds
  <2> QED BY <1>8, <2>1 DEF ReadAgain, Values, Outcomes, Conclusive
<1>9. CASE SubmitStep(a)
  <2>1. {"done", "failed"} \subseteq PlacesOf(a.kind)
    BY <1>1, <1>9 DEF SubmitStep, PlacesOf, Positions, GovernedKinds, SurfaceKinds, Kinds
  <2> QED BY <1>1, <1>9, <2>1 DEF SubmitStep
<1> QED BY <1>2, <1>3, <1>4, <1>5, <1>6, <1>7, <1>8, <1>9 DEF Works

-----------------------------------------------------------------------------
(* The table of effects after each step that writes it. *)

LEMMA SealWrites ==
  ASSUME Types, NEW a \in attempts, SealAndEvaluate(a)
  PROVE  /\ fx' \in [DOMAIN fx' -> EffectType] /\ DOMAIN fx' = DOMAIN fx \union {Key(a)}
         /\ \A k \in DOMAIN fx : fx'[k] = fx[k]
         /\ Key(a) \notin DOMAIN fx => fx'[Key(a)] = Sealed(a.kind, a.cand)
         /\ a.kind # "stop" /\ DOMAIN fx' \subseteq Ids /\ RowsBounded'
<1> DEFINE K == Key(a)
           s == Sealed(a.kind, a.cand)
<1>1. a.kind # "stop" /\ K \in Ids /\ a.kind \in Kinds /\ a.cand \in Ids
  BY AttemptFields, PlacesByKind DEF SealAndEvaluate
<1>2. s \in EffectType /\ Len(s.rows) = 0
  BY <1>1 DEF Sealed, EffectType
<1>3. fx \in [DOMAIN fx -> EffectType] /\ DOMAIN fx \subseteq Ids
  BY DEF Types, Tables, TypeOK
<1>4. \A k \in DOMAIN fx : Len(fx[k].rows) <= MaxAdmissions
  BY EffectFields
<1>5. MaxAdmissions \in Nat
  BY BoundsOk
<1>6. CASE K \in DOMAIN fx
  <2>1. fx' = fx
    BY <1>6 DEF SealAndEvaluate
  <2> QED BY <1>1, <1>3, <1>4, <1>6, <2>1 DEF RowsBounded
<1>7. CASE K \notin DOMAIN fx
  <2>1. fx' = Put(fx, K, s)
    BY <1>7 DEF SealAndEvaluate
  <2> HIDE DEF K, s
  <2>2. /\ fx' \in [DOMAIN fx' -> EffectType] /\ DOMAIN fx' = DOMAIN fx \union {K}
        /\ fx'[K] = s /\ \A k \in DOMAIN fx : fx'[k] = fx[k]
    BY <1>2, <1>3, <1>7, <2>1 DEF Put
  <2>3. RowsBounded'
    BY <1>2, <1>4, <1>5, <2>2 DEF RowsBounded
  <2> QED BY <1>1, <1>3, <1>7, <2>2, <2>3 DEF K, s
<1> QED BY <1>6, <1>7

LEMMA EffectRewritten ==
  ASSUME NEW f \in EffectType, NEW r \in Seq(Row), NEW flight \in BOOLEAN
  PROVE  LET g == [f EXCEPT !.rows = r, !.flight = flight]
         IN  /\ g \in EffectType /\ g.rows = r /\ g.flight = flight
             /\ g.kind = f.kind /\ g.of = f.of /\ g.times = f.times
BY DEF EffectType

LEMMA AdmitWrites ==
  ASSUME Types, Prepared, NEW a \in attempts, Admit(a), fx' # fx
  PROVE  /\ fx' \in [DOMAIN fx -> EffectType] /\ DOMAIN fx' = DOMAIN fx /\ RowsBounded'
         /\ Key(a) \in DOMAIN fx /\ Admissible(Key(a)) /\ a.kind # "stop"
         /\ \A k \in DOMAIN fx : k # Key(a) => fx'[k] = fx[k]
         /\ fx'[Key(a)].rows = Append(fx[Key(a)].rows, "PENDING") /\ fx'[Key(a)].flight
         /\ fx'[Key(a)].kind = fx[Key(a)].kind /\ fx'[Key(a)].of = fx[Key(a)].of
         /\ fx'[Key(a)].times = fx[Key(a)].times
<1> DEFINE K == Key(a)
           r == Append(fx[K].rows, "PENDING")
           g == [fx[K] EXCEPT !.rows = r, !.flight = TRUE]
<1>1. /\ fx' = [fx EXCEPT ![K].rows = Append(@, "PENDING"), ![K].flight = TRUE]
      /\ Admissible(K) /\ a.at = "admit"
  BY DEF Admit
<1>2. a.kind # "stop" /\ K \in DOMAIN fx
  BY <1>1, AttemptFields, PlacesByKind DEF Prepared
<1>3. fx' = [fx EXCEPT ![K] = g]
  BY <1>1, <1>2
<1>4. fx[K] \in EffectType /\ fx[K].rows \in Seq(Row) /\ "PENDING" \in Row
  BY <1>2, EffectFields DEF Row
<1>5. /\ g \in EffectType /\ g.rows = r /\ g.flight = TRUE
      /\ g.kind = fx[K].kind /\ g.of = fx[K].of /\ g.times = fx[K].times
  <2>1. r \in Seq(Row)
    BY <1>4
  <2> HIDE DEF r, K
  <2> QED BY <1>4, <2>1, EffectRewritten
<1>6. Len(g.rows) <= MaxAdmissions
  <2>1. Len(fx[K].rows) < MaxAdmissions
    BY <1>1, <1>2 DEF Admissible, Rows
  <2> QED BY <1>4, <1>5, <2>1, BoundsOk
<1>7. fx \in [DOMAIN fx -> EffectType] /\ \A k \in DOMAIN fx : Len(fx[k].rows) <= MaxAdmissions
  BY EffectFields DEF Types, Tables
<1> HIDE DEF g
<1>8. RowsBounded'
  BY <1>2, <1>3, <1>6, <1>7 DEF RowsBounded
<1> QED BY <1>1, <1>2, <1>3, <1>5, <1>7, <1>8

LEMMA LandWrites ==
  ASSUME Types, NEW k \in DOMAIN fx, Land(k)
  PROVE  /\ fx' \in [DOMAIN fx -> EffectType] /\ DOMAIN fx' = DOMAIN fx /\ RowsBounded'
         /\ \A l \in DOMAIN fx : l # k => fx'[l] = fx[l]
         /\ fx'[k].rows = fx[k].rows /\ fx'[k].kind = fx[k].kind /\ fx'[k].of = fx[k].of
         /\ fx[k].flight = TRUE /\ fx'[k].flight = FALSE
         /\ \/ fx'[k].times = fx[k].times
            \/ fx'[k].times = IF fx[k].kind = "pr" THEN fx[k].times + 1 ELSE 1
<1> DEFINE t == IF fx[k].kind = "pr" THEN fx[k].times + 1 ELSE 1
<1>1. fx[k] \in EffectType /\ fx[k].times \in Nat /\ t \in Nat
  BY EffectFields
<1>2. PICK g : /\ fx' = [fx EXCEPT ![k] = g]
               /\ \/ g = [fx[k] EXCEPT !.flight = FALSE, !.times = t]
                  \/ g = [fx[k] EXCEPT !.flight = FALSE]
  BY DEF Land, Took
<1>3. /\ g \in EffectType /\ g.rows = fx[k].rows /\ g.kind = fx[k].kind /\ g.of = fx[k].of
      /\ g.flight = FALSE /\ (g.times = fx[k].times \/ g.times = t)
  <2> HIDE DEF t
  <2>1. CASE g = [fx[k] EXCEPT !.flight = FALSE, !.times = t]
    BY <1>1, <2>1 DEF EffectType
  <2>2. CASE g = [fx[k] EXCEPT !.flight = FALSE]
    BY <1>1, <2>2 DEF EffectType
  <2> QED BY <1>2, <2>1, <2>2
<1>4. fx \in [DOMAIN fx -> EffectType] /\ \A l \in DOMAIN fx : Len(fx[l].rows) <= MaxAdmissions
  BY EffectFields DEF Types, Tables
<1>5. fx[k].flight = TRUE
  BY <1>1 DEF Land, EffectType
<1>6. RowsBounded'
  BY <1>2, <1>3, <1>4 DEF RowsBounded
<1> QED BY <1>2, <1>3, <1>4, <1>5, <1>6

LEMMA ObserveWrites ==
  ASSUME Types, NEW k \in DOMAIN fx, NEW r \in Row, Observe(k, r)
  PROVE  /\ fx' \in [DOMAIN fx -> EffectType] /\ DOMAIN fx' = DOMAIN fx /\ RowsBounded'
         /\ \A l \in DOMAIN fx : l # k => fx'[l] = fx[l]
         /\ fx[k].rows \in Seq(Row) /\ Len(fx[k].rows) \in Nat \ {0}
         /\ fx'[k].rows = [fx[k].rows EXCEPT ![Len(fx[k].rows)] = r]
         /\ fx'[k].kind = fx[k].kind /\ fx'[k].of = fx[k].of
         /\ fx'[k].flight = fx[k].flight /\ fx'[k].times = fx[k].times
<1> DEFINE rows == [fx[k].rows EXCEPT ![Len(fx[k].rows)] = r]
           g == [fx[k] EXCEPT !.rows = rows]
<1>1. fx[k] \in EffectType /\ fx[k].rows \in Seq(Row) /\ Len(fx[k].rows) <= MaxAdmissions
  BY EffectFields
<1>2. fx' = [fx EXCEPT ![k] = g]
  BY DEF Observe
<1>3. Len(fx[k].rows) \in Nat \ {0}
  <2>1. Latest(k) # "none"
    BY DEF Observe
  <2> QED BY <1>1, <2>1, LatestRow
<1>4. rows \in Seq(Row) /\ Len(rows) = Len(fx[k].rows)
  BY <1>1, <1>3
<1> HIDE DEF rows
<1>5. /\ g \in EffectType /\ g.rows = rows /\ g.kind = fx[k].kind /\ g.of = fx[k].of
      /\ g.flight = fx[k].flight /\ g.times = fx[k].times
  BY <1>1, <1>4 DEF EffectType
<1>6. fx \in [DOMAIN fx -> EffectType] /\ \A l \in DOMAIN fx : Len(fx[l].rows) <= MaxAdmissions
  BY EffectFields DEF Types, Tables
<1> HIDE DEF g
<1>7. RowsBounded'
  BY <1>2, <1>4, <1>5, <1>6 DEF RowsBounded
<1> QED BY <1>1, <1>2, <1>3, <1>5, <1>6, <1>7 DEF rows

(* The WORK_STEP an attempt submits. *)
LEMMA StepTyped ==
  ASSUME Types, NEW a \in attempts, a.kind \notin {"stop", "merge"}
  PROVE  StepOf(a) \in StepType /\ StepOf(a).digest \in Digests /\ StepOf(a).prior = a.prior
<1>1. /\ a.ord \in 0 .. MaxSteps /\ a.n \in 0 .. MaxAttempts /\ a.cand \in Ids
      /\ a.prior \in Digests /\ a.val \in Values
  BY AttemptFields, BoundsOk DEF Ordinals
<1>2. Output(a) \in Ids /\ Summary(a) \in Values
  BY <1>1 DEF Output, Summary, Made, Ids, Values
<1> QED BY <1>1, <1>2 DEF StepOf, StepType, Digests

LEMMA SubmitWrites ==
  ASSUME Types, NEW a \in attempts, SubmitStep(a)
  PROVE  /\ a.kind \notin {"stop", "merge"}
         /\ steps' \in [DOMAIN steps' -> StepType] /\ DOMAIN steps' \subseteq Ordinals
         /\ \A k \in DOMAIN steps : k \in DOMAIN steps' /\ steps'[k] = steps[k]
         /\ \A k \in DOMAIN steps' \ DOMAIN steps : k = a.ord /\ steps'[k] = StepOf(a)
         /\ \/ a.ord \in DOMAIN steps' /\ steps'[a.ord] = StepOf(a) /\ Goto(a, "done", a.val)
            \/ Goto(a, "failed", a.val)
         /\ held' \in BOOLEAN
<1>1. a.kind \notin {"stop", "merge"} /\ a.ord \in Ordinals
  BY AttemptFields, PlacesByKind DEF SubmitStep
<1>2. steps \in [DOMAIN steps -> StepType] /\ DOMAIN steps \subseteq Ordinals /\ held \in BOOLEAN
  BY DEF Types, TypeOK, Tables
<1>3. StepOf(a) \in StepType
  BY <1>1, StepTyped
<1>4. CASE a.ord \notin DOMAIN steps
  BY <1>1, <1>2, <1>3, <1>4 DEF SubmitStep, Replay, Put
<1>5. CASE a.ord \in DOMAIN steps
  BY <1>1, <1>2, <1>5 DEF SubmitStep, Replay
<1> QED BY <1>1, <1>4, <1>5

(* No step of an attempt that is not one of these writes a table.           *)
LEMMA WorksWrites ==
  ASSUME NEW a \in attempts, Works(a)
  PROVE  /\ fx' = fx \/ SealAndEvaluate(a) \/ Admit(a)
         /\ UNCHANGED <<steps, held>> \/ SubmitStep(a)
         /\ UNCHANGED evidence \/ Surface(a)
BY DEF Works, Surface, ReadState, ReadReconciled, SealAndEvaluate, Admit, Dispatched, ReadAgain,
       SubmitStep, kernelVars

LEMMA TypesWork ==
  ASSUME Types, Prepared, NEW a \in attempts, Works(a)
  PROVE  Types'
<1>1. PICK at \in PlacesOf(a.kind), val \in Values : Goto(a, at, val)
  BY WorksMoves
<1>2. UNCHANGED <<workflowVars, faults>>
  BY WorksMoves
<1>3. /\ fx' \in [DOMAIN fx' -> EffectType] /\ DOMAIN fx' \subseteq Ids /\ RowsBounded'
  <2>1. CASE fx' = fx
    BY <2>1, EffectFields DEF Types, TypeOK, Tables, RowsBounded
  <2>2. CASE fx' # fx /\ SealAndEvaluate(a)
    BY <2>2, SealWrites
  <2>3. CASE fx' # fx /\ Admit(a)
    BY <2>3, AdmitWrites DEF Types, TypeOK
  <2> QED BY <2>1, <2>2, <2>3, WorksWrites
<1>4. steps' \in [DOMAIN steps' -> StepType] /\ DOMAIN steps' \subseteq Ordinals /\ held' \in BOOLEAN
  <2>1. CASE UNCHANGED <<steps, held>>
    BY <2>1 DEF Types, TypeOK, Tables
  <2>2. CASE SubmitStep(a)
    BY <2>2, SubmitWrites
  <2> QED BY <2>1, <2>2, WorksWrites
<1>5. \A e \in evidence' : e \in [kind : SurfaceKinds, of : Ids, val : Values, id : Ids]
  <2>1. CASE UNCHANGED evidence
    BY <2>1 DEF Types, TypeOK
  <2>2. CASE Surface(a)
    <3>1. PICK v \in Answers(a.kind) :
            evidence' = IF a.kind = "implement" THEN evidence
                        ELSE evidence \union {[kind |-> a.kind, of |-> a.cand, val |-> v, id |-> Made(a)]}
      BY <2>2 DEF Surface
    <3>2. a.kind \in SurfaceKinds \union {"implement"}
      BY <2>2, AttemptFields, PlacesByKind DEF Surface, Kinds
    <3>3. v \in Values
      <4>1. Answers(a.kind) \in {{"none"}, {"APPROVE", "REQUEST_CHANGES"}, {"success", "failure"}}
        BY DEF Answers
      <4> QED BY <3>1, <4>1 DEF Values
    <3>4. a.kind # "stop" /\ a.ord \in 1 .. ord /\ ord \in 0 .. MaxSteps
      BY <3>2, AttemptFields DEF SurfaceKinds, Types, TypeOK
    <3>5. Made(a) \in Ids /\ a.cand \in Ids
      BY <3>4, AttemptFields, BoundsOk DEF Made, Ids
    <3> QED BY <3>1, <3>2, <3>3, <3>5 DEF Types, TypeOK
  <2> QED BY <2>1, <2>2, WorksWrites
<1>6. Tables'
  BY <1>3, <1>4 DEF Tables
<1> QED BY <1>1, <1>2, <1>3, <1>4, <1>5, <1>6, TypesOfWork

LEMMA NewAttemptTyped ==
  ASSUME Types, NEW kind \in Kinds, NEW k \in Ordinals \union {MaxSteps + 1},
         NEW n \in 1 .. MaxAttempts
  PROVE  LET b == NewAttempt(kind, k, n)
         IN  /\ b \in Attempt /\ b.kind = kind /\ b.ord = k /\ b.n = n /\ b.cand = cand
             /\ b.prior = prior /\ b.val = "none" /\ b.at = FirstPosition(kind)
             /\ b.at \in PlacesOf(kind)
<1>1. FirstPosition(kind) \in PlacesOf(kind) /\ FirstPosition(kind) \in Positions
  BY DEF FirstPosition, PlacesOf, Positions, Kinds, SurfaceKinds, GovernedKinds
<1>2. cand \in Ids /\ prior \in Digests /\ "none" \in Values
  BY DEF Types, TypeOK, Values
<1> QED BY <1>1, <1>2 DEF NewAttempt, Attempt

(* The types after a step of the workflow or the host. *)
LEMMA TypesOfFlow ==
  ASSUME Types, UNCHANGED kernelVars, attempts' \subseteq Attempt, InPlace',
         args' = args, stage' \in Kinds, busy' \in 0 .. MaxAttempts, round' \in 1 .. Rounds,
         ord' \in 0 .. MaxSteps, prior' \in Digests, cand' \in Ids,
         checks' \in [verify : Values, external : Values, review : Values], human' \in BOOLEAN,
         report' \in [end : {"running", "completed", "stopped", "failed"}, stage : Kinds \union {"none"}],
         faults' \in 0 .. MaxFaults
  PROVE  Types'
BY DEF Types, TypeOK, Tables, kernelVars

LEMMA TypesSchedule ==
  ASSUME Types, OneThing, Prepared, Schedule \/ ScheduleMerge
  PROVE  Types'
<1>1. MaxAttempts \in Nat \ {0} /\ MaxSteps \in Nat \ {0} /\ 1 \in 1 .. MaxAttempts
  BY BoundsOk
<1>2. ord \in 0 .. MaxSteps /\ stage \in Kinds /\ attempts \subseteq Attempt
  BY DEF Types, TypeOK
<1>3. \A x \in attempts : x.at \in PlacesOf(x.kind) /\ (x.kind # "stop" => x.ord \in 1 .. ord)
  BY DEF Types, InPlace
<1>4. PICK kind \in Kinds, k \in Ordinals \union {MaxSteps + 1} :
        /\ attempts' = attempts \union {NewAttempt(kind, k, 1)}
        /\ kind # "stop" => k \in 1 .. ord'
        /\ ord' \in {ord, ord + 1} /\ ord' \in 0 .. MaxSteps /\ stage' \in Kinds
  <2>1. CASE ScheduleMerge
    <3>1. stage = "merge" /\ stage' = stage /\ ord' = ord /\ attempts' = attempts \union {NewAttempt("merge", ord, 1)}
      BY <2>1 DEF ScheduleMerge
    <3>2. ord \in 1 .. ord
      <4>1. <<ord, 0>> \in DOMAIN fx
        BY <3>1 DEF Prepared
      <4>2. Did(fx[<<ord, 0>>].kind, ord, fx[<<ord, 0>>].of)
        BY <4>1 DEF Did
      <4> QED BY <4>2 DEF OneThing
    <3> QED BY <1>1, <1>2, <3>1, <3>2 DEF Kinds, Ordinals
  <2>2. CASE Schedule
    <3>1. \/ /\ ord < MaxSteps /\ ord' = ord + 1 /\ stage' = stage
             /\ attempts' = attempts \union {NewAttempt(stage, ord + 1, 1)}
          \/ /\ stage' = "stop" /\ ord' = ord
             /\ attempts' = attempts \union {NewAttempt("stop", ord + 1, 1)}
      BY <2>2 DEF Schedule
    <3>2. ord + 1 \in Ordinals \union {MaxSteps + 1} /\ "stop" \in Kinds
      BY <1>1, <1>2 DEF Ordinals, Kinds
    <3>3. ord < MaxSteps => ord + 1 \in Ordinals /\ ord + 1 \in 1 .. ord + 1 /\ ord + 1 \in 0 .. MaxSteps
      BY <1>1, <1>2 DEF Ordinals
    <3> QED BY <1>2, <3>1, <3>2, <3>3
  <2> QED BY <2>1, <2>2
<1> DEFINE b == NewAttempt(kind, k, 1)
<1>5. b \in Attempt /\ b.kind = kind /\ b.ord = k /\ b.at \in PlacesOf(kind)
  BY <1>1, NewAttemptTyped
<1> HIDE DEF b
<1>6. InPlace'
  BY <1>2, <1>3, <1>4, <1>5 DEF InPlace, b
<1>7. attempts' \subseteq Attempt
  BY <1>2, <1>4, <1>5 DEF b
<1>8. busy' = 1 /\ UNCHANGED <<args, round, prior, cand, checks, human, report, faults, kernelVars>>
  BY DEF Schedule, ScheduleMerge
<1> QED BY <1>1, <1>4, <1>6, <1>7, <1>8, TypesOfFlow DEF Types, TypeOK

(* What the workflow does with a value, case by case. *)
LEMMA Continues ==
  ASSUME Types, NEW a \in attempts, Complete(a)
  PROVE  /\ a.kind = stage /\ a.n = busy /\ a.ord >= ord /\ report = Running /\ a.at = "done"
         /\ \/ /\ Finish("stopped")
            \/ /\ a.kind = "implement" /\ GoOn("push") /\ UNCHANGED checks
            \/ /\ a.kind = "verify" /\ GoOn(IF args.external THEN "external" ELSE "review")
               /\ checks' = [checks EXCEPT !.verify = a.val]
            \/ /\ a.kind = "external" /\ a.val = "success" /\ GoOn("review")
               /\ checks' = [checks EXCEPT !.external = a.val]
            \/ /\ a.kind = "review" /\ Approved(a.val) /\ GoOn("pr")
               /\ checks' = [checks EXCEPT !.review = a.val]
            \/ /\ a.kind = "review" /\ round < Rounds /\ round' = round + 1
               /\ stage' = "implement" /\ checks' = Unchecked /\ UNCHANGED report
            \/ /\ a.kind = "record" /\ a.val = "COMMITTED"
               /\ \/ ord = Records /\ Finish("completed")
                  \/ ord # Records /\ GoOn("record") /\ UNCHANGED checks
            \/ /\ a.kind = "push" /\ a.val = "COMMITTED" /\ GoOn("verify") /\ UNCHANGED checks
            \/ /\ a.kind = "pr" /\ a.val = "COMMITTED"
               /\ (GoOn("prepare") /\ UNCHANGED checks) \/ Finish("completed")
            \/ /\ a.kind = "prepare"
               /\ (GoOn("merge") /\ UNCHANGED checks) \/ Finish("completed")
            \/ /\ a.kind = "merge" /\ a.val = "COMMITTED" /\ Finish("completed")
<1>1. /\ a.kind = stage /\ a.n = busy /\ a.ord >= ord /\ report = Running /\ a.at = "done"
      /\ Continue(a) /\ a.kind \in Kinds
  BY AttemptFields DEF Complete, Current
<1>2. CASE a.kind \in {"stop", "implement", "verify", "external"}
  <2>1. CASE a.kind = "stop"
    BY <1>1, <2>1 DEF Continue
  <2>2. CASE a.kind = "implement"
    BY <1>1, <2>2 DEF Continue
  <2>3. CASE a.kind = "verify"
    BY <1>1, <2>3 DEF Continue
  <2>4. CASE a.kind = "external"
    BY <1>1, <2>4 DEF Continue
  <2> QED BY <1>2, <2>1, <2>2, <2>3, <2>4
<1>3. CASE a.kind = "review"
  <2>1. Judge(a.val)
    BY <1>1, <1>3 DEF Continue, Judge, GoOn, Finish, GovernedKinds
  <2> QED BY <1>1, <1>3, <2>1 DEF Judge, GoOn, Finish
<1>4. CASE a.kind \in {"record", "push", "pr", "merge"} /\ a.val # "COMMITTED"
  <2>1. Finish("stopped")
    BY <1>1, <1>4 DEF Continue, GoOn, Finish, GovernedKinds, Done
  <2> QED BY <1>1, <2>1
<1>5. CASE a.kind \in {"record", "push", "pr", "merge"} /\ a.val = "COMMITTED"
  BY <1>1, <1>5 DEF Continue, GoOn, Finish, GovernedKinds, Done
<1>6. CASE a.kind = "prepare"
  BY <1>1, <1>6 DEF Continue, GoOn, Finish, GovernedKinds
<1> QED BY <1>1, <1>2, <1>3, <1>4, <1>5, <1>6 DEF Kinds, SurfaceKinds, GovernedKinds

LEMMA TypesComplete ==
  ASSUME Types, NEW a \in attempts, Complete(a)
  PROVE  Types'
<1>1. /\ attempts' = attempts \ {a} /\ busy' = 0
      /\ prior' = IF a.kind \in {"merge", "stop"} THEN prior ELSE StepOf(a).digest
      /\ cand' = IF a.kind = "implement" THEN Made(a) ELSE cand
      /\ UNCHANGED <<args, ord, human, faults, kernelVars>>
  BY DEF Complete
<1>2. attempts' \subseteq Attempt /\ InPlace'
  BY <1>1 DEF Types, TypeOK, InPlace
<1>3. prior' \in Digests
  BY <1>1, StepTyped DEF Types, TypeOK
<1>4. cand' \in Ids
  <2>1. a.kind = "implement" => Made(a) \in Ids
    BY AttemptFields, BoundsOk DEF Made, Ids, Ordinals
  <2> QED BY <1>1, <2>1 DEF Types, TypeOK
<1>5. /\ stage' \in Kinds /\ round' \in 1 .. Rounds
      /\ checks' \in [verify : Values, external : Values, review : Values]
      /\ report' \in [end : {"running", "completed", "stopped", "failed"}, stage : Kinds \union {"none"}]
  <2>1. /\ stage \in Kinds /\ round \in 1 .. Rounds /\ a.val \in Values
        /\ checks \in [verify : Values, external : Values, review : Values]
        /\ report \in [end : {"running", "completed", "stopped", "failed"}, stage : Kinds \union {"none"}]
    BY AttemptFields DEF Types, TypeOK
  <2>2. Unchecked \in [verify : Values, external : Values, review : Values]
    BY DEF Unchecked, Values
  <2>3. /\ \A end \in {"stopped", "completed"} : Finish(end) =>
             /\ report' \in [end : {"running", "completed", "stopped", "failed"},
                             stage : Kinds \union {"none"}]
             /\ UNCHANGED <<stage, round, checks>>
        /\ \A next : GoOn(next) => stage' = next /\ UNCHANGED <<round, report>>
    BY <2>1 DEF Finish, GoOn
  <2>4. /\ [checks EXCEPT !.verify = a.val] \in [verify : Values, external : Values, review : Values]
        /\ [checks EXCEPT !.external = a.val] \in [verify : Values, external : Values, review : Values]
        /\ [checks EXCEPT !.review = a.val] \in [verify : Values, external : Values, review : Values]
    BY <2>1
  <2>5. {"push", "external", "review", "pr", "implement", "record", "verify", "prepare", "merge"} \subseteq Kinds
    BY DEF Kinds, SurfaceKinds, GovernedKinds
  <2>6. round < Rounds => round + 1 \in 1 .. Rounds
    BY <2>1, BoundsOk
  <2> QED BY <2>1, <2>2, <2>3, <2>4, <2>5, <2>6, Continues
<1>6. human' \in BOOLEAN /\ faults' \in 0 .. MaxFaults /\ ord' \in 0 .. MaxSteps
  BY <1>1 DEF Types, TypeOK
<1>7. busy' \in 0 .. MaxAttempts
  BY <1>1, BoundsOk
<1> QED BY <1>1, <1>2, <1>3, <1>4, <1>5, <1>6, <1>7, TypesOfFlow

LEMMA TypesRetry ==
  ASSUME Types, NEW a \in attempts, NEW still \in {{}, {a}}, Retry(a, still)
  PROVE  Types'
<1>1. a \in Attempt /\ a.kind \in Kinds /\ a.n \in 1 .. MaxAttempts
  BY AttemptFields
<1>2. a.ord \in Ordinals \union {MaxSteps + 1} /\ (a.kind # "stop" => a.ord \in 1 .. ord)
  BY <1>1 DEF Types, InPlace, Attempt
<1>3. UNCHANGED <<args, stage, round, ord, prior, cand, checks, human, kernelVars>>
  BY DEF Retry
<1>4. faults' \in 0 .. MaxFaults
  BY BoundsOk DEF Retry, Types, TypeOK
<1>5. CASE TryAgain(a.n)
  <2> DEFINE b == NewAttempt(a.kind, a.ord, a.n + 1)
  <2>1. a.n + 1 \in 1 .. MaxAttempts
    BY <1>1, <1>5, BoundsOk DEF TryAgain
  <2>2. b \in Attempt /\ b.kind = a.kind /\ b.ord = a.ord /\ b.at \in PlacesOf(b.kind)
    BY <1>1, <1>2, <2>1, NewAttemptTyped
  <2>3. attempts' = (attempts \ {a}) \union still \union {b} /\ busy' = a.n + 1 /\ report' = report
    BY <1>5 DEF Retry
  <2> HIDE DEF b
  <2>4. attempts' \subseteq Attempt /\ InPlace'
    BY <1>2, <1>3, <2>2, <2>3 DEF Types, TypeOK, InPlace
  <2>5. busy' \in 0 .. MaxAttempts
    BY <2>1, <2>3
  <2> QED BY <1>3, <1>4, <2>3, <2>4, <2>5, TypesOfFlow DEF Types, TypeOK
<1>6. CASE ~TryAgain(a.n)
  <2>1. /\ attempts' = (attempts \ {a}) \union still /\ busy' = busy
        /\ report' = [end |-> "failed", stage |-> stage]
    BY <1>6 DEF Retry
  <2>2. attempts' \subseteq Attempt /\ InPlace'
    BY <1>3, <2>1 DEF Types, TypeOK, InPlace
  <2>3. report' \in [end : {"running", "completed", "stopped", "failed"}, stage : Kinds \union {"none"}]
    BY <2>1 DEF Types, TypeOK
  <2> QED BY <1>3, <1>4, <2>1, <2>2, <2>3, TypesOfFlow DEF Types, TypeOK
<1> QED BY <1>5, <1>6

LEMMA TypesKernel ==
  ASSUME Types, NEW k \in DOMAIN fx, Land(k) \/ \E r \in {"UNKNOWN"} \union Conclusive : Observe(k, r)
  PROVE  Types'
<1>1. fx' \in [DOMAIN fx -> EffectType] /\ DOMAIN fx' = DOMAIN fx /\ RowsBounded'
  <2>1. CASE Land(k)
    BY <2>1, LandWrites
  <2>2. ASSUME NEW r \in {"UNKNOWN"} \union Conclusive, Observe(k, r)
        PROVE  fx' \in [DOMAIN fx -> EffectType] /\ DOMAIN fx' = DOMAIN fx /\ RowsBounded'
    BY <2>2, ObserveWrites DEF Row
  <2> QED BY <2>1, <2>2
<1>2. UNCHANGED <<workflowVars, hostVars, steps, held, evidence>>
  BY DEF Land, Observe
<1>3. Tables'
  BY <1>1, <1>2 DEF Tables, Types
<1>4. TablesInRange'
  BY <1>1, <1>3, TablesTypedNext
<1>5. TypeOK'
  BY <1>1, <1>2, <1>4 DEF TablesInRange, Types, TypeOK, workflowVars, hostVars, StepType
<1>6. InPlace'
  BY <1>2 DEF Types, InPlace, workflowVars, hostVars
<1> QED BY <1>3, <1>5, <1>6 DEF Types

LEMMA TypesUnmoved ==
  ASSUME Types, attempts' \subseteq attempts, UNCHANGED <<workflowVars, faults, kernelVars>>
  PROVE  Types'
BY DEF Types, TypeOK, Tables, InPlace, workflowVars, kernelVars

LEMMA TypesSignal ==
  ASSUME Types, Signal
  PROVE  Types'
<1>1. attempts' \subseteq Attempt /\ InPlace'
  BY DEF Signal, hostVars, Types, TypeOK, InPlace
<1> QED BY <1>1, TypesOfFlow DEF Signal, hostVars, Types, TypeOK

LEMMA TypesNext ==
  ASSUME Types, OneThing, Prepared, [Next]_vars
  PROVE  Types'
<1>1. CASE Schedule \/ ScheduleMerge
  BY <1>1, TypesSchedule
<1>2. CASE Signal
  BY <1>2, TypesSignal
<1>3. ASSUME NEW a \in attempts, Works(a) PROVE Types'
  BY <1>3, TypesWork
<1>4. ASSUME NEW a \in attempts, Complete(a) PROVE Types'
  BY <1>4, TypesComplete
<1>5. ASSUME NEW a \in attempts, Vanish(a) PROVE Types'
  BY <1>5, TypesUnmoved DEF Vanish
<1>6. ASSUME NEW a \in attempts, NEW still \in {{}, {a}}, Retry(a, still) PROVE Types'
  BY <1>6, TypesRetry
<1>7. ASSUME NEW k \in DOMAIN fx,
             Land(k) \/ \E r \in {"UNKNOWN"} \union Conclusive : Observe(k, r)
      PROVE  Types'
  BY <1>7, TypesKernel
<1>8. CASE UNCHANGED vars
  BY <1>8, TypesUnmoved DEF vars, hostVars
<1> QED BY <1>1, <1>2, <1>3, <1>4, <1>5, <1>6, <1>7, <1>8 DEF Next

-----------------------------------------------------------------------------
(* What a step leaves in place, and what it can add. *)

LEMMA KernelKept ==
  ASSUME Types, NEW k \in DOMAIN fx, Land(k) \/ \E r \in {"UNKNOWN"} \union Conclusive : Observe(k, r)
  PROVE  /\ DOMAIN fx' = DOMAIN fx
         /\ \A l \in DOMAIN fx : /\ fx'[l].kind = fx[l].kind /\ fx'[l].of = fx[l].of
                                 /\ fx[l].times > 0 => fx'[l].times > 0
         /\ UNCHANGED <<workflowVars, hostVars, steps, held, evidence>>
<1>1. fx[k].times \in Nat
  BY EffectFields
<1>2. CASE Land(k)
  <2>1. fx'[k].times = fx[k].times \/ fx'[k].times = IF fx[k].kind = "pr" THEN fx[k].times + 1 ELSE 1
    BY <1>2, LandWrites
  <2>2. fx[k].times > 0 => fx'[k].times > 0
    BY <1>1, <2>1
  <2> QED BY <1>2, <2>2, LandWrites DEF Land
<1>3. ASSUME NEW r \in {"UNKNOWN"} \union Conclusive, Observe(k, r)
      PROVE  /\ DOMAIN fx' = DOMAIN fx
             /\ \A l \in DOMAIN fx : /\ fx'[l].kind = fx[l].kind /\ fx'[l].of = fx[l].of
                                     /\ fx[l].times > 0 => fx'[l].times > 0
             /\ UNCHANGED <<workflowVars, hostVars, steps, held, evidence>>
  BY <1>3, ObserveWrites DEF Row, Observe
<1> QED BY <1>2, <1>3

LEMMA WorksKept ==
  ASSUME Types, Prepared, NEW a \in attempts, Works(a)
  PROVE  /\ \A k \in DOMAIN fx : /\ k \in DOMAIN fx'
                                 /\ fx'[k].kind = fx[k].kind /\ fx'[k].of = fx[k].of
                                 /\ fx'[k].times = fx[k].times
         /\ \A k \in DOMAIN fx' \ DOMAIN fx :
              /\ a.kind \notin {"stop", "merge"} /\ k = Key(a)
              /\ fx'[k] = Sealed(a.kind, a.cand)
         /\ evidence \subseteq evidence'
         /\ \A k \in DOMAIN steps : k \in DOMAIN steps' /\ steps'[k] = steps[k]
<1>1. /\ \A k \in DOMAIN fx : /\ k \in DOMAIN fx'
                              /\ fx'[k].kind = fx[k].kind /\ fx'[k].of = fx[k].of
                              /\ fx'[k].times = fx[k].times
      /\ \A k \in DOMAIN fx' \ DOMAIN fx :
           /\ a.kind \notin {"stop", "merge"} /\ k = Key(a)
           /\ fx'[k] = Sealed(a.kind, a.cand)
  <2>1. CASE fx' = fx
    BY <2>1
  <2>2. CASE SealAndEvaluate(a)
    BY <2>2, SealWrites DEF Prepared
  <2>3. CASE fx' # fx /\ Admit(a)
    BY <2>3, AdmitWrites
  <2> QED BY <2>1, <2>2, <2>3, WorksWrites
<1>2. evidence \subseteq evidence'
  BY WorksWrites DEF Surface
<1>3. \A k \in DOMAIN steps : k \in DOMAIN steps' /\ steps'[k] = steps[k]
  <2>1. CASE UNCHANGED <<steps, held>>
    BY <2>1
  <2>2. CASE SubmitStep(a)
    BY <2>2, SubmitWrites
  <2> QED BY <2>1, <2>2, WorksWrites
<1> QED BY <1>1, <1>2, <1>3

(* Nothing of the kernel is taken back. *)
LEMMA Kept ==
  ASSUME Types, Prepared, [Next]_vars
  PROVE  /\ \A k \in DOMAIN fx : /\ k \in DOMAIN fx'
                                 /\ fx'[k].kind = fx[k].kind /\ fx'[k].of = fx[k].of
                                 /\ fx[k].times > 0 => fx'[k].times > 0
         /\ evidence \subseteq evidence'
         /\ \A k \in DOMAIN steps : k \in DOMAIN steps' /\ steps'[k] = steps[k]
         /\ args' = args
<1> DEFINE K == /\ \A k \in DOMAIN fx : /\ k \in DOMAIN fx'
                                        /\ fx'[k].kind = fx[k].kind /\ fx'[k].of = fx[k].of
                                        /\ fx[k].times > 0 => fx'[k].times > 0
                /\ evidence \subseteq evidence'
                /\ \A k \in DOMAIN steps : k \in DOMAIN steps' /\ steps'[k] = steps[k]
                /\ args' = args
<1>1. UNCHANGED kernelVars /\ args' = args => K
  BY DEF kernelVars
<1>2. ASSUME Schedule \/ ScheduleMerge \/ Signal PROVE K
  BY <1>1, <1>2 DEF Schedule, ScheduleMerge, Signal
<1>3. ASSUME NEW a \in attempts, Works(a) PROVE K
  BY <1>3, WorksKept, WorksMoves DEF workflowVars
<1>4. ASSUME NEW a \in attempts, Complete(a) \/ Vanish(a) \/ \E still \in {{}, {a}} : Retry(a, still)
      PROVE  K
  BY <1>1, <1>4 DEF Complete, Vanish, Retry, workflowVars
<1>5. ASSUME NEW k \in DOMAIN fx,
             Land(k) \/ \E r \in {"UNKNOWN"} \union Conclusive : Observe(k, r)
      PROVE  K
  BY <1>5, KernelKept DEF workflowVars
<1>6. ASSUME UNCHANGED vars PROVE K
  BY <1>1, <1>6 DEF vars, workflowVars
<1> QED BY <1>2, <1>3, <1>4, <1>5, <1>6 DEF Next

(* The attempt the workflow waits for is about its step and its candidate. *)
LEMMA CurrentOne ==
  ASSUME Types, OneThing, NEW a \in attempts, Current(a)
  PROVE  /\ report = Running /\ a.kind = stage /\ a.n = busy /\ busy # 0
         /\ a.kind # "stop" => a.ord = ord /\ a.cand = cand /\ ord \in 1 .. MaxSteps
<1>1. report = Running /\ a.kind = stage /\ a.n = busy /\ busy # 0 /\ a.ord >= ord
  BY AttemptFields DEF Current
<1>2. ASSUME a.kind # "stop" PROVE a.ord = ord /\ a.cand = cand /\ ord \in 1 .. MaxSteps
  <2>1. a.ord = ord /\ ord \in 1 .. MaxSteps
    BY <1>1, <1>2, AttemptFields, BoundsOk DEF Types, TypeOK
  <2>2. Did(Line(a.kind), ord, a.cand)
    BY <1>2, <2>1 DEF Did
  <2> QED BY <1>1, <1>2, <2>1, <2>2 DEF OneThing
<1> QED BY <1>1, <1>2

(* A step of an attempt changes where it is and what it holds.              *)
LEMMA GotoOnly ==
  ASSUME Types, NEW a \in attempts, NEW at, NEW val, Goto(a, at, val)
  PROVE  \A x \in attempts' :
           \/ x \in attempts /\ x # a
           \/ /\ x.at = at /\ x.val = val /\ x.kind = a.kind /\ x.ord = a.ord /\ x.n = a.n
              /\ x.cand = a.cand /\ x.prior = a.prior
<1> DEFINE b == [a EXCEPT !.at = at, !.val = val]
<1>1. a \in Attempt
  BY AttemptFields
<1>2. /\ b.at = at /\ b.val = val /\ b.kind = a.kind /\ b.ord = a.ord /\ b.n = a.n
      /\ b.cand = a.cand /\ b.prior = a.prior
  BY <1>1 DEF Attempt
<1>3. attempts' = (attempts \ {a}) \union {b}
  BY DEF Goto, Become
<1> HIDE DEF b
<1> QED BY <1>2, <1>3

(* Whatever is done under an ordinal was begun by scheduling it. *)
LEMMA DidNext ==
  ASSUME Types, OneThing, Prepared, [Next]_vars, NEW kind, NEW o, NEW c, Did(kind, o, c)'
  PROVE  \/ Did(kind, o, c)
         \/ /\ Schedule /\ stage' = stage /\ stage # "stop" /\ ord < MaxSteps /\ ord' = ord + 1
            /\ kind = stage /\ o = ord + 1 /\ c = cand
<1>1. \/ \E x \in attempts' : x.kind # "stop" /\ Line(x.kind) = kind /\ x.ord = o /\ x.cand = c
      \/ \E k \in DOMAIN fx' : fx'[k].kind = kind /\ k = <<o, 0>> /\ fx'[k].of = c
  BY DEF Did
<1>2. ASSUME attempts' \subseteq attempts, \A k \in DOMAIN fx' : k \in DOMAIN fx /\ fx'[k].kind = fx[k].kind
             /\ fx'[k].of = fx[k].of
      PROVE  Did(kind, o, c)
  BY <1>1, <1>2 DEF Did
<1>3. CASE Schedule
  <2>1. fx' = fx
    BY <1>3 DEF Schedule, kernelVars
  <2>2. CASE /\ ord < MaxSteps /\ ord' = ord + 1 /\ stage' = stage
             /\ attempts' = attempts \union {NewAttempt(stage, ord + 1, 1)}
    <3> DEFINE b == NewAttempt(stage, ord + 1, 1)
    <3>1. stage \in Kinds /\ stage \notin {"merge", "stop"}
      BY <1>3 DEF Schedule, Types, TypeOK
    <3>2. b.kind = stage /\ b.ord = ord + 1 /\ b.cand = cand
      BY DEF NewAttempt
    <3> HIDE DEF b
    <3>3. \A x \in attempts' : x \in attempts \/ x = b
      BY <2>2 DEF b
    <3> QED BY <1>1, <1>3, <2>1, <2>2, <3>1, <3>2, <3>3 DEF Did, Line
  <2>3. CASE attempts' = attempts \union {NewAttempt("stop", ord + 1, 1)}
    <3>1. NewAttempt("stop", ord + 1, 1).kind = "stop"
      BY DEF NewAttempt
    <3> QED BY <1>1, <2>1, <2>3, <3>1 DEF Did
  <2> QED BY <1>3, <2>2, <2>3 DEF Schedule
<1>4. CASE ScheduleMerge
  <2> DEFINE b == NewAttempt("merge", ord, 1)
             k == <<ord, 0>>
  <2>1. fx' = fx /\ stage = "merge" /\ attempts' = attempts \union {b}
    BY <1>4 DEF ScheduleMerge, kernelVars
  <2>2. b.kind = "merge" /\ b.ord = ord /\ b.cand = cand
    BY DEF NewAttempt
  <2>3. Did("prepare", ord, cand)
    <3>1. k \in DOMAIN fx
      BY <2>1 DEF Prepared
    <3>2. Did(fx[k].kind, ord, fx[k].of)
      BY <3>1 DEF Did
    <3> QED BY <2>1, <3>2 DEF OneThing, Line
  <2> HIDE DEF b
  <2> QED BY <1>1, <2>1, <2>2, <2>3 DEF Did, Line
<1>5. ASSUME NEW a \in attempts, Works(a) PROVE Did(kind, o, c)
  <2>1. PICK at \in PlacesOf(a.kind), val \in Values : Goto(a, at, val)
    BY <1>5, WorksMoves
  <2>2. \A x \in attempts' : \E y \in attempts : x.kind = y.kind /\ x.ord = y.ord /\ x.cand = y.cand
    BY <2>1, GotoOnly
  <2>3. \A k \in DOMAIN fx' : \/ k \in DOMAIN fx /\ fx'[k].kind = fx[k].kind /\ fx'[k].of = fx[k].of
                              \/ /\ a.kind \notin {"stop", "merge"} /\ k = <<a.ord, 0>>
                                 /\ fx'[k].kind = a.kind /\ fx'[k].of = a.cand
    BY <1>5, WorksKept DEF Sealed, Key
  <2>4. a.kind \notin {"stop", "merge"} => Did(a.kind, a.ord, a.cand)
    BY DEF Did, Line
  <2>5. CASE \E x \in attempts' : x.kind # "stop" /\ Line(x.kind) = kind /\ x.ord = o /\ x.cand = c
    BY <2>2, <2>5 DEF Did
  <2>6. ASSUME NEW k \in DOMAIN fx', fx'[k].kind = kind, k = <<o, 0>>, fx'[k].of = c
        PROVE  Did(kind, o, c)
    BY <2>3, <2>4, <2>6 DEF Did
  <2> QED BY <1>1, <2>5, <2>6
<1>6. ASSUME NEW a \in attempts, NEW still \in {{}, {a}}, Retry(a, still) PROVE Did(kind, o, c)
  <2> DEFINE b == NewAttempt(a.kind, a.ord, a.n + 1)
  <2>1. fx' = fx /\ \A x \in attempts' : x \in attempts \/ x = b
    BY <1>6 DEF Retry, kernelVars
  <2>2. b.kind = a.kind /\ b.ord = a.ord /\ b.cand = cand
    BY DEF NewAttempt
  <2>3. a.kind # "stop" => a.cand = cand
    BY <1>6, CurrentOne DEF Retry
  <2> HIDE DEF b
  <2> QED BY <1>1, <2>1, <2>2, <2>3 DEF Did
<1>7. ASSUME NEW a \in attempts, Complete(a) \/ Vanish(a) PROVE Did(kind, o, c)
  BY <1>2, <1>7 DEF Complete, Vanish, kernelVars
<1>8. ASSUME NEW k \in DOMAIN fx,
             Land(k) \/ \E r \in {"UNKNOWN"} \union Conclusive : Observe(k, r)
      PROVE  Did(kind, o, c)
  BY <1>2, <1>8, KernelKept DEF hostVars
<1>9. CASE Signal \/ UNCHANGED vars
  BY <1>2, <1>9 DEF Signal, vars, hostVars, kernelVars
<1> QED BY <1>3, <1>4, <1>5, <1>6, <1>7, <1>8, <1>9 DEF Next

-----------------------------------------------------------------------------
(* One thing under each ordinal. *)

(* The workflow moves by its own steps only. *)
LEMMA FlowSteps ==
  ASSUME Types, [Next]_vars
  PROVE  \/ Schedule \/ ScheduleMerge
         \/ \E a \in attempts : Complete(a)
         \/ \E a \in attempts : \E still \in {{}, {a}} : Retry(a, still)
         \/ UNCHANGED <<args, stage, busy, round, ord, prior, cand, checks, report>>
<1>1. ASSUME NEW a \in attempts, Works(a)
      PROVE  UNCHANGED <<args, stage, busy, round, ord, prior, cand, checks, report>>
  BY <1>1, WorksMoves DEF workflowVars
<1>2. CASE Signal
  BY <1>2 DEF Signal
<1>3. ASSUME NEW a \in attempts, Vanish(a)
      PROVE  UNCHANGED <<args, stage, busy, round, ord, prior, cand, checks, report>>
  BY <1>3 DEF Vanish, workflowVars
<1>4. ASSUME NEW k \in DOMAIN fx,
             Land(k) \/ \E r \in {"UNKNOWN"} \union Conclusive : Observe(k, r)
      PROVE  UNCHANGED <<args, stage, busy, round, ord, prior, cand, checks, report>>
  BY <1>4, KernelKept DEF workflowVars
<1>5. CASE UNCHANGED vars
  BY <1>5 DEF vars, workflowVars
<1> QED BY <1>1, <1>2, <1>3, <1>4, <1>5 DEF Next

LEMMA RetryFlow ==
  ASSUME Types, OneThing, NEW a \in attempts, NEW still \in {{}, {a}}, Retry(a, still)
  PROVE  /\ UNCHANGED <<args, stage, round, ord, prior, cand, checks, human, kernelVars>>
         /\ report = Running /\ a.kind = stage /\ a.n = busy /\ busy # 0 /\ busy' # 0
         /\ report' = report \/ report' = [end |-> "failed", stage |-> stage]
         /\ \A x \in attempts' : x \in attempts \/ x = NewAttempt(a.kind, a.ord, a.n + 1)
         /\ a.kind # "stop" => a.ord = ord /\ a.cand = cand /\ ord \in 1 .. MaxSteps
<1>1. /\ report = Running /\ a.kind = stage /\ a.n = busy /\ busy # 0
      /\ a.kind # "stop" => a.ord = ord /\ a.cand = cand /\ ord \in 1 .. MaxSteps
  BY CurrentOne DEF Retry
<1>2. a.n + 1 # 0
  BY AttemptFields
<1>3. CASE TryAgain(a.n)
  <2>1. /\ attempts' = (attempts \ {a}) \union still \union {NewAttempt(a.kind, a.ord, a.n + 1)}
        /\ busy' = a.n + 1 /\ report' = report
    BY <1>3 DEF Retry
  <2> QED BY <1>1, <1>2, <2>1 DEF Retry
<1>4. CASE ~TryAgain(a.n)
  <2>1. /\ attempts' = (attempts \ {a}) \union still
        /\ busy' = busy /\ report' = [end |-> "failed", stage |-> stage]
    BY <1>4 DEF Retry
  <2> QED BY <1>1, <2>1 DEF Retry
<1> QED BY <1>3, <1>4

LEMMA CompleteFlow ==
  ASSUME Types, OneThing, NEW a \in attempts, Complete(a)
  PROVE  /\ UNCHANGED <<args, ord, human, faults, kernelVars>> /\ attempts' = attempts \ {a}
         /\ report = Running /\ a.kind = stage /\ a.n = busy /\ busy # 0 /\ busy' = 0 /\ a.at = "done"
         /\ a.kind # "stop" => a.ord = ord /\ a.cand = cand /\ ord \in 1 .. MaxSteps
         /\ a.kind # "implement" => cand' = cand
         /\ a.kind = "implement" => cand' = <<a.ord, a.n>>
BY CurrentOne DEF Complete, Made

LEMMA OneThingNext ==
  ASSUME Types, OneThing, Prepared, [Next]_vars
  PROVE  OneThing'
<1>1. ord \in Nat /\ ord' \in Nat /\ ord' >= ord
  <2>1. ord' = ord \/ ord' = ord + 1
    BY FlowSteps, RetryFlow, CompleteFlow DEF Schedule, ScheduleMerge
  <2> QED BY <2>1, BoundsOk DEF Types, TypeOK
<1>2. ASSUME NEW kind, NEW o, NEW c, Did(kind, o, c)'
      PROVE  o \in 1 .. ord'
  <2>1. CASE Did(kind, o, c)
    BY <1>1, <2>1 DEF OneThing
  <2>2. CASE ord' = ord + 1 /\ o = ord + 1
    BY <1>1, <2>2
  <2> QED BY <1>2, <2>1, <2>2, DidNext
<1>3. ASSUME NEW kind, NEW o, NEW c, NEW other, NEW d, Did(kind, o, c)', Did(other, o, d)'
      PROVE  kind = other /\ c = d
  <2>1. Did(kind, o, c) \/ (kind = stage /\ o = ord + 1 /\ c = cand)
    BY <1>3, DidNext
  <2>2. Did(other, o, d) \/ (other = stage /\ o = ord + 1 /\ d = cand)
    BY <1>3, DidNext
  <2>3. /\ Did(kind, o, c) => o \in 1 .. ord
        /\ Did(other, o, d) => o \in 1 .. ord
        /\ Did(kind, o, c) /\ Did(other, o, d) => kind = other /\ c = d
    BY DEF OneThing
  <2>4. ~(ord + 1 \in 1 .. ord)
    BY <1>1
  <2> QED BY <2>1, <2>2, <2>3, <2>4
<1>4. ASSUME (busy' # 0 /\ stage' # "stop") \/ stage' = "merge",
             NEW kind, NEW o, NEW c, Did(kind, o, c)', o = ord'
      PROVE  kind = Line(stage') /\ c = cand'
  <2>0. \/ Did(kind, o, c)
        \/ ord' = ord + 1 /\ kind = stage /\ o = ord + 1 /\ c = cand
    BY <1>4, DidNext
  <2>1. CASE Schedule
    <3>1. \/ stage' = stage /\ ord' = ord + 1 /\ stage \notin {"merge", "stop"} /\ cand' = cand
          \/ stage' = "stop"
      BY <2>1 DEF Schedule
    <3>2. Did(kind, o, c) => o \in 1 .. ord
      BY DEF OneThing
    <3>3. ~(ord + 1 \in 1 .. ord)
      BY <1>1
    <3>4. stage' # "stop" => o = ord + 1
      BY <1>4, <3>1
    <3>5. stage' = "stop" => FALSE
      BY <1>4
    <3>6. kind = stage /\ c = cand
      BY <2>0, <3>2, <3>3, <3>4, <3>5
    <3> QED BY <3>1, <3>5, <3>6 DEF Line
  <2> DEFINE Here == (busy # 0 /\ stage # "stop") \/ stage = "merge"
  <2>2. ASSUME ord' = ord, Here, Line(stage') = Line(stage), cand' = cand
        PROVE  kind = Line(stage') /\ c = cand'
    <3>1. Did(kind, o, c)
      <4>1. ~(ord' = ord + 1)
        BY <1>1, <2>2
      <4> QED BY <2>0, <4>1
    <3> QED BY <1>4, <2>2, <3>1 DEF OneThing
  <2>3. CASE ScheduleMerge
    BY <2>2, <2>3 DEF ScheduleMerge
  <2>4. ASSUME NEW a \in attempts, Complete(a) PROVE kind = Line(stage') /\ c = cand'
    <3>1. busy' = 0 /\ stage' = "merge" /\ busy # 0 /\ ord' = ord /\ a.kind = stage
      BY <1>4, <2>4, CompleteFlow
    <3>2. stage \in {"prepare", "merge"} \/ stage = "stop"
      BY <2>4, <3>1, Continues DEF Finish, GoOn
    <3>3. stage # "stop"
      BY <2>4, <3>1, Continues DEF Finish, GoOn
    <3>4. cand' = cand
      BY <2>4, <3>1, <3>2, CompleteFlow
    <3> QED BY <2>2, <3>1, <3>2, <3>3, <3>4 DEF Line
  <2>5. ASSUME NEW a \in attempts, NEW still \in {{}, {a}}, Retry(a, still)
        PROVE  kind = Line(stage') /\ c = cand'
    BY <1>4, <2>2, <2>5, RetryFlow
  <2>6. CASE UNCHANGED <<args, stage, busy, round, ord, prior, cand, checks, report>>
    BY <1>4, <2>2, <2>6
  <2> QED BY <2>1, <2>3, <2>4, <2>5, <2>6, FlowSteps
<1>5. \A k \in DOMAIN fx' : k = <<k[1], 0>>
  <2>1. ASSUME NEW k \in DOMAIN fx' \ DOMAIN fx PROVE k = <<k[1], 0>>
    <3>1. PICK a \in attempts : k = Key(a)
      <4>1. UNCHANGED kernelVars => FALSE
        BY <2>1 DEF kernelVars
      <4>2. PICK a \in attempts : Works(a)
        <5>1. ~Schedule /\ ~ScheduleMerge /\ ~Signal /\ ~UNCHANGED vars
          BY <4>1 DEF Schedule, ScheduleMerge, Signal, vars
        <5>2. \A a \in attempts : ~Complete(a) /\ ~Vanish(a) /\ \A still \in {{}, {a}} : ~Retry(a, still)
          BY <4>1 DEF Complete, Vanish, Retry
        <5>3. \A l \in DOMAIN fx : ~(Land(l) \/ \E r \in {"UNKNOWN"} \union Conclusive : Observe(l, r))
          BY <2>1, KernelKept
        <5> QED BY <5>1, <5>2, <5>3 DEF Next
      <4> QED BY <2>1, <4>2, WorksKept
    <3> QED BY <3>1 DEF Key
  <2> QED BY <2>1 DEF OneThing
<1> QED BY <1>2, <1>3, <1>4, <1>5 DEF OneThing

(* Where each step of an attempt takes it, and with what. *)
LEMMA WorksTo ==
  ASSUME Types, NEW a \in attempts, Works(a), NEW x \in attempts'
  PROVE  \/ x \in attempts /\ x # a
         \/ /\ x.kind = a.kind /\ x.ord = a.ord /\ x.n = a.n /\ x.cand = a.cand /\ x.prior = a.prior
            /\ \/ /\ Surface(a) /\ x.at = "step" /\ x.val # "COMMITTED"
                  /\ a.kind # "implement" =>
                       evidence' = evidence \union
                         {[kind |-> a.kind, of |-> a.cand, val |-> x.val, id |-> Made(a)]}
               \/ /\ SealAndEvaluate(a) /\ x.at \in {"admit", "step", "done"} /\ x.val # "COMMITTED"
                  /\ x.at = "done" => a.kind = "merge"
               \/ /\ a.at \in {"read", "reconcile", "reread"} /\ fx' = fx
                  /\ x.at \in {"step", "evaluate", "reconcile"}
                  /\ x.val = "COMMITTED" => Has(Key(a), "COMMITTED")
               \/ /\ Admit(a) /\ x.at \in {"dispatch", "step", "done"} /\ x.val # "COMMITTED"
                  /\ x.at = "done" => a.kind = "merge"
               \/ /\ a.at = "dispatch" /\ fx' = fx /\ x.at \in {"reread", "step", "done"}
                  /\ x.at = "done" => a.kind = "merge"
                  /\ x.val = "COMMITTED" => Has(Key(a), "COMMITTED")
               \/ /\ SubmitStep(a) /\ x.at \in {"done", "failed"} /\ x.val = a.val
                  /\ x.at = "done" => a.ord \in DOMAIN steps' /\ steps'[a.ord] = StepOf(a)
<1> DEFINE Same == /\ x.kind = a.kind /\ x.ord = a.ord /\ x.n = a.n
                   /\ x.cand = a.cand /\ x.prior = a.prior
           Old == x \in attempts /\ x # a
<1>1. ASSUME NEW at, NEW val, Goto(a, at, val) PROVE Old \/ (Same /\ x.at = at /\ x.val = val)
  BY <1>1, GotoOnly
<1> HIDE DEF Same, Old
<1>2. CASE Surface(a)
  <2>1. PICK v \in Answers(a.kind) :
          /\ Goto(a, "step", v)
          /\ a.kind # "implement" =>
               evidence' = evidence \union {[kind |-> a.kind, of |-> a.cand, val |-> v, id |-> Made(a)]}
    BY <1>2 DEF Surface
  <2>2. v # "COMMITTED"
    <3>1. Answers(a.kind) \in {{"none"}, {"APPROVE", "REQUEST_CHANGES"}, {"success", "failure"}}
      BY DEF Answers
    <3> QED BY <2>1, <3>1
  <2>3. Old \/ (Same /\ x.at = "step" /\ x.val = v)
    BY <1>1, <2>1
  <2> QED BY <1>2, <2>1, <2>2, <2>3 DEF Same, Old
<1>3. CASE ReadState(a)
  <2>1. \/ Has(Key(a), "COMMITTED") /\ Goto(a, "step", "COMMITTED")
        \/ Goto(a, "evaluate", "none") \/ Goto(a, "reconcile", "none")
    BY <1>3 DEF ReadState
  <2>2. Old \/ (Same /\ x.at \in {"step", "evaluate", "reconcile"}
                /\ (x.val = "COMMITTED" => Has(Key(a), "COMMITTED")))
    BY <1>1, <2>1
  <2> QED BY <1>3, <2>2 DEF ReadState, kernelVars, Same, Old
<1>4. CASE ReadReconciled(a)
  <2>1. \/ Has(Key(a), "COMMITTED") /\ Goto(a, "step", "COMMITTED")
        \/ Goto(a, "evaluate", "none") \/ Goto(a, "step", "UNKNOWN")
    BY <1>4 DEF ReadReconciled, Unresolved
  <2>2. Old \/ (Same /\ x.at \in {"step", "evaluate", "reconcile"}
                /\ (x.val = "COMMITTED" => Has(Key(a), "COMMITTED")))
    BY <1>1, <2>1
  <2> QED BY <1>4, <2>2 DEF ReadReconciled, kernelVars, Same, Old
<1>5. CASE SealAndEvaluate(a)
  <2>1. \/ Goto(a, "admit", "none") \/ Goto(a, "step", "DENIED") \/ (a.kind = "merge" /\ Goto(a, "done", "DENIED"))
        \/ Goto(a, "step", "human") \/ Goto(a, "step", "auto")
    BY <1>5 DEF SealAndEvaluate
  <2>2. Old \/ (Same /\ x.at \in {"admit", "step", "done"} /\ x.val # "COMMITTED"
                /\ (x.at = "done" => a.kind = "merge"))
    BY <1>1, <2>1
  <2> QED BY <1>5, <2>2 DEF Same, Old
<1>6. CASE Admit(a)
  <2>1. (a.kind = "merge" /\ Goto(a, "done", "REFUSED")) \/ Goto(a, "step", "REFUSED") \/ Goto(a, "dispatch", "none")
    BY <1>6 DEF Admit, Concluded
  <2>2. Old \/ (Same /\ x.at \in {"dispatch", "step", "done"} /\ x.val # "COMMITTED"
                /\ (x.at = "done" => a.kind = "merge"))
    BY <1>1, <2>1
  <2> QED BY <1>6, <2>2 DEF Same, Old
<1>7. CASE Dispatched(a)
  <2>1. \/ Goto(a, "reread", "none") \/ Goto(a, "step", Latest(Key(a)))
        \/ (a.kind = "merge" /\ Goto(a, "done", Latest(Key(a))))
    BY <1>7 DEF Dispatched, Concluded
  <2>2. Latest(Key(a)) = "COMMITTED" => Has(Key(a), "COMMITTED")
    BY LatestRow DEF Has, Rows, Range
  <2>3. Old \/ (Same /\ x.at \in {"reread", "step", "done"} /\ (x.at = "done" => a.kind = "merge")
                /\ (x.val = "COMMITTED" => Has(Key(a), "COMMITTED")))
    BY <1>1, <2>1, <2>2
  <2> QED BY <1>7, <2>3 DEF Dispatched, kernelVars, Same, Old
<1>8. CASE ReadAgain(a)
  <2>1. \/ Has(Key(a), "COMMITTED") /\ Goto(a, "step", "COMMITTED")
        \/ Goto(a, "step", "UNKNOWN")
    BY <1>8 DEF ReadAgain
  <2>2. Old \/ (Same /\ x.at = "step" /\ (x.val = "COMMITTED" => Has(Key(a), "COMMITTED")))
    BY <1>1, <2>1
  <2> QED BY <1>8, <2>2 DEF ReadAgain, kernelVars, Same, Old
<1>9. CASE SubmitStep(a)
  <2>1. \/ a.ord \in DOMAIN steps' /\ steps'[a.ord] = StepOf(a) /\ Goto(a, "done", a.val)
        \/ Goto(a, "failed", a.val)
    BY <1>9, SubmitWrites
  <2>2. Old \/ (Same /\ x.at \in {"done", "failed"} /\ x.val = a.val
                /\ (x.at = "done" => a.ord \in DOMAIN steps' /\ steps'[a.ord] = StepOf(a)))
    BY <1>1, <2>1
  <2> QED BY <1>9, <2>2 DEF Same, Old
<1> QED BY <1>2, <1>3, <1>4, <1>5, <1>6, <1>7, <1>8, <1>9 DEF Works

(* A new attempt is at the beginning of what it is for. *)
LEMMA NewAttemptFields ==
  ASSUME NEW kind, NEW k, NEW n
  PROVE  LET b == NewAttempt(kind, k, n)
         IN  /\ b.kind = kind /\ b.ord = k /\ b.n = n /\ b.cand = cand /\ b.prior = prior
             /\ b.val = "none" /\ b.at = FirstPosition(kind)
BY DEF NewAttempt

LEMMA PreparedWork ==
  ASSUME Types, Prepared, NEW a \in attempts, Works(a), NEW x \in attempts',
         \/ x.at \in {"admit", "dispatch", "reread"}
         \/ x.kind = "merge"
         \/ x.kind = "prepare" /\ x.at \in {"step", "done", "failed"}
  PROVE  Key(x) \in DOMAIN fx'
<1>1. \A k \in DOMAIN fx : k \in DOMAIN fx'
  BY WorksKept
<1>2. CASE x \in attempts /\ x # a
  BY <1>1, <1>2 DEF Prepared
<1>4. SealAndEvaluate(a) => Key(a) \in DOMAIN fx'
  BY SealWrites
<1>5. a.at \in {"admit", "dispatch", "reread"} => Key(a) \in DOMAIN fx'
  BY <1>1 DEF Prepared
<1>6. a.kind = "merge" \/ (a.kind = "prepare" /\ a.at \in {"step", "done", "failed"})
        => Key(a) \in DOMAIN fx'
  BY <1>1 DEF Prepared
<1>7. a.at \in PlacesOf(a.kind)
  BY AttemptFields
<1>8. ASSUME x.kind = a.kind, x.ord = a.ord,
             \/ Surface(a) /\ x.at = "step"
             \/ SealAndEvaluate(a)
             \/ a.at \in {"read", "reconcile", "reread"} /\ x.at \in {"step", "evaluate", "reconcile"}
             \/ Admit(a)
             \/ a.at = "dispatch"
             \/ SubmitStep(a) /\ x.at \in {"done", "failed"}
      PROVE  Key(a) \in DOMAIN fx'
  <2>1. a.kind = "prepare" => a.at \in {"evaluate", "step", "done", "failed"}
    BY <1>7, PlacesByKind
  <2> QED BY <1>4, <1>5, <1>6, <1>8, <2>1 DEF Surface, Admit, SubmitStep
<1> QED BY <1>2, <1>8, WorksTo DEF Key

(* Where the attempts of the next state come from. *)
LEMMA AttemptsNext ==
  ASSUME Types, OneThing, [Next]_vars, NEW x \in attempts'
  PROVE  \/ x \in attempts
         \/ \E a \in attempts : Works(a)
         \/ /\ x.at = FirstPosition(x.kind) /\ x.cand = cand /\ x.prior = prior /\ x.val = "none"
            /\ UNCHANGED kernelVars
            /\ \/ x.kind = "stop"
               \/ Schedule /\ x.kind = stage /\ stage # "merge" /\ busy = 0 /\ x.ord = ord + 1
               \/ ScheduleMerge /\ x.kind = "merge" /\ x.ord = ord
               \/ \E a \in attempts : Current(a) /\ x.kind = a.kind /\ x.ord = a.ord
<1>1. CASE Schedule
  <2>1. x \in attempts \/ x = NewAttempt(stage, ord + 1, 1) \/ x = NewAttempt("stop", ord + 1, 1)
    BY <1>1 DEF Schedule
  <2> QED BY <1>1, <2>1, NewAttemptFields DEF Schedule
<1>2. CASE ScheduleMerge
  <2>1. x \in attempts \/ x = NewAttempt("merge", ord, 1)
    BY <1>2 DEF ScheduleMerge
  <2> QED BY <1>2, <2>1, NewAttemptFields DEF ScheduleMerge
<1>3. ASSUME NEW a \in attempts, NEW still \in {{}, {a}}, Retry(a, still)
      PROVE  \/ x \in attempts
             \/ /\ x.at = FirstPosition(x.kind) /\ x.cand = cand /\ x.prior = prior
                /\ x.val = "none" /\ UNCHANGED kernelVars
                /\ Current(a) /\ x.kind = a.kind /\ x.ord = a.ord
  <2>1. x \in attempts \/ x = NewAttempt(a.kind, a.ord, a.n + 1)
    BY <1>3, RetryFlow
  <2> QED BY <1>3, <2>1, NewAttemptFields DEF Retry
<1>4. ASSUME NEW a \in attempts, Complete(a) \/ Vanish(a) PROVE x \in attempts
  BY <1>4 DEF Complete, Vanish
<1>5. ASSUME NEW k \in DOMAIN fx,
             Land(k) \/ \E r \in {"UNKNOWN"} \union Conclusive : Observe(k, r)
      PROVE  x \in attempts
  BY <1>5, KernelKept DEF hostVars
<1>6. CASE Signal \/ UNCHANGED vars
  BY <1>6 DEF Signal, vars, hostVars
<1> QED BY <1>1, <1>2, <1>3, <1>4, <1>5, <1>6 DEF Next

LEMMA PreparedNext ==
  ASSUME Types, OneThing, Prepared, [Next]_vars
  PROVE  Prepared'
<1>1. ASSUME stage' = "merge" PROVE <<ord', 0>> \in DOMAIN fx'
  <2>1. ASSUME stage = "merge", ord' = ord PROVE <<ord', 0>> \in DOMAIN fx'
    BY <2>1, Kept DEF Prepared
  <2>2. CASE Schedule
    BY <1>1, <2>2 DEF Schedule
  <2>3. CASE ScheduleMerge
    BY <2>1, <2>3 DEF ScheduleMerge
  <2>4. ASSUME NEW a \in attempts, Complete(a) PROVE <<ord', 0>> \in DOMAIN fx'
    <3>1. stage = "merge" \/ a.kind = "prepare"
      BY <1>1, <2>4, Continues DEF Finish, GoOn
    <3>2. ord' = ord
      BY <2>4, CompleteFlow
    <3>3. CASE a.kind = "prepare"
      <4>1. Key(a) \in DOMAIN fx /\ a.ord = ord
        BY <2>4, <3>3, CompleteFlow DEF Prepared
      <4> QED BY <3>2, <4>1, Kept DEF Key
    <3> QED BY <2>1, <3>1, <3>2, <3>3
  <2>5. ASSUME NEW a \in attempts, NEW still \in {{}, {a}}, Retry(a, still)
        PROVE  <<ord', 0>> \in DOMAIN fx'
    BY <1>1, <2>1, <2>5, RetryFlow
  <2>6. CASE UNCHANGED <<args, stage, busy, round, ord, prior, cand, checks, report>>
    BY <1>1, <2>1, <2>6
  <2> QED BY <2>2, <2>3, <2>4, <2>5, <2>6, FlowSteps
<1>2. ASSUME NEW x \in attempts',
             \/ x.at \in {"admit", "dispatch", "reread"}
             \/ x.kind = "merge"
             \/ x.kind = "prepare" /\ x.at \in {"step", "done", "failed"}
      PROVE  Key(x) \in DOMAIN fx'
  <2>1. CASE x \in attempts
    BY <1>2, <2>1, Kept DEF Prepared
  <2>2. ASSUME NEW a \in attempts, Works(a) PROVE Key(x) \in DOMAIN fx'
    BY <1>2, <2>2, PreparedWork
  <2>3. CASE x.at = FirstPosition(x.kind) /\ UNCHANGED kernelVars
    <3>1. x.kind = "merge"
      BY <1>2, <2>3 DEF FirstPosition, SurfaceKinds, GovernedKinds
    <3>2. CASE ScheduleMerge /\ x.ord = ord
      BY <2>3, <3>2 DEF ScheduleMerge, Prepared, Key, kernelVars
    <3>3. ASSUME NEW a \in attempts, x.kind = a.kind, x.ord = a.ord PROVE Key(x) \in DOMAIN fx'
      BY <2>3, <3>1, <3>3 DEF Prepared, Key, kernelVars
    <3>4. CASE x \in attempts
      BY <2>1, <3>4
    <3> QED BY <3>1, <3>2, <3>3, <3>4, <2>2, AttemptsNext
  <2> QED BY <2>1, <2>2, <2>3, AttemptsNext
<1> QED BY <1>1, <1>2 DEF Prepared, Key

-----------------------------------------------------------------------------
(* The order of the stages. *)

LEMMA FinishEnds ==
  \A end \in {"stopped", "completed"} :
    Finish(end) => /\ report' # Running /\ report'.end = end /\ report'.stage = stage
                   /\ UNCHANGED <<stage, round, checks>>
BY DEF Finish, Running

(* Where the workflow goes, and from where. *)
LEMMA StagesNext ==
  ASSUME Types, OneThing, [Next]_vars
  PROVE  \/ stage' = stage
         \/ Schedule /\ stage' = "stop" /\ busy' # 0
         \/ \E a \in attempts :
              /\ Complete(a) /\ report' = Running
              /\ \/ stage = "implement" /\ stage' = "push"
                 \/ stage = "push" /\ stage' = "verify" /\ a.val = "COMMITTED"
                 \/ /\ stage = "verify"
                    /\ stage' = IF args.external THEN "external" ELSE "review"
                 \/ stage = "external" /\ stage' = "review" /\ a.val = "success"
                 \/ stage = "review" /\ stage' = "pr" /\ Approved(a.val)
                 \/ stage = "review" /\ stage' = "implement"
                 \/ stage = "pr" /\ stage' = "prepare" /\ a.val = "COMMITTED"
                 \/ stage = "prepare" /\ stage' = "merge"
<1>1. ASSUME NEW a \in attempts, Complete(a), stage' # stage
      PROVE  /\ report' = Running
             /\ \/ stage = "implement" /\ stage' = "push"
                \/ stage = "push" /\ stage' = "verify" /\ a.val = "COMMITTED"
                \/ /\ stage = "verify"
                   /\ stage' = IF args.external THEN "external" ELSE "review"
                \/ stage = "external" /\ stage' = "review" /\ a.val = "success"
                \/ stage = "review" /\ stage' = "pr" /\ Approved(a.val)
                \/ stage = "review" /\ stage' = "implement"
                \/ stage = "pr" /\ stage' = "prepare" /\ a.val = "COMMITTED"
                \/ stage = "prepare" /\ stage' = "merge"
  BY <1>1, Continues DEF Finish, GoOn
<1>2. ASSUME NEW a \in attempts, NEW still \in {{}, {a}}, Retry(a, still) PROVE stage' = stage
  BY <1>2 DEF Retry
<1>3. Schedule => stage' = stage \/ (stage' = "stop" /\ busy' # 0)
  BY DEF Schedule
<1> QED BY <1>1, <1>2, <1>3, FlowSteps DEF ScheduleMerge

LEMMA PushFollowsNext ==
  ASSUME Types, OneThing, Prepared, PushFollows, [Next]_vars
  PROVE  PushFollows'
<1>1. ord \in Nat
  BY BoundsOk DEF Types, TypeOK
<1>2. ASSUME NEW o, NEW c, Did("push", o, c)' PROVE c[1] = o - 1
  <2>1. CASE Did("push", o, c)
    BY <2>1 DEF PushFollows
  <2>2. CASE Schedule /\ "push" = stage /\ o = ord + 1 /\ c = cand
    BY <1>1, <2>2 DEF PushFollows, Schedule
  <2> QED BY <1>2, <2>1, <2>2, DidNext
<1>3. ASSUME stage' = "push", report' = Running
      PROVE  cand'[1] = IF busy' = 0 THEN ord' ELSE ord' - 1
  <2>1. CASE Schedule
    BY <1>1, <1>3, <2>1 DEF Schedule, PushFollows
  <2>2. CASE ScheduleMerge
    BY <1>3, <2>2 DEF ScheduleMerge
  <2>3. ASSUME NEW a \in attempts, Complete(a)
        PROVE  cand'[1] = IF busy' = 0 THEN ord' ELSE ord' - 1
    <3>1. a.kind = "implement"
      BY <1>3, <2>3, Continues, FinishEnds DEF GoOn
    <3>2. cand' = <<a.ord, a.n>> /\ a.ord = ord /\ ord' = ord /\ busy' = 0
      BY <2>3, <3>1, CompleteFlow
    <3> QED BY <3>2
  <2>4. ASSUME NEW a \in attempts, NEW still \in {{}, {a}}, Retry(a, still)
        PROVE  cand'[1] = IF busy' = 0 THEN ord' ELSE ord' - 1
    BY <1>3, <2>4, RetryFlow DEF PushFollows, Running
  <2>5. CASE UNCHANGED <<args, stage, busy, round, ord, prior, cand, checks, report>>
    BY <1>3, <2>5 DEF PushFollows
  <2> QED BY <2>1, <2>2, <2>3, <2>4, <2>5, FlowSteps
<1> QED BY <1>2, <1>3 DEF PushFollows

LEMMA OnceNext ==
  ASSUME Types, OneThing, Prepared, Once, [Next]_vars
  PROVE  Once'
<1> SUFFICES ASSUME NEW kind \in {"pr", "prepare"}, NEW o, NEW c, Did(kind, o, c)'
             PROVE  /\ \A p, d : Did(kind, p, d)' => p = o
                    /\ stage' \in (IF kind = "pr" THEN {"pr"} ELSE {}) \union {"prepare", "merge", "stop"}
                    /\ stage' = kind /\ report' = Running => busy' # 0
  BY DEF Once
<1>1. ASSUME NEW p, NEW d, Did(kind, p, d)
      PROVE  /\ \A q, e : Did(kind, q, e) => q = p
             /\ stage \in (IF kind = "pr" THEN {"pr"} ELSE {}) \union {"prepare", "merge", "stop"}
             /\ stage = kind /\ report = Running => busy # 0
  BY <1>1 DEF Once
<1>2. ASSUME NEW p, NEW d, Did(kind, p, d)'
      PROVE  \/ Did(kind, p, d)
             \/ /\ Schedule /\ stage' = stage /\ kind = stage /\ p = ord + 1
                /\ \A q, e : ~Did(kind, q, e)
  <2>1. Schedule => busy = 0 /\ report = Running
    BY DEF Schedule
  <2> QED BY <1>1, <1>2, <2>1, DidNext
<1>3. \A p, d : Did(kind, p, d)' => p = o
  BY <1>1, <1>2
<1>4. CASE ~Did(kind, o, c)
  BY <1>2, <1>3, <1>4 DEF Schedule
<1>5. CASE Did(kind, o, c)
  <2>1. /\ stage \in (IF kind = "pr" THEN {"pr"} ELSE {}) \union {"prepare", "merge", "stop"}
        /\ stage = kind /\ report = Running => busy # 0
    BY <1>1, <1>5
  <2>2. stage' \in (IF kind = "pr" THEN {"pr"} ELSE {}) \union {"prepare", "merge", "stop"}
    BY <2>1, StagesNext
  <2>3. ASSUME stage' = kind, report' = Running PROVE busy' # 0
    <3>1. stage = kind
      BY <2>1, <2>3, StagesNext
    <3>2. CASE Schedule \/ ScheduleMerge
      BY <3>2 DEF Schedule, ScheduleMerge
    <3>3. ASSUME NEW a \in attempts, Complete(a) PROVE FALSE
      BY <2>3, <3>1, <3>3, Continues, FinishEnds DEF GoOn
    <3>4. ASSUME NEW a \in attempts, NEW still \in {{}, {a}}, Retry(a, still) PROVE busy' # 0
      BY <3>4, RetryFlow
    <3>5. CASE UNCHANGED <<args, stage, busy, round, ord, prior, cand, checks, report>>
      BY <2>1, <2>3, <3>1, <3>5
    <3> QED BY <3>2, <3>3, <3>4, <3>5, FlowSteps
  <2> QED BY <1>3, <2>2, <2>3
<1> QED BY <1>4, <1>5

-----------------------------------------------------------------------------
(* Every effect that took place is told of. *)

ToldOf(f) ==
  /\ "COMMITTED" \in Range(f.rows) => f.times > 0
  /\ f.kind = "pr" =>
       /\ f.times <= 1
       /\ f.flight => f.times = 0
       /\ f.rows = <<>> \/ f.rows[Len(f.rows)] \in {"none", "NO_EFFECT_CONFIRMED"} =>
            f.times = 0 /\ ~f.flight
EffectsTold == \A k \in DOMAIN fx : ToldOf(fx[k])
ValuesTold == \A a \in attempts : a.val = "COMMITTED" => Key(a) \in DOMAIN fx /\ Taken(Key(a))

LEMMA ToldParts == Told <=> EffectsTold /\ ValuesTold
<1>1. ASSUME NEW k \in DOMAIN fx
      PROVE  /\ Has(k, "COMMITTED") <=> "COMMITTED" \in Range(fx[k].rows)
             /\ Latest(k) \in {"none", "NO_EFFECT_CONFIRMED"} <=>
                  fx[k].rows = <<>> \/ fx[k].rows[Len(fx[k].rows)] \in {"none", "NO_EFFECT_CONFIRMED"}
  BY DEF Has, Latest, Rows
<1> QED BY <1>1 DEF Told, EffectsTold, ValuesTold, ToldOf, Taken

LEMMA ToldPartsNext == Told' <=> EffectsTold' /\ ValuesTold'
BY ToldParts, PTL

LEMMA ToldSeal ==
  ASSUME NEW kind, NEW c PROVE ToldOf(Sealed(kind, c))
BY DEF ToldOf, Sealed, Range

LEMMA EffectsToldNext ==
  ASSUME Types, Prepared, Told, [Next]_vars
  PROVE  EffectsTold'
<1>1. \A k \in DOMAIN fx : ToldOf(fx[k])
  BY ToldParts DEF EffectsTold
<1>2. CASE fx' = fx
  BY <1>1, <1>2 DEF EffectsTold
<1>3. ASSUME NEW a \in attempts, SealAndEvaluate(a) PROVE EffectsTold'
  BY <1>1, <1>3, SealWrites, ToldSeal DEF EffectsTold
<1>4. ASSUME NEW a \in attempts, Admit(a), fx' # fx PROVE EffectsTold'
  <2> DEFINE K == Key(a)
  <2>1. /\ DOMAIN fx' = DOMAIN fx /\ K \in DOMAIN fx /\ Admissible(K)
        /\ \A k \in DOMAIN fx : k # K => fx'[k] = fx[k]
        /\ fx'[K].rows = Append(fx[K].rows, "PENDING")
        /\ fx'[K].kind = fx[K].kind /\ fx'[K].times = fx[K].times
    BY <1>4, AdmitWrites
  <2> HIDE DEF K
  <2>2. ToldOf(fx[K]) /\ fx[K].rows \in Seq(Row)
    BY <1>1, <2>1, EffectFields
  <2>3. "COMMITTED" \in Range(fx'[K].rows) => "COMMITTED" \in Range(fx[K].rows)
    BY <2>1, <2>2 DEF Range
  <2>4. fx[K].kind = "pr" => fx[K].times = 0
    BY <2>1, <2>2 DEF ToldOf, Admissible, Latest, Rows
  <2>5. fx'[K].rows # <<>> /\ fx'[K].rows[Len(fx'[K].rows)] = "PENDING"
    BY <2>1, <2>2
  <2>6. ToldOf(fx'[K])
    BY <2>1, <2>2, <2>3, <2>4, <2>5 DEF ToldOf
  <2> QED BY <1>1, <2>1, <2>6 DEF EffectsTold
<1>5. ASSUME NEW k \in DOMAIN fx, Land(k) PROVE EffectsTold'
  <2>1. /\ DOMAIN fx' = DOMAIN fx /\ \A l \in DOMAIN fx : l # k => fx'[l] = fx[l]
        /\ fx'[k].rows = fx[k].rows /\ fx'[k].kind = fx[k].kind
        /\ fx[k].flight = TRUE /\ fx'[k].flight = FALSE
        /\ \/ fx'[k].times = fx[k].times
           \/ fx'[k].times = IF fx[k].kind = "pr" THEN fx[k].times + 1 ELSE 1
    BY <1>5, LandWrites
  <2>2. ToldOf(fx[k]) /\ fx[k].times \in Nat
    BY <1>1, EffectFields
  <2>3. ToldOf(fx'[k])
    BY <2>1, <2>2 DEF ToldOf
  <2> QED BY <1>1, <2>1, <2>3 DEF EffectsTold
<1>6. ASSUME NEW k \in DOMAIN fx, NEW r \in {"UNKNOWN"} \union Conclusive, Observe(k, r)
      PROVE  EffectsTold'
  <2>1. /\ DOMAIN fx' = DOMAIN fx /\ \A l \in DOMAIN fx : l # k => fx'[l] = fx[l]
        /\ fx[k].rows \in Seq(Row) /\ Len(fx[k].rows) \in Nat \ {0}
        /\ fx'[k].rows = [fx[k].rows EXCEPT ![Len(fx[k].rows)] = r]
        /\ fx'[k].kind = fx[k].kind /\ fx'[k].flight = fx[k].flight /\ fx'[k].times = fx[k].times
    BY <1>6, ObserveWrites DEF Row
  <2>2. ToldOf(fx[k])
    BY <1>1
  <2>3. /\ r = "COMMITTED" => fx[k].times > 0
        /\ r = "NO_EFFECT_CONFIRMED" => fx[k].times = 0 /\ ~fx[k].flight
    BY <1>6 DEF Observe
  <2>4. /\ Len(fx'[k].rows) = Len(fx[k].rows) /\ fx'[k].rows # <<>>
        /\ fx'[k].rows[Len(fx'[k].rows)] = r
        /\ r # "COMMITTED" /\ "COMMITTED" \in Range(fx'[k].rows) => "COMMITTED" \in Range(fx[k].rows)
    BY <2>1 DEF Range
  <2>5. r # "none"
    BY DEF Conclusive
  <2>6. ToldOf(fx'[k])
    BY <2>1, <2>2, <2>3, <2>4, <2>5 DEF ToldOf
  <2> QED BY <1>1, <2>1, <2>6 DEF EffectsTold
<1>7. ASSUME NEW a \in attempts, Works(a) PROVE EffectsTold'
  BY <1>2, <1>3, <1>4, <1>7, WorksWrites
<1>8. ASSUME NEW a \in attempts, Complete(a) \/ Vanish(a) \/ \E still \in {{}, {a}} : Retry(a, still)
      PROVE  fx' = fx
  BY <1>8 DEF Complete, Vanish, Retry, kernelVars
<1>9. Schedule \/ ScheduleMerge \/ Signal \/ UNCHANGED vars => fx' = fx
  BY DEF Schedule, ScheduleMerge, Signal, vars, kernelVars
<1> QED BY <1>2, <1>5, <1>6, <1>7, <1>8, <1>9 DEF Next

LEMMA ToldNext ==
  ASSUME Types, OneThing, Prepared, Told, [Next]_vars
  PROVE  Told'
<1>1. EffectsTold'
  BY EffectsToldNext
<1>2. ASSUME NEW k \in DOMAIN fx, Taken(k) PROVE k \in DOMAIN fx' /\ fx'[k].times > 0
  BY <1>2, Kept DEF Taken
<1>3. ASSUME NEW k, Has(k, "COMMITTED") PROVE k \in DOMAIN fx /\ Taken(k)
  <2>1. k \in DOMAIN fx
    BY <1>3 DEF Has, Rows, Range
  <2> QED BY <1>3, <2>1 DEF Told
<1>4. ASSUME NEW x \in attempts', x.val = "COMMITTED"
      PROVE  Key(x) \in DOMAIN fx' /\ fx'[Key(x)].times > 0
  <2>1. CASE x \in attempts
    BY <1>2, <1>4, <2>1 DEF Told
  <2>2. ASSUME NEW a \in attempts, Works(a) PROVE Key(x) \in DOMAIN fx' /\ fx'[Key(x)].times > 0
    <3>1. ASSUME x.ord = a.ord, a.val = "COMMITTED" \/ Has(Key(a), "COMMITTED")
          PROVE  Key(x) \in DOMAIN fx' /\ fx'[Key(x)].times > 0
      BY <1>2, <1>3, <3>1 DEF Told, Key
    <3> QED BY <1>4, <2>1, <2>2, <3>1, WorksTo
  <2> QED BY <1>4, <2>1, <2>2, AttemptsNext
<1>5. ValuesTold'
  BY <1>4 DEF ValuesTold, Taken, Key
<1> QED BY <1>1, <1>5, ToldPartsNext

LEMMA FoundNext ==
  ASSUME Types, OneThing, Prepared, Found, [Next]_vars
  PROVE  Found'
<1>1. evidence \subseteq evidence'
  BY Kept
<1>2. ASSUME NEW x \in attempts', x.kind \in SurfaceKinds, x.at # "surface"
      PROVE  \E e \in evidence' : e.kind = x.kind /\ e.of = x.cand /\ e.val = x.val
  <2>1. CASE x \in attempts
    BY <1>1, <1>2, <2>1 DEF Found, Seen
  <2>2. ASSUME NEW a \in attempts, Works(a), x \notin attempts
        PROVE  \E e \in evidence' : e.kind = x.kind /\ e.of = x.cand /\ e.val = x.val
    <3>1. x.kind = a.kind /\ x.cand = a.cand
      BY <2>2, WorksTo
    <3>2. a.at \in {"surface", "step", "done", "failed"} /\ a.kind # "implement"
      BY <1>2, <3>1, AttemptFields, PlacesByKind DEF SurfaceKinds
    <3>3. CASE evidence' = evidence \union
                 {[kind |-> a.kind, of |-> a.cand, val |-> x.val, id |-> Made(a)]}
      <4> DEFINE e == [kind |-> a.kind, of |-> a.cand, val |-> x.val, id |-> Made(a)]
      <4>1. e \in evidence' /\ e.kind = x.kind /\ e.of = x.cand /\ e.val = x.val
        BY <3>1, <3>3
      <4> QED BY <4>1
    <3>4. CASE SubmitStep(a) /\ x.val = a.val
      BY <1>1, <1>2, <3>1, <3>4 DEF SubmitStep, Found, Seen
    <3> QED BY <2>2, <3>2, <3>3, <3>4, WorksTo DEF SealAndEvaluate, Admit
  <2>3. FirstPosition(x.kind) = "surface"
    BY <1>2 DEF FirstPosition, SurfaceKinds, GovernedKinds
  <2> QED BY <1>2, <2>1, <2>2, <2>3, AttemptsNext
<1> QED BY <1>2 DEF Found, Seen

-----------------------------------------------------------------------------
(* What is established of a candidate. *)

(* A request that is known to be COMMITTED is about what the attempt asked. *)
LEMMA CommittedEffect ==
  ASSUME Types, OneThing, Told, NEW a \in attempts, a.kind # "stop", a.val = "COMMITTED"
  PROVE  Key(a) \in EffectsOf(Line(a.kind)) /\ fx[Key(a)].of = a.cand
<1> DEFINE K == Key(a)
<1>1. K \in DOMAIN fx /\ Taken(K) /\ K = <<a.ord, 0>>
  BY DEF Told, Key
<1> HIDE DEF K
<1>2. Did(fx[K].kind, a.ord, fx[K].of)
  BY <1>1 DEF Did
<1>3. Did(Line(a.kind), a.ord, a.cand)
  BY DEF Did
<1>4. fx[K].kind = Line(a.kind) /\ fx[K].of = a.cand
  BY <1>2, <1>3 DEF OneThing
<1> QED BY <1>1, <1>4 DEF EffectsOf, K

LEMMA ApprovableKept ==
  ASSUME Types, Prepared, [Next]_vars, NEW c
  PROVE  /\ \A kind : (\E k \in EffectsOf(kind) : fx[k].of = c)
                        => (\E k \in EffectsOf(kind)' : fx'[k].of = c)
         /\ \A kind, v : Seen(kind, c, v) => Seen(kind, c, v)'
         /\ Pushed(c) => Pushed(c)'
         /\ Approvable(c) => Approvable(c)'
<1>1. /\ \A k \in DOMAIN fx : /\ k \in DOMAIN fx'
                              /\ fx'[k].kind = fx[k].kind /\ fx'[k].of = fx[k].of
                              /\ fx[k].times > 0 => fx'[k].times > 0
      /\ evidence \subseteq evidence' /\ args' = args
  BY Kept
<1>2. ASSUME NEW kind, NEW k \in EffectsOf(kind)
      PROVE  k \in EffectsOf(kind)' /\ fx'[k].of = fx[k].of
  BY <1>1 DEF EffectsOf, Taken
<1>3. \A kind, v : Seen(kind, c, v) => Seen(kind, c, v)'
  BY <1>1 DEF Seen
<1>4. Pushed(c) => Pushed(c)'
  BY <1>2 DEF Pushed
<1> QED BY <1>1, <1>2, <1>3, <1>4 DEF Approvable

LEMMA EstablishedComplete ==
  ASSUME Types, OneThing, Prepared, Told, Found, Established, NEW a \in attempts, Complete(a),
         [Next]_vars
  PROVE  /\ stage' \in {"implement", "push", "verify"} => checks' = Unchecked
         /\ stage' \in {"verify", "external", "review", "pr", "prepare", "merge"} => Pushed(cand')
         /\ checks'.verify = "success" => Seen("verify", cand', "success")
         /\ stage' = "review" /\ args.external => Seen("external", cand', "success")
         /\ stage' \in {"pr", "prepare", "merge"} => Approvable(cand')
         /\ stage' \in {"prepare", "merge"} => \E k \in EffectsOf("pr") : fx[k].of = cand'
<1>1. /\ a.kind = stage /\ a.at = "done"
      /\ a.kind # "stop" => a.cand = cand
      /\ a.kind # "implement" => cand' = cand
  BY CompleteFlow
<1>2. a.kind \in SurfaceKinds => Seen(a.kind, cand, a.val)
  BY <1>1 DEF Found, SurfaceKinds
<1>3. a.kind \in {"push", "pr"} /\ a.val = "COMMITTED" => \E k \in EffectsOf(a.kind) : fx[k].of = cand
  BY <1>1, CommittedEffect DEF Line
<1>4. /\ stage \in {"implement", "push", "verify"} => checks = Unchecked
      /\ stage \in {"verify", "external", "review", "pr", "prepare", "merge"} => Pushed(cand)
      /\ checks.verify = "success" => Seen("verify", cand, "success")
      /\ stage = "review" /\ args.external => Seen("external", cand, "success")
      /\ stage \in {"pr", "prepare", "merge"} => Approvable(cand)
      /\ stage \in {"prepare", "merge"} => \E k \in EffectsOf("pr") : fx[k].of = cand
  BY DEF Established
<1>5. Unchecked.verify = "none" /\ checks \in [verify : Values, external : Values, review : Values]
  BY DEF Unchecked, Types, TypeOK
<1>6. CASE UNCHANGED <<stage, checks>> /\ stage # "implement"
  BY <1>1, <1>4, <1>6
<1>7. CASE stage = "implement"
  <2>1. checks' = checks /\ stage' \in {"push", "implement"}
    BY <1>1, <1>7, Continues DEF Finish, GoOn
  <2> QED BY <1>4, <1>5, <1>7, <2>1
<1>8. CASE stage = "verify" /\ stage' # stage
  <2>1. /\ stage' = IF args.external THEN "external" ELSE "review"
        /\ checks' = [checks EXCEPT !.verify = a.val]
    BY <1>1, <1>8, Continues DEF Finish, GoOn
  <2>2. checks'.verify = a.val
    BY <1>5, <2>1
  <2> QED BY <1>1, <1>2, <1>4, <1>8, <2>1, <2>2 DEF SurfaceKinds
<1>9. CASE stage = "external" /\ stage' # stage
  <2>1. stage' = "review" /\ a.val = "success" /\ checks' = [checks EXCEPT !.external = a.val]
    BY <1>1, <1>9, Continues DEF Finish, GoOn
  <2>2. checks'.verify = checks.verify
    BY <1>5, <2>1
  <2> QED BY <1>1, <1>2, <1>4, <1>9, <2>1, <2>2 DEF SurfaceKinds
<1>10. CASE stage = "review" /\ stage' # stage
  <2>1. CASE Approved(a.val) /\ stage' = "pr" /\ checks' = [checks EXCEPT !.review = a.val]
    <3>1. a.val = "APPROVE" /\ checks.verify = "success" /\ checks'.verify = checks.verify
      BY <1>5, <2>1 DEF Approved
    <3> QED BY <1>1, <1>2, <1>4, <1>10, <2>1, <3>1 DEF Approvable, SurfaceKinds
  <2>2. CASE stage' = "implement" /\ checks' = Unchecked
    BY <1>5, <2>2
  <2> QED BY <1>1, <1>10, <2>1, <2>2, Continues DEF Finish, GoOn
<1>11. CASE stage = "push" /\ stage' # stage
  <2>1. stage' = "verify" /\ a.val = "COMMITTED" /\ checks' = checks
    BY <1>1, <1>11, Continues DEF Finish, GoOn
  <2> QED BY <1>1, <1>3, <1>4, <1>5, <1>11, <2>1 DEF Pushed
<1>12. CASE stage = "pr" /\ stage' # stage
  <2>1. stage' = "prepare" /\ a.val = "COMMITTED" /\ checks' = checks
    BY <1>1, <1>12, Continues DEF Finish, GoOn
  <2> QED BY <1>1, <1>3, <1>4, <1>12, <2>1
<1>13. CASE stage = "prepare" /\ stage' # stage
  <2>1. stage' = "merge" /\ checks' = checks
    BY <1>1, <1>13, Continues DEF Finish, GoOn
  <2> QED BY <1>1, <1>4, <1>13, <2>1
<1>14. stage' = stage => UNCHANGED checks \/ stage = "implement"
  BY <1>1, Continues DEF Finish, GoOn
<1> QED BY <1>1, <1>6, <1>7, <1>8, <1>9, <1>10, <1>11, <1>12, <1>13, <1>14, StagesNext, Continues DEF Finish, GoOn

LEMMA EstablishedNext ==
  ASSUME Types, OneThing, Prepared, Told, Found, Established, [Next]_vars
  PROVE  Established'
<1> DEFINE Now == /\ stage' \in {"implement", "push", "verify"} => checks' = Unchecked
                  /\ stage' \in {"verify", "external", "review", "pr", "prepare", "merge"} => Pushed(cand')
                  /\ checks'.verify = "success" => Seen("verify", cand', "success")
                  /\ stage' = "review" /\ args.external => Seen("external", cand', "success")
                  /\ stage' \in {"pr", "prepare", "merge"} => Approvable(cand')
                  /\ stage' \in {"prepare", "merge"} => \E k \in EffectsOf("pr") : fx[k].of = cand'
<1>1. Now
  <2>1. ASSUME stage' \in {stage, "stop"}, UNCHANGED <<cand, checks>> PROVE Now
    BY <2>1 DEF Established
  <2>2. Schedule \/ ScheduleMerge => stage' \in {stage, "stop"} /\ UNCHANGED <<cand, checks>>
    BY DEF Schedule, ScheduleMerge
  <2>3. ASSUME NEW a \in attempts, NEW still \in {{}, {a}}, Retry(a, still)
        PROVE  UNCHANGED <<stage, cand, checks>>
    BY <2>3 DEF Retry
  <2>4. ASSUME NEW a \in attempts, Complete(a) PROVE Now
    BY <2>4, EstablishedComplete
  <2> QED BY <2>1, <2>2, <2>3, <2>4, FlowSteps
<1>2. args' = args
  BY Kept
<1>3. ASSUME NEW c, c = cand'
      PROVE  /\ stage' \in {"verify", "external", "review", "pr", "prepare", "merge"} => Pushed(c)'
             /\ checks'.verify = "success" => Seen("verify", c, "success")'
             /\ stage' = "review" /\ args.external => Seen("external", c, "success")'
             /\ stage' \in {"pr", "prepare", "merge"} => Approvable(c)'
             /\ stage' \in {"prepare", "merge"} => \E k \in EffectsOf("pr")' : fx'[k].of = c
  BY <1>1, <1>3, ApprovableKept
<1>4. ASSUME NEW o, NEW c, Did("pr", o, c)' \/ Did("prepare", o, c)' PROVE Approvable(c)'
  <2>1. Approvable(c)
    <3>1. CASE Did("pr", o, c) \/ Did("prepare", o, c)
      BY <3>1 DEF Established
    <3>2. CASE stage \in {"pr", "prepare"} /\ c = cand
      BY <3>2 DEF Established
    <3> QED BY <1>4, <3>1, <3>2, DidNext
  <2> QED BY <2>1, ApprovableKept
<1> HIDE DEF Now
<1>5. stage' \in {"implement", "push", "verify"} => checks' = Unchecked
  BY <1>1 DEF Now
<1>6. /\ stage' \in {"verify", "external", "review", "pr", "prepare", "merge"} => Pushed(cand)'
      /\ checks'.verify = "success" => Seen("verify", cand, "success")'
      /\ stage' = "review" /\ args.external => Seen("external", cand, "success")'
      /\ stage' \in {"pr", "prepare", "merge"} => Approvable(cand)'
      /\ stage' \in {"prepare", "merge"} => \E k \in EffectsOf("pr")' : fx'[k].of = cand'
  BY <1>3 DEF Approvable, Pushed, Seen, EffectsOf, Taken
<1> QED BY <1>2, <1>4, <1>5, <1>6 DEF Established, EffectsOf, Taken

-----------------------------------------------------------------------------
(* What has been done when the run goes on, and when it reports. *)

LEMMA EffectsKept ==
  ASSUME Types, Prepared, [Next]_vars, NEW kind, NEW k \in EffectsOf(kind)
  PROVE  k \in DOMAIN fx' /\ fx'[k].kind = kind /\ fx'[k].times > 0 /\ fx'[k].of = fx[k].of
BY Kept DEF EffectsOf, Taken

(* The records below the ordinal, and its own once it is COMMITTED. *)
LEMMA RecordsDone ==
  ASSUME Types, OneThing, Told, Recorded, NEW a \in attempts, Complete(a), a.kind = "record",
         a.val = "COMMITTED"
  PROVE  /\ ord \in Nat /\ ord <= Records
         /\ \A i \in 1 .. ord : <<i, 0>> \in EffectsOf("record")
<1>1. /\ report = Running /\ stage = "record" /\ busy # 0 /\ a.ord = ord /\ ord \in 1 .. MaxSteps
  BY CompleteFlow
<1>2. <<ord, 0>> \in EffectsOf("record")
  BY <1>1, CommittedEffect DEF Line, Key
<1>3. \A i \in 1 .. (ord - 1) : <<i, 0>> \in EffectsOf("record")
  BY <1>1 DEF Recorded
<1>4. ord <= Records
  <2>1. Did("record", ord, a.cand)
    BY <1>1 DEF Did, Line
  <2> QED BY <2>1 DEF Recorded
<1>5. MaxSteps \in Nat
  BY BoundsOk
<1> QED BY <1>1, <1>2, <1>3, <1>4, <1>5

LEMMA RecordedNext ==
  ASSUME Types, OneThing, Prepared, Told, Recorded, [Next]_vars
  PROVE  Recorded'
<1>1. args' = args /\ ord \in Nat /\ Records \in Nat
  BY Kept, BoundsOk DEF Types, TypeOK
<1>2. IF args.vertical = "record" THEN stage' \in {"record", "stop"} ELSE stage' # "record"
  BY StagesNext DEF Recorded
<1>3. ASSUME NEW o, NEW c, Did("record", o, c)' PROVE o <= Records
  <2>1. CASE Did("record", o, c)
    BY <2>1 DEF Recorded
  <2>2. CASE Schedule /\ "record" = stage /\ o = ord + 1
    BY <1>1, <2>2 DEF Recorded, Schedule
  <2> QED BY <1>3, <2>1, <2>2, DidNext
<1>4. ASSUME stage' = "record", report' = Running
      PROVE  /\ busy' = 0 => ord' < Records
             /\ \A i \in 1 .. (IF busy' = 0 THEN ord' ELSE ord' - 1) : <<i, 0>> \in EffectsOf("record")
  <2>1. CASE Schedule
    <3>1. busy = 0 /\ busy' = 1 /\ ord' = ord + 1 /\ stage = "record" /\ report = Running
      BY <1>4, <2>1 DEF Schedule
    <3> QED BY <1>1, <3>1 DEF Recorded
  <2>2. CASE ScheduleMerge
    BY <1>4, <2>2 DEF ScheduleMerge
  <2>3. ASSUME NEW a \in attempts, Complete(a)
        PROVE  /\ busy' = 0 => ord' < Records
               /\ \A i \in 1 .. (IF busy' = 0 THEN ord' ELSE ord' - 1) :
                    <<i, 0>> \in EffectsOf("record")
    <3>1. a.kind = "record" /\ a.val = "COMMITTED" /\ ord # Records
      BY <1>4, <2>3, Continues, FinishEnds DEF GoOn
    <3>2. ord' = ord /\ busy' = 0
      BY <2>3, CompleteFlow
    <3> QED BY <1>1, <2>3, <3>1, <3>2, RecordsDone
  <2>4. ASSUME NEW a \in attempts, NEW still \in {{}, {a}}, Retry(a, still)
        PROVE  /\ busy' = 0 => ord' < Records
               /\ \A i \in 1 .. (IF busy' = 0 THEN ord' ELSE ord' - 1) :
                    <<i, 0>> \in EffectsOf("record")
    BY <1>4, <2>4, RetryFlow DEF Recorded, Running
  <2>5. CASE UNCHANGED <<args, stage, busy, round, ord, prior, cand, checks, report>>
    BY <1>4, <2>5 DEF Recorded
  <2> QED BY <2>1, <2>2, <2>3, <2>4, <2>5, FlowSteps
<1>5. \A k \in EffectsOf("record") : k \in EffectsOf("record")'
  BY EffectsKept DEF EffectsOf, Taken
<1> QED BY <1>1, <1>2, <1>3, <1>4, <1>5 DEF Recorded

LEMMA ReportedComplete ==
  ASSUME Types, OneThing, Told, Established, Recorded, NEW a \in attempts, Complete(a),
         report'.end = "completed"
  PROVE  IF args.vertical = "record"
         THEN \A i \in 1 .. Records : <<i, 0>> \in EffectsOf("record")
         ELSE /\ \E k \in EffectsOf("pr") : fx[k].of = cand'
              /\ report'.stage = "merge" => \E k \in EffectsOf("prepare") : fx[k].of = cand'
<1>1. a.kind = stage /\ report = Running /\ (a.kind # "stop" => a.cand = cand)
  BY CompleteFlow
<1>2. /\ Finish("completed")
      /\ \/ stage = "record" /\ a.val = "COMMITTED" /\ ord = Records
         \/ stage = "pr" /\ a.val = "COMMITTED"
         \/ stage = "prepare"
         \/ stage = "merge" /\ a.val = "COMMITTED"
  BY <1>1, Continues, FinishEnds DEF GoOn, Running
<1>3. report'.stage = stage
  BY <1>2, FinishEnds
<1>4. CASE stage = "record"
  BY <1>1, <1>2, <1>4, RecordsDone DEF Recorded
<1>5. CASE stage \in {"pr", "prepare", "merge"}
  <2>1. cand' = cand /\ args.vertical # "record"
    BY <1>1, <1>5, CompleteFlow DEF Recorded
  <2>2. \E k \in EffectsOf("pr") : fx[k].of = cand
    <3>1. CASE stage = "pr"
      BY <1>1, <1>2, <3>1, CommittedEffect DEF Line
    <3> QED BY <1>5, <3>1 DEF Established
  <2>3. stage = "merge" => \E k \in EffectsOf("prepare") : fx[k].of = cand
    BY <1>1, <1>2, CommittedEffect DEF Line
  <2> QED BY <1>3, <2>1, <2>2, <2>3
<1> QED BY <1>2, <1>4, <1>5

LEMMA ReportedNext ==
  ASSUME Types, OneThing, Prepared, Told, Established, Recorded, Reported, [Next]_vars
  PROVE  Reported'
<1> SUFFICES ASSUME report'.end = "completed"
             PROVE  IF args'.vertical = "record"
                    THEN \A i \in 1 .. Records : <<i, 0>> \in EffectsOf("record")'
                    ELSE /\ \E k \in EffectsOf("pr")' : fx'[k].of = cand'
                         /\ report'.stage = "merge" => \E k \in EffectsOf("prepare")' : fx'[k].of = cand'
  BY DEF Reported, EffectsOf, Taken
<1>1. IF args.vertical = "record"
      THEN \A i \in 1 .. Records : <<i, 0>> \in EffectsOf("record")
      ELSE /\ \E k \in EffectsOf("pr") : fx[k].of = cand'
           /\ report'.stage = "merge" => \E k \in EffectsOf("prepare") : fx[k].of = cand'
  <2>1. CASE Schedule \/ ScheduleMerge
    BY <2>1 DEF Schedule, ScheduleMerge, Running
  <2>2. ASSUME NEW a \in attempts, NEW still \in {{}, {a}}, Retry(a, still) PROVE FALSE
    <3>1. report = Running /\ (report' = report \/ report' = [end |-> "failed", stage |-> stage])
      BY <2>2, RetryFlow
    <3> QED BY <3>1 DEF Running
  <2>3. ASSUME UNCHANGED <<args, stage, busy, round, ord, prior, cand, checks, report>>
        PROVE  /\ report.end = "completed" /\ cand' = cand /\ report' = report
    BY <2>3
  <2>4. CASE \E a \in attempts : Complete(a)
    BY <2>4, ReportedComplete
  <2> QED BY <2>1, <2>2, <2>3, <2>4, FlowSteps DEF Reported
<1>2. args' = args
  BY Kept
<1>3. \A kind : \A k \in EffectsOf(kind) : k \in EffectsOf(kind)' /\ fx'[k].of = fx[k].of
  BY EffectsKept DEF EffectsOf, Taken
<1> HIDE DEF EffectsOf
<1> QED BY <1>1, <1>2, <1>3

-----------------------------------------------------------------------------
(* The chain of the WORK_STEPs. *)

LEMMA FollowsKept ==
  ASSUME Types, Prepared, [Next]_vars, NEW o, NEW d, Follows(o, d)
  PROVE  Follows(o, d)'
<1>1. \A k \in DOMAIN steps : k \in DOMAIN steps' /\ steps'[k] = steps[k]
  BY Kept
<1> QED BY <1>1 DEF Follows

LEMMA SameStep ==
  ASSUME NEW a, NEW x, x.kind = a.kind, x.ord = a.ord, x.n = a.n, x.cand = a.cand, x.val = a.val
  PROVE  StepOf(x).digest = StepOf(a).digest
BY DEF StepOf, Output, Summary, Made

(* A WORK_STEP is written by the submission of an attempt. *)
LEMMA StepsWritten ==
  ASSUME Types, [Next]_vars
  PROVE  \/ UNCHANGED steps
         \/ \E a \in attempts : SubmitStep(a)
<1>1. ASSUME NEW a \in attempts, Works(a) PROVE UNCHANGED steps \/ SubmitStep(a)
  BY <1>1, WorksWrites
<1>2. ASSUME NEW a \in attempts, Complete(a) \/ Vanish(a) \/ \E still \in {{}, {a}} : Retry(a, still)
      PROVE  UNCHANGED steps
  BY <1>2 DEF Complete, Vanish, Retry, kernelVars
<1>3. ASSUME NEW k \in DOMAIN fx,
             Land(k) \/ \E r \in {"UNKNOWN"} \union Conclusive : Observe(k, r)
      PROVE  UNCHANGED steps
  BY <1>3, KernelKept
<1>4. Schedule \/ ScheduleMerge \/ Signal \/ UNCHANGED vars => UNCHANGED steps
  BY DEF Schedule, ScheduleMerge, Signal, vars, kernelVars
<1> QED BY <1>1, <1>2, <1>3, <1>4 DEF Next

LEMMA LinkedSteps ==
  ASSUME Types, Prepared, Linked, [Next]_vars, NEW k \in DOMAIN steps', NEW d, d = steps'[k].prior
  PROVE  Follows(k, d)'
<1>1. \A l \in DOMAIN steps : l \in DOMAIN steps' /\ steps'[l] = steps[l]
  BY Kept
<1>2. CASE k \in DOMAIN steps
  <2>1. Follows(k, d)
    BY <1>1, <1>2 DEF Linked
  <2> QED BY <2>1, FollowsKept
<1>3. CASE k \notin DOMAIN steps
  <2>1. PICK a \in attempts : SubmitStep(a)
    BY <1>3, StepsWritten
  <2>2. a.kind \notin {"stop", "merge"} /\ k = a.ord /\ steps'[k] = StepOf(a)
    BY <1>3, <2>1, SubmitWrites
  <2>3. Follows(k, d)
    BY <2>2, StepTyped DEF Linked
  <2> QED BY <2>3, FollowsKept
<1> QED BY <1>2, <1>3

LEMMA LinkedAttempts ==
  ASSUME Types, OneThing, Prepared, Linked, [Next]_vars,
         NEW x \in attempts', x.kind \notin {"merge", "stop"}
  PROVE  /\ Follows(x.ord, x.prior)'
         /\ x.at = "done" => x.ord \in DOMAIN steps' /\ steps'[x.ord].digest = StepOf(x).digest
<1>1. \A l \in DOMAIN steps : l \in DOMAIN steps' /\ steps'[l] = steps[l]
  BY Kept
<1>2. \A o, d : Follows(o, d) => Follows(o, d)'
  BY FollowsKept
<1>3. CASE x \in attempts
  BY <1>1, <1>2, <1>3 DEF Linked
<1>4. ASSUME NEW a \in attempts, Works(a), x \notin attempts
      PROVE  /\ Follows(x.ord, x.prior)'
             /\ x.at = "done" => x.ord \in DOMAIN steps' /\ steps'[x.ord].digest = StepOf(x).digest
  <2>1. x.kind = a.kind /\ x.ord = a.ord /\ x.n = a.n /\ x.cand = a.cand /\ x.prior = a.prior
    BY <1>4, WorksTo
  <2>2. Follows(x.ord, x.prior)'
    BY <1>2, <2>1 DEF Linked
  <2>3. ASSUME x.at = "done"
        PROVE  x.ord \in DOMAIN steps' /\ steps'[x.ord].digest = StepOf(x).digest
    <3>1. x.val = a.val /\ a.ord \in DOMAIN steps' /\ steps'[a.ord] = StepOf(a)
      BY <1>4, <2>1, <2>3, WorksTo
    <3> QED BY <2>1, <3>1, SameStep
  <2> QED BY <2>2, <2>3
<1>5. CASE /\ x.at = FirstPosition(x.kind) /\ x.prior = prior
           /\ \/ Schedule /\ x.kind = stage /\ stage # "merge" /\ busy = 0 /\ x.ord = ord + 1
              \/ \E a \in attempts : Current(a) /\ x.kind = a.kind /\ x.ord = a.ord
  <2>1. x.at # "done"
    BY <1>5 DEF FirstPosition, SurfaceKinds, GovernedKinds
  <2>2. Follows(x.ord, x.prior)
    <3>1. CASE Schedule /\ x.kind = stage /\ busy = 0 /\ x.ord = ord + 1
      BY <1>5, <3>1 DEF Linked, Schedule
    <3>2. ASSUME NEW a \in attempts, Current(a), x.kind = a.kind, x.ord = a.ord
          PROVE  Follows(x.ord, x.prior)
      <4>1. report = Running /\ a.kind = stage /\ busy # 0 /\ a.ord = ord
        BY <3>2, CurrentOne
      <4> QED BY <1>5, <3>2, <4>1 DEF Linked
    <3> QED BY <1>5, <3>1, <3>2
  <2> QED BY <1>2, <2>1, <2>2
<1> QED BY <1>3, <1>4, <1>5, AttemptsNext

LEMMA LinkedFlow ==
  ASSUME Types, OneThing, Prepared, Linked, [Next]_vars,
         report' = Running, stage' \notin {"merge", "stop"}
  PROVE  Follows(IF busy' = 0 THEN ord' + 1 ELSE ord', prior')
<1>1. ord \in Nat
  BY BoundsOk DEF Types, TypeOK
<1>2. CASE Schedule
  <2>1. busy = 0 /\ busy' = 1 /\ ord' = ord + 1 /\ prior' = prior /\ stage' = stage /\ report = Running
    BY <1>2 DEF Schedule
  <2> QED BY <2>1 DEF Linked
<1>3. CASE ScheduleMerge
  BY <1>3 DEF ScheduleMerge
<1>4. ASSUME NEW a \in attempts, Complete(a)
      PROVE  Follows(IF busy' = 0 THEN ord' + 1 ELSE ord', prior')
  <2>1. a.kind \notin {"merge", "stop"}
    BY <1>4, Continues, FinishEnds DEF GoOn
  <2>2. a.ord = ord /\ ord' = ord /\ busy' = 0 /\ a.at = "done"
    BY <1>4, <2>1, CompleteFlow
  <2>3. prior' = StepOf(a).digest
    BY <1>4, <2>1 DEF Complete
  <2>4. a.ord \in DOMAIN steps /\ steps[a.ord].digest = StepOf(a).digest
    BY <2>1, <2>2 DEF Linked
  <2>5. Follows(ord + 1, prior')
    <3>1. ord \in DOMAIN steps /\ prior' = steps[ord].digest
      BY <2>2, <2>3, <2>4
    <3>2. ASSUME NEW o, o = ord + 1 PROVE Follows(o, prior')
      <4>1. o - 1 = ord
        BY <1>1, <3>2
      <4> QED BY <3>1, <4>1 DEF Follows
    <3> QED BY <3>2
  <2>6. (IF busy' = 0 THEN ord' + 1 ELSE ord') = ord + 1
    BY <2>2
  <2> QED BY <2>5, <2>6
<1>5. ASSUME NEW a \in attempts, NEW still \in {{}, {a}}, Retry(a, still)
      PROVE  Follows(IF busy' = 0 THEN ord' + 1 ELSE ord', prior')
  <2>1. report = Running /\ a.kind = stage /\ busy # 0 /\ busy' # 0
    BY <1>5, RetryFlow
  <2>2. stage' = stage /\ ord' = ord /\ prior' = prior
    BY <1>5 DEF Retry
  <2>3. Follows(IF busy = 0 THEN ord + 1 ELSE ord, prior)
    BY <2>1, <2>2 DEF Linked
  <2>4. (IF busy' = 0 THEN ord' + 1 ELSE ord') = (IF busy = 0 THEN ord + 1 ELSE ord)
    BY <2>1, <2>2
  <2> QED BY <2>2, <2>3, <2>4
<1>6. CASE UNCHANGED <<args, stage, busy, round, ord, prior, cand, checks, report>>
  BY <1>6 DEF Linked
<1> QED BY <1>2, <1>3, <1>4, <1>5, <1>6, FlowSteps

LEMMA LinkedNext ==
  ASSUME Types, OneThing, Prepared, Linked, [Next]_vars
  PROVE  Linked'
<1>1. ASSUME report' = Running, stage' \notin {"merge", "stop"}
      PROVE  Follows(IF busy = 0 THEN ord + 1 ELSE ord, prior)'
  <2>1. ASSUME NEW o, NEW d, o = (IF busy' = 0 THEN ord' + 1 ELSE ord'), d = prior'
        PROVE  Follows(o, d)'
    BY <1>1, <2>1, LinkedFlow, FollowsKept
  <2> QED BY <2>1 DEF Follows
<1>2. \A k \in DOMAIN steps' : Follows(k, steps[k].prior)'
  <2>1. \A k \in DOMAIN steps' : \A d : d = steps'[k].prior => Follows(k, d)'
    BY LinkedSteps
  <2> QED BY <2>1 DEF Follows
<1>3. \A x \in attempts' : x.kind \notin {"merge", "stop"} =>
        /\ Follows(x.ord, x.prior)'
        /\ x.at = "done" => x.ord \in DOMAIN steps' /\ steps'[x.ord].digest = StepOf(x).digest
  BY LinkedAttempts
<1> QED BY <1>1, <1>2, <1>3 DEF Linked, Follows

-----------------------------------------------------------------------------
(* The invariant, and what follows from it. *)

LEMMA InvInit == Init => IInv
<1> SUFFICES ASSUME Init PROVE IInv
  OBVIOUS
<1>1. /\ attempts = {} /\ fx = <<>> /\ steps = <<>> /\ evidence = {} /\ busy = 0 /\ ord = 0
      /\ round = 1 /\ prior = NoDigest /\ cand = Nothing /\ checks = Unchecked
      /\ report = Running /\ human = FALSE /\ faults = 0 /\ held = FALSE /\ args \in Args
      /\ stage = IF args.vertical = "record" THEN "record" ELSE "implement"
  BY DEF Init
<1>2. DOMAIN fx = {} /\ DOMAIN steps = {}
  BY <1>1
<1>3. \A kind, o, c : ~Did(kind, o, c)
  BY <1>1, <1>2 DEF Did
<1>4. report.end # "completed"
  BY <1>1 DEF Running
<1>5. Types
  <2>1. /\ 0 \in 0 .. MaxSteps /\ 0 \in 0 .. MaxAttempts /\ 1 \in 1 .. Rounds
        /\ 0 \in 0 .. MaxFaults
    BY BoundsOk
  <2>2. Nothing \in Ids
    BY <2>1 DEF Nothing, Ids
  <2>3. NoDigest \in Digests
    <3>1. "none" \in Values /\ Nothing \in Ids
      BY <2>2 DEF Values
    <3> QED BY <2>1, <3>1 DEF NoDigest, Digests
  <2>4. checks \in [verify : Values, external : Values, review : Values]
    BY <1>1 DEF Unchecked, Values
  <2>5. stage \in Kinds
    BY <1>1 DEF Kinds, GovernedKinds
  <2>6. report \in [end : {"running", "completed", "stopped", "failed"}, stage : Kinds \union {"none"}]
    BY <1>1 DEF Running
  <2>7. Tables /\ InPlace
    BY <1>1, <1>2 DEF Tables, InPlace
  <2>8. Range(steps) = {} /\ Range(fx) = {}
    BY <1>2 DEF Range
  <2>9. TypeOK
    BY <1>1, <1>2, <2>1, <2>2, <2>3, <2>4, <2>5, <2>6, <2>8 DEF TypeOK
  <2> QED BY <2>7, <2>9 DEF Types
<1>6. OneThing /\ Prepared /\ PushFollows /\ Once
  BY <1>1, <1>2, <1>3 DEF OneThing, Prepared, PushFollows, Once
<1>7. Told /\ Found
  BY <1>1, <1>2 DEF Told, Found
<1>8. Established
  BY <1>1, <1>3 DEF Established, Unchecked
<1>9. Recorded /\ Reported
  <2>1. Records \in Nat /\ 0 < Records /\ \A i \in 1 .. 0 : FALSE
    BY BoundsOk
  <2> QED BY <1>1, <1>3, <1>4, <2>1 DEF Recorded, Reported
<1>10. Linked
  BY <1>1, <1>2 DEF Linked, Follows
<1> QED BY <1>5, <1>6, <1>7, <1>8, <1>9, <1>10 DEF IInv

LEMMA InvNext == IInv /\ [Next]_vars => IInv'
<1> SUFFICES ASSUME IInv, [Next]_vars PROVE IInv'
  OBVIOUS
<1>1. /\ Types /\ OneThing /\ Prepared /\ PushFollows /\ Once
      /\ Told /\ Found /\ Established /\ Recorded /\ Reported /\ Linked
  BY DEF IInv
<1>2. Types' /\ OneThing' /\ Prepared'
  BY <1>1, TypesNext, OneThingNext, PreparedNext
<1>3. PushFollows' /\ Once'
  BY <1>1, PushFollowsNext, OnceNext
<1>4. Told' /\ Found' /\ Established'
  BY <1>1, ToldNext, FoundNext, EstablishedNext
<1>5. Recorded' /\ Reported'
  BY <1>1, RecordedNext, ReportedNext
<1>6. Linked'
  BY <1>1, LinkedNext
<1> QED BY <1>2, <1>3, <1>4, <1>5, <1>6 DEF IInv

(* Whatever the attempts of the activities do, in time or long after they   *)
(* were given up, what is done under an ordinal is what the workflow        *)
(* scheduled there: the invariant on which the others rest.                 *)
THEOREM Invariance == Spec => []IInv
BY InvInit, InvNext, PTL DEF Spec

(* The variables have their types in every reachable state. *)
THEOREM TypeCorrect == Spec => []TypeOK
<1>1. IInv => TypeOK
  BY DEF IInv, Types
<1> QED BY <1>1, Invariance, PTL

(* The WORK_STEPs of a run are a chain without a gap, whichever attempts    *)
(* wrote them (submitWorkStep, insertWorkStep).                             *)
THEOREM ChainsAreWhole == Spec => []ChainIsWhole
<1>1. IInv => ChainIsWhole
  BY DEF IInv, Linked, Follows, ChainIsWhole
<1> QED BY <1>1, Invariance, PTL

(* What becomes a pull request, or is merged, was pushed, verified and      *)
(* approved as this very candidate, also when the attempt that asks for it  *)
(* was given up long ago (cadpWork).                                        *)
THEOREM ShipmentsAreApproved == Spec => []ShippedIsApproved
<1>1. IInv => ShippedIsApproved
  <2> SUFFICES ASSUME IInv, NEW k \in EffectsOf("pr") \union EffectsOf("prepare")
               PROVE  Approvable(fx[k].of)
    BY DEF ShippedIsApproved, Approvable, Pushed
  <2>1. k \in DOMAIN fx /\ fx[k].kind \in {"pr", "prepare"} /\ k = <<k[1], 0>>
    BY DEF EffectsOf, IInv, OneThing
  <2>2. Did(fx[k].kind, k[1], fx[k].of)
    BY <2>1 DEF Did
  <2> QED BY <2>1, <2>2 DEF IInv, Established
<1> QED BY <1>1, Invariance, PTL

RecordKeys == {<<i, 0>> : i \in 1 .. Records}

LEMMA RecordKeysCounted == IsFiniteSet(RecordKeys) /\ Cardinality(RecordKeys) = Records
<1>1. Records \in Nat
  BY BoundsOk
<1>2. IsFiniteSet(1 .. Records) /\ Cardinality(1 .. Records) = Records
  BY <1>1, FS_Interval
<1> DEFINE f == [i \in 1 .. Records |-> <<i, 0>>]
<1>3. f \in Bijection(1 .. Records, RecordKeys)
  BY DEF RecordKeys, Bijection, Injection, Surjection, IsInjective
<1>4. ExistsBijection(1 .. Records, RecordKeys)
  BY <1>3 DEF ExistsBijection
<1> QED BY <1>2, <1>4, FS_Bijection

(* An effect was begun under its ordinal. *)
LEMMA EffectDid ==
  ASSUME IInv, NEW k \in DOMAIN fx
  PROVE  k = <<k[1], 0>> /\ Did(fx[k].kind, k[1], fx[k].of) /\ k[1] \in 1 .. ord /\ ord \in Nat
<1>1. k = <<k[1], 0>>
  BY DEF IInv, OneThing
<1>2. Did(fx[k].kind, k[1], fx[k].of)
  BY <1>1 DEF Did
<1>3. k[1] \in 1 .. ord
  BY <1>2 DEF IInv, OneThing
<1> QED BY <1>1, <1>2, <1>3, BoundsOk DEF IInv, Types, TypeOK

LEMMA RecordsCounted ==
  ASSUME IInv
  PROVE  EffectsOf("record") \subseteq RecordKeys
<1> SUFFICES ASSUME NEW k \in EffectsOf("record") PROVE k \in RecordKeys
  OBVIOUS
<1>1. k \in DOMAIN fx /\ fx[k].kind = "record"
  BY DEF EffectsOf
<1>2. k = <<k[1], 0>> /\ k[1] \in 1 .. ord /\ k[1] <= Records /\ ord \in Nat
  BY <1>1, EffectDid DEF IInv, Recorded
<1>3. k[1] \in 1 .. Records
  BY <1>2, BoundsOk
<1> QED BY <1>2, <1>3 DEF RecordKeys

(* However often attempts are repeated, one pull request is opened, one     *)
(* merge is made, a candidate is pushed once and there are no more records  *)
(* than payloads (allocateEffectId, governedEffect).                        *)
THEOREM ShipmentsAreSingle == Spec => []OneShipment
<1>1. IInv => OneShipment
  <2> SUFFICES ASSUME IInv PROVE OneShipment
    OBVIOUS
  <2>1. ASSUME NEW k \in EffectsOf("pr") PROVE fx[k].times = 1
    <3>1. k \in DOMAIN fx /\ fx[k].kind = "pr" /\ fx[k].times > 0
      BY DEF EffectsOf, Taken
    <3>2. fx[k].times \in Nat
      BY <3>1, EffectFields DEF IInv
    <3>3. fx[k].times <= 1
      BY <3>1 DEF IInv, Told
    <3> QED BY <3>1, <3>2, <3>3
  <2>2. ASSUME NEW kind \in {"pr", "prepare"} PROVE Cardinality(EffectsOf(kind)) <= 1
    <3>1. ASSUME NEW k \in EffectsOf(kind), NEW l \in EffectsOf(kind) PROVE k = l
      <4>1. /\ k \in DOMAIN fx /\ fx[k].kind = kind
            /\ l \in DOMAIN fx /\ fx[l].kind = kind
        BY DEF EffectsOf
      <4>2. Did(kind, k[1], fx[k].of) /\ Did(kind, l[1], fx[l].of) /\ k = <<k[1], 0>> /\ l = <<l[1], 0>>
        BY <4>1, EffectDid
      <4>3. k[1] = l[1]
        BY <4>2 DEF IInv, Once
      <4> QED BY <4>2, <4>3
    <3>2. CASE EffectsOf(kind) = {}
      BY <3>2, FS_EmptySet
    <3>3. CASE EffectsOf(kind) # {}
      <4>1. PICK k : k \in EffectsOf(kind)
        BY <3>3
      <4>2. EffectsOf(kind) = {k}
        BY <3>1, <4>1
      <4>3. Cardinality({k}) = 1
        BY FS_Singleton
      <4>4. Cardinality(EffectsOf(kind)) = 1
        BY <4>2, <4>3
      <4> QED BY <4>4
    <3> QED BY <3>2, <3>3
  <2>3. ASSUME NEW k \in EffectsOf("push"), NEW l \in EffectsOf("push"), fx[k].of = fx[l].of
        PROVE  k = l
    <3>1. /\ k \in DOMAIN fx /\ fx[k].kind = "push"
          /\ l \in DOMAIN fx /\ fx[l].kind = "push"
      BY DEF EffectsOf
    <3>2. /\ Did("push", k[1], fx[k].of) /\ Did("push", l[1], fx[l].of)
          /\ k = <<k[1], 0>> /\ l = <<l[1], 0>> /\ k[1] \in 1 .. ord /\ l[1] \in 1 .. ord
          /\ ord \in Nat
      BY <3>1, EffectDid
    <3>3. fx[k].of[1] = k[1] - 1 /\ fx[l].of[1] = l[1] - 1
      BY <3>2 DEF IInv, PushFollows
    <3>4. k[1] = l[1]
      BY <2>3, <3>2, <3>3
    <3> QED BY <3>2, <3>4
  <2>4. Cardinality(EffectsOf("record")) <= Records
    <3>1. EffectsOf("record") \in SUBSET RecordKeys
      BY RecordsCounted
    <3> HIDE DEF EffectsOf
    <3> QED BY <3>1, RecordKeysCounted, FS_Subset
  <2> QED BY <2>1, <2>2, <2>3, <2>4 DEF OneShipment
<1> QED BY <1>1, Invariance, PTL

(* A run that reports completed has written every record, or opened the     *)
(* pull request of its last candidate, and merged it if that was its last   *)
(* stage (cadpWork).                                                        *)
THEOREM CompletionsAreDone == Spec => []CompletedIsDone
<1>1. IInv => CompletedIsDone
  <2> SUFFICES ASSUME IInv, report.end = "completed", args.vertical = "record"
               PROVE  Cardinality(EffectsOf("record")) = Records
    BY DEF IInv, Reported, CompletedIsDone
  <2>1. \A i \in 1 .. Records : <<i, 0>> \in EffectsOf("record")
    BY DEF IInv, Reported
  <2>2. EffectsOf("record") = RecordKeys
    BY <2>1, RecordsCounted DEF RecordKeys
  <2> QED BY <2>2, RecordKeysCounted
<1> QED BY <1>1, Invariance, PTL

-----------------------------------------------------------------------------
(* The kernel this module shows to an activity keeps the promise which      *)
(* EffectKernel proves of the kernel.                                       *)

Promise == INSTANCE OneEffect WITH
  Effects <- Ids,
  Anonymous <- {},
  met <- {},
  asked <- {k \in DOMAIN fx : fx[k].rows # <<>>},
  taken <- [k \in Ids |-> IF k \in DOMAIN fx THEN fx[k].times ELSE 0],
  told  <- {k \in DOMAIN fx : "COMMITTED" \in Range(fx[k].rows)}

(* No effect takes place twice, and none before it was admitted. *)
CountedOf(f) == f.times <= 1 /\ (f.flight => f.rows # <<>>)
Counted == \A k \in DOMAIN fx : CountedOf(fx[k])

(* The steps that write the table of effects. *)
LEMMA EffectsWritten ==
  ASSUME [Next]_vars
  PROVE  \/ fx' = fx
         \/ \E a \in attempts : SealAndEvaluate(a) \/ Admit(a)
         \/ \E k \in DOMAIN fx : Land(k) \/ \E r \in {"UNKNOWN"} \union Conclusive : Observe(k, r)
<1>1. ASSUME NEW a \in attempts, Works(a) PROVE fx' = fx \/ SealAndEvaluate(a) \/ Admit(a)
  BY <1>1, WorksWrites
<1>2. ASSUME NEW a \in attempts, Complete(a) \/ Vanish(a) \/ \E still \in {{}, {a}} : Retry(a, still)
      PROVE  fx' = fx
  BY <1>2 DEF Complete, Vanish, Retry, kernelVars
<1>3. Schedule \/ ScheduleMerge \/ Signal \/ UNCHANGED vars => fx' = fx
  BY DEF Schedule, ScheduleMerge, Signal, vars, kernelVars
<1> QED BY <1>1, <1>2, <1>3 DEF Next

LEMMA CountedNext == IInv /\ Counted /\ [Next]_vars => Counted'
<1> SUFFICES ASSUME IInv, Counted, [Next]_vars PROVE Counted'
  OBVIOUS
<1> USE DEF Counted
<1>1. Types /\ Prepared /\ Told
  BY DEF IInv
<1>2. CASE fx' = fx
  BY <1>2
<1>3. ASSUME NEW a \in attempts, SealAndEvaluate(a) PROVE Counted'
  <2>1. CountedOf(Sealed(a.kind, a.cand))
    BY DEF CountedOf, Sealed
  <2> QED BY <1>1, <1>3, <2>1, SealWrites
<1>4. ASSUME NEW a \in attempts, Admit(a), fx' # fx PROVE Counted'
  <2> DEFINE K == Key(a)
  <2>1. /\ DOMAIN fx' = DOMAIN fx /\ K \in DOMAIN fx /\ \A k \in DOMAIN fx : k # K => fx'[k] = fx[k]
        /\ fx'[K].rows = Append(fx[K].rows, "PENDING") /\ fx'[K].times = fx[K].times
    BY <1>1, <1>4, AdmitWrites
  <2> HIDE DEF K
  <2>2. fx[K].rows \in Seq(Row) /\ CountedOf(fx[K])
    BY <1>1, <2>1, EffectFields
  <2>3. fx'[K].rows # <<>>
    BY <2>1, <2>2
  <2>4. CountedOf(fx'[K])
    BY <2>1, <2>2, <2>3 DEF CountedOf
  <2> QED BY <2>1, <2>4
<1>5. ASSUME NEW k \in DOMAIN fx, Land(k) PROVE Counted'
  <2>1. /\ DOMAIN fx' = DOMAIN fx /\ \A l \in DOMAIN fx : l # k => fx'[l] = fx[l]
        /\ fx[k].flight = TRUE /\ fx'[k].flight = FALSE
        /\ \/ fx'[k].times = fx[k].times
           \/ fx'[k].times = IF fx[k].kind = "pr" THEN fx[k].times + 1 ELSE 1
    BY <1>1, <1>5, LandWrites
  <2>2. CountedOf(fx[k]) /\ (fx[k].kind = "pr" => fx[k].times = 0)
    BY <1>1, <2>1 DEF Told
  <2>3. CountedOf(fx'[k])
    BY <2>1, <2>2 DEF CountedOf
  <2> QED BY <2>1, <2>3
<1>6. ASSUME NEW k \in DOMAIN fx, NEW r \in {"UNKNOWN"} \union Conclusive, Observe(k, r)
      PROVE  Counted'
  <2>1. /\ DOMAIN fx' = DOMAIN fx /\ \A l \in DOMAIN fx : l # k => fx'[l] = fx[l]
        /\ fx[k].rows \in Seq(Row) /\ Len(fx[k].rows) \in Nat \ {0}
        /\ fx'[k].rows = [fx[k].rows EXCEPT ![Len(fx[k].rows)] = r]
        /\ fx'[k].times = fx[k].times
    BY <1>1, <1>6, ObserveWrites DEF Row
  <2>2. Len(fx'[k].rows) = Len(fx[k].rows)
    BY <2>1
  <2>3. fx'[k].rows # <<>>
    BY <2>1, <2>2
  <2>4. CountedOf(fx'[k])
    BY <2>1, <2>3 DEF CountedOf
  <2> QED BY <2>1, <2>4
<1> QED BY <1>2, <1>3, <1>4, <1>5, <1>6, EffectsWritten

LEMMA PromiseInit == Init => Promise!Init /\ Counted
<1> SUFFICES ASSUME Init PROVE Promise!Init /\ Counted
  OBVIOUS
<1>1. DOMAIN fx = {}
  BY DEF Init
<1> QED BY <1>1 DEF Promise!Init, Counted

(* What happens to one effect, while the others stay. *)
LEMMA PromiseOne ==
  ASSUME IInv, NEW k \in DOMAIN fx, DOMAIN fx' = DOMAIN fx,
         \A l \in DOMAIN fx : l # k => fx'[l] = fx[l],
         \/ /\ fx[k].rows # <<>> <=> fx'[k].rows # <<>>
            /\ "COMMITTED" \in Range(fx[k].rows) <=> "COMMITTED" \in Range(fx'[k].rows)
            /\ fx'[k].times = fx[k].times
         \/ /\ fx'[k].rows # <<>>
            /\ "COMMITTED" \in Range(fx[k].rows) <=> "COMMITTED" \in Range(fx'[k].rows)
            /\ fx'[k].times = fx[k].times
         \/ /\ fx'[k].rows = fx[k].rows /\ fx[k].rows # <<>>
            /\ fx[k].times = 0 /\ fx'[k].times = 1
         \/ /\ fx[k].rows # <<>> <=> fx'[k].rows # <<>>
            /\ "COMMITTED" \in Range(fx'[k].rows)
            /\ fx[k].times = 1 /\ fx'[k].times = fx[k].times
  PROVE  [Promise!Next]_(Promise!vars)
<1> DEFINE asked == {l \in DOMAIN fx : fx[l].rows # <<>>}
           taken == [l \in Ids |-> IF l \in DOMAIN fx THEN fx[l].times ELSE 0]
           told == {l \in DOMAIN fx : "COMMITTED" \in Range(fx[l].rows)}
<1>1. k \in Ids
  BY EffectFields DEF IInv
<1>2. fx'[k].times = fx[k].times => taken' = taken
  OBVIOUS
<1>3. ("COMMITTED" \in Range(fx[k].rows) <=> "COMMITTED" \in Range(fx'[k].rows)) => told' = told
  OBVIOUS
<1>4. (fx[k].rows # <<>> <=> fx'[k].rows # <<>>) => asked' = asked
  OBVIOUS
<1>5. fx'[k].rows # <<>> => asked' = asked \union {k}
  OBVIOUS
<1>6. "COMMITTED" \in Range(fx'[k].rows) => told' = told \union {k}
  OBVIOUS
<1>7. fx'[k].times = 1 => taken' = [taken EXCEPT ![k] = 1]
  BY <1>1
<1>8. taken[k] = fx[k].times /\ (k \in asked <=> fx[k].rows # <<>>)
  BY <1>1
<1> HIDE DEF asked, taken, told
<1>9. \/ UNCHANGED <<asked, taken, told>>
      \/ asked' = asked \union {k} /\ UNCHANGED <<taken, told>>
      \/ k \in asked /\ taken[k] = 0 /\ taken' = [taken EXCEPT ![k] = 1] /\ UNCHANGED <<asked, told>>
      \/ taken[k] = 1 /\ told' = told \union {k} /\ UNCHANGED <<asked, taken>>
  BY <1>2, <1>3, <1>4, <1>5, <1>6, <1>7, <1>8
<1> QED BY <1>1, <1>9 DEF Promise!Next, Promise!Ask, Promise!Take, Promise!Tell, Promise!vars,
                          asked, taken, told

LEMMA PromiseNext == IInv /\ Counted /\ [Next]_vars => [Promise!Next]_(Promise!vars)
<1> SUFFICES ASSUME IInv, Counted, [Next]_vars PROVE [Promise!Next]_(Promise!vars)
  OBVIOUS
<1>1. Types /\ Prepared /\ Told
  BY DEF IInv
<1>2. CASE fx' = fx
  BY <1>2 DEF Promise!vars
<1>3. ASSUME NEW a \in attempts, SealAndEvaluate(a) PROVE [Promise!Next]_(Promise!vars)
  <2> DEFINE K == Key(a)
  <2>1. /\ DOMAIN fx' = DOMAIN fx \union {K} /\ \A k \in DOMAIN fx : fx'[k] = fx[k]
        /\ K \notin DOMAIN fx => fx'[K] = Sealed(a.kind, a.cand)
    BY <1>1, <1>3, SealWrites
  <2>2. /\ Sealed(a.kind, a.cand).rows = <<>> /\ Sealed(a.kind, a.cand).times = 0
        /\ "COMMITTED" \notin Range(<<>>)
    BY DEF Sealed, Range
  <2> HIDE DEF K
  <2> QED BY <2>1, <2>2 DEF Promise!vars
<1>4. ASSUME NEW a \in attempts, Admit(a), fx' # fx PROVE [Promise!Next]_(Promise!vars)
  <2> DEFINE K == Key(a)
  <2>1. /\ DOMAIN fx' = DOMAIN fx /\ K \in DOMAIN fx /\ \A k \in DOMAIN fx : k # K => fx'[k] = fx[k]
        /\ fx'[K].rows = Append(fx[K].rows, "PENDING") /\ fx'[K].times = fx[K].times
    BY <1>1, <1>4, AdmitWrites
  <2> HIDE DEF K
  <2>2. fx[K].rows \in Seq(Row)
    BY <1>1, <2>1, EffectFields
  <2>3. fx'[K].rows # <<>>
    BY <2>1, <2>2
  <2>4. "COMMITTED" \in Range(fx'[K].rows) <=> "COMMITTED" \in Range(fx[K].rows)
    <3>1. \A i \in 1 .. Len(fx[K].rows) : fx'[K].rows[i] = fx[K].rows[i]
      BY <2>1, <2>2
    <3>2. /\ Len(fx'[K].rows) = Len(fx[K].rows) + 1 /\ fx'[K].rows[Len(fx[K].rows) + 1] = "PENDING"
          /\ Len(fx[K].rows) \in Nat
      BY <2>1, <2>2
    <3>3. DOMAIN fx[K].rows = 1 .. Len(fx[K].rows) /\ DOMAIN fx'[K].rows = 1 .. Len(fx[K].rows) + 1
      BY <2>1, <2>2
    <3>4. "COMMITTED" \in Range(fx[K].rows)
            <=> \E i \in 1 .. Len(fx[K].rows) : fx[K].rows[i] = "COMMITTED"
      BY <3>3 DEF Range
    <3>5. "COMMITTED" \in Range(fx'[K].rows)
            <=> \E i \in 1 .. Len(fx[K].rows) + 1 : fx'[K].rows[i] = "COMMITTED"
      BY <3>3 DEF Range
    <3>6. ASSUME NEW i \in 1 .. Len(fx[K].rows), fx[K].rows[i] = "COMMITTED"
          PROVE  i \in 1 .. Len(fx[K].rows) + 1 /\ fx'[K].rows[i] = "COMMITTED"
      BY <3>1, <3>2, <3>6
    <3>7. ASSUME NEW i \in 1 .. Len(fx[K].rows) + 1, fx'[K].rows[i] = "COMMITTED"
          PROVE  i \in 1 .. Len(fx[K].rows) /\ fx[K].rows[i] = "COMMITTED"
      <4>1. i # Len(fx[K].rows) + 1
        BY <3>2, <3>7
      <4>2. i \in 1 .. Len(fx[K].rows)
        BY <3>2, <4>1
      <4> QED BY <3>1, <3>7, <4>2
    <3> QED BY <3>4, <3>5, <3>6, <3>7
  <2> QED BY <2>1, <2>3, <2>4, PromiseOne
<1>5. ASSUME NEW k \in DOMAIN fx, Land(k) PROVE [Promise!Next]_(Promise!vars)
  <2>1. /\ DOMAIN fx' = DOMAIN fx /\ \A l \in DOMAIN fx : l # k => fx'[l] = fx[l]
        /\ fx'[k].rows = fx[k].rows /\ fx[k].flight = TRUE
        /\ \/ fx'[k].times = fx[k].times
           \/ fx'[k].times = IF fx[k].kind = "pr" THEN fx[k].times + 1 ELSE 1
    BY <1>1, <1>5, LandWrites
  <2>2. /\ fx[k].times \in Nat /\ fx[k].times <= 1 /\ fx[k].rows # <<>>
        /\ fx[k].kind = "pr" => fx[k].times = 0
    BY <1>1, <2>1, EffectFields DEF Counted, CountedOf, Told
  <2>3. fx'[k].times = fx[k].times \/ (fx[k].times = 0 /\ fx'[k].times = 1)
    BY <2>1, <2>2
  <2> QED BY <2>1, <2>2, <2>3, PromiseOne
<1>6. ASSUME NEW k \in DOMAIN fx, NEW r \in {"UNKNOWN"} \union Conclusive, Observe(k, r)
      PROVE  [Promise!Next]_(Promise!vars)
  <2> DEFINE n == Len(fx[k].rows)
             rows == fx[k].rows
  <2>1. /\ DOMAIN fx' = DOMAIN fx /\ \A l \in DOMAIN fx : l # k => fx'[l] = fx[l]
        /\ rows \in Seq(Row) /\ n \in Nat \ {0}
        /\ fx'[k].rows = [rows EXCEPT ![n] = r]
        /\ fx'[k].times = fx[k].times
    BY <1>1, <1>6, ObserveWrites DEF Row
  <2>2. /\ rows # <<>> /\ DOMAIN rows = 1 .. n /\ Len(fx'[k].rows) = n
        /\ DOMAIN fx'[k].rows = 1 .. n
        /\ \A i \in 1 .. n : fx'[k].rows[i] = IF i = n THEN r ELSE rows[i]
    BY <2>1
  <2>3. fx'[k].rows # <<>>
    BY <2>1, <2>2
  <2>4. /\ rows[n] \in {"PENDING", "UNKNOWN"} \union {r}
        /\ r = "COMMITTED" => fx[k].times > 0
    BY <1>6, <2>2 DEF Observe, Latest, Rows
  <2>5. fx[k].times \in Nat /\ fx[k].times <= 1
    BY <1>1, EffectFields DEF Counted, CountedOf
  <2>6. CASE r = "COMMITTED"
    <3>1. "COMMITTED" \in Range(fx'[k].rows)
      BY <2>1, <2>2, <2>6 DEF Range
    <3> QED BY <2>1, <2>2, <2>3, <2>4, <2>5, <2>6, <3>1, PromiseOne
  <2>7. CASE r # "COMMITTED"
    <3>1. rows[n] # "COMMITTED"
      BY <2>4, <2>7
    <3>2. "COMMITTED" \in Range(fx'[k].rows) <=> "COMMITTED" \in Range(rows)
      BY <2>1, <2>2, <2>7, <3>1 DEF Range
    <3> QED BY <2>1, <2>2, <2>3, <3>2, PromiseOne
  <2> QED BY <2>6, <2>7
<1> QED BY <1>2, <1>3, <1>4, <1>5, <1>6, EffectsWritten

(* What activities meet of the kernel is an implementation of OneEffect, as *)
(* the kernel is (EffectKernel_proofs, Refinement): whatever attempts ask,  *)
(* an effect takes place after it was admitted, at most once, and is told   *)
(* of only then.                                                            *)
THEOREM Refinement == Spec => Promise!Spec
<1>1. Init => Counted /\ Promise!Init
  BY PromiseInit
<1> QED BY <1>1, CountedNext, PromiseNext, Invariance, PTL DEF Spec, Promise!Spec

-----------------------------------------------------------------------------
(* What the workflow waits for is there, and is one: the safety half of      *)
(* RunEnds, which is all of it that needs no fairness.                       *)

Waiting == report = Running /\ busy # 0
Attended == Waiting => \E a \in attempts : Current(a)
HeardOnce == \A a, b \in attempts : Current(a) /\ Current(b) => a = b

(* Attempts are told apart by their number, the one that is waited for is    *)
(* the newest of its step, and what has no ordinal of its own comes last.    *)
Numbered ==
  \A a, b \in attempts : a.kind = b.kind /\ a.ord = b.ord /\ a.n = b.n => a = b
Newest ==
  Waiting => \A a \in attempts : a.kind = stage /\ a.ord >= ord => a.n <= busy
Last ==
  \A a \in attempts : a.kind \in {"merge", "stop"} =>
    /\ a.kind = stage /\ (busy # 0 \/ report # Running)
    /\ a.kind = "stop" => a.ord = ord + 1

WaitInv == Attended /\ Numbered /\ Newest /\ Last

(* An attempt that is scheduled is the first of its kind under its ordinal.  *)
LEMMA WaitSchedule ==
  ASSUME Types, WaitInv, Schedule \/ ScheduleMerge
  PROVE  WaitInv'
<1>1. PICK kind, k :
        /\ attempts' = attempts \union {NewAttempt(kind, k, 1)}
        /\ stage' = kind /\ k >= ord' /\ busy' = 1 /\ report' = report /\ report = Running
        /\ \A a \in attempts : ~(a.kind = kind /\ a.ord >= ord')
        /\ \A a \in attempts : ~(a.kind = kind /\ a.ord = k)
        /\ \A a \in attempts : a.kind \notin {"merge", "stop"}
        /\ kind = "stop" => k = ord' + 1
  <2>1. ord \in Nat /\ \A a \in attempts : a.kind # "stop" => a.ord \in 1 .. ord
    BY BoundsOk DEF Types, TypeOK, InPlace
  <2>2. busy = 0 /\ busy' = 1 /\ report' = report /\ report = Running
    BY DEF Schedule, ScheduleMerge
  <2>3. \A a \in attempts : a.kind \notin {"merge", "stop"}
    BY <2>2 DEF WaitInv, Last
  <2>4. CASE ScheduleMerge
    <3>1. /\ attempts' = attempts \union {NewAttempt("merge", ord, 1)}
          /\ stage' = "merge" /\ ord >= ord'
      BY <2>1, <2>4 DEF ScheduleMerge
    <3> QED BY <2>2, <2>3, <3>1
  <2>5. CASE Schedule /\ stage' = "stop"
    <3>1. attempts' = attempts \union {NewAttempt("stop", ord + 1, 1)} /\ ord' = ord
      BY <2>5 DEF Schedule
    <3>2. ord + 1 >= ord'
      BY <2>1, <3>1
    <3> QED BY <2>2, <2>3, <2>5, <3>1, <3>2
  <2>6. CASE Schedule /\ stage' # "stop"
    <3>1. /\ attempts' = attempts \union {NewAttempt(stage, ord + 1, 1)}
          /\ ord' = ord + 1 /\ stage' = stage
      BY <2>6 DEF Schedule
    <3>2. ord + 1 >= ord' /\ \A a \in attempts : ~(a.ord >= ord')
      BY <2>1, <2>3, <3>1
    <3>3. \A a \in attempts : a.ord # ord + 1
      BY <2>1, <2>3
    <3> QED BY <2>2, <2>3, <2>6, <3>1, <3>2, <3>3
  <2> QED BY <2>4, <2>5, <2>6
<1> DEFINE b == NewAttempt(kind, k, 1)
<1>2. b.kind = kind /\ b.ord = k /\ b.n = 1
  BY NewAttemptFields
<1> HIDE DEF b
<1>3. attempts' = attempts \union {b}
  BY <1>1 DEF b
<1>4. Attended'
  BY <1>1, <1>2, <1>3 DEF Attended, Current
<1>5. Numbered'
  BY <1>1, <1>2, <1>3 DEF WaitInv, Numbered
<1>6. Newest' /\ Last'
  BY <1>1, <1>2, <1>3 DEF Newest, Last
<1> QED BY <1>4, <1>5, <1>6 DEF WaitInv

(* A further attempt has the next number; the one before is waited for no    *)
(* more, whether or not it goes on.                                          *)
LEMMA WaitRetry ==
  ASSUME Types, OneThing, WaitInv, NEW a \in attempts, NEW still \in {{}, {a}}, Retry(a, still)
  PROVE  WaitInv'
<1>1. /\ UNCHANGED <<stage, ord>> /\ report = Running /\ a.kind = stage /\ a.n = busy
      /\ busy # 0 /\ a.ord >= ord /\ a.n \in Nat
  BY RetryFlow, AttemptFields DEF Retry, Current
<1>2. CASE TryAgain(a.n)
  <2> DEFINE b == NewAttempt(a.kind, a.ord, a.n + 1)
  <2>1. b.kind = a.kind /\ b.ord = a.ord /\ b.n = a.n + 1
    BY NewAttemptFields
  <2>2. /\ attempts' = (attempts \ {a}) \union still \union {b}
        /\ busy' = a.n + 1 /\ report' = report
    BY <1>2 DEF Retry
  <2> HIDE DEF b
  <2>3. \A x \in attempts' : x \in attempts \/ x = b
    BY <2>2
  <2>4. \A x \in attempts : x.kind = stage /\ x.ord >= ord => x.n <= a.n /\ x.n \in Nat
    BY <1>1, AttemptFields DEF WaitInv, Newest, Waiting
  <2>5. \A x \in attempts : ~(x.kind = b.kind /\ x.ord = b.ord /\ x.n = b.n)
    BY <1>1, <2>1, <2>4
  <2>6. Attended'
    BY <1>1, <2>1, <2>2 DEF Attended, Current
  <2>7. Numbered'
    BY <2>3, <2>5 DEF WaitInv, Numbered
  <2>8. Newest'
    BY <1>1, <2>1, <2>2, <2>3, <2>4 DEF Newest
  <2>9. Last'
    BY <1>1, <2>1, <2>2, <2>3 DEF WaitInv, Last
  <2> QED BY <2>6, <2>7, <2>8, <2>9 DEF WaitInv
<1>3. CASE ~TryAgain(a.n)
  <2>1. attempts' \subseteq attempts /\ report' # Running
    BY <1>3 DEF Retry, Running
  <2> QED BY <1>1, <2>1 DEF WaitInv, Attended, Waiting, Numbered, Newest, Last
<1> QED BY <1>2, <1>3

LEMMA WaitComplete ==
  ASSUME Types, OneThing, WaitInv, NEW a \in attempts, Complete(a)
  PROVE  WaitInv'
<1>1. /\ attempts' = attempts \ {a} /\ busy' = 0 /\ a.kind = stage /\ busy # 0 /\ report = Running
      /\ ord' = ord
  BY CompleteFlow
<1>2. a.kind \in {"merge", "stop"} => report' # Running /\ stage' = stage
  BY Continues, FinishEnds
<1>3. Last'
  <2>1. ASSUME NEW x \in attempts', x.kind \in {"merge", "stop"}
        PROVE  x.kind = stage' /\ report' # Running /\ (x.kind = "stop" => x.ord = ord' + 1)
    <3>1. x.kind = stage /\ (x.kind = "stop" => x.ord = ord' + 1)
      BY <1>1, <2>1 DEF WaitInv, Last
    <3> QED BY <1>1, <1>2, <2>1, <3>1
  <2> QED BY <2>1 DEF Last
<1> QED BY <1>1, <1>3 DEF WaitInv, Attended, Waiting, Numbered, Newest

(* An attempt that works stays the attempt it was.                           *)
LEMMA WaitWorks ==
  ASSUME Types, WaitInv, NEW a \in attempts, Works(a)
  PROVE  WaitInv'
<1>1. PICK at, val : Goto(a, at, val)
  BY WorksMoves
<1>2. UNCHANGED <<stage, busy, ord, report>>
  BY WorksMoves DEF workflowVars
<1> DEFINE b == [a EXCEPT !.at = at, !.val = val]
<1>3. b.kind = a.kind /\ b.ord = a.ord /\ b.n = a.n
  BY AttemptFields DEF Attempt
<1>4. attempts' = (attempts \ {a}) \union {b}
  BY <1>1 DEF Goto, Become
<1> HIDE DEF b
<1>5. Attended'
  <2>1. ASSUME NEW x \in attempts, Current(x)
        PROVE  \E y \in attempts' : report = Running /\ y.kind = stage /\ y.ord >= ord /\ y.n = busy
    BY <1>3, <1>4, <2>1 DEF Current
  <2> QED BY <1>2, <2>1 DEF WaitInv, Attended, Waiting, Current
<1>6. Numbered'
  BY <1>3, <1>4 DEF WaitInv, Numbered
<1>7. Newest' /\ Last'
  BY <1>2, <1>3, <1>4 DEF WaitInv, Newest, Last, Waiting
<1> QED BY <1>5, <1>6, <1>7 DEF WaitInv

LEMMA WaitNext == IInv /\ WaitInv /\ [Next]_vars => WaitInv'
<1> SUFFICES ASSUME IInv, WaitInv, [Next]_vars PROVE WaitInv'
  OBVIOUS
<1> USE DEF IInv
<1>1. CASE Schedule \/ ScheduleMerge
  BY <1>1, WaitSchedule
<1>2. ASSUME NEW a \in attempts, Works(a) PROVE WaitInv'
  BY <1>2, WaitWorks
<1>3. ASSUME NEW a \in attempts, Complete(a) PROVE WaitInv'
  BY <1>3, WaitComplete
<1>4. ASSUME NEW a \in attempts, NEW still \in {{}, {a}}, Retry(a, still) PROVE WaitInv'
  BY <1>4, WaitRetry
<1>5. ASSUME NEW a \in attempts, Vanish(a) PROVE WaitInv'
  <2>1. UNCHANGED <<stage, busy, ord, report>> /\ attempts' = attempts \ {a} /\ ~Current(a)
    BY <1>5 DEF Vanish, Leftovers, workflowVars
  <2> QED BY <2>1 DEF WaitInv, Attended, Waiting, Current, Numbered, Newest, Last
<1>6. CASE \/ Signal \/ UNCHANGED vars
           \/ \E k \in DOMAIN fx : Land(k) \/ \E r \in {"UNKNOWN"} \union Conclusive : Observe(k, r)
  <2>1. UNCHANGED <<stage, busy, ord, report, attempts>>
    BY <1>6 DEF Signal, Land, Observe, vars, workflowVars, hostVars
  <2> QED BY <2>1 DEF WaitInv, Attended, Waiting, Current, Numbered, Newest, Last
<1> QED BY <1>1, <1>2, <1>3, <1>4, <1>5, <1>6 DEF Next

(* A workflow that waits for an activity has one attempt to wait for, and no *)
(* other can be taken for it: not one that was given up and finishes late    *)
(* (proxyActivities with its retries, as cadpWork calls them).               *)
THEOREM WaitsAreForOne == Spec => [](Attended /\ HeardOnce)
<1>1. Init => WaitInv
  BY DEF Init, WaitInv, Attended, Waiting, Numbered, Newest, Last
<1>2. IInv /\ WaitInv => Attended /\ HeardOnce
  <2> SUFFICES ASSUME IInv, WaitInv, NEW a \in attempts, NEW b \in attempts,
                      Current(a), Current(b)
               PROVE  a = b
    BY DEF WaitInv, HeardOnce
  <2>1. a.kind = b.kind /\ a.n = b.n
    BY DEF Current
  <2>2. CASE a.kind # "stop"
    BY <2>1, <2>2, CurrentOne DEF IInv, WaitInv, Numbered
  <2>3. CASE a.kind = "stop"
    BY <2>1, <2>3 DEF WaitInv, Numbered, Last
  <2> QED BY <2>2, <2>3
<1> QED BY <1>1, <1>2, WaitNext, Invariance, PTL DEF Spec
=============================================================================
