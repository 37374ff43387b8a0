-------------------------- MODULE LaVieEnPileProofs --------------------------
(***************************************************************************)
(* Proofs about LaVieEnPile, for any apps, kinds of apps and number of     *)
(* overlapping calls.                                                      *)
(*                                                                         *)
(* Each operation is shown once, as an operator on the fields of the       *)
(* lifetime, to keep them in shape and to touch the slots as AppStack      *)
(* says; the steps of the specification only combine these lemmas.         *)
(*                                                                         *)
(* The second half is about calls that do not overlap: what a call leaves  *)
(* to do agrees, step by step, with the stack and with what its apps were  *)
(* told.                                                                   *)
(***************************************************************************)
EXTENDS LaVieEnPile, SequenceTheorems, TLAPS

-----------------------------------------------------------------------------
\* Shape: typed fields, slots that agree with the forms, and a stack that is
\* disjoint from the background.
Shaped(L) ==
    /\ L \in LifeType
    /\ L.cut # Null => L.form[L.cut] = "cut" /\ L.cut # L.scene
    /\ L.scene # Null => L.form[L.scene] = "scene"
    /\ L.cut \notin L.background
    /\ L.scene \notin L.background

\* M has the slots of L without the apps of S.
Vacated(M, L, S) ==
    /\ M.cut = (IF L.cut \in S THEN Null ELSE L.cut)
    /\ M.scene = (IF L.scene \in S THEN Null ELSE L.scene)

\* An outcome that can be installed.
WellFormed(r) == Shaped(r.life) /\ r.todo \in Seq(Step) /\ r.ok \in BOOLEAN

-----------------------------------------------------------------------------
\* One continuation, or none, is a sequence of steps.
LEMMA DoTyped ==
    ASSUME NEW op \in Ops, NEW S \in SUBSET Apps, NEW force \in BOOLEAN
    PROVE  /\ <<Do(op, S, force)>> \in Seq(Step)
           /\ DoIfAny(op, S, force) \in Seq(Step)
<1>1. Do(op, S, force) \in Step
  BY DEF Do, Step
<1>2. <<Do(op, S, force)>> \in Seq(Step)
  BY <1>1
<1>3. <<>> \in Seq(Step)
  BY EmptySeq
<1> QED
  BY <1>2, <1>3 DEF DoIfAny

\* Telling apps something changes nothing but what they were told.
LEMMA TellShaped ==
    ASSUME NEW L, Shaped(L), NEW st, NEW S, NEW event \in Events
    PROVE  /\ Shaped(Tell(L, st, S, event))
           /\ Tell(L, st, S, event).cut = L.cut
           /\ Tell(L, st, S, event).scene = L.scene
           /\ Tell(L, st, S, event).monopolist = L.monopolist
<1> DEFINE f == [a \in Apps |-> IF a \in Listeners(st, S) THEN event ELSE L.told[a]]
<1>1. f \in [Apps -> Events]
  BY DEF Shaped, LifeType
<1>2. Tell(L, st, S, event) = [L EXCEPT !.told = f]
  BY DEF Tell
<1> HIDE DEF f
<1> QED
  BY <1>1, <1>2 DEF Shaped, LifeType

\* Forgetting apps takes them off the slots and keeps the shape.
LEMMA ForgetShaped ==
    ASSUME NEW L, Shaped(L), NEW S
    PROVE  /\ Shaped(Forget(L, S))
           /\ Vacated(Forget(L, S), L, S)
           /\ Forget(L, S).background = L.background
           /\ Forget(L, S).monopolist = L.monopolist
           /\ Forget(L, S).lastSubordinate = L.lastSubordinate
           /\ Forget(L, S).carrierId = L.carrierId
<1> DEFINE f == [a \in Apps |-> IF a \in S THEN "none" ELSE L.form[a]]
           c == IF L.cut \in S THEN Null ELSE L.cut
           s == IF L.scene \in S THEN Null ELSE L.scene
<1>1. f \in [Apps -> Forms \cup {"none"}]
  BY DEF Shaped, LifeType
<1>2. c \in AppOrNull /\ s \in AppOrNull
  BY DEF Shaped, LifeType, AppOrNull
<1>3. L.kept \ S \in SUBSET Apps
  BY DEF Shaped, LifeType
<1>4. Forget(L, S) = [L EXCEPT !.cut = c, !.scene = s, !.form = f, !.kept = L.kept \ S]
  BY DEF Forget, LeaveSlots, Shaped, LifeType
<1>5. /\ c # Null => f[c] = "cut" /\ c # s
      /\ s # Null => f[s] = "scene"
  BY DEF Shaped, LifeType, AppOrNull
<1>6. c \notin L.background /\ s \notin L.background
  BY LifetimeAssumption DEF Shaped, LifeType
<1> HIDE DEF f, c, s
<1>7. Forget(L, S) \in LifeType
  BY <1>1, <1>2, <1>3, <1>4 DEF Shaped, LifeType
<1>8. /\ Forget(L, S).form = f
      /\ Forget(L, S).cut = c
      /\ Forget(L, S).scene = s
      /\ Forget(L, S).background = L.background
      /\ Forget(L, S).monopolist = L.monopolist
      /\ Forget(L, S).lastSubordinate = L.lastSubordinate
      /\ Forget(L, S).carrierId = L.carrierId
  BY <1>4 DEF Shaped, LifeType
<1>9. Shaped(Forget(L, S))
  BY <1>5, <1>6, <1>7, <1>8 DEF Shaped
<1> QED
  BY <1>8, <1>9 DEF Vacated, c, s

\* recoverIfPossibleAfter changes neither slots nor background.
LEMMA RecoverWellFormed ==
    ASSUME NEW L, Shaped(L), NEW st, NEW S, NEW recover \in BOOLEAN
    PROVE  /\ WellFormed(Recover(L, st, S, recover))
           /\ Vacated(Recover(L, st, S, recover).life, L, {})
           /\ Recover(L, st, S, recover).life.monopolist = L.monopolist
<1> DEFINE mine == L.lastSubordinate \in S
           carrier == IF mine THEN L.carrierId ELSE Null
           next == IF mine THEN [L EXCEPT !.lastSubordinate = Null, !.carrierId = Null] ELSE L
           todo == IF ~recover \/ L.onPause # Null THEN <<>>
                   ELSE IF carrier # Null /\ IsAppRunning(st, carrier)
                   THEN <<Do("reactivate", {carrier}, FALSE)>>
                   ELSE <<Do("resumeTop", {}, FALSE)>>
<1>1. /\ Shaped(next)
      /\ next.cut = L.cut
      /\ next.scene = L.scene
      /\ next.monopolist = L.monopolist
  BY DEF Shaped, LifeType, AppOrNull
<1>2. todo \in Seq(Step)
  <2>1. carrier \in AppOrNull
    BY DEF Shaped, LifeType, AppOrNull
  <2>2. carrier # Null => <<Do("reactivate", {carrier}, FALSE)>> \in Seq(Step)
    BY <2>1, DoTyped DEF AppOrNull, Ops
  <2>3. <<Do("resumeTop", {}, FALSE)>> \in Seq(Step)
    BY DoTyped DEF Ops
  <2>4. <<>> \in Seq(Step)
    BY EmptySeq
  <2> HIDE DEF carrier
  <2> QED
    BY <2>2, <2>3, <2>4
<1>3. Recover(L, st, S, recover) = Outcome(next, todo, TRUE)
  BY DEF Recover
<1> HIDE DEF next, todo
<1> QED
  BY <1>1, <1>2, <1>3 DEF Outcome, WellFormed, Vacated

\* destroyAppById takes the apps off the slots.
LEMMA DestroyWellFormed ==
    ASSUME NEW L, Shaped(L), NEW st, NEW S \in SUBSET Apps, NEW force \in BOOLEAN
    PROVE  /\ WellFormed(Destroy(L, st, S, force))
           /\ Vacated(Destroy(L, st, S, force).life, L, S)
           /\ Destroy(L, st, S, force).life.monopolist = L.monopolist
<1> DEFINE running == {a \in S : IsAppRunning(st, a)}
           todo == DoIfAny("suspend", running, force)
           next == Tell(Forget(L, S), st, running, "destroy")
<1>1. todo \in Seq(Step)
  BY DoTyped DEF Ops
<1>2. Shaped(Forget(L, S)) /\ Vacated(Forget(L, S), L, S) /\ Forget(L, S).monopolist = L.monopolist
  BY ForgetShaped
<1>3. Shaped(next) /\ Vacated(next, L, S) /\ next.monopolist = L.monopolist
  BY <1>2, TellShaped DEF Events, Vacated
<1>4. Destroy(L, st, S, force) = Outcome(next, todo, TRUE)
  BY DEF Destroy
<1> HIDE DEF next, todo
<1> QED
  BY <1>1, <1>3, <1>4 DEF Outcome, WellFormed

\* setBackgroundById takes the apps off the slots before it registers them.
LEMMA SetBackgroundWellFormed ==
    ASSUME NEW L, Shaped(L), NEW st, NEW S \in SUBSET Apps, NEW recover \in BOOLEAN
    PROVE  /\ WellFormed(SetBackground(L, st, S, recover))
           /\ Vacated(SetBackground(L, st, S, recover).life, L, S)
           /\ SetBackground(L, st, S, recover).life.monopolist = L.monopolist
<1> DEFINE removed == S \cap Stack(L)
           entering == removed \cup (S \ L.background)
           gone == Forget(L, removed)
           moved == [gone EXCEPT !.background = @ \cup S]
           told == Tell(moved, st, entering, "background")
           ok == entering \subseteq Listeners(st, entering)
           again == recover /\ removed # {}
           rec == Recover(told, st, entering, again)
<1>1. /\ Shaped(gone)
      /\ Vacated(gone, L, removed)
      /\ gone.monopolist = L.monopolist
  BY ForgetShaped
<1>2. Vacated(gone, L, S) /\ gone.cut \notin S /\ gone.scene \notin S
  BY <1>1, LifetimeAssumption DEF Vacated, Stack
<1> HIDE DEF gone
<1>3. /\ Shaped(moved)
      /\ moved.cut = gone.cut
      /\ moved.scene = gone.scene
      /\ moved.monopolist = gone.monopolist
  BY <1>1, <1>2 DEF Shaped, LifeType
<1> HIDE DEF moved, entering, removed
<1>4. /\ Shaped(told)
      /\ Vacated(told, L, S)
      /\ told.monopolist = L.monopolist
  BY <1>1, <1>2, <1>3, TellShaped DEF Events, Vacated
<1> HIDE DEF told
<1>5. /\ WellFormed(rec)
      /\ Vacated(rec.life, L, S)
      /\ rec.life.monopolist = L.monopolist
  <2>1. again \in BOOLEAN
    OBVIOUS
  <2> HIDE DEF again
  <2>2. WellFormed(rec) /\ Vacated(rec.life, told, {}) /\ rec.life.monopolist = told.monopolist
    BY <1>4, <2>1, RecoverWellFormed
  <2> QED
    BY <1>4, <2>2 DEF Vacated
<1>6. SetBackground(L, st, S, recover)
      = Outcome(rec.life, IF ok THEN rec.todo ELSE <<>>, ok)
  BY DEF SetBackground, told, moved, gone, removed, entering
<1>7. (IF ok THEN rec.todo ELSE <<>>) \in Seq(Step)
  BY <1>5, EmptySeq DEF WellFormed
<1> HIDE DEF rec
<1> QED
  BY <1>5, <1>6, <1>7 DEF Outcome, WellFormed

\* deactivateAppById takes the apps off the slots and ends their monopoly.
LEMMA DeactivateWellFormed ==
    ASSUME NEW L, Shaped(L), NEW st, NEW S \in SUBSET Apps, NEW recover \in BOOLEAN
    PROVE  /\ WellFormed(Deactivate(L, st, S, recover))
           /\ Vacated(Deactivate(L, st, S, recover).life, L, S)
           /\ Deactivate(L, st, S, recover).life.monopolist
                 = (IF L.monopolist \in S THEN Null ELSE L.monopolist)
<1> DEFINE gone == Forget(L, S)
           free == [gone EXCEPT !.monopolist = IF @ \in S THEN Null ELSE @]
           kept == S \cap L.kept
           rest == S \ L.kept
           b == SetBackground(free, st, kept, FALSE)
           d == Destroy(b.life, st, rest, FALSE)
           again == recover /\ Current(L) \in S
           rec == Recover(d.life, st, S, again)
           mono == IF L.monopolist \in S THEN Null ELSE L.monopolist
<1>1. /\ Shaped(gone)
      /\ Vacated(gone, L, S)
      /\ gone.monopolist = L.monopolist
  BY ForgetShaped
<1> HIDE DEF gone
<1>2. Shaped(free) /\ Vacated(free, L, S) /\ free.monopolist = mono
  BY <1>1 DEF Shaped, LifeType, AppOrNull, Vacated
<1>3. kept \in SUBSET Apps /\ rest \in SUBSET Apps /\ kept \subseteq S /\ rest \subseteq S
  OBVIOUS
<1> HIDE DEF free, kept, rest, mono
<1>4. WellFormed(b) /\ Vacated(b.life, free, kept) /\ b.life.monopolist = mono
  BY <1>2, <1>3, SetBackgroundWellFormed
<1> HIDE DEF b
<1>5. WellFormed(d) /\ Vacated(d.life, b.life, rest) /\ d.life.monopolist = mono
  BY <1>3, <1>4, DestroyWellFormed DEF WellFormed
<1> HIDE DEF d
<1>6. again \in BOOLEAN
  OBVIOUS
<1> HIDE DEF again
<1>7. WellFormed(rec) /\ Vacated(rec.life, d.life, {}) /\ rec.life.monopolist = mono
  BY <1>5, <1>6, RecoverWellFormed DEF WellFormed
<1> HIDE DEF rec
<1>8. Vacated(rec.life, L, S)
  BY <1>2, <1>3, <1>4, <1>5, <1>7, LifetimeAssumption DEF Vacated
<1> DEFINE tail == IF b.ok THEN rec.todo ELSE <<>>
           todo == d.todo \o tail
<1>9. todo \in Seq(Step)
  <2>1. tail \in Seq(Step)
    BY <1>7, EmptySeq DEF WellFormed
  <2> HIDE DEF tail
  <2> QED
    BY <1>5, <2>1, ConcatProperties DEF WellFormed
<1>10. Deactivate(L, st, S, recover) = Outcome(rec.life, todo, b.ok)
  BY DEF Deactivate, rec, d, b, free, gone, kept, rest, again
<1> HIDE DEF todo
<1> QED
  BY <1>4, <1>7, <1>8, <1>9, <1>10 DEF Outcome, WellFormed, mono

\* What activateAppById notes has the type of the fields and leaves the slots.
LEMMA NoteTyped ==
    ASSUME NEW L, Shaped(L), NEW st, NEW a \in Apps, NEW form \in Forms,
           NEW carrierId \in AppOrNull
    PROVE  LET N == Note(L, st, a, form, carrierId)
           IN  /\ N \in LifeType
               /\ N.cut = L.cut /\ N.scene = L.scene /\ N.background = L.background
               /\ N.form[a] = (IF BecomesScene(L, a, form) THEN "scene" ELSE "cut")
               /\ \A b \in Apps \ {a} : N.form[b] = L.form[b]
               /\ N.monopolist = Monopolist(L, st)
<1> DEFINE f == [L.form EXCEPT ![a] = IF BecomesScene(L, a, form) THEN "scene" ELSE "cut"]
           m == Monopolist(L, st)
           sub == IF carrierId # Null THEN a ELSE L.lastSubordinate
<1>1. f \in [Apps -> Forms \cup {"none"}]
  BY DEF Shaped, LifeType, Forms
<1>2. m \in AppOrNull
  BY DEF Shaped, LifeType, Monopolist, AppOrNull
<1>3. sub \in AppOrNull
  BY DEF Shaped, LifeType, AppOrNull
<1>4. /\ f[a] = (IF BecomesScene(L, a, form) THEN "scene" ELSE "cut")
      /\ \A b \in Apps \ {a} : f[b] = L.form[b]
  BY DEF Shaped, LifeType
<1>5. Note(L, st, a, form, carrierId)
      = [L EXCEPT !.form = f, !.monopolist = m, !.carrierId = carrierId, !.lastSubordinate = sub]
  BY DEF Note, Shaped, LifeType
<1> HIDE DEF f, m, sub
<1> QED
  BY <1>1, <1>2, <1>3, <1>4, <1>5 DEF Shaped, LifeType, m

\* a is the app that came in: as a cut app above the scene, or as the scene of
\* a stack that was cleared.
Pushed(M, L, a) ==
    \/ M.cut = a /\ M.scene = L.scene /\ a # L.scene
    \/ M.cut = Null /\ M.scene = a

\* The fields after a was noted and put in its slot, with B in the background.
Entered(L, st, a, form, carrierId, B) ==
    [AddApp(Note(L, st, a, form, carrierId), a, BecomesScene(L, a, form)) EXCEPT !.background = B]

\* The app that comes in takes the slot that its noted form names.
LEMMA PushShaped ==
    ASSUME NEW L, Shaped(L), NEW st, NEW a \in Apps, NEW form \in Forms,
           NEW carrierId \in AppOrNull, NEW B, B = L.background \/ B = L.background \ {a},
           a \notin B
    PROVE  LET P == Entered(L, st, a, form, carrierId, B)
           IN  /\ Shaped(P)
               /\ P.monopolist = Monopolist(L, st)
               /\ Pushed(P, L, a)
<1> DEFINE N == Note(L, st, a, form, carrierId)
           P == Entered(L, st, a, form, carrierId, B)
<1>1. /\ N \in LifeType
      /\ N.cut = L.cut /\ N.scene = L.scene /\ N.background = L.background
      /\ N.form[a] = (IF BecomesScene(L, a, form) THEN "scene" ELSE "cut")
      /\ \A b \in Apps \ {a} : N.form[b] = L.form[b]
      /\ N.monopolist = Monopolist(L, st)
  BY NoteTyped
<1> HIDE DEF N
<1>2. B \subseteq Apps
  BY DEF Shaped, LifeType
<1>3. CASE BecomesScene(L, a, form)
  <2>1. P = [N EXCEPT !.cut = Null, !.scene = a, !.background = B]
    BY <1>1, <1>3 DEF Entered, N, AddApp, LifeType
  <2>2. P \in LifeType
    BY <1>1, <1>2, <2>1 DEF LifeType, AppOrNull
  <2>3. /\ P.cut = Null /\ P.scene = a /\ P.background = B
        /\ P.form = N.form /\ P.monopolist = N.monopolist
    BY <1>1, <2>1 DEF LifeType
  <2>4. Null \notin B
    BY <1>2, LifetimeAssumption
  <2> QED
    BY <1>1, <1>3, <2>2, <2>3, <2>4 DEF Shaped, Pushed, N
<1>4. CASE ~BecomesScene(L, a, form)
  <2>1. P = [N EXCEPT !.cut = a, !.background = B]
    BY <1>1, <1>4 DEF Entered, N, AddApp, LifeType
  <2>2. P \in LifeType
    BY <1>1, <1>2, <2>1 DEF LifeType, AppOrNull
  <2>3. /\ P.cut = a /\ P.scene = L.scene /\ P.background = B
        /\ P.form = N.form /\ P.monopolist = N.monopolist
    BY <1>1, <2>1 DEF LifeType
  <2>4. a # L.scene
    BY <1>4, LifetimeAssumption DEF Shaped, BecomesScene
  <2>5. L.scene # Null => N.form[L.scene] = "scene"
    BY <1>1, <2>4 DEF Shaped, LifeType, AppOrNull
  <2>6. L.scene \notin B
    BY DEF Shaped
  <2>7. N.form[a] = "cut"
    BY <1>1, <1>4
  <2> QED
    BY <1>1, <2>2, <2>3, <2>4, <2>5, <2>6, <2>7 DEF Shaped, Pushed, N
<1> QED
  BY <1>3, <1>4

\* activateAppById puts the app in a slot and revokes a lapsed monopoly.
LEMMA ActivateWellFormed ==
    ASSUME NEW L, Shaped(L), NEW st, NEW a \in Apps, NEW form \in Forms,
           NEW carrierId \in AppOrNull
    PROVE  LET r == Activate(L, st, a, form, carrierId)
           IN  /\ WellFormed(r)
               /\ Pushed(r.life, L, a)
               /\ r.life.monopolist = Monopolist(L, st)
<1> DEFINE r == Activate(L, st, a, form, carrierId)
           last == Current(L)
           noted == Note(L, st, a, form, carrierId)
           added == AddApp(noted, a, BecomesScene(L, a, form))
           pushed == [added EXCEPT !.background = @ \ {a}]
           first == DoIfAny("destroy", PreviousCarrier(L, st, a, carrierId), FALSE)
           active == <<Do("active", {a}, FALSE)>>
           clear == DoIfAny("deactivate", Stack(L) \ {a}, FALSE)
           told == Tell(pushed, st, {a}, "active")
<1>1. /\ noted \in LifeType
      /\ noted.background = L.background
  BY NoteTyped
<1>2. added \in LifeType /\ added.background = L.background
  BY <1>1 DEF AddApp, LifeType, AppOrNull
<1>3. /\ Shaped(pushed)
      /\ Pushed(pushed, L, a)
      /\ pushed.monopolist = Monopolist(L, st)
  <2> DEFINE B == L.background \ {a}
             P == Entered(L, st, a, form, carrierId, B)
  <2>1. pushed = P
    BY <1>2 DEF Entered
  <2>2. (B = L.background \/ B = L.background \ {a}) /\ a \notin B
    OBVIOUS
  <2> HIDE DEF B
  <2>3. /\ Shaped(P)
        /\ P.monopolist = Monopolist(L, st)
        /\ Pushed(P, L, a)
    BY <2>2, PushShaped
  <2> QED
    BY <2>1, <2>3
<1>4. ASSUME AlreadyOnTop(L, a, form)
      PROVE  /\ Shaped(added)
             /\ Pushed(added, L, a)
             /\ added.monopolist = Monopolist(L, st)
  <2>1. a \notin L.background
    BY <1>4 DEF AlreadyOnTop, Shaped
  <2>2. added = Entered(L, st, a, form, carrierId, L.background)
    BY <1>2 DEF Entered, LifeType
  <2> QED
    BY <2>1, <2>2, PushShaped
<1>5. first \in Seq(Step)
  <2>1. PreviousCarrier(L, st, a, carrierId) \in SUBSET Apps
    BY DEF PreviousCarrier
  <2> QED
    BY <2>1, DoTyped DEF Ops
<1>6. active \in Seq(Step)
  BY DoTyped DEF Ops
<1>7. clear \in Seq(Step)
  <2>1. Stack(L) \ {a} \in SUBSET Apps
    BY DEF Stack, Shaped, LifeType, AppOrNull
  <2> QED
    BY <2>1, DoTyped DEF Ops
<1>8. ASSUME last # Null
      PROVE  /\ <<Do("pause", {last}, FALSE)>> \in Seq(Step)
             /\ <<Do("deactivate", {last}, FALSE)>> \in Seq(Step)
  <2>1. last \in Apps
    BY <1>8 DEF Current, Shaped, LifeType, AppOrNull
  <2> QED
    BY <2>1, DoTyped DEF Ops
<1> HIDE DEF pushed
<1>9. /\ Shaped(told)
      /\ Pushed(told, L, a)
      /\ told.monopolist = Monopolist(L, st)
  BY <1>3, TellShaped DEF Pushed, Events
<1> USE DEF pushed
<1>10. r = IF AlreadyOnTop(L, a, form) THEN Outcome(added, first, TRUE)
           ELSE IF form = "scene" THEN Outcome(pushed, first \o clear \o active, TRUE)
           ELSE IF last = Null \/ noted.form[last] = "none" THEN Outcome(told, first, TRUE)
           ELSE IF noted.form[last] = "scene"
           THEN Outcome(pushed, first \o <<Do("pause", {last}, FALSE)>> \o active, TRUE)
           ELSE Outcome(pushed, first \o <<Do("deactivate", {last}, FALSE)>> \o active, TRUE)
  BY DEF Activate
<1> DEFINE good(q) == WellFormed(q) /\ Pushed(q.life, L, a) /\ q.life.monopolist = Monopolist(L, st)
<1>11. ASSUME NEW M, Shaped(M), Pushed(M, L, a), M.monopolist = Monopolist(L, st),
              NEW todo \in Seq(Step)
       PROVE  good(Outcome(M, todo, TRUE))
  BY <1>11 DEF Outcome, WellFormed
<1> SUFFICES good(r)
  OBVIOUS
<1> HIDE DEF noted, added, pushed, first, active, clear, told, last, r, good
<1>12. ASSUME NEW s \in Seq(Step)
       PROVE  first \o s \o active \in Seq(Step)
  BY <1>5, <1>6, <1>12, ConcatProperties
<1>13. CASE AlreadyOnTop(L, a, form)
  BY <1>4, <1>5, <1>10, <1>11, <1>13
<1>14. CASE ~AlreadyOnTop(L, a, form) /\ form = "scene"
  <2>1. first \o clear \o active \in Seq(Step)
    BY <1>7, <1>12
  <2>2. r = Outcome(pushed, first \o clear \o active, TRUE)
    BY <1>10, <1>14
  <2> QED
    BY <1>3, <1>11, <2>1, <2>2
<1>15. CASE ~AlreadyOnTop(L, a, form) /\ form # "scene"
  <2>1. CASE last = Null \/ noted.form[last] = "none"
    BY <1>5, <1>9, <1>10, <1>11, <1>15, <2>1
  <2>2. CASE ~(last = Null \/ noted.form[last] = "none") /\ noted.form[last] = "scene"
    <3>1. first \o <<Do("pause", {last}, FALSE)>> \o active \in Seq(Step)
      BY <1>8, <1>12, <2>2
    <3>2. r = Outcome(pushed, first \o <<Do("pause", {last}, FALSE)>> \o active, TRUE)
      BY <1>10, <1>15, <2>2
    <3> QED
      BY <1>3, <1>11, <3>1, <3>2
  <2>3. CASE ~(last = Null \/ noted.form[last] = "none") /\ noted.form[last] # "scene"
    <3>1. first \o <<Do("deactivate", {last}, FALSE)>> \o active \in Seq(Step)
      BY <1>8, <1>12, <2>3
    <3>2. r = Outcome(pushed, first \o <<Do("deactivate", {last}, FALSE)>> \o active, TRUE)
      BY <1>10, <1>15, <2>3
    <3> QED
      BY <1>3, <1>11, <3>1, <3>2
  <2> QED
    BY <2>1, <2>2, <2>3
<1> QED
  BY <1>13, <1>14, <1>15

\* An app that is no scene and is not activated as one leaves the scene where
\* it is.
LEMMA ActivateCovers ==
    ASSUME NEW L, Shaped(L), NEW st, NEW a \in Apps, NEW form \in Forms,
           NEW carrierId \in AppOrNull, ~BecomesScene(L, a, form)
    PROVE  Activate(L, st, a, form, carrierId).life.scene = L.scene
<1> DEFINE noted == Note(L, st, a, form, carrierId)
           added == AddApp(noted, a, BecomesScene(L, a, form))
           pushed == [added EXCEPT !.background = @ \ {a}]
           told == Tell(pushed, st, {a}, "active")
<1>1. noted \in LifeType /\ noted.scene = L.scene
  BY NoteTyped
<1> HIDE DEF noted
<1>2. added \in LifeType /\ added.scene = L.scene
  BY <1>1 DEF AddApp, LifeType, AppOrNull
<1> HIDE DEF added
<1>3. pushed.scene = L.scene
  BY <1>2 DEF LifeType
<1>4. told.scene = L.scene
  BY <1>2 DEF Tell, LifeType
<1> HIDE DEF pushed, told
<1>5. Activate(L, st, a, form, carrierId).life \in {added, pushed, told}
  BY DEF Activate, Outcome, added, pushed, told, noted
<1> QED
  BY <1>2, <1>3, <1>4, <1>5

-----------------------------------------------------------------------------
\* Steps

Alive == Listeners(appStatus, Apps)

\* The four things a step may do to the stack and to the processes.
Comes ==
    \E a \in Apps, form \in Forms :
        /\ CanActivate(life, appStatus, a, form)
        /\ \E c \in Calls : FreeChain(c) \/ Head1(c, "reactivate")
        /\ Pushed(life', life, a)
        /\ ~BecomesScene(life, a, form) => life'.scene = life.scene
        /\ a \in Alive
        /\ Alive' = Alive
        /\ life'.monopolist = Monopolist(life, appStatus)
Goes == \E S \in SUBSET Apps : Vacated(life', life, S) /\ Alive' = Alive
Born == \E a \in Apps : Vacated(life', life, {}) /\ Alive' = Alive \cup {a}
Dies == \E a \in Apps : Vacated(life', life, {a}) /\ Alive' = Alive \ {a}
Moves == Comes \/ Goes \/ Born \/ Dies

\* Only startMonologue gives the stack to an app.
Lapses == life'.monopolist \in {Null, life.monopolist} \/ StartMonologue(life'.monopolist)

TypedStep == TypeOK' /\ Shaped(life')

\* A call with a well-formed outcome installs its fields and its continuations.
LEMMA IssueTyped ==
    ASSUME TypeOK, SchedulerTypeOK', NEW STATE r, WellFormed(r), Issue(r)
    PROVE  TypedStep /\ life' = r.life
<1>1. PICK c \in Calls : chains' = [chains EXCEPT ![c] = r.todo]
  BY DEF Issue
<1>2. chains' \in [Calls -> Seq(Step)]
  BY <1>1 DEF TypeOK, WellFormed
<1>3. life' = r.life
  BY DEF Issue
<1> QED
  BY <1>2, <1>3 DEF TypedStep, TypeOK, WellFormed, Shaped

LEMMA CallTyped ==
    ASSUME TypeOK, NEW STATE r, WellFormed(r), Call(r)
    PROVE  TypedStep /\ life' = r.life /\ Alive' = Alive
<1>1. SchedulerTypeOK'
  BY DEF Call, TypeOK, SchedulerTypeOK, schedulerVars
<1>2. Alive' = Alive
  BY DEF Call, schedulerVars, Alive, Listeners, HasDescriptor
<1> QED
  BY <1>1, <1>2, IssueTyped DEF Call

LEMMA QuickTyped ==
    ASSUME TypeOK, NEW STATE L, Shaped(L), Quick(L)
    PROVE  TypedStep /\ life' = L /\ Alive' = Alive
<1>1. TypeOK' /\ life' = L
  BY DEF Quick, TypeOK, SchedulerTypeOK, Shaped
<1>2. Alive' = Alive
  BY DEF Quick, Alive, Listeners, HasDescriptor
<1> QED
  BY <1>1, <1>2 DEF TypedStep

LEMMA ContinueTyped ==
    ASSUME TypeOK, NEW c \in Calls, chains[c] # <<>>, NEW STATE r, WellFormed(r), Continue(c, r)
    PROVE  TypedStep /\ life' = r.life /\ Alive' = Alive
<1> DEFINE rest == IF r.ok THEN Tail(chains[c]) ELSE <<>>
           todo == r.todo \o rest
<1>1. rest \in Seq(Step)
  BY EmptySeq, HeadTailProperties DEF TypeOK
<1>2. todo \in Seq(Step)
  <2> HIDE DEF rest
  <2> QED
    BY <1>1, ConcatProperties DEF WellFormed
<1>3. chains' = [chains EXCEPT ![c] = todo]
  BY DEF Continue
<1> HIDE DEF todo
<1>4. chains' \in [Calls -> Seq(Step)]
  BY <1>2, <1>3 DEF TypeOK
<1>5. SchedulerTypeOK'
  BY DEF Continue, TypeOK, SchedulerTypeOK, schedulerVars
<1>6. Alive' = Alive
  BY DEF Continue, schedulerVars, Alive, Listeners, HasDescriptor
<1> QED
  BY <1>4, <1>5, <1>6 DEF TypedStep, TypeOK, WellFormed, Shaped, Continue

-----------------------------------------------------------------------------
\* Requests

\* Nobody leaves in a step that keeps the slots.
LEMMA StaysGoes ==
    ASSUME life'.cut = life.cut, life'.scene = life.scene, Alive' = Alive
    PROVE  Moves
<1>1. Vacated(life', life, {}) /\ {} \in SUBSET Apps
  BY DEF Vacated
<1> QED
  BY <1>1 DEF Moves, Goes

\* A call whose outcome takes apps off the slots is a departure.
LEMMA CallGoes ==
    ASSUME TypeOK, NEW STATE r, WellFormed(r), Call(r),
           NEW S \in SUBSET Apps, Vacated(r.life, life, S),
           r.life.monopolist \in {Null, life.monopolist}
    PROVE  TypedStep /\ Moves /\ Lapses
BY CallTyped DEF Moves, Goes, Vacated, Lapses

\* A call that is over at once and keeps the slots.
LEMMA QuickStays ==
    ASSUME TypeOK, NEW STATE L, Shaped(L), Quick(L), L.cut = life.cut, L.scene = life.scene,
           L.monopolist \in {Null, life.monopolist} \/ StartMonologue(L.monopolist)
    PROVE  TypedStep /\ Moves /\ Lapses
<1>1. TypedStep /\ life' = L /\ Alive' = Alive
  BY QuickTyped
<1>2. life'.cut = life.cut /\ life'.scene = life.scene
  BY <1>1
<1> QED
  BY <1>1, <1>2, StaysGoes DEF Lapses

LEMMA ActivateAppByIdMoves ==
    ASSUME TypeOK, Shaped(life), NEW a \in Apps, NEW form \in Forms,
           NEW carrierId \in Carriers \cup {Null}, ActivateAppById(a, form, carrierId)
    PROVE  TypedStep /\ Moves /\ Lapses
<1> DEFINE r == Activate(life, appStatus, a, form, carrierId)
<1>1. carrierId \in AppOrNull
  BY LifetimeAssumption DEF AppOrNull
<1>2. /\ WellFormed(r)
      /\ Pushed(r.life, life, a)
      /\ r.life.monopolist = Monopolist(life, appStatus)
  BY <1>1, ActivateWellFormed
<1>3. ~BecomesScene(life, a, form) => r.life.scene = life.scene
  BY <1>1, ActivateCovers
<1>4. Call(r) /\ a \in Alive
  BY DEF ActivateAppById, CanActivate, IsAppRunning, Alive, Listeners, HasDescriptor
<1>5. /\ CanActivate(life, appStatus, a, form)
      /\ \E c \in Calls : FreeChain(c) \/ Head1(c, "reactivate")
  <2>1. CanActivate(life, appStatus, a, form)
    BY DEF ActivateAppById
  <2>2. \E c \in Calls : FreeChain(c)
    BY DEF ActivateAppById, Call, Issue
  <2> QED
    BY <2>1, <2>2
<1> HIDE DEF r
<1>6. TypedStep /\ life' = r.life /\ Alive' = Alive
  BY <1>2, <1>4, CallTyped
<1>7. Comes
  BY <1>2, <1>4, <1>6, <1>3, <1>5 DEF Comes, Pushed
<1> QED
  BY <1>2, <1>6, <1>7 DEF Moves, Lapses, Monopolist

LEMMA SetBackgroundByIdMoves ==
    ASSUME TypeOK, Shaped(life), NEW a \in Apps, SetBackgroundById(a)
    PROVE  TypedStep /\ Moves /\ Lapses
<1> DEFINE r == SetBackground(life, appStatus, {a}, TRUE)
<1>1. {a} \in SUBSET Apps
  OBVIOUS
<1>2. /\ WellFormed(r)
      /\ Vacated(r.life, life, {a})
      /\ r.life.monopolist = life.monopolist
  BY <1>1, SetBackgroundWellFormed
<1>3. Call(r)
  BY DEF SetBackgroundById
<1> HIDE DEF r
<1> QED
  BY <1>1, <1>2, <1>3, CallGoes

\* The calls that deactivate: exitAppById, deactivateCutApp, idle.
LEMMA DeactivateMoves ==
    ASSUME TypeOK, Shaped(life), NEW S \in SUBSET Apps, NEW recover \in BOOLEAN,
           Call(Deactivate(life, appStatus, S, recover))
    PROVE  TypedStep /\ Moves /\ Lapses
<1> DEFINE r == Deactivate(life, appStatus, S, recover)
<1>1. /\ WellFormed(r)
      /\ Vacated(r.life, life, S)
      /\ r.life.monopolist \in {Null, life.monopolist}
  BY DeactivateWellFormed
<1>2. Call(r)
  OBVIOUS
<1> HIDE DEF r
<1> QED
  BY <1>1, <1>2, CallGoes

LEMMA ReleaseMoves ==
    ASSUME TypeOK, Shaped(life), NEW m \in AppOrNull, Quick([life EXCEPT !.monopolist = m]),
           m = Null \/ StartMonologue(m)
    PROVE  TypedStep /\ Moves /\ Lapses
<1> DEFINE L == [life EXCEPT !.monopolist = m]
<1>1. Shaped(L) /\ L.cut = life.cut /\ L.scene = life.scene /\ L.monopolist = m
  BY DEF Shaped, LifeType
<1>2. Quick(L)
  OBVIOUS
<1> HIDE DEF L
<1> QED
  BY <1>1, <1>2, QuickStays

LEMMA ExitAppByIdMoves ==
    ASSUME TypeOK, Shaped(life), NEW a \in Apps, NEW b \in BOOLEAN, ExitAppById(a, b)
    PROVE  TypedStep /\ Moves /\ Lapses
<1>1. CASE Call(Deactivate(life, appStatus, {a}, TRUE))
  <2>1. {a} \in SUBSET Apps
    OBVIOUS
  <2> QED
    BY <1>1, <2>1, DeactivateMoves
<1>2. CASE Quick([life EXCEPT !.monopolist = Null])
  BY <1>2, ReleaseMoves DEF AppOrNull
<1> QED
  BY <1>1, <1>2 DEF ExitAppById

LEMMA DeactivateCutAppMoves ==
    ASSUME TypeOK, Shaped(life), DeactivateCutApp
    PROVE  TypedStep /\ Moves /\ Lapses
<1>1. {life.cut} \in SUBSET Apps
  BY DEF DeactivateCutApp, Shaped, LifeType, AppOrNull
<1> QED
  BY <1>1, DeactivateMoves DEF DeactivateCutApp

LEMMA DeactivateAppsInStackMoves ==
    ASSUME TypeOK, Shaped(life), DeactivateAppsInStack
    PROVE  TypedStep /\ Moves /\ Lapses
<1>1. Stack(life) \in SUBSET Apps
  BY DEF Stack, Shaped, LifeType, AppOrNull
<1> QED
  BY <1>1, DeactivateMoves DEF DeactivateAppsInStack

LEMMA DestroyAppByIdMoves ==
    ASSUME TypeOK, Shaped(life), NEW a \in Apps, DestroyAppById(a)
    PROVE  TypedStep /\ Moves /\ Lapses
<1> DEFINE r == Destroy(life, appStatus, {a}, TRUE)
<1>1. {a} \in SUBSET Apps
  OBVIOUS
<1>2. /\ WellFormed(r)
      /\ Vacated(r.life, life, {a})
      /\ r.life.monopolist = life.monopolist
  BY <1>1, DestroyWellFormed
<1>3. Call(r)
  BY DEF DestroyAppById
<1> HIDE DEF r
<1> QED
  BY <1>1, <1>2, <1>3, CallGoes

LEMMA DestroyAllMoves ==
    ASSUME TypeOK, Shaped(life), NEW force \in BOOLEAN, DestroyAll(force)
    PROVE  TypedStep /\ Moves /\ Lapses
<1> DEFINE running == {a \in Apps : IsAppRunning(appStatus, a)}
           gone == Forget(life, Apps)
           cleared == [gone EXCEPT !.background = {}]
           told == Tell(cleared, appStatus, running, "destroy")
           todo == <<Do("suspend", Apps, force)>>
           r == Outcome(told, todo, TRUE)
<1>1. Shaped(gone) /\ Vacated(gone, life, Apps) /\ gone.monopolist = life.monopolist
  BY ForgetShaped
<1> HIDE DEF gone
<1>2. /\ Shaped(cleared)
      /\ cleared.cut = gone.cut
      /\ cleared.scene = gone.scene
      /\ cleared.monopolist = life.monopolist
  BY <1>1 DEF Shaped, LifeType
<1> HIDE DEF cleared
<1>3. /\ Shaped(told)
      /\ told.cut = gone.cut
      /\ told.scene = gone.scene
      /\ told.monopolist = life.monopolist
  BY <1>2, TellShaped DEF Events
<1>4. todo \in Seq(Step)
  BY DoTyped DEF Ops
<1> HIDE DEF told, todo
<1>5. /\ WellFormed(r)
      /\ Vacated(r.life, life, Apps)
      /\ r.life.monopolist = life.monopolist
  BY <1>1, <1>3, <1>4 DEF Outcome, WellFormed, Vacated
<1>6. Call(r)
  BY DEF DestroyAll, r, told, cleared, gone, todo
<1> HIDE DEF r
<1> QED
  BY <1>5, <1>6, CallGoes

LEMMA PauseLifetimeMoves ==
    ASSUME TypeOK, Shaped(life), PauseLifetime
    PROVE  TypedStep /\ Moves /\ Lapses
<1> DEFINE L == [life EXCEPT !.onPause = Current(life)]
<1>1. /\ Shaped(L)
      /\ L.cut = life.cut
      /\ L.scene = life.scene
      /\ L.monopolist = life.monopolist
  BY DEF Current, Shaped, LifeType
<1>2. Quick(L)
  BY DEF PauseLifetime
<1> HIDE DEF L
<1> QED
  BY <1>1, <1>2, QuickStays

LEMMA ResumeLifetimeMoves ==
    ASSUME TypeOK, Shaped(life), NEW recover, ResumeLifetime(recover)
    PROVE  TypedStep /\ Moves /\ Lapses
<1> DEFINE awake == [life EXCEPT !.onPause = Null]
           top == {Current(life)} \ {Null, life.onPause}
           L == IF recover THEN Tell(awake, appStatus, top, "resume") ELSE awake
<1>1. /\ Shaped(awake)
      /\ awake.cut = life.cut
      /\ awake.scene = life.scene
      /\ awake.monopolist = life.monopolist
  BY DEF Shaped, LifeType, AppOrNull
<1> HIDE DEF awake, top
<1>2. /\ Shaped(L)
      /\ L.cut = life.cut
      /\ L.scene = life.scene
      /\ L.monopolist = life.monopolist
  BY <1>1, TellShaped DEF Events
<1>3. Quick(L)
  BY DEF ResumeLifetime, awake, top
<1> HIDE DEF L
<1> QED
  BY <1>2, <1>3, QuickStays

LEMMA SetKeepAliveMoves ==
    ASSUME TypeOK, Shaped(life), NEW a \in Apps, NEW keepAlive, SetKeepAlive(a, keepAlive)
    PROVE  TypedStep /\ Moves /\ Lapses
<1> DEFINE k == IF keepAlive THEN life.kept \cup {a} ELSE life.kept \ {a}
           L == [life EXCEPT !.kept = k]
<1>1. k \in SUBSET Apps
  BY DEF Shaped, LifeType
<1>2. Quick(L)
  BY DEF SetKeepAlive, Shaped, LifeType
<1> HIDE DEF k
<1>3. /\ Shaped(L)
      /\ L.cut = life.cut
      /\ L.scene = life.scene
      /\ L.monopolist = life.monopolist
  BY <1>1 DEF Shaped, LifeType
<1> HIDE DEF L
<1> QED
  BY <1>2, <1>3, QuickStays

LEMMA RequestMoves ==
    ASSUME TypeOK, Shaped(life), Request
    PROVE  TypedStep /\ Moves /\ Lapses
<1>1. ASSUME NEW a \in Apps, NEW form \in Forms, NEW carrierId \in Carriers \cup {Null},
             ActivateAppById(a, form, carrierId)
      PROVE  TypedStep /\ Moves /\ Lapses
  BY <1>1, ActivateAppByIdMoves
<1>2. ASSUME NEW a \in Apps, SetBackgroundById(a) \/ DestroyAppById(a)
      PROVE  TypedStep /\ Moves /\ Lapses
  BY <1>2, SetBackgroundByIdMoves, DestroyAppByIdMoves
<1>3. ASSUME NEW a \in Apps, StartMonologue(a) \/ StopMonologue(a)
      PROVE  TypedStep /\ Moves /\ Lapses
  BY <1>3, ReleaseMoves DEF StartMonologue, StopMonologue, AppOrNull
<1>4. ASSUME NEW a \in Apps, NEW b \in BOOLEAN, ExitAppById(a, b) \/ SetKeepAlive(a, b)
      PROVE  TypedStep /\ Moves /\ Lapses
  BY <1>4, ExitAppByIdMoves, SetKeepAliveMoves
<1>5. ASSUME DeactivateCutApp \/ DeactivateAppsInStack \/ PauseLifetime
      PROVE  TypedStep /\ Moves /\ Lapses
  BY <1>5, DeactivateCutAppMoves, DeactivateAppsInStackMoves, PauseLifetimeMoves
<1>6. ASSUME CheckMonopoly
      PROVE  TypedStep /\ Moves /\ Lapses
  BY <1>6, ReleaseMoves DEF CheckMonopoly, AppOrNull
<1>7. ASSUME NEW b \in BOOLEAN, DestroyAll(b)
      PROVE  TypedStep /\ Moves /\ Lapses
  BY <1>7, DestroyAllMoves
<1>8. ASSUME NEW b \in RecoverOptions, ResumeLifetime(b)
      PROVE  TypedStep /\ Moves /\ Lapses
  BY <1>8, ResumeLifetimeMoves
<1> QED
  BY <1>1, <1>2, <1>3, <1>4, <1>5, <1>6, <1>7, <1>8 DEF Request

-----------------------------------------------------------------------------
\* Continuations

\* The head of a chain is a step.
LEMMA HeadTyped ==
    ASSUME TypeOK, NEW c \in Calls, chains[c] # <<>>
    PROVE  /\ Arg(c) \in SUBSET Apps
           /\ Head(chains[c]).force \in BOOLEAN
           /\ Tail(chains[c]) \in Seq(Step)
<1>1. chains[c] \in Seq(Step)
  BY DEF TypeOK
<1>2. Head(chains[c]) \in Step /\ Tail(chains[c]) \in Seq(Step)
  BY <1>1, HeadTailProperties
<1> QED
  BY <1>2 DEF Step, Arg

LEMMA ContinueGoes ==
    ASSUME TypeOK, NEW c \in Calls, chains[c] # <<>>,
           NEW STATE r, WellFormed(r), Continue(c, r),
           NEW S \in SUBSET Apps, Vacated(r.life, life, S),
           r.life.monopolist \in {Null, life.monopolist}
    PROVE  TypedStep /\ Moves /\ Lapses
BY ContinueTyped DEF Moves, Goes, Vacated, Lapses

\* Suspending keeps every descriptor until its process exits.
LEMMA RunSuspendMoves ==
    ASSUME TypeOK, Shaped(life), NEW c \in Calls, RunSuspend(c)
    PROVE  TypedStep /\ Moves /\ Lapses
<1>1. /\ appStatus' = Suspended(appStatus, Arg(c), Head(chains[c]).force)
      /\ restarts' = restarts
      /\ chains' = [chains EXCEPT ![c] = Tail(@)]
      /\ life' = life
  BY DEF RunSuspend, SuspendApps
<1>2. appStatus' \in [Apps -> Status] /\ restarts' \subseteq DaemonApps
  BY <1>1 DEF Suspended, TypeOK, SchedulerTypeOK, Status
<1>3. chains' \in [Calls -> Seq(Step)]
  BY <1>1, HeadTyped DEF RunSuspend, Head1, TypeOK
<1>4. \A a \in Apps : HasDescriptor(appStatus', a) <=> HasDescriptor(appStatus, a)
  BY <1>1 DEF Suspended, HasDescriptor
<1>5. Alive' = Alive
  BY <1>4 DEF Alive, Listeners, HasDescriptor
<1> QED
  BY <1>1, <1>2, <1>3, <1>5, StaysGoes
     DEF TypedStep, TypeOK, SchedulerTypeOK, Shaped, Lapses

LEMMA RunDestroyMoves ==
    ASSUME TypeOK, Shaped(life), NEW c \in Calls, RunDestroy(c)
    PROVE  TypedStep /\ Moves /\ Lapses
<1> DEFINE S == Arg(c)
           r == Destroy(life, appStatus, S, FALSE)
<1>1. chains[c] # <<>> /\ Continue(c, r)
  BY DEF RunDestroy, Head1
<1>2. S \in SUBSET Apps
  BY <1>1, HeadTyped
<1> HIDE DEF S
<1>3. /\ WellFormed(r)
      /\ Vacated(r.life, life, S)
      /\ r.life.monopolist = life.monopolist
  BY <1>2, DestroyWellFormed
<1> QED
  BY <1>1, <1>2, <1>3, ContinueGoes

LEMMA RunDeactivateMoves ==
    ASSUME TypeOK, Shaped(life), NEW c \in Calls, RunDeactivate(c)
    PROVE  TypedStep /\ Moves /\ Lapses
<1> DEFINE S == Arg(c)
           r == Deactivate(life, appStatus, S, FALSE)
<1>1. chains[c] # <<>> /\ Continue(c, r)
  BY DEF RunDeactivate, Head1
<1>2. S \in SUBSET Apps
  BY <1>1, HeadTyped
<1> HIDE DEF S
<1>3. /\ WellFormed(r)
      /\ Vacated(r.life, life, S)
      /\ r.life.monopolist \in {Null, life.monopolist}
  BY <1>2, DeactivateWellFormed
<1> QED
  BY <1>1, <1>2, <1>3, ContinueGoes

\* RunActive, RunPause and RunResumeTop only tell apps something.
LEMMA RunTellMoves ==
    ASSUME TypeOK, Shaped(life), NEW c \in Calls, chains[c] # <<>>,
           NEW S, NEW event \in Events,
           Continue(c, Outcome(Tell(life, appStatus, S, event), <<>>, TRUE))
    PROVE  TypedStep /\ Moves /\ Lapses
<1> DEFINE L == Tell(life, appStatus, S, event)
           r == Outcome(L, <<>>, TRUE)
<1>1. /\ Shaped(L)
      /\ L.cut = life.cut
      /\ L.scene = life.scene
      /\ L.monopolist = life.monopolist
  BY TellShaped
<1> HIDE DEF L
<1>2. <<>> \in Seq(Step)
  BY EmptySeq
<1>3. /\ WellFormed(r)
      /\ Vacated(r.life, life, {})
      /\ r.life.monopolist = life.monopolist
  BY <1>1, <1>2 DEF WellFormed, Outcome, Vacated
<1>4. Continue(c, r)
  BY DEF L
<1> HIDE DEF r
<1>5. {} \in SUBSET Apps
  OBVIOUS
<1> QED
  BY <1>3, <1>4, <1>5, ContinueGoes

LEMMA RunReactivateMoves ==
    ASSUME TypeOK, Shaped(life), NEW c \in Calls, RunReactivate(c)
    PROVE  TypedStep /\ Moves /\ Lapses
<1>1. chains[c] # <<>>
  BY DEF RunReactivate, Head1
<1>2. PICK a \in Arg(c) :
          Continue(c, IF CanActivate(life, appStatus, a, "cut")
                      THEN Activate(life, appStatus, a, "cut", Null)
                      ELSE Outcome(life, <<>>, FALSE))
  BY DEF RunReactivate
<1>3. a \in Apps
  BY <1>1, HeadTyped
<1>4. CASE CanActivate(life, appStatus, a, "cut")
  <2> DEFINE form == "cut"
             r == Activate(life, appStatus, a, form, Null)
  <2>1. Continue(c, r) /\ a \in Alive
    BY <1>2, <1>3, <1>4 DEF CanActivate, IsAppRunning, Alive, Listeners, HasDescriptor
  <2>2. form \in Forms /\ Null \in AppOrNull /\ CanActivate(life, appStatus, a, form)
    BY <1>4 DEF Forms, AppOrNull
  <2> HIDE DEF form
  <2>3. /\ WellFormed(r)
        /\ Pushed(r.life, life, a)
        /\ r.life.monopolist = Monopolist(life, appStatus)
    BY <1>3, <2>2, ActivateWellFormed
  <2>4. ~BecomesScene(life, a, form) => r.life.scene = life.scene
    BY <1>3, <2>2, ActivateCovers
  <2> HIDE DEF r
  <2>5. TypedStep /\ life' = r.life /\ Alive' = Alive
    BY <1>1, <2>1, <2>3, ContinueTyped
  <2>6. Comes
    <3>1. Head1(c, "reactivate")
      BY DEF RunReactivate
    <3> QED
      BY <1>3, <2>1, <2>2, <2>3, <2>4, <2>5, <3>1 DEF Comes, Pushed
  <2> QED
    BY <2>3, <2>5, <2>6 DEF Moves, Lapses, Monopolist
<1>5. CASE ~CanActivate(life, appStatus, a, "cut")
  <2> DEFINE r == Outcome(life, <<>>, FALSE)
  <2>1. <<>> \in Seq(Step)
    BY EmptySeq
  <2>2. /\ WellFormed(r)
        /\ Vacated(r.life, life, {})
        /\ r.life.monopolist = life.monopolist
    BY <2>1 DEF WellFormed, Outcome, Vacated
  <2>3. Continue(c, r)
    BY <1>2, <1>5
  <2> HIDE DEF r
  <2>4. {} \in SUBSET Apps
    OBVIOUS
  <2> QED
    BY <1>1, <2>2, <2>3, <2>4, ContinueGoes
<1> QED
  BY <1>4, <1>5

LEMMA RunMoves ==
    ASSUME TypeOK, Shaped(life), NEW c \in Calls, Run(c)
    PROVE  TypedStep /\ Moves /\ Lapses
<1>1. CASE RunActive(c)
  BY <1>1, RunTellMoves DEF RunActive, Head1, Events
<1>2. CASE RunPause(c)
  BY <1>2, RunTellMoves DEF RunPause, Head1, Events
<1>3. CASE RunResumeTop(c)
  BY <1>3, RunTellMoves DEF RunResumeTop, Head1, Events
<1> QED
  BY <1>1, <1>2, <1>3, RunSuspendMoves, RunDestroyMoves, RunDeactivateMoves,
     RunReactivateMoves DEF Run

-----------------------------------------------------------------------------
\* Processes

\* A step that leaves the lifetime alone and adds at most one process.
LEMMA StartMoves ==
    ASSUME TypeOK, Shaped(life), NEW a \in Apps, Create(a) \/ Restart(a)
    PROVE  TypedStep /\ Moves /\ Lapses
<1>1. life' = life /\ chains' = chains
  BY DEF Create, Restart
<1>2. appStatus' \in [Apps -> Status] /\ restarts' \subseteq DaemonApps
  BY DEF Create, Restart, CreateApp, RestartTimer, TypeOK, SchedulerTypeOK, Status
<1>3. Alive' = Alive \/ Alive' = Alive \cup {a}
  BY DEF Create, Restart, CreateApp, RestartTimer, TypeOK, SchedulerTypeOK, Status,
         Alive, Listeners, HasDescriptor
<1>4. TypedStep
  BY <1>1, <1>2 DEF TypedStep, TypeOK, SchedulerTypeOK, Shaped
<1>5. Moves
  <2>1. CASE Alive' = Alive
    BY <1>1, <2>1, StaysGoes
  <2>2. CASE Alive' = Alive \cup {a}
    BY <1>1, <2>2 DEF Moves, Born, Vacated
  <2> QED
    BY <1>3, <2>1, <2>2
<1> QED
  BY <1>1, <1>4, <1>5 DEF Lapses

LEMMA CreatedMoves ==
    ASSUME TypeOK, Shaped(life), NEW a \in Apps, Created(a)
    PROVE  TypedStep /\ Moves /\ Lapses
<1> DEFINE t == [life.told EXCEPT ![a] = "create"]
<1>1. t \in [Apps -> Events]
  BY DEF Shaped, LifeType, Events
<1>2. life' = [life EXCEPT !.told = t]
  BY DEF Created, Shaped, LifeType
<1> HIDE DEF t
<1>3. /\ Shaped(life')
      /\ life'.cut = life.cut
      /\ life'.scene = life.scene
      /\ life'.monopolist = life.monopolist
  BY <1>1, <1>2 DEF Shaped, LifeType
<1>4. chains' = chains /\ SchedulerTypeOK'
  BY DEF Created, HandleAppCreate, TypeOK, SchedulerTypeOK, Status
<1>5. Alive' = Alive \cup {a}
  BY DEF Created, HandleAppCreate, TypeOK, SchedulerTypeOK, Alive, Listeners, HasDescriptor
<1> QED
  BY <1>3, <1>4, <1>5 DEF TypedStep, TypeOK, Shaped, Moves, Born, Vacated, Lapses

\* What appGC makes of the fields, once the process is off the table.
Collected(L, st, a) ==
    IF a \in Stack(L) THEN Deactivate(L, st, {a}, TRUE)
    ELSE IF a \in L.background THEN Destroy(L, st, {a}, FALSE)
    ELSE Outcome(L, <<>>, TRUE)

LEMMA CollectedWellFormed ==
    ASSUME NEW L, Shaped(L), NEW st, NEW a \in Apps
    PROVE  /\ WellFormed(Collected(L, st, a))
           /\ Vacated(Collected(L, st, a).life, L, {a})
           /\ Collected(L, st, a).life.monopolist \in {Null, L.monopolist}
<1>1. CASE a \in Stack(L)
  <2> DEFINE d == Deactivate(L, st, {a}, TRUE)
  <2>1. Collected(L, st, a) = d
    BY <1>1 DEF Collected
  <2>2. {a} \in SUBSET Apps
    OBVIOUS
  <2>3. WellFormed(d)
    BY <2>2, DeactivateWellFormed
  <2>4. Vacated(d.life, L, {a})
    BY <2>2, DeactivateWellFormed
  <2>5. d.life.monopolist = (IF L.monopolist \in {a} THEN Null ELSE L.monopolist)
    BY <2>2, DeactivateWellFormed
  <2> HIDE DEF d
  <2> QED
    BY <2>1, <2>3, <2>4, <2>5
<1>2. CASE a \notin Stack(L) /\ a \in L.background
  <2> DEFINE d == Destroy(L, st, {a}, FALSE)
  <2>1. Collected(L, st, a) = d
    BY <1>2 DEF Collected
  <2>2. {a} \in SUBSET Apps
    OBVIOUS
  <2>3. WellFormed(d)
    BY <2>2, DestroyWellFormed
  <2>4. Vacated(d.life, L, {a})
    BY <2>2, DestroyWellFormed
  <2>5. d.life.monopolist = L.monopolist
    BY <2>2, DestroyWellFormed
  <2> HIDE DEF d
  <2> QED
    BY <2>1, <2>3, <2>4, <2>5
<1>3. CASE a \notin Stack(L) /\ a \notin L.background
  <2> DEFINE r == Outcome(L, <<>>, TRUE)
  <2>1. Collected(L, st, a) = r
    BY <1>3 DEF Collected
  <2>2. <<>> \in Seq(Step)
    BY EmptySeq
  <2>3. WellFormed(r) /\ r.life = L
    BY <2>2 DEF WellFormed, Outcome
  <2>4. Vacated(L, L, {a})
    BY <1>3, LifetimeAssumption DEF Vacated, Stack
  <2> HIDE DEF r
  <2> QED
    BY <2>1, <2>3, <2>4
<1> QED
  BY <1>1, <1>2, <1>3

\* appGC takes the app that exited off the stack with its descriptor.
LEMMA AppGCMoves ==
    ASSUME TypeOK, Shaped(life), NEW a \in Apps, NEW coded,
           HandleAppExit(a, coded), AppGC(a)
    PROVE  TypedStep /\ Moves /\ Lapses
<1> DEFINE dead == [appStatus EXCEPT ![a] = "exited"]
           t == [life.told EXCEPT ![a] = "none"]
           L == [life EXCEPT !.told = t]
           r == Collected(L, dead, a)
<1>1. t \in [Apps -> Events]
  BY DEF Shaped, LifeType, Events
<1>2. Issue(r)
  BY DEF AppGC, Collected, Shaped, LifeType
<1> HIDE DEF t, dead
<1>3. /\ Shaped(L)
      /\ L.cut = life.cut
      /\ L.scene = life.scene
      /\ L.monopolist = life.monopolist
  BY <1>1 DEF Shaped, LifeType
<1> HIDE DEF L
<1>4. /\ WellFormed(r)
      /\ Vacated(r.life, L, {a})
      /\ r.life.monopolist \in {Null, L.monopolist}
  BY <1>3, CollectedWellFormed
<1> HIDE DEF r
<1>5. SchedulerTypeOK'
  BY DEF HandleAppExit, TypeOK, SchedulerTypeOK, Status
<1>6. Alive' = Alive \ {a}
  BY DEF HandleAppExit, TypeOK, SchedulerTypeOK, Alive, Listeners, HasDescriptor
<1>7. TypedStep /\ life' = r.life
  BY <1>2, <1>4, <1>5, IssueTyped
<1> QED
  BY <1>3, <1>4, <1>6, <1>7 DEF Moves, Dies, Vacated, Lapses

LEMMA ProcessMoves ==
    ASSUME TypeOK, Shaped(life), Process
    PROVE  TypedStep /\ Moves /\ Lapses
<1>1. ASSUME NEW a \in Apps, FailToStart(a)
      PROVE  TypedStep /\ Moves /\ Lapses
  BY <1>1, AppGCMoves DEF FailToStart, StartFails
<1>2. ASSUME NEW a \in Apps, NEW coded \in BOOLEAN, Exit(a, coded) \/ EndOfLife(a, coded)
      PROVE  TypedStep /\ Moves /\ Lapses
  BY <1>2, AppGCMoves DEF Exit, EndOfLife, ProcessExits, DestructedExits
<1> QED
  BY <1>1, <1>2, StartMoves, CreatedMoves DEF Process

-----------------------------------------------------------------------------
\* The inductive invariant

\* StackHasProcesses alone is not inductive: which app an operation takes off
\* the stack, or puts there, depends on the type and the shape of the fields.
IInv == TypeOK /\ Shaped(life) /\ StackHasProcesses

LEMMA InitInvariant == Init => IInv
<1> SUFFICES ASSUME Init PROVE IInv
  OBVIOUS
<1> DEFINE none == [a \in Apps |-> "none"]
<1>1. none \in [Apps -> Forms \cup {"none"}] /\ none \in [Apps -> Events]
  BY DEF Events
<1>2. life = [cut |-> Null, scene |-> Null, form |-> none, kept |-> {}, background |-> {},
              carrierId |-> Null, lastSubordinate |-> Null, monopolist |-> Null,
              onPause |-> Null, told |-> none]
  BY DEF Init
<1> HIDE DEF none
<1>3. life \in LifeType
  BY <1>1, <1>2 DEF LifeType, AppOrNull
<1>4. Shaped(life)
  BY <1>2, <1>3 DEF Shaped
<1>5. chains \in [Calls -> Seq(Step)]
  BY EmptySeq DEF Init
<1>6. SchedulerTypeOK
  BY DEF Init, SchedulerInit, SchedulerTypeOK, Status
<1>7. StackHasProcesses
  BY <1>2 DEF StackHasProcesses, Stack
<1> QED
  BY <1>3, <1>4, <1>5, <1>6, <1>7 DEF IInv, TypeOK

LEMMA NextMoves == TypeOK /\ Shaped(life) /\ Next => TypedStep /\ Moves /\ Lapses
BY RequestMoves, ProcessMoves, RunMoves DEF Next

LEMMA StutterMoves ==
    ASSUME TypeOK, Shaped(life), UNCHANGED vars
    PROVE  TypedStep /\ Moves /\ Lapses
<1>1. life' = life /\ chains' = chains /\ appStatus' = appStatus /\ restarts' = restarts
  BY DEF vars
<1>2. TypedStep
  BY <1>1 DEF TypedStep, TypeOK, SchedulerTypeOK, Shaped
<1>3. Alive' = Alive
  BY <1>1 DEF Alive, Listeners, HasDescriptor
<1> QED
  BY <1>1, <1>2, <1>3, StaysGoes DEF Lapses

LEMMA StepMoves == TypeOK /\ Shaped(life) /\ [Next]_vars => TypedStep /\ Moves /\ Lapses
BY NextMoves, StutterMoves

\* Whatever a step does to the stack, nobody is left there without a process.
LEMMA MovesKeepProcesses == Shaped(life) /\ StackHasProcesses /\ Moves => StackHasProcesses'
<1> SUFFICES ASSUME Shaped(life), Stack(life) \subseteq Alive, Moves
             PROVE  Stack(life') \subseteq Alive'
  BY DEF StackHasProcesses, Alive
<1>1. CASE Comes
  <2>1. PICK a \in Apps : Pushed(life', life, a) /\ a \in Alive /\ Alive' = Alive
    BY <1>1 DEF Comes
  <2>2. Stack(life') \subseteq Stack(life) \cup {a}
    BY <2>1 DEF Pushed, Stack
  <2> QED
    BY <2>1, <2>2
<1>2. CASE Goes
  <2>1. PICK S \in SUBSET Apps : Vacated(life', life, S) /\ Alive' = Alive
    BY <1>2 DEF Goes
  <2>2. Stack(life') \subseteq Stack(life)
    BY <2>1 DEF Vacated, Stack
  <2> QED
    BY <2>1, <2>2
<1>3. CASE Born
  <2>1. PICK a \in Apps : Vacated(life', life, {}) /\ Alive' = Alive \cup {a}
    BY <1>3 DEF Born
  <2>2. Stack(life') \subseteq Stack(life)
    BY <2>1 DEF Vacated, Stack
  <2> QED
    BY <2>1, <2>2
<1>4. CASE Dies
  <2>1. PICK a \in Apps : Vacated(life', life, {a}) /\ Alive' = Alive \ {a}
    BY <1>4 DEF Dies
  <2>2. Stack(life') \subseteq Stack(life) \ {a}
    BY <2>1, LifetimeAssumption DEF Vacated, Stack
  <2> QED
    BY <2>1, <2>2
<1> QED
  BY <1>1, <1>2, <1>3, <1>4 DEF Moves

LEMMA NextInvariant == IInv /\ [Next]_vars => IInv'
BY StepMoves, MovesKeepProcesses DEF IInv, TypedStep

LEMMA Invariant == Spec => []IInv
BY InitInvariant, NextInvariant, PTL DEF Spec

-----------------------------------------------------------------------------
\* Theorems

\* Every field of the lifetime, the process table and every chain of
\* continuations keeps its type, however many calls overlap.
THEOREM TypeCorrect == Spec => []TypeOK
<1>1. IInv => TypeOK
  BY DEF IInv
<1> QED
  BY <1>1, Invariant, PTL

\* The form recorded in contextOptionsMap is the slot the app is in, whatever
\* calls overlap: activateAppById can trust the form of the last app.
THEOREM SlotsAgree == Spec => []SlotsAgreeWithForms
<1>1. IInv => SlotsAgreeWithForms
  BY DEF IInv, Shaped, SlotsAgreeWithForms
<1> QED
  BY <1>1, Invariant, PTL

\* No app is in the stack and registered in the background at once, although
\* setBackgroundById and activateAppById update the two registers apart.
THEOREM NotBackground == Spec => []StackNotBackground
<1>1. IInv => StackNotBackground
  BY DEF IInv, Shaped, StackNotBackground, Stack
<1> QED
  BY <1>1, Invariant, PTL

\* Nobody stays in the stack after its process is gone: appGC takes the app off
\* in the turn of the exit, and nothing but a running app is ever pushed.
THEOREM HasProcesses == Spec => []StackHasProcesses
<1>1. IInv => StackHasProcesses
  BY DEF IInv
<1> QED
  BY <1>1, Invariant, PTL

-----------------------------------------------------------------------------
\* Refinement

LEMMA InitImplements == Init => Promise!Init
<1> SUFFICES ASSUME Init PROVE Promise!Init
  OBVIOUS
<1>1. life.cut = Null /\ life.scene = Null
  BY DEF Init
<1>2. Listeners(appStatus, Apps) = {}
  BY DEF Init, SchedulerInit, Listeners, HasDescriptor
<1> QED
  BY <1>1, <1>2 DEF Promise!Init

\* Each of the four moves is a step of AppStack.
LEMMA MovesImplement ==
    Shaped(life) /\ Moves => [Promise!Next]_(Promise!stackVars)
<1> SUFFICES ASSUME Shaped(life), Moves PROVE Promise!Next
  OBVIOUS
<1>1. CASE Comes
  <2>1. PICK a \in Apps : Pushed(life', life, a) /\ a \in Alive /\ Alive' = Alive
    BY <1>1 DEF Comes
  <2>2. Promise!PreemptByCut(a) \/ Promise!PreemptByScene(a)
    BY <2>1 DEF Pushed, Promise!PreemptByCut, Promise!PreemptByScene, Alive
  <2> QED
    BY <2>2 DEF Promise!Next
<1>2. CASE Goes
  <2>1. PICK S \in SUBSET Apps : Vacated(life', life, S) /\ Alive' = Alive
    BY <1>2 DEF Goes
  <2>2. Promise!Leave(S)
    BY <2>1 DEF Vacated, Promise!Leave, Promise!Without, Alive
  <2> QED
    BY <2>2 DEF Promise!Next
<1>3. CASE Born
  <2>1. PICK a \in Apps : Vacated(life', life, {}) /\ Alive' = Alive \cup {a}
    BY <1>3 DEF Born
  <2>2. Promise!Start(a)
    BY <2>1 DEF Vacated, Promise!Start, Alive
  <2> QED
    BY <2>2 DEF Promise!Next
<1>4. CASE Dies
  <2>1. PICK a \in Apps : Vacated(life', life, {a}) /\ Alive' = Alive \ {a}
    BY <1>4 DEF Dies
  <2>2. Promise!Die(a)
    BY <2>1 DEF Vacated, Promise!Die, Promise!Without, Alive
  <2> QED
    BY <2>2 DEF Promise!Next
<1> QED
  BY <1>1, <1>2, <1>3, <1>4 DEF Moves

\* The stack of the code is the two-slot stack of AppStack: an app comes in as
\* AppStack says, others leave only by a call or by their own exit.
THEOREM Refinement == Spec => ImplementsAppStack
<1>1. IInv /\ [Next]_vars => [Promise!Next]_(Promise!stackVars)
  BY StepMoves, MovesImplement DEF IInv
<1> QED
  BY <1>1, InitImplements, Invariant, PTL DEF Spec, ImplementsAppStack, Promise!Spec

-----------------------------------------------------------------------------
\* Monopoly

\* An app that is not running but has a descriptor is being destructed, and a
\* destructed process never runs again before it has exited.
LEMMA NoRevival ==
    ASSUME TypeOK, [Next]_vars, NEW a \in Alive, appStatus'[a] = "running"
    PROVE  appStatus[a] = "running"
<1>1. CASE UNCHANGED vars
  BY <1>1 DEF vars
<1>2. CASE Request
  <2>1. appStatus' = appStatus
    BY <1>2 DEF Request, ActivateAppById, SetBackgroundById, DestroyAppById, ExitAppById,
                DeactivateCutApp, DeactivateAppsInStack, DestroyAll, PauseLifetime,
                ResumeLifetime, StartMonologue, StopMonologue, CheckMonopoly, SetKeepAlive,
                Call, Quick, schedulerVars
  <2> QED
    BY <2>1
<1>3. CASE Process
  BY <1>3 DEF Process, Create, Created, FailToStart, Exit, EndOfLife, Restart, CreateApp,
              HandleAppCreate, StartFails, ProcessExits, DestructedExits, HandleAppExit,
              RestartTimer, TypeOK, SchedulerTypeOK, Alive, Listeners, HasDescriptor
<1>4. ASSUME NEW c \in Calls, Run(c)
      PROVE  appStatus[a] = "running"
  <2>1. CASE RunSuspend(c)
    BY <2>1 DEF RunSuspend, SuspendApps, Suspended, Alive, Listeners
  <2>2. CASE ~RunSuspend(c)
    <3>1. appStatus' = appStatus
      BY <1>4, <2>2 DEF Run, RunDestroy, RunDeactivate, RunActive, RunPause, RunResumeTop,
                        RunReactivate, Continue, schedulerVars
    <3> QED
      BY <3>1
  <2> QED
    BY <2>1, <2>2
<1> QED
  BY <1>1, <1>2, <1>3, <1>4 DEF Next

\* The record of a lapsed monopoly is dropped only when somebody looks at it,
\* yet it never comes to life again: the app that returns to the stack has been
\* looked at by guardMonopolization, and one that stayed there does not come
\* back from its destruction.
THEOREM MonopolyLapses == Spec => MonopolyRevoked
<1> DEFINE revoked ==
             IsMonopolized(life', appStatus') /\ ~IsMonopolized(life, appStatus)
             => StartMonologue(life'.monopolist)
<1>1. IInv /\ [Next]_vars => revoked
  <2> SUFFICES ASSUME IInv, [Next]_vars,
                      IsMonopolized(life', appStatus'), ~IsMonopolized(life, appStatus)
               PROVE  StartMonologue(life'.monopolist)
    OBVIOUS
  <2> DEFINE m == life'.monopolist
  <2>1. /\ m # Null
        /\ m \in Stack(life')
        /\ appStatus'[m] = "running"
    BY DEF IsMonopolized, IsAppRunning
  <2>2. TypedStep /\ Moves /\ Lapses
    BY StepMoves DEF IInv
  <2>3. CASE StartMonologue(m)
    BY <2>3
  <2>4. CASE life'.monopolist \in {Null, life.monopolist}
    <3>1. m = life.monopolist
      BY <2>1, <2>4
    <3>2. m \notin Stack(life)
      <4> SUFFICES ASSUME m \in Stack(life) PROVE FALSE
        OBVIOUS
      <4>1. m \in Alive
        BY DEF IInv, StackHasProcesses, Alive
      <4> HIDE DEF m
      <4>2. appStatus[m] = "running"
        BY <2>1, <4>1, NoRevival DEF IInv
      <4> QED
        BY <2>1, <3>1, <4>2 DEF IsMonopolized, IsAppRunning
    <3>3. CASE Comes
      <4>1. life'.monopolist = Null
        BY <3>3 DEF Comes, Monopolist
      <4> QED
        BY <2>1, <4>1
    <3>4. CASE Goes \/ Born \/ Dies
      <4>1. Stack(life') \subseteq Stack(life)
        BY <3>4 DEF Goes, Born, Dies, Vacated, Stack
      <4> QED
        BY <2>1, <3>2, <4>1
    <3> QED
      BY <2>2, <3>3, <3>4 DEF Moves
  <2> QED
    BY <2>2, <2>3, <2>4 DEF Lapses
<1>2. revoked => [revoked]_vars
  OBVIOUS
<1> QED
  BY <1>1, Invariant, PTL DEF Spec, MonopolyRevoked

-----------------------------------------------------------------------------
\* What ForegroundTold is checked with: nobody is brought up or kept alive,
\* reloaded or resumed by the voice session.
Plain == KeepAliveApps = {} /\ Carriers = {} /\ ReloadedApps = {} /\ RecoverOptions = {}

\* Who was told last to be in front.
Front(L) == {a \in Apps : L.told[a] \in {"active", "resume"}}

\* The stack, the forms and the front agree, but for the apps of D, which are
\* to be deactivated, and those of P, which are to be paused.
Settled(L, st, D, P) ==
    /\ \A a \in Stack(L) \ D : IsAppRunning(st, a)
    /\ \A a \in Apps : L.form[a] # "none" => a \in Stack(L) \cup D
    /\ Front(L) \subseteq {Current(L)} \cup D \cup P
    /\ \A a \in Front(L) : HasDescriptor(st, a)
    /\ \A a \in (D \cup P) \cap Front(L) : IsAppRunning(st, a) /\ a \notin L.background
    /\ L.cut # Null /\ L.scene # Null => L.told[L.scene] = "pause" \/ L.scene \in D \cup P

\* The top of the stack knows it.
Heard(L) == L.onPause = Null /\ Current(L) # Null => Current(L) \in Front(L)

Heeded(L) == Plain => Heard(L)
Spared(L) == Plain => L.kept = {} /\ L.carrierId = Null

ToActivate(a) == Do("active", {a}, FALSE)

\* What a call may have left to do, once no process is to be ended.
Rest(t, L, st) ==
    \/ t = <<>> /\ Settled(L, st, {}, {}) /\ Heeded(L)
    \/ t = <<Do("resumeTop", {}, FALSE)>> /\ Settled(L, st, {}, {})
    \/ /\ ~Plain /\ Settled(L, st, {}, {})
       /\ \E b \in Apps : t = <<Do("reactivate", {b}, FALSE)>>
    \/ \E a \in Apps :
          /\ a = Current(L)
          /\ \/ t = <<ToActivate(a)>> /\ Settled(L, st, {}, {})
             \/ \E D \in SUBSET Apps :
                   /\ t = <<Do("deactivate", D, FALSE), ToActivate(a)>>
                   /\ D \cap Stack(L) = {} /\ Settled(L, st, D, {})
             \/ \E p \in Apps \ {a} :
                   /\ t = <<Do("pause", {p}, FALSE), ToActivate(a)>>
                   /\ Settled(L, st, {}, {p})

\* A call ends processes before the rest: those of apps that have left the stack
\* and know it, or of the carrier that is preempted.
Awaits(q, L, st) ==
    /\ Spared(L)
    /\ \E t \in Seq(Step) :
          /\ Rest(t, L, st)
          /\ \/ q = t
             \/ \E S \in SUBSET Apps, force \in BOOLEAN :
                   /\ q = <<Do("suspend", S, force)>> \o t
                   /\ S \cap (Stack(L) \cup Front(L)) = {}
             \/ \E b \in Apps \ {Current(L)} : q = <<Do("destroy", {b}, FALSE)>> \o t

\* Apps of S leave: off the slots, without a form, and told so if they can be.
Left(M, L, st, S) ==
    /\ Vacated(M, L, S)
    /\ \A a \in Apps : M.form[a] # "none" => L.form[a] # "none" /\ a \notin S
    /\ \A a \in Apps : \/ M.told[a] = L.told[a]
                       \/ a \in S /\ M.told[a] \in {"destroy", "background"}
    /\ \A a \in S : IsAppRunning(st, a) /\ a \notin L.background
                       => M.told[a] \in {"destroy", "background"}
    /\ M.background \subseteq L.background \cup S
    /\ M.kept \subseteq L.kept /\ M.onPause = L.onPause /\ M.carrierId \in {L.carrierId, Null}

-----------------------------------------------------------------------------
LEMMA StackTyped ==
    ASSUME NEW L, Shaped(L)
    PROVE  /\ Stack(L) \in SUBSET Apps /\ Current(L) \in AppOrNull
           /\ Current(L) # Null => Current(L) \in Stack(L)
           /\ Current(L) = Null => Stack(L) = {}
           /\ \A a \in Stack(L) : a \notin L.background /\ L.form[a] # "none"
           /\ \A a \in Apps : L.told[a] \in Events
BY DEF Shaped, LifeType, Stack, Current, AppOrNull

\* More apps may be on their way out.
LEMMA SettledFor ==
    ASSUME NEW L, Shaped(L), NEW st, NEW D \in SUBSET Apps, NEW P, NEW S \in SUBSET Apps,
           Settled(L, st, D, P)
    PROVE  Settled(L, st, S \cup D, P)
<1>1. ASSUME NEW a \in (S \cup D \cup P) \cap Front(L)
      PROVE  IsAppRunning(st, a) /\ a \notin L.background
  <2>1. CASE a \in D \cup P
    BY <1>1, <2>1 DEF Settled
  <2>2. CASE a \notin D \cup P
    <3>1. a = Current(L) /\ a \in Apps
      BY <1>1, <2>2 DEF Settled, Front
    <3>2. a \in Stack(L)
      BY <3>1, StackTyped, LifetimeAssumption
    <3> QED
      BY <2>2, <3>2, StackTyped DEF Settled
  <2> QED
    BY <2>1, <2>2
<1> QED
  BY <1>1 DEF Settled

\* Who has left is not in front, and the others are where they were.
LEMMA LeftSettles ==
    ASSUME NEW L, Shaped(L), NEW M, Shaped(M), NEW st, NEW D \in SUBSET Apps, NEW P,
           NEW S \in SUBSET Apps, Settled(L, st, S \cup D, P), Left(M, L, st, S)
    PROVE  /\ Stack(M) = Stack(L) \ S
           /\ Front(M) = Front(L) \ S
           /\ Current(L) \notin S => Current(M) = Current(L)
           /\ Settled(M, st, D, P)
<1>1. Stack(M) = Stack(L) \ S
  BY LifetimeAssumption DEF Left, Vacated, Stack
<1>2. Front(M) = Front(L) \ S
  <2>1. ASSUME NEW a \in Apps PROVE a \in Front(M) <=> a \in Front(L) /\ a \notin S
    <3>1. CASE a \notin S
      BY <3>1 DEF Left, Front
    <3>2. CASE a \in S
      <4>1. a \in Front(L) => IsAppRunning(st, a) /\ a \notin L.background
        BY <3>2 DEF Settled
      <4>2. a \in Front(L) => M.told[a] \in {"destroy", "background"}
        BY <3>2, <4>1 DEF Left
      <4>3. a \notin Front(L) => L.told[a] \notin {"active", "resume"}
        BY DEF Front
      <4>4. M.told[a] \notin {"active", "resume"}
        BY <4>2, <4>3 DEF Left
      <4> QED
        BY <3>2, <4>4 DEF Front
    <3> QED
      BY <3>1, <3>2
  <2> QED
    BY <2>1 DEF Front
<1>3. Current(L) \notin S => Current(M) = Current(L)
  BY LifetimeAssumption DEF Left, Vacated, Current
<1>4. \A a \in Stack(M) \ D : IsAppRunning(st, a)
  BY <1>1 DEF Settled
<1>5. \A a \in Apps : M.form[a] # "none" => a \in Stack(M) \cup D
  BY <1>1 DEF Settled, Left
<1>6. Front(M) \subseteq {Current(M)} \cup D \cup P
  BY <1>2, <1>3 DEF Settled
<1>7. \A a \in Front(M) : HasDescriptor(st, a)
  BY <1>2 DEF Settled
<1>8. \A a \in (D \cup P) \cap Front(M) : IsAppRunning(st, a) /\ a \notin M.background
  BY <1>2 DEF Settled, Left
<1>9. M.cut # Null /\ M.scene # Null => M.told[M.scene] = "pause" \/ M.scene \in D \cup P
  <2> SUFFICES ASSUME M.cut # Null, M.scene # Null, M.scene \notin D \cup P
               PROVE  M.told[M.scene] = "pause"
    OBVIOUS
  <2>1. M.scene = L.scene /\ L.cut # Null /\ L.scene \notin S /\ L.scene \in Apps
    BY DEF Left, Vacated, Shaped, LifeType, AppOrNull
  <2>2. L.told[L.scene] = "pause"
    BY <2>1 DEF Settled
  <2> QED
    BY <2>1, <2>2 DEF Left
<1> QED
  BY <1>1, <1>2, <1>3, <1>4, <1>5, <1>6, <1>7, <1>8, <1>9 DEF Settled

LEMMA LeftAlone ==
    ASSUME NEW L, Shaped(L), NEW M, Shaped(M), NEW st, NEW S \in SUBSET Apps,
           Settled(L, st, S, {}), Left(M, L, st, S)
    PROVE  /\ Stack(M) = Stack(L) \ S
           /\ Front(M) = Front(L) \ S
           /\ Current(L) \notin S => Current(M) = Current(L)
           /\ Settled(M, st, {}, {})
<1> DEFINE none == {}
<1>1. Settled(L, st, S \cup none, none) /\ none \in SUBSET Apps
  <2>1. S \cup none = S
    OBVIOUS
  <2> QED
    BY <2>1
<1> HIDE DEF none
<1>2. /\ Stack(M) = Stack(L) \ S
      /\ Front(M) = Front(L) \ S
      /\ Current(L) \notin S => Current(M) = Current(L)
      /\ Settled(M, st, none, none)
  BY <1>1, LeftSettles
<1> QED
  BY <1>2 DEF none

LEMMA HeardStill ==
    ASSUME NEW L, Shaped(L), NEW M, NEW st, NEW S, Left(M, L, st, S), Heard(L),
           Current(L) \notin S, Current(M) = Current(L)
    PROVE  Heard(M)
<1> SUFFICES ASSUME M.onPause = Null, Current(M) # Null PROVE Current(M) \in Front(M)
  BY DEF Heard
<1>1. Current(L) \in Front(L) /\ Current(L) \in Apps
  BY DEF Left, Heard, Front
<1> QED
  BY <1>1 DEF Left, Front

-----------------------------------------------------------------------------
\* The fields that an operation leaves alone.

LEMMA ForgetFields ==
    ASSUME NEW L, Shaped(L), NEW S
    PROVE  LET F == Forget(L, S)
           IN  /\ Shaped(F) /\ Vacated(F, L, S)
               /\ \A a \in Apps : F.form[a] = IF a \in S THEN "none" ELSE L.form[a]
               /\ F.kept = L.kept \ S /\ F.told = L.told /\ F.onPause = L.onPause
               /\ F.background = L.background /\ F.carrierId = L.carrierId
<1>1. Shaped(Forget(L, S)) /\ Vacated(Forget(L, S), L, S)
  BY ForgetShaped
<1>2. /\ \A a \in Apps : Forget(L, S).form[a] = IF a \in S THEN "none" ELSE L.form[a]
      /\ Forget(L, S).kept = L.kept \ S /\ Forget(L, S).told = L.told
      /\ Forget(L, S).onPause = L.onPause
      /\ Forget(L, S).background = L.background /\ Forget(L, S).carrierId = L.carrierId
  BY DEF Forget, LeaveSlots, Shaped, LifeType
<1> QED
  BY <1>1, <1>2

LEMMA TellFields ==
    ASSUME NEW L, Shaped(L), NEW st, NEW S, NEW event \in Events
    PROVE  LET T == Tell(L, st, S, event)
           IN  /\ Shaped(T)
               /\ \A a \in Apps : T.told[a] = IF a \in Listeners(st, S) THEN event ELSE L.told[a]
               /\ T.cut = L.cut /\ T.scene = L.scene /\ T.form = L.form /\ T.kept = L.kept
               /\ T.onPause = L.onPause /\ T.background = L.background
               /\ T.carrierId = L.carrierId
<1>1. Shaped(Tell(L, st, S, event))
  BY TellShaped
<1> DEFINE f == [a \in Apps |-> IF a \in Listeners(st, S) THEN event ELSE L.told[a]]
<1>2. Tell(L, st, S, event) = [L EXCEPT !.told = f]
  BY DEF Tell
<1> HIDE DEF f
<1>3. /\ Tell(L, st, S, event).told = f
      /\ Tell(L, st, S, event).cut = L.cut /\ Tell(L, st, S, event).scene = L.scene
      /\ Tell(L, st, S, event).form = L.form /\ Tell(L, st, S, event).kept = L.kept
      /\ Tell(L, st, S, event).onPause = L.onPause
      /\ Tell(L, st, S, event).background = L.background
      /\ Tell(L, st, S, event).carrierId = L.carrierId
  BY <1>2 DEF Shaped, LifeType
<1> QED
  BY <1>1, <1>3 DEF f

\* What is left to do after a departure: to resume the top or its carrier, or
\* nothing if that was not asked for or the lifetime is paused.
Recovery(u, L, recover) ==
    \/ u = <<>> /\ (~recover \/ L.onPause # Null)
    \/ u = <<Do("resumeTop", {}, FALSE)>>
    \/ /\ L.carrierId # Null
       /\ \E b \in Apps : u = <<Do("reactivate", {b}, FALSE)>>

LEMMA RecoverFields ==
    ASSUME NEW L, Shaped(L), NEW st, NEW S, NEW recover \in BOOLEAN
    PROVE  LET r == Recover(L, st, S, recover)
           IN  /\ Shaped(r.life) /\ r.todo \in Seq(Step)
               /\ r.life.told = L.told /\ r.life.form = L.form
               /\ r.life.cut = L.cut /\ r.life.scene = L.scene
               /\ r.life.kept = L.kept /\ r.life.onPause = L.onPause
               /\ r.life.background = L.background
               /\ r.life.carrierId \in {L.carrierId, Null}
               /\ Recovery(r.todo, L, recover)
               /\ ~recover => r.todo = <<>>
<1> DEFINE mine == L.lastSubordinate \in S
           carrier == IF mine THEN L.carrierId ELSE Null
           next == IF mine THEN [L EXCEPT !.lastSubordinate = Null, !.carrierId = Null] ELSE L
           todo == IF ~recover \/ L.onPause # Null THEN <<>>
                   ELSE IF carrier # Null /\ IsAppRunning(st, carrier)
                   THEN <<Do("reactivate", {carrier}, FALSE)>>
                   ELSE <<Do("resumeTop", {}, FALSE)>>
           r == Recover(L, st, S, recover)
<1>1. Shaped(r.life) /\ r.todo \in Seq(Step)
  BY RecoverWellFormed DEF WellFormed
<1>2. /\ next.told = L.told /\ next.form = L.form /\ next.cut = L.cut /\ next.scene = L.scene
      /\ next.kept = L.kept /\ next.onPause = L.onPause /\ next.background = L.background
      /\ next.carrierId \in {L.carrierId, Null}
  BY DEF Shaped, LifeType
<1>3. r.life = next /\ r.todo = todo
  BY DEF Recover, Outcome
<1>4. carrier # Null => carrier \in Apps /\ L.carrierId # Null
  BY DEF Shaped, LifeType, AppOrNull
<1> HIDE DEF carrier, next, r
<1>5. Recovery(todo, L, recover) /\ (~recover => todo = <<>>)
  BY <1>4 DEF Recovery
<1> HIDE DEF todo
<1>6. Recovery(r.todo, L, recover) /\ (~recover => r.todo = <<>>)
  BY <1>3, <1>5
<1> QED
  BY <1>1, <1>2, <1>3, <1>6 DEF r

-----------------------------------------------------------------------------
\* The three ways to leave.

RunningOf(st, S) == {a \in S : IsAppRunning(st, a)}

LEMMA DestroyLeft ==
    ASSUME NEW L, Shaped(L), NEW st, NEW S \in SUBSET Apps, NEW force \in BOOLEAN
    PROVE  LET r == Destroy(L, st, S, force)
           IN  /\ Shaped(r.life) /\ Left(r.life, L, st, S)
               /\ r.todo = DoIfAny("suspend", RunningOf(st, S), force)
               /\ r.ok
<1> DEFINE running == RunningOf(st, S)
           F == Forget(L, S)
           T == Tell(F, st, running, "destroy")
           r == Destroy(L, st, S, force)
<1>1. /\ Shaped(F) /\ Vacated(F, L, S)
      /\ \A a \in Apps : F.form[a] = IF a \in S THEN "none" ELSE L.form[a]
      /\ F.kept = L.kept \ S /\ F.told = L.told /\ F.onPause = L.onPause
      /\ F.background = L.background /\ F.carrierId = L.carrierId
  BY ForgetFields
<1>2. running = {a \in S : IsAppRunning(st, a)}
  BY DEF RunningOf
<1> HIDE DEF F, running
<1>e. "destroy" \in Events
  BY DEF Events
<1>3. /\ Shaped(T)
      /\ \A a \in Apps : T.told[a] = IF a \in Listeners(st, running) THEN "destroy" ELSE F.told[a]
      /\ T.cut = F.cut /\ T.scene = F.scene /\ T.form = F.form /\ T.kept = F.kept
      /\ T.onPause = F.onPause /\ T.background = F.background /\ T.carrierId = F.carrierId
  BY <1>1, <1>e, TellFields
<1>4. \A a \in S : a \in Listeners(st, running) <=> IsAppRunning(st, a)
  BY <1>2 DEF Listeners, HasDescriptor, IsAppRunning
<1>5. r.life = T /\ r.ok /\ r.todo = DoIfAny("suspend", running, force)
  BY <1>2 DEF Destroy, Outcome, F
<1>6. Listeners(st, running) \subseteq S
  BY <1>2 DEF Listeners
<1> HIDE DEF T
<1>7. Left(T, L, st, S)
  BY <1>1, <1>3, <1>4, <1>6 DEF Left, Vacated
<1> HIDE DEF r
<1> QED
  BY <1>3, <1>5, <1>7 DEF running, r

LEMMA SetBackgroundLeft ==
    ASSUME NEW L, Shaped(L), NEW st, NEW S \in SUBSET Apps, NEW recover \in BOOLEAN,
           \A a \in S \ Stack(L) : L.form[a] = "none"
    PROVE  LET r == SetBackground(L, st, S, recover)
           IN  /\ Shaped(r.life) /\ Left(r.life, L, st, S) /\ r.life.background = L.background \cup S
               /\ r.todo \in Seq(Step) /\ r.ok \in BOOLEAN
               /\ r.ok => Recovery(r.todo, L, recover /\ S \cap Stack(L) # {})
               /\ ~r.ok => r.todo = <<>>
               /\ ~recover => r.todo = <<>>
               /\ (\A a \in S : HasDescriptor(st, a)) => r.ok
<1> DEFINE removed == S \cap Stack(L)
           entering == removed \cup (S \ L.background)
           F == Forget(L, removed)
           B == L.background \cup S
           moved == [F EXCEPT !.background = @ \cup S]
           T == Tell(moved, st, entering, "background")
           ok == entering \subseteq Listeners(st, entering)
           again == recover /\ removed # {}
           rec == Recover(T, st, entering, again)
           r == SetBackground(L, st, S, recover)
<1>1. /\ Shaped(F) /\ Vacated(F, L, removed)
      /\ \A a \in Apps : F.form[a] = IF a \in removed THEN "none" ELSE L.form[a]
      /\ F.kept = L.kept \ removed /\ F.told = L.told /\ F.onPause = L.onPause
      /\ F.background = L.background /\ F.carrierId = L.carrierId
  BY ForgetFields
<1>2. Vacated(F, L, S) /\ F.cut \notin S /\ F.scene \notin S
  BY <1>1, LifetimeAssumption DEF Vacated, Stack
<1>3. \A a \in Apps : F.form[a] # "none" => L.form[a] # "none" /\ a \notin S
  BY <1>1
<1> HIDE DEF F
<1>4. /\ Shaped(moved) /\ moved.background = B
      /\ moved.cut = F.cut /\ moved.scene = F.scene /\ moved.form = F.form
      /\ moved.kept = F.kept /\ moved.told = F.told /\ moved.onPause = F.onPause
      /\ moved.carrierId = F.carrierId
  BY <1>1, <1>2 DEF Shaped, LifeType
<1>5. entering \subseteq S /\ S \ L.background \subseteq entering
  OBVIOUS
<1> HIDE DEF moved, entering
<1>e. "background" \in Events
  BY DEF Events
<1>6. /\ Shaped(T)
      /\ \A a \in Apps : T.told[a] = IF a \in Listeners(st, entering) THEN "background"
                                                                      ELSE moved.told[a]
      /\ T.cut = moved.cut /\ T.scene = moved.scene /\ T.form = moved.form
      /\ T.kept = moved.kept /\ T.onPause = moved.onPause
      /\ T.background = moved.background /\ T.carrierId = moved.carrierId
  BY <1>4, <1>e, TellFields
<1>7. \A a \in S : IsAppRunning(st, a) /\ a \notin L.background => a \in Listeners(st, entering)
  BY <1>5 DEF Listeners, HasDescriptor, IsAppRunning
<1>8. Listeners(st, entering) \subseteq S
  BY <1>5 DEF Listeners
<1> HIDE DEF T
<1>9. again \in BOOLEAN
  OBVIOUS
<1> HIDE DEF again
<1>10. /\ Shaped(rec.life) /\ rec.todo \in Seq(Step)
       /\ rec.life.told = T.told /\ rec.life.form = T.form
       /\ rec.life.cut = T.cut /\ rec.life.scene = T.scene
       /\ rec.life.kept = T.kept /\ rec.life.onPause = T.onPause
       /\ rec.life.background = T.background
       /\ rec.life.carrierId \in {T.carrierId, Null}
       /\ Recovery(rec.todo, T, again) /\ (~again => rec.todo = <<>>)
  BY <1>6, <1>9, RecoverFields
<1>11. r = Outcome(rec.life, IF ok THEN rec.todo ELSE <<>>, ok)
  BY DEF SetBackground, T, moved, F, removed, entering, again
<1>12. Left(rec.life, L, st, S)
  BY <1>1, <1>2, <1>3, <1>4, <1>6, <1>7, <1>8, <1>10 DEF Left, Vacated
<1>13. rec.life.background = L.background \cup S
  BY <1>4, <1>6, <1>10
<1>14. Recovery(rec.todo, L, again)
  BY <1>1, <1>4, <1>6, <1>10 DEF Recovery
<1>15. (\A a \in S : HasDescriptor(st, a)) => ok
  BY <1>5 DEF Listeners
<1> HIDE DEF rec, ok
<1>16. ok \in BOOLEAN
  BY DEF ok
<1>17. r.life = rec.life /\ r.ok = ok /\ r.todo = IF ok THEN rec.todo ELSE <<>>
  BY <1>11 DEF Outcome
<1>18. <<>> \in Seq(Step)
  BY EmptySeq
<1>19. again <=> recover /\ S \cap Stack(L) # {}
  BY DEF again
<1> HIDE DEF r, removed
<1>20. Recovery(rec.todo, L, recover /\ S \cap Stack(L) # {})
  BY <1>14, <1>19 DEF Recovery
<1>21. ~recover => rec.todo = <<>>
  BY <1>10, <1>19
<1> QED
  BY <1>10, <1>12, <1>13, <1>15, <1>16, <1>17, <1>18, <1>20, <1>21 DEF r

LEMMA DeactivateLeft ==
    ASSUME NEW L, Shaped(L), NEW st, NEW S \in SUBSET Apps, NEW recover \in BOOLEAN
    PROVE  LET r == Deactivate(L, st, S, recover)
           IN  /\ Shaped(r.life) /\ Left(r.life, L, st, S) /\ r.ok \in BOOLEAN
               /\ \E u \in Seq(Step) :
                     /\ r.todo = DoIfAny("suspend", RunningOf(st, S \ L.kept), FALSE) \o u
                     /\ r.ok => Recovery(u, L, recover /\ Current(L) \in S)
                     /\ ~r.ok => u = <<>>
                     /\ ~recover => u = <<>>
               /\ L.kept = {} => r.ok
<1> DEFINE F == Forget(L, S)
           free == [F EXCEPT !.monopolist = IF @ \in S THEN Null ELSE @]
           K == S \cap L.kept
           R == S \ L.kept
           no == FALSE
           b == SetBackground(free, st, K, no)
           d == Destroy(b.life, st, R, no)
           again == recover /\ Current(L) \in S
           rec == Recover(d.life, st, S, again)
           u == IF b.ok THEN rec.todo ELSE <<>>
           r == Deactivate(L, st, S, recover)
           todo == DoIfAny("suspend", RunningOf(st, R), no)
<1>1. /\ Shaped(F) /\ Vacated(F, L, S)
      /\ \A a \in Apps : F.form[a] = IF a \in S THEN "none" ELSE L.form[a]
      /\ F.kept = L.kept \ S /\ F.told = L.told /\ F.onPause = L.onPause
      /\ F.background = L.background /\ F.carrierId = L.carrierId
  BY ForgetFields
<1> HIDE DEF F
<1>2. /\ Shaped(free) /\ Vacated(free, L, S) /\ free.form = F.form /\ free.kept = F.kept
      /\ free.told = F.told /\ free.onPause = F.onPause
      /\ free.background = F.background /\ free.carrierId = F.carrierId
  BY <1>1 DEF Shaped, LifeType, AppOrNull, Vacated
<1>3. /\ K \in SUBSET Apps /\ R \in SUBSET Apps
      /\ \A a \in S : a \in K \/ a \in R
      /\ K \subseteq S /\ R \subseteq S /\ K \cap R = {}
      /\ L.kept = {} => K = {}
  OBVIOUS
<1> HIDE DEF free, K, R
<1>f. no \in BOOLEAN
  OBVIOUS
<1> HIDE DEF no
<1>4. \A a \in K \ Stack(free) : free.form[a] = "none"
  BY <1>1, <1>2, <1>3
<1>5. /\ Shaped(b.life) /\ Left(b.life, free, st, K) /\ b.life.background = free.background \cup K
      /\ b.ok \in BOOLEAN
      /\ (\A a \in K : HasDescriptor(st, a)) => b.ok
  <2>1. Shaped(b.life)
    BY <1>2, <1>3, <1>4, <1>f, SetBackgroundLeft
  <2>2. Left(b.life, free, st, K)
    BY <1>2, <1>3, <1>4, <1>f, SetBackgroundLeft
  <2>3. b.life.background = free.background \cup K
    BY <1>2, <1>3, <1>4, <1>f, SetBackgroundLeft
  <2>4. b.ok \in BOOLEAN
    BY <1>2, <1>3, <1>4, <1>f, SetBackgroundLeft
  <2>5. (\A a \in K : HasDescriptor(st, a)) => b.ok
    BY <1>2, <1>3, <1>4, <1>f, SetBackgroundLeft
  <2> HIDE DEF b
  <2> QED
    BY <2>1, <2>2, <2>3, <2>4, <2>5
<1> HIDE DEF b
<1>6. Shaped(d.life) /\ Left(d.life, b.life, st, R) /\ d.todo = todo
  <2>1. Shaped(d.life)
    BY <1>3, <1>5, <1>f, DestroyLeft
  <2>2. Left(d.life, b.life, st, R)
    BY <1>3, <1>5, <1>f, DestroyLeft
  <2>3. d.todo = todo
    BY <1>3, <1>5, <1>f, DestroyLeft
  <2> HIDE DEF d, todo
  <2> QED
    BY <2>1, <2>2, <2>3
<1> HIDE DEF d
<1>7. again \in BOOLEAN /\ (~recover => ~again)
  OBVIOUS
<1> HIDE DEF again
<1>8. /\ Shaped(rec.life) /\ rec.todo \in Seq(Step)
      /\ rec.life.told = d.life.told /\ rec.life.form = d.life.form
      /\ rec.life.cut = d.life.cut /\ rec.life.scene = d.life.scene
      /\ rec.life.kept = d.life.kept /\ rec.life.onPause = d.life.onPause
      /\ rec.life.background = d.life.background
      /\ rec.life.carrierId \in {d.life.carrierId, Null}
      /\ Recovery(rec.todo, d.life, again) /\ (~again => rec.todo = <<>>)
  BY <1>6, <1>7, RecoverFields
<1> HIDE DEF rec
<1>9. Vacated(rec.life, L, S)
  BY <1>2, <1>3, <1>5, <1>6, <1>8, LifetimeAssumption DEF Left, Vacated
<1>10. \A a \in Apps : rec.life.form[a] # "none" => L.form[a] # "none" /\ a \notin S
  BY <1>1, <1>2, <1>5, <1>6, <1>8 DEF Left
<1>11. ASSUME NEW a \in Apps
       PROVE  /\ \/ rec.life.told[a] = L.told[a]
                 \/ a \in S /\ rec.life.told[a] \in {"destroy", "background"}
              /\ a \in S /\ IsAppRunning(st, a) /\ a \notin L.background
                    => rec.life.told[a] \in {"destroy", "background"}
  <2>1. \/ b.life.told[a] = L.told[a]
        \/ a \in K /\ b.life.told[a] \in {"destroy", "background"}
    BY <1>1, <1>2, <1>5 DEF Left
  <2>2. \/ d.life.told[a] = b.life.told[a]
        \/ a \in R /\ d.life.told[a] \in {"destroy", "background"}
    BY <1>6 DEF Left
  <2>3. a \in K /\ IsAppRunning(st, a) /\ a \notin L.background
           => b.life.told[a] \in {"destroy", "background"}
    BY <1>1, <1>2, <1>5 DEF Left
  <2>4. a \in R /\ IsAppRunning(st, a) /\ a \notin L.background
           => d.life.told[a] \in {"destroy", "background"}
    <3>1. a \in R /\ a \notin L.background => a \notin b.life.background
      BY <1>1, <1>2, <1>3, <1>5
    <3> QED
      BY <1>6, <3>1 DEF Left
  <2> QED
    BY <1>3, <1>8, <2>1, <2>2, <2>3, <2>4
<1>12. /\ rec.life.background \subseteq L.background \cup S
       /\ rec.life.kept \subseteq L.kept /\ rec.life.onPause = L.onPause
       /\ rec.life.carrierId \in {L.carrierId, Null}
  BY <1>1, <1>2, <1>3, <1>5, <1>6, <1>8 DEF Left
<1>13. Left(rec.life, L, st, S)
  BY <1>9, <1>10, <1>11, <1>12 DEF Left
<1>14. Recovery(rec.todo, L, again)
  <2>1. d.life.onPause = L.onPause /\ d.life.carrierId \in {L.carrierId, Null}
    BY <1>1, <1>2, <1>5, <1>6 DEF Left
  <2> QED
    BY <1>8, <2>1 DEF Recovery
<1>15. r = Outcome(rec.life, d.todo \o u, b.ok)
  BY DEF Deactivate, rec, d, b, free, F, K, R, again, no
<1>16. u \in Seq(Step) /\ (b.ok => Recovery(u, L, again)) /\ (~b.ok => u = <<>>)
       /\ (~recover => u = <<>>)
  BY <1>7, <1>8, <1>14, EmptySeq
<1>17. L.kept = {} => b.ok
  BY <1>3, <1>5
<1> HIDE DEF u, todo
<1>18. r.life = rec.life /\ r.todo = todo \o u /\ r.ok = b.ok
  BY <1>6, <1>15 DEF Outcome
<1>19. again <=> recover /\ Current(L) \in S
  BY DEF again
<1>20. b.ok => Recovery(u, L, recover /\ Current(L) \in S)
  BY <1>16, <1>19 DEF Recovery
<1>21. todo = DoIfAny("suspend", RunningOf(st, S \ L.kept), FALSE)
  BY DEF todo, R, no
<1> HIDE DEF r
<1> QED
  BY <1>5, <1>8, <1>13, <1>16, <1>17, <1>18, <1>20, <1>21 DEF r

-----------------------------------------------------------------------------
\* What is left to do after a departure.

LEMMA RestAfter ==
    ASSUME NEW L, NEW M, NEW st, NEW S, Settled(M, st, {}, {}), Left(M, L, st, S), Spared(L),
           NEW recover, NEW u, Recovery(u, L, recover), ~recover => Heeded(M)
    PROVE  Rest(u, M, st) /\ Spared(M)
<1>1. Spared(M)
  BY DEF Left, Spared
<1>2. CASE u = <<>> /\ (~recover \/ L.onPause # Null)
  <2>1. L.onPause # Null => Heeded(M)
    BY DEF Left, Heeded, Heard
  <2> QED
    BY <1>1, <1>2, <2>1 DEF Rest
<1>3. CASE u = <<Do("resumeTop", {}, FALSE)>>
  BY <1>1, <1>3 DEF Rest
<1>4. CASE L.carrierId # Null /\ \E b \in Apps : u = <<Do("reactivate", {b}, FALSE)>>
  <2>1. ~Plain
    BY <1>4 DEF Spared
  <2> QED
    BY <1>1, <1>4, <2>1 DEF Rest
<1> QED
  BY <1>2, <1>3, <1>4 DEF Recovery

\* Processes that are ended are of apps that have left.
LEMMA EndsFirst ==
    ASSUME NEW M, NEW st, NEW t \in Seq(Step), Rest(t, M, st), Spared(M),
           NEW R \in SUBSET Apps, R \cap (Stack(M) \cup Front(M)) = {}, NEW force \in BOOLEAN
    PROVE  Awaits(DoIfAny("suspend", R, force) \o t, M, st)
<1>1. CASE R = {}
  <2>1. DoIfAny("suspend", R, force) \o t = t
    BY <1>1, ConcatEmptySeq DEF DoIfAny
  <2> QED
    BY <2>1 DEF Awaits
<1>2. CASE R # {}
  BY <1>2 DEF DoIfAny, Awaits
<1> QED
  BY <1>1, <1>2

LEMMA DestroyAwaits ==
    ASSUME NEW L, Shaped(L), NEW st, NEW S \in SUBSET Apps, NEW force \in BOOLEAN,
           Settled(L, st, S, {}), Spared(L), Heeded(L), Plain => Current(L) \notin S
    PROVE  LET r == Destroy(L, st, S, force)
           IN  Shaped(r.life) /\ Awaits(r.todo, r.life, st)
<1> DEFINE r == Destroy(L, st, S, force)
           M == r.life
           R == RunningOf(st, S)
<1>1. Shaped(M)
  BY DestroyLeft
<1>2. Left(M, L, st, S)
  BY DestroyLeft
<1>3. r.todo = DoIfAny("suspend", R, force)
  BY DestroyLeft
<1>4. R \subseteq S
  BY DEF RunningOf
<1> HIDE DEF r, R
<1>5. /\ Stack(M) = Stack(L) \ S /\ Front(M) = Front(L) \ S
      /\ Current(L) \notin S => Current(M) = Current(L)
      /\ Settled(M, st, {}, {})
  <2> HIDE DEF M
  <2> QED
    BY <1>1, <1>2, LeftAlone
<1> HIDE DEF M
<1>6. Heeded(M)
  BY <1>2, <1>5, HeardStill DEF Heeded
<1>7. Rest(<<>>, M, st) /\ Spared(M) /\ <<>> \in Seq(Step)
  BY <1>2, <1>5, <1>6, EmptySeq DEF Rest, Left, Spared
<1>8. R \in SUBSET Apps /\ R \cap (Stack(M) \cup Front(M)) = {}
  BY <1>4, <1>5
<1>9. Awaits(DoIfAny("suspend", R, force) \o <<>>, M, st)
  BY <1>7, <1>8, EndsFirst
<1>10. DoIfAny("suspend", R, force) \o <<>> = DoIfAny("suspend", R, force)
  <2>1. DoIfAny("suspend", R, force) \in Seq(Step)
    BY <1>8, DoTyped DEF Ops
  <2> QED
    BY <2>1, ConcatEmptySeq
<1>11. Awaits(r.todo, M, st)
  BY <1>3, <1>9, <1>10
<1> QED
  BY <1>1, <1>11 DEF M, r

LEMMA SetBackgroundAwaits ==
    ASSUME NEW L, Shaped(L), NEW st, NEW a \in Apps, HasDescriptor(st, a),
           Settled(L, st, {}, {}), Spared(L), Heeded(L)
    PROVE  LET r == SetBackground(L, st, {a}, TRUE)
           IN  Shaped(r.life) /\ Awaits(r.todo, r.life, st)
<1> DEFINE S == {a}
           yes == TRUE
           r == SetBackground(L, st, S, yes)
           M == r.life
<1>1. S \in SUBSET Apps /\ yes \in BOOLEAN /\ \A x \in S : HasDescriptor(st, x)
  OBVIOUS
<1>2. \A x \in S \ Stack(L) : L.form[x] = "none"
  BY DEF Settled
<1>3. yes = TRUE
  OBVIOUS
<1> HIDE DEF S, yes
<1>4. Shaped(M)
  BY <1>1, <1>2, SetBackgroundLeft
<1>5. Left(M, L, st, S)
  BY <1>1, <1>2, SetBackgroundLeft
<1>6. r.todo \in Seq(Step)
  BY <1>1, <1>2, SetBackgroundLeft
<1>7. Recovery(r.todo, L, yes /\ S \cap Stack(L) # {})
  <2>1. r.ok
    BY <1>1, <1>2, SetBackgroundLeft
  <2> QED
    BY <1>1, <1>2, <2>1, SetBackgroundLeft
<1> HIDE DEF r
<1>8. /\ Current(L) \notin S => Current(M) = Current(L)
      /\ Settled(M, st, {}, {})
  <2>1. Settled(L, st, S \cup {}, {}) /\ S \cup {} = S /\ {} \in SUBSET Apps
    BY <1>1, SettledFor
  <2> HIDE DEF M
  <2> QED
    BY <1>1, <1>4, <1>5, <2>1, LeftAlone
<1> HIDE DEF M
<1> DEFINE again == yes /\ S \cap Stack(L) # {}
<1>9. ~again => Heeded(M)
  <2>1. ASSUME ~again PROVE Current(L) \notin S
    <3>1. S \cap Stack(L) = {}
      BY <1>3, <2>1
    <3>2. Current(L) # Null => Current(L) \in Stack(L)
      BY StackTyped
    <3> QED
      BY <1>1, <3>1, <3>2, LifetimeAssumption
  <2> QED
    BY <1>5, <1>8, <2>1, HeardStill DEF Heeded
<1>10. Recovery(r.todo, L, again)
  BY <1>7
<1> HIDE DEF again
<1>11. Rest(r.todo, M, st) /\ Spared(M)
  BY <1>5, <1>8, <1>9, <1>10, RestAfter
<1>12. Awaits(r.todo, M, st)
  BY <1>6, <1>11 DEF Awaits
<1> QED
  BY <1>4, <1>12 DEF M, r, S, yes

\* Who hears what is on top after the apps of S have left: the one beneath, if
\* the top is among them, and nobody else is needed.
Minds(L, S, recover) ==
    Plain => \/ Stack(L) \subseteq S
             \/ recover /\ Current(L) \in S
             \/ Heard(L) /\ Current(L) \notin S

LEMMA DeactivateAwaits ==
    ASSUME NEW L, Shaped(L), NEW st, NEW S \in SUBSET Apps, NEW recover \in BOOLEAN,
           Settled(L, st, S, {}), Spared(L), Minds(L, S, recover)
    PROVE  LET r == Deactivate(L, st, S, recover)
           IN  Shaped(r.life) /\ Awaits(r.todo, r.life, st)
<1> DEFINE r == Deactivate(L, st, S, recover)
           M == r.life
           R == RunningOf(st, S \ L.kept)
           no == FALSE
<1>1. Shaped(M)
  BY DeactivateLeft
<1>2. Left(M, L, st, S)
  BY DeactivateLeft
<1>3. PICK u \in Seq(Step) :
          /\ r.todo = DoIfAny("suspend", R, no) \o u
          /\ r.ok => Recovery(u, L, recover /\ Current(L) \in S)
          /\ ~r.ok => u = <<>>
  <2>1. \E u \in Seq(Step) :
            /\ r.todo = DoIfAny("suspend", R, no) \o u
            /\ r.ok => Recovery(u, L, recover /\ Current(L) \in S)
            /\ ~r.ok => u = <<>>
            /\ ~recover => u = <<>>
    BY DeactivateLeft
  <2> QED
    BY <2>1
<1>4. L.kept = {} => r.ok
  BY DeactivateLeft
<1>5. R \subseteq S /\ no \in BOOLEAN
  BY DEF RunningOf
<1> HIDE DEF r, R, no
<1> HIDE DEF M
<1>6. Stack(M) = Stack(L) \ S /\ Front(M) = Front(L) \ S
  BY <1>1, <1>2, LeftAlone
<1>7. Current(L) \notin S => Current(M) = Current(L)
  BY <1>1, <1>2, LeftAlone
<1>8. Settled(M, st, {}, {})
  BY <1>1, <1>2, LeftAlone
<1> DEFINE again == recover /\ Current(L) \in S
<1>9. ~again => Heeded(M)
  <2> SUFFICES ASSUME ~again, Plain PROVE Heard(M)
    BY DEF Heeded
  <2>1. CASE Stack(L) \subseteq S
    <3>1. Stack(M) = {}
      BY <1>6, <2>1
    <3>2. Current(M) = Null
      BY <1>1, <3>1, StackTyped
    <3> QED
      BY <3>2 DEF Heard
  <2>2. CASE Heard(L) /\ Current(L) \notin S
    BY <1>2, <1>7, <2>2, HeardStill
  <2> QED
    BY <2>1, <2>2 DEF Minds
<1>10. Rest(u, M, st) /\ Spared(M)
  <2>1. CASE r.ok
    <3>1. Recovery(u, L, again)
      BY <1>3, <2>1
    <3> HIDE DEF again
    <3> QED
      BY <1>2, <1>8, <1>9, <3>1, RestAfter
  <2>2. CASE ~r.ok
    <3>1. ~Plain /\ u = <<>>
      BY <1>3, <1>4, <2>2 DEF Spared
    <3> QED
      BY <1>8, <3>1 DEF Rest, Heeded, Spared
  <2> QED
    BY <2>1, <2>2
<1>11. R \in SUBSET Apps /\ R \cap (Stack(M) \cup Front(M)) = {}
  BY <1>5, <1>6
<1>12. Awaits(DoIfAny("suspend", R, no) \o u, M, st)
  BY <1>5, <1>10, <1>11, EndsFirst
<1>13. Awaits(r.todo, M, st)
  BY <1>3, <1>12
<1> QED
  BY <1>1, <1>13 DEF M, r

-----------------------------------------------------------------------------
\* What is next.

LEMMA FirstOf ==
    ASSUME NEW x \in Step, NEW t \in Seq(Step)
    PROVE  LET q == <<x>> \o t
           IN  q \in Seq(Step) /\ q # <<>> /\ Head(q) = x /\ Tail(q) = t
<1> DEFINE q == <<x>> \o t
           one == <<x>>
<1>1. one \in Seq(Step) /\ Len(one) = 1 /\ one[1] = x
  OBVIOUS
<1> HIDE DEF one
<1>2. /\ q \in Seq(Step) /\ Len(q) = 1 + Len(t)
      /\ \A i \in 1 .. Len(q) : q[i] = IF i <= 1 THEN one[i] ELSE t[i - 1]
  BY <1>1, ConcatProperties DEF one
<1> HIDE DEF q
<1>3. Len(t) \in Nat /\ Len(q) # 0
  BY <1>2, LenProperties
<1>4. q # <<>>
  BY <1>3, EmptySeq
<1>5. /\ Head(q) = q[1] /\ Tail(q) \in Seq(Step) /\ Len(Tail(q)) = Len(q) - 1
      /\ \A i \in 1 .. Len(Tail(q)) : Tail(q)[i] = q[i + 1]
  BY <1>2, <1>4, HeadTailProperties
<1>6. Head(q) = x
  BY <1>1, <1>2, <1>3, <1>5
<1>7. Len(Tail(q)) = Len(t)
  BY <1>2, <1>3, <1>5
<1>8. \A i \in 1 .. Len(t) : Tail(q)[i] = t[i]
  BY <1>2, <1>3, <1>5, <1>7
<1>9. Tail(q) = t
  BY <1>5, <1>7, <1>8, SeqEqual
<1> QED
  BY <1>2, <1>4, <1>6, <1>9 DEF q

LEMMA TwoSteps ==
    ASSUME NEW x \in Step, NEW y \in Step
    PROVE  /\ <<x>> \o <<y>> = <<x, y>> /\ <<x, y>> \in Seq(Step) /\ <<y>> \in Seq(Step)
           /\ <<x>> \in Seq(Step)
           /\ Head(<<x, y>>) = x /\ Tail(<<x, y>>) = <<y>>
<1> DEFINE q == <<x>> \o <<y>>
           r == <<x, y>>
<1>1. <<x>> \in Seq(Step) /\ <<y>> \in Seq(Step) /\ r \in Seq(Step)
  OBVIOUS
<1>2. q \in Seq(Step) /\ Len(q) = 2 /\ q[1] = x /\ q[2] = y
  BY <1>1
<1>3. Len(r) = 2 /\ r[1] = x /\ r[2] = y
  OBVIOUS
<1> HIDE DEF q, r
<1>4. \A i \in 1 .. Len(q) : q[i] = r[i]
  BY <1>2, <1>3
<1>5. q = r
  BY <1>1, <1>2, <1>3, <1>4, SeqEqual
<1>6. q # <<>> /\ Head(q) = x /\ Tail(q) = <<y>>
  BY <1>1, FirstOf DEF q
<1> QED
  BY <1>1, <1>5, <1>6 DEF q, r

LEMMA StepTyped ==
    ASSUME NEW op \in Ops, NEW S \in SUBSET Apps, NEW force \in BOOLEAN
    PROVE  /\ Do(op, S, force) \in Step
           /\ Do(op, S, force).op = op /\ Do(op, S, force).apps = S
           /\ Do(op, S, force).force = force
BY DEF Do, Step

\* The steps of the rest of a call, by their operation.
LEMMA RestHead ==
    ASSUME NEW q, NEW L, NEW st, Rest(q, L, st), q # <<>>
    PROVE  /\ Head(q).op \in {"resumeTop", "reactivate", "active", "deactivate", "pause"}
           /\ Head(q).op = "resumeTop" => Settled(L, st, {}, {}) /\ Tail(q) = <<>>
           /\ Head(q).op = "reactivate" => ~Plain /\ Settled(L, st, {}, {}) /\ Tail(q) = <<>>
           /\ Head(q).op = "active" =>
                 /\ Current(L) \in Apps /\ Head(q).apps = {Current(L)} /\ Tail(q) = <<>>
                 /\ Settled(L, st, {}, {})
           /\ Head(q).op = "deactivate" =>
                 /\ Current(L) \in Apps /\ Tail(q) = <<ToActivate(Current(L))>>
                 /\ Head(q).apps \in SUBSET Apps /\ Head(q).apps \cap Stack(L) = {}
                 /\ Settled(L, st, Head(q).apps, {})
           /\ Head(q).op = "pause" =>
                 /\ Current(L) \in Apps /\ Tail(q) = <<ToActivate(Current(L))>>
                 /\ \E p \in Apps \ {Current(L)} :
                       Head(q).apps = {p} /\ Settled(L, st, {}, {p})
<1> DEFINE h == Head(q)
<1>o. "resumeTop" \in Ops /\ "reactivate" \in Ops /\ "active" \in Ops /\ "deactivate" \in Ops
      /\ "pause" \in Ops /\ FALSE \in BOOLEAN
  BY DEF Ops
<1>1. CASE q = <<Do("resumeTop", {}, FALSE)>> /\ Settled(L, st, {}, {})
  <2>1. h = Do("resumeTop", {}, FALSE) /\ Tail(q) = <<>>
    BY <1>1
  <2> HIDE DEF h
  <2>2. h.op = "resumeTop"
    BY <2>1 DEF Do
  <2> QED
    BY <1>1, <2>1, <2>2 DEF h
<1>2. CASE /\ ~Plain /\ Settled(L, st, {}, {})
           /\ \E b \in Apps : q = <<Do("reactivate", {b}, FALSE)>>
  <2>1. PICK b \in Apps : q = <<Do("reactivate", {b}, FALSE)>>
    BY <1>2
  <2>2. h = Do("reactivate", {b}, FALSE) /\ Tail(q) = <<>>
    BY <2>1
  <2> HIDE DEF h
  <2>3. h.op = "reactivate"
    BY <2>2 DEF Do
  <2> QED
    BY <1>2, <2>2, <2>3 DEF h
<1>3. ASSUME NEW a \in Apps, a = Current(L), q = <<ToActivate(a)>>, Settled(L, st, {}, {})
      PROVE  h.op = "active" /\ h.apps = {a} /\ Tail(q) = <<>>
  BY <1>3 DEF ToActivate, Do
<1>4. ASSUME NEW a \in Apps, NEW D \in SUBSET Apps,
             q = <<Do("deactivate", D, FALSE), ToActivate(a)>>
      PROVE  h.op = "deactivate" /\ h.apps = D /\ Tail(q) = <<ToActivate(a)>>
  <2>1. Do("deactivate", D, FALSE) \in Step /\ ToActivate(a) \in Step
    BY <1>o, StepTyped DEF ToActivate
  <2>2. h = Do("deactivate", D, FALSE) /\ Tail(q) = <<ToActivate(a)>>
    BY <1>4, <2>1, TwoSteps
  <2> HIDE DEF h
  <2> QED
    BY <2>2 DEF Do
<1>5. ASSUME NEW a \in Apps, NEW p \in Apps, q = <<Do("pause", {p}, FALSE), ToActivate(a)>>
      PROVE  h.op = "pause" /\ h.apps = {p} /\ Tail(q) = <<ToActivate(a)>>
  <2>1. Do("pause", {p}, FALSE) \in Step /\ ToActivate(a) \in Step
    BY <1>o, StepTyped DEF ToActivate
  <2>2. h = Do("pause", {p}, FALSE) /\ Tail(q) = <<ToActivate(a)>>
    BY <1>5, <2>1, TwoSteps
  <2> HIDE DEF h
  <2> QED
    BY <2>2 DEF Do
<1> HIDE DEF h
<1>6. CASE \E a \in Apps : a = Current(L) /\ q = <<ToActivate(a)>> /\ Settled(L, st, {}, {})
  BY <1>3, <1>6 DEF h
<1>7. CASE \E a \in Apps, D \in SUBSET Apps :
              /\ a = Current(L) /\ q = <<Do("deactivate", D, FALSE), ToActivate(a)>>
              /\ D \cap Stack(L) = {} /\ Settled(L, st, D, {})
  <2>1. PICK a \in Apps, D \in SUBSET Apps :
              /\ a = Current(L) /\ q = <<Do("deactivate", D, FALSE), ToActivate(a)>>
              /\ D \cap Stack(L) = {} /\ Settled(L, st, D, {})
    BY <1>7
  <2> QED
    BY <1>4, <2>1 DEF h
<1>8. CASE \E a \in Apps : \E p \in Apps \ {a} :
              /\ a = Current(L) /\ q = <<Do("pause", {p}, FALSE), ToActivate(a)>>
              /\ Settled(L, st, {}, {p})
  <2>1. PICK a \in Apps, p \in Apps :
              /\ p # a /\ a = Current(L)
              /\ q = <<Do("pause", {p}, FALSE), ToActivate(a)>>
              /\ Settled(L, st, {}, {p})
    BY <1>8
  <2> QED
    BY <1>5, <2>1 DEF h
<1> QED
  BY <1>1, <1>2, <1>6, <1>7, <1>8 DEF Rest

LEMMA AwaitsHead ==
    ASSUME NEW q, NEW L, NEW st, Awaits(q, L, st), q # <<>>
    PROVE  /\ Spared(L)
           /\ \/ Rest(q, L, st)
              \/ /\ Head(q).op = "suspend" /\ Tail(q) \in Seq(Step) /\ Rest(Tail(q), L, st)
                 /\ Head(q).apps \cap (Stack(L) \cup Front(L)) = {}
              \/ /\ Head(q).op = "destroy" /\ Tail(q) \in Seq(Step) /\ Rest(Tail(q), L, st)
                 /\ \E b \in Apps \ {Current(L)} : Head(q).apps = {b}
<1>o. "suspend" \in Ops /\ "destroy" \in Ops /\ FALSE \in BOOLEAN
  BY DEF Ops
<1>1. PICK t \in Seq(Step) :
          /\ Rest(t, L, st)
          /\ \/ q = t
             \/ \E S \in SUBSET Apps, force \in BOOLEAN :
                   /\ q = <<Do("suspend", S, force)>> \o t
                   /\ S \cap (Stack(L) \cup Front(L)) = {}
             \/ \E b \in Apps \ {Current(L)} : q = <<Do("destroy", {b}, FALSE)>> \o t
  BY DEF Awaits
<1>2. ASSUME NEW S \in SUBSET Apps, NEW force \in BOOLEAN,
             q = <<Do("suspend", S, force)>> \o t, S \cap (Stack(L) \cup Front(L)) = {}
      PROVE  /\ Head(q).op = "suspend" /\ Tail(q) = t
             /\ Head(q).apps \cap (Stack(L) \cup Front(L)) = {}
  <2> DEFINE x == Do("suspend", S, force)
  <2>1. x \in Step /\ x.op = "suspend" /\ x.apps = S
    BY <1>o, StepTyped
  <2> HIDE DEF x
  <2>2. Head(q) = x /\ Tail(q) = t
    BY <1>2, <2>1, FirstOf DEF x
  <2> QED
    BY <1>2, <2>1, <2>2
<1>3. ASSUME NEW b \in Apps \ {Current(L)}, q = <<Do("destroy", {b}, FALSE)>> \o t
      PROVE  Head(q).op = "destroy" /\ Tail(q) = t /\ Head(q).apps = {b}
  <2> DEFINE x == Do("destroy", {b}, FALSE)
  <2>1. x \in Step /\ x.op = "destroy" /\ x.apps = {b}
    <3>1. {b} \in SUBSET Apps
      OBVIOUS
    <3> QED
      BY <1>o, <3>1, StepTyped
  <2> HIDE DEF x
  <2>2. Head(q) = x /\ Tail(q) = t
    BY <1>3, <2>1, FirstOf DEF x
  <2> QED
    BY <1>3, <2>1, <2>2
<1>4. Spared(L)
  BY DEF Awaits
<1> QED
  BY <1>1, <1>2, <1>3, <1>4

-----------------------------------------------------------------------------
\* What each continuation makes of what is left to do.

\* M and st2 differ from L and st only in what the rest of a call does not ask.
Carries(M, st2, L, st) ==
    /\ Current(M) = Current(L) /\ Stack(M) \subseteq Stack(L)
    /\ Settled(L, st, {}, {}) /\ Heeded(L) => Heeded(M)
    /\ \A D \in SUBSET Apps, P \in SUBSET Apps :
          Current(L) \notin D \cup P /\ Settled(L, st, D, P) => Settled(M, st2, D, P)

LEMMA RestCarried ==
    ASSUME NEW L, Shaped(L), NEW st, NEW M, NEW st2, Carries(M, st2, L, st),
           NEW t, Rest(t, L, st)
    PROVE  Rest(t, M, st2)
<1>1. Current(M) = Current(L) /\ Stack(M) \subseteq Stack(L)
  BY DEF Carries
<1>2. ASSUME Settled(L, st, {}, {})
      PROVE  Settled(M, st2, {}, {})
  <2>1. {} \in SUBSET Apps /\ Current(L) \notin {} \cup {}
    OBVIOUS
  <2> QED
    BY <1>2, <2>1 DEF Carries
<1>3. CASE t = <<>> /\ Settled(L, st, {}, {}) /\ Heeded(L)
  <2>1. Heeded(M)
    BY <1>3 DEF Carries
  <2> QED
    BY <1>2, <1>3, <2>1 DEF Rest
<1>4. CASE t = <<Do("resumeTop", {}, FALSE)>> /\ Settled(L, st, {}, {})
  BY <1>2, <1>4 DEF Rest
<1>5. CASE /\ ~Plain /\ Settled(L, st, {}, {})
           /\ \E b \in Apps : t = <<Do("reactivate", {b}, FALSE)>>
  BY <1>2, <1>5 DEF Rest
<1>6. CASE \E a \in Apps : a = Current(L) /\ t = <<ToActivate(a)>> /\ Settled(L, st, {}, {})
  BY <1>1, <1>2, <1>6 DEF Rest
<1>7. CASE \E a \in Apps, D \in SUBSET Apps :
              /\ a = Current(L) /\ t = <<Do("deactivate", D, FALSE), ToActivate(a)>>
              /\ D \cap Stack(L) = {} /\ Settled(L, st, D, {})
  <2>1. PICK a \in Apps, D \in SUBSET Apps :
              /\ a = Current(L) /\ t = <<Do("deactivate", D, FALSE), ToActivate(a)>>
              /\ D \cap Stack(L) = {} /\ Settled(L, st, D, {})
    BY <1>7
  <2>2. a \in Stack(L)
    BY <2>1, StackTyped, LifetimeAssumption
  <2>3. Current(L) \notin D \cup {} /\ {} \in SUBSET Apps
    BY <2>1, <2>2
  <2>4. Settled(M, st2, D, {})
    BY <2>1, <2>3 DEF Carries
  <2>5. D \cap Stack(M) = {}
    BY <1>1, <2>1
  <2> QED
    BY <1>1, <2>1, <2>4, <2>5 DEF Rest
<1>8. CASE \E a \in Apps : \E p \in Apps \ {a} :
              /\ a = Current(L) /\ t = <<Do("pause", {p}, FALSE), ToActivate(a)>>
              /\ Settled(L, st, {}, {p})
  <2>1. PICK a \in Apps, p \in Apps :
              /\ p # a /\ a = Current(L)
              /\ t = <<Do("pause", {p}, FALSE), ToActivate(a)>>
              /\ Settled(L, st, {}, {p})
    BY <1>8
  <2>2. {} \in SUBSET Apps /\ {p} \in SUBSET Apps /\ Current(L) \notin {} \cup {p}
    BY <2>1
  <2>3. Settled(M, st2, {}, {p})
    BY <2>1, <2>2 DEF Carries
  <2> QED
    BY <1>1, <2>1, <2>3 DEF Rest
<1> QED
  BY <1>3, <1>4, <1>5, <1>6, <1>7, <1>8 DEF Rest

LEMMA AwaitsCarried ==
    ASSUME NEW L, Shaped(L), NEW st, NEW M, NEW st2, Carries(M, st2, L, st),
           Front(M) \subseteq Front(L) \cup Stack(L), Spared(L) => Spared(M),
           NEW q, Awaits(q, L, st)
    PROVE  Awaits(q, M, st2)
<1>1. PICK t \in Seq(Step) :
          /\ Rest(t, L, st)
          /\ \/ q = t
             \/ \E S \in SUBSET Apps, force \in BOOLEAN :
                   /\ q = <<Do("suspend", S, force)>> \o t
                   /\ S \cap (Stack(L) \cup Front(L)) = {}
             \/ \E b \in Apps \ {Current(L)} : q = <<Do("destroy", {b}, FALSE)>> \o t
  BY DEF Awaits
<1>2. Rest(t, M, st2) /\ Spared(M)
  BY <1>1, RestCarried DEF Awaits
<1>3. Current(M) = Current(L) /\ Stack(M) \subseteq Stack(L)
  BY DEF Carries
<1>4. \A S \in SUBSET Apps : S \cap (Stack(L) \cup Front(L)) = {}
                             => S \cap (Stack(M) \cup Front(M)) = {}
  BY <1>3
<1> QED
  BY <1>1, <1>2, <1>3, <1>4 DEF Awaits

LEMMA RestKept ==
    ASSUME NEW L, Shaped(L), NEW M, Shaped(M), NEW st, NEW S \in SUBSET Apps, NEW t,
           Rest(t, L, st), Left(M, L, st, S), Current(L) \notin S
    PROVE  Rest(t, M, st) /\ Stack(M) \subseteq Stack(L) \ S /\ Front(M) \subseteq Front(L) \ S
<1>1. ASSUME NEW D \in SUBSET Apps, NEW P, Settled(L, st, D, P)
      PROVE  /\ Settled(M, st, D, P) /\ Current(M) = Current(L)
             /\ Stack(M) = Stack(L) \ S /\ Front(M) = Front(L) \ S
  <2>1. Settled(L, st, S \cup D, P)
    BY <1>1, SettledFor
  <2>2. /\ Stack(M) = Stack(L) \ S
        /\ Front(M) = Front(L) \ S
        /\ Current(L) \notin S => Current(M) = Current(L)
        /\ Settled(M, st, D, P)
    BY <2>1, LeftSettles
  <2> QED
    BY <2>2
<1>2. \E D \in SUBSET Apps, P \in SUBSET Apps : Settled(L, st, D, P)
  <2>1. {} \in SUBSET Apps
    OBVIOUS
  <2>2. \A p \in Apps : {p} \in SUBSET Apps
    OBVIOUS
  <2> QED
    BY <2>1, <2>2 DEF Rest
<1>3. Current(M) = Current(L) /\ Stack(M) = Stack(L) \ S /\ Front(M) = Front(L) \ S
  BY <1>1, <1>2
<1>4. Settled(L, st, {}, {}) /\ Heeded(L) => Heeded(M)
  BY <1>3, HeardStill DEF Heeded
<1>5. Carries(M, st, L, st)
  BY <1>1, <1>3, <1>4 DEF Carries
<1> QED
  BY <1>3, <1>5, RestCarried

\* The carrier is destroyed beside what it does not stand on top of.
LEMMA CarrierDestroyed ==
    ASSUME NEW L, Shaped(L), NEW st, NEW b \in Apps \ {Current(L)}, NEW t \in Seq(Step),
           Rest(t, L, st), Spared(L)
    PROVE  LET r == Destroy(L, st, {b}, FALSE)
           IN  Shaped(r.life) /\ Awaits(r.todo \o t, r.life, st) /\ r.ok
<1> DEFINE S == {b}
           no == FALSE
           r == Destroy(L, st, S, no)
           M == r.life
           R == RunningOf(st, S)
<1>1. S \in SUBSET Apps /\ no \in BOOLEAN /\ Current(L) \notin S
  OBVIOUS
<1> HIDE DEF S, no
<1>2. Shaped(M)
  BY <1>1, DestroyLeft
<1>3. Left(M, L, st, S)
  BY <1>1, DestroyLeft
<1>4. r.todo = DoIfAny("suspend", R, no)
  BY <1>1, DestroyLeft
<1>5. r.ok
  BY <1>1, DestroyLeft
<1> HIDE DEF r, M
<1>6. Rest(t, M, st) /\ Stack(M) \subseteq Stack(L) \ S /\ Front(M) \subseteq Front(L) \ S
  BY <1>1, <1>2, <1>3, RestKept
<1>7. Spared(M)
  BY <1>3 DEF Left, Spared
<1>8. R \in SUBSET Apps /\ R \cap (Stack(M) \cup Front(M)) = {}
  BY <1>1, <1>6 DEF RunningOf
<1> HIDE DEF R
<1>9. Awaits(DoIfAny("suspend", R, no) \o t, M, st)
  BY <1>1, <1>6, <1>7, <1>8, EndsFirst
<1>10. Awaits(r.todo \o t, M, st)
  BY <1>4, <1>9
<1> QED
  BY <1>2, <1>5, <1>10 DEF M, r, S, no

\* Who is on top is told so.
LEMMA TellCurrent ==
    ASSUME NEW L, Shaped(L), NEW st, NEW event \in {"active", "resume"},
           NEW S, S \subseteq {Current(L)} \ {Null},
           NEW D, NEW P, Settled(L, st, D, P), Current(L) \notin D \cup P
    PROVE  LET M == Tell(L, st, S, event)
           IN  /\ Shaped(M) /\ Settled(M, st, D, P)
               /\ Stack(M) = Stack(L) /\ Current(M) = Current(L) /\ Front(M) = Front(L) \cup S
               /\ M.kept = L.kept /\ M.carrierId = L.carrierId /\ M.onPause = L.onPause
<1> DEFINE M == Tell(L, st, S, event)
<1>e. event \in Events /\ event # "pause"
  BY DEF Events
<1>1. /\ Shaped(M)
      /\ \A a \in Apps : M.told[a] = IF a \in Listeners(st, S) THEN event ELSE L.told[a]
      /\ M.cut = L.cut /\ M.scene = L.scene /\ M.form = L.form /\ M.kept = L.kept
      /\ M.onPause = L.onPause /\ M.background = L.background
      /\ M.carrierId = L.carrierId
  BY <1>e, TellFields
<1> HIDE DEF M
<1>2. Stack(M) = Stack(L) /\ Current(M) = Current(L)
  BY <1>1 DEF Stack, Current
<1>3. ASSUME NEW a \in S
      PROVE  a \in Stack(L) /\ a \in Apps /\ IsAppRunning(st, a) /\ a \notin D \cup P
  <2>1. a = Current(L) /\ Current(L) # Null
    OBVIOUS
  <2>2. a \in Stack(L) /\ a \in Apps
    BY <2>1, StackTyped
  <2> QED
    BY <2>1, <2>2 DEF Settled
<1>4. Listeners(st, S) = S
  BY <1>3 DEF Listeners, HasDescriptor, IsAppRunning
<1>5. Front(M) = Front(L) \cup S
  <2>1. ASSUME NEW a \in Apps PROVE a \in Front(M) <=> a \in Front(L) \/ a \in S
    BY <1>1, <1>4 DEF Front
  <2>2. Front(M) \subseteq Apps /\ Front(L) \cup S \subseteq Apps
    BY <1>3 DEF Front
  <2> QED
    BY <2>1, <2>2
<1>6. M.cut # Null /\ M.scene # Null => M.told[M.scene] = "pause" \/ M.scene \in D \cup P
  <2> SUFFICES ASSUME M.cut # Null, M.scene # Null, M.scene \notin D \cup P
               PROVE  M.told[M.scene] = "pause"
    OBVIOUS
  <2>1. L.told[L.scene] = "pause" /\ L.scene # L.cut /\ L.scene \in Apps
    BY <1>1 DEF Settled, Shaped, LifeType, AppOrNull
  <2>2. L.scene \notin S
    BY <1>1, <2>1 DEF Current
  <2> QED
    BY <1>1, <1>4, <2>1, <2>2
<1>7. Settled(M, st, D, P)
  <2>1. \A a \in Stack(M) \ D : IsAppRunning(st, a)
    BY <1>2 DEF Settled
  <2>2. \A a \in Apps : M.form[a] # "none" => a \in Stack(M) \cup D
    BY <1>1, <1>2 DEF Settled
  <2>3. Front(M) \subseteq {Current(M)} \cup D \cup P
    BY <1>2, <1>5 DEF Settled
  <2>4. \A a \in Front(M) : HasDescriptor(st, a)
    BY <1>3, <1>5 DEF Settled, HasDescriptor, IsAppRunning
  <2>5. \A a \in (D \cup P) \cap Front(M) : IsAppRunning(st, a) /\ a \notin M.background
    BY <1>1, <1>3, <1>5 DEF Settled
  <2> QED
    BY <1>6, <2>1, <2>2, <2>3, <2>4, <2>5 DEF Settled
<1> QED
  BY <1>1, <1>2, <1>5, <1>7 DEF M

LEMMA CurrentTold ==
    ASSUME NEW L, Shaped(L), NEW st, NEW event \in {"active", "resume"},
           Settled(L, st, {}, {})
    PROVE  LET M == Tell(L, st, {Current(L)} \ {Null}, event)
           IN  /\ Shaped(M) /\ Settled(M, st, {}, {}) /\ Heard(M)
               /\ M.kept = L.kept /\ M.carrierId = L.carrierId
<1> DEFINE S == {Current(L)} \ {Null}
           M == Tell(L, st, S, event)
           none == {}
<1>1. S \subseteq {Current(L)} \ {Null} /\ Settled(L, st, none, none)
      /\ Current(L) \notin none \cup none
  OBVIOUS
<1>2. Current(L) # Null => Current(L) \in S
  OBVIOUS
<1> HIDE DEF S, none
<1>3. Shaped(M) /\ M.kept = L.kept /\ M.carrierId = L.carrierId
  BY <1>1, TellCurrent
<1>4. /\ Settled(M, st, none, none)
      /\ Current(M) = Current(L) /\ Front(M) = Front(L) \cup S
  <2>1. Settled(M, st, none, none) /\ Current(M) = Current(L)
    BY <1>1, TellCurrent
  <2>2. Settled(M, st, none, none) /\ Front(M) = Front(L) \cup S
    BY <1>1, TellCurrent
  <2> HIDE DEF M
  <2> QED
    BY <2>1, <2>2
<1> HIDE DEF M
<1>5. Heard(M)
  BY <1>2, <1>4 DEF Heard
<1> QED
  BY <1>3, <1>4, <1>5 DEF M, S, none

\* The scene beneath a cut app is told to pause.
LEMMA TellPause ==
    ASSUME NEW L, Shaped(L), NEW st, NEW p \in Apps, Settled(L, st, {}, {p}), Current(L) # p
    PROVE  LET M == Tell(L, st, {p}, "pause")
           IN  /\ Shaped(M) /\ Settled(M, st, {}, {}) /\ Current(M) = Current(L)
               /\ M.kept = L.kept /\ M.carrierId = L.carrierId
<1> DEFINE S == {p}
           M == Tell(L, st, S, "pause")
<1>e. "pause" \in Events
  BY DEF Events
<1>0. p \in Listeners(st, S) <=> HasDescriptor(st, p)
  BY DEF Listeners
<1>00. Listeners(st, S) \subseteq {p}
  BY DEF Listeners
<1> HIDE DEF S
<1>1. /\ Shaped(M)
      /\ \A a \in Apps : M.told[a] = IF a \in Listeners(st, S) THEN "pause" ELSE L.told[a]
      /\ M.cut = L.cut /\ M.scene = L.scene /\ M.form = L.form /\ M.kept = L.kept
      /\ M.onPause = L.onPause /\ M.background = L.background
      /\ M.carrierId = L.carrierId
  BY <1>e, TellFields
<1> HIDE DEF M
<1>2. Stack(M) = Stack(L) /\ Current(M) = Current(L)
  BY <1>1 DEF Stack, Current
<1>3. ASSUME NEW a \in Front(M) PROVE a \in Front(L) /\ a # p
  <2>1. a \in Apps /\ M.told[a] \in {"active", "resume"}
    BY DEF Front
  <2>2. a \notin Listeners(st, S) /\ L.told[a] = M.told[a]
    BY <1>1, <2>1
  <2>3. a \in Front(L)
    BY <2>1, <2>2 DEF Front
  <2>4. a = p => HasDescriptor(st, p)
    BY <2>3 DEF Settled
  <2> QED
    BY <1>0, <2>2, <2>3, <2>4
<1>4. M.cut # Null /\ M.scene # Null => M.told[M.scene] = "pause"
  <2> SUFFICES ASSUME M.cut # Null, M.scene # Null PROVE M.told[M.scene] = "pause"
    OBVIOUS
  <2>1. L.scene \in Apps /\ L.scene \in Stack(L)
    BY <1>1 DEF Shaped, LifeType, AppOrNull, Stack
  <2>2. L.scene = p => p \in Listeners(st, S)
    BY <1>0, <2>1 DEF Settled, HasDescriptor, IsAppRunning
  <2>3. L.told[L.scene] = "pause" \/ L.scene = p
    BY <1>1 DEF Settled
  <2> QED
    BY <1>1, <2>1, <2>2, <2>3
<1>5. Settled(M, st, {}, {})
  <2>1. \A a \in Stack(M) : IsAppRunning(st, a)
    BY <1>2 DEF Settled
  <2>2. \A a \in Apps : M.form[a] # "none" => a \in Stack(M)
    BY <1>1, <1>2 DEF Settled
  <2>3. Front(M) \subseteq {Current(M)}
    BY <1>2, <1>3 DEF Settled
  <2>4. \A a \in Front(M) : HasDescriptor(st, a)
    BY <1>3 DEF Settled
  <2> QED
    BY <1>4, <2>1, <2>2, <2>3, <2>4 DEF Settled
<1> QED
  BY <1>1, <1>2, <1>5 DEF M, S

\* The apps that were cleared off the stack are deactivated, and the one on top
\* is told so unless that was rejected.
LEMMA OthersDeactivated ==
    ASSUME NEW L, Shaped(L), NEW st, NEW D \in SUBSET Apps, Current(L) \in Apps,
           D \cap Stack(L) = {}, Settled(L, st, D, {}), Spared(L)
    PROVE  LET r == Deactivate(L, st, D, FALSE)
           IN  /\ Shaped(r.life)
               /\ Awaits(r.todo \o (IF r.ok THEN <<ToActivate(Current(L))>> ELSE <<>>), r.life, st)
<1> DEFINE no == FALSE
           r == Deactivate(L, st, D, no)
           M == r.life
           R == RunningOf(st, D \ L.kept)
           after == IF r.ok THEN <<ToActivate(Current(L))>> ELSE <<>>
<1>1. no \in BOOLEAN /\ ~no
  OBVIOUS
<1> HIDE DEF no
<1>2. Shaped(M)
  BY <1>1, DeactivateLeft
<1>3. Left(M, L, st, D)
  BY <1>1, DeactivateLeft
<1>4. r.todo = DoIfAny("suspend", R, FALSE)
  <2>1. \E u \in Seq(Step) :
            /\ r.todo = DoIfAny("suspend", R, FALSE) \o u
            /\ r.ok => Recovery(u, L, no /\ Current(L) \in D)
            /\ ~r.ok => u = <<>>
            /\ ~no => u = <<>>
    BY <1>1, DeactivateLeft
  <2>2. r.todo = DoIfAny("suspend", R, FALSE) \o <<>>
    BY <1>1, <2>1
  <2>3. DoIfAny("suspend", R, FALSE) \in Seq(Step)
    <3>1. R \in SUBSET Apps
      BY DEF RunningOf
    <3> QED
      BY <3>1, DoTyped DEF Ops
  <2> QED
    BY <2>2, <2>3, ConcatEmptySeq
<1>5. L.kept = {} => r.ok
  BY <1>1, DeactivateLeft
<1>6. R \subseteq D /\ FALSE \in BOOLEAN
  BY DEF RunningOf
<1>7. Current(L) \notin D
  BY StackTyped, LifetimeAssumption
<1> HIDE DEF r, R, M
<1>8. Stack(M) = Stack(L) \ D /\ Front(M) = Front(L) \ D
  BY <1>2, <1>3, LeftAlone
<1>9. Current(M) = Current(L) /\ Settled(M, st, {}, {})
  BY <1>2, <1>3, <1>7, LeftAlone
<1>10. Spared(M)
  BY <1>3 DEF Left, Spared
<1>11. Rest(after, M, st) /\ after \in Seq(Step)
  <2>1. CASE r.ok
    <3>1. ToActivate(Current(L)) \in Step
      <4>1. {Current(L)} \in SUBSET Apps /\ "active" \in Ops /\ FALSE \in BOOLEAN
        BY DEF Ops
      <4> QED
        BY <4>1, StepTyped DEF ToActivate
    <3>2. after = <<ToActivate(Current(M))>>
      BY <1>9, <2>1
    <3>3. after \in Seq(Step)
      BY <2>1, <3>1
    <3>4. Current(M) \in Apps
      BY <1>9
    <3> HIDE DEF after
    <3> QED
      BY <1>9, <3>2, <3>3, <3>4 DEF Rest
  <2>2. CASE ~r.ok
    <3>1. ~Plain
      BY <1>5, <2>2 DEF Spared
    <3> QED
      BY <1>9, <2>2, <3>1, EmptySeq DEF Rest, Heeded
  <2> QED
    BY <2>1, <2>2
<1> HIDE DEF after
<1>12. R \in SUBSET Apps /\ R \cap (Stack(M) \cup Front(M)) = {}
  BY <1>6, <1>8
<1>13. Awaits(DoIfAny("suspend", R, FALSE) \o after, M, st)
  BY <1>6, <1>10, <1>11, <1>12, EndsFirst
<1>14. Awaits(r.todo \o after, M, st)
  BY <1>4, <1>13
<1> QED
  BY <1>2, <1>14 DEF M, r, after, no

-----------------------------------------------------------------------------
\* An app comes in.

\* The fields of the app that comes in, and of the others.
Brought(M, L, a, form, carrierId, B) ==
    /\ Shaped(M)
    /\ \A b \in Apps \ {a} : M.form[b] = L.form[b]
    /\ M.told = L.told /\ M.kept = L.kept /\ M.onPause = L.onPause
    /\ M.carrierId = carrierId /\ M.background = B
    /\ M.scene = (IF BecomesScene(L, a, form) THEN a ELSE L.scene)
    /\ M.cut = (IF BecomesScene(L, a, form) THEN Null ELSE a)

LEMMA EnteredFields ==
    ASSUME NEW L, Shaped(L), NEW st, NEW a \in Apps, NEW form \in Forms,
           NEW carrierId \in AppOrNull, NEW B, B = L.background \/ B = L.background \ {a},
           a \notin B
    PROVE  Brought(Entered(L, st, a, form, carrierId, B), L, a, form, carrierId, B)
<1> DEFINE N == Note(L, st, a, form, carrierId)
           M == Entered(L, st, a, form, carrierId, B)
<1>1. N \in LifeType
  BY NoteTyped
<1>2. \A b \in Apps \ {a} : N.form[b] = L.form[b]
  BY NoteTyped
<1>3. /\ N.told = L.told /\ N.kept = L.kept /\ N.onPause = L.onPause
      /\ N.carrierId = carrierId /\ N.scene = L.scene
  BY DEF Note, Shaped, LifeType
<1> HIDE DEF N
<1>4. M = IF BecomesScene(L, a, form) THEN [N EXCEPT !.cut = Null, !.scene = a, !.background = B]
                                      ELSE [N EXCEPT !.cut = a, !.background = B]
  BY <1>1 DEF Entered, N, AddApp, LifeType
<1>5. /\ M.form = N.form /\ M.told = N.told /\ M.kept = N.kept /\ M.onPause = N.onPause
      /\ M.carrierId = N.carrierId /\ M.background = B
      /\ M.scene = (IF BecomesScene(L, a, form) THEN a ELSE N.scene)
      /\ M.cut = (IF BecomesScene(L, a, form) THEN Null ELSE a)
  <2> HIDE DEF M
  <2> QED
    BY <1>1, <1>4 DEF LifeType
<1>6. Shaped(M)
  BY PushShaped
<1> HIDE DEF M
<1> QED
  BY <1>2, <1>3, <1>5, <1>6 DEF Brought, M

\* The stack with a on it, once D has been deactivated and P paused.
LEMMA EntersSettled ==
    ASSUME NEW L, Shaped(L), NEW st, Settled(L, st, {}, {}), NEW a \in Apps,
           IsAppRunning(st, a), NEW M, Shaped(M), M.told = L.told,
           \A b \in Apps \ {a} : M.form[b] = L.form[b],
           M.background \subseteq L.background, a \in Stack(M),
           Stack(M) \subseteq Stack(L) \cup {a},
           NEW D \in SUBSET Apps, NEW P \in SUBSET Apps, D \cup P \subseteq Stack(L),
           Stack(L) \subseteq Stack(M) \cup D,
           Current(L) # Null => Current(L) \in {Current(M)} \cup D \cup P,
           M.cut # Null /\ M.scene # Null
              => M.scene \in D \cup P \/ (M.scene = L.scene /\ L.cut # Null)
    PROVE  Settled(M, st, D, P)
<1>1. \A b \in Stack(M) \ D : IsAppRunning(st, b)
  BY DEF Settled
<1>2. \A b \in Apps : M.form[b] # "none" => b \in Stack(M) \cup D
  BY DEF Settled
<1>3. Front(M) = Front(L)
  BY DEF Front
<1>4. Front(M) \subseteq {Current(M)} \cup D \cup P
  <2>1. \A b \in Front(L) : b = Current(L) /\ b \in Apps
    BY DEF Settled, Front
  <2> QED
    BY <1>3, <2>1, LifetimeAssumption
<1>5. \A b \in Front(M) : HasDescriptor(st, b)
  BY <1>3 DEF Settled
<1>6. \A b \in (D \cup P) \cap Front(M) : IsAppRunning(st, b) /\ b \notin M.background
  BY StackTyped DEF Settled
<1>7. M.cut # Null /\ M.scene # Null => M.told[M.scene] = "pause" \/ M.scene \in D \cup P
  BY DEF Settled
<1> QED
  BY <1>1, <1>2, <1>4, <1>5, <1>6, <1>7 DEF Settled

\* The carrier that is preempted is not the app on top.
LEMMA CarrierFirst ==
    ASSUME NEW M, NEW st, NEW t \in Seq(Step), Rest(t, M, st), Spared(M),
           NEW C \in SUBSET (Apps \ {Current(M)}), \A x, y \in C : x = y
    PROVE  Awaits(DoIfAny("destroy", C, FALSE) \o t, M, st)
<1>1. CASE C = {}
  <2>1. DoIfAny("destroy", C, FALSE) \o t = t
    BY <1>1, ConcatEmptySeq DEF DoIfAny
  <2> QED
    BY <2>1 DEF Awaits
<1>2. CASE C # {}
  <2>1. PICK b \in Apps \ {Current(M)} : C = {b}
    BY <1>2
  <2> QED
    BY <2>1 DEF DoIfAny, Awaits
<1> QED
  BY <1>1, <1>2

\* One step before the app that comes in hears that it is on top, or none.
LEMMA BeforeActive ==
    ASSUME NEW first \in Seq(Step), NEW s \in Seq(Step), NEW a \in Apps
    PROVE  /\ first \o s \o <<ToActivate(a)>> = first \o (s \o <<ToActivate(a)>>)
           /\ s \o <<ToActivate(a)>> \in Seq(Step)
           /\ s = <<>> => s \o <<ToActivate(a)>> = <<ToActivate(a)>>
           /\ \A x \in Step : s = <<x>> => s \o <<ToActivate(a)>> = <<x, ToActivate(a)>>
<1>1. ToActivate(a) \in Step
  <2>1. {a} \in SUBSET Apps /\ "active" \in Ops /\ FALSE \in BOOLEAN
    BY DEF Ops
  <2> QED
    BY <2>1, StepTyped DEF ToActivate
<1> DEFINE z == ToActivate(a)
           one == <<z>>
<1> HIDE DEF z
<1>2. one \in Seq(Step)
  BY <1>1 DEF z
<1>3. \A x \in Step : <<x>> \o <<z>> = <<x, z>>
  BY <1>1, TwoSteps DEF z
<1>4. \A x \in Step : s = <<x>> => s \o one = <<x, z>>
  BY <1>3
<1> HIDE DEF one
<1>5. first \o s \o one = first \o (s \o one)
  BY <1>2, ConcatAssociative
<1>6. s \o one \in Seq(Step)
  BY <1>2, ConcatProperties
<1>7. s = <<>> => s \o one = one
  BY <1>2, ConcatEmptySeq
<1> QED
  BY <1>4, <1>5, <1>6, <1>7 DEF one, z

OnTop(M, L, a, carrierId) ==
    Shaped(M) /\ Current(M) = a /\ M.kept = L.kept /\ M.carrierId = carrierId

\* The same app again.
LEMMA OnTopAgain ==
    ASSUME NEW L, Shaped(L), NEW st, NEW a \in Apps, NEW form \in Forms,
           NEW carrierId \in AppOrNull, AlreadyOnTop(L, a, form), Settled(L, st, {}, {}), Heeded(L)
    PROVE  LET M == Entered(L, st, a, form, carrierId, L.background)
           IN  Rest(<<>>, M, st) /\ OnTop(M, L, a, carrierId)
<1> DEFINE M == Entered(L, st, a, form, carrierId, L.background)
           B == L.background
<1>1. (B = L.background \/ B = L.background \ {a}) /\ a \notin B
  BY StackTyped, LifetimeAssumption DEF AlreadyOnTop
<1>2. /\ Shaped(M)
      /\ \A b \in Apps \ {a} : M.form[b] = L.form[b]
      /\ M.told = L.told /\ M.kept = L.kept /\ M.onPause = L.onPause
      /\ M.carrierId = carrierId /\ M.background = B
      /\ M.scene = (IF BecomesScene(L, a, form) THEN a ELSE L.scene)
      /\ M.cut = (IF BecomesScene(L, a, form) THEN Null ELSE a)
  <2>1. Brought(M, L, a, form, carrierId, B)
    BY <1>1, EnteredFields
  <2> HIDE DEF M
  <2> QED
    BY <2>1 DEF Brought
<1> HIDE DEF M
<1>3. M.cut = L.cut /\ M.scene = L.scene
  BY <1>2, LifetimeAssumption DEF AlreadyOnTop, Current, Shaped
<1>4. Stack(M) = Stack(L) /\ Current(M) = Current(L) /\ Current(L) = a
  BY <1>3 DEF Stack, Current, AlreadyOnTop
<1>5. a \in Stack(L)
  BY <1>4, StackTyped, LifetimeAssumption
<1>6. Front(M) = Front(L)
  BY <1>2 DEF Front
<1>7. Settled(M, st, {}, {})
  BY <1>2, <1>3, <1>4, <1>5, <1>6 DEF Settled
<1>8. Heeded(M)
  BY <1>2, <1>4, <1>6 DEF Heeded, Heard
<1> QED
  BY <1>2, <1>4, <1>7, <1>8 DEF Rest, OnTop, M

\* A scene clears the stack.
LEMMA SceneComes ==
    ASSUME NEW L, Shaped(L), NEW st, NEW a \in Apps, NEW carrierId \in AppOrNull,
           IsAppRunning(st, a), Settled(L, st, {}, {})
    PROVE  LET M == Entered(L, st, a, "scene", carrierId, L.background \ {a})
           IN  /\ Rest(DoIfAny("deactivate", Stack(L) \ {a}, FALSE) \o <<ToActivate(a)>>, M, st)
               /\ OnTop(M, L, a, carrierId)
<1> DEFINE B == L.background \ {a}
           form == "scene"
           M == Entered(L, st, a, form, carrierId, B)
           D == Stack(L) \ {a}
           P == {}
<1>1. (B = L.background \/ B = L.background \ {a}) /\ a \notin B /\ B \subseteq L.background
      /\ form \in Forms /\ BecomesScene(L, a, form)
  BY DEF Forms, BecomesScene
<1> HIDE DEF B, form
<1>2. /\ Shaped(M)
      /\ \A b \in Apps \ {a} : M.form[b] = L.form[b]
      /\ M.told = L.told /\ M.kept = L.kept /\ M.onPause = L.onPause
      /\ M.carrierId = carrierId /\ M.background = B
      /\ M.scene = (IF BecomesScene(L, a, form) THEN a ELSE L.scene)
      /\ M.cut = (IF BecomesScene(L, a, form) THEN Null ELSE a)
  <2>1. Brought(M, L, a, form, carrierId, B)
    BY <1>1, EnteredFields
  <2> HIDE DEF M
  <2> QED
    BY <2>1 DEF Brought
<1> HIDE DEF M
<1>3. M.cut = Null /\ Stack(M) = {a} /\ Current(M) = a
  BY <1>1, <1>2, LifetimeAssumption DEF Stack, Current
<1>4. /\ D \in SUBSET Apps /\ P \in SUBSET Apps /\ D \cup P \subseteq Stack(L)
      /\ Stack(L) \subseteq Stack(M) \cup D /\ Stack(M) \subseteq Stack(L) \cup {a}
      /\ D \cap Stack(M) = {}
  BY <1>3, StackTyped
<1>5. Current(L) # Null => Current(L) \in {Current(M)} \cup D \cup P
  BY <1>3, StackTyped
<1> HIDE DEF D, P
<1>6. Settled(M, st, D, P)
  BY <1>1, <1>2, <1>3, <1>4, <1>5, EntersSettled
<1>7. Rest(DoIfAny("deactivate", D, FALSE) \o <<ToActivate(a)>>, M, st)
  <2>0. DoIfAny("deactivate", D, FALSE) \in Seq(Step) /\ <<>> \in Seq(Step)
    BY <1>4, DoTyped, EmptySeq DEF Ops
  <2>1. CASE D = {}
    <3>1. DoIfAny("deactivate", D, FALSE) \o <<ToActivate(a)>> = <<ToActivate(a)>>
      BY <2>0, <2>1, BeforeActive DEF DoIfAny
    <3>2. Settled(M, st, {}, {})
      BY <1>6, <2>1 DEF P
    <3> QED
      BY <1>3, <3>1, <3>2 DEF Rest
  <2>2. CASE D # {}
    <3>1. Do("deactivate", D, FALSE) \in Step
      BY <1>4, StepTyped DEF Ops
    <3>2. DoIfAny("deactivate", D, FALSE) \o <<ToActivate(a)>>
          = <<Do("deactivate", D, FALSE), ToActivate(a)>>
      <4> DEFINE s == DoIfAny("deactivate", D, FALSE)
                 x == Do("deactivate", D, FALSE)
      <4>1. s = <<x>>
        BY <2>2 DEF DoIfAny
      <4> HIDE DEF s, x
      <4>2. s \o <<ToActivate(a)>> = <<x, ToActivate(a)>>
        BY <2>0, <3>1, <4>1, BeforeActive DEF s, x
      <4> QED
        BY <4>2 DEF s, x
    <3>3. Settled(M, st, D, {})
      BY <1>6 DEF P
    <3> QED
      BY <1>3, <1>4, <3>2, <3>3 DEF Rest
  <2> QED
    BY <2>1, <2>2
<1> QED
  BY <1>2, <1>3, <1>7 DEF OnTop, M, D, B, form

\* A scene that comes back as a cut app is the one beneath, and comes to the top.
LEMMA SceneReturns ==
    ASSUME NEW L, Shaped(L), NEW st, NEW a \in Apps, NEW carrierId \in AppOrNull,
           IsAppRunning(st, a), Settled(L, st, {}, {}), L.form[a] = "scene", a # Current(L)
    PROVE  LET M == Entered(L, st, a, "cut", carrierId, L.background \ {a})
           IN  /\ Current(L) = L.cut /\ L.cut # Null
               /\ Rest(<<Do("deactivate", {Current(L)}, FALSE), ToActivate(a)>>, M, st)
               /\ OnTop(M, L, a, carrierId)
<1> DEFINE B == L.background \ {a}
           form == "cut"
           M == Entered(L, st, a, form, carrierId, B)
           D == {Current(L)}
           P == {}
<1>1. (B = L.background \/ B = L.background \ {a}) /\ a \notin B /\ B \subseteq L.background
      /\ form \in Forms /\ BecomesScene(L, a, form)
  BY DEF Forms, BecomesScene
<1> HIDE DEF B, form
<1>2. /\ Shaped(M)
      /\ \A b \in Apps \ {a} : M.form[b] = L.form[b]
      /\ M.told = L.told /\ M.kept = L.kept /\ M.onPause = L.onPause
      /\ M.carrierId = carrierId /\ M.background = B
      /\ M.scene = (IF BecomesScene(L, a, form) THEN a ELSE L.scene)
      /\ M.cut = (IF BecomesScene(L, a, form) THEN Null ELSE a)
  <2>1. Brought(M, L, a, form, carrierId, B)
    BY <1>1, EnteredFields
  <2> HIDE DEF M
  <2> QED
    BY <2>1 DEF Brought
<1> HIDE DEF M
<1>3. M.cut = Null /\ Stack(M) = {a} /\ Current(M) = a
  BY <1>1, <1>2, LifetimeAssumption DEF Stack, Current
<1>4. L.cut # Null /\ L.scene = a /\ Current(L) = L.cut
  <2>1. a \in Stack(L)
    BY DEF Settled
  <2>2. a # L.cut
    BY LifetimeAssumption DEF Shaped
  <2>3. a = L.scene
    BY <2>1, <2>2 DEF Stack
  <2> QED
    BY <2>3 DEF Current
<1>5. Current(L) \in Stack(L) /\ Stack(L) = {a, Current(L)} /\ Current(L) \in Apps
  BY <1>4, StackTyped, LifetimeAssumption DEF Stack
<1>6. /\ D \in SUBSET Apps /\ P \in SUBSET Apps /\ D \cup P \subseteq Stack(L)
      /\ Stack(L) \subseteq Stack(M) \cup D /\ Stack(M) \subseteq Stack(L) \cup {a}
      /\ D \cap Stack(M) = {} /\ Current(L) \in D
  BY <1>3, <1>5
<1> HIDE DEF D, P
<1>7. Settled(M, st, D, P)
  BY <1>1, <1>2, <1>3, <1>6, EntersSettled
<1>8. Rest(<<Do("deactivate", D, FALSE), ToActivate(a)>>, M, st)
  <2>1. Settled(M, st, D, {})
    BY <1>7 DEF P
  <2> QED
    BY <1>3, <1>6, <2>1 DEF Rest
<1> QED
  BY <1>2, <1>3, <1>4, <1>8 DEF OnTop, M, D, B, form

\* What a cut app covers: nothing, a scene, or the cut app it replaces.
LEMMA CutComes ==
    ASSUME NEW L, Shaped(L), NEW st, NEW a \in Apps, NEW carrierId \in AppOrNull,
           IsAppRunning(st, a), Settled(L, st, {}, {}), L.form[a] # "scene", a # L.cut
    PROVE  LET M == Entered(L, st, a, "cut", carrierId, L.background \ {a})
               N == Note(L, st, a, "cut", carrierId)
           IN  /\ OnTop(M, L, a, carrierId)
               /\ Current(L) = Null => Settled(M, st, {}, {})
               /\ Current(L) # Null => N.form[Current(L)] = L.form[Current(L)]
               /\ Current(L) # Null /\ L.form[Current(L)] = "scene"
                     => Rest(<<Do("pause", {Current(L)}, FALSE), ToActivate(a)>>, M, st)
               /\ Current(L) # Null /\ L.form[Current(L)] # "scene"
                     => Rest(<<Do("deactivate", {Current(L)}, FALSE), ToActivate(a)>>, M, st)
<1> DEFINE B == L.background \ {a}
           form == "cut"
           M == Entered(L, st, a, form, carrierId, B)
<1>1. (B = L.background \/ B = L.background \ {a}) /\ a \notin B /\ B \subseteq L.background
      /\ form \in Forms
  BY DEF Forms
<1>b. ~BecomesScene(L, a, form)
  BY DEF BecomesScene
<1> HIDE DEF B, form
<1>2. /\ Shaped(M)
      /\ \A b \in Apps \ {a} : M.form[b] = L.form[b]
      /\ M.told = L.told /\ M.kept = L.kept /\ M.onPause = L.onPause
      /\ M.carrierId = carrierId /\ M.background = B
      /\ M.scene = (IF BecomesScene(L, a, form) THEN a ELSE L.scene)
      /\ M.cut = (IF BecomesScene(L, a, form) THEN Null ELSE a)
  <2>1. Brought(M, L, a, form, carrierId, B)
    BY <1>1, EnteredFields
  <2> HIDE DEF M
  <2> QED
    BY <2>1 DEF Brought
<1> HIDE DEF M
<1> DEFINE N == Note(L, st, a, form, carrierId)
<1>3. \A b \in Apps \ {a} : N.form[b] = L.form[b]
  BY <1>1, NoteTyped
<1> HIDE DEF N
<1> DEFINE last == Current(L)
<1>4. M.cut = a /\ M.scene = L.scene /\ Current(M) = a /\ Stack(M) = {a} \cup ({L.scene} \ {Null})
  BY <1>b, <1>2, LifetimeAssumption DEF Stack, Current
<1>5. a # L.scene
  BY LifetimeAssumption DEF Shaped
<1>6. last # Null => last \in Stack(L) /\ last \in Apps \ {a} /\ last \in {L.cut, L.scene}
  BY <1>5, StackTyped DEF Current
<1>7. last = Null => Stack(L) = {} /\ L.scene = Null
  BY DEF Current, Stack
<1>8. ASSUME last = Null PROVE Settled(M, st, {}, {})
  <2> DEFINE D == {}
  <2>1. /\ D \in SUBSET Apps /\ D \cup D \subseteq Stack(L)
        /\ Stack(L) \subseteq Stack(M) \cup D /\ Stack(M) \subseteq Stack(L) \cup {a}
        /\ a \in Stack(M)
    BY <1>4, <1>7, <1>8
  <2> HIDE DEF D
  <2>2. Settled(M, st, D, D)
    BY <1>1, <1>2, <1>4, <1>7, <1>8, <2>1, EntersSettled
  <2> QED
    BY <2>2 DEF D
<1>9. ASSUME last # Null, L.form[last] = "scene"
      PROVE  Rest(<<Do("pause", {last}, FALSE), ToActivate(a)>>, M, st)
  <2> DEFINE D == {}
             P == {last}
  <2>1. last = L.scene /\ L.cut = Null
    BY <1>6, <1>9 DEF Shaped, Current
  <2>2. /\ D \in SUBSET Apps /\ P \in SUBSET Apps /\ D \cup P \subseteq Stack(L)
        /\ Stack(L) \subseteq Stack(M) \cup D /\ Stack(M) \subseteq Stack(L) \cup {a}
        /\ a \in Stack(M) /\ last \in D \cup P /\ M.scene \in D \cup P
    BY <1>4, <1>6, <1>9, <2>1 DEF Stack
  <2> HIDE DEF D, P
  <2>3. Settled(M, st, D, P)
    <3>1. /\ Current(L) # Null => Current(L) \in {Current(M)} \cup D \cup P
          /\ M.cut # Null /\ M.scene # Null
                => M.scene \in D \cup P \/ (M.scene = L.scene /\ L.cut # Null)
      BY <2>2 DEF last
    <3> HIDE DEF last
    <3> QED
      BY <1>1, <1>2, <2>2, <3>1, EntersSettled
  <2>4. Settled(M, st, {}, {last})
    BY <2>3 DEF D, P
  <2> QED
    BY <1>4, <1>6, <1>9, <2>4 DEF Rest
<1>10. ASSUME last # Null, L.form[last] # "scene"
      PROVE  Rest(<<Do("deactivate", {last}, FALSE), ToActivate(a)>>, M, st)
  <2> DEFINE D == {last}
             P == {}
  <2>1. last = L.cut /\ L.cut # Null /\ L.cut # L.scene
    BY <1>6, <1>10 DEF Shaped, Current
  <2>2. /\ D \in SUBSET Apps /\ P \in SUBSET Apps /\ D \cup P \subseteq Stack(L)
        /\ Stack(L) \subseteq Stack(M) \cup D /\ Stack(M) \subseteq Stack(L) \cup {a}
        /\ a \in Stack(M) /\ last \in D \cup P /\ D \cap Stack(M) = {}
    BY <1>4, <1>6, <1>10, <2>1 DEF Stack
  <2> HIDE DEF D, P
  <2>3. Settled(M, st, D, P)
    BY <1>1, <1>2, <1>4, <2>1, <2>2, EntersSettled
  <2>4. Settled(M, st, D, {})
    BY <2>3 DEF P
  <2>5. Rest(<<Do("deactivate", D, FALSE), ToActivate(a)>>, M, st)
    BY <1>4, <2>2, <2>4 DEF Rest
  <2> QED
    BY <2>5 DEF D
<1>11. last # Null => N.form[last] = L.form[last]
  BY <1>6, <1>3
<1> QED
  BY <1>2, <1>4, <1>8, <1>9, <1>10, <1>11 DEF OnTop, M, N, B, form

LEMMA OthersKeepForms ==
    ASSUME NEW L, Shaped(L), NEW st, NEW a \in Apps, NEW form \in Forms,
           NEW carrierId \in AppOrNull, NEW b \in Apps \ {a}
    PROVE  Note(L, st, a, form, carrierId).form[b] = L.form[b]
BY DEF Note, Shaped, LifeType

LEMMA ActivateAwaits ==
    ASSUME NEW L, Shaped(L), NEW st, NEW a \in Apps, NEW form \in Forms,
           NEW carrierId \in AppOrNull, Plain => carrierId = Null, IsAppRunning(st, a),
           Settled(L, st, {}, {}), Spared(L), Heeded(L)
    PROVE  LET r == Activate(L, st, a, form, carrierId)
           IN  Awaits(r.todo, r.life, st)
<1> DEFINE r == Activate(L, st, a, form, carrierId)
           last == Current(L)
           noted == Note(L, st, a, form, carrierId)
           added == AddApp(noted, a, BecomesScene(L, a, form))
           pushed == [added EXCEPT !.background = @ \ {a}]
           again == Entered(L, st, a, form, carrierId, L.background)
           entered == Entered(L, st, a, form, carrierId, L.background \ {a})
           C == PreviousCarrier(L, st, a, carrierId)
           first == DoIfAny("destroy", C, FALSE)
           active == <<ToActivate(a)>>
           clear == DoIfAny("deactivate", Stack(L) \ {a}, FALSE)
           told == Tell(entered, st, {a}, "active")
           pause == <<Do("pause", {last}, FALSE)>>
           deactivate == <<Do("deactivate", {last}, FALSE)>>
<1>1. added \in LifeType /\ added.background = L.background
  <2>1. noted \in LifeType /\ noted.background = L.background
    BY NoteTyped
  <2> QED
    BY <2>1 DEF AddApp, LifeType, AppOrNull
<1>2. pushed = entered /\ added = again
  BY <1>1 DEF Entered, LifeType
<1>n. \A b \in Apps \ {a} : noted.form[b] = L.form[b]
  BY OthersKeepForms
<1>3. r = IF AlreadyOnTop(L, a, form) THEN Outcome(again, first, TRUE)
          ELSE IF form = "scene" THEN Outcome(entered, first \o clear \o active, TRUE)
          ELSE IF last = Null \/ noted.form[last] = "none" THEN Outcome(told, first, TRUE)
          ELSE IF noted.form[last] = "scene" THEN Outcome(entered, first \o pause \o active, TRUE)
          ELSE Outcome(entered, first \o deactivate \o active, TRUE)
  BY <1>2 DEF Activate, ToActivate
<1>4. C \in SUBSET Apps /\ a \notin C /\ \A x, y \in C : x = y
  BY DEF PreviousCarrier
<1> HIDE DEF C
<1>5. first \in Seq(Step)
  BY <1>4, DoTyped DEF Ops
<1>6. clear \in Seq(Step) /\ (last # Null => pause \in Seq(Step) /\ deactivate \in Seq(Step))
  <2>1. Stack(L) \ {a} \in SUBSET Apps /\ (last # Null => {last} \in SUBSET Apps)
    BY StackTyped
  <2>2. "pause" \in Ops /\ "deactivate" \in Ops /\ FALSE \in BOOLEAN
    BY DEF Ops
  <2>3. clear \in Seq(Step)
    BY <2>1, <2>2, DoTyped
  <2>4. ASSUME last # Null PROVE pause \in Seq(Step)
    BY <2>1, <2>2, <2>4, DoTyped
  <2>5. ASSUME last # Null PROVE deactivate \in Seq(Step)
    BY <2>1, <2>2, <2>5, DoTyped
  <2> QED
    BY <2>3, <2>4, <2>5
<1>x. last # Null => /\ Do("pause", {last}, FALSE) \in Step
                     /\ Do("deactivate", {last}, FALSE) \in Step
  <2>1. last # Null => {last} \in SUBSET Apps
    BY StackTyped
  <2>2. "pause" \in Ops /\ "deactivate" \in Ops /\ FALSE \in BOOLEAN
    BY DEF Ops
  <2> HIDE DEF last
  <2> QED
    BY <2>1, <2>2, StepTyped
<1>s. ASSUME NEW x \in Step PROVE <<x>> \o active = <<x, ToActivate(a)>>
  <2>1. {a} \in SUBSET Apps /\ "active" \in Ops /\ FALSE \in BOOLEAN
    BY DEF Ops
  <2>2. ToActivate(a) \in Step
    BY <2>1, StepTyped DEF ToActivate
  <2> QED
    BY <1>s, <2>2, TwoSteps
<1>7. ASSUME NEW M, OnTop(M, L, a, carrierId), NEW t \in Seq(Step), Rest(t, M, st)
      PROVE  Awaits(first \o t, M, st)
  <2>1. Spared(M)
    BY <1>7 DEF Spared, OnTop
  <2>2. C \in SUBSET (Apps \ {Current(M)}) /\ \A x, y \in C : x = y
    BY <1>4, <1>7 DEF OnTop
  <2> QED
    BY <1>7, <2>1, <2>2, CarrierFirst
<1>8. first \o <<>> = first /\ <<>> \in Seq(Step)
  BY <1>5, ConcatEmptySeq, EmptySeq
<1>9. ASSUME NEW s \in Seq(Step)
      PROVE  first \o s \o active = first \o (s \o active) /\ s \o active \in Seq(Step)
  BY <1>5, <1>9, BeforeActive
<1> DEFINE good(q) == Awaits(q.todo, q.life, st)
<1>10. ASSUME NEW M, NEW todo, Awaits(todo, M, st) PROVE good(Outcome(M, todo, TRUE))
  BY <1>10 DEF Outcome
<1>11. CASE AlreadyOnTop(L, a, form)
  <2> DEFINE M == again
  <2>1. Rest(<<>>, M, st)
    BY <1>11, OnTopAgain
  <2>2. OnTop(M, L, a, carrierId)
    BY <1>11, OnTopAgain
  <2>3. r = Outcome(M, first, TRUE)
    BY <1>3, <1>11
  <2> HIDE DEF again, first, good
  <2>4. Awaits(first \o <<>>, M, st)
    BY <1>7, <1>8, <2>1, <2>2
  <2>5. good(r)
    BY <1>8, <1>10, <2>3, <2>4
  <2> QED
    BY <2>5 DEF good
<1>12. CASE ~AlreadyOnTop(L, a, form) /\ form = "scene"
  <2> DEFINE M == entered
             t == clear \o active
  <2>1. Rest(t, M, st)
    BY <1>12, SceneComes
  <2>2. OnTop(M, L, a, carrierId)
    BY <1>12, SceneComes
  <2>3. r = Outcome(M, first \o clear \o active, TRUE)
    BY <1>3, <1>12
  <2> HIDE DEF entered, first, good, clear, active
  <2>4. first \o clear \o active = first \o t /\ t \in Seq(Step)
    BY <1>6, <1>9
  <2> HIDE DEF t
  <2>5. Awaits(first \o t, M, st)
    BY <1>7, <2>1, <2>2, <2>4
  <2>6. good(r)
    BY <1>10, <2>3, <2>4, <2>5
  <2> QED
    BY <2>6 DEF good
<1>13. CASE ~AlreadyOnTop(L, a, form) /\ form = "cut" /\ L.form[a] = "scene"
  <2> DEFINE M == entered
             t == deactivate \o active
             x == Do("deactivate", {last}, FALSE)
  <2>0. BecomesScene(L, a, form) /\ a # last
    <3>1. BecomesScene(L, a, form)
      BY <1>13 DEF BecomesScene
    <3>2. a = last => a = L.scene
      BY <1>13, LifetimeAssumption DEF Shaped, Current
    <3> QED
      BY <1>13, <3>1, <3>2 DEF AlreadyOnTop
  <2>1. Rest(<<x, ToActivate(a)>>, M, st)
    BY <1>13, <2>0, SceneReturns
  <2>2. OnTop(M, L, a, carrierId)
    BY <1>13, <2>0, SceneReturns
  <2>3. last = L.cut /\ L.cut # Null
    BY <1>13, <2>0, SceneReturns
  <2>4. noted.form[last] = "cut"
    <3>1. last \in Apps \ {a} /\ L.form[last] = "cut"
      BY <2>0, <2>3 DEF Shaped, LifeType, AppOrNull
    <3> HIDE DEF noted, last
    <3> QED
      BY <1>n, <3>1
  <2>5. r = Outcome(M, first \o deactivate \o active, TRUE)
    <3> HIDE DEF r, noted, entered, first, deactivate, active, told, clear, pause, again, last
    <3> QED
      BY <1>3, <1>13, <2>3, <2>4 DEF M
  <2>6. deactivate \o active = <<x, ToActivate(a)>>
    <3>1. x \in Step
      BY <1>x, <2>3
    <3>2. deactivate = <<x>>
      OBVIOUS
    <3> HIDE DEF x, deactivate, active
    <3> QED
      BY <1>s, <3>1, <3>2
  <2> HIDE DEF entered, first, good, deactivate, active, x
  <2>7. first \o deactivate \o active = first \o t /\ t \in Seq(Step)
    BY <1>6, <1>9, <2>3
  <2>8. Rest(t, M, st)
    BY <2>1, <2>6
  <2> HIDE DEF t
  <2>9. Awaits(first \o t, M, st)
    BY <1>7, <2>2, <2>7, <2>8
  <2>10. good(r)
    BY <1>10, <2>5, <2>7, <2>9
  <2> QED
    BY <2>10 DEF good
<1>14. CASE ~AlreadyOnTop(L, a, form) /\ form = "cut" /\ L.form[a] # "scene"
  <2> DEFINE M == entered
  <2>0. a # L.cut
    BY <1>14, LifetimeAssumption DEF AlreadyOnTop, BecomesScene, Current
  <2>1. OnTop(M, L, a, carrierId)
    BY <1>14, <2>0, CutComes
  <2>2. last = Null => Settled(M, st, {}, {})
    BY <1>14, <2>0, CutComes
  <2>3. last # Null => noted.form[last] = L.form[last]
    BY <1>14, <2>0, CutComes
  <2>4. last # Null /\ L.form[last] = "scene"
           => Rest(<<Do("pause", {last}, FALSE), ToActivate(a)>>, M, st)
    BY <1>14, <2>0, CutComes
  <2>5. last # Null /\ L.form[last] # "scene"
           => Rest(<<Do("deactivate", {last}, FALSE), ToActivate(a)>>, M, st)
    BY <1>14, <2>0, CutComes
  <2>6. last # Null => last \in Apps /\ L.form[last] # "none"
    BY StackTyped
  <2>7. CASE last = Null
    <3> DEFINE T == Tell(M, st, {Current(M)} \ {Null}, "active")
    <3>1. r = Outcome(told, first, TRUE)
      BY <1>3, <1>14, <2>7
    <3>2. told = T
      BY <2>1, LifetimeAssumption DEF OnTop
    <3> HIDE DEF told, entered, first, good, r
    <3>3. Settled(T, st, {}, {}) /\ Heard(T) /\ T.kept = M.kept /\ T.carrierId = M.carrierId
      BY <2>1, <2>2, <2>7, CurrentTold DEF OnTop
    <3>4. Shaped(T) /\ Current(T) = a
      <4>1. "active" \in Events
        BY DEF Events
      <4>2. Shaped(T) /\ T.cut = M.cut /\ T.scene = M.scene
        BY <2>1, <4>1, TellShaped DEF OnTop
      <4> QED
        BY <2>1, <4>2 DEF OnTop, Current
    <3> HIDE DEF T
    <3>5. Rest(<<>>, T, st)
      BY <3>3 DEF Rest, Heeded
    <3>6. Awaits(first \o <<>>, T, st)
      <4>1. OnTop(T, L, a, carrierId)
        BY <2>1, <3>3, <3>4 DEF OnTop
      <4> QED
        BY <1>7, <1>8, <3>5, <4>1
    <3>7. good(r)
      BY <1>8, <1>10, <3>1, <3>2, <3>6
    <3> QED
      BY <3>7 DEF good, r
  <2>8. CASE last # Null /\ L.form[last] = "scene"
    <3> DEFINE t == pause \o active
               x == Do("pause", {last}, FALSE)
    <3>1. r = Outcome(M, first \o pause \o active, TRUE)
      <4> HIDE DEF r, noted, entered, first, deactivate, active, told, clear, pause, again, last
      <4> QED
        BY <1>3, <1>14, <2>3, <2>8 DEF M
    <3>2. pause \o active = <<x, ToActivate(a)>>
      <4>1. x \in Step
        BY <1>x, <2>8
      <4>2. pause = <<x>>
        OBVIOUS
      <4> HIDE DEF x, pause, active
      <4> QED
        BY <1>s, <4>1, <4>2
    <3>3. Rest(<<x, ToActivate(a)>>, M, st)
      BY <2>4, <2>8
    <3> HIDE DEF entered, first, good, pause, active, x, r
    <3>4. first \o pause \o active = first \o t /\ t \in Seq(Step)
      BY <1>6, <1>9, <2>8
    <3>5. Rest(t, M, st)
      BY <3>2, <3>3
    <3> HIDE DEF t
    <3>6. Awaits(first \o t, M, st)
      BY <1>7, <2>1, <3>4, <3>5
    <3>7. good(r)
      BY <1>10, <3>1, <3>4, <3>6
    <3> QED
      BY <3>7 DEF good, r
  <2>9. CASE last # Null /\ L.form[last] # "scene"
    <3> DEFINE t == deactivate \o active
               x == Do("deactivate", {last}, FALSE)
    <3>1. r = Outcome(M, first \o deactivate \o active, TRUE)
      <4> HIDE DEF r, noted, entered, first, deactivate, active, told, clear, pause, again, last
      <4> QED
        BY <1>3, <1>14, <2>3, <2>6, <2>9 DEF M
    <3>2. deactivate \o active = <<x, ToActivate(a)>>
      <4>1. x \in Step
        BY <1>x, <2>9
      <4>2. deactivate = <<x>>
        OBVIOUS
      <4> HIDE DEF x, deactivate, active
      <4> QED
        BY <1>s, <4>1, <4>2
    <3>3. Rest(<<x, ToActivate(a)>>, M, st)
      BY <2>5, <2>9
    <3> HIDE DEF entered, first, good, deactivate, active, x, r
    <3>4. first \o deactivate \o active = first \o t /\ t \in Seq(Step)
      BY <1>6, <1>9, <2>9
    <3>5. Rest(t, M, st)
      BY <3>2, <3>3
    <3> HIDE DEF t
    <3>6. Awaits(first \o t, M, st)
      BY <1>7, <2>1, <3>4, <3>5
    <3>7. good(r)
      BY <1>10, <3>1, <3>4, <3>6
    <3> QED
      BY <3>7 DEF good, r
  <2> QED
    BY <2>7, <2>8, <2>9
<1> QED
  BY <1>11, <1>12, <1>13, <1>14 DEF Forms

-----------------------------------------------------------------------------
\* Steps, when calls do not overlap

\* One call at a time.
OneCall == \E only \in Nat : Calls = {only}

\* What is left to do agrees with the fields and with the processes.
Serial == \A c \in Calls : Awaits(chains[c], life, appStatus)
SerialNext == \A c \in Calls : Awaits(chains'[c], life', appStatus')

\* Nothing is left to do.
LEMMA EmptyAwaits ==
    ASSUME NEW L, NEW st, Awaits(<<>>, L, st)
    PROVE  Settled(L, st, {}, {}) /\ Heeded(L) /\ Spared(L)
<1>1. PICK t \in Seq(Step) :
          /\ Rest(t, L, st)
          /\ \/ <<>> = t
             \/ \E S \in SUBSET Apps, force \in BOOLEAN :
                   /\ <<>> = <<Do("suspend", S, force)>> \o t
                   /\ S \cap (Stack(L) \cup Front(L)) = {}
             \/ \E b \in Apps \ {Current(L)} : <<>> = <<Do("destroy", {b}, FALSE)>> \o t
  BY DEF Awaits
<1>2. \A x \in Step : <<>> # <<x>> \o t
  BY FirstOf
<1>3. \A S \in SUBSET Apps, force \in BOOLEAN : <<>> # <<Do("suspend", S, force)>> \o t
  <2>1. \A S \in SUBSET Apps, force \in BOOLEAN : Do("suspend", S, force) \in Step
    BY DEF Do, Step, Ops
  <2> QED
    BY <1>2, <2>1
<1>4. \A b \in Apps : <<>> # <<Do("destroy", {b}, FALSE)>> \o t
  <2>1. \A b \in Apps : Do("destroy", {b}, FALSE) \in Step
    BY DEF Do, Step, Ops
  <2> QED
    BY <1>2, <2>1
<1>5. Rest(<<>>, L, st)
  BY <1>1, <1>3, <1>4
<1>6. Spared(L)
  BY DEF Awaits
<1> QED
  BY <1>5, <1>6 DEF Rest

LEMMA IdleSettled ==
    ASSUME Serial, NEW c \in Calls, FreeChain(c)
    PROVE  Settled(life, appStatus, {}, {}) /\ Heeded(life) /\ Spared(life)
<1>1. Awaits(<<>>, life, appStatus)
  BY DEF Serial, FreeChain
<1> QED
  BY <1>1, EmptyAwaits

LEMMA IssueSerial ==
    ASSUME OneCall, TypeOK, NEW STATE r, NEW STATE st, Awaits(r.todo, r.life, st),
           Issue(r), appStatus' = st
    PROVE  SerialNext
<1>1. PICK c \in Calls : life' = r.life /\ chains' = [chains EXCEPT ![c] = r.todo]
  BY DEF Issue
<1>2. ASSUME NEW d \in Calls PROVE chains'[d] = r.todo
  BY <1>1, <1>2 DEF OneCall, TypeOK
<1> QED
  BY <1>1, <1>2 DEF SerialNext

LEMMA CallSerial ==
    ASSUME OneCall, TypeOK, NEW STATE r, Awaits(r.todo, r.life, appStatus), Call(r)
    PROVE  SerialNext
BY IssueSerial DEF Call, schedulerVars

\* A call starts from a settled stack.
LEMMA CallIdle ==
    ASSUME Serial, NEW STATE r, Issue(r)
    PROVE  Settled(life, appStatus, {}, {}) /\ Heeded(life) /\ Spared(life)
BY IdleSettled DEF Issue

\* The fields that a quick call leaves alone.
LEMMA SameStack ==
    ASSUME NEW K, Shaped(K), NEW L, NEW st, L.cut = K.cut, L.scene = K.scene,
           L.form = K.form, L.told = K.told, L.background = K.background,
           Heeded(K) => Heeded(L)
    PROVE  Carries(L, st, K, st) /\ Front(L) = Front(K)
<1>1. Current(L) = Current(K) /\ Stack(L) = Stack(K)
  BY DEF Current, Stack
<1>2. Front(L) = Front(K)
  BY DEF Front
<1>3. ASSUME NEW D \in SUBSET Apps, NEW P \in SUBSET Apps, Settled(K, st, D, P)
      PROVE  Settled(L, st, D, P)
  BY <1>1, <1>2, <1>3 DEF Settled
<1> QED
  BY <1>1, <1>2, <1>3 DEF Carries

LEMMA QuickSerial ==
    ASSUME TypeOK, Shaped(life), Serial, NEW STATE L, Quick(L),
           Carries(L, appStatus, life, appStatus), Front(L) \subseteq Front(life) \cup Stack(life),
           Spared(life) => Spared(L)
    PROVE  SerialNext
<1>1. life' = L /\ chains' = chains /\ appStatus' = appStatus
  BY DEF Quick
<1>2. ASSUME NEW c \in Calls PROVE Awaits(chains[c], L, appStatus)
  <2>1. Awaits(chains[c], life, appStatus)
    BY DEF Serial
  <2> QED
    BY <2>1, AwaitsCarried
<1> QED
  BY <1>1, <1>2 DEF SerialNext

LEMMA ActivateAppByIdSerial ==
    ASSUME OneCall, TypeOK, Shaped(life), Serial, NEW a \in Apps, NEW form \in Forms,
           NEW carrierId \in Carriers \cup {Null}, ActivateAppById(a, form, carrierId)
    PROVE  SerialNext
<1> DEFINE r == Activate(life, appStatus, a, form, carrierId)
<1>1. Call(r) /\ IsAppRunning(appStatus, a)
  BY DEF ActivateAppById, CanActivate
<1>2. carrierId \in AppOrNull /\ (Plain => carrierId = Null)
  BY LifetimeAssumption DEF AppOrNull, Plain
<1>3. Settled(life, appStatus, {}, {}) /\ Heeded(life) /\ Spared(life)
  <2> HIDE DEF r
  <2> QED
    BY <1>1, CallIdle DEF Call
<1>4. Awaits(r.todo, r.life, appStatus)
  BY <1>1, <1>2, <1>3, ActivateAwaits
<1> HIDE DEF r
<1> QED
  BY <1>1, <1>4, CallSerial

LEMMA SetBackgroundByIdSerial ==
    ASSUME OneCall, TypeOK, Shaped(life), Serial, NEW a \in Apps, SetBackgroundById(a)
    PROVE  SerialNext
<1> DEFINE r == SetBackground(life, appStatus, {a}, TRUE)
<1>1. Call(r) /\ HasDescriptor(appStatus, a)
  BY DEF SetBackgroundById
<1>2. Settled(life, appStatus, {}, {}) /\ Heeded(life) /\ Spared(life)
  <2> HIDE DEF r
  <2> QED
    BY <1>1, CallIdle DEF Call
<1>3. Awaits(r.todo, r.life, appStatus)
  BY <1>1, <1>2, SetBackgroundAwaits
<1> HIDE DEF r
<1> QED
  BY <1>1, <1>3, CallSerial

LEMMA DeactivateSerial ==
    ASSUME OneCall, TypeOK, Shaped(life), Serial, NEW S \in SUBSET Apps, NEW recover \in BOOLEAN,
           Call(Deactivate(life, appStatus, S, recover)),
           Stack(life) \subseteq S \/ recover
    PROVE  SerialNext
<1> DEFINE r == Deactivate(life, appStatus, S, recover)
<1>1. Call(r)
  OBVIOUS
<1>2. Settled(life, appStatus, {}, {}) /\ Heeded(life) /\ Spared(life)
  <2> HIDE DEF r
  <2> QED
    BY <1>1, CallIdle DEF Call
<1>3. Settled(life, appStatus, S, {})
  <2>1. {} \in SUBSET Apps /\ S \cup {} = S
    OBVIOUS
  <2>2. Settled(life, appStatus, S \cup {}, {})
    BY <1>2, <2>1, SettledFor
  <2> QED
    BY <2>1, <2>2
<1>4. Minds(life, S, recover)
  BY <1>2 DEF Minds, Heeded
<1>5. Awaits(r.todo, r.life, appStatus)
  BY <1>2, <1>3, <1>4, DeactivateAwaits
<1> HIDE DEF r
<1> QED
  BY <1>1, <1>5, CallSerial

LEMMA ReleaseSerial ==
    ASSUME TypeOK, Shaped(life), Serial, NEW STATE m, Quick([life EXCEPT !.monopolist = m])
    PROVE  SerialNext
<1> DEFINE L == [life EXCEPT !.monopolist = m]
<1>1. /\ L.cut = life.cut /\ L.scene = life.scene /\ L.form = life.form
      /\ L.told = life.told /\ L.background = life.background /\ L.onPause = life.onPause
      /\ L.kept = life.kept /\ L.carrierId = life.carrierId
  BY DEF Shaped, LifeType
<1>2. Quick(L)
  OBVIOUS
<1> HIDE DEF L
<1>3. Heeded(life) => Heeded(L)
  BY <1>1 DEF Heeded, Heard, Current, Front
<1>4. Spared(life) => Spared(L)
  BY <1>1 DEF Spared
<1>5. Carries(L, appStatus, life, appStatus) /\ Front(L) = Front(life)
  BY <1>1, <1>3, SameStack
<1> QED
  BY <1>2, <1>4, <1>5, QuickSerial

LEMMA ExitAppByIdSerial ==
    ASSUME OneCall, TypeOK, Shaped(life), Serial, NEW a \in Apps, NEW b \in BOOLEAN,
           ExitAppById(a, b)
    PROVE  SerialNext
<1>1. CASE Call(Deactivate(life, appStatus, {a}, TRUE))
  <2>1. {a} \in SUBSET Apps
    OBVIOUS
  <2> QED
    BY <1>1, <2>1, DeactivateSerial
<1>2. CASE Quick([life EXCEPT !.monopolist = Null])
  BY <1>2, ReleaseSerial
<1> QED
  BY <1>1, <1>2 DEF ExitAppById

LEMMA DestroyAppByIdSerial ==
    ASSUME OneCall, TypeOK, Shaped(life), Serial, NEW a \in Apps, DestroyAppById(a)
    PROVE  SerialNext
<1> DEFINE r == Destroy(life, appStatus, {a}, TRUE)
<1>1. Call(r)
  BY DEF DestroyAppById
<1>2. Settled(life, appStatus, {}, {}) /\ Heeded(life) /\ Spared(life)
  <2> HIDE DEF r
  <2> QED
    BY <1>1, CallIdle DEF Call
<1>3. Settled(life, appStatus, {a}, {})
  <2>1. {} \in SUBSET Apps /\ {a} \cup {} = {a} /\ {a} \in SUBSET Apps
    OBVIOUS
  <2>2. Settled(life, appStatus, {a} \cup {}, {})
    BY <1>2, <2>1, SettledFor
  <2> QED
    BY <2>1, <2>2
<1>4. Plain => Current(life) \notin {a}
  <2> SUFFICES ASSUME Plain PROVE Current(life) # a
    OBVIOUS
  <2>1. ~IsAppRunning(appStatus, a)
    BY DEF DestroyAppById, Plain
  <2>2. a \notin Stack(life)
    BY <1>2, <2>1 DEF Settled
  <2> QED
    BY <2>2, StackTyped, LifetimeAssumption
<1>5. Awaits(r.todo, r.life, appStatus)
  BY <1>2, <1>3, <1>4, DestroyAwaits
<1> HIDE DEF r
<1> QED
  BY <1>1, <1>5, CallSerial

LEMMA DestroyAllSerial ==
    ASSUME OneCall, TypeOK, Shaped(life), Serial, NEW force \in BOOLEAN, DestroyAll(force)
    PROVE  SerialNext
<1> DEFINE running == {a \in Apps : IsAppRunning(appStatus, a)}
           gone == Forget(life, Apps)
           cleared == [gone EXCEPT !.background = {}]
           T == Tell(cleared, appStatus, running, "destroy")
           x == Do("suspend", Apps, force)
           r == Outcome(T, <<x>>, TRUE)
<1>1. Call(r)
  BY DEF DestroyAll
<1>2. Settled(life, appStatus, {}, {}) /\ Heeded(life) /\ Spared(life)
  <2> HIDE DEF r
  <2> QED
    BY <1>1, CallIdle DEF Call
<1>3. /\ Shaped(gone) /\ Vacated(gone, life, Apps)
      /\ \A a \in Apps : gone.form[a] = IF a \in Apps THEN "none" ELSE life.form[a]
      /\ gone.kept = life.kept \ Apps /\ gone.told = life.told /\ gone.onPause = life.onPause
      /\ gone.background = life.background /\ gone.carrierId = life.carrierId
  BY ForgetFields
<1> HIDE DEF gone
<1>4. /\ Shaped(cleared) /\ cleared.cut = gone.cut /\ cleared.scene = gone.scene
      /\ cleared.form = gone.form /\ cleared.kept = gone.kept /\ cleared.told = gone.told
      /\ cleared.carrierId = gone.carrierId
  BY <1>3 DEF Shaped, LifeType
<1> HIDE DEF cleared
<1>e. "destroy" \in Events
  BY DEF Events
<1>5. \A a \in Apps : IsAppRunning(appStatus, a) => a \in Listeners(appStatus, running)
  BY DEF Listeners, HasDescriptor, IsAppRunning
<1> HIDE DEF running
<1>6. /\ Shaped(T)
      /\ \A a \in Apps : T.told[a] = IF a \in Listeners(appStatus, running) THEN "destroy"
                                                                           ELSE cleared.told[a]
      /\ T.cut = cleared.cut /\ T.scene = cleared.scene /\ T.form = cleared.form
      /\ T.kept = cleared.kept /\ T.onPause = cleared.onPause
      /\ T.background = cleared.background /\ T.carrierId = cleared.carrierId
  BY <1>4, <1>e, TellFields
<1> HIDE DEF T
<1>7. T.cut = Null /\ T.scene = Null
  BY <1>3, <1>4, <1>6 DEF Vacated, Shaped, LifeType, AppOrNull
<1>8. Stack(T) = {} /\ Current(T) = Null
  BY <1>7 DEF Stack, Current
<1>9. Front(T) = {}
  <2>1. ASSUME NEW a \in Apps, T.told[a] \in {"active", "resume"} PROVE FALSE
    <3>1. life.told[a] \in {"active", "resume"} /\ ~IsAppRunning(appStatus, a)
      BY <1>3, <1>4, <1>6, <1>5, <2>1
    <3>2. a \in Front(life)
      BY <3>1 DEF Front
    <3>3. a = Current(life)
      BY <1>2, <3>2 DEF Settled
    <3>4. a \in Stack(life)
      BY <3>3, StackTyped, LifetimeAssumption
    <3> QED
      BY <1>2, <3>1, <3>4 DEF Settled
  <2> QED
    BY <2>1 DEF Front
<1>10. Settled(T, appStatus, {}, {})
  BY <1>3, <1>4, <1>6, <1>7, <1>8, <1>9 DEF Settled
<1>11. Rest(<<>>, T, appStatus)
  BY <1>8, <1>10 DEF Rest, Heeded, Heard
<1>12. Spared(T)
  BY <1>2, <1>3, <1>4, <1>6 DEF Spared
<1>13. <<x>> \o <<>> = <<x>> /\ <<>> \in Seq(Step)
  <2>1. x \in Step
    BY DEF Do, Step, Ops
  <2>2. <<x>> \in Seq(Step)
    BY <2>1
  <2> QED
    BY <2>2, ConcatEmptySeq, EmptySeq
<1>14. Awaits(<<x>>, T, appStatus)
  <2>1. Apps \in SUBSET Apps /\ Apps \cap (Stack(T) \cup Front(T)) = {}
    BY <1>8, <1>9
  <2>2. <<x>> = <<Do("suspend", Apps, force)>> \o <<>>
    BY <1>13
  <2> HIDE DEF x
  <2> QED
    BY <1>11, <1>12, <1>13, <2>1, <2>2 DEF Awaits
<1>15. r.life = T /\ r.todo = <<x>>
  BY DEF Outcome
<1> HIDE DEF r, x
<1> QED
  BY <1>1, <1>14, <1>15, CallSerial

LEMMA PauseLifetimeSerial ==
    ASSUME TypeOK, Shaped(life), Serial, PauseLifetime
    PROVE  SerialNext
<1> DEFINE L == [life EXCEPT !.onPause = Current(life)]
<1>1. /\ L.cut = life.cut /\ L.scene = life.scene /\ L.form = life.form
      /\ L.told = life.told /\ L.background = life.background /\ L.onPause = Current(life)
      /\ L.kept = life.kept /\ L.carrierId = life.carrierId
  BY DEF Shaped, LifeType
<1>2. Quick(L) /\ Current(life) # Null
  BY DEF PauseLifetime
<1> HIDE DEF L
<1>3. Heeded(L)
  BY <1>1, <1>2 DEF Heeded, Heard
<1>4. Spared(life) => Spared(L)
  BY <1>1 DEF Spared
<1>5. Carries(L, appStatus, life, appStatus) /\ Front(L) = Front(life)
  BY <1>1, <1>3, SameStack
<1> QED
  BY <1>2, <1>4, <1>5, QuickSerial

LEMMA SetKeepAliveSerial ==
    ASSUME TypeOK, Shaped(life), Serial, NEW a \in Apps, NEW keepAlive, SetKeepAlive(a, keepAlive)
    PROVE  SerialNext
<1> DEFINE k == IF keepAlive THEN life.kept \cup {a} ELSE life.kept \ {a}
           L == [life EXCEPT !.kept = k]
<1>1. Quick(L) /\ ~Plain
  BY DEF SetKeepAlive, Shaped, LifeType, Plain
<1> HIDE DEF k
<1>2. /\ L.cut = life.cut /\ L.scene = life.scene /\ L.form = life.form
      /\ L.told = life.told /\ L.background = life.background
  BY DEF Shaped, LifeType
<1> HIDE DEF L
<1>3. Heeded(L) /\ Spared(L)
  BY <1>1 DEF Heeded, Spared
<1>4. Carries(L, appStatus, life, appStatus) /\ Front(L) = Front(life)
  BY <1>2, <1>3, SameStack
<1> QED
  BY <1>1, <1>3, <1>4, QuickSerial

LEMMA ResumeLifetimeSerial ==
    ASSUME TypeOK, Shaped(life), Serial, NEW recover \in RecoverOptions, ResumeLifetime(recover)
    PROVE  SerialNext
<1> DEFINE awake == [life EXCEPT !.onPause = Null]
           top == {Current(life)} \ {Null, life.onPause}
           T == Tell(awake, appStatus, top, "resume")
           L == IF recover THEN T ELSE awake
<1>1. Quick(L) /\ ~Plain
  BY DEF ResumeLifetime, Plain
<1>2. /\ Shaped(awake) /\ awake.cut = life.cut /\ awake.scene = life.scene
      /\ awake.form = life.form /\ awake.told = life.told
      /\ awake.background = life.background
  BY DEF Shaped, LifeType, AppOrNull
<1> HIDE DEF awake
<1>3. Heeded(awake) /\ Heeded(L) /\ Spared(L)
  BY <1>1 DEF Heeded, Spared
<1>4. Carries(awake, appStatus, life, appStatus) /\ Front(awake) = Front(life)
  BY <1>2, <1>3, SameStack
<1>5. /\ Current(awake) = Current(life) /\ Stack(awake) = Stack(life)
  BY <1>2 DEF Current, Stack
<1>6. top \subseteq {Current(awake)} \ {Null} /\ top \subseteq Stack(life)
  BY <1>5, StackTyped
<1> HIDE DEF top
<1>e. "resume" \in Events /\ "resume" \in {"active", "resume"}
  BY DEF Events
<1>7. ASSUME NEW D \in SUBSET Apps, NEW P \in SUBSET Apps,
             Current(life) \notin D \cup P, Settled(life, appStatus, D, P)
      PROVE  Settled(T, appStatus, D, P)
  <2>1. Settled(awake, appStatus, D, P)
    BY <1>4, <1>7 DEF Carries
  <2> QED
    BY <1>2, <1>5, <1>6, <1>7, <1>e, <2>1, TellCurrent
<1>8. Shaped(T) /\ T.cut = awake.cut /\ T.scene = awake.scene
  BY <1>2, <1>e, TellShaped
<1>9. Front(T) \subseteq Front(life) \cup Stack(life)
  <2>1. ASSUME NEW a \in Front(T), a \notin top PROVE a \in Front(awake)
    <3>1. \A b \in Apps : T.told[b] = IF b \in Listeners(appStatus, top) THEN "resume"
                                                                        ELSE awake.told[b]
      BY <1>2, <1>e, TellFields
    <3>2. a \notin Listeners(appStatus, top)
      BY <2>1 DEF Listeners
    <3> HIDE DEF T
    <3> QED
      BY <3>1, <3>2 DEF Front
  <2> QED
    BY <1>4, <1>6, <2>1
<1>10. Current(T) = Current(life) /\ Stack(T) = Stack(life)
  BY <1>2, <1>8 DEF Current, Stack
<1> HIDE DEF T
<1>11. Carries(L, appStatus, life, appStatus) /\ Front(L) \subseteq Front(life) \cup Stack(life)
  <2>1. CASE recover
    <3>1. Carries(T, appStatus, life, appStatus)
      BY <1>3, <1>7, <1>10, <2>1 DEF Carries
    <3> QED
      BY <1>9, <2>1, <3>1
  <2>2. CASE ~recover
    BY <1>4, <2>2
  <2> QED
    BY <2>1, <2>2
<1> HIDE DEF L
<1> QED
  BY <1>1, <1>3, <1>11, QuickSerial

LEMMA RequestSerial ==
    ASSUME OneCall, TypeOK, Shaped(life), Serial, Request
    PROVE  SerialNext
<1>1. ASSUME NEW a \in Apps, NEW form \in Forms, NEW carrierId \in Carriers \cup {Null},
             ActivateAppById(a, form, carrierId)
      PROVE  SerialNext
  BY <1>1, ActivateAppByIdSerial
<1>2. ASSUME NEW a \in Apps, SetBackgroundById(a) \/ DestroyAppById(a)
      PROVE  SerialNext
  BY <1>2, SetBackgroundByIdSerial, DestroyAppByIdSerial
<1>3. ASSUME NEW a \in Apps, StartMonologue(a) \/ StopMonologue(a)
      PROVE  SerialNext
  BY <1>3, ReleaseSerial DEF StartMonologue, StopMonologue
<1>4. ASSUME NEW a \in Apps, NEW b \in BOOLEAN, ExitAppById(a, b) \/ SetKeepAlive(a, b)
      PROVE  SerialNext
  BY <1>4, ExitAppByIdSerial, SetKeepAliveSerial
<1>5. ASSUME DeactivateCutApp
      PROVE  SerialNext
  <2>1. {life.cut} \in SUBSET Apps
    BY <1>5 DEF DeactivateCutApp, Shaped, LifeType, AppOrNull
  <2> QED
    BY <1>5, <2>1, DeactivateSerial DEF DeactivateCutApp
<1>6. ASSUME DeactivateAppsInStack
      PROVE  SerialNext
  <2>1. Stack(life) \in SUBSET Apps
    BY StackTyped
  <2> QED
    BY <1>6, <2>1, DeactivateSerial DEF DeactivateAppsInStack
<1>7. ASSUME PauseLifetime \/ CheckMonopoly
      PROVE  SerialNext
  BY <1>7, PauseLifetimeSerial, ReleaseSerial DEF CheckMonopoly
<1>8. ASSUME NEW b \in BOOLEAN, DestroyAll(b)
      PROVE  SerialNext
  BY <1>8, DestroyAllSerial
<1>9. ASSUME NEW b \in RecoverOptions, ResumeLifetime(b)
      PROVE  SerialNext
  BY <1>9, ResumeLifetimeSerial
<1> QED
  BY <1>1, <1>2, <1>3, <1>4, <1>5, <1>6, <1>7, <1>8, <1>9 DEF Request

\* Continuations.

LEMMA ContinueSerial ==
    ASSUME OneCall, TypeOK, NEW c \in Calls, NEW STATE r, Continue(c, r),
           Awaits(r.todo \o (IF r.ok THEN Tail(chains[c]) ELSE <<>>), r.life, appStatus)
    PROVE  SerialNext
<1> DEFINE q == r.todo \o (IF r.ok THEN Tail(chains[c]) ELSE <<>>)
<1>1. life' = r.life /\ chains' = [chains EXCEPT ![c] = q] /\ appStatus' = appStatus
  BY DEF Continue, schedulerVars
<1>2. Awaits(q, r.life, appStatus)
  OBVIOUS
<1> HIDE DEF q
<1>3. ASSUME NEW d \in Calls PROVE chains'[d] = q
  BY <1>1, <1>3 DEF OneCall, TypeOK
<1> QED
  BY <1>1, <1>2, <1>3 DEF SerialNext

\* The head of the chain, and what it says of the fields.
LEMMA HeadAwaits ==
    ASSUME Serial, NEW c \in Calls, chains[c] # <<>>
    PROVE  /\ Spared(life)
           /\ Head(chains[c]).op = "suspend" =>
                 /\ Tail(chains[c]) \in Seq(Step) /\ Rest(Tail(chains[c]), life, appStatus)
                 /\ Arg(c) \cap (Stack(life) \cup Front(life)) = {}
           /\ Head(chains[c]).op = "destroy" =>
                 /\ Tail(chains[c]) \in Seq(Step) /\ Rest(Tail(chains[c]), life, appStatus)
                 /\ \E b \in Apps \ {Current(life)} : Arg(c) = {b}
           /\ Head(chains[c]).op \notin {"suspend", "destroy"}
                 => Rest(chains[c], life, appStatus)
<1> DEFINE q == chains[c]
<1>1. Awaits(q, life, appStatus) /\ q # <<>>
  BY DEF Serial
<1>2. Arg(c) = Head(q).apps
  BY DEF Arg
<1> HIDE DEF q
<1>3. /\ Spared(life)
      /\ \/ Rest(q, life, appStatus)
         \/ /\ Head(q).op = "suspend" /\ Tail(q) \in Seq(Step) /\ Rest(Tail(q), life, appStatus)
            /\ Head(q).apps \cap (Stack(life) \cup Front(life)) = {}
         \/ /\ Head(q).op = "destroy" /\ Tail(q) \in Seq(Step) /\ Rest(Tail(q), life, appStatus)
            /\ \E b \in Apps \ {Current(life)} : Head(q).apps = {b}
  BY <1>1, AwaitsHead
<1>4. Rest(q, life, appStatus)
         => Head(q).op \in {"resumeTop", "reactivate", "active", "deactivate", "pause"}
  BY <1>1, RestHead
<1> QED
  BY <1>2, <1>3, <1>4 DEF q

\* Apps outside the stack that do not believe they are in front may be suspended.
LEMMA SuspendCarries ==
    ASSUME NEW L, Shaped(L), NEW st, NEW S, NEW force,
           S \cap (Stack(L) \cup Front(L)) = {}
    PROVE  Carries(L, Suspended(st, S, force), L, st)
<1> DEFINE st2 == Suspended(st, S, force)
<1>1. \A a \in Apps : a \notin S => st2[a] = st[a]
  BY DEF Suspended
<1>2. \A a \in Apps : HasDescriptor(st, a) => HasDescriptor(st2, a)
  BY DEF Suspended, HasDescriptor
<1>3. \A a \in Stack(L) : a \in Apps /\ st2[a] = st[a]
  BY <1>1, StackTyped
<1>4. \A a \in Front(L) : a \in Apps /\ st2[a] = st[a]
  BY <1>1 DEF Front
<1> HIDE DEF st2
<1>5. ASSUME NEW D \in SUBSET Apps, NEW P \in SUBSET Apps, Settled(L, st, D, P)
      PROVE  Settled(L, st2, D, P)
  BY <1>2, <1>3, <1>4, <1>5 DEF Settled, IsAppRunning
<1> QED
  BY <1>5 DEF Carries, st2

LEMMA RunSuspendSerial ==
    ASSUME OneCall, TypeOK, Shaped(life), Serial, NEW c \in Calls, RunSuspend(c)
    PROVE  SerialNext
<1> DEFINE t == Tail(chains[c])
<1>1. chains[c] # <<>> /\ Head(chains[c]).op = "suspend"
  BY DEF RunSuspend, Head1
<1>2. /\ t \in Seq(Step) /\ Rest(t, life, appStatus) /\ Spared(life)
      /\ Arg(c) \cap (Stack(life) \cup Front(life)) = {}
  BY <1>1, HeadAwaits
<1>3. /\ appStatus' = Suspended(appStatus, Arg(c), Head(chains[c]).force)
      /\ chains' = [chains EXCEPT ![c] = t] /\ life' = life
  BY DEF RunSuspend, SuspendApps
<1> HIDE DEF t
<1>4. Rest(t, life, appStatus')
  BY <1>2, <1>3, SuspendCarries, RestCarried
<1>5. Awaits(t, life, appStatus')
  BY <1>2, <1>4 DEF Awaits
<1>6. ASSUME NEW d \in Calls PROVE chains'[d] = t
  BY <1>3, <1>6 DEF OneCall, TypeOK
<1> QED
  BY <1>3, <1>5, <1>6 DEF SerialNext

LEMMA RunDestroySerial ==
    ASSUME OneCall, TypeOK, Shaped(life), Serial, NEW c \in Calls, RunDestroy(c)
    PROVE  SerialNext
<1> DEFINE t == Tail(chains[c])
<1>1. chains[c] # <<>> /\ Head(chains[c]).op = "destroy"
  BY DEF RunDestroy, Head1
<1>2. t \in Seq(Step) /\ Rest(t, life, appStatus) /\ Spared(life)
  BY <1>1, HeadAwaits
<1>3. PICK b \in Apps \ {Current(life)} : Arg(c) = {b}
  BY <1>1, HeadAwaits
<1> DEFINE r == Destroy(life, appStatus, {b}, FALSE)
<1>4. Continue(c, r)
  BY <1>3 DEF RunDestroy
<1> HIDE DEF t
<1>5. Awaits(r.todo \o t, r.life, appStatus)
  BY <1>2, CarrierDestroyed
<1>6. r.ok
  BY <1>2, CarrierDestroyed
<1> HIDE DEF r
<1>7. Awaits(r.todo \o (IF r.ok THEN Tail(chains[c]) ELSE <<>>), r.life, appStatus)
  BY <1>5, <1>6 DEF t
<1> QED
  BY <1>4, <1>7, ContinueSerial

LEMMA RunDeactivateSerial ==
    ASSUME OneCall, TypeOK, Shaped(life), Serial, NEW c \in Calls, RunDeactivate(c)
    PROVE  SerialNext
<1> DEFINE q == chains[c]
           D == Arg(c)
<1>1. q # <<>> /\ Head(q).op = "deactivate" /\ D = Head(q).apps
  BY DEF RunDeactivate, Head1, Arg
<1>2. Rest(q, life, appStatus) /\ Spared(life)
  BY <1>1, HeadAwaits
<1>3. Continue(c, Deactivate(life, appStatus, D, FALSE))
  BY DEF RunDeactivate
<1> HIDE DEF q, D
<1>4. /\ Current(life) \in Apps /\ Tail(q) = <<ToActivate(Current(life))>>
      /\ D \in SUBSET Apps /\ D \cap Stack(life) = {}
      /\ Settled(life, appStatus, D, {})
  BY <1>1, <1>2, RestHead
<1> DEFINE r == Deactivate(life, appStatus, D, FALSE)
<1>5. Awaits(r.todo \o (IF r.ok THEN <<ToActivate(Current(life))>> ELSE <<>>), r.life, appStatus)
  BY <1>2, <1>4, OthersDeactivated
<1> HIDE DEF r
<1>6. Awaits(r.todo \o (IF r.ok THEN Tail(chains[c]) ELSE <<>>), r.life, appStatus)
  BY <1>4, <1>5 DEF q
<1> QED
  BY <1>3, <1>6, ContinueSerial DEF r

\* Telling the app on top ends the call.
LEMMA TopToldSerial ==
    ASSUME OneCall, TypeOK, Shaped(life), NEW c \in Calls, Spared(life),
           Settled(life, appStatus, {}, {}), NEW event \in {"active", "resume"},
           Tail(chains[c]) = <<>>,
           Continue(c, Outcome(Tell(life, appStatus, {Current(life)} \ {Null}, event), <<>>, TRUE))
    PROVE  SerialNext
<1> DEFINE T == Tell(life, appStatus, {Current(life)} \ {Null}, event)
           r == Outcome(T, <<>>, TRUE)
<1>1. /\ Shaped(T) /\ Settled(T, appStatus, {}, {}) /\ Heard(T)
      /\ T.kept = life.kept /\ T.carrierId = life.carrierId
  BY CurrentTold
<1>2. Continue(c, r)
  OBVIOUS
<1> HIDE DEF T
<1>3. r.life = T /\ r.todo = <<>> /\ r.ok
  BY DEF Outcome
<1>4. Awaits(<<>>, T, appStatus)
  BY <1>1, EmptySeq DEF Awaits, Rest, Heeded, Spared
<1>5. <<>> \o <<>> = <<>>
  BY EmptySeq, ConcatEmptySeq
<1> HIDE DEF r
<1>6. Awaits(r.todo \o (IF r.ok THEN Tail(chains[c]) ELSE <<>>), r.life, appStatus)
  BY <1>3, <1>4, <1>5
<1> QED
  BY <1>2, <1>6, ContinueSerial

LEMMA RunActiveSerial ==
    ASSUME OneCall, TypeOK, Shaped(life), Serial, NEW c \in Calls, RunActive(c)
    PROVE  SerialNext
<1> DEFINE q == chains[c]
<1>1. q # <<>> /\ Head(q).op = "active" /\ Arg(c) = Head(q).apps
  BY DEF RunActive, Head1, Arg
<1>2. Rest(q, life, appStatus) /\ Spared(life)
  BY <1>1, HeadAwaits
<1>3. Continue(c, Outcome(Tell(life, appStatus, Arg(c), "active"), <<>>, TRUE))
  BY DEF RunActive
<1> HIDE DEF q
<1>4. /\ Current(life) \in Apps /\ Head(q).apps = {Current(life)} /\ Tail(q) = <<>>
      /\ Settled(life, appStatus, {}, {})
  BY <1>1, <1>2, RestHead
<1>5. Arg(c) = {Current(life)} \ {Null}
  BY <1>1, <1>4, LifetimeAssumption
<1> QED
  BY <1>2, <1>3, <1>4, <1>5, TopToldSerial DEF q

LEMMA RunResumeTopSerial ==
    ASSUME OneCall, TypeOK, Shaped(life), Serial, NEW c \in Calls, RunResumeTop(c)
    PROVE  SerialNext
<1> DEFINE q == chains[c]
<1>1. q # <<>> /\ Head(q).op = "resumeTop"
  BY DEF RunResumeTop, Head1
<1>2. Rest(q, life, appStatus) /\ Spared(life)
  BY <1>1, HeadAwaits
<1>3. Continue(c, Outcome(Tell(life, appStatus, {Current(life)} \ {Null}, "resume"), <<>>, TRUE))
  BY DEF RunResumeTop
<1> HIDE DEF q
<1>4. Settled(life, appStatus, {}, {}) /\ Tail(q) = <<>>
  BY <1>1, <1>2, RestHead
<1> QED
  BY <1>2, <1>3, <1>4, TopToldSerial DEF q

LEMMA RunPauseSerial ==
    ASSUME OneCall, TypeOK, Shaped(life), Serial, NEW c \in Calls, RunPause(c)
    PROVE  SerialNext
<1> DEFINE q == chains[c]
<1>1. q # <<>> /\ Head(q).op = "pause" /\ Arg(c) = Head(q).apps
  BY DEF RunPause, Head1, Arg
<1>2. Rest(q, life, appStatus) /\ Spared(life)
  BY <1>1, HeadAwaits
<1>3. Continue(c, Outcome(Tell(life, appStatus, Arg(c), "pause"), <<>>, TRUE))
  BY DEF RunPause
<1> HIDE DEF q
<1>4. /\ Current(life) \in Apps /\ Tail(q) = <<ToActivate(Current(life))>>
      /\ \E p \in Apps \ {Current(life)} :
            Head(q).apps = {p} /\ Settled(life, appStatus, {}, {p})
  BY <1>1, <1>2, RestHead
<1>5. PICK p \in Apps \ {Current(life)} : Arg(c) = {p} /\ Settled(life, appStatus, {}, {p})
  BY <1>1, <1>4
<1> DEFINE T == Tell(life, appStatus, {p}, "pause")
           r == Outcome(T, <<>>, TRUE)
           x == ToActivate(Current(life))
<1>6. /\ Shaped(T) /\ Settled(T, appStatus, {}, {}) /\ Current(T) = Current(life)
      /\ T.kept = life.kept /\ T.carrierId = life.carrierId
  BY <1>5, TellPause
<1>7. Continue(c, r)
  BY <1>3, <1>5
<1> HIDE DEF T
<1>8. r.life = T /\ r.todo = <<>> /\ r.ok
  BY DEF Outcome
<1> HIDE DEF r
<1>9. <<x>> \in Seq(Step) /\ <<>> \o <<x>> = <<x>>
  <2>1. x \in Step
    BY <1>4 DEF ToActivate, Do, Step, Ops
  <2> HIDE DEF x
  <2>2. <<x>> \in Seq(Step)
    BY <2>1
  <2> QED
    BY <2>2, ConcatEmptySeq
<1>10. Rest(<<x>>, T, appStatus)
  BY <1>4, <1>6 DEF Rest
<1> HIDE DEF x
<1>11. Awaits(<<x>>, T, appStatus)
  BY <1>2, <1>6, <1>9, <1>10 DEF Awaits, Spared
<1>12. Awaits(r.todo \o (IF r.ok THEN Tail(chains[c]) ELSE <<>>), r.life, appStatus)
  BY <1>4, <1>8, <1>9, <1>11 DEF x, q
<1> QED
  BY <1>7, <1>12, ContinueSerial

LEMMA RunReactivateSerial ==
    ASSUME OneCall, TypeOK, Shaped(life), Serial, NEW c \in Calls, RunReactivate(c)
    PROVE  SerialNext
<1> DEFINE q == chains[c]
<1>1. q # <<>> /\ Head(q).op = "reactivate"
  BY DEF RunReactivate, Head1
<1>2. Rest(q, life, appStatus) /\ Spared(life)
  BY <1>1, HeadAwaits
<1>3. PICK a \in Arg(c) :
          Continue(c, IF CanActivate(life, appStatus, a, "cut")
                      THEN Activate(life, appStatus, a, "cut", Null)
                      ELSE Outcome(life, <<>>, FALSE))
  BY DEF RunReactivate
<1>4. a \in Apps
  BY <1>1, HeadTyped
<1> HIDE DEF q
<1>5. ~Plain /\ Settled(life, appStatus, {}, {}) /\ Tail(q) = <<>>
  BY <1>1, <1>2, RestHead
<1>6. Heeded(life)
  BY <1>5 DEF Heeded
<1>7. CASE CanActivate(life, appStatus, a, "cut")
  <2> DEFINE form == "cut"
             r == Activate(life, appStatus, a, form, Null)
  <2>1. IsAppRunning(appStatus, a) /\ form \in Forms /\ Null \in AppOrNull
    BY <1>7 DEF CanActivate, Forms, AppOrNull
  <2>2. Continue(c, r)
    BY <1>3, <1>7
  <2> HIDE DEF form
  <2>3. Awaits(r.todo, r.life, appStatus)
    BY <1>2, <1>4, <1>5, <1>6, <2>1, ActivateAwaits
  <2>4. WellFormed(r)
    BY <1>4, <2>1, ActivateWellFormed
  <2> HIDE DEF r
  <2>5. r.todo \o <<>> = r.todo
    BY <2>4, ConcatEmptySeq DEF WellFormed
  <2>6. Awaits(r.todo \o (IF r.ok THEN Tail(chains[c]) ELSE <<>>), r.life, appStatus)
    BY <1>5, <2>3, <2>5 DEF q
  <2> QED
    BY <2>2, <2>6, ContinueSerial
<1>8. CASE ~CanActivate(life, appStatus, a, "cut")
  <2> DEFINE r == Outcome(life, <<>>, FALSE)
  <2>1. Continue(c, r)
    BY <1>3, <1>8
  <2>2. r.life = life /\ r.todo = <<>> /\ ~r.ok
    BY DEF Outcome
  <2>3. Awaits(<<>>, life, appStatus)
    BY <1>2, <1>5, <1>6, EmptySeq DEF Awaits, Rest
  <2>4. <<>> \o <<>> = <<>>
    BY EmptySeq, ConcatEmptySeq
  <2> HIDE DEF r
  <2>5. Awaits(r.todo \o (IF r.ok THEN Tail(chains[c]) ELSE <<>>), r.life, appStatus)
    BY <2>2, <2>3, <2>4
  <2> QED
    BY <2>1, <2>5, ContinueSerial
<1> QED
  BY <1>7, <1>8

LEMMA RunSerial ==
    ASSUME OneCall, TypeOK, Shaped(life), Serial, NEW c \in Calls, Run(c)
    PROVE  SerialNext
BY RunSuspendSerial, RunDestroySerial, RunDeactivateSerial, RunActiveSerial, RunPauseSerial,
   RunResumeTopSerial, RunReactivateSerial DEF Run

-----------------------------------------------------------------------------
\* Processes come and go, when calls do not overlap.

\* An app that had no process may get one.
LEMMA StartSerial ==
    ASSUME TypeOK, Shaped(life), Serial, NEW a \in Apps, Create(a) \/ Restart(a)
    PROVE  SerialNext
<1>1. life' = life /\ chains' = chains
  BY DEF Create, Restart
<1>2. \A b \in Apps : /\ IsAppRunning(appStatus, b) => IsAppRunning(appStatus', b)
                      /\ HasDescriptor(appStatus, b) => HasDescriptor(appStatus', b)
  BY DEF Create, Restart, CreateApp, RestartTimer, TypeOK, SchedulerTypeOK, Status,
         IsAppRunning, HasDescriptor
<1>3. ASSUME NEW D \in SUBSET Apps, NEW P \in SUBSET Apps, Settled(life, appStatus, D, P)
      PROVE  Settled(life, appStatus', D, P)
  BY <1>2, <1>3, StackTyped DEF Settled, Front
<1>4. Carries(life, appStatus', life, appStatus)
  BY <1>3 DEF Carries
<1>5. ASSUME NEW c \in Calls PROVE Awaits(chains[c], life, appStatus')
  <2>1. Awaits(chains[c], life, appStatus)
    BY DEF Serial
  <2> QED
    BY <1>4, <2>1, AwaitsCarried
<1> QED
  BY <1>1, <1>5 DEF SerialNext

\* An app that is created was neither in the stack nor told to be in front.
LEMMA CreatedSerial ==
    ASSUME TypeOK, Shaped(life), Serial, NEW a \in Apps, Created(a)
    PROVE  SerialNext
<1> DEFINE M == [life EXCEPT !.told[a] = "create"]
           st == [appStatus EXCEPT ![a] = "running"]
<1>1. life' = M /\ chains' = chains /\ appStatus' = st /\ appStatus[a] = "creating"
  BY DEF Created, HandleAppCreate
<1>2. /\ M.cut = life.cut /\ M.scene = life.scene /\ M.form = life.form
      /\ M.background = life.background /\ M.onPause = life.onPause
      /\ M.kept = life.kept /\ M.carrierId = life.carrierId
      /\ M.told[a] = "create" /\ \A b \in Apps \ {a} : M.told[b] = life.told[b]
  BY DEF Shaped, LifeType
<1>3. \A b \in Apps : /\ IsAppRunning(appStatus, b) => IsAppRunning(st, b) /\ b # a
                      /\ HasDescriptor(appStatus, b) => HasDescriptor(st, b) /\ b # a
  BY <1>1 DEF TypeOK, SchedulerTypeOK, IsAppRunning, HasDescriptor
<1> HIDE DEF M, st
<1>4. Stack(M) = Stack(life) /\ Current(M) = Current(life)
  BY <1>2 DEF Stack, Current
<1>5. Front(M) \subseteq Front(life)
  BY <1>2 DEF Front
<1>6. ASSUME NEW D \in SUBSET Apps, NEW P \in SUBSET Apps, Settled(life, appStatus, D, P)
      PROVE  Settled(M, st, D, P)
  <2>1. \A b \in Stack(M) \ D : IsAppRunning(st, b) /\ b # a
    BY <1>3, <1>4, <1>6, StackTyped DEF Settled
  <2>2. \A b \in Apps : M.form[b] # "none" => b \in Stack(M) \cup D
    BY <1>2, <1>4, <1>6 DEF Settled
  <2>3. Front(M) \subseteq {Current(M)} \cup D \cup P
    BY <1>4, <1>5, <1>6 DEF Settled
  <2>4. \A b \in Front(M) : HasDescriptor(st, b)
    BY <1>3, <1>5, <1>6 DEF Settled, Front
  <2>5. \A b \in (D \cup P) \cap Front(M) : IsAppRunning(st, b) /\ b \notin M.background
    BY <1>2, <1>3, <1>5, <1>6 DEF Settled, Front
  <2>6. M.cut # Null /\ M.scene # Null => M.told[M.scene] = "pause" \/ M.scene \in D \cup P
    <3> SUFFICES ASSUME M.cut # Null, M.scene # Null, M.scene \notin D \cup P
                 PROVE  M.told[M.scene] = "pause"
      OBVIOUS
    <3>1. M.scene \in Stack(M) \ D /\ M.scene \in Apps
      BY <1>2 DEF Stack, Shaped, LifeType, AppOrNull
    <3> QED
      BY <1>2, <1>6, <2>1, <3>1 DEF Settled
  <2> QED
    BY <2>1, <2>2, <2>3, <2>4, <2>5, <2>6 DEF Settled
<1>7. Settled(life, appStatus, {}, {}) /\ Heeded(life) => Heeded(M)
  <2>1. ASSUME Settled(life, appStatus, {}, {}), Heard(life)
        PROVE  Heard(M)
    <3>1. Current(life) \in Front(life) => Current(M) \in Front(M)
      BY <1>1, <1>2, <1>4, <2>1 DEF Settled, Front, HasDescriptor
    <3> QED
      BY <1>2, <1>4, <2>1, <3>1 DEF Heard
  <2> QED
    BY <2>1 DEF Heeded
<1>8. Carries(M, st, life, appStatus)
  BY <1>4, <1>6, <1>7 DEF Carries
<1>9. Spared(life) => Spared(M)
  BY <1>2 DEF Spared
<1>10. ASSUME NEW c \in Calls PROVE Awaits(chains[c], M, st)
  <2>1. Awaits(chains[c], life, appStatus)
    BY DEF Serial
  <2> QED
    BY <1>5, <1>8, <1>9, <2>1, AwaitsCarried
<1> QED
  BY <1>1, <1>10 DEF SerialNext

\* The app that exited is collected from where it is.
LEMMA CollectedAwaits ==
    ASSUME NEW K, Shaped(K), NEW st \in [Apps -> Status], NEW a \in Apps, NEW L, Shaped(L),
           L.cut = K.cut, L.scene = K.scene, L.form = K.form, L.onPause = K.onPause,
           L.kept = K.kept, L.carrierId = K.carrierId, L.told[a] = "none",
           \A b \in Apps \ {a} : L.told[b] = K.told[b],
           NEW dead, \A b \in Apps \ {a} : dead[b] = st[b],
           Settled(K, st, {}, {}), Heeded(K), Spared(K)
    PROVE  LET r == Collected(L, dead, a)
           IN  Awaits(r.todo, r.life, dead)
<1> DEFINE S == {a}
           yes == TRUE
           no == FALSE
<1>1. S \in SUBSET Apps /\ yes \in BOOLEAN /\ no \in BOOLEAN
  OBVIOUS
<1>2. Stack(L) = Stack(K) /\ Current(L) = Current(K)
  BY DEF Stack, Current
<1>3. Front(L) = Front(K) \ {a}
  BY DEF Front
<1>4. Current(L) # Null => Current(L) \in Stack(L)
  BY StackTyped
<1>5. L.scene # Null => L.scene \in Apps
  BY DEF Shaped, LifeType, AppOrNull
<1>6. \A b \in Stack(L) : b \in Apps /\ st[b] = "running"
  BY <1>2, StackTyped DEF Settled, IsAppRunning
<1>7. \A b \in Front(L) : b \in Apps /\ b # a /\ st[b] \in {"running", "destructing"}
  BY <1>3 DEF Settled, Front, HasDescriptor
<1>8. Settled(L, dead, S, {})
  <2>1. \A b \in Stack(L) \ S : IsAppRunning(dead, b)
    BY <1>6 DEF IsAppRunning
  <2>2. \A b \in Apps : L.form[b] # "none" => b \in Stack(L) \cup S
    BY <1>2 DEF Settled
  <2>3. \A b \in Front(L) : HasDescriptor(dead, b)
    BY <1>7 DEF HasDescriptor
  <2>4. L.cut # Null /\ L.scene # Null => L.told[L.scene] = "pause" \/ L.scene \in S
    BY <1>5 DEF Settled
  <2> QED
    BY <1>2, <1>3, <2>1, <2>2, <2>3, <2>4 DEF Settled
<1>9. ASSUME a \notin Stack(L)
      PROVE  Settled(L, dead, {}, {})
  <2>1. \A b \in Stack(L) : IsAppRunning(dead, b)
    BY <1>9, <1>6 DEF IsAppRunning
  <2>2. \A b \in Apps : L.form[b] # "none" => b \in Stack(L)
    BY <1>2 DEF Settled
  <2>3. \A b \in Front(L) : HasDescriptor(dead, b)
    BY <1>7 DEF HasDescriptor
  <2>4. L.cut # Null /\ L.scene # Null => L.told[L.scene] = "pause"
    BY <1>5, <1>9 DEF Settled, Stack
  <2> QED
    BY <1>2, <1>3, <2>1, <2>2, <2>3, <2>4 DEF Settled
<1>10. Spared(L)
  BY DEF Spared
<1>11. ASSUME Current(L) # a
      PROVE  Heard(K) => Heard(L)
  BY <1>2, <1>3, <1>11 DEF Heard
<1>12. CASE a \in Stack(L)
  <2>1. Minds(L, S, yes)
    BY <1>11 DEF Minds, Heeded
  <2>2. Collected(L, dead, a) = Deactivate(L, dead, S, yes)
    BY <1>12 DEF Collected
  <2> DEFINE d == Deactivate(L, dead, S, yes)
  <2>3. Awaits(d.todo, d.life, dead)
    <3> HIDE DEF S, yes
    <3> QED
      BY <1>1, <1>8, <1>10, <2>1, DeactivateAwaits
  <2> QED
    BY <2>2, <2>3
<1>13. CASE a \notin Stack(L) /\ a \in L.background
  <2>1. Current(L) \notin S
    BY <1>4, <1>13, LifetimeAssumption
  <2>2. Heeded(L)
    BY <1>11, <2>1 DEF Heeded
  <2>3. Collected(L, dead, a) = Destroy(L, dead, S, no)
    BY <1>13 DEF Collected
  <2> DEFINE d == Destroy(L, dead, S, no)
  <2>4. Awaits(d.todo, d.life, dead)
    <3> HIDE DEF S, no
    <3> QED
      BY <1>1, <1>8, <1>10, <2>1, <2>2, DestroyAwaits
  <2> QED
    BY <2>3, <2>4
<1>14. CASE a \notin Stack(L) /\ a \notin L.background
  <2>1. Heeded(L)
    BY <1>4, <1>11, <1>14, LifetimeAssumption DEF Heeded
  <2>2. <<>> \in Seq(Step) /\ Rest(<<>>, L, dead)
    BY <1>9, <1>14, <2>1, EmptySeq DEF Rest
  <2>3. Awaits(<<>>, L, dead)
    BY <1>10, <2>2 DEF Awaits
  <2> QED
    BY <1>14, <2>3 DEF Collected, Outcome
<1> QED
  BY <1>12, <1>13, <1>14

LEMMA AppGCSerial ==
    ASSUME OneCall, TypeOK, Shaped(life), Serial, NEW a \in Apps, NEW coded,
           HandleAppExit(a, coded), AppGC(a)
    PROVE  SerialNext
<1> DEFINE dead == [appStatus EXCEPT ![a] = "exited"]
           t == [life.told EXCEPT ![a] = "none"]
           L == [life EXCEPT !.told = t]
           r == Collected(L, dead, a)
<1>1. t \in [Apps -> Events] /\ t[a] = "none" /\ \A b \in Apps \ {a} : t[b] = life.told[b]
  BY DEF Shaped, LifeType, Events
<1>2. Issue(r)
  BY DEF AppGC, Collected, Shaped, LifeType
<1>3. appStatus' = dead
  BY DEF HandleAppExit
<1>4. appStatus \in [Apps -> Status] /\ \A b \in Apps \ {a} : dead[b] = appStatus[b]
  BY DEF TypeOK, SchedulerTypeOK
<1> HIDE DEF t, dead
<1>5. /\ Shaped(L)
      /\ L.cut = life.cut /\ L.scene = life.scene /\ L.form = life.form
      /\ L.onPause = life.onPause /\ L.kept = life.kept /\ L.carrierId = life.carrierId
      /\ L.told = t
  BY <1>1 DEF Shaped, LifeType
<1> HIDE DEF L
<1>6. Settled(life, appStatus, {}, {}) /\ Heeded(life) /\ Spared(life)
  <2> HIDE DEF r
  <2> QED
    BY <1>2, CallIdle
<1>7. Awaits(r.todo, r.life, dead)
  BY <1>1, <1>4, <1>5, <1>6, CollectedAwaits
<1> HIDE DEF r
<1> QED
  BY <1>2, <1>3, <1>7, IssueSerial

LEMMA ProcessSerial ==
    ASSUME OneCall, TypeOK, Shaped(life), Serial, Process
    PROVE  SerialNext
<1>1. ASSUME NEW a \in Apps, FailToStart(a)
      PROVE  SerialNext
  BY <1>1, AppGCSerial DEF FailToStart, StartFails
<1>2. ASSUME NEW a \in Apps, NEW coded \in BOOLEAN, Exit(a, coded) \/ EndOfLife(a, coded)
      PROVE  SerialNext
  BY <1>2, AppGCSerial DEF Exit, EndOfLife, ProcessExits, DestructedExits
<1> QED
  BY <1>1, <1>2, StartSerial, CreatedSerial DEF Process

-----------------------------------------------------------------------------
\* The inductive invariant, when calls do not overlap

SIInv == IInv /\ Serial

LEMMA InitSerial == Init => Serial
<1> SUFFICES ASSUME Init PROVE Serial
  OBVIOUS
<1>1. /\ life.cut = Null /\ life.scene = Null /\ life.kept = {} /\ life.carrierId = Null
      /\ \A a \in Apps : life.form[a] = "none" /\ life.told[a] = "none"
  BY DEF Init
<1>2. Stack(life) = {} /\ Current(life) = Null
  BY <1>1 DEF Stack, Current
<1>3. Front(life) = {}
  BY <1>1 DEF Front
<1>4. Settled(life, appStatus, {}, {})
  BY <1>1, <1>2, <1>3 DEF Settled
<1>5. Heeded(life) /\ Spared(life)
  BY <1>1, <1>2 DEF Heeded, Heard, Spared
<1>6. <<>> \in Seq(Step) /\ Rest(<<>>, life, appStatus)
  BY <1>4, <1>5, EmptySeq DEF Rest
<1>7. Awaits(<<>>, life, appStatus)
  BY <1>5, <1>6 DEF Awaits
<1> QED
  BY <1>7 DEF Init, Serial

LEMMA NextSerial ==
    ASSUME OneCall, SIInv, [Next]_vars
    PROVE  SIInv'
<1>1. TypeOK /\ Shaped(life) /\ Serial
  BY DEF SIInv, IInv
<1>2. SerialNext
  <2>1. CASE UNCHANGED vars
    BY <1>1, <2>1 DEF vars, Serial, SerialNext
  <2>2. CASE Next
    BY <1>1, <2>2, RequestSerial, ProcessSerial, RunSerial DEF Next
  <2> QED
    BY <2>1, <2>2
<1>3. Serial'
  BY <1>2 DEF Serial, SerialNext
<1> QED
  BY <1>3, NextInvariant DEF SIInv

LEMMA SerialInvariant ==
    ASSUME OneCall
    PROVE  Spec => []SIInv
<1>1. Init => SIInv
  BY InitInvariant, InitSerial DEF SIInv
<1>2. SIInv /\ [Next]_vars => SIInv'
  BY NextSerial
<1> QED
  BY <1>1, <1>2, PTL DEF Spec

\* What the invariant says of a quiet system.
LEMMA QuietSettled ==
    ASSUME OneCall, SIInv, Quiet
    PROVE  Settled(life, appStatus, {}, {}) /\ Heeded(life)
<1>1. PICK c \in Calls : chains[c] = <<>>
  BY DEF OneCall, Quiet
<1>2. Awaits(<<>>, life, appStatus)
  BY <1>1 DEF SIInv, Serial
<1> QED
  BY <1>2, EmptyAwaits

-----------------------------------------------------------------------------
\* Theorems about calls that do not overlap

\* A call that has ended leaves no app in the stack whose process it has told
\* to end, however many processes died or were restarted meanwhile.
THEOREM StackKeptRunning ==
    ASSUME OneCall
    PROVE  Spec => []StackRunning
<1>1. SIInv => StackRunning
  BY QuietSettled DEF StackRunning, Settled
<1> QED
  BY <1>1, SerialInvariant, PTL

\* The context options of an app outside the stack are gone when the call that
\* took it off has ended: a scene that was dropped beneath a new one has been
\* deactivated by then.
THEOREM FormsForgotten ==
    ASSUME OneCall
    PROVE  Spec => []NoStrayForm
<1>1. SIInv => NoStrayForm
  BY QuietSettled DEF NoStrayForm, Settled
<1> QED
  BY <1>1, SerialInvariant, PTL

\* Whoever was in front before a call has been told otherwise by its end.
THEOREM NobodyElseInFront ==
    ASSUME OneCall
    PROVE  Spec => []OneForeground
<1>1. SIInv => OneForeground
  <2> SUFFICES ASSUME SIInv, Quiet, NEW a \in Foreground PROVE a \in {Current(life)}
    BY DEF OneForeground
  <2>1. a \in Front(life)
    BY DEF Foreground, Front
  <2> QED
    BY <2>1, QuietSettled DEF Settled
<1> QED
  BY <1>1, SerialInvariant, PTL

\* The scene under a cut app was told to pause, and by nobody since to resume.
THEOREM SceneKeptPaused ==
    ASSUME OneCall
    PROVE  Spec => []SceneBeneathPaused
<1>1. SIInv => SceneBeneathPaused
  BY QuietSettled DEF SceneBeneathPaused, Settled
<1> QED
  BY <1>1, SerialInvariant, PTL

\* Whichever way an app leaves the top of the stack, by name, by a crash, or for
\* another app, the app that is on top then was told so by the end of the call,
\* where nobody is brought up by another app or kept alive, no app is reloaded
\* and the voice session does not hold the lifetime.
THEOREM TopKeptInFront ==
    ASSUME OneCall, Plain
    PROVE  Spec => []ForegroundTold
<1>1. SIInv => ForegroundTold
  <2> SUFFICES ASSUME SIInv, Quiet, life.onPause = Null, Current(life) # Null
               PROVE  Current(life) \in Foreground
    BY DEF ForegroundTold
  <2>1. Settled(life, appStatus, {}, {}) /\ Heard(life)
    BY QuietSettled DEF Heeded
  <2>2. Current(life) \in Front(life)
    BY <2>1 DEF Heard
  <2> QED
    BY <2>1, <2>2 DEF Settled, Front, Foreground
<1> QED
  BY <1>1, SerialInvariant, PTL

\* While an app monopolizes the stack no other app enters the stack in its
\* place: guardMonopolization lets a cut app pass over a scene that monopolizes,
\* and no cut app passes that would turn out to be a scene, because the form of
\* an app that is in no slot was forgotten.
THEOREM MonopolyKept ==
    ASSUME OneCall
    PROVE  Spec => MonopolyHolds
<1> DEFINE m == life.monopolist
           holds == IsMonopolized(life, appStatus) /\ ~(Stack(life') \subseteq Stack(life))
                    => m \in Stack(life')
<1>1. SIInv /\ [Next]_vars => holds
  <2> SUFFICES ASSUME SIInv, [Next]_vars, IsMonopolized(life, appStatus),
                      ~(Stack(life') \subseteq Stack(life))
               PROVE  m \in Stack(life')
    OBVIOUS
  <2>1. TypeOK /\ Shaped(life) /\ Moves
    BY StepMoves DEF SIInv, IInv
  <2>2. Comes
    <3>1. Goes \/ Born \/ Dies => Stack(life') \subseteq Stack(life)
      BY DEF Goes, Born, Dies, Vacated, Stack
    <3> QED
      BY <2>1, <3>1 DEF Moves
  <2>3. PICK a \in Apps, form \in Forms :
            /\ CanActivate(life, appStatus, a, form)
            /\ \E c \in Calls : FreeChain(c) \/ Head1(c, "reactivate")
            /\ Pushed(life', life, a)
            /\ ~BecomesScene(life, a, form) => life'.scene = life.scene
    BY <2>2 DEF Comes
  <2>4. a \in Stack(life') /\ a \notin Stack(life)
    BY <2>3, LifetimeAssumption DEF Pushed, Stack
  <2>5. m # Null /\ (a = m \/ (form = "cut" /\ life.scene = m))
    BY <2>3 DEF CanActivate, Oppressed, IsMonopolized
  <2>6. CASE a = m
    BY <2>4, <2>6
  <2>7. CASE form = "cut" /\ life.scene = m
    <3>1. Settled(life, appStatus, {}, {})
      <4>1. PICK c \in Calls : FreeChain(c) \/ Head1(c, "reactivate")
        BY <2>3
      <4>2. CASE FreeChain(c)
        BY <4>2, IdleSettled DEF SIInv
      <4>3. CASE Head1(c, "reactivate")
        <5>1. chains[c] # <<>> /\ Head(chains[c]).op = "reactivate"
          BY <4>3 DEF Head1
        <5>2. Rest(chains[c], life, appStatus)
          BY <5>1, HeadAwaits DEF SIInv
        <5> QED
          BY <5>1, <5>2, RestHead
      <4> QED
        BY <4>1, <4>2, <4>3
    <3>2. life.form[a] = "none"
      BY <2>4, <3>1 DEF Settled
    <3>3. life'.scene = m
      BY <2>3, <2>7, <3>2 DEF BecomesScene
    <3> QED
      BY <2>5, <3>3 DEF Stack
  <2> QED
    BY <2>5, <2>6, <2>7
<1>2. holds => [holds]_vars
  OBVIOUS
<1> QED
  BY <1>1, SerialInvariant, PTL DEF Spec, MonopolyHolds
=============================================================================
