-------------------------- MODULE AppRuntimeProofs --------------------------
(***************************************************************************)
(* Proofs about the voice session, the runtime around it and the loader of *)
(* its apps, for any apps, listeners, reasons and manifests and any number *)
(* of sessions, log-ins, hibernations, resets, installations and reloads.  *)
(*                                                                         *)
(* Whatever the engine, the timers and the promises do in whatever order,  *)
(* no session leaves the lifetime paused, a timer running or the device    *)
(* deaf; what the runtime does to Turen keeps that invariant, and the      *)
(* reasons it is disabled for agree with what it is doing.  However loads, *)
(* reloads and changes of packages overlap and fail, the tables of the     *)
(* loader agree with the packages they come from.                          *)
(***************************************************************************)
EXTENDS AppRuntime, AppLoader, FiniteSetTheorems, FunctionTheorems, SequenceTheorems,
        WellFoundedInduction, TLAPS

-----------------------------------------------------------------------------
(***************************************************************************)
(* The voice session                                                       *)
(***************************************************************************)

\* A state of Turen that holds the lifetime, and the timer, in a session only.
Sound(t) ==
    /\ t \in TurenState
    /\ t.held = t.awaken
    /\ t.solitary => t.awaken

WaitingType ==
    {w \in [delegation : Nat, dispatch : Nat, lag : Nat, closing : Nat] : w.closing <= w.lag}
Phases == {"idle", "heard", "listening"}
EngineType == [phase : Phases, owed : Nat, wakes : Nat]

Counted == waiting \in WaitingType /\ engine \in EngineType

One(b) == IF b THEN 1 ELSE 0

\* A session has two ends at most, one by its timer and one by the engine, and
\* a promise is what has become of one of them: so promises are bounded by the
\* sessions begun.
Ends ==
    /\ One(turen.solitary) + waiting.delegation + waiting.lag + waiting.dispatch
         + One(engine.phase # "idle") + engine.owed <= 2 * engine.wakes
    /\ engine.wakes <= MaxWakes

Outside ==
    /\ reasons \subseteq Reasons
    /\ shouldRecover \subseteq Listeners
    /\ front \in FrontApps \cup {NoApp}

TurenIInv == Sound(turen) /\ Counted /\ Ends /\ Outside /\ NeverDeaf

-----------------------------------------------------------------------------
(* What the operations make of a sound state *)

LEMMA EndedTyped ==
    ASSUME NEW t \in TurenState, NEW paused \in BOOLEAN
    PROVE  [t EXCEPT !.awaken = FALSE, !.held = FALSE, !.interrupted = paused,
                     !.solitary = FALSE, !.noVoice = FALSE] \in TurenState
BY DEF TurenState

LEMMA ResetAwakenSound ==
    ASSUME NEW t, Sound(t), NEW recover \in BOOLEAN
    PROVE  /\ Sound(ResetAwaken(t, recover))
           /\ ResetAwaken(t, recover).enabled = t.enabled
           /\ ResetAwaken(t, recover).opened = t.opened
           /\ ResetAwaken(t, recover).solitary => t.solitary
<1> DEFINE u == ResetAwaken(t, recover)
<1>1. t \in TurenState
  BY DEF Sound
<1>2. CASE t.awaken
  <2>1. u \in TurenState
    <3>1. u = [t EXCEPT !.awaken = FALSE, !.held = FALSE,
                        !.interrupted = t.interrupted /\ ~recover,
                        !.solitary = FALSE, !.noVoice = FALSE]
      BY <1>1, <1>2 DEF ResetAwaken
    <3> DEFINE paused == t.interrupted /\ ~recover
    <3>2. paused \in BOOLEAN
      OBVIOUS
    <3> HIDE DEF paused, u
    <3>3. u = [t EXCEPT !.awaken = FALSE, !.held = FALSE, !.interrupted = paused,
                        !.solitary = FALSE, !.noVoice = FALSE]
      BY <3>1 DEF paused
    <3> QED
      BY <1>1, <3>2, <3>3, EndedTyped
  <2>2. /\ u.held = FALSE /\ u.awaken = FALSE /\ u.solitary = FALSE
        /\ u.enabled = t.enabled /\ u.opened = t.opened
    BY <1>1, <1>2 DEF TurenState, ResetAwaken
  <2> HIDE DEF u
  <2>3. Sound(u)
    BY <2>1, <2>2 DEF Sound
  <2> QED
    BY <2>2, <2>3 DEF u
<1>3. CASE ~t.awaken
  BY <1>3 DEF ResetAwaken
<1> QED
  BY <1>2, <1>3

LEMMA SettlePausedSound ==
    ASSUME NEW t, Sound(t)
    PROVE  /\ Sound(SettlePaused(t))
           /\ SettlePaused(t).enabled = t.enabled
           /\ SettlePaused(t).opened = t.opened
           /\ SettlePaused(t).solitary = t.solitary
BY DEF Sound, TurenState, SettlePaused

LEMMA SetAwakenSound ==
    ASSUME NEW t, Sound(t), front \in FrontApps \cup {NoApp}
    PROVE  /\ Sound(SetAwaken(t))
           /\ SetAwaken(t).enabled = t.enabled
           /\ SetAwaken(t).opened = t.opened
BY DEF Sound, TurenState, SetAwaken

LEMMA ToggleEngineSound ==
    ASSUME NEW t, Sound(t), NEW on \in BOOLEAN
    PROVE  /\ Sound(ToggleEngine(t, on))
           /\ ToggleEngine(t, on).enabled = on
           /\ ToggleEngine(t, on).solitary = t.solitary
BY DEF Sound, TurenState, ToggleEngine

LEMMA PickedUpTyped ==
    ASSUME NEW t \in TurenState, NEW discard \in BOOLEAN, NEW open \in BOOLEAN,
           NEW app \in FrontApps \cup {NoApp}, NEW on \in BOOLEAN,
           NEW solitary \in BOOLEAN, NEW noVoice \in BOOLEAN
    PROVE  [t EXCEPT !.pickingUpDiscardNext = discard, !.appIdOnVoiceComing = app,
                     !.enabled = on, !.opened = open,
                     !.solitary = solitary, !.noVoice = noVoice] \in TurenState
BY DEF TurenState

LEMMA PickupSound ==
    ASSUME NEW t, Sound(t), NEW open \in BOOLEAN, NEW discardNext \in BOOLEAN
    PROVE  /\ Sound(Pickup(t, open, discardNext))
           /\ Pickup(t, open, discardNext).enabled = ~open
           /\ Pickup(t, open, discardNext).opened = open
           /\ Pickup(t, open, discardNext).solitary = (t.solitary /\ open)
<1> DEFINE u == Pickup(t, open, discardNext)
<1>1. t \in TurenState
  BY DEF Sound
<1>2. u \in TurenState
  <2> DEFINE app == IF open THEN NoApp ELSE t.appIdOnVoiceComing
             discard == discardNext /\ ~open
             on == ~open
             solitary == t.solitary /\ open
             noVoice == t.noVoice /\ open
  <2>1. /\ app \in FrontApps \cup {NoApp} /\ discard \in BOOLEAN /\ on \in BOOLEAN
        /\ solitary \in BOOLEAN /\ noVoice \in BOOLEAN
    BY <1>1 DEF TurenState
  <2>2. u = [t EXCEPT !.pickingUpDiscardNext = discard, !.appIdOnVoiceComing = app,
                      !.enabled = on, !.opened = open,
                      !.solitary = solitary, !.noVoice = noVoice]
    BY <1>1 DEF Pickup
  <2> HIDE DEF app, discard, on, solitary, noVoice, u
  <2> QED
    BY <1>1, <2>1, <2>2, PickedUpTyped
<1>3. /\ u.held = t.held /\ u.awaken = t.awaken
      /\ u.enabled = ~open /\ u.opened = open
  BY <1>1 DEF TurenState, Pickup
<1>4. u.solitary = (t.solitary /\ open)
  BY <1>1 DEF TurenState, Pickup
<1> HIDE DEF u
<1>5. Sound(u)
  BY <1>2, <1>3, <1>4 DEF Sound
<1> QED
  BY <1>3, <1>4, <1>5 DEF u

\* A step that changes fields of Turen which no property is about.
LEMMA SameSession ==
    ASSUME NEW t, NEW u, Sound(t), u \in TurenState,
           u.awaken = t.awaken, u.held = t.held, u.solitary => t.solitary
    PROVE  Sound(u)
BY DEF Sound

\* Changes of the engine, typed and by field.
LEMMA EngineIdle ==
    ASSUME NEW e \in EngineType, NEW n \in Nat
    PROVE  /\ [e EXCEPT !.phase = "idle", !.owed = n] \in EngineType
           /\ [e EXCEPT !.phase = "idle", !.owed = n].phase = "idle"
           /\ [e EXCEPT !.phase = "idle", !.owed = n].owed = n
           /\ [e EXCEPT !.phase = "idle", !.owed = n].wakes = e.wakes
BY DEF EngineType, Phases

LEMMA EngineWakes ==
    ASSUME NEW e \in EngineType, NEW n \in Nat
    PROVE  /\ [e EXCEPT !.wakes = n, !.phase = "heard"] \in EngineType
           /\ [e EXCEPT !.wakes = n, !.phase = "heard"].phase = "heard"
           /\ [e EXCEPT !.wakes = n, !.phase = "heard"].owed = e.owed
           /\ [e EXCEPT !.wakes = n, !.phase = "heard"].wakes = n
BY DEF EngineType, Phases

LEMMA EnginePickedUp ==
    ASSUME NEW e \in EngineType, NEW n \in Nat
    PROVE  /\ [e EXCEPT !.phase = "heard", !.wakes = n] \in EngineType
           /\ [e EXCEPT !.phase = "heard", !.wakes = n].phase = "heard"
           /\ [e EXCEPT !.phase = "heard", !.wakes = n].owed = e.owed
           /\ [e EXCEPT !.phase = "heard", !.wakes = n].wakes = n
BY DEF EngineType, Phases

LEMMA OneMonotone ==
    ASSUME NEW a, NEW b, a => b
    PROVE  One(a) <= One(b) /\ One(a) \in {0, 1} /\ One(b) \in {0, 1}
BY DEF One

-----------------------------------------------------------------------------
LEMMA InitInv == TurenInit => TurenIInv
<1> SUFFICES ASSUME TurenInit PROVE TurenIInv
  OBVIOUS
<1>1. Sound(turen)
  BY DEF TurenInit, TurenAtStart, Sound, TurenState
<1>2. Counted /\ Ends
  BY TurenAssumption DEF TurenInit, TurenAtStart, Counted, EngineType, WaitingType, Phases, Ends,
                         One
<1> QED
  BY <1>1, <1>2 DEF TurenInit, TurenIInv, TurenAtStart, Outside, NeverDeaf

\* What a step may do to promises and sessions, in terms of which the bound is
\* kept: the sum grows by two with a session, and otherwise never.
LEMMA EndsKept ==
    ASSUME Ends, Counted, Counted', engine.wakes' <= MaxWakes,
           One(turen'.solitary) + waiting'.delegation + waiting'.lag + waiting'.dispatch
              + One(engine'.phase # "idle") + engine'.owed
            <= One(turen.solitary) + waiting.delegation + waiting.lag + waiting.dispatch
                 + One(engine.phase # "idle") + engine.owed
                 + 2 * engine'.wakes - 2 * engine.wakes
    PROVE  Ends'
BY DEF Ends, Counted, EngineType, WaitingType, One

\* A count of lags, of which some close an app.
Lags(l, c) == [waiting EXCEPT !.lag = l, !.closing = c]

LEMMA LagsCounted ==
    ASSUME Counted, NEW l \in Nat, NEW c \in Nat, c <= l
    PROVE  /\ Lags(l, c) \in WaitingType /\ Lags(l, c).lag = l
           /\ Lags(l, c).delegation = waiting.delegation
           /\ Lags(l, c).dispatch = waiting.dispatch
<1>1. waiting \in [delegation : Nat, dispatch : Nat, lag : Nat, closing : Nat]
  BY DEF Counted, WaitingType
<1>2. /\ Lags(l, c) \in [delegation : Nat, dispatch : Nat, lag : Nat, closing : Nat]
      /\ Lags(l, c).lag = l /\ Lags(l, c).closing = c
      /\ Lags(l, c).delegation = waiting.delegation
      /\ Lags(l, c).dispatch = waiting.dispatch
  BY <1>1 DEF Lags
<1> QED
  BY <1>2 DEF WaitingType

LEMMA LagAwaited ==
    ASSUME Counted, WaitForLag
    PROVE  /\ waiting' \in WaitingType /\ waiting'.delegation = waiting.delegation
           /\ waiting'.dispatch = waiting.dispatch /\ waiting'.lag = waiting.lag + 1
<1> DEFINE l == waiting.lag + 1
           c == IF turen.appIdOnVoiceComing # NoApp THEN waiting.closing + 1 ELSE waiting.closing
<1>1. l \in Nat /\ c \in Nat /\ c <= l
  BY DEF Counted, WaitingType
<1>2. waiting' = Lags(l, c)
  BY DEF WaitForLag, Lags
<1> HIDE DEF l, c
<1>3. waiting' \in WaitingType /\ waiting'.delegation = waiting.delegation
      /\ waiting'.dispatch = waiting.dispatch /\ waiting'.lag = l
  BY <1>1, <1>2, LagsCounted
<1> QED
  BY <1>3 DEF l

LEMMA LagOver ==
    ASSUME Counted, LagSettles
    PROVE  /\ waiting' \in WaitingType /\ waiting'.delegation = waiting.delegation
           /\ waiting'.dispatch = waiting.dispatch /\ waiting'.lag = waiting.lag - 1
<1> DEFINE l == waiting.lag - 1
           fewer == waiting.closing - 1
<1>1. waiting \in WaitingType /\ {waiting.lag, waiting.closing} \subseteq Nat
      /\ waiting.closing <= waiting.lag
  BY DEF Counted, WaitingType
<1>2. \/ waiting.closing > 0 /\ waiting' = Lags(l, fewer)
      \/ waiting.lag > waiting.closing /\ waiting' = [waiting EXCEPT !.lag = l]
  BY DEF LagSettles, Lags
<1>3. [waiting EXCEPT !.lag = l] = Lags(l, waiting.closing)
  <2> HIDE DEF l
  <2> QED
    BY <1>1 DEF WaitingType, Lags
<1>4. PICK c \in Nat : c <= l /\ waiting' = Lags(l, c)
  <2>1. waiting.closing > 0 => fewer \in Nat /\ fewer <= l
    BY <1>1
  <2>2. waiting.lag > waiting.closing => waiting.closing <= l
    BY <1>1
  <2> HIDE DEF l, fewer
  <2> QED
    BY <1>1, <1>2, <1>3, <2>1, <2>2
<1>5. l \in Nat
  BY <1>1, <1>4
<1> HIDE DEF l
<1>6. waiting' \in WaitingType /\ waiting'.delegation = waiting.delegation
      /\ waiting'.dispatch = waiting.dispatch /\ waiting'.lag = l
  BY <1>4, <1>5, LagsCounted
<1> QED
  BY <1>6 DEF l

LEMMA EngineSteps ==
    ASSUME TurenIInv,
           \/ VoiceComing \/ AsrReject \/ AsrFake \/ EngineAnswers
           \/ \E state \in {"pending", "accept"} : AsrProgress(state)
           \/ \E picking \in BOOLEAN : StartOrEndVoice(picking)
    PROVE  TurenIInv'
<1> USE DEF TurenIInv
<1>1. CASE VoiceComing
  <2>1. Sound(turen') /\ turen'.solitary = turen.solitary
        /\ turen'.enabled = turen.enabled /\ turen'.opened = turen.opened
    BY <1>1 DEF VoiceComing, Sound, TurenState
  <2>2. /\ engine' \in EngineType /\ engine'.phase = "heard"
        /\ engine'.owed = engine.owed /\ engine'.wakes = engine.wakes + 1
    <3>1. engine.wakes + 1 \in Nat
      BY DEF Counted, EngineType
    <3>2. engine' = [engine EXCEPT !.wakes = engine.wakes + 1, !.phase = "heard"]
      BY <1>1 DEF VoiceComing
    <3> QED
      BY <3>1, <3>2, EngineWakes DEF Counted
  <2>3. \E n \in {0, 1} : waiting' = [waiting EXCEPT !.delegation = @ + n]
    BY <1>1 DEF VoiceComing
  <2>4. /\ waiting' \in WaitingType /\ waiting'.delegation <= waiting.delegation + 1
        /\ waiting'.dispatch = waiting.dispatch /\ waiting'.lag = waiting.lag
    BY <2>3 DEF Counted, WaitingType
  <2>5. engine.wakes < MaxWakes
    BY <1>1 DEF VoiceComing
  <2>6. Counted' /\ Ends'
    BY <2>1, <2>2, <2>4, <2>5, TurenAssumption DEF Counted, EngineType, WaitingType, Ends, One
  <2> QED
    BY <1>1, <2>1, <2>6 DEF VoiceComing, outside, Outside, NeverDeaf
<1>2. ASSUME NEW state \in {"pending", "accept"}, AsrProgress(state)
      PROVE  TurenIInv'
  <2>1. Sound(turen') /\ ~turen'.solitary
        /\ turen'.enabled = turen.enabled /\ turen'.opened = turen.opened
    BY <1>2 DEF AsrProgress, Sound, TurenState
  <2>2. Counted'
    BY <1>2 DEF AsrProgress, Counted, EngineType, Phases
  <2>3. Ends'
    BY <1>2, <2>1, <2>2 DEF AsrProgress, Counted, EngineType, Phases, WaitingType, Ends, One
  <2> QED
    BY <1>2, <2>1, <2>2, <2>3 DEF AsrProgress, outside, Outside, NeverDeaf
<1>3. CASE AsrEnd
  <2>1. Sound(turen') /\ turen'.solitary = turen.solitary
        /\ turen'.enabled = turen.enabled /\ turen'.opened = turen.opened
    BY <1>3 DEF AsrEnd, Sound, TurenState
  <2>2. /\ engine' \in EngineType /\ engine'.phase = "idle"
        /\ engine'.owed = engine.owed + 1 /\ engine'.wakes = engine.wakes
    <3> DEFINE n == engine.owed + 1
    <3>1. n \in Nat
      BY DEF Counted, EngineType
    <3>2. engine' = [engine EXCEPT !.phase = "idle", !.owed = n]
      BY <1>3 DEF AsrEnd
    <3>3. engine \in EngineType
      BY DEF Counted
    <3> HIDE DEF n
    <3>4. engine' \in EngineType /\ engine'.phase = "idle"
          /\ engine'.owed = n /\ engine'.wakes = engine.wakes
      BY <3>1, <3>2, <3>3, EngineIdle
    <3> QED
      BY <3>4 DEF n
  <2>3. Counted' /\ Ends'
    BY <1>3, <2>1, <2>2 DEF AsrEnd, Counted, EngineType, WaitingType, Ends, One
  <2> QED
    BY <1>3, <2>1, <2>3 DEF AsrEnd, outside, Outside, NeverDeaf
<1>4. CASE AsrReject
  <2> DEFINE t == [turen EXCEPT !.asrState = "reject"]
  <2>1. Sound(t) /\ t.solitary = turen.solitary
        /\ t.enabled = turen.enabled /\ t.opened = turen.opened
    BY DEF Sound, TurenState
  <2> HIDE DEF t
  <2>2. turen' = ResetAwaken(t, TRUE)
    BY <1>4 DEF AsrReject, t
  <2>3. Sound(turen') /\ (turen'.solitary => turen.solitary)
        /\ turen'.enabled = turen.enabled /\ turen'.opened = turen.opened
    BY <2>1, <2>2, ResetAwakenSound
  <2>4. /\ engine' \in EngineType /\ engine'.phase = "idle" /\ waiting' = waiting
        /\ engine'.owed = engine.owed /\ engine'.wakes = engine.wakes
    BY <1>4 DEF AsrReject, Counted, EngineType, Phases
  <2>5. Counted' /\ Ends'
    BY <2>3, <2>4 DEF Counted, EngineType, WaitingType, Ends, One
  <2> QED
    BY <1>4, <2>3, <2>5 DEF AsrReject, outside, Outside, NeverDeaf
<1>5. CASE AsrFake
  <2> DEFINE t == [turen EXCEPT !.asrState = "fake", !.noVoice = FALSE, !.lastFaked = TRUE]
  <2>1. Sound(t) /\ t.solitary = turen.solitary
        /\ t.enabled = turen.enabled /\ t.opened = turen.opened
    BY DEF Sound, TurenState
  <2> HIDE DEF t
  <2>2. turen' = ResetAwaken(t, TRUE)
    BY <1>5 DEF AsrFake, t
  <2>3. Sound(turen') /\ (turen'.solitary => turen.solitary)
        /\ turen'.enabled = turen.enabled /\ turen'.opened = turen.opened
    BY <2>1, <2>2, ResetAwakenSound
  <2>4. /\ engine' \in EngineType /\ engine'.phase = "idle" /\ waiting' = waiting
        /\ engine'.owed <= engine.owed + 1 /\ engine'.wakes = engine.wakes
    <3>1. PICK late \in {0, 1} : engine' = [engine EXCEPT !.phase = "idle", !.owed = @ + late]
      BY <1>5 DEF AsrFake
    <3> DEFINE n == engine.owed + late
    <3>2. n \in Nat /\ n <= engine.owed + 1
      BY DEF Counted, EngineType
    <3>3. engine' = [engine EXCEPT !.phase = "idle", !.owed = n]
      BY <3>1
    <3>4. engine \in EngineType
      BY DEF Counted
    <3> HIDE DEF n
    <3>5. engine' \in EngineType /\ engine'.phase = "idle"
          /\ engine'.owed = n /\ engine'.wakes = engine.wakes
      BY <3>2, <3>3, <3>4, EngineIdle
    <3> QED
      BY <1>5, <3>2, <3>5 DEF AsrFake
  <2>5. engine.phase # "idle"
    BY <1>5 DEF AsrFake
  <2>6. Counted' /\ Ends'
    BY <2>3, <2>4, <2>5 DEF Counted, EngineType, WaitingType, Ends, One
  <2> QED
    BY <1>5, <2>3, <2>6 DEF AsrFake, outside, Outside, NeverDeaf
<1>6. ASSUME NEW picking \in BOOLEAN, StartOrEndVoice(picking)
      PROVE  TurenIInv'
  <2>1. Sound(turen') /\ turen'.solitary = turen.solitary
        /\ turen'.enabled = turen.enabled /\ turen'.opened = turen.opened
    BY <1>6 DEF StartOrEndVoice, Sound, TurenState
  <2> QED
    BY <1>6, <2>1 DEF StartOrEndVoice, outside, Outside, NeverDeaf, Counted, Ends
<1>7. ASSUME ResultComes, Sound(turen'), turen'.solitary => turen.solitary,
             turen'.enabled = turen.enabled, turen'.opened = turen.opened,
             waiting' = waiting \/ waiting' = [waiting EXCEPT !.dispatch = @ + 1]
      PROVE  TurenIInv'
  <2>1. Counted'
    BY <1>7 DEF ResultComes, Counted, EngineType, Phases, WaitingType
  <2>2. Ends'
    BY <1>7, <2>1 DEF ResultComes, Counted, EngineType, Phases, WaitingType, Ends, One
  <2> QED
    BY <1>7, <2>1, <2>2 DEF ResultComes, outside, Outside, NeverDeaf
<1>8. CASE SkipFakedResult
  <2>1. Sound(turen') /\ turen'.solitary = turen.solitary
        /\ turen'.enabled = turen.enabled /\ turen'.opened = turen.opened
    BY <1>8 DEF SkipFakedResult, Sound, TurenState
  <2> QED
    BY <1>7, <1>8, <2>1 DEF SkipFakedResult
<1>9. CASE DiscardResult
  <2>1. Sound(turen') /\ turen'.solitary = turen.solitary
        /\ turen'.enabled = turen.enabled /\ turen'.opened = turen.opened
    BY <1>9 DEF DiscardResult, Sound, TurenState
  <2> QED
    BY <1>7, <1>9, <2>1 DEF DiscardResult
<1>10. CASE NlpResult
  <2>1. Sound(turen') /\ (turen'.solitary => turen.solitary)
        /\ turen'.enabled = turen.enabled /\ turen'.opened = turen.opened
    <3> DEFINE t == ResetAwaken(turen, FALSE)
    <3>1. Sound(t) /\ (t.solitary => turen.solitary)
          /\ t.enabled = turen.enabled /\ t.opened = turen.opened
      BY ResetAwakenSound
    <3>2. turen' = t \/ turen' = SettlePaused(t)
      BY <1>10 DEF NlpResult
    <3> HIDE DEF t
    <3> QED
      BY <3>1, <3>2, SettlePausedSound
  <2>2. waiting' = waiting \/ waiting' = [waiting EXCEPT !.dispatch = @ + 1]
    BY <1>10 DEF NlpResult
  <2> QED
    BY <1>7, <1>10, <2>1, <2>2 DEF NlpResult
<1>11. ASSUME NEW prepared \in BOOLEAN, MaliciousNlpResult(prepared)
       PROVE  TurenIInv'
  <2> DEFINE t == [turen EXCEPT !.pickingUpDiscardNext = FALSE]
  <2>1. Sound(t) /\ t.solitary = turen.solitary
        /\ t.enabled = turen.enabled /\ t.opened = turen.opened
    BY DEF Sound, TurenState
  <2> HIDE DEF t
  <2>2. turen' = ResetAwaken(t, TRUE) \/ turen' = SettlePaused(ResetAwaken(turen, FALSE))
    BY <1>11 DEF MaliciousNlpResult, t
  <2>3. Sound(turen') /\ (turen'.solitary => turen.solitary)
        /\ turen'.enabled = turen.enabled /\ turen'.opened = turen.opened
    <3> DEFINE u == ResetAwaken(turen, FALSE)
    <3>1. Sound(u) /\ (u.solitary => turen.solitary)
          /\ u.enabled = turen.enabled /\ u.opened = turen.opened
      BY ResetAwakenSound
    <3>2. turen' = SettlePaused(u) =>
            /\ Sound(turen') /\ (turen'.solitary => turen.solitary)
            /\ turen'.enabled = turen.enabled /\ turen'.opened = turen.opened
      <4> HIDE DEF u
      <4> QED
        BY <3>1, SettlePausedSound
    <3>3. turen' = ResetAwaken(t, TRUE) =>
            /\ Sound(turen') /\ (turen'.solitary => turen.solitary)
            /\ turen'.enabled = turen.enabled /\ turen'.opened = turen.opened
      BY <2>1, ResetAwakenSound
    <3> QED
      BY <2>2, <3>2, <3>3
  <2> QED
    BY <1>7, <1>11, <2>3 DEF MaliciousNlpResult
<1>12. ASSUME NEW prepared \in BOOLEAN, SpeechError(prepared)
       PROVE  TurenIInv'
  <2> DEFINE t == [turen EXCEPT !.pickingUpDiscardNext = FALSE]
  <2>1. Sound(t) /\ t.solitary = turen.solitary
        /\ t.enabled = turen.enabled /\ t.opened = turen.opened
    BY DEF Sound, TurenState
  <2> HIDE DEF t
  <2>2. turen' = turen \/ turen' = ResetAwaken(t, TRUE)
    BY <1>12 DEF SpeechError, HandleSpeechError, t
  <2>3. Sound(turen') /\ (turen'.solitary => turen.solitary)
        /\ turen'.enabled = turen.enabled /\ turen'.opened = turen.opened
    BY <2>1, <2>2, ResetAwakenSound
  <2>4. /\ waiting' \in WaitingType /\ waiting'.delegation = waiting.delegation
        /\ waiting'.dispatch = waiting.dispatch /\ waiting'.lag \in {waiting.lag, waiting.lag + 1}
    BY <1>12, LagAwaited DEF SpeechError, Counted
  <2>5. Counted'
    BY <1>12, <2>4 DEF SpeechError, Counted, EngineType, Phases, WaitingType
  <2>6. Ends'
    BY <1>12, <2>3, <2>4, <2>5 DEF SpeechError, Counted, EngineType, Phases, WaitingType, Ends, One
  <2> QED
    BY <1>12, <2>3, <2>5, <2>6 DEF SpeechError, outside, Outside, NeverDeaf
<1> QED
  BY <1>1, <1>2, <1>3, <1>4, <1>5, <1>6, <1>8, <1>9, <1>10, <1>11, <1>12 DEF EngineAnswers

\* Promises that settle, and the timers.
LEMMA PromiseSteps ==
    ASSUME TurenIInv, Settles \/ TurenTimers
    PROVE  TurenIInv'
<1> USE DEF TurenIInv
<1>1. ASSUME NEW delegation \in BOOLEAN, WakeUpDelegated(delegation)
      PROVE  TurenIInv'
  <2>1. turen' = Pickup(turen, FALSE, TRUE) \/ turen' = SetAwaken(turen)
    BY <1>1 DEF WakeUpDelegated
  <2>2. Sound(turen')
        /\ (turen'.enabled \/ (turen'.enabled = turen.enabled /\ turen'.opened = turen.opened))
    BY <2>1, PickupSound, SetAwakenSound DEF Outside
  <2>3. /\ waiting' \in WaitingType /\ waiting'.delegation = waiting.delegation - 1
        /\ waiting'.dispatch = waiting.dispatch /\ waiting'.lag = waiting.lag
    BY <1>1 DEF WakeUpDelegated, Counted, WaitingType
  <2>4. One(turen'.solitary) <= 1 + One(turen.solitary)
    BY DEF One
  <2>5. engine' = engine
    BY <1>1 DEF WakeUpDelegated
  <2>6. Counted'
    BY <2>3, <2>5 DEF Counted
  <2>7. Ends'
    BY <2>3, <2>4, <2>5, <2>6, OneMonotone DEF Counted, EngineType, WaitingType, Ends
  <2> QED
    BY <1>1, <2>2, <2>6, <2>7 DEF WakeUpDelegated, outside, Outside, NeverDeaf
<1>2. ASSUME NEW success \in BOOLEAN, IntentSettles(success)
      PROVE  TurenIInv'
  <2>1. Sound(turen') /\ turen'.solitary = turen.solitary
        /\ turen'.enabled = turen.enabled /\ turen'.opened = turen.opened
    BY <1>2, SettlePausedSound DEF IntentSettles
  <2>2. /\ waiting' \in WaitingType /\ waiting'.delegation = waiting.delegation
        /\ waiting'.dispatch = waiting.dispatch - 1 /\ waiting'.lag = waiting.lag
    BY <1>2 DEF IntentSettles, Counted, WaitingType
  <2>3. Counted' /\ Ends'
    BY <1>2, <2>1, <2>2 DEF IntentSettles, Counted, EngineType, WaitingType, Ends, One
  <2> QED
    BY <1>2, <2>1, <2>3 DEF IntentSettles, outside, Outside, NeverDeaf
<1>3. CASE LagSettles
  <2>1. Sound(turen') /\ (turen'.solitary => turen.solitary)
        /\ turen'.enabled = turen.enabled /\ turen'.opened = turen.opened
    BY <1>3, ResetAwakenSound DEF LagSettles
  <2>2. /\ waiting' \in WaitingType /\ waiting'.delegation = waiting.delegation
        /\ waiting'.dispatch = waiting.dispatch /\ waiting'.lag = waiting.lag - 1
    BY <1>3, LagOver
  <2>3. One(turen'.solitary) <= One(turen.solitary)
    BY <2>1, OneMonotone
  <2>4. engine' = engine /\ reasons' = reasons /\ shouldRecover' = shouldRecover
    BY <1>3 DEF LagSettles
  <2>5. Counted' /\ Ends'
    BY <2>2, <2>3, <2>4, OneMonotone DEF Counted, EngineType, WaitingType, Ends
  <2>6. Outside'
    BY <1>3 DEF LagSettles, Outside
  <2> QED
    BY <2>1, <2>4, <2>5, <2>6 DEF NeverDeaf
<1>4. CASE NoVoiceTimerFires
  <2>1. Sound(turen') /\ turen'.enabled /\ ~turen'.solitary
    BY <1>4, PickupSound DEF NoVoiceTimerFires
  <2>2. Counted' /\ Ends'
    BY <1>4, <2>1 DEF NoVoiceTimerFires, Counted, EngineType, WaitingType, Ends, One
  <2> QED
    BY <1>4, <2>1, <2>2 DEF NoVoiceTimerFires, outside, Outside, NeverDeaf
<1>5. ASSUME NEW prepared \in BOOLEAN, SolitaryTimerFires(prepared)
      PROVE  TurenIInv'
  <2> DEFINE closed == Pickup(turen, FALSE, FALSE)
  <2>1. Sound(closed) /\ closed.enabled /\ ~closed.solitary
    BY PickupSound
  <2>2. turen' = closed \/ turen' = ResetAwaken(closed, TRUE)
    BY <1>5 DEF SolitaryTimerFires
  <2> HIDE DEF closed
  <2>4. Sound(turen') /\ turen'.enabled /\ ~turen'.solitary
    BY <2>1, <2>2, ResetAwakenSound
  <2>5. /\ waiting' \in WaitingType /\ waiting'.delegation = waiting.delegation
        /\ waiting'.dispatch = waiting.dispatch /\ waiting'.lag <= waiting.lag + 1
    <3>1. WaitForLag \/ waiting' = waiting
      BY <1>5 DEF SolitaryTimerFires
    <3> QED
      BY <3>1, LagAwaited DEF Counted, WaitingType
  <2>6. engine' = engine /\ One(turen.solitary) = 1 /\ One(turen'.solitary) = 0
    BY <1>5, <2>4 DEF SolitaryTimerFires, One
  <2>7. Counted'
    BY <2>5, <2>6 DEF Counted
  <2>8. Ends'
    BY <2>5, <2>6, <2>7, OneMonotone, EndsKept DEF Counted, EngineType, WaitingType, Ends
  <2> QED
    BY <1>5, <2>4, <2>7, <2>8 DEF SolitaryTimerFires, outside, Outside, NeverDeaf
<1> QED
  BY <1>1, <1>2, <1>3, <1>4, <1>5 DEF Settles, TurenTimers

\* What the runtime and the apps do.  No promise is made.
LEMMA RuntimeSteps ==
    ASSUME TurenIInv,
           \/ SpeechCompleted \/ OpenMicrophone \/ CloseMicrophone
           \/ \E mute \in BOOLEAN : ToggleMute(mute)
           \/ \E reason \in Reasons : DisableRuntimeFor(reason) \/ EnableRuntimeFor(reason)
           \/ \E a \in Listeners : Destruct(a) \/ \E on \in BOOLEAN : SetEnabled(a, on)
           \/ \E a \in FrontApps \cup {NoApp} : FrontChanges(a)
    PROVE  TurenIInv'
<1> USE DEF TurenIInv
<1>1. ASSUME UNCHANGED <<waiting, engine>>, turen'.solitary => turen.solitary
      PROVE  Counted' /\ Ends'
  BY <1>1 DEF Counted, EngineType, WaitingType, Ends, One
<1>2. CASE SpeechCompleted
  <2>1. Sound(turen') /\ turen'.enabled /\ turen'.solitary = turen.solitary
    BY <1>2, ToggleEngineSound DEF SpeechCompleted
  <2> QED
    BY <1>1, <1>2, <2>1 DEF SpeechCompleted, outside, Outside, NeverDeaf
<1>3. CASE OpenMicrophone
  <2>1. Sound(turen') /\ turen'.opened /\ (turen'.solitary => turen.solitary)
    BY <1>3, PickupSound DEF OpenMicrophone
  <2>2. /\ engine' \in EngineType /\ engine'.phase = "heard"
        /\ engine'.owed = engine.owed /\ engine'.wakes = engine.wakes + 1
    <3> DEFINE n == engine.wakes + 1
    <3>1. n \in Nat
      BY DEF Counted, EngineType
    <3>2. engine' = [engine EXCEPT !.phase = "heard", !.wakes = n]
      BY <1>3 DEF OpenMicrophone
    <3>3. engine \in EngineType
      BY DEF Counted
    <3> HIDE DEF n
    <3>4. engine' \in EngineType /\ engine'.phase = "heard"
          /\ engine'.owed = engine.owed /\ engine'.wakes = n
      BY <3>1, <3>2, <3>3, EnginePickedUp
    <3> QED
      BY <3>4 DEF n
  <2>3. engine.wakes < MaxWakes /\ waiting' = waiting
    BY <1>3 DEF OpenMicrophone
  <2>4. Counted' /\ Ends'
    BY <2>1, <2>2, <2>3, TurenAssumption DEF Counted, EngineType, WaitingType, Ends, One
  <2> QED
    BY <1>3, <2>1, <2>4 DEF OpenMicrophone, outside, Outside, NeverDeaf
<1>4. CASE CloseMicrophone
  <2>1. Sound(turen') /\ turen'.enabled /\ (turen'.solitary => turen.solitary)
    BY <1>4, PickupSound DEF CloseMicrophone
  <2> QED
    BY <1>1, <1>4, <2>1 DEF CloseMicrophone, outside, Outside, NeverDeaf
<1>5. ASSUME NEW mute \in BOOLEAN, ToggleMute(mute)
      PROVE  TurenIInv'
  <2> DEFINE t == [turen EXCEPT !.muted = mute]
  <2>1. Sound(t) /\ t.solitary = turen.solitary
        /\ t.enabled = turen.enabled /\ t.opened = turen.opened
    BY DEF Sound, TurenState
  <2>2. turen' = t \/ turen' = ResetAwaken(t, TRUE)
    BY <1>5 DEF ToggleMute
  <2> HIDE DEF t
  <2>3. Sound(turen') /\ (turen'.solitary => turen.solitary)
        /\ turen'.enabled = turen.enabled /\ turen'.opened = turen.opened
    BY <2>1, <2>2, ResetAwakenSound
  <2> QED
    BY <1>1, <1>5, <2>3 DEF ToggleMute, outside, Outside, NeverDeaf
<1>6. ASSUME NEW reason \in Reasons, DisableRuntimeFor(reason)
      PROVE  TurenIInv'
  <2>1. Sound(turen') /\ turen'.solitary = turen.solitary
    BY <1>6 DEF DisableRuntimeFor, Disabled, Sound, TurenState
  <2>2. reasons' # {} /\ Outside'
    BY <1>6 DEF DisableRuntimeFor, Disabled, Outside
  <2> QED
    BY <1>1, <1>6, <2>1, <2>2 DEF DisableRuntimeFor, NeverDeaf
<1>7. ASSUME NEW reason \in Reasons, EnableRuntimeFor(reason)
      PROVE  TurenIInv'
  <2>1. Sound(turen') /\ turen'.solitary = turen.solitary
        /\ (turen'.enabled \/ reasons # {reason})
    BY <1>7, ToggleEngineSound DEF EnableRuntimeFor, Enabled
  <2>2. Outside' /\ (turen'.enabled \/ reasons' # {})
    BY <1>7, <2>1 DEF EnableRuntimeFor, Enabled, Outside
  <2> QED
    BY <1>1, <1>7, <2>1, <2>2 DEF EnableRuntimeFor, NeverDeaf
<1>8. ASSUME NEW a \in Listeners, Destruct(a)
      PROVE  TurenIInv'
  <2>1. Sound(turen') /\ turen'.enabled /\ turen'.solitary = turen.solitary
    BY <1>8, ToggleEngineSound DEF Destruct
  <2>2. Outside'
    BY <1>8 DEF Destruct, Outside
  <2> QED
    BY <1>1, <1>8, <2>1, <2>2 DEF Destruct, NeverDeaf
<1>9. ASSUME NEW a \in Listeners, NEW on \in BOOLEAN, SetEnabled(a, on)
      PROVE  TurenIInv'
  <2>1. Sound(turen') /\ turen'.enabled = on /\ turen'.solitary = turen.solitary
    BY <1>9, ToggleEngineSound DEF SetEnabled
  <2>2. Outside' /\ (on \/ shouldRecover' # {})
    BY <1>9 DEF SetEnabled, Outside
  <2> QED
    BY <1>1, <1>9, <2>1, <2>2 DEF SetEnabled, NeverDeaf
<1>10. ASSUME NEW a \in FrontApps \cup {NoApp}, FrontChanges(a)
       PROVE  TurenIInv'
  BY <1>1, <1>10 DEF FrontChanges, Outside, NeverDeaf
<1> QED
  BY <1>2, <1>3, <1>4, <1>5, <1>6, <1>7, <1>8, <1>9, <1>10

LEMMA StepInv ==
    ASSUME TurenIInv, [TurenNext]_turenVars
    PROVE  TurenIInv'
<1>1. CASE UNCHANGED turenVars
  BY <1>1 DEF turenVars, outside, TurenIInv, Counted, Ends, Outside, NeverDeaf
<1>2. CASE TurenNext
  BY <1>2, EngineSteps, PromiseSteps, RuntimeSteps DEF TurenNext
<1> QED
  BY <1>1, <1>2

\* The bounds of the types are those of the sessions that may begin.
LEMMA InvHolds == TurenIInv => TurenInv
<1> SUFFICES ASSUME TurenIInv PROVE TurenInv
  OBVIOUS
<1> USE DEF TurenIInv
<1>1. waiting \in Waiting
  BY TurenAssumption DEF Counted, EngineType, WaitingType, Ends, One, Waiting, Count
<1>2. engine \in Engine
  BY TurenAssumption DEF Counted, EngineType, WaitingType, Phases, Ends, One, Engine, Count
<1> QED
  BY <1>1, <1>2 DEF Sound, Outside, TurenInv, TurenTypeOK, LifetimeHeld, SolitaryInSession

\* Whatever ends a session, and in whatever order the engine, the promises, the
\* timers, the apps and the reasons to be disabled come, the lifetime is paused
\* and the timer runs in a session only, and the engine that hears the next one
\* is not left off (TurenInv), for any number of sessions.
THEOREM SessionLeavesNothing == TurenSpec => []TurenInv
BY InitInv, StepInv, InvHolds, PTL DEF TurenSpec

-----------------------------------------------------------------------------
(***************************************************************************)
(* The runtime                                                             *)
(***************************************************************************)

OwnTyped ==
    /\ boot \in {"loading", "deciding", "first boot", "boot sound", "end", "done"}
    /\ login \in {"none", "connecting"}
    /\ welcome \in SUBSET {"deciding", "sound"}
    /\ runtime \in RuntimeState

RuntimeIInv == TurenIInv /\ OwnTyped /\ AsleepIsDisabled /\ WelcomedOnce

-----------------------------------------------------------------------------
(* What the runtime does to Turen *)

LEMMA MutedSound ==
    ASSUME NEW t, Sound(t), NEW mute \in BOOLEAN
    PROVE  /\ Sound(Muted(t, mute))
           /\ Muted(t, mute).enabled = t.enabled
           /\ Muted(t, mute).opened = t.opened
           /\ Muted(t, mute).solitary => t.solitary
<1> DEFINE u == [t EXCEPT !.muted = mute]
<1>1. Sound(u) /\ u.enabled = t.enabled /\ u.opened = t.opened /\ u.solitary = t.solitary
  BY DEF Sound, TurenState
<1>2. Muted(t, mute) = u \/ Muted(t, mute) = ResetAwaken(u, TRUE)
  BY DEF Muted
<1> HIDE DEF u
<1> QED
  BY <1>1, <1>2, ResetAwakenSound

\* No promise is made, nobody speaks: the session may only lose its timer.
LEMMA SessionKept ==
    ASSUME TurenIInv, UNCHANGED <<waiting, engine, shouldRecover>>,
           Sound(turen'), turen'.solitary => turen.solitary,
           reasons' \subseteq Reasons, front' \in {front, NoApp}, NeverDeaf'
    PROVE  TurenIInv'
BY DEF TurenIInv, Counted, EngineType, WaitingType, Ends, One, Outside

LEMMA DisableKeeps ==
    ASSUME TurenIInv, NEW reason \in Reasons, DisableFor(reason), UNCHANGED rest
    PROVE  TurenIInv' /\ reasons' = reasons \cup {reason}
<1>1. CASE reason \in reasons
  BY <1>1, SessionKept DEF DisableFor, rest, TurenIInv, Outside, NeverDeaf
<1>2. CASE reason \notin reasons
  <2>1. Sound(turen') /\ turen'.solitary = turen.solitary /\ reasons' = reasons \cup {reason}
    BY <1>2 DEF DisableFor, Disabled, TurenIInv, Sound, TurenState
  <2> QED
    BY <2>1, SessionKept DEF rest, TurenIInv, Outside, NeverDeaf
<1> QED
  BY <1>1, <1>2

LEMMA EnableKeeps ==
    ASSUME TurenIInv, NEW reason \in Reasons, EnableFor(reason), UNCHANGED rest
    PROVE  TurenIInv' /\ reasons' = reasons \ {reason}
<1>1. CASE reason \notin reasons
  BY <1>1, SessionKept DEF EnableFor, rest, TurenIInv, Outside, NeverDeaf
<1>2. CASE reason \in reasons
  <2>1. Sound(turen') /\ turen'.solitary = turen.solitary /\ reasons' = reasons \ {reason}
        /\ (turen'.enabled \/ reasons # {reason})
    BY <1>2, ToggleEngineSound DEF EnableFor, Enabled, TurenIInv
  <2> QED
    BY <1>2, <2>1, SessionKept DEF rest, TurenIInv, Outside, NeverDeaf
<1> QED
  BY <1>1, <1>2

-----------------------------------------------------------------------------
LEMMA RuntimeInitInv == RuntimeInit => RuntimeIInv
<1> SUFFICES ASSUME RuntimeInit PROVE RuntimeIInv
  OBVIOUS
<1>1. Sound(turen)
  BY DEF RuntimeInit, TurenAtStart, Sound, TurenState
<1>2. Counted /\ Ends
  BY TurenAssumption DEF RuntimeInit, TurenAtStart, Counted, EngineType, WaitingType, Phases,
                         Ends, One
<1>3. Outside /\ NeverDeaf
  BY RuntimeAssumption DEF RuntimeInit, TurenAtStart, Outside, NeverDeaf
<1>4. OwnTyped /\ runtime.hibernated = FALSE /\ runtime.welcomes = 0 /\ runtime.grants = 1
  <2>1. runtime \in RuntimeState
    <3>1. {0} \subseteq 0 .. MaxLogins /\ {0} \subseteq 0 .. MaxSleeps
          /\ {0} \subseteq 0 .. MaxResets /\ {0} \subseteq Nat /\ {1} \subseteq Nat
          /\ {FALSE} \subseteq BOOLEAN
      BY RuntimeAssumption
    <3> QED
      BY <3>1, Zenon DEF RuntimeInit, OwnInit, RuntimeState
  <2>2. runtime.hibernated = FALSE /\ runtime.welcomes = 0 /\ runtime.grants = 1
    BY DEF RuntimeInit, OwnInit
  <2> QED
    BY <2>1, <2>2 DEF RuntimeInit, OwnInit, OwnTyped
<1>5. AsleepIsDisabled
  <2>1. "hibernated" \notin reasons
    BY DEF RuntimeInit
  <2> QED
    BY <1>4, <2>1 DEF AsleepIsDisabled
<1>6. WelcomedOnce
  BY <1>4 DEF WelcomedOnce
<1> QED
  BY <1>1, <1>2, <1>3, <1>4, <1>5, <1>6 DEF RuntimeIInv, TurenIInv

LEMMA BootSteps ==
    ASSUME RuntimeIInv, BootNext
    PROVE  RuntimeIInv'
<1>1. {"initiating", "welcoming"} \subseteq Reasons
  BY RuntimeAssumption
<1>2. ASSUME UNCHANGED <<rest, login, welcome, runtime>>,
             boot' \in {"deciding", "first boot", "boot sound", "end", "done"},
             \/ UNCHANGED <<reasons, turen>>
             \/ DisableFor("welcoming") \/ EnableFor("welcoming") \/ EnableFor("initiating")
      PROVE  RuntimeIInv'
  <2>1. TurenIInv' /\ ("hibernated" \in reasons' <=> "hibernated" \in reasons)
    <3>1. CASE UNCHANGED <<reasons, turen>>
      BY <1>2, <3>1, SessionKept DEF rest, RuntimeIInv, TurenIInv, Outside, NeverDeaf
    <3>2. CASE DisableFor("welcoming")
      <4>1. "welcoming" \in Reasons /\ UNCHANGED rest /\ TurenIInv
        BY <1>1, <1>2 DEF RuntimeIInv
      <4>2. TurenIInv' /\ reasons' = reasons \cup {"welcoming"}
        BY <3>2, <4>1, DisableKeeps
      <4> QED
        BY <4>2
    <3>3. CASE EnableFor("welcoming") \/ EnableFor("initiating")
      BY <1>1, <1>2, <3>3, EnableKeeps DEF RuntimeIInv
    <3> QED
      BY <1>2, <3>1, <3>2, <3>3
  <2> QED
    BY <1>2, <2>1 DEF RuntimeIInv, OwnTyped, AsleepIsDisabled, WelcomedOnce
<1>3. CASE AppsLoaded
  BY <1>2, <1>3 DEF AppsLoaded
<1>4. CASE \E delegation, firstBoot \in BOOLEAN : InitDelegated(delegation, firstBoot)
  BY <1>2, <1>4 DEF InitDelegated
<1>5. CASE \E played \in BOOLEAN : FirstBootSound(played) \/ BootSound(played)
  BY <1>2, <1>5 DEF FirstBootSound, BootSound
<1>6. CASE BootEnds
  <2>1. TurenIInv' /\ reasons' = reasons \ {"welcoming"}
    BY <1>1, <1>6, EnableKeeps DEF BootEnds, RuntimeIInv
  <2> DEFINE b == runtime.networkPrepared \/ ~ShouldBreakInit(reasons')
  <2>2. /\ runtime \in RuntimeState /\ b \in BOOLEAN
        /\ runtime' = [runtime EXCEPT !.networkPrepared = b]
    BY <1>6 DEF BootEnds, RuntimeIInv, OwnTyped, RuntimeState, ShouldBreakInit
  <2> HIDE DEF b
  <2>3. /\ runtime' \in RuntimeState
        /\ runtime'.hibernated = runtime.hibernated /\ runtime'.welcomes = runtime.welcomes
        /\ runtime'.shouldWelcome = runtime.shouldWelcome /\ runtime'.grants = runtime.grants
    BY <2>2 DEF RuntimeState
  <2> QED
    BY <1>6, <2>1, <2>3 DEF BootEnds, RuntimeIInv, OwnTyped, AsleepIsDisabled, WelcomedOnce
<1> QED
  BY <1>3, <1>4, <1>5, <1>6 DEF BootNext

\* Steps that leave Turen alone: the log-in and the setup of the network.
LEMMA LoginSteps ==
    ASSUME RuntimeIInv,
           \/ RuntimeLogin \/ OnLoggedIn \/ NetworkReset \/ NetworkConfigured
           \/ \E bindRequired \in BOOLEAN : OnLoginFails(bindRequired)
    PROVE  RuntimeIInv'
<1>1. runtime \in RuntimeState
  BY DEF RuntimeIInv, OwnTyped
<1>2. ASSUME UNCHANGED <<turenVars, boot>>, login' \in {"none", "connecting"},
             welcome' \in SUBSET {"deciding", "sound"}, runtime' \in RuntimeState,
             runtime'.hibernated = runtime.hibernated, WelcomedOnce'
      PROVE  RuntimeIInv'
  BY <1>2, SessionKept DEF turenVars, outside, RuntimeIInv, TurenIInv, Outside, NeverDeaf,
                           OwnTyped, AsleepIsDisabled
<1>3. CASE RuntimeLogin
  <2> DEFINE n == runtime.logins + 1
  <2>0. n \in 0 .. MaxLogins
    BY <1>1, <1>3, RuntimeAssumption DEF RuntimeLogin, RuntimeState
  <2>a. runtime' = [runtime EXCEPT !.logins = n, !.loggedIn = FALSE]
    BY <1>3 DEF RuntimeLogin
  <2> HIDE DEF n
  <2>1. runtime' \in RuntimeState /\ runtime'.hibernated = runtime.hibernated
        /\ runtime'.welcomes = runtime.welcomes
        /\ runtime'.shouldWelcome = runtime.shouldWelcome /\ runtime'.grants = runtime.grants
    BY <1>1, <2>0, <2>a DEF RuntimeState
  <2> QED
    BY <1>2, <1>3, <2>1 DEF RuntimeLogin, RuntimeIInv, OwnTyped, WelcomedOnce
<1>4. CASE OnLoggedIn
  <2> DEFINE n == runtime.welcomes + (IF runtime.shouldWelcome THEN 1 ELSE 0)
  <2>1. n \in Nat /\ n <= runtime.grants
    BY <1>1 DEF RuntimeState, RuntimeIInv, WelcomedOnce
  <2>2. runtime' = [runtime EXCEPT !.loggedIn = TRUE, !.shouldWelcome = FALSE, !.welcomes = n]
    BY <1>4 DEF OnLoggedIn
  <2> HIDE DEF n
  <2>3. /\ runtime' \in RuntimeState /\ runtime'.hibernated = runtime.hibernated
        /\ runtime'.welcomes = n /\ runtime'.shouldWelcome = FALSE
        /\ runtime'.grants = runtime.grants
    BY <1>1, <2>1, <2>2 DEF RuntimeState
  <2>4. WelcomedOnce'
    BY <1>1, <2>1, <2>3 DEF WelcomedOnce, RuntimeState
  <2> QED
    BY <1>2, <1>4, <2>3, <2>4 DEF OnLoggedIn, RuntimeIInv, OwnTyped
<1>5. CASE NetworkReset \/ NetworkConfigured
  <2>1. runtime' \in RuntimeState /\ runtime'.hibernated = runtime.hibernated
        /\ runtime'.welcomes = runtime.welcomes
        /\ runtime'.shouldWelcome = runtime.shouldWelcome /\ runtime'.grants = runtime.grants
    BY <1>1, <1>5 DEF NetworkReset, NetworkConfigured, RuntimeState
  <2> QED
    BY <1>2, <1>5, <2>1 DEF NetworkReset, NetworkConfigured, RuntimeIInv, OwnTyped, WelcomedOnce
<1>6. ASSUME NEW bindRequired \in BOOLEAN, OnLoginFails(bindRequired) PROVE RuntimeIInv'
  <2> DEFINE b == runtime.configuring \/ bindRequired
  <2>1. b \in BOOLEAN /\ runtime' = [runtime EXCEPT !.configuring = b]
    BY <1>1, <1>6 DEF OnLoginFails, RuntimeState
  <2> HIDE DEF b
  <2>2. runtime' \in RuntimeState /\ runtime'.hibernated = runtime.hibernated
        /\ runtime'.welcomes = runtime.welcomes
        /\ runtime'.shouldWelcome = runtime.shouldWelcome /\ runtime'.grants = runtime.grants
    BY <1>1, <2>1 DEF RuntimeState
  <2> QED
    BY <1>2, <1>6, <2>2 DEF OnLoginFails, RuntimeIInv, OwnTyped, WelcomedOnce
<1> QED
  BY <1>3, <1>4, <1>5, <1>6

LEMMA WelcomeSteps ==
    ASSUME RuntimeIInv, WelcomeNext
    PROVE  RuntimeIInv'
<1>1. "welcoming" \in Reasons
  BY RuntimeAssumption
<1>2. ASSUME UNCHANGED <<boot, login, runtime>>, TurenIInv',
             welcome' \in SUBSET {"deciding", "sound"},
             "hibernated" \in reasons' <=> "hibernated" \in reasons
      PROVE  RuntimeIInv'
  BY <1>2 DEF RuntimeIInv, OwnTyped, AsleepIsDisabled, WelcomedOnce
<1>3. CASE WelcomeSoundEnds
  <2>1. TurenIInv' /\ reasons' = reasons \ {"welcoming"}
    BY <1>1, <1>3, EnableKeeps DEF WelcomeSoundEnds, RuntimeIInv
  <2> QED
    BY <1>2, <1>3, <2>1 DEF WelcomeSoundEnds, RuntimeIInv, OwnTyped
<1>4. ASSUME NEW delegation \in BOOLEAN, LoginDelegated(delegation) PROVE RuntimeIInv'
  <2>1. welcome' \in SUBSET {"deciding", "sound"} /\ UNCHANGED <<rest, boot, login, runtime>>
    BY <1>4 DEF LoginDelegated, RuntimeIInv, OwnTyped
  <2>2. CASE UNCHANGED <<reasons, turen>>
    BY <1>2, <2>1, <2>2, SessionKept DEF rest, RuntimeIInv, TurenIInv, Outside, NeverDeaf
  <2>3. CASE ~delegation
    <3>1. reasons' = reasons \cup {"welcoming"}
          /\ turen' \in {Muted(turen, FALSE), Muted(ToggleEngine(turen, FALSE), FALSE)}
      BY <1>4, <2>3 DEF LoginDelegated
    <3>2. Sound(turen') /\ (turen'.solitary => turen.solitary)
      <4> DEFINE t == ToggleEngine(turen, FALSE)
      <4>1. Sound(turen) /\ Sound(t) /\ t.solitary = turen.solitary
        BY ToggleEngineSound DEF RuntimeIInv, TurenIInv
      <4> HIDE DEF t
      <4> QED
        BY <3>1, <4>1, MutedSound DEF t
    <3>3. TurenIInv'
      BY <1>1, <2>1, <3>1, <3>2, SessionKept DEF rest, RuntimeIInv, TurenIInv, Outside, NeverDeaf
    <3> QED
      BY <1>2, <2>1, <3>1, <3>3
  <2> QED
    BY <1>4, <2>2, <2>3 DEF LoginDelegated
<1> QED
  BY <1>3, <1>4 DEF WelcomeNext

LEMMA SleepSteps ==
    ASSUME RuntimeIInv,
           \/ Hibernate \/ ResetNetwork \/ SetMicMute
           \/ \E shouldWelcome \in BOOLEAN : Wakeup(shouldWelcome)
           \/ \E open \in BOOLEAN : SetPickup(open)
    PROVE  RuntimeIInv'
<1>1. /\ runtime \in RuntimeState /\ Sound(turen) /\ "hibernated" \in Reasons
      /\ TurenIInv /\ OwnTyped /\ Outside
  BY RuntimeAssumption DEF RuntimeIInv, OwnTyped, TurenIInv
<1>2. CASE Hibernate
  <2> DEFINE off == ToggleEngine(turen, FALSE)
             closed == Pickup(off, FALSE, TRUE)
  <2>1. Sound(off) /\ off.solitary = turen.solitary
    BY <1>1, ToggleEngineSound
  <2>2. Sound(closed) /\ ~closed.solitary
    <3> HIDE DEF off
    <3> QED
      BY <2>1, PickupSound
  <2>3. turen' = Muted(closed, TRUE)
    BY <1>2 DEF Hibernate
  <2> HIDE DEF closed
  <2>4. Sound(turen') /\ ~turen'.solitary
    BY <2>2, <2>3, MutedSound
  <2>5. TurenIInv'
    BY <1>1, <1>2, <2>4, SessionKept DEF Hibernate, Outside, NeverDeaf
  <2> DEFINE n == runtime.sleeps + 1
  <2>a. n \in 0 .. MaxSleeps
    BY <1>1, <1>2, RuntimeAssumption DEF Hibernate, RuntimeState
  <2>b. runtime' = [runtime EXCEPT !.hibernated = TRUE, !.sleeps = n]
    BY <1>2 DEF Hibernate
  <2> HIDE DEF n
  <2>6. /\ runtime' \in RuntimeState
        /\ runtime'.hibernated = TRUE /\ runtime'.welcomes = runtime.welcomes
        /\ runtime'.shouldWelcome = runtime.shouldWelcome /\ runtime'.grants = runtime.grants
    BY <1>1, <2>a, <2>b DEF RuntimeState
  <2> QED
    BY <1>1, <1>2, <2>5, <2>6 DEF Hibernate, RuntimeIInv, OwnTyped, AsleepIsDisabled, WelcomedOnce
<1>3. CASE ResetNetwork
  <2>1. Sound(turen') /\ turen'.enabled = turen.enabled /\ turen'.opened = turen.opened
        /\ (turen'.solitary => turen.solitary)
    BY <1>1, <1>3, MutedSound DEF ResetNetwork
  <2>2. TurenIInv'
    BY <1>1, <1>3, <2>1, SessionKept DEF ResetNetwork, TurenIInv, Outside, NeverDeaf
  <2> DEFINE n == runtime.resets + 1
             g == runtime.grants + 1
  <2>a. n \in 0 .. MaxResets /\ g \in Nat
    BY <1>1, <1>3, RuntimeAssumption DEF ResetNetwork, RuntimeState
  <2>b. runtime' = [runtime EXCEPT !.resets = n, !.shouldWelcome = TRUE, !.grants = g,
                                   !.resetting = TRUE]
    BY <1>3 DEF ResetNetwork
  <2> HIDE DEF n, g
  <2>c. /\ runtime' \in RuntimeState
        /\ runtime'.hibernated = runtime.hibernated /\ runtime'.welcomes = runtime.welcomes
        /\ runtime'.grants = g
    BY <1>1, <2>a, <2>b DEF RuntimeState
  <2>3. /\ runtime' \in RuntimeState
        /\ runtime'.hibernated = runtime.hibernated /\ runtime'.welcomes = runtime.welcomes
        /\ runtime'.grants = runtime.grants + 1
    BY <2>c DEF g
  <2>4. WelcomedOnce'
    BY <1>1, <2>3 DEF RuntimeIInv, WelcomedOnce, RuntimeState
  <2> QED
    BY <1>1, <1>3, <2>2, <2>3, <2>4 DEF ResetNetwork, RuntimeIInv, OwnTyped, AsleepIsDisabled
<1>4. CASE SetMicMute
  <2> DEFINE m == ~turen.muted
  <2>1. m \in BOOLEAN /\ turen' = Muted(turen, m)
    BY <1>1, <1>4 DEF SetMicMute, Sound, TurenState
  <2> HIDE DEF m
  <2>2. Sound(turen') /\ turen'.enabled = turen.enabled /\ turen'.opened = turen.opened
        /\ (turen'.solitary => turen.solitary)
    BY <1>1, <2>1, MutedSound
  <2>3. TurenIInv'
    BY <1>1, <1>4, <2>2, SessionKept DEF SetMicMute, rest, TurenIInv, Outside, NeverDeaf
  <2> QED
    BY <1>4, <2>3 DEF SetMicMute, own, RuntimeIInv, OwnTyped, AsleepIsDisabled, WelcomedOnce
<1>5. ASSUME NEW open \in BOOLEAN, SetPickup(open) PROVE RuntimeIInv'
  <2>1. Sound(turen') /\ turen'.enabled = ~open /\ turen'.opened = open
        /\ (turen'.solitary => turen.solitary)
    BY <1>1, <1>5, PickupSound DEF SetPickup
  <2>2. TurenIInv'
    BY <1>1, <1>5, <2>1, SessionKept DEF SetPickup, rest, TurenIInv, Outside, NeverDeaf
  <2> QED
    BY <1>5, <2>2 DEF SetPickup, own, RuntimeIInv, OwnTyped, AsleepIsDisabled, WelcomedOnce
<1>6. ASSUME NEW shouldWelcome \in BOOLEAN, Wakeup(shouldWelcome) PROVE RuntimeIInv'
  <2> DEFINE t == Muted(turen, FALSE)
  <2>1. Sound(t) /\ (t.solitary => turen.solitary) /\ turen' = ToggleEngine(t, TRUE)
    BY <1>1, <1>6, MutedSound DEF Wakeup
  <2> HIDE DEF t
  <2>2. Sound(turen') /\ turen'.enabled /\ (turen'.solitary => turen.solitary)
    BY <2>1, ToggleEngineSound
  <2>3. TurenIInv'
    BY <1>1, <1>6, <2>2, SessionKept DEF Wakeup, rest, Outside, NeverDeaf
  <2> DEFINE b == runtime.shouldWelcome \/ shouldWelcome
             n == runtime.grants + (IF shouldWelcome THEN 1 ELSE 0)
  <2>a. b \in BOOLEAN /\ n \in Nat
    BY <1>1 DEF RuntimeState
  <2>4. runtime' = [runtime EXCEPT !.hibernated = FALSE, !.networkPrepared = TRUE,
                                   !.shouldWelcome = b, !.grants = n]
    BY <1>6 DEF Wakeup
  <2>5. n >= runtime.grants + (IF b THEN 1 ELSE 0) - (IF runtime.shouldWelcome THEN 1 ELSE 0)
    BY <1>1 DEF RuntimeState
  <2> HIDE DEF b, n
  <2>6. /\ runtime' \in RuntimeState
        /\ runtime'.hibernated = FALSE /\ runtime'.welcomes = runtime.welcomes
        /\ runtime'.shouldWelcome = b /\ runtime'.grants = n
    BY <1>1, <2>a, <2>4 DEF RuntimeState
  <2>7. WelcomedOnce'
    BY <1>1, <2>a, <2>5, <2>6 DEF RuntimeIInv, WelcomedOnce, RuntimeState
  <2> QED
    BY <1>1, <1>6, <2>3, <2>6, <2>7 DEF Wakeup, RuntimeIInv, OwnTyped, AsleepIsDisabled
<1> QED
  BY <1>2, <1>3, <1>4, <1>5, <1>6

\* What the voice and the apps do is done to Turen alone.
LEMMA VoiceSteps ==
    ASSUME RuntimeIInv, Voice
    PROVE  RuntimeIInv'
<1>1. TurenIInv'
  BY EngineSteps, PromiseSteps, RuntimeSteps DEF Voice, RuntimeIInv, Settles
<1>2. reasons' = reasons
  BY DEF Voice, VoiceComing, TurenTimers, NoVoiceTimerFires, SolitaryTimerFires, SpeechCompleted,
         WakeUpDelegated, StartOrEndVoice, Destruct, SetEnabled, outside
<1> QED
  BY <1>1, <1>2 DEF Voice, own, RuntimeIInv, OwnTyped, AsleepIsDisabled, WelcomedOnce

LEMMA RuntimeStepInv ==
    ASSUME RuntimeIInv, [RuntimeNext]_runtimeVars
    PROVE  RuntimeIInv'
<1>1. CASE UNCHANGED runtimeVars
  <2>1. TurenIInv'
    BY <1>1, SessionKept DEF runtimeVars, turenVars, outside, RuntimeIInv, TurenIInv, Outside,
                             NeverDeaf
  <2> QED
    BY <1>1, <2>1 DEF runtimeVars, turenVars, outside, RuntimeIInv, OwnTyped, AsleepIsDisabled,
                      WelcomedOnce
<1>2. CASE RuntimeNext
  BY <1>2, BootSteps, LoginSteps, WelcomeSteps, SleepSteps, VoiceSteps DEF RuntimeNext
<1> QED
  BY <1>1, <1>2

LEMMA RuntimeInvHolds == RuntimeIInv => RuntimeInv
BY InvHolds DEF RuntimeIInv, OwnTyped, RuntimeInv, RuntimeTypeOK, TurenInv

\* Whatever starts, wakes, welcomes, logs in, is muted or picked up at once: the
\* runtime is disabled for its sleep exactly while it sleeps, uses each reason to
\* welcome once, and leaves Turen neither held nor deaf (RuntimeInv).
THEOREM RuntimeAgrees == RuntimeSpec => []RuntimeInv
BY RuntimeInitInv, RuntimeStepInv, RuntimeInvHolds, PTL DEF RuntimeSpec

-----------------------------------------------------------------------------
(***************************************************************************)
(* The loader: lists and how they are gone through                         *)
(***************************************************************************)

\* A set of numbers that is not empty has a smallest one.
LEMMA SmallestNumber ==
    ASSUME NEW T \in SUBSET Nat, T # {}
    PROVE  \E n \in T : \A k \in T : n <= k
<1>1. PICK n \in T : \A k \in T : ~(<<k, n>> \in OpToRel(<, Nat))
  BY NatLessThanWellFounded, WFMin
<1>2. \A k \in T : ~(k < n)
  BY <1>1 DEF OpToRel
<1>3. QED
  BY <1>2

\* How far a list is gone through.
LEMMA UptoIs ==
    ASSUME NEW S, NEW list \in Seq(S), NEW good
    PROVE  LET n == Upto(list, good)
           IN  /\ n \in 0 .. Len(list) /\ 1 .. n \subseteq good
               /\ n = Len(list) \/ n + 1 \notin good
<1> DEFINE T == {n \in 0 .. Len(list) : n = Len(list) \/ n + 1 \notin good}
<1>1. Len(list) \in Nat
  BY LenProperties
<1>2. T \in SUBSET Nat /\ Len(list) \in T
  BY <1>1
<1>3. PICK n \in T : \A k \in T : n <= k
  <2> HIDE DEF T
  <2>1. QED
    BY <1>2, SmallestNumber
<1>4. 1 .. n \subseteq good
  <2> SUFFICES ASSUME NEW i \in 1 .. n, i \notin good PROVE FALSE
    OBVIOUS
  <2>1. i - 1 \in 0 .. Len(list) /\ (i - 1) + 1 = i
    BY <1>1
  <2>2. i - 1 \in T /\ n \in Nat /\ i \in Nat
    BY <2>1, <1>1
  <2>3. n <= i - 1
    BY <2>2, <1>3
  <2>4. QED
    BY <2>2, <2>3
<1>5. QED
  BY <1>3, <1>4 DEF Upto

-----------------------------------------------------------------------------
\* How often an element occurs in a list.
LEMMA CountIs ==
    ASSUME NEW S, NEW list \in Seq(S), NEW x
    PROVE  /\ Entries(list, x) \in Nat
           /\ IsFiniteSet({i \in DOMAIN list : list[i] = x})
           /\ DOMAIN list = 1 .. Len(list) /\ Len(list) \in Nat
<1> DEFINE T == {i \in DOMAIN list : list[i] = x}
<1>1. DOMAIN list = 1 .. Len(list) /\ Len(list) \in Nat
  BY LenProperties
<1>2. T \in SUBSET Nat /\ \A i \in T : i <= Len(list)
  BY <1>1
<1> HIDE DEF T
<1>3. IsFiniteSet(T)
  BY <1>1, <1>2, FS_BoundedSetOfNaturals
<1>4. Cardinality(T) \in Nat
  BY <1>3, FS_CardinalityType
<1>5. QED
  BY <1>1, <1>3, <1>4 DEF Entries, T

LEMMA CountedPositive ==
    ASSUME NEW S, NEW list \in Seq(S), NEW x
    PROVE  Entries(list, x) > 0 <=> x \in ToSet(list)
<1> DEFINE T == {i \in DOMAIN list : list[i] = x}
<1>1. IsFiniteSet(T) /\ Entries(list, x) \in Nat
  BY CountIs
<1>2. Entries(list, x) = 0 <=> T = {}
  <2> HIDE DEF T
  <2>1. Cardinality(T) = 0 <=> T = {}
    BY <1>1, FS_EmptySet
  <2>2. QED
    BY <2>1 DEF Entries, T
<1>3. T = {} <=> x \notin ToSet(list)
  BY DEF ToSet
<1>4. QED
  BY <1>1, <1>2, <1>3

\* Entries are appended.
LEMMA CountAppended ==
    ASSUME NEW S, NEW list \in Seq(S), NEW a \in S, NEW t \in Nat
    PROVE  LET new == list \o [i \in 1 .. t |-> a]
           IN  /\ new \in Seq(S)
               /\ Entries(new, a) = Entries(list, a) + t
               /\ \A b : b # a => Entries(new, b) = Entries(list, b)
<1> DEFINE more == [i \in 1 .. t |-> a]
           new == list \o more
           n == Len(list)
           At(s, b) == {i \in DOMAIN s : s[i] = b}
           U == n + 1 .. n + t
<1>1. more \in Seq(S) /\ Len(more) = t
  <2>1. more \in [1 .. t -> S]
    OBVIOUS
  <2> HIDE DEF more
  <2>2. more \in Seq(S)
    BY <2>1, SeqDef
  <2>3. Len(more) \in Nat /\ 1 .. Len(more) = 1 .. t
    BY <2>1, <2>2, LenProperties
  <2>4. QED
    BY <2>2, <2>3
<1>2. /\ n \in Nat /\ new \in Seq(S) /\ Len(new) = n + t
      /\ DOMAIN list = 1 .. n /\ DOMAIN new = 1 .. n + t
      /\ \A i \in 1 .. n + t : new[i] = IF i <= n THEN list[i] ELSE a
  <2>1. \A i \in 1 .. t : more[i] = a
    OBVIOUS
  <2> HIDE DEF more
  <2>2. /\ n \in Nat /\ new \in Seq(S) /\ Len(new) = n + t
        /\ \A i \in 1 .. n + t : new[i] = IF i <= n THEN list[i] ELSE more[i - n]
    BY <1>1, ConcatProperties, LenProperties
  <2>3. DOMAIN list = 1 .. n /\ DOMAIN new = 1 .. n + t
    BY <2>2, LenProperties
  <2>4. \A i \in 1 .. n + t : ~(i <= n) => i - n \in 1 .. t
    BY <2>2
  <2>5. QED
    BY <2>1, <2>2, <2>3, <2>4
<1> HIDE DEF more, new, n
<1>3. ASSUME NEW b, b # a PROVE Entries(new, b) = Entries(list, b)
  <2>1. At(new, b) = At(list, b)
    BY <1>2, <1>3
  <2>2. QED
    BY <2>1 DEF Entries
<1>4. Cardinality(U) = t /\ IsFiniteSet(U)
  <2> DEFINE f == [i \in 1 .. t |-> n + i]
  <2>1. f \in [1 .. t -> U]
    BY <1>2
  <2>2. \A i, j \in 1 .. t : f[i] = f[j] => i = j
    BY <1>2
  <2>3. \A k \in U : \E i \in 1 .. t : f[i] = k
    <3> TAKE k \in U
    <3>1. k - n \in 1 .. t /\ n + (k - n) = k
      BY <1>2
    <3>2. QED
      BY <3>1
  <2> HIDE DEF f
  <2>4. f \in Bijection(1 .. t, U)
    BY <2>1, <2>2, <2>3, Fun_IsBij
  <2>5. ExistsBijection(1 .. t, U)
    BY <2>4, Fun_ExistsBij
  <2>6. Cardinality(U) = t
    BY <2>5, FS_CountingElements
  <2>7. U \in SUBSET Nat /\ \A k \in U : k <= n + t
    BY <1>2
  <2>8. IsFiniteSet(U)
    <3>1. n + t \in Nat
      BY <1>2
    <3> HIDE DEF U
    <3>2. QED
      BY <3>1, <2>7, FS_BoundedSetOfNaturals
  <2>9. QED
    BY <2>6, <2>8
<1>5. Entries(new, a) = Entries(list, a) + t
  <2>1. At(new, a) = At(list, a) \cup U
    BY <1>2
  <2>2. At(list, a) \cap U = {}
    BY <1>2
  <2>3. IsFiniteSet(At(list, a)) /\ Cardinality(At(list, a)) = Entries(list, a)
        /\ Entries(list, a) \in Nat
    BY CountIs DEF Entries
  <2>4. Cardinality(At(new, a)) = Entries(new, a)
    BY DEF Entries
  <2> DEFINE A == At(list, a)
  <2> HIDE DEF A, U
  <2>5. Cardinality(A \cup U) = Cardinality(A) + Cardinality(U) - Cardinality(A \cap U)
    BY <1>4, <2>3, FS_Union DEF A
  <2>6. Cardinality(A \cap U) = 0
    BY <2>2, FS_EmptySet DEF A
  <2>7. Cardinality(A) = Entries(list, a) /\ Entries(list, a) \in Nat
    BY <2>3 DEF A
  <2>8. Entries(new, a) = Cardinality(A \cup U)
    BY <2>1, <2>4 DEF A
  <2>9. QED
    BY <1>4, <2>5, <2>6, <2>7, <2>8
<1>6. QED
  BY <1>2, <1>3, <1>5 DEF new, more

\* One entry is taken out.
LEMMA CountRemoved ==
    ASSUME NEW S, NEW list \in Seq(S), NEW k \in 1 .. Len(list)
    PROVE  /\ RemoveAt(list, k) \in Seq(S)
           /\ Entries(RemoveAt(list, k), list[k]) = Entries(list, list[k]) - 1
           /\ \A b : b # list[k] => Entries(RemoveAt(list, k), b) = Entries(list, b)
<1> DEFINE n == Len(list)
           new == RemoveAt(list, k)
           At(s, b) == {i \in DOMAIN s : s[i] = b}
<1>1. /\ n \in Nat /\ DOMAIN list = 1 .. n /\ k \in 1 .. n /\ \A i \in 1 .. n : list[i] \in S
  BY LenProperties, ElementOfSeq
<1>2. /\ SubSeq(list, 1, k - 1) \in Seq(S) /\ Len(SubSeq(list, 1, k - 1)) = k - 1
      /\ \A i \in 1 .. k - 1 : SubSeq(list, 1, k - 1)[i] = list[i]
  <2>1. 1 \in Int /\ k - 1 \in Int /\ \A i \in 1 .. k - 1 : list[i] \in S
    BY <1>1
  <2>2. /\ SubSeq(list, 1, k - 1) \in Seq(S)
        /\ Len(SubSeq(list, 1, k - 1)) = IF 1 <= k - 1 THEN (k - 1) - 1 + 1 ELSE 0
        /\ \A i \in 1 .. (k - 1) - 1 + 1 : SubSeq(list, 1, k - 1)[i] = list[1 + i - 1]
    BY <2>1, SubSeqProperties
  <2>3. QED
    BY <1>1, <2>2
<1>3. /\ SubSeq(list, k + 1, n) \in Seq(S) /\ Len(SubSeq(list, k + 1, n)) = n - k
      /\ \A i \in 1 .. n - k : SubSeq(list, k + 1, n)[i] = list[k + i]
  <2>1. k + 1 \in Int /\ n \in Int /\ \A i \in k + 1 .. n : list[i] \in S
    BY <1>1
  <2>2. /\ SubSeq(list, k + 1, n) \in Seq(S)
        /\ Len(SubSeq(list, k + 1, n)) = IF k + 1 <= n THEN n - (k + 1) + 1 ELSE 0
        /\ \A i \in 1 .. n - (k + 1) + 1 : SubSeq(list, k + 1, n)[i] = list[(k + 1) + i - 1]
    <3> HIDE DEF n
    <3>1. QED
      BY <2>1, SubSeqProperties
  <2> HIDE DEF n
  <2>3. (IF k + 1 <= n THEN n - (k + 1) + 1 ELSE 0) = n - k /\ n - (k + 1) + 1 = n - k
    BY <1>1
  <2>4. \A i \in 1 .. n - k : (k + 1) + i - 1 = k + i
    BY <1>1
  <2>5. QED
    BY <2>2, <2>3, <2>4
<1>4. /\ new \in Seq(S) /\ Len(new) = n - 1 /\ DOMAIN new = 1 .. n - 1
      /\ \A i \in 1 .. n - 1 : new[i] = IF i < k THEN list[i] ELSE list[i + 1]
  <2> DEFINE s1 == SubSeq(list, 1, k - 1)
             s2 == SubSeq(list, k + 1, n)
  <2>1. new = s1 \o s2
    BY DEF RemoveAt
  <2>2. s1 \in Seq(S) /\ s2 \in Seq(S) /\ Len(s1) = k - 1 /\ Len(s2) = n - k
        /\ (\A i \in 1 .. k - 1 : s1[i] = list[i])
        /\ (\A i \in 1 .. n - k : s2[i] = list[k + i])
    BY <1>2, <1>3
  <2> HIDE DEF s1, s2, new, n
  <2>3. /\ new \in Seq(S) /\ Len(new) = (k - 1) + (n - k)
        /\ \A i \in 1 .. (k - 1) + (n - k) :
              new[i] = IF i <= k - 1 THEN s1[i] ELSE s2[i - (k - 1)]
    BY <2>1, <2>2, ConcatProperties
  <2>4. (k - 1) + (n - k) = n - 1
    BY <1>1
  <2>5. DOMAIN new = 1 .. n - 1
    BY <2>3, <2>4, LenProperties
  <2>6. ASSUME NEW i \in 1 .. n - 1 PROVE new[i] = IF i < k THEN list[i] ELSE list[i + 1]
    <3>1. CASE i < k
      BY <3>1, <2>2, <2>3, <2>4, <1>1
    <3>2. CASE ~(i < k)
      <4>1. i - (k - 1) \in 1 .. n - k /\ k + (i - (k - 1)) = i + 1 /\ ~(i <= k - 1)
        BY <3>2, <1>1
      <4>2. QED
        BY <3>2, <4>1, <2>2, <2>3, <2>4, <1>1
    <3>3. QED
      BY <3>1, <3>2
  <2>7. QED
    BY <2>3, <2>4, <2>5, <2>6
<1> HIDE DEF n, new
<1>5. ASSUME NEW b PROVE Entries(new, b) = Cardinality(At(list, b) \ {k})
  <2> DEFINE A == At(list, b) \ {k}
             B == At(new, b)
             f == [j \in A |-> IF j < k THEN j ELSE j - 1]
  <2>1. f \in [A -> B]
    <3> SUFFICES ASSUME NEW j \in A PROVE (IF j < k THEN j ELSE j - 1) \in B
      OBVIOUS
    <3>1. j \in 1 .. n /\ j # k /\ list[j] = b
      BY <1>1
    <3>2. CASE j < k
      BY <3>1, <3>2, <1>1, <1>4
    <3>3. CASE ~(j < k)
      <4>1. j - 1 \in 1 .. n - 1 /\ ~(j - 1 < k) /\ (j - 1) + 1 = j
        BY <3>1, <3>3, <1>1
      <4>2. QED
        BY <3>1, <3>3, <4>1, <1>4
    <3>4. QED
      BY <3>2, <3>3
  <2>2. \A i, j \in A : f[i] = f[j] => i = j
    BY <1>1
  <2>3. \A t \in B : \E j \in A : f[j] = t
    <3> TAKE t \in B
    <3>1. t \in 1 .. n - 1 /\ new[t] = b
      BY <1>4
    <3>2. CASE t < k
      BY <3>1, <3>2, <1>1, <1>4
    <3>3. CASE ~(t < k)
      <4>1. t + 1 \in A /\ ~(t + 1 < k) /\ (t + 1) - 1 = t
        BY <3>1, <3>3, <1>1, <1>4
      <4>2. QED
        BY <4>1
    <3>4. QED
      BY <3>2, <3>3
  <2>4. IsFiniteSet(A)
    <3>1. IsFiniteSet(At(list, b))
      BY CountIs
    <3>2. QED
      BY <3>1, FS_RemoveElement
  <2> HIDE DEF A, B, f
  <2>5. f \in Bijection(A, B)
    BY <2>1, <2>2, <2>3, Fun_IsBij
  <2>6. Cardinality(B) = Cardinality(A)
    BY <2>4, <2>5, Fun_ExistsBij, FS_Bijection
  <2>7. QED
    BY <2>6 DEF A, B, Entries
<1>6. ASSUME NEW b, b # list[k] PROVE Entries(new, b) = Entries(list, b)
  <2>1. At(list, b) \ {k} = At(list, b)
    BY <1>6
  <2>2. QED
    BY <2>1, <1>5 DEF Entries
<1>7. Entries(new, list[k]) = Entries(list, list[k]) - 1
  <2> DEFINE A == At(list, list[k])
  <2>1. IsFiniteSet(A) /\ Cardinality(A) = Entries(list, list[k])
    BY CountIs DEF Entries
  <2>2. k \in A
    BY <1>1
  <2>3. Entries(new, list[k]) = Cardinality(A \ {k})
    BY <1>5
  <2> HIDE DEF A
  <2>4. Cardinality(A \ {k}) = Cardinality(A) - 1
    BY <2>1, <2>2, FS_RemoveElement
  <2>5. QED
    BY <2>1, <2>3, <2>4
<1>8. QED
  BY <1>4, <1>6, <1>7 DEF new

\* The first entry of an app that has one is spliced out.
LEMMA SplicedIs ==
    ASSUME NEW S, NEW list \in Seq(S), NEW a, Entries(list, a) > 0
    PROVE  /\ Spliced(list, a) \in Seq(S)
           /\ Entries(Spliced(list, a), a) = Entries(list, a) - 1
           /\ \A b : b # a => Entries(Spliced(list, a), b) = Entries(list, b)
<1> DEFINE First(i) == list[i] = a /\ \A j \in 1 .. i - 1 : list[j] # a
           T == {i \in DOMAIN list : list[i] = a}
           k == CHOOSE i \in DOMAIN list : First(i)
<1>1. DOMAIN list = 1 .. Len(list) /\ Len(list) \in Nat
  BY CountIs
<1>2. a \in ToSet(list)
  BY CountedPositive
<1>3. T \in SUBSET Nat /\ T # {}
  BY <1>1, <1>2 DEF ToSet
<1>4. \E i \in DOMAIN list : First(i)
  <2>1. PICK i \in T : \A j \in T : i <= j
    <3> HIDE DEF T
    <3>1. QED
      BY <1>3, SmallestNumber
  <2>2. i \in 1 .. Len(list) /\ list[i] = a
    BY <1>1
  <2>3. ASSUME NEW j \in 1 .. i - 1 PROVE list[j] # a
    <3>1. j \in DOMAIN list /\ ~(i <= j)
      BY <1>1, <2>2
    <3>2. QED
      BY <3>1, <2>1
  <2>4. QED
    BY <1>1, <2>2, <2>3
<1>5. k \in DOMAIN list /\ First(k)
  BY <1>4
<1>6. list # <<>>
  BY <1>1, <1>5
<1>7. Spliced(list, a) = RemoveAt(list, k)
  BY <1>2, <1>6 DEF Spliced
<1> HIDE DEF k
<1>8. k \in 1 .. Len(list) /\ list[k] = a
  BY <1>1, <1>5
<1>9. QED
  BY <1>7, <1>8, CountRemoved

\* Splicing is defined for any number of times,
LEMMA SplicesExist ==
    ASSUME NEW list, NEW a, NEW k \in Nat
    PROVE  \E f : f = [n \in 0 .. k |-> IF n = 0 THEN list ELSE Spliced(f[n - 1], a)]
<1> DEFINE Is(f, m) == f = [n \in 0 .. m |-> IF n = 0 THEN list ELSE Spliced(f[n - 1], a)]
           T == {m \in Nat : ~\E f : Is(f, m)}
<1>1. SUFFICES ASSUME T # {} PROVE FALSE
  OBVIOUS
<1>2. PICK m \in T : \A j \in T : m <= j
  <2>1. T \in SUBSET Nat
    OBVIOUS
  <2> HIDE DEF T
  <2>2. QED
    BY <1>1, <2>1, SmallestNumber
<1>3. CASE m = 0
  <2> DEFINE f == [n \in 0 .. 0 |-> list]
  <2>1. Is(f, 0)
    OBVIOUS
  <2>2. QED
    BY <1>2, <1>3, <2>1
<1>4. CASE m # 0
  <2>1. m - 1 \in Nat /\ ~(m <= m - 1)
    BY <1>4
  <2>2. \E f : Is(f, m - 1)
    BY <2>1, <1>2
  <2>3. PICK f : Is(f, m - 1)
    BY <2>2
  <2> DEFINE g == [n \in 0 .. m |-> IF n = m THEN Spliced(f[m - 1], a) ELSE f[n]]
  <2>4. g = [n \in 0 .. m |-> IF n = 0 THEN list ELSE Spliced(g[n - 1], a)]
    <3>1. ASSUME NEW n \in 0 .. m
          PROVE  g[n] = IF n = 0 THEN list ELSE Spliced(g[n - 1], a)
      <4>1. CASE n = m
        <5>1. n # 0 /\ m - 1 \in 0 .. m /\ m - 1 # m /\ n - 1 = m - 1
          BY <4>1, <1>4
        <5>2. g[n - 1] = f[m - 1]
          BY <5>1
        <5>3. g[n] = Spliced(f[m - 1], a)
          BY <4>1
        <5>4. QED
          BY <5>1, <5>2, <5>3
      <4>2. CASE n # m
        <5>1. n \in 0 .. m - 1
          BY <4>2
        <5>2. g[n] = f[n]
          BY <4>2
        <5>3. f[n] = IF n = 0 THEN list ELSE Spliced(f[n - 1], a)
          BY <5>1, <2>3
        <5>4. n # 0 => n - 1 \in 0 .. m /\ n - 1 # m
          BY <5>1
        <5>5. n # 0 => g[n - 1] = f[n - 1]
          BY <5>4
        <5>6. QED
          BY <5>2, <5>3, <5>5
      <4>3. QED
        BY <4>1, <4>2
    <3>2. QED
      BY <3>1
  <2>5. Is(g, m)
    BY <2>4
  <2>6. QED
    BY <2>5, <1>2
<1>5. QED
  BY <1>3, <1>4

\* and as long as entries of the app are left takes one each time.
LEMMA SplicedTimesIs ==
    ASSUME NEW S, NEW list \in Seq(S), NEW a, NEW k \in Nat, k <= Entries(list, a)
    PROVE  LET new == SplicedTimes(list, a, k)
           IN  /\ new \in Seq(S)
               /\ Entries(new, a) = Entries(list, a) - k
               /\ \A b : b # a => Entries(new, b) = Entries(list, b)
<1> DEFINE f == CHOOSE f : f = [n \in 0 .. k |-> IF n = 0 THEN list ELSE Spliced(f[n - 1], a)]
           Right(n) == /\ f[n] \in Seq(S)
                       /\ Entries(f[n], a) = Entries(list, a) - n
                       /\ \A b : b # a => Entries(f[n], b) = Entries(list, b)
           T == {n \in 0 .. k : ~Right(n)}
<1>1. f = [n \in 0 .. k |-> IF n = 0 THEN list ELSE Spliced(f[n - 1], a)]
  BY SplicesExist
<1>2. SplicedTimes(list, a, k) = f[k]
  BY DEF SplicedTimes
<1> HIDE DEF f
<1>3. Entries(list, a) \in Nat
  BY CountIs
<1>4. ASSUME T # {} PROVE FALSE
  <2>1. PICK n \in T : \A j \in T : n <= j
    <3>1. T \in SUBSET Nat
      OBVIOUS
    <3> HIDE DEF T
    <3>2. QED
      BY <1>4, <3>1, SmallestNumber
  <2>2. CASE n = 0
    <3>1. f[0] = list
      BY <1>1
    <3>2. Right(0)
      BY <3>1, <1>3
    <3>3. QED
      BY <2>1, <2>2, <3>2
  <2>3. CASE n # 0
    <3>1. n \in 1 .. k /\ n - 1 \in 0 .. k /\ ~(n <= n - 1)
      BY <2>3
    <3>2. Right(n - 1)
      BY <3>1, <2>1
    <3>3. f[n] = Spliced(f[n - 1], a)
      BY <3>1, <1>1
    <3>4. Entries(f[n - 1], a) > 0
      BY <3>1, <3>2, <1>3
    <3>5. Entries(list, a) - (n - 1) - 1 = Entries(list, a) - n
      BY <3>1, <1>3
    <3>6. /\ f[n] \in Seq(S) /\ Entries(f[n], a) = Entries(f[n - 1], a) - 1
          /\ \A b : b # a => Entries(f[n], b) = Entries(f[n - 1], b)
      BY <3>2, <3>3, <3>4, SplicedIs
    <3>7. Right(n)
      BY <3>2, <3>5, <3>6
    <3>8. QED
      BY <3>7, <2>1
  <2>4. QED
    BY <2>2, <2>3
<1>5. Right(k)
  BY <1>4
<1>6. QED
  BY <1>2, <1>5

-----------------------------------------------------------------------------
Shapes ==
    [skills : Seq(Skills \cup DbusApps \cup {Malformed}), hosts : Seq(Hosts \X Skills),
     notes : Seq({Channel, "unknown", Malformed})]

LoaderStates ==
    [owner : [Skills \cup DbusApps -> LoaderApps \cup {NoOwner}],
     hosts : [Hosts -> Skills \cup {NoOwner}],
     channel : Seq(LoaderApps),
     manifests : [LoaderApps -> Shapes \cup {NoManifest}]]

\* The skills of a manifest that a load takes were nobody's, and it takes all
\* if they are free, well-formed and declared once.
LEMMA TakenSkills ==
    ASSUME NEW l \in LoaderStates, NEW a \in LoaderApps, NEW m \in Shapes
    PROVE  LET r == TakeSkills(l, a, m)
               k == r.l
           IN  /\ k \in LoaderStates
               /\ k.hosts = l.hosts /\ k.channel = l.channel /\ k.manifests = l.manifests
               /\ \A s \in Skills \cup DbusApps :
                     \/ k.owner[s] = l.owner[s]
                     \/ l.owner[s] = NoOwner /\ k.owner[s] = a /\ s \in ToSet(m.skills)
               /\ r.ok => \A s \in ToSet(m.skills) :
                             /\ s \in Skills \cup DbusApps
                             /\ l.owner[s] = NoOwner /\ k.owner[s] = a
               /\ (/\ Malformed \notin ToSet(m.skills)
                   /\ \A s \in ToSet(m.skills) : l.owner[s] = NoOwner
                   /\ \A i, j \in DOMAIN m.skills : m.skills[i] = m.skills[j] => i = j) => r.ok
<1> DEFINE r == TakeSkills(l, a, m)
           k == r.l
           n == Upto(m.skills, SkillsFree(l, m))
           taken == {m.skills[i] : i \in 1 .. n}
           owner == [s \in Skills \cup DbusApps |-> IF s \in taken THEN a ELSE l.owner[s]]
<1>1. /\ m.skills \in Seq(Skills \cup DbusApps \cup {Malformed})
      /\ DOMAIN m.skills = 1 .. Len(m.skills) /\ Len(m.skills) \in Nat
      /\ \A i \in 1 .. Len(m.skills) : m.skills[i] \in Skills \cup DbusApps \cup {Malformed}
  <2>1. m.skills \in Seq(Skills \cup DbusApps \cup {Malformed})
    BY DEF Shapes
  <2>2. QED
    BY <2>1, LenProperties, ElementOfSeq
<1>2. /\ n \in 0 .. Len(m.skills) /\ 1 .. n \subseteq SkillsFree(l, m)
      /\ n = Len(m.skills) \/ n + 1 \notin SkillsFree(l, m)
  BY <1>1, UptoIs
<1>3. DOMAIN l.owner = Skills \cup DbusApps
      /\ l.owner \in [Skills \cup DbusApps -> LoaderApps \cup {NoOwner}]
  BY DEF LoaderStates
<1>4. r.ok = (n = Len(m.skills)) /\ k = [l EXCEPT !.owner = owner]
  <2>1. owner = [s \in DOMAIN l.owner |->
                   IF \E i \in 1 .. n : m.skills[i] = s THEN a ELSE l.owner[s]]
    BY <1>3
  <2> HIDE DEF owner, n
  <2>2. r = [ok |-> n = Len(m.skills), l |-> [l EXCEPT !.owner = owner]]
    BY <2>1 DEF TakeSkills, n
  <2> HIDE DEF r
  <2>3. QED
    BY <2>2
<1> HIDE DEF r, n
<1>5. owner \in [Skills \cup DbusApps -> LoaderApps \cup {NoOwner}]
  BY <1>3
<1>6. \A i \in 1 .. n : /\ m.skills[i] \in Skills \cup DbusApps /\ l.owner[m.skills[i]] = NoOwner
                        /\ m.skills[i] \in ToSet(m.skills)
  BY <1>1, <1>2 DEF SkillsFree, ToSet
<1>7. \A s \in Skills \cup DbusApps :
        \/ owner[s] = l.owner[s]
        \/ l.owner[s] = NoOwner /\ owner[s] = a /\ s \in ToSet(m.skills)
  BY <1>6
<1>8. ASSUME r.ok, NEW s \in ToSet(m.skills)
      PROVE  s \in Skills \cup DbusApps /\ l.owner[s] = NoOwner /\ owner[s] = a
  <2>1. PICK i \in 1 .. n : m.skills[i] = s
    BY <1>1, <1>4, <1>8 DEF ToSet
  <2>2. QED
    BY <2>1, <1>6
<1>9. ASSUME Malformed \notin ToSet(m.skills),
             \A s \in ToSet(m.skills) : l.owner[s] = NoOwner,
             \A i, j \in DOMAIN m.skills : m.skills[i] = m.skills[j] => i = j
      PROVE  r.ok
  <2>1. SUFFICES ASSUME n # Len(m.skills) PROVE FALSE
    BY <1>4
  <2>2. n + 1 \in 1 .. Len(m.skills)
    BY <1>1, <1>2, <2>1
  <2>3. m.skills[n + 1] \in ToSet(m.skills)
    BY <1>1, <2>2 DEF ToSet
  <2>4. ASSUME NEW j \in 1 .. (n + 1) - 1 PROVE m.skills[j] # m.skills[n + 1]
    <3>1. j \in DOMAIN m.skills /\ n + 1 \in DOMAIN m.skills /\ j # n + 1
      BY <1>1, <1>2, <2>2
    <3>2. QED
      BY <3>1, <1>9
  <2>5. n + 1 \in SkillsFree(l, m)
    BY <1>1, <1>9, <2>2, <2>3, <2>4 DEF SkillsFree
  <2>6. QED
    BY <2>1, <2>5, <1>2
<1> HIDE DEF owner, taken
<1>10. /\ k \in LoaderStates /\ k.owner = owner
       /\ k.hosts = l.hosts /\ k.channel = l.channel /\ k.manifests = l.manifests
  <2> HIDE DEF k
  <2>1. QED
    BY <1>4, <1>5 DEF LoaderStates
<1>11. QED
  BY <1>7, <1>8, <1>9, <1>10 DEF r

\* The hosts that a load takes were nobody's and lead to skills of the app.
LEMMA TakenHosts ==
    ASSUME NEW l \in LoaderStates, NEW a \in LoaderApps, NEW m \in Shapes
    PROVE  LET r == TakeHosts(l, a, m)
               k == r.l
           IN  /\ k \in LoaderStates
               /\ k.owner = l.owner /\ k.channel = l.channel /\ k.manifests = l.manifests
               /\ \A h \in Hosts :
                     \/ k.hosts[h] = l.hosts[h]
                     \/ /\ l.hosts[h] = NoOwner /\ h \in HostNames(m)
                        /\ k.hosts[h] \in Skills /\ l.owner[k.hosts[h]] = a
               /\ r.ok => \A h \in ToSet(m.hosts) :
                             /\ l.hosts[h[1]] = NoOwner /\ k.hosts[h[1]] = h[2]
                             /\ l.owner[h[2]] = a
               /\ (/\ \A h \in ToSet(m.hosts) : l.hosts[h[1]] = NoOwner /\ l.owner[h[2]] = a
                   /\ \A i, j \in DOMAIN m.hosts : m.hosts[i][1] = m.hosts[j][1] => i = j) => r.ok
<1> DEFINE r == TakeHosts(l, a, m)
           k == r.l
           n == Upto(m.hosts, HostsFree(l, a, m))
           At(h) == {i \in 1 .. n : m.hosts[i][1] = h}
           hosts == [h \in Hosts |-> IF At(h) # {} THEN m.hosts[CHOOSE i \in At(h) : TRUE][2]
                                     ELSE l.hosts[h]]
<1>1. /\ m.hosts \in Seq(Hosts \X Skills)
      /\ DOMAIN m.hosts = 1 .. Len(m.hosts) /\ Len(m.hosts) \in Nat
      /\ \A i \in 1 .. Len(m.hosts) : m.hosts[i] \in Hosts \X Skills
  <2>1. m.hosts \in Seq(Hosts \X Skills)
    BY DEF Shapes
  <2>2. QED
    BY <2>1, LenProperties, ElementOfSeq
<1>2. /\ n \in 0 .. Len(m.hosts) /\ 1 .. n \subseteq HostsFree(l, a, m)
      /\ n = Len(m.hosts) \/ n + 1 \notin HostsFree(l, a, m)
  BY <1>1, UptoIs
<1>3. l.hosts \in [Hosts -> Skills \cup {NoOwner}] /\ DOMAIN l.hosts = Hosts
  BY DEF LoaderStates
<1>4. r.ok = (n = Len(m.hosts)) /\ k = [l EXCEPT !.hosts = hosts]
  <2>1. hosts = [h \in DOMAIN l.hosts |->
                   IF At(h) # {} THEN m.hosts[CHOOSE i \in At(h) : TRUE][2] ELSE l.hosts[h]]
    BY <1>3
  <2> HIDE DEF hosts
  <2>2. r = [ok |-> n = Len(m.hosts), l |-> [l EXCEPT !.hosts = hosts]]
    BY <2>1 DEF TakeHosts
  <2> HIDE DEF r, n
  <2>3. QED
    BY <2>2
<1> HIDE DEF r, n
<1>5. \A i \in 1 .. n : /\ m.hosts[i] \in Hosts \X Skills
                        /\ l.owner[m.hosts[i][2]] = a /\ l.hosts[m.hosts[i][1]] = NoOwner
                        /\ m.hosts[i][1] \in HostNames(m)
                        /\ \A j \in 1 .. i - 1 : m.hosts[j][1] # m.hosts[i][1]
  <2> TAKE i \in 1 .. n
  <2>1. i \in 1 .. Len(m.hosts) /\ i \in HostsFree(l, a, m)
    BY <1>1, <1>2
  <2>2. m.hosts[i] \in ToSet(m.hosts)
    BY <1>1, <2>1 DEF ToSet
  <2>3. QED
    BY <1>1, <2>1, <2>2 DEF HostsFree, HostNames
<1>6. ASSUME NEW h \in Hosts, At(h) # {}
      PROVE  \E i \in 1 .. n : m.hosts[i][1] = h /\ hosts[h] = m.hosts[i][2]
  <2>1. (CHOOSE i \in At(h) : TRUE) \in At(h)
    BY <1>6
  <2>2. QED
    BY <1>6, <2>1
<1>7. hosts \in [Hosts -> Skills \cup {NoOwner}]
  <2>1. ASSUME NEW h \in Hosts PROVE hosts[h] \in Skills \cup {NoOwner}
    <3>1. CASE At(h) # {}
      BY <3>1, <1>5, <1>6
    <3>2. CASE At(h) = {}
      BY <3>2, <1>3
    <3>3. QED
      BY <3>1, <3>2
  <2>2. QED
    BY <2>1
<1>8. ASSUME NEW h \in Hosts
      PROVE  \/ hosts[h] = l.hosts[h]
             \/ /\ l.hosts[h] = NoOwner /\ h \in HostNames(m)
                /\ hosts[h] \in Skills /\ l.owner[hosts[h]] = a
  <2>1. CASE At(h) # {}
    BY <2>1, <1>5, <1>6
  <2>2. CASE At(h) = {}
    BY <2>2
  <2>3. QED
    BY <2>1, <2>2
<1>9. ASSUME r.ok, NEW h \in ToSet(m.hosts)
      PROVE  l.hosts[h[1]] = NoOwner /\ hosts[h[1]] = h[2] /\ l.owner[h[2]] = a
  <2>1. PICK i \in 1 .. n : m.hosts[i] = h
    BY <1>1, <1>4, <1>9 DEF ToSet
  <2>2. h \in Hosts \X Skills /\ l.hosts[h[1]] = NoOwner /\ l.owner[h[2]] = a
    BY <2>1, <1>5
  <2>3. h[1] \in Hosts /\ At(h[1]) # {}
    BY <2>1, <2>2
  <2>4. PICK j \in 1 .. n : m.hosts[j][1] = h[1] /\ hosts[h[1]] = m.hosts[j][2]
    BY <2>3, <1>6
  <2>5. j = i
    <3>1. i \in Nat /\ j \in Nat
      BY <1>2
    <3>2. ~(j \in 1 .. i - 1) /\ ~(i \in 1 .. j - 1)
      BY <2>1, <2>4, <1>5
    <3>3. QED
      BY <3>1, <3>2, <2>1, <2>4
  <2>6. QED
    BY <2>1, <2>2, <2>4, <2>5
<1>10. ASSUME \A h \in ToSet(m.hosts) : l.hosts[h[1]] = NoOwner /\ l.owner[h[2]] = a,
              \A i, j \in DOMAIN m.hosts : m.hosts[i][1] = m.hosts[j][1] => i = j
       PROVE  r.ok
  <2>1. SUFFICES ASSUME n # Len(m.hosts) PROVE FALSE
    BY <1>4
  <2>2. n + 1 \in 1 .. Len(m.hosts)
    BY <1>1, <1>2, <2>1
  <2>3. m.hosts[n + 1] \in ToSet(m.hosts)
    BY <1>1, <2>2 DEF ToSet
  <2>4. ASSUME NEW j \in 1 .. (n + 1) - 1 PROVE m.hosts[j][1] # m.hosts[n + 1][1]
    <3>1. j \in DOMAIN m.hosts /\ n + 1 \in DOMAIN m.hosts /\ j # n + 1
      BY <1>1, <1>2, <2>2
    <3>2. QED
      BY <3>1, <1>10
  <2>5. n + 1 \in HostsFree(l, a, m)
    BY <1>1, <1>10, <2>2, <2>3, <2>4 DEF HostsFree
  <2>6. QED
    BY <2>1, <2>5, <1>2
<1> HIDE DEF hosts
<1>11. /\ k \in LoaderStates /\ k.hosts = hosts
       /\ k.owner = l.owner /\ k.channel = l.channel /\ k.manifests = l.manifests
  <2> HIDE DEF k
  <2>1. QED
    BY <1>4, <1>7 DEF LoaderStates
<1>12. QED
  BY <1>8, <1>9, <1>10, <1>11 DEF r

\* The entries that a load makes in the channel, and how many if it gets there.
LEMMA TakenNotes ==
    ASSUME NEW l \in LoaderStates, NEW a \in LoaderApps, NEW m \in Shapes
    PROVE  LET r == TakeNotes(l, a, m)
               k == r.l
           IN  /\ k \in LoaderStates
               /\ k.owner = l.owner /\ k.hosts = l.hosts /\ k.manifests = l.manifests
               /\ \A b : b # a => Entries(k.channel, b) = Entries(l.channel, b)
               /\ Entries(k.channel, a) >= Entries(l.channel, a)
               /\ r.ok => Entries(k.channel, a) = Entries(l.channel, a) + Entries(m.notes, Channel)
               /\ Malformed \notin ToSet(m.notes) <=> r.ok
<1> DEFINE r == TakeNotes(l, a, m)
           k == r.l
           good == {i \in DOMAIN m.notes : m.notes[i] # Malformed}
           n == Upto(m.notes, good)
           T == {i \in 1 .. n : m.notes[i] = Channel}
           t == Cardinality(T)
           channel == l.channel \o [i \in 1 .. t |-> a]
<1>1. m.notes \in Seq({Channel, "unknown", Malformed}) /\ l.channel \in Seq(LoaderApps)
  BY DEF Shapes, LoaderStates
<1>2. DOMAIN m.notes = 1 .. Len(m.notes) /\ Len(m.notes) \in Nat
  BY <1>1, LenProperties
<1>3. /\ n \in 0 .. Len(m.notes) /\ 1 .. n \subseteq good
      /\ n = Len(m.notes) \/ n + 1 \notin good
  <2> HIDE DEF good
  <2>1. QED
    BY <1>1, UptoIs
<1>4. r.ok = (n = Len(m.notes)) /\ k = [l EXCEPT !.channel = channel]
  BY DEF TakeNotes
<1> HIDE DEF r, n, good
<1>5. t \in Nat
  <2>1. T \in SUBSET Nat /\ \A i \in T : i <= n
    BY <1>3
  <2>2. IsFiniteSet(T)
    <3>1. n \in Nat
      BY <1>3
    <3> HIDE DEF T
    <3>2. QED
      BY <2>1, <3>1, FS_BoundedSetOfNaturals
  <2>3. QED
    BY <2>2, FS_CardinalityType
<1>6. r.ok => t = Entries(m.notes, Channel)
  <2>1. n = Len(m.notes) => T = {i \in DOMAIN m.notes : m.notes[i] = Channel}
    BY <1>2
  <2>2. QED
    BY <2>1, <1>4 DEF Entries
<1> HIDE DEF t
<1>7. /\ channel \in Seq(LoaderApps) /\ Entries(channel, a) = Entries(l.channel, a) + t
      /\ \A b : b # a => Entries(channel, b) = Entries(l.channel, b)
  BY <1>1, <1>5, CountAppended
<1>8. Malformed \notin ToSet(m.notes) <=> r.ok
  <2>0. r.ok => Malformed \notin ToSet(m.notes)
    BY <1>2, <1>3, <1>4 DEF ToSet, good
  <2>1. SUFFICES ASSUME Malformed \notin ToSet(m.notes), n # Len(m.notes) PROVE FALSE
    BY <2>0, <1>4
  <2>2. n + 1 \in 1 .. Len(m.notes)
    BY <1>2, <1>3, <2>1
  <2>3. m.notes[n + 1] # Malformed
    BY <1>2, <2>1, <2>2 DEF ToSet
  <2>4. QED
    BY <1>2, <1>3, <2>1, <2>2, <2>3 DEF good
<1> HIDE DEF channel
<1>9. /\ k \in LoaderStates /\ k.channel = channel
      /\ k.owner = l.owner /\ k.hosts = l.hosts /\ k.manifests = l.manifests
  <2> HIDE DEF k
  <2>1. QED
    BY <1>4, <1>7 DEF LoaderStates
<1>10. Entries(l.channel, a) \in Nat
  BY <1>1, CountIs
<1>11. QED
  BY <1>5, <1>6, <1>7, <1>8, <1>9, <1>10 DEF r

\* What is to hold of a manifest, and of what is free, that a load does not fail.
Faultless(m) ==
    /\ Malformed \notin ToSet(m.skills) \cup ToSet(m.notes)
    /\ \A i, j \in DOMAIN m.skills : m.skills[i] = m.skills[j] => i = j
    /\ \A i, j \in DOMAIN m.hosts : m.hosts[i][1] = m.hosts[j][1] => i = j
    /\ \A h \in ToSet(m.hosts) : h[2] \in ToSet(m.skills)

NothingTaken(l, m) ==
    /\ \A s \in ToSet(m.skills) : l.owner[s] = NoOwner
    /\ \A h \in HostNames(m) : l.hosts[h] = NoOwner

\* The app a may have taken something of its manifest m between l and k; and
\* it has taken all.
Takes(l, k, a, m) ==
    /\ \A s \in Skills \cup DbusApps :
          \/ k.owner[s] = l.owner[s]
          \/ l.owner[s] = NoOwner /\ k.owner[s] = a /\ s \in ToSet(m.skills)
    /\ \A h \in Hosts :
          \/ k.hosts[h] = l.hosts[h]
          \/ /\ l.hosts[h] = NoOwner /\ h \in HostNames(m)
             /\ k.hosts[h] \in Skills /\ k.owner[k.hosts[h]] = a
    /\ \A b : b # a => Entries(k.channel, b) = Entries(l.channel, b)
    /\ Entries(k.channel, a) >= Entries(l.channel, a)

TakesAll(l, k, a, m) ==
    /\ \A s \in ToSet(m.skills) : s \in Skills \cup DbusApps /\ l.owner[s] = NoOwner /\ k.owner[s] = a
    /\ \A h \in ToSet(m.hosts) :
          l.hosts[h[1]] = NoOwner /\ k.hosts[h[1]] = h[2] /\ k.owner[h[2]] = a
    /\ Entries(k.channel, a) = Entries(l.channel, a) + Entries(m.notes, Channel)
    /\ Malformed \notin ToSet(m.notes)

\* A load takes all of the manifest, or fails and leaves the app unloaded.
LEMMA PopulatedIs ==
    ASSUME NEW l \in LoaderStates, NEW a \in LoaderApps, NEW m \in Shapes,
           l.manifests[a] = NoManifest
    PROVE  LET k == Populated(l, a, m)
           IN  /\ k \in LoaderStates /\ Takes(l, k, a, m)
               /\ \/ k.manifests = [l.manifests EXCEPT ![a] = m] /\ TakesAll(l, k, a, m)
                  \/ /\ k.manifests = l.manifests /\ ~(Faultless(m) /\ NothingTaken(l, m))
                     /\ Malformed \notin ToSet(m.notes) => Entries(k.channel, a) = Entries(l.channel, a)
<1> DEFINE r1 == TakeSkills(l, a, m)
           r2 == TakeHosts(r1.l, a, m)
           r3 == TakeNotes(r2.l, a, m)
           k == Populated(l, a, m)
           loaded == [r3.l EXCEPT !.manifests[a] = m]
<1> SUFFICES /\ k \in LoaderStates /\ Takes(l, k, a, m)
             /\ \/ k.manifests = [l.manifests EXCEPT ![a] = m] /\ TakesAll(l, k, a, m)
                \/ /\ k.manifests = l.manifests /\ ~(Faultless(m) /\ NothingTaken(l, m))
                   /\ Malformed \notin ToSet(m.notes) => Entries(k.channel, a) = Entries(l.channel, a)
  OBVIOUS
<1>1. k = IF ~r1.ok THEN r1.l ELSE IF ~r2.ok THEN r2.l ELSE IF ~r3.ok THEN r3.l ELSE loaded
  BY DEF Populated
<1>2. /\ r1.l \in LoaderStates
      /\ r1.l.hosts = l.hosts /\ r1.l.channel = l.channel /\ r1.l.manifests = l.manifests
      /\ \A s \in Skills \cup DbusApps :
            \/ r1.l.owner[s] = l.owner[s]
            \/ l.owner[s] = NoOwner /\ r1.l.owner[s] = a /\ s \in ToSet(m.skills)
      /\ r1.ok => \A s \in ToSet(m.skills) :
                     s \in Skills \cup DbusApps /\ l.owner[s] = NoOwner /\ r1.l.owner[s] = a
      /\ (/\ Malformed \notin ToSet(m.skills)
          /\ \A s \in ToSet(m.skills) : l.owner[s] = NoOwner
          /\ \A i, j \in DOMAIN m.skills : m.skills[i] = m.skills[j] => i = j) => r1.ok
  BY TakenSkills
<1> HIDE DEF r1
<1>3. /\ r2.l \in LoaderStates
      /\ r2.l.owner = r1.l.owner /\ r2.l.channel = l.channel /\ r2.l.manifests = l.manifests
      /\ \A h \in Hosts :
            \/ r2.l.hosts[h] = l.hosts[h]
            \/ /\ l.hosts[h] = NoOwner /\ h \in HostNames(m)
               /\ r2.l.hosts[h] \in Skills /\ r1.l.owner[r2.l.hosts[h]] = a
      /\ r2.ok => \A h \in ToSet(m.hosts) :
                     l.hosts[h[1]] = NoOwner /\ r2.l.hosts[h[1]] = h[2] /\ r1.l.owner[h[2]] = a
      /\ (/\ \A h \in ToSet(m.hosts) : l.hosts[h[1]] = NoOwner /\ r1.l.owner[h[2]] = a
          /\ \A i, j \in DOMAIN m.hosts : m.hosts[i][1] = m.hosts[j][1] => i = j) => r2.ok
  BY <1>2, TakenHosts
<1> HIDE DEF r2
<1>4. /\ r3.l \in LoaderStates
      /\ r3.l.owner = r1.l.owner /\ r3.l.hosts = r2.l.hosts /\ r3.l.manifests = l.manifests
      /\ \A b : b # a => Entries(r3.l.channel, b) = Entries(l.channel, b)
      /\ Entries(r3.l.channel, a) >= Entries(l.channel, a)
      /\ r3.ok => Entries(r3.l.channel, a) = Entries(l.channel, a) + Entries(m.notes, Channel)
      /\ Malformed \notin ToSet(m.notes) <=> r3.ok
  <2>1. /\ r3.l \in LoaderStates
        /\ r3.l.owner = r2.l.owner /\ r3.l.hosts = r2.l.hosts /\ r3.l.manifests = r2.l.manifests
        /\ \A b : b # a => Entries(r3.l.channel, b) = Entries(r2.l.channel, b)
        /\ Entries(r3.l.channel, a) >= Entries(r2.l.channel, a)
        /\ r3.ok => Entries(r3.l.channel, a) = Entries(r2.l.channel, a) + Entries(m.notes, Channel)
        /\ Malformed \notin ToSet(m.notes) <=> r3.ok
    BY <1>3, TakenNotes
  <2> HIDE DEF r3
  <2>2. QED
    BY <2>1, <1>3
<1> HIDE DEF r3
<1>5. /\ loaded \in LoaderStates /\ loaded.owner = r3.l.owner /\ loaded.hosts = r3.l.hosts
      /\ loaded.channel = r3.l.channel /\ loaded.manifests = [l.manifests EXCEPT ![a] = m]
  <2>1. [l.manifests EXCEPT ![a] = m] \in [LoaderApps -> Shapes \cup {NoManifest}]
    BY DEF LoaderStates
  <2>2. QED
    BY <1>4, <2>1 DEF LoaderStates
<1> HIDE DEF loaded
<1>6. Entries(l.channel, a) \in Nat
  BY CountIs DEF LoaderStates
<1>7. \A h \in ToSet(m.hosts) : h[1] \in HostNames(m)
  BY DEF HostNames
<1>8. Faultless(m) /\ NothingTaken(l, m) => r1.ok /\ r2.ok /\ r3.ok
  <2>1. SUFFICES ASSUME Faultless(m), NothingTaken(l, m) PROVE r1.ok /\ r2.ok /\ r3.ok
    OBVIOUS
  <2>2. Malformed \notin ToSet(m.skills) /\ Malformed \notin ToSet(m.notes)
    BY <2>1 DEF Faultless
  <2>3. r1.ok
    BY <1>2, <2>1, <2>2 DEF Faultless, NothingTaken
  <2>4. \A h \in ToSet(m.hosts) : l.hosts[h[1]] = NoOwner /\ r1.l.owner[h[2]] = a
    BY <1>2, <1>7, <2>1, <2>3 DEF Faultless, NothingTaken
  <2>5. r2.ok
    BY <1>3, <2>1, <2>4 DEF Faultless
  <2>6. QED
    BY <1>4, <2>2, <2>3, <2>5
<1> HIDE DEF k
<1>9. CASE ~r1.ok
  <2>1. k = r1.l
    BY <1>1, <1>9
  <2>2. QED
    BY <2>1, <1>2, <1>6, <1>8, <1>9 DEF Takes
<1>10. CASE r1.ok /\ ~r2.ok
  <2>1. k = r2.l
    BY <1>1, <1>10
  <2>2. QED
    BY <2>1, <1>2, <1>3, <1>6, <1>8, <1>10 DEF Takes
<1>11. CASE r1.ok /\ r2.ok /\ ~r3.ok
  <2>1. k = r3.l
    BY <1>1, <1>11
  <2>2. QED
    BY <2>1, <1>2, <1>3, <1>4, <1>8, <1>11 DEF Takes
<1>12. CASE r1.ok /\ r2.ok /\ r3.ok
  <2>1. k = loaded
    BY <1>1, <1>12
  <2>2. Takes(l, k, a, m)
    BY <2>1, <1>2, <1>3, <1>4, <1>5 DEF Takes
  <2>3. TakesAll(l, k, a, m)
    BY <2>1, <1>2, <1>3, <1>4, <1>5, <1>12 DEF TakesAll
  <2>4. QED
    BY <2>1, <2>2, <2>3, <1>5
<1>13. QED
  BY <1>9, <1>10, <1>11, <1>12 DEF k

-----------------------------------------------------------------------------
(* The inductive invariant *)

\* What a load of an app finds when it reads.
Source(a) == IF a \in Packages THEN disk[a] ELSE DbusManifest(a)

\* The skills and the hosts that are registered for an app.
SkillsOf(l, a) == {s \in Skills \cup DbusApps : l.owner[s] = a}
HostsOf(l, a) == {h \in Hosts : l.hosts[h] # NoOwner /\ l.owner[l.hosts[h]] = a}

\* The tables agree with the manifests, and a host leads to a skill of somebody.
Agrees(l) ==
    /\ \A a \in LoaderApps :
          l.manifests[a] # NoManifest =>
              LET m == l.manifests[a]
              IN  /\ \A s \in ToSet(m.skills) : s \in Skills \cup DbusApps /\ l.owner[s] = a
                  /\ \A h \in ToSet(m.hosts) : l.hosts[h[1]] = h[2] /\ l.owner[h[2]] = a
                  /\ \A h \in Hosts : l.hosts[h] \in ToSet(m.skills) => h \in HostNames(m)
                  /\ Entries(l.channel, a) >= Entries(m.notes, Channel)
    /\ \A h \in Hosts : l.hosts[h] # NoOwner => l.owner[l.hosts[h]] # NoOwner

\* An app whose manifest has been m has left nothing else.
OfItsSource(l, a, m) ==
    /\ l.manifests[a] \in {NoManifest, m}
    /\ SkillsOf(l, a) \subseteq ToSet(m.skills) /\ HostsOf(l, a) \subseteq HostNames(m)
    /\ l.manifests[a] # NoManifest => Entries(l.channel, a) = Entries(m.notes, Channel)
    /\ l.manifests[a] = NoManifest /\ Malformed \notin ToSet(m.notes) => Entries(l.channel, a) = 0

\* If the app is unloaded now, m will find nothing that the app has left,
Reclaims(l, a, m) ==
    l.manifests[a] # NoManifest =>
        /\ SkillsOf(l, a) \cap ToSet(m.skills) \subseteq ToSet(l.manifests[a].skills)
        /\ HostsOf(l, a) \cap HostNames(m) \subseteq HostNames(l.manifests[a])

\* and here m has been loaded, or finds nothing and is about to be.
Returns(l, a, m, pending) ==
    \/ l.manifests[a] = m
    \/ /\ l.manifests[a] = NoManifest /\ pending
       /\ SkillsOf(l, a) \cap ToSet(m.skills) = {} /\ HostsOf(l, a) \cap HostNames(m) = {}

LoaderTypes ==
    /\ disk \in [Packages -> Manifests \cup {NoManifest}]
    /\ loader \in LoaderStates
    /\ loading \in [lists : Nat, homes : [Homes -> Nat]]
    /\ walk \in [at : Nat, live : BOOLEAN, list : Seq(LoaderApps), stay : SUBSET LoaderApps,
                 told : [LoaderApps -> Nat]]
    /\ asked \in [installs : Nat, reloads : Nat, changed : SUBSET Packages,
                  again : SUBSET Packages, stale : SUBSET Packages]

Pending(p) == loading.lists > 0 \/ loading.homes[p] > 0

UnchangedAreKept == \A a \in LoaderApps \ asked.changed : OfItsSource(loader, a, Source(a))
ChangedAreFree == \A p \in Packages \ asked.again : Reclaims(loader, p, disk[p])
AloneReturns ==
    \A p \in Packages \ (asked.again \cup asked.stale) :
        asked.changed \subseteq {p} /\ MayBeLoaded(p) => Returns(loader, p, disk[p], Pending(p))

LoaderIInv == LoaderTypes /\ Agrees(loader) /\ UnchangedAreKept /\ ChangedAreFree /\ AloneReturns

-----------------------------------------------------------------------------
\* The manifests have their shape, of which that of no package is not.
LEMMA SourceShape ==
    /\ NoManifest \notin Shapes /\ Manifests \subseteq Shapes
    /\ \A d \in DbusApps : DbusManifest(d) \in Shapes
    /\ \A d \in DbusApps : /\ ToSet(DbusManifest(d).skills) = {d} /\ HostNames(DbusManifest(d)) = {}
                           /\ ToSet(DbusManifest(d).notes) = {}
<1>1. NoManifest \notin Shapes
  <2>1. SUFFICES ASSUME NoManifest \in Shapes PROVE FALSE
    OBVIOUS
  <2>2. <<NoOwner>> \in Seq({Channel, "unknown", Malformed})
    BY <2>1 DEF Shapes, NoManifest
  <2>3. <<NoOwner>>[1] \in {Channel, "unknown", Malformed}
    BY <2>2, ElementOfSeq
  <2>4. QED
    BY <2>3 DEF NoOwner, Channel, Malformed
<1>2. Manifests \subseteq Shapes
  <2>1. SUFFICES ASSUME NEW m \in Manifests PROVE m \in Shapes
    OBVIOUS
  <2>2. m \in [skills : Seq(Skills \cup {Malformed}), hosts : Seq(Hosts \X Skills),
               notes : Seq({Channel, "unknown", Malformed})]
    BY LoaderAssumption
  <2>3. m.skills \in Seq(Skills \cup DbusApps \cup {Malformed})
    <3>1. m.skills \in Seq(Skills \cup {Malformed})
          /\ Skills \cup {Malformed} \subseteq Skills \cup DbusApps \cup {Malformed}
      BY <2>2
    <3>2. QED
      BY <3>1, SeqMonotonic
  <2>4. QED
    BY <2>2, <2>3 DEF Shapes
<1>3. ASSUME NEW d \in DbusApps
      PROVE  /\ DbusManifest(d) \in Shapes
             /\ ToSet(DbusManifest(d).skills) = {d} /\ HostNames(DbusManifest(d)) = {}
             /\ ToSet(DbusManifest(d).notes) = {}
  <2>1. <<d>> \in Seq(Skills \cup DbusApps \cup {Malformed}) /\ <<>> \in Seq(Hosts \X Skills)
        /\ <<>> \in Seq({Channel, "unknown", Malformed})
    BY EmptySeq
  <2>2. ToSet(<<d>>) = {d}
    BY DEF ToSet
  <2>3. ToSet(<<>>) = {}
    BY DEF ToSet
  <2>4. QED
    BY <2>1, <2>2, <2>3 DEF Shapes, DbusManifest, HostNames
<1>4. QED
  BY <1>1, <1>2, <1>3

\* Nobody but a has been touched.
SamePart(l, k, b) ==
    /\ k.manifests[b] = l.manifests[b] /\ SkillsOf(k, b) = SkillsOf(l, b)
    /\ HostsOf(k, b) = HostsOf(l, b) /\ Entries(k.channel, b) = Entries(l.channel, b)

LEMMA SamePartHolds ==
    ASSUME NEW l, NEW k, NEW b, NEW m, NEW pending, SamePart(l, k, b)
    PROVE  /\ OfItsSource(l, b, m) => OfItsSource(k, b, m)
           /\ Reclaims(l, b, m) => Reclaims(k, b, m)
           /\ Returns(l, b, m, pending) => Returns(k, b, m, pending)
BY DEF SamePart, OfItsSource, Reclaims, Returns

-----------------------------------------------------------------------------
\* What a load does to the tables.
LEMMA LoadAgrees ==
    ASSUME NEW l \in LoaderStates, NEW k \in LoaderStates, NEW a \in LoaderApps, NEW m \in Shapes,
           Agrees(l), l.manifests[a] = NoManifest, Takes(l, k, a, m),
           \/ k.manifests = l.manifests
           \/ k.manifests = [l.manifests EXCEPT ![a] = m] /\ TakesAll(l, k, a, m)
    PROVE  Agrees(k)
<1> USE DEF LoaderStates
<1>1. /\ \A s \in Skills \cup DbusApps : l.owner[s] # NoOwner => k.owner[s] = l.owner[s]
      /\ \A h \in Hosts : l.hosts[h] # NoOwner => k.hosts[h] = l.hosts[h]
      /\ \A h \in Hosts : l.hosts[h] \in Skills \cup {NoOwner}
      /\ a # NoOwner /\ NoOwner \notin Skills /\ NoOwner \notin LoaderApps
  BY LoaderAssumption DEF Takes, LoaderApps
<1>2. ASSUME NEW h \in Hosts, k.hosts[h] # NoOwner PROVE k.owner[k.hosts[h]] # NoOwner
  <2>1. CASE k.hosts[h] = l.hosts[h]
    BY <2>1, <1>1, <1>2 DEF Agrees
  <2>2. CASE k.hosts[h] # l.hosts[h]
    BY <2>2, <1>1 DEF Takes
  <2>3. QED
    BY <2>1, <2>2
<1>3. ASSUME NEW b \in LoaderApps, NEW n, n = k.manifests[b], n # NoManifest, b # a
      PROVE  /\ \A s \in ToSet(n.skills) : s \in Skills \cup DbusApps /\ k.owner[s] = b
             /\ \A h \in ToSet(n.hosts) : k.hosts[h[1]] = h[2] /\ k.owner[h[2]] = b
             /\ \A h \in Hosts : k.hosts[h] \in ToSet(n.skills) => h \in HostNames(n)
             /\ Entries(k.channel, b) >= Entries(n.notes, Channel)
  <2>1. n = l.manifests[b]
    BY <1>3
  <2>2. /\ \A s \in ToSet(n.skills) : s \in Skills \cup DbusApps /\ l.owner[s] = b
        /\ \A h \in ToSet(n.hosts) : l.hosts[h[1]] = h[2] /\ l.owner[h[2]] = b
        /\ \A h \in Hosts : l.hosts[h] \in ToSet(n.skills) => h \in HostNames(n)
        /\ Entries(l.channel, b) >= Entries(n.notes, Channel)
    BY <1>3, <2>1 DEF Agrees
  <2>3. \A s \in ToSet(n.skills) : s \in Skills \cup DbusApps /\ k.owner[s] = b
    BY <1>1, <2>2
  <2>4. \A h \in ToSet(n.hosts) : h[1] \in Hosts /\ h[2] \in Skills
    <3>1. n.hosts \in Seq(Hosts \X Skills)
      BY <1>3, <2>1 DEF Shapes
    <3>2. QED
      BY <3>1, LenProperties, ElementOfSeq DEF ToSet
  <2>5. \A h \in ToSet(n.hosts) : k.hosts[h[1]] = h[2] /\ k.owner[h[2]] = b
    BY <1>1, <2>2, <2>4
  <2>6. ASSUME NEW h \in Hosts, k.hosts[h] \in ToSet(n.skills) PROVE h \in HostNames(n)
    <3>1. k.owner[k.hosts[h]] = b
      BY <2>3, <2>6
    <3>2. k.hosts[h] = l.hosts[h]
      BY <1>3, <3>1 DEF Takes
    <3>3. QED
      BY <2>2, <2>6, <3>2
  <2>7. Entries(k.channel, b) = Entries(l.channel, b)
    BY <1>3 DEF Takes
  <2>8. QED
    BY <2>2, <2>3, <2>5, <2>6, <2>7
<1>4. ASSUME k.manifests[a] # NoManifest
      PROVE  /\ \A s \in ToSet(m.skills) : s \in Skills \cup DbusApps /\ k.owner[s] = a
             /\ \A h \in ToSet(m.hosts) : k.hosts[h[1]] = h[2] /\ k.owner[h[2]] = a
             /\ \A h \in Hosts : k.hosts[h] \in ToSet(m.skills) => h \in HostNames(m)
             /\ Entries(k.channel, a) >= Entries(m.notes, Channel)
             /\ k.manifests[a] = m
  <2>1. k.manifests[a] = m /\ TakesAll(l, k, a, m)
    BY <1>4
  <2>2. ASSUME NEW h \in Hosts, k.hosts[h] \in ToSet(m.skills) PROVE h \in HostNames(m)
    <3>1. CASE k.hosts[h] = l.hosts[h]
      <4>1. l.owner[l.hosts[h]] = NoOwner /\ l.hosts[h] # NoOwner
        <5>1. k.hosts[h] \in Skills \cup DbusApps /\ l.owner[k.hosts[h]] = NoOwner
          BY <2>1, <2>2 DEF TakesAll
        <5>2. NoOwner \notin DbusApps
          BY LoaderAssumption
        <5>3. QED
          BY <5>1, <5>2, <3>1, <1>1
      <4>2. QED
        BY <4>1 DEF Agrees
    <3>2. CASE k.hosts[h] # l.hosts[h]
      BY <3>2 DEF Takes
    <3>3. QED
      BY <3>1, <3>2
  <2>3. Entries(l.channel, a) \in Nat /\ Entries(m.notes, Channel) \in Nat
    BY CountIs DEF Shapes
  <2>4. QED
    BY <2>1, <2>2, <2>3 DEF TakesAll
<1>5. QED
  BY <1>2, <1>3, <1>4 DEF Agrees

LEMMA LoadOthers ==
    ASSUME NEW l \in LoaderStates, NEW k \in LoaderStates, NEW a \in LoaderApps, NEW m,
           Agrees(l), Takes(l, k, a, m),
           k.manifests = l.manifests \/ k.manifests = [l.manifests EXCEPT ![a] = m],
           NEW b \in LoaderApps, b # a
    PROVE  SamePart(l, k, b)
<1>1. a # NoOwner /\ b # NoOwner
  BY LoaderAssumption DEF LoaderApps
<1>2. SkillsOf(k, b) = SkillsOf(l, b)
  BY <1>1 DEF Takes, SkillsOf
<1>3. ASSUME NEW h \in Hosts PROVE h \in HostsOf(k, b) <=> h \in HostsOf(l, b)
  <2>1. l.hosts[h] # NoOwner => /\ k.hosts[h] = l.hosts[h] /\ l.hosts[h] \in Skills
                                /\ l.owner[l.hosts[h]] # NoOwner
                                /\ k.owner[l.hosts[h]] = l.owner[l.hosts[h]]
    BY DEF Takes, Agrees, LoaderStates
  <2>2. l.hosts[h] = NoOwner => k.hosts[h] = NoOwner \/ k.owner[k.hosts[h]] = a
    BY DEF Takes
  <2>3. QED
    BY <2>1, <2>2 DEF HostsOf
<1>4. HostsOf(k, b) = HostsOf(l, b)
  BY <1>3 DEF HostsOf
<1>5. k.manifests[b] = l.manifests[b]
  BY DEF LoaderStates
<1>6. QED
  BY <1>2, <1>4, <1>5 DEF SamePart, Takes

\* A load of m adds to what is registered for its app what m declares.
LEMMA LoadAdds ==
    ASSUME NEW l \in LoaderStates, NEW k \in LoaderStates, NEW a \in LoaderApps, NEW m,
           Agrees(l), Takes(l, k, a, m)
    PROVE  /\ SkillsOf(k, a) \subseteq SkillsOf(l, a) \cup ToSet(m.skills)
           /\ HostsOf(k, a) \subseteq HostsOf(l, a) \cup HostNames(m)
<1>1. SkillsOf(k, a) \subseteq SkillsOf(l, a) \cup ToSet(m.skills)
  BY DEF Takes, SkillsOf
<1>2. ASSUME NEW h \in HostsOf(k, a), h \notin HostNames(m) PROVE h \in HostsOf(l, a)
  <2>1. h \in Hosts /\ k.hosts[h] # NoOwner /\ k.owner[k.hosts[h]] = a /\ k.hosts[h] = l.hosts[h]
    BY <1>2 DEF HostsOf, Takes
  <2>2. l.hosts[h] \in Skills /\ l.owner[l.hosts[h]] # NoOwner
    BY <2>1 DEF Agrees, LoaderStates
  <2>3. QED
    BY <2>1, <2>2 DEF HostsOf, Takes
<1>3. QED
  BY <1>1, <1>2

-----------------------------------------------------------------------------
\* What an unload does to the tables.
LEMMA UnloadedIs ==
    ASSUME loader \in LoaderStates, NEW a \in LoaderApps,
           loader.manifests[a] # NoManifest, Agrees(loader)
    PROVE  LET k == Unloaded(a)
               m == loader.manifests[a]
           IN  /\ k \in LoaderStates
               /\ k.manifests = [loader.manifests EXCEPT ![a] = NoManifest]
               /\ k.owner = [s \in Skills \cup DbusApps |->
                               IF s \in ToSet(m.skills) THEN NoOwner ELSE loader.owner[s]]
               /\ k.hosts = [h \in Hosts |-> IF h \in HostNames(m) THEN NoOwner ELSE loader.hosts[h]]
               /\ Entries(k.channel, a) = Entries(loader.channel, a) - Entries(m.notes, Channel)
               /\ \A b : b # a => Entries(k.channel, b) = Entries(loader.channel, b)
<1> DEFINE k == Unloaded(a)
           m == loader.manifests[a]
           owner == [s \in Skills \cup DbusApps |->
                       IF s \in ToSet(m.skills) THEN NoOwner ELSE loader.owner[s]]
           hosts == [h \in Hosts |-> IF h \in HostNames(m) THEN NoOwner ELSE loader.hosts[h]]
           channel == SplicedTimes(loader.channel, a, Entries(m.notes, Channel))
           manifests == [loader.manifests EXCEPT ![a] = NoManifest]
<1> SUFFICES /\ k \in LoaderStates /\ k.manifests = manifests /\ k.owner = owner /\ k.hosts = hosts
             /\ Entries(k.channel, a) = Entries(loader.channel, a) - Entries(m.notes, Channel)
             /\ \A b : b # a => Entries(k.channel, b) = Entries(loader.channel, b)
  OBVIOUS
<1>1. /\ DOMAIN loader.owner = Skills \cup DbusApps /\ DOMAIN loader.hosts = Hosts
      /\ loader.channel \in Seq(LoaderApps)
      /\ m \in Shapes /\ Entries(loader.channel, a) >= Entries(m.notes, Channel)
  BY DEF LoaderStates, Agrees
<1>2. Entries(m.notes, Channel) \in Nat /\ Entries(loader.channel, a) \in Nat
  BY <1>1, CountIs DEF Shapes
<1>3. /\ channel \in Seq(LoaderApps)
      /\ Entries(channel, a) = Entries(loader.channel, a) - Entries(m.notes, Channel)
      /\ \A b : b # a => Entries(channel, b) = Entries(loader.channel, b)
  BY <1>1, <1>2, SplicedTimesIs
<1>4. k = [loader EXCEPT !.manifests = manifests, !.owner = owner, !.hosts = hosts,
                         !.channel = channel]
  BY <1>1 DEF Unloaded, LoaderStates
<1>5. /\ owner \in [Skills \cup DbusApps -> LoaderApps \cup {NoOwner}]
      /\ hosts \in [Hosts -> Skills \cup {NoOwner}]
      /\ manifests \in [LoaderApps -> Shapes \cup {NoManifest}]
  BY DEF LoaderStates
<1> HIDE DEF k, owner, hosts, channel, manifests
<1>6. k \in LoaderStates /\ k.manifests = manifests /\ k.owner = owner /\ k.hosts = hosts
      /\ k.channel = channel
  BY <1>3, <1>4, <1>5 DEF LoaderStates
<1>7. QED
  BY <1>3, <1>6

\* The app that is unloaded keeps nothing of its manifest, the others all.
LEMMA UnloadOwn ==
    ASSUME loader \in LoaderStates, NEW a \in LoaderApps,
           loader.manifests[a] # NoManifest, Agrees(loader)
    PROVE  LET k == Unloaded(a)
               m == loader.manifests[a]
           IN  /\ SkillsOf(k, a) = SkillsOf(loader, a) \ ToSet(m.skills)
               /\ HostsOf(k, a) \subseteq HostsOf(loader, a) \ HostNames(m)
<1> DEFINE k == Unloaded(a)
           m == loader.manifests[a]
<1>1. /\ k.owner = [s \in Skills \cup DbusApps |->
                      IF s \in ToSet(m.skills) THEN NoOwner ELSE loader.owner[s]]
      /\ k.hosts = [h \in Hosts |-> IF h \in HostNames(m) THEN NoOwner ELSE loader.hosts[h]]
  BY UnloadedIs
<1>2. a # NoOwner /\ \A h \in Hosts : loader.hosts[h] \in Skills \cup {NoOwner}
  BY LoaderAssumption DEF LoaderApps, LoaderStates
<1> HIDE DEF k
<1>3. SkillsOf(k, a) = SkillsOf(loader, a) \ ToSet(m.skills)
  BY <1>1, <1>2 DEF SkillsOf
<1>4. HostsOf(k, a) \subseteq HostsOf(loader, a) \ HostNames(m)
  BY <1>1, <1>2 DEF HostsOf
<1>5. QED
  BY <1>3, <1>4 DEF k

LEMMA UnloadOthers ==
    ASSUME loader \in LoaderStates, NEW a \in LoaderApps,
           loader.manifests[a] # NoManifest, Agrees(loader),
           NEW b \in LoaderApps, b # a
    PROVE  SamePart(loader, Unloaded(a), b)
<1> DEFINE k == Unloaded(a)
           m == loader.manifests[a]
<1>1. /\ k.owner = [s \in Skills \cup DbusApps |->
                      IF s \in ToSet(m.skills) THEN NoOwner ELSE loader.owner[s]]
      /\ k.hosts = [h \in Hosts |-> IF h \in HostNames(m) THEN NoOwner ELSE loader.hosts[h]]
      /\ k.manifests = [loader.manifests EXCEPT ![a] = NoManifest]
      /\ \A c : c # a => Entries(k.channel, c) = Entries(loader.channel, c)
  BY UnloadedIs
<1>2. /\ b # NoOwner /\ \A h \in Hosts : loader.hosts[h] \in Skills \cup {NoOwner}
  BY LoaderAssumption DEF LoaderApps, LoaderStates
<1>3. /\ \A s \in ToSet(m.skills) : loader.owner[s] = a
      /\ \A h \in ToSet(m.hosts) : loader.hosts[h[1]] = h[2] /\ loader.owner[h[2]] = a
  BY DEF Agrees
<1> HIDE DEF k
<1>4. SkillsOf(k, b) = SkillsOf(loader, b)
  BY <1>1, <1>2, <1>3 DEF SkillsOf
<1>5. \A h \in HostNames(m) : loader.owner[loader.hosts[h]] = a
  BY <1>3 DEF HostNames
<1>6. HostsOf(k, b) = HostsOf(loader, b)
  <2>1. ASSUME NEW h \in Hosts PROVE h \in HostsOf(k, b) <=> h \in HostsOf(loader, b)
    <3>1. CASE h \in HostNames(m)
      BY <3>1, <1>1, <1>5 DEF HostsOf
    <3>2. CASE h \notin HostNames(m)
      <4>1. k.hosts[h] = loader.hosts[h]
        BY <3>2, <1>1
      <4>2. loader.hosts[h] # NoOwner =>
              (k.owner[loader.hosts[h]] = b <=> loader.owner[loader.hosts[h]] = b)
        BY <1>1, <1>2, <1>3
      <4>3. QED
        BY <4>1, <4>2 DEF HostsOf
    <3>3. QED
      BY <3>1, <3>2
  <2>2. QED
    BY <2>1 DEF HostsOf
<1>7. k.manifests[b] = loader.manifests[b]
  BY <1>1 DEF LoaderStates
<1>8. QED
  BY <1>1, <1>4, <1>6, <1>7 DEF SamePart, k

LEMMA UnloadAgrees ==
    ASSUME loader \in LoaderStates, NEW a \in LoaderApps,
           loader.manifests[a] # NoManifest, Agrees(loader)
    PROVE  Agrees(Unloaded(a))
<1> DEFINE k == Unloaded(a)
           m == loader.manifests[a]
<1>1. /\ k.owner = [s \in Skills \cup DbusApps |->
                      IF s \in ToSet(m.skills) THEN NoOwner ELSE loader.owner[s]]
      /\ k.hosts = [h \in Hosts |-> IF h \in HostNames(m) THEN NoOwner ELSE loader.hosts[h]]
      /\ k.manifests = [loader.manifests EXCEPT ![a] = NoManifest]
      /\ \A c : c # a => Entries(k.channel, c) = Entries(loader.channel, c)
  BY UnloadedIs
<1>2. /\ \A h \in Hosts : loader.hosts[h] \in Skills \cup {NoOwner}
      /\ NoOwner \notin LoaderApps /\ NoOwner \notin Skills /\ NoOwner \notin DbusApps
  BY LoaderAssumption DEF LoaderApps, LoaderStates
<1>3. /\ \A s \in ToSet(m.skills) : loader.owner[s] = a
      /\ \A h \in ToSet(m.hosts) : loader.hosts[h[1]] = h[2] /\ loader.owner[h[2]] = a
      /\ \A h \in Hosts : loader.hosts[h] \in ToSet(m.skills) => h \in HostNames(m)
  BY DEF Agrees
<1> HIDE DEF k
<1>4. ASSUME NEW h \in Hosts, k.hosts[h] # NoOwner PROVE k.owner[k.hosts[h]] # NoOwner
  <2>1. k.hosts[h] = loader.hosts[h] /\ h \notin HostNames(m) /\ loader.hosts[h] \in Skills
    BY <1>1, <1>2, <1>4
  <2>2. loader.hosts[h] \notin ToSet(m.skills) /\ loader.owner[loader.hosts[h]] # NoOwner
    BY <1>3, <1>4, <2>1 DEF Agrees
  <2>3. QED
    BY <1>1, <2>1, <2>2
<1>5. ASSUME NEW b \in LoaderApps, NEW n, n = k.manifests[b], n # NoManifest
      PROVE  /\ \A s \in ToSet(n.skills) : s \in Skills \cup DbusApps /\ k.owner[s] = b
             /\ \A h \in ToSet(n.hosts) : k.hosts[h[1]] = h[2] /\ k.owner[h[2]] = b
             /\ \A h \in Hosts : k.hosts[h] \in ToSet(n.skills) => h \in HostNames(n)
             /\ Entries(k.channel, b) >= Entries(n.notes, Channel)
  <2>1. n = loader.manifests[b] /\ b # a
    BY <1>1, <1>5 DEF LoaderStates
  <2>2. /\ \A s \in ToSet(n.skills) : s \in Skills \cup DbusApps /\ loader.owner[s] = b
        /\ \A h \in ToSet(n.hosts) : loader.hosts[h[1]] = h[2] /\ loader.owner[h[2]] = b
        /\ \A h \in Hosts : loader.hosts[h] \in ToSet(n.skills) => h \in HostNames(n)
        /\ Entries(loader.channel, b) >= Entries(n.notes, Channel)
    BY <1>5, <2>1 DEF Agrees
  <2>3. \A h \in ToSet(n.hosts) : h[1] \in Hosts /\ h[2] \in Skills
    <3>1. n.hosts \in Seq(Hosts \X Skills)
      BY <1>5, <2>1 DEF Shapes, LoaderStates
    <3>2. QED
      BY <3>1, LenProperties, ElementOfSeq DEF ToSet
  <2>4. \A s \in ToSet(n.skills) : s \in Skills \cup DbusApps /\ k.owner[s] = b
    BY <1>1, <1>3, <2>1, <2>2
  <2>5. ASSUME NEW h \in ToSet(n.hosts) PROVE k.hosts[h[1]] = h[2] /\ k.owner[h[2]] = b
    <3>1. h[1] \in Hosts /\ h[2] \in Skills /\ loader.hosts[h[1]] = h[2] /\ loader.owner[h[2]] = b
      BY <2>2, <2>3
    <3>2. h[1] \notin HostNames(m)
      <4>1. \A x \in HostNames(m) : loader.owner[loader.hosts[x]] = a
        BY <1>3 DEF HostNames
      <4>2. QED
        BY <3>1, <4>1, <2>1
    <3>3. h[2] \notin ToSet(m.skills)
      BY <1>3, <3>1, <2>1
    <3>4. QED
      BY <1>1, <3>1, <3>2, <3>3
  <2>6. ASSUME NEW h \in Hosts, k.hosts[h] \in ToSet(n.skills) PROVE h \in HostNames(n)
    <3>1. k.hosts[h] = loader.hosts[h]
      <4>1. k.hosts[h] # NoOwner
        BY <2>2, <2>6, <1>2
      <4>2. QED
        BY <4>1, <1>1
    <3>2. QED
      BY <2>2, <2>6, <3>1
  <2>7. QED
    BY <1>1, <2>1, <2>2, <2>4, <2>5, <2>6
<1>6. QED
  BY <1>4, <1>5 DEF Agrees, k

-----------------------------------------------------------------------------
\* A load of what the app has always declared leaves nothing else.
LEMMA LoadOfItsSource ==
    ASSUME NEW l \in LoaderStates, NEW k \in LoaderStates, NEW a \in LoaderApps, NEW m \in Shapes,
           Agrees(l), l.manifests[a] = NoManifest, Takes(l, k, a, m), OfItsSource(l, a, m),
           \/ k.manifests = [l.manifests EXCEPT ![a] = m] /\ TakesAll(l, k, a, m)
           \/ /\ k.manifests = l.manifests
              /\ Malformed \notin ToSet(m.notes) => Entries(k.channel, a) = Entries(l.channel, a)
    PROVE  OfItsSource(k, a, m)
<1>1. SkillsOf(k, a) \subseteq ToSet(m.skills) /\ HostsOf(k, a) \subseteq HostNames(m)
  BY LoadAdds DEF OfItsSource
<1>2. m # NoManifest /\ Entries(m.notes, Channel) \in Nat
  BY SourceShape, CountIs DEF Shapes
<1>3. ASSUME k.manifests = [l.manifests EXCEPT ![a] = m], TakesAll(l, k, a, m)
      PROVE  OfItsSource(k, a, m)
  <2>1. k.manifests[a] = m
    BY <1>3 DEF LoaderStates
  <2>2. Entries(k.channel, a) = 0 + Entries(m.notes, Channel)
    BY <1>3 DEF TakesAll, OfItsSource
  <2>3. QED
    BY <1>1, <1>2, <2>1, <2>2 DEF OfItsSource
<1>4. ASSUME k.manifests = l.manifests,
             Malformed \notin ToSet(m.notes) => Entries(k.channel, a) = Entries(l.channel, a)
      PROVE  OfItsSource(k, a, m)
  BY <1>1, <1>4 DEF OfItsSource
<1>5. QED
  BY <1>3, <1>4

\* A package that is alone in having changed finds nothing of its own taken.
LEMMA FindsNothing ==
    ASSUME LoaderTypes, Agrees(loader), UnchangedAreKept,
           NEW p \in Packages, asked.changed \subseteq {p}, MayBeLoaded(p), NEW pending,
           Returns(loader, p, disk[p], pending), loader.manifests[p] = NoManifest
    PROVE  Faultless(disk[p]) /\ NothingTaken(loader, disk[p])
<1> DEFINE m == disk[p]
<1>1. /\ m # NoManifest /\ m \in Manifests /\ m \in Shapes
      /\ Malformed \notin ToSet(m.skills) \cup ToSet(m.notes)
      /\ \A q \in Packages \ {p} : Names(disk[q]) \cap Names(m) = {}
  BY SourceShape DEF LoaderTypes, MayBeLoaded
<1>2. Faultless(m)
  BY DEF MayBeLoaded, Faultless
<1>3. ToSet(m.skills) \subseteq Skills
  <2>1. m.skills \in Seq(Skills \cup {Malformed})
    BY <1>1, LoaderAssumption
  <2>2. ToSet(m.skills) \subseteq Skills \cup {Malformed}
    BY <2>1, LenProperties, ElementOfSeq DEF ToSet
  <2>3. QED
    BY <2>2, <1>1
<1>4. HostNames(m) \subseteq Hosts
  <2>1. m.hosts \in Seq(Hosts \X Skills)
    BY <1>1 DEF Shapes
  <2>2. QED
    BY <2>1, LenProperties, ElementOfSeq DEF ToSet, HostNames
<1>5. SkillsOf(loader, p) \cap ToSet(m.skills) = {} /\ HostsOf(loader, p) \cap HostNames(m) = {}
  BY <1>1 DEF Returns
<1>6. ASSUME NEW q \in LoaderApps, q # p
      PROVE  /\ SkillsOf(loader, q) \cap ToSet(m.skills) = {}
             /\ HostsOf(loader, q) \cap HostNames(m) = {}
  <2>1. OfItsSource(loader, q, Source(q))
    BY <1>6 DEF UnchangedAreKept
  <2>2. CASE q \in Packages
    <3>1. Names(disk[q]) \cap Names(m) = {} /\ Source(q) = disk[q]
      BY <1>1, <1>6, <2>2 DEF Source
    <3>2. QED
      BY <2>1, <3>1 DEF OfItsSource, Names
  <2>3. CASE q \notin Packages
    <3>1. q \in DbusApps /\ Source(q) = DbusManifest(q) /\ q \notin Skills
      BY <2>3, LoaderAssumption DEF LoaderApps, Source
    <3>2. ToSet(Source(q).skills) = {q} /\ HostNames(Source(q)) = {}
      BY <3>1, SourceShape
    <3>3. QED
      BY <2>1, <3>1, <3>2, <1>3 DEF OfItsSource
  <2>4. QED
    BY <2>2, <2>3
<1>7. /\ loader.owner \in [Skills \cup DbusApps -> LoaderApps \cup {NoOwner}]
      /\ loader.hosts \in [Hosts -> Skills \cup {NoOwner}]
  BY DEF LoaderTypes, LoaderStates
<1>8. ASSUME NEW s \in ToSet(m.skills) PROVE loader.owner[s] = NoOwner
  <2>1. SUFFICES ASSUME loader.owner[s] # NoOwner PROVE FALSE
    OBVIOUS
  <2>2. s \in Skills /\ loader.owner[s] \in LoaderApps
    BY <1>3, <1>7, <2>1
  <2>3. s \in SkillsOf(loader, loader.owner[s])
    BY <2>2 DEF SkillsOf
  <2>4. QED
    BY <2>2, <2>3, <1>5, <1>6
<1>9. ASSUME NEW h \in HostNames(m) PROVE loader.hosts[h] = NoOwner
  <2>1. SUFFICES ASSUME loader.hosts[h] # NoOwner PROVE FALSE
    OBVIOUS
  <2>2. h \in Hosts /\ loader.hosts[h] \in Skills
    BY <1>4, <1>7, <2>1
  <2>3. loader.owner[loader.hosts[h]] \in LoaderApps
    BY <1>7, <2>1, <2>2 DEF Agrees
  <2>4. h \in HostsOf(loader, loader.owner[loader.hosts[h]])
    BY <2>1, <2>2 DEF HostsOf
  <2>5. QED
    BY <2>3, <2>4, <1>5, <1>6
<1>10. QED
  BY <1>2, <1>8, <1>9 DEF NothingTaken

\* A load of an app keeps the invariant, as long as other loads stay pending.
LEMMA LoadKeeps ==
    ASSUME LoaderIInv, NEW a \in LoaderApps, Source(a) # NoManifest,
           loader' = Populated(loader, a, Source(a)), disk' = disk,
           asked'.changed = asked.changed, asked'.again = asked.again, asked'.stale = asked.stale,
           \A p \in Packages \ {a} : Pending(p) => Pending(p)'
    PROVE  /\ loader' \in LoaderStates /\ Agrees(loader')
           /\ UnchangedAreKept' /\ ChangedAreFree' /\ AloneReturns'
<1> DEFINE l == loader
           k == loader'
           m == Source(a)
<1>1. /\ l \in LoaderStates /\ m \in Shapes /\ Agrees(l)
      /\ (a \in Packages => m = disk[a]) /\ \A b : Source(b)' = Source(b)
  BY SourceShape DEF LoaderIInv, LoaderTypes, Source, LoaderApps
<1>2. CASE l.manifests[a] # NoManifest
  <2>1. k = l
    BY <1>2 DEF Populated
  <2>2. UnchangedAreKept' /\ ChangedAreFree'
    BY <1>1, <2>1 DEF LoaderIInv, UnchangedAreKept, ChangedAreFree
  <2>3. ASSUME NEW p \in Packages \ (asked.again \cup asked.stale),
               asked.changed \subseteq {p}, MayBeLoaded(p)
        PROVE  Returns(l, p, disk[p], Pending(p)')
    <3>1. Returns(l, p, disk[p], Pending(p))
      BY <2>3 DEF LoaderIInv, AloneReturns
    <3>2. QED
      BY <3>1, <1>2 DEF Returns
  <2>4. AloneReturns'
    BY <2>1, <2>3 DEF AloneReturns, MayBeLoaded
  <2>5. QED
    BY <1>1, <2>1, <2>2, <2>4
<1>3. CASE l.manifests[a] = NoManifest
  <2>1. /\ k \in LoaderStates /\ Takes(l, k, a, m)
        /\ \/ k.manifests = [l.manifests EXCEPT ![a] = m] /\ TakesAll(l, k, a, m)
           \/ /\ k.manifests = l.manifests /\ ~(Faultless(m) /\ NothingTaken(l, m))
              /\ Malformed \notin ToSet(m.notes) => Entries(k.channel, a) = Entries(l.channel, a)
    BY <1>1, <1>3, PopulatedIs
  <2>2. Agrees(k)
    BY <1>1, <1>3, <2>1, LoadAgrees
  <2>3. \A b \in LoaderApps : b # a => SamePart(l, k, b)
    BY <1>1, <2>1, LoadOthers
  <2>4. k.manifests[a] \in {NoManifest, m}
    BY <1>1, <1>3, <2>1 DEF LoaderStates
  <2>5. ASSUME NEW b \in LoaderApps \ asked.changed PROVE OfItsSource(k, b, Source(b))
    <3>1. OfItsSource(l, b, Source(b))
      BY DEF LoaderIInv, UnchangedAreKept
    <3>2. CASE b = a
      BY <3>1, <3>2, <1>1, <1>3, <2>1, LoadOfItsSource
    <3>3. CASE b # a
      BY <3>1, <3>3, <2>3, SamePartHolds
    <3>4. QED
      BY <3>2, <3>3
  <2>6. ASSUME NEW p \in Packages \ asked.again PROVE Reclaims(k, p, disk[p])
    <3>1. CASE p = a
      BY <3>1, <1>1, <2>4 DEF Reclaims
    <3>2. CASE p # a
      <4>1. Reclaims(l, p, disk[p]) /\ p \in LoaderApps
        BY DEF LoaderIInv, ChangedAreFree, LoaderApps
      <4>2. QED
        BY <3>2, <4>1, <2>3, SamePartHolds
    <3>3. QED
      BY <3>1, <3>2
  <2>7. ASSUME NEW p \in Packages \ (asked.again \cup asked.stale),
               asked.changed \subseteq {p}, MayBeLoaded(p)
        PROVE  Returns(k, p, disk[p], Pending(p)')
    <3>1. Returns(l, p, disk[p], Pending(p)) /\ p \in LoaderApps
      BY <2>7 DEF LoaderIInv, AloneReturns, LoaderApps
    <3>2. CASE p = a
      <4>1. Faultless(m) /\ NothingTaken(l, m)
        BY <3>1, <3>2, <1>1, <1>3, <2>7, FindsNothing DEF LoaderIInv
      <4>2. k.manifests[a] = m
        BY <4>1, <1>1, <2>1 DEF LoaderStates
      <4>3. QED
        BY <4>2, <3>2, <1>1 DEF Returns
    <3>3. CASE p # a
      <4>1. Pending(p) => Pending(p)'
        BY <3>3
      <4>2. Returns(l, p, disk[p], Pending(p)')
        BY <3>1, <4>1 DEF Returns
      <4>3. QED
        BY <4>2, <3>1, <3>3, <2>3, SamePartHolds
    <3>4. QED
      BY <3>2, <3>3
  <2>8. UnchangedAreKept'
    BY <1>1, <2>5 DEF UnchangedAreKept
  <2>9. ChangedAreFree'
    BY <2>6 DEF ChangedAreFree
  <2>10. AloneReturns'
    BY <2>7 DEF AloneReturns, MayBeLoaded
  <2>11. QED
    BY <2>1, <2>2, <2>8, <2>9, <2>10
<1>4. QED
  BY <1>2, <1>3

-----------------------------------------------------------------------------
\* As long as nothing is loaded there is nothing to disagree.
LEMMA NothingIs ==
    /\ NothingLoaded \in LoaderStates /\ Agrees(NothingLoaded)
    /\ \A a \in LoaderApps : \A m : /\ OfItsSource(NothingLoaded, a, m)
                                    /\ Reclaims(NothingLoaded, a, m)
                                    /\ Returns(NothingLoaded, a, m, TRUE)
<1> DEFINE l == NothingLoaded
<1>1. /\ l.owner = [s \in Skills \cup DbusApps |-> NoOwner] /\ l.hosts = [h \in Hosts |-> NoOwner]
      /\ l.channel = <<>> /\ l.manifests = [a \in LoaderApps |-> NoManifest]
  BY DEF NothingLoaded
<1>2. l \in LoaderStates
  <2>1. <<>> \in Seq(LoaderApps)
    BY EmptySeq
  <2>2. QED
    BY <2>1 DEF NothingLoaded, LoaderStates
<1>3. NoOwner \notin LoaderApps
  BY LoaderAssumption DEF LoaderApps
<1> HIDE DEF l
<1>4. Agrees(l)
  BY <1>1 DEF Agrees
<1>5. ASSUME NEW a \in LoaderApps
      PROVE  /\ SkillsOf(l, a) = {} /\ HostsOf(l, a) = {} /\ l.manifests[a] = NoManifest
             /\ Entries(l.channel, a) = 0
  <2>1. SkillsOf(l, a) = {} /\ HostsOf(l, a) = {}
    BY <1>1, <1>3 DEF SkillsOf, HostsOf
  <2>2. {i \in DOMAIN l.channel : l.channel[i] = a} = {}
    BY <1>1
  <2>3. QED
    BY <1>1, <2>1, <2>2, FS_EmptySet DEF Entries
<1>6. QED
  BY <1>2, <1>4, <1>5 DEF OfItsSource, Reclaims, Returns, l

LEMMA ReloadAllKeeps ==
    ASSUME LoaderIInv, loader' = NothingLoaded, disk' = disk,
           asked'.changed = {}, asked'.again = {}, asked'.stale = {},
           loading'.lists = loading.lists + 1
    PROVE  /\ loader' \in LoaderStates /\ Agrees(loader')
           /\ UnchangedAreKept' /\ ChangedAreFree' /\ AloneReturns'
<1>1. loader' \in LoaderStates /\ Agrees(loader')
  BY NothingIs
<1>2. Packages \subseteq LoaderApps /\ loading.lists \in Nat
  BY DEF LoaderIInv, LoaderTypes, LoaderApps
<1>3. UnchangedAreKept' /\ ChangedAreFree'
  BY <1>2, NothingIs DEF UnchangedAreKept, ChangedAreFree
<1>4. \A p \in Packages : Pending(p)'
  BY <1>2 DEF Pending
<1>5. AloneReturns'
  <2>1. \A p \in Packages : \A m : Returns(loader', p, m, Pending(p)')
    BY <1>2, <1>4, NothingIs DEF Returns
  <2>2. QED
    BY <2>1 DEF AloneReturns
<1>6. QED
  BY <1>1, <1>3, <1>5

\* An unload of an app, which will be read again if it has a package.
LEMMA UnloadKeeps ==
    ASSUME LoaderIInv, NEW a \in LoaderApps, Loaded(a), loader' = Unloaded(a), disk' = disk,
           asked'.changed = asked.changed, asked'.again = asked.again,
           asked'.stale = asked.stale \ {a},
           \A p \in Packages : Pending(p) => Pending(p)', a \in Packages => Pending(a)'
    PROVE  /\ loader' \in LoaderStates /\ Agrees(loader')
           /\ UnchangedAreKept' /\ ChangedAreFree' /\ AloneReturns'
<1> DEFINE l == loader
           k == loader'
<1>1. /\ l \in LoaderStates /\ Agrees(l) /\ l.manifests[a] # NoManifest
      /\ l.manifests[a] \in Shapes /\ \A b : Source(b)' = Source(b)
  BY DEF LoaderIInv, LoaderTypes, LoaderStates, Source, Loaded
<1>2. /\ k \in LoaderStates /\ k.manifests = [l.manifests EXCEPT ![a] = NoManifest]
      /\ Entries(k.channel, a) = Entries(l.channel, a) - Entries(l.manifests[a].notes, Channel)
  BY <1>1, UnloadedIs
<1>3. Agrees(k)
  BY <1>1, UnloadAgrees
<1>4. \A b \in LoaderApps : b # a => SamePart(l, k, b)
  BY <1>1, UnloadOthers
<1>5. /\ SkillsOf(k, a) = SkillsOf(l, a) \ ToSet(l.manifests[a].skills)
      /\ HostsOf(k, a) \subseteq HostsOf(l, a) \ HostNames(l.manifests[a])
  BY <1>1, UnloadOwn
<1>6. k.manifests[a] = NoManifest
  BY <1>1, <1>2 DEF LoaderStates
<1>7. ASSUME NEW b \in LoaderApps \ asked.changed PROVE OfItsSource(k, b, Source(b))
  <2>1. OfItsSource(l, b, Source(b))
    BY DEF LoaderIInv, UnchangedAreKept
  <2>2. CASE b = a
    <3>1. l.manifests[a] = Source(a) /\ Entries(l.channel, a) = Entries(Source(a).notes, Channel)
      BY <2>1, <2>2, <1>1 DEF OfItsSource
    <3>2. Entries(l.manifests[a].notes, Channel) \in Nat
      BY <1>1, CountIs DEF Shapes
    <3>3. Entries(k.channel, a) = 0
      BY <3>1, <3>2, <1>2
    <3>4. QED
      BY <2>1, <2>2, <3>1, <3>3, <1>5, <1>6 DEF OfItsSource
  <2>3. CASE b # a
    BY <2>1, <2>3, <1>4, SamePartHolds
  <2>4. QED
    BY <2>2, <2>3
<1>8. ASSUME NEW p \in Packages \ asked.again PROVE Reclaims(k, p, disk[p])
  <2>1. CASE p = a
    BY <2>1, <1>6 DEF Reclaims
  <2>2. CASE p # a
    <3>1. Reclaims(l, p, disk[p]) /\ p \in LoaderApps
      BY DEF LoaderIInv, ChangedAreFree, LoaderApps
    <3>2. QED
      BY <2>2, <3>1, <1>4, SamePartHolds
  <2>3. QED
    BY <2>1, <2>2
<1>9. ASSUME NEW p \in Packages \ (asked.again \cup (asked.stale \ {a})),
             asked.changed \subseteq {p}, MayBeLoaded(p)
      PROVE  Returns(k, p, disk[p], Pending(p)')
  <2>1. CASE p = a
    <3>1. Reclaims(l, p, disk[p])
      BY <1>9 DEF LoaderIInv, ChangedAreFree
    <3>2. /\ SkillsOf(k, a) \cap ToSet(disk[a].skills) = {}
          /\ HostsOf(k, a) \cap HostNames(disk[a]) = {}
      BY <3>1, <2>1, <1>1, <1>5 DEF Reclaims
    <3>3. Pending(a)'
      BY <2>1
    <3>4. QED
      BY <2>1, <3>2, <3>3, <1>6 DEF Returns
  <2>2. CASE p # a
    <3>1. Returns(l, p, disk[p], Pending(p)) /\ p \in LoaderApps
      BY <1>9, <2>2 DEF LoaderIInv, AloneReturns, LoaderApps
    <3>2. Pending(p) => Pending(p)'
      BY <1>9
    <3>3. Returns(l, p, disk[p], Pending(p)')
      BY <3>1, <3>2 DEF Returns
    <3>4. QED
      BY <3>1, <3>3, <2>2, <1>4, SamePartHolds
  <2>3. QED
    BY <2>1, <2>2
<1>10. UnchangedAreKept'
  BY <1>1, <1>7 DEF UnchangedAreKept
<1>11. ChangedAreFree'
  BY <1>8 DEF ChangedAreFree
<1>12. AloneReturns'
  BY <1>9 DEF AloneReturns, MayBeLoaded
<1>13. QED
  BY <1>2, <1>3, <1>10, <1>11, <1>12

\* A package that changes for the first time was what it had declared.
LEMMA InstallKeeps ==
    ASSUME LoaderIInv, NEW p \in Packages, NEW m \in Manifests \cup {NoManifest}, Install(p, m)
    PROVE  UnchangedAreKept' /\ ChangedAreFree' /\ AloneReturns'
<1>1. /\ disk' = [disk EXCEPT ![p] = m] /\ disk \in [Packages -> Manifests \cup {NoManifest}]
      /\ loader' = loader /\ loading' = loading
      /\ asked'.changed = asked.changed \cup {p}
      /\ asked'.again = asked.again \cup ({p} \cap asked.changed)
      /\ asked'.stale = asked.stale \cup {p}
  BY DEF Install, LoaderIInv, LoaderTypes
<1>2. ASSUME NEW a \in LoaderApps \ asked'.changed
      PROVE  OfItsSource(loader', a, Source(a)')
  <2>1. OfItsSource(loader, a, Source(a))
    BY <1>1 DEF LoaderIInv, UnchangedAreKept
  <2>2. Source(a)' = Source(a)
    BY <1>1 DEF Source
  <2>3. QED
    BY <2>1, <2>2, <1>1
<1>3. ASSUME NEW q \in Packages \ asked'.again
      PROVE  Reclaims(loader', q, disk'[q])
  <2>1. CASE q # p
    <3>1. Reclaims(loader, q, disk[q]) /\ disk'[q] = disk[q]
      BY <2>1, <1>1 DEF LoaderIInv, ChangedAreFree
    <3>2. QED
      BY <3>1, <1>1
  <2>2. CASE q = p
    <3>1. p \in LoaderApps \ asked.changed /\ Source(p) = disk[p]
      BY <2>2, <1>1 DEF LoaderApps, Source
    <3>2. OfItsSource(loader, p, disk[p])
      BY <3>1 DEF LoaderIInv, UnchangedAreKept
    <3>3. QED
      BY <3>2, <2>2, <1>1 DEF OfItsSource, Reclaims
  <2>3. QED
    BY <2>1, <2>2
<1>4. UnchangedAreKept' /\ ChangedAreFree'
  BY <1>2, <1>3 DEF UnchangedAreKept, ChangedAreFree
<1>5. AloneReturns'
  BY <1>1 DEF AloneReturns
<1>6. QED
  BY <1>4, <1>5

\* Nothing but what is pending changes, or nothing that matters.
LEMMA OthersKeep ==
    ASSUME LoaderIInv, loader' = loader, disk' = disk, asked' = asked,
           \A p \in Packages : MayBeLoaded(p) /\ Pending(p) => Pending(p)'
    PROVE  /\ loader' \in LoaderStates /\ Agrees(loader')
           /\ UnchangedAreKept' /\ ChangedAreFree' /\ AloneReturns'
<1>1. loader' \in LoaderStates /\ Agrees(loader')
  BY DEF LoaderIInv, LoaderTypes
<1>2. UnchangedAreKept' /\ ChangedAreFree'
  BY DEF LoaderIInv, UnchangedAreKept, ChangedAreFree, Source
<1>3. ASSUME NEW p \in Packages \ (asked.again \cup asked.stale),
             asked.changed \subseteq {p}, MayBeLoaded(p)
      PROVE  Returns(loader, p, disk[p], Pending(p)')
  BY <1>3 DEF LoaderIInv, AloneReturns, Returns
<1>4. AloneReturns'
  BY <1>3 DEF AloneReturns, MayBeLoaded
<1>5. QED
  BY <1>1, <1>2, <1>4

-----------------------------------------------------------------------------
(* The steps of the loader *)

LEMMA ListPathKeeps ==
    ASSUME LoaderIInv, ListPath
    PROVE  LoaderIInv'
<1>1. /\ loading \in [lists : Nat, homes : [Homes -> Nat]] /\ loading.lists > 0
      /\ loading' = [lists |-> loading.lists - 1,
                     homes |-> [h \in Homes |->
                                  loading.homes[h]
                                    + (IF h # NoHome /\ disk[h] # NoManifest THEN 1 ELSE 0)]]
      /\ disk' = disk /\ loader' = loader /\ walk' = walk /\ asked' = asked
  BY DEF ListPath, LoaderIInv, LoaderTypes
<1>2. LoaderTypes'
  BY <1>1 DEF LoaderIInv, LoaderTypes
<1>3. ASSUME NEW p \in Packages, MayBeLoaded(p) PROVE Pending(p)'
  <2>1. p \in Homes /\ p # NoHome /\ disk[p] # NoManifest
    BY <1>3, LoaderAssumption DEF Homes, MayBeLoaded
  <2>2. loading'.homes[p] = loading.homes[p] + 1 /\ loading.homes[p] \in Nat
    BY <1>1, <2>1
  <2>3. QED
    BY <2>2 DEF Pending
<1>4. QED
  BY <1>1, <1>2, <1>3, OthersKeep DEF LoaderIInv

\* The walk of a notification stays over a list of apps.
LEMMA InPlaceTypes ==
    ASSUME LoaderTypes, NEW channel \in Seq(LoaderApps), InPlace(channel)
    PROVE  walk' \in [at : Nat, live : BOOLEAN, list : Seq(LoaderApps), stay : SUBSET LoaderApps,
                      told : [LoaderApps -> Nat]]
<1>1. walk \in [at : Nat, live : BOOLEAN, list : Seq(LoaderApps), stay : SUBSET LoaderApps,
                told : [LoaderApps -> Nat]]
  BY DEF LoaderTypes
<1>2. CASE walk.live
  BY <1>1, <1>2 DEF InPlace
<1>3. CASE ~walk.live
  BY <1>1, <1>3 DEF InPlace
<1>4. QED
  BY <1>2, <1>3

LEMMA LoadHomeKeeps ==
    ASSUME LoaderIInv, NEW h \in Homes, LoadHome(h)
    PROVE  LoaderIInv'
<1>1. /\ loading \in [lists : Nat, homes : [Homes -> Nat]] /\ loading.homes[h] > 0
      /\ loading' = [loading EXCEPT !.homes[h] = @ - 1] /\ disk' = disk /\ asked' = asked
  BY DEF LoadHome, LoaderIInv, LoaderTypes
<1>2. loading' \in [lists : Nat, homes : [Homes -> Nat]]
  <2>1. loading.homes[h] - 1 \in Nat
    BY <1>1
  <2>2. QED
    BY <1>1, <2>1
<1>3. \A p \in Packages : p # h /\ Pending(p) => Pending(p)'
  BY <1>1 DEF Pending, Homes
<1>4. CASE h = NoHome \/ disk[h] = NoManifest
  <2>1. loader' = loader /\ walk' = walk
    BY <1>4 DEF LoadHome
  <2>2. \A p \in Packages : MayBeLoaded(p) => p # h
    BY <1>4, LoaderAssumption DEF MayBeLoaded
  <2>3. /\ loader' \in LoaderStates /\ Agrees(loader')
        /\ UnchangedAreKept' /\ ChangedAreFree' /\ AloneReturns'
    BY <1>1, <1>3, <2>1, <2>2, OthersKeep
  <2>4. LoaderTypes'
    BY <1>1, <1>2, <2>1 DEF LoaderIInv, LoaderTypes
  <2>5. QED
    BY <2>3, <2>4 DEF LoaderIInv
<1>5. CASE h # NoHome /\ disk[h] # NoManifest
  <2>1. h \in Packages /\ h \in LoaderApps /\ Source(h) = disk[h]
    BY <1>5 DEF Homes, LoaderApps, Source
  <2>2. loader' = Populated(loader, h, Source(h)) /\ InPlace(loader'.channel)
    BY <1>5, <2>1 DEF LoadHome, LoadInto
  <2>3. /\ loader' \in LoaderStates /\ Agrees(loader')
        /\ UnchangedAreKept' /\ ChangedAreFree' /\ AloneReturns'
    BY <1>1, <1>3, <1>5, <2>1, <2>2, LoadKeeps
  <2>4. walk' \in [at : Nat, live : BOOLEAN, list : Seq(LoaderApps), stay : SUBSET LoaderApps,
                   told : [LoaderApps -> Nat]]
    BY <2>2, <2>3, InPlaceTypes DEF LoaderIInv, LoaderStates
  <2>5. LoaderTypes'
    BY <1>1, <1>2, <2>3, <2>4 DEF LoaderIInv, LoaderTypes
  <2>6. QED
    BY <2>3, <2>5 DEF LoaderIInv
<1>6. QED
  BY <1>4, <1>5

LEMMA RegisterKeeps ==
    ASSUME LoaderIInv, NEW d \in DbusApps, RegisterDbusApp(d)
    PROVE  LoaderIInv'
<1>1. /\ loader' = Populated(loader, d, DbusManifest(d)) /\ InPlace(loader'.channel)
      /\ disk' = disk /\ loading' = loading /\ asked' = [asked EXCEPT !.reloads = @ + 1]
  BY DEF RegisterDbusApp, LoadInto
<1>2. /\ asked \in [installs : Nat, reloads : Nat, changed : SUBSET Packages,
                    again : SUBSET Packages, stale : SUBSET Packages]
  BY DEF LoaderIInv, LoaderTypes
<1>3. /\ asked' \in [installs : Nat, reloads : Nat, changed : SUBSET Packages,
                     again : SUBSET Packages, stale : SUBSET Packages]
      /\ asked'.changed = asked.changed /\ asked'.again = asked.again
      /\ asked'.stale = asked.stale
  BY <1>1, <1>2
<1>4. d \in LoaderApps /\ Source(d) = DbusManifest(d) /\ Source(d) # NoManifest
  BY LoaderAssumption, SourceShape DEF LoaderApps, Source
<1>5. \A p \in Packages : Pending(p) => Pending(p)'
  BY <1>1 DEF Pending
<1>6. /\ loader' \in LoaderStates /\ Agrees(loader')
      /\ UnchangedAreKept' /\ ChangedAreFree' /\ AloneReturns'
  BY <1>1, <1>3, <1>4, <1>5, LoadKeeps
<1>7. walk' \in [at : Nat, live : BOOLEAN, list : Seq(LoaderApps), stay : SUBSET LoaderApps,
                 told : [LoaderApps -> Nat]]
  BY <1>1, <1>6, InPlaceTypes DEF LoaderIInv, LoaderStates
<1>8. LoaderTypes'
  BY <1>1, <1>3, <1>6, <1>7 DEF LoaderIInv, LoaderTypes
<1>9. QED
  BY <1>6, <1>8 DEF LoaderIInv

LEMMA ReloadKeeps ==
    ASSUME LoaderIInv, ReloadAll
    PROVE  LoaderIInv'
<1>1. /\ loader' = NothingLoaded /\ disk' = disk
      /\ loading' = [loading EXCEPT !.lists = @ + 1]
      /\ walk' = [walk EXCEPT !.live = FALSE, !.stay = {}]
      /\ asked' = [asked EXCEPT !.reloads = @ + 1, !.changed = {}, !.again = {}, !.stale = {}]
  BY DEF ReloadAll
<1>2. LoaderTypes
  BY DEF LoaderIInv
<1>3. /\ asked'.changed = {} /\ asked'.again = {} /\ asked'.stale = {}
      /\ loading'.lists = loading.lists + 1
  BY <1>1, <1>2 DEF LoaderTypes
<1>4. /\ loader' \in LoaderStates /\ Agrees(loader')
      /\ UnchangedAreKept' /\ ChangedAreFree' /\ AloneReturns'
  BY <1>1, <1>3, ReloadAllKeeps
<1>5. loading' \in [lists : Nat, homes : [Homes -> Nat]]
  <2>1. loading \in [lists : Nat, homes : [Homes -> Nat]]
    BY <1>2 DEF LoaderTypes
  <2>2. loading.lists + 1 \in Nat
    BY <2>1
  <2>3. QED
    BY <2>1, <2>2, <1>1
<1>6. walk' \in [at : Nat, live : BOOLEAN, list : Seq(LoaderApps), stay : SUBSET LoaderApps,
                 told : [LoaderApps -> Nat]]
  BY <1>1, <1>2 DEF LoaderTypes
<1>7. asked' \in [installs : Nat, reloads : Nat, changed : SUBSET Packages,
                  again : SUBSET Packages, stale : SUBSET Packages]
  <2>1. asked \in [installs : Nat, reloads : Nat, changed : SUBSET Packages,
                   again : SUBSET Packages, stale : SUBSET Packages]
    BY <1>2 DEF LoaderTypes
  <2>2. asked.reloads + 1 \in Nat /\ {} \in SUBSET Packages
    BY <2>1
  <2>3. QED
    BY <2>1, <2>2, <1>1
<1>8. LoaderTypes'
  BY <1>1, <1>2, <1>4, <1>5, <1>6, <1>7 DEF LoaderTypes
<1>9. QED
  BY <1>4, <1>8 DEF LoaderIInv

LEMMA ReloadAppKeeps ==
    ASSUME LoaderIInv, NEW a \in LoaderApps, ReloadApp(a)
    PROVE  LoaderIInv'
<1> DEFINE home == IF a \in Packages THEN a ELSE NoHome
<1>1. CASE ~Loaded(a)
  BY <1>1, ReloadKeeps DEF ReloadApp
<1>2. ASSUME Loaded(a) PROVE LoaderIInv'
  <2>1. /\ loader' = Unloaded(a) /\ disk' = disk
        /\ loading' = [loading EXCEPT !.homes[home] = @ + 1]
        /\ walk' = [walk EXCEPT !.list = IF walk.live THEN loader'.channel ELSE @,
                                !.stay = @ \ {a}]
        /\ asked' = [asked EXCEPT !.reloads = @ + 1, !.stale = @ \ {a}]
    BY <1>2 DEF ReloadApp
  <2>2. LoaderTypes /\ home \in Homes
    BY DEF LoaderIInv, Homes
  <2>3. asked' \in [installs : Nat, reloads : Nat, changed : SUBSET Packages,
                    again : SUBSET Packages, stale : SUBSET Packages]
        /\ asked'.changed = asked.changed /\ asked'.again = asked.again
        /\ asked'.stale = asked.stale \ {a}
    <3>1. asked \in [installs : Nat, reloads : Nat, changed : SUBSET Packages,
                     again : SUBSET Packages, stale : SUBSET Packages]
      BY <2>2 DEF LoaderTypes
    <3>2. asked.reloads + 1 \in Nat /\ asked.stale \ {a} \in SUBSET Packages
      BY <3>1
    <3>3. QED
      BY <3>1, <3>2, <2>1
  <2>4. loading' \in [lists : Nat, homes : [Homes -> Nat]]
    <3>1. loading \in [lists : Nat, homes : [Homes -> Nat]]
      BY <2>2 DEF LoaderTypes
    <3>2. loading.homes[home] + 1 \in Nat
      BY <3>1, <2>2
    <3>3. QED
      BY <3>1, <3>2, <2>1
  <2>5. (\A p \in Packages : Pending(p) => Pending(p)') /\ (a \in Packages => Pending(a)')
    <3>1. /\ loading \in [lists : Nat, homes : [Homes -> Nat]] /\ Packages \subseteq Homes
          /\ loading.homes[home] + 1 > 0
      BY <2>2 DEF LoaderTypes, Homes
    <3>2. loading'.lists = loading.lists
          /\ loading'.homes = [loading.homes EXCEPT ![home] = @ + 1]
      BY <2>1, <3>1
    <3>3. loading'.homes[home] = loading.homes[home] + 1
          /\ \A p \in Packages : p # home => loading'.homes[p] = loading.homes[p]
      BY <2>2, <3>1, <3>2
    <3>4. QED
      BY <3>1, <3>2, <3>3 DEF Pending
  <2>6. /\ loader' \in LoaderStates /\ Agrees(loader')
        /\ UnchangedAreKept' /\ ChangedAreFree' /\ AloneReturns'
    BY <1>2, <2>1, <2>3, <2>5, UnloadKeeps
  <2>7. walk' \in [at : Nat, live : BOOLEAN, list : Seq(LoaderApps), stay : SUBSET LoaderApps,
                   told : [LoaderApps -> Nat]]
    <3>1. loader'.channel \in Seq(LoaderApps)
      BY <2>6 DEF LoaderStates
    <3>2. (IF walk.live THEN loader'.channel ELSE walk.list) \in Seq(LoaderApps)
      BY <3>1, <2>2 DEF LoaderTypes
    <3>3. QED
      BY <3>2, <2>1, <2>2 DEF LoaderTypes
  <2>8. LoaderTypes'
    BY <2>1, <2>2, <2>3, <2>4, <2>6, <2>7 DEF LoaderTypes
  <2>9. QED
    BY <2>6, <2>8 DEF LoaderIInv
<1>3. QED
  BY <1>1, <1>2

LEMMA WalkKeeps ==
    ASSUME LoaderIInv, StartWalk \/ StepWalk \/ WalkEnds \/ UNCHANGED loaderVars
    PROVE  LoaderIInv'
<1>1. loader' = loader /\ disk' = disk /\ loading' = loading /\ asked' = asked
  BY DEF StartWalk, StepWalk, WalkEnds, loaderVars
<1>2. LoaderTypes /\ loader.channel \in Seq(LoaderApps)
  BY DEF LoaderIInv, LoaderTypes, LoaderStates
<1>3. walk' \in [at : Nat, live : BOOLEAN, list : Seq(LoaderApps), stay : SUBSET LoaderApps,
                 told : [LoaderApps -> Nat]]
  <2>1. CASE StartWalk
    <3>1. ToSet(loader.channel) \subseteq LoaderApps
      BY <1>2, LenProperties, ElementOfSeq DEF ToSet
    <3>2. QED
      BY <2>1, <3>1, <1>2 DEF StartWalk
  <2>2. CASE StepWalk
    <3>1. /\ walk \in [at : Nat, live : BOOLEAN, list : Seq(LoaderApps),
                       stay : SUBSET LoaderApps, told : [LoaderApps -> Nat]]
      BY <1>2 DEF LoaderTypes
    <3>2. walk.at > 0 /\ walk.at <= Len(walk.list)
          /\ walk' = [walk EXCEPT !.at = @ + 1, !.told[walk.list[walk.at]] = @ + 1]
      BY <2>2 DEF StepWalk
    <3>3. walk.list[walk.at] \in LoaderApps
      BY <3>1, <3>2, LenProperties, ElementOfSeq
    <3>4. walk.told[walk.list[walk.at]] + 1 \in Nat /\ walk.at + 1 \in Nat
      BY <3>1, <3>3
    <3>5. QED
      BY <3>1, <3>2, <3>3, <3>4
  <2>3. CASE WalkEnds
    <3>1. <<>> \in Seq(LoaderApps)
      BY EmptySeq
    <3>2. QED
      BY <2>3, <3>1 DEF WalkEnds
  <2>4. CASE UNCHANGED loaderVars
    BY <2>4, <1>2 DEF loaderVars, LoaderTypes
  <2>5. QED
    BY <2>1, <2>2, <2>3, <2>4
<1>4. LoaderTypes'
  BY <1>1, <1>2, <1>3 DEF LoaderTypes
<1>5. \A p \in Packages : Pending(p) => Pending(p)'
  BY <1>1 DEF Pending
<1>6. QED
  BY <1>1, <1>4, <1>5, OthersKeep DEF LoaderIInv

LEMMA InstallTypes ==
    ASSUME LoaderIInv, NEW p \in Packages, NEW m \in Manifests \cup {NoManifest}, Install(p, m)
    PROVE  LoaderIInv'
<1>1. /\ disk' = [disk EXCEPT ![p] = m] /\ loader' = loader /\ loading' = loading /\ walk' = walk
      /\ asked' = [asked EXCEPT !.installs = @ + 1, !.changed = @ \cup {p},
                                !.again = @ \cup ({p} \cap asked.changed), !.stale = @ \cup {p}]
  BY DEF Install
<1>2. LoaderTypes /\ Agrees(loader)
  BY DEF LoaderIInv
<1>3. LoaderTypes'
  <2>1. /\ disk \in [Packages -> Manifests \cup {NoManifest}]
        /\ asked \in [installs : Nat, reloads : Nat, changed : SUBSET Packages,
                      again : SUBSET Packages, stale : SUBSET Packages]
    BY <1>2 DEF LoaderTypes
  <2>2. disk' \in [Packages -> Manifests \cup {NoManifest}]
    BY <2>1, <1>1
  <2>3. asked' \in [installs : Nat, reloads : Nat, changed : SUBSET Packages,
                    again : SUBSET Packages, stale : SUBSET Packages]
    <3>1. /\ asked.installs + 1 \in Nat /\ asked.changed \cup {p} \in SUBSET Packages
          /\ asked.again \cup ({p} \cap asked.changed) \in SUBSET Packages
          /\ asked.stale \cup {p} \in SUBSET Packages
      BY <2>1
    <3> DEFINE changed == asked.changed \cup {p}
               again == asked.again \cup ({p} \cap asked.changed)
               stale == asked.stale \cup {p}
    <3>2. asked' = [asked EXCEPT !.installs = @ + 1, !.changed = changed, !.again = again,
                                 !.stale = stale]
      BY <1>1, <2>1
    <3> HIDE DEF changed, again, stale
    <3>3. QED
      BY <3>1, <3>2, <2>1 DEF changed, again, stale
  <2>4. QED
    BY <2>2, <2>3, <1>1, <1>2 DEF LoaderTypes
<1>4. QED
  BY <1>1, <1>2, <1>3, InstallKeeps DEF LoaderIInv

-----------------------------------------------------------------------------
LEMMA LoaderStarts ==
    ASSUME LoaderInit
    PROVE  LoaderIInv
<1>1. /\ disk \in [Packages -> Manifests] /\ loader = NothingLoaded
      /\ loading = [lists |-> 1, homes |-> [h \in Homes |-> 0]]
      /\ walk = [at |-> 0, live |-> FALSE, list |-> <<>>, stay |-> {},
                 told |-> [a \in LoaderApps |-> 0]]
      /\ asked = [installs |-> 0, reloads |-> 0, changed |-> {}, again |-> {}, stale |-> {}]
  BY DEF LoaderInit
<1>2. loader \in LoaderStates /\ Agrees(loader)
  BY <1>1, NothingIs
<1>3. <<>> \in Seq(LoaderApps) /\ Packages \subseteq LoaderApps
  BY EmptySeq DEF LoaderApps
<1>4. LoaderTypes
  BY <1>1, <1>2, <1>3 DEF LoaderTypes
<1>5. UnchangedAreKept /\ ChangedAreFree
  BY <1>1, <1>3, NothingIs DEF UnchangedAreKept, ChangedAreFree
<1>6. \A p \in Packages : Pending(p) = TRUE
  BY <1>1 DEF Pending
<1>7. AloneReturns
  <2>1. \A p \in Packages : \A m : Returns(loader, p, m, Pending(p))
    BY <1>1, <1>3, <1>6, NothingIs DEF Returns
  <2>2. QED
    BY <2>1 DEF AloneReturns
<1>8. QED
  BY <1>2, <1>4, <1>5, <1>7 DEF LoaderIInv

LEMMA LoaderSteps ==
    ASSUME LoaderIInv, [LoaderNext]_loaderVars
    PROVE  LoaderIInv'
<1>1. CASE ListPath
  BY <1>1, ListPathKeeps
<1>2. CASE Reload
  BY <1>2, ReloadKeeps DEF Reload
<1>3. CASE StartWalk \/ StepWalk \/ WalkEnds \/ UNCHANGED loaderVars
  BY <1>3, WalkKeeps
<1>4. CASE \E h \in Homes : LoadHome(h)
  BY <1>4, LoadHomeKeeps
<1>5. CASE \E a \in LoaderApps : ReloadApp(a)
  BY <1>5, ReloadAppKeeps
<1>6. CASE \E d \in DbusApps : RegisterDbusApp(d)
  BY <1>6, RegisterKeeps
<1>7. CASE \E p \in Packages, m \in Manifests \cup {NoManifest} : Install(p, m)
  BY <1>7, InstallTypes
<1>8. QED
  BY <1>1, <1>2, <1>3, <1>4, <1>5, <1>6, <1>7 DEF LoaderNext

\* What was to be shown is part of the invariant.
LEMMA LoaderAsPromised ==
    ASSUME LoaderIInv
    PROVE  LoaderInv
<1>1. LoaderTypes /\ Agrees(loader) /\ UnchangedAreKept /\ AloneReturns
  BY DEF LoaderIInv
<1>2. LoaderTypeOK
  <2>1. /\ DOMAIN loader.owner = Skills \cup DbusApps /\ DOMAIN loader.hosts = Hosts
        /\ \A s \in DOMAIN loader.owner : loader.owner[s] \in LoaderApps \cup {NoOwner}
        /\ loader.channel \in Seq(LoaderApps) /\ DOMAIN loader.manifests = LoaderApps
    BY <1>1 DEF LoaderTypes, LoaderStates
  <2>2. QED
    BY <1>1, <2>1 DEF LoaderTypes, LoaderTypeOK
<1>3. LoadedIsReachable
  <2>1. SUFFICES ASSUME NEW a \in LoaderApps, loader.manifests[a] # NoManifest, NEW m,
                        m = loader.manifests[a]
                 PROVE  /\ \A s \in ToSet(m.skills) : loader.owner[s] = a
                        /\ \A h \in ToSet(m.hosts) : loader.hosts[h[1]] = h[2]
                                                     /\ loader.owner[h[2]] = a
                        /\ Entries(loader.channel, a) >= Entries(m.notes, Channel)
                        /\ a \notin asked.changed =>
                              Entries(loader.channel, a) = Entries(m.notes, Channel)
    BY DEF LoadedIsReachable, Loaded
  <2>2. a \notin asked.changed => OfItsSource(loader, a, Source(a))
    BY <1>1 DEF UnchangedAreKept
  <2>3. QED
    BY <1>1, <2>1, <2>2 DEF Agrees, OfItsSource
<1>4. UnrivalledIsLoaded
  <2>1. SUFFICES ASSUME AllRead, NEW p \in Packages \ asked.again,
                        asked.changed \subseteq {p}, MayBeLoaded(p)
                 PROVE  loader.manifests[p] = disk[p]
    BY DEF UnrivalledIsLoaded, IsLoaded
  <2>2. asked.stale = {} /\ ~Pending(p)
    BY <2>1 DEF AllRead, Pending, Homes
  <2>3. Returns(loader, p, disk[p], Pending(p))
    BY <1>1, <2>1, <2>2 DEF AloneReturns
  <2>4. QED
    BY <2>2, <2>3 DEF Returns
<1>5. QED
  BY <1>2, <1>3, <1>4 DEF LoaderInv

\* Whatever is loaded can be found, and what has no rival is loaded in the end,
\* for all packages, manifests and bounds.
THEOREM LoadedAndReachable == LoaderSpec => []LoaderInv
<1>1. LoaderInit => LoaderIInv
  BY LoaderStarts
<1>2. LoaderIInv /\ [LoaderNext]_loaderVars => LoaderIInv'
  BY LoaderSteps
<1>3. LoaderIInv => LoaderInv
  BY LoaderAsPromised
<1>4. QED
  BY <1>1, <1>2, <1>3, PTL DEF LoaderSpec
=============================================================================
