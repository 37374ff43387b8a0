------------------------------- MODULE Turen -------------------------------
(***************************************************************************)
(* The voice session (runtime/lib/component/turen.js): what the events of  *)
(* the speech engine, two timers and the pickups of the runtime do to the  *)
(* flag awaken, to the wake-up engine and to what was paused when the      *)
(* device was spoken to.                                                   *)
(*                                                                         *)
(* The engine (turenproc and the speech service) is external: a session    *)
(* that was heard may stay silent, one that is listened to ends with a     *)
(* result, an error, a rejection or a fake.  Sessions carry no number, so  *)
(* a late result belongs to whatever session is on.  Lights and the text   *)
(* of what is recognized are left out.                                     *)
(***************************************************************************)
EXTENDS Naturals

CONSTANTS
    FrontApps,  \* apps that can be on top of the stack
    Listeners,  \* apps that use the turen descriptor
    Reasons,    \* for which the runtime can be disabled
    MaxWakes,   \* bound: sessions begun by voice or by pickup
    Operations  \* what is done to the session besides speaking; late: what was
                \* heard before the engine was told not to

NoApp == "no app"

ASSUME TurenAssumption ==
    /\ NoApp \notin FrontApps
    /\ MaxWakes \in Nat
    /\ Operations \subseteq {"open", "close", "delegate", "mute", "disable", "app",
                       "complete", "late"}

VARIABLES
    turen,         \* the fields of Turen, and what it controls
    waiting,       \* promises not yet settled, by what waits for them
    engine,        \* the speech engine
    reasons,       \* the runtime's __temporaryDisablingReasons
    shouldRecover, \* apps whose descriptor enables the engine on destruct
    front          \* lifetime.getCurrentAppId()

outside == <<reasons, shouldRecover, front>>
turenVars == <<turen, waiting, engine, outside>>

Count == 0 .. 2 * MaxWakes  \* a session may fail at its timer and by an error

TurenState ==
    [muted : BOOLEAN, enabled : BOOLEAN, awaken : BOOLEAN, lastFaked : BOOLEAN,
     asrState : {"end", "pending", "accept", "reject", "fake"},
     pickingUp : BOOLEAN, pickingUpDiscardNext : BOOLEAN,
     appIdOnVoiceComing : FrontApps \cup {NoApp},
     solitary : BOOLEAN, noVoice : BOOLEAN,  \* the timers
     held : BOOLEAN,         \* the lifetime is paused
     interrupted : BOOLEAN,  \* speech and media are paused for the session
     opened : BOOLEAN]       \* picked up, and neither closed nor enabled since

\* closing: of the lags those that close a cut app when they settle
Waiting == [delegation : Count, dispatch : Count, lag : Count, closing : Count]
Engine == [phase : {"idle", "heard", "listening"}, owed : Count, wakes : Count]

TurenTypeOK ==
    /\ turen \in TurenState
    /\ waiting \in Waiting
    /\ engine \in Engine
    /\ reasons \subseteq Reasons
    /\ shouldRecover \subseteq Listeners
    /\ front \in FrontApps \cup {NoApp}

TurenAtStart ==
    [muted |-> FALSE, enabled |-> TRUE, awaken |-> FALSE, lastFaked |-> FALSE,
     asrState |-> "end", pickingUp |-> FALSE, pickingUpDiscardNext |-> FALSE,
     appIdOnVoiceComing |-> NoApp, solitary |-> FALSE, noVoice |-> FALSE,
     held |-> FALSE, interrupted |-> FALSE, opened |-> FALSE]

TurenInit ==
    /\ turen = TurenAtStart
    /\ waiting = [delegation |-> 0, dispatch |-> 0, lag |-> 0, closing |-> 0]
    /\ engine = [phase |-> "idle", owed |-> 0, wakes |-> 0]
    /\ reasons = {} /\ shouldRecover = {}
    /\ front \in FrontApps \cup {NoApp}

-----------------------------------------------------------------------------
(* Operations: what a method makes of the state t of Turen. *)

ShouldHandleEvent == ~turen.muted /\ reasons = {}

\* (slip: the lifetime is resumed only where apps are to recover)
ResetAwakenHolding(t, recover) ==
    IF t.awaken
    THEN [t EXCEPT !.awaken = FALSE, !.held = @ /\ ~recover, !.interrupted = @ /\ ~recover,
                   !.solitary = FALSE, !.noVoice = FALSE]
    ELSE t

ResetAwaken(t, recover) ==
    IF t.awaken
    THEN [t EXCEPT !.awaken = FALSE, !.held = FALSE, !.interrupted = @ /\ ~recover,
                   !.solitary = FALSE, !.noVoice = FALSE]
    ELSE t

\* recoverPausedOnAwaken or resetPausedOnAwaken: paused media goes on, or not.
SettlePaused(t) == [t EXCEPT !.interrupted = FALSE]

SetAwaken(t) ==
    [t EXCEPT !.awaken = TRUE, !.held = TRUE, !.interrupted = TRUE,
              !.solitary = TRUE, !.noVoice = FALSE,
              !.appIdOnVoiceComing = front, !.pickingUpDiscardNext = FALSE]

ToggleEngine(t, on) == [t EXCEPT !.enabled = on, !.opened = @ /\ ~on]

Pickup(t, open, discardNext) ==
    [t EXCEPT !.pickingUpDiscardNext = discardNext /\ ~open,
              !.appIdOnVoiceComing = IF open THEN NoApp ELSE @,
              !.enabled = ~open, !.opened = open,
              !.solitary = @ /\ open, !.noVoice = @ /\ open]

\* An error of the speech service.  Unless the session was discarded or the
\* network is not prepared, it is settled after the sound that announces it.
AwaitsLag(prepared) == prepared /\ ~turen.pickingUpDiscardNext

HandleSpeechError(t, prepared) ==
    IF AwaitsLag(prepared)
    THEN t
    ELSE ResetAwaken([t EXCEPT !.pickingUpDiscardNext = FALSE], TRUE)

\* Whether an app is to be closed then is decided now.
WaitForLag ==
    waiting' = [waiting EXCEPT !.lag = @ + 1,
                               !.closing = IF turen.appIdOnVoiceComing # NoApp THEN @ + 1 ELSE @]

-----------------------------------------------------------------------------
(* Events of the engine *)

\* The delegates of turenDidWakeUp decide later whether the session begins.
VoiceComing ==
    /\ engine.wakes < MaxWakes
    /\ "late" \in Operations \/ (turen.enabled /\ ~turen.muted)
    /\ engine' = [engine EXCEPT !.wakes = @ + 1, !.phase = "heard"]
    /\ turen' = [turen EXCEPT !.lastFaked = FALSE]
    /\ waiting' = [waiting EXCEPT !.delegation = @ + (IF ShouldHandleEvent THEN 1 ELSE 0)]
    /\ UNCHANGED outside

\* A delegate that takes the wake-up, custodian's or battery's, closes the
\* microphone.
WakeUpDelegated(delegation) ==
    /\ waiting.delegation > 0
    /\ delegation => "delegate" \in Operations
    /\ waiting' = [waiting EXCEPT !.delegation = @ - 1]
    /\ turen' = IF delegation THEN Pickup(turen, FALSE, TRUE) ELSE SetAwaken(turen)
    /\ UNCHANGED <<engine, outside>>

AsrProgress(state) ==
    /\ engine.phase # "idle"
    /\ engine' = [engine EXCEPT !.phase = "listening"]
    /\ turen' = [turen EXCEPT !.asrState = state, !.solitary = FALSE, !.noVoice = TRUE]
    /\ UNCHANGED <<waiting, outside>>

AsrEnd ==
    /\ engine.phase = "listening"
    /\ engine' = [engine EXCEPT !.phase = "idle", !.owed = @ + 1]
    /\ turen' = [turen EXCEPT !.asrState = "end", !.noVoice = FALSE]
    /\ UNCHANGED <<waiting, outside>>

AsrReject ==
    /\ engine.phase # "idle"
    /\ engine' = [engine EXCEPT !.phase = "idle"]
    /\ turen' = ResetAwaken([turen EXCEPT !.asrState = "reject"], TRUE)
    /\ UNCHANGED <<waiting, outside>>

\* The result of a fake may come nevertheless.
AsrFake ==
    /\ engine.phase # "idle"
    /\ \E late \in {0, 1} : engine' = [engine EXCEPT !.phase = "idle", !.owed = @ + late]
    /\ turen' = ResetAwaken([turen EXCEPT !.asrState = "fake", !.noVoice = FALSE,
                                          !.lastFaked = TRUE], TRUE)
    /\ UNCHANGED <<waiting, outside>>

StartOrEndVoice(picking) ==
    /\ picking = (engine.phase # "idle") /\ turen.pickingUp # picking
    /\ turen' = [turen EXCEPT !.pickingUp = picking]
    /\ UNCHANGED <<waiting, engine, outside>>

ResultComes ==
    /\ engine.owed > 0
    /\ engine' = [engine EXCEPT !.owed = @ - 1]
    /\ UNCHANGED outside

SkipFakedResult ==
    /\ ResultComes
    /\ turen.lastFaked
    /\ turen' = [turen EXCEPT !.lastFaked = FALSE]
    /\ UNCHANGED waiting

DiscardResult ==
    /\ ResultComes
    /\ ~turen.lastFaked /\ turen.pickingUpDiscardNext
    /\ turen' = [turen EXCEPT !.pickingUpDiscardNext = FALSE]
    /\ UNCHANGED waiting

NlpResult ==
    /\ ResultComes
    /\ ~turen.lastFaked /\ ~turen.pickingUpDiscardNext
    /\ IF ShouldHandleEvent
       THEN /\ turen' = ResetAwaken(turen, FALSE)
            /\ waiting' = [waiting EXCEPT !.dispatch = @ + 1]
       ELSE /\ turen' = SettlePaused(ResetAwaken(turen, FALSE))
            /\ UNCHANGED waiting

\* What cannot be parsed is answered by an app if the network is prepared.
MaliciousNlpResult(prepared) ==
    /\ ResultComes
    /\ ~turen.lastFaked
    /\ turen' = IF turen.pickingUpDiscardNext \/ ~prepared
                THEN ResetAwaken([turen EXCEPT !.pickingUpDiscardNext = FALSE], TRUE)
                ELSE SettlePaused(ResetAwaken(turen, FALSE))
    /\ UNCHANGED waiting

\* (slip: what the dispatch did not take stays paused)
SettleTaken(success) ==
    /\ waiting.dispatch > 0
    /\ waiting' = [waiting EXCEPT !.dispatch = @ - 1]
    /\ turen' = IF success THEN SettlePaused(turen) ELSE turen
    /\ UNCHANGED <<engine, outside>>

\* The intent was dispatched or not, or its dispatch failed.
IntentSettles(success) ==
    /\ waiting.dispatch > 0
    /\ waiting' = [waiting EXCEPT !.dispatch = @ - 1]
    /\ turen' = SettlePaused(turen)
    /\ UNCHANGED <<engine, outside>>

\* Instead of a result or of what is being heard.
SpeechError(prepared) ==
    /\ \/ engine.owed > 0 /\ engine' = [engine EXCEPT !.owed = @ - 1]
       \/ engine.phase = "listening" /\ engine' = [engine EXCEPT !.phase = "idle"]
    /\ turen' = HandleSpeechError(turen, prepared)
    /\ IF AwaitsLag(prepared) THEN WaitForLag ELSE UNCHANGED waiting
    /\ UNCHANGED outside

\* deactivateCutApp is told appIdOnVoiceComing as it is by then, and takes the
\* app in front, whatever it is, when it is told none.
DeactivatesFront == front # NoApp /\ turen.appIdOnVoiceComing \in {NoApp, front}

LagSettles ==
    /\ \/ /\ waiting.closing > 0
          /\ waiting' = [waiting EXCEPT !.lag = @ - 1, !.closing = @ - 1]
          /\ front' = IF DeactivatesFront THEN NoApp ELSE front
       \/ /\ waiting.lag > waiting.closing
          /\ waiting' = [waiting EXCEPT !.lag = @ - 1]
          /\ UNCHANGED front
    /\ turen' = ResetAwaken(turen, TRUE)
    /\ UNCHANGED <<engine, reasons, shouldRecover>>

SolitaryTimerFires(prepared) ==
    LET closed == Pickup(turen, FALSE, FALSE)
    IN  /\ turen.solitary
        /\ turen' = IF turen.awaken /\ ~prepared THEN ResetAwaken(closed, TRUE) ELSE closed
        /\ IF turen.awaken /\ prepared THEN WaitForLag ELSE UNCHANGED waiting
        /\ UNCHANGED <<engine, outside>>

NoVoiceTimerFires ==
    /\ turen.noVoice
    /\ turen' = Pickup(turen, FALSE, FALSE)
    /\ UNCHANGED <<waiting, engine, outside>>

\* 'rokid.speech.completed'
SpeechCompleted ==
    /\ "complete" \in Operations
    /\ engine.phase = "idle" /\ ~turen.enabled
    /\ turen' = ToggleEngine(turen, TRUE)
    /\ UNCHANGED <<waiting, engine, outside>>

-----------------------------------------------------------------------------
(* What the runtime and the apps do to the session *)

OpenMicrophone ==
    /\ "open" \in Operations
    /\ ~turen.muted /\ ~turen.pickingUp /\ engine.wakes < MaxWakes
    /\ turen' = Pickup(turen, TRUE, TRUE)
    /\ engine' = [engine EXCEPT !.phase = "heard", !.wakes = @ + 1]
    /\ UNCHANGED <<waiting, outside>>

CloseMicrophone ==
    /\ "close" \in Operations
    /\ turen' = Pickup(turen, FALSE, TRUE)
    /\ UNCHANGED <<waiting, engine, outside>>

ToggleMute(mute) ==
    /\ "mute" \in Operations
    /\ turen' = LET t == [turen EXCEPT !.muted = mute]
                IN  IF t.asrState = "pending" /\ mute THEN ResetAwaken(t, TRUE) ELSE t
    /\ UNCHANGED <<waiting, engine, outside>>

Disabled(reason) ==
    /\ reason \notin reasons
    /\ reasons' = reasons \cup {reason}
    /\ turen' = [turen EXCEPT !.enabled = FALSE]

DisableRuntimeFor(reason) ==
    /\ "disable" \in Operations
    /\ Disabled(reason)
    /\ UNCHANGED <<waiting, engine, shouldRecover, front>>

Enabled(reason) ==
    /\ reason \in reasons
    /\ reasons' = reasons \ {reason}
    /\ turen' = IF reasons = {reason} THEN ToggleEngine(turen, TRUE) ELSE turen

EnableRuntimeFor(reason) ==
    /\ Enabled(reason)
    /\ UNCHANGED <<waiting, engine, shouldRecover, front>>

SetEnabled(a, on) ==
    /\ "app" \in Operations
    /\ turen' = ToggleEngine(turen, on)
    /\ shouldRecover' = IF on THEN shouldRecover \ {a} ELSE shouldRecover \cup {a}
    /\ UNCHANGED <<waiting, engine, reasons, front>>

Destruct(a) ==
    /\ a \in shouldRecover
    /\ turen' = ToggleEngine(turen, TRUE)
    /\ shouldRecover' = shouldRecover \ {a}
    /\ UNCHANGED <<waiting, engine, reasons, front>>

FrontChanges(a) ==
    /\ "app" \in Operations
    /\ front' = a
    /\ UNCHANGED <<turen, waiting, engine, reasons, shouldRecover>>

-----------------------------------------------------------------------------
EngineAnswers ==
    \/ AsrEnd
    \/ SkipFakedResult \/ DiscardResult \/ NlpResult
    \/ \E prepared \in BOOLEAN : MaliciousNlpResult(prepared) \/ SpeechError(prepared)

Settles ==
    \/ \E yes \in BOOLEAN : WakeUpDelegated(yes) \/ IntentSettles(yes)
    \/ LagSettles

TurenTimers == NoVoiceTimerFires \/ \E prepared \in BOOLEAN : SolitaryTimerFires(prepared)

TurenNext ==
    \/ VoiceComing
    \/ \E state \in {"pending", "accept"} : AsrProgress(state)
    \/ AsrReject \/ AsrFake
    \/ \E picking \in BOOLEAN : StartOrEndVoice(picking)
    \/ EngineAnswers \/ Settles \/ TurenTimers
    \/ SpeechCompleted
    \/ OpenMicrophone \/ CloseMicrophone
    \/ \E mute \in BOOLEAN : ToggleMute(mute)
    \/ \E reason \in Reasons : DisableRuntimeFor(reason) \/ EnableRuntimeFor(reason)
    \/ \E a \in Listeners : Destruct(a) \/ \E on \in BOOLEAN : SetEnabled(a, on)
    \/ \E a \in FrontApps \cup {NoApp} : FrontChanges(a)

TurenSpec == TurenInit /\ [][TurenNext]_turenVars

\* The engine ends what it listens to and answers, promises settle, timers
\* fire; nobody need speak, and an engine that heard a voice may say no more.
TurenFairness ==
    /\ WF_turenVars(EngineAnswers)
    /\ WF_turenVars(Settles)
    /\ WF_turenVars(TurenTimers)

-----------------------------------------------------------------------------
(* Properties *)

\* The lifetime is paused exactly while the device is awaken: no apps that
\* come and go during the session recover others, and afterwards they do.
LifetimeHeld == turen.held = turen.awaken

\* The timer that gives up a session which stays silent runs in a session
\* only: it would close a microphone opened later and end another session.
SolitaryInSession == turen.solitary => turen.awaken

\* The device does not go deaf: the wake-up engine is off only as long as the
\* runtime is disabled, the microphone is open, or an app that is alive
\* wanted it off, and so is enabled in the end whoever disabled it.
NeverDeaf ==
    turen.enabled \/ reasons # {} \/ turen.opened \/ shouldRecover # {}

\* Every session that begins ends, and what was paused for it is told to go
\* on or is given up.
SessionSettles == turen.awaken ~> ~turen.awaken /\ ~turen.interrupted

\* "Effects: Turen wake up engine would be disabled."
DisabledIsDeaf == reasons # {} => ~turen.enabled

\* "manually pick up should not close cut app on speech error": the app a lag
\* takes off is the one that was in front when the voice was coming.
ClosesTheAppSpokenTo ==
    [][waiting'.lag < waiting.lag /\ front' # front => turen.appIdOnVoiceComing = front]_turenVars

\* A session leaves nothing behind: no pause of the lifetime, no timer, no
\* engine that is off, however it ended.
TurenInv == TurenTypeOK /\ LifetimeHeld /\ SolitaryInSession /\ NeverDeaf
=============================================================================
