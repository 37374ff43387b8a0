----------------------------- MODULE AppRuntime -----------------------------
(***************************************************************************)
(* The runtime (runtime/lib/app-runtime.js): its start, the welcome after  *)
(* a log-in, hibernation, and the reasons for which it is disabled, each   *)
(* of which has a hand on the wake-up engine and the microphone of Turen.  *)
(* Sounds, delegations and log-ins take time; voice and keys come in       *)
(* between.  Lights, the cloud stack and services are left out, custodian  *)
(* is cut down to whether the network is being configured.                 *)
(***************************************************************************)
EXTENDS Turen

CONSTANTS
    MaxLogins,  \* bound: log-ins attempted
    MaxSleeps,  \* bound: hibernations
    MaxResets   \* bound: resets of the network

ASSUME RuntimeAssumption ==
    /\ MaxLogins \in Nat /\ MaxSleeps \in Nat /\ MaxResets \in Nat
    /\ {"initiating", "welcoming", "hibernated"} \subseteq Reasons

VARIABLES
    boot,     \* how far init is
    login,    \* the lock of the singleton, and how far the log-in is
    welcome,  \* how far the welcome after a log-in is
    runtime   \* its flags, and counters

runtimeVars == <<turenVars, boot, login, welcome, runtime>>
own == <<boot, login, welcome, runtime>>

RuntimeState ==
    [hibernated : BOOLEAN, shouldWelcome : BOOLEAN, loggedIn : BOOLEAN,
     resetting : BOOLEAN,                   \* resetNetwork waits for apps to end
     configuring : BOOLEAN,                 \* custodian.isConfiguringNetwork()
     networkPrepared : BOOLEAN,             \* prepareNetwork has been called
     logins : 0 .. MaxLogins, sleeps : 0 .. MaxSleeps, resets : 0 .. MaxResets,
     grants : Nat, welcomes : Nat]          \* shouldWelcome was set, was used

RuntimeTypeOK ==
    /\ TurenTypeOK
    /\ boot \in {"loading", "deciding", "first boot", "boot sound", "end", "done"}
    /\ login \in {"none", "connecting"}
    /\ welcome \in SUBSET {"deciding", "sound"}
    /\ runtime \in RuntimeState

\* As init leaves it when it starts to load apps.
OwnInit ==
    /\ boot = "loading" /\ login = "none" /\ welcome = {}
    /\ runtime \in [hibernated : {FALSE}, shouldWelcome : BOOLEAN, loggedIn : {FALSE},
                    resetting : {FALSE}, configuring : {FALSE}, networkPrepared : {FALSE},
                    logins : {0}, sleeps : {0}, resets : {0}, grants : {1}, welcomes : {0}]

RuntimeInit ==
    /\ turen = TurenAtStart
    /\ waiting = [delegation |-> 0, dispatch |-> 0, lag |-> 0, closing |-> 0]
    /\ engine = [phase |-> "idle", owed |-> 0, wakes |-> 0]
    /\ reasons = {"initiating"} /\ shouldRecover = {} /\ front = NoApp
    /\ OwnInit

\* What the runtime leaves alone of Turen's world.
rest == <<waiting, engine, shouldRecover, front>>

\* disableRuntimeFor and enableRuntimeFor do nothing the second time.
DisableFor(reason) ==
    IF reason \in reasons THEN UNCHANGED <<reasons, turen>> ELSE Disabled(reason)

\* (slip: whoever enables the runtime, enables it whatever the reasons)
EnableWholly(reason) ==
    IF reason \in reasons THEN reasons' = {} /\ turen' = ToggleEngine(turen, TRUE)
                          ELSE UNCHANGED <<reasons, turen>>

EnableFor(reason) ==
    IF reason \in reasons THEN Enabled(reason) ELSE UNCHANGED <<reasons, turen>>

Muted(t, mute) ==
    IF t.asrState = "pending" /\ mute
    THEN ResetAwaken([t EXCEPT !.muted = mute], TRUE)
    ELSE [t EXCEPT !.muted = mute]

-----------------------------------------------------------------------------
(* init *)

\* A start that was interrupted by another reason goes no further.
ShouldBreakInit(R) == R # {} /\ R # {"welcoming"}

AppsLoaded ==
    /\ boot = "loading"
    /\ boot' = "deciding"
    /\ EnableFor("initiating")
    /\ UNCHANGED <<rest, login, welcome, runtime>>

\* delegate('runtimeDidInit')
InitDelegated(delegation, firstBoot) ==
    /\ boot = "deciding"
    /\ IF delegation
       THEN boot' = "done" /\ UNCHANGED <<reasons, turen>>
       ELSE /\ boot' = IF firstBoot THEN "first boot" ELSE "boot sound"
            /\ DisableFor("welcoming")
    /\ UNCHANGED <<rest, login, welcome, runtime>>

\* The sound of the first boot is over, was skipped, or could not be played.
FirstBootSound(played) ==
    /\ boot = "first boot"
    /\ ShouldBreakInit(reasons) => played
    /\ IF played
       THEN boot' = "boot sound" /\ UNCHANGED <<reasons, turen>>
       ELSE boot' = "done" /\ EnableFor("welcoming")
    /\ UNCHANGED <<rest, login, welcome, runtime>>

BootSound(played) ==
    /\ boot = "boot sound"
    /\ ~runtime.shouldWelcome \/ ShouldBreakInit(reasons) => played
    /\ IF played
       THEN boot' = "end" /\ UNCHANGED <<reasons, turen>>
       ELSE boot' = "done" /\ EnableFor("welcoming")
    /\ UNCHANGED <<rest, login, welcome, runtime>>

BootEnds ==
    /\ boot = "end"
    /\ boot' = "done"
    /\ EnableFor("welcoming")
    /\ runtime' = [runtime EXCEPT !.networkPrepared = @ \/ ~ShouldBreakInit(reasons')]
    /\ UNCHANGED <<rest, login, welcome>>

BootNext ==
    \/ AppsLoaded
    \/ \E delegation, firstBoot \in BOOLEAN : InitDelegated(delegation, firstBoot)
    \/ \E played \in BOOLEAN : FirstBootSound(played) \/ BootSound(played)
    \/ BootEnds

-----------------------------------------------------------------------------
(* login, onLoggedIn *)

\* A second call is rejected while the lock is held, it is not repeated.
RuntimeLogin ==
    /\ login = "none" /\ runtime.logins < MaxLogins
    /\ runtime.configuring \/ ~runtime.loggedIn
    /\ login' = "connecting"
    /\ runtime' = [runtime EXCEPT !.logins = @ + 1, !.loggedIn = FALSE]
    /\ UNCHANGED <<turenVars, boot, welcome>>

\* BIND_MASTER_REQUIRED makes custodian reset the network.
OnLoginFails(bindRequired) ==
    /\ login = "connecting"
    /\ login' = "none"
    /\ runtime' = [runtime EXCEPT !.configuring = @ \/ bindRequired]
    /\ UNCHANGED <<turenVars, boot, welcome>>

\* The lock is released before the welcome has been played.
OnLoggedIn ==
    /\ login = "connecting"
    /\ login' = "none"
    /\ welcome' = IF runtime.shouldWelcome THEN welcome \cup {"deciding"} ELSE welcome
    /\ runtime' = [runtime EXCEPT !.loggedIn = TRUE, !.shouldWelcome = FALSE,
                                  !.welcomes = @ + (IF runtime.shouldWelcome THEN 1 ELSE 0)]
    /\ UNCHANGED <<turenVars, boot>>

\* delegate('runtimeDidLogin')
LoginDelegated(delegation) ==
    /\ "deciding" \in welcome
    /\ IF delegation
       THEN welcome' = welcome \ {"deciding"} /\ UNCHANGED <<reasons, turen>>
       ELSE /\ welcome' = (welcome \ {"deciding"}) \cup {"sound"}
            /\ IF "welcoming" \in reasons
               THEN reasons' = reasons /\ turen' = Muted(turen, FALSE)
               ELSE /\ reasons' = reasons \cup {"welcoming"}
                    /\ turen' = Muted(ToggleEngine(turen, FALSE), FALSE)
    /\ UNCHANGED <<rest, boot, login, runtime>>

\* Played or failed.
WelcomeSoundEnds ==
    /\ "sound" \in welcome
    /\ welcome' = welcome \ {"sound"}
    /\ EnableFor("welcoming")
    /\ UNCHANGED <<rest, boot, login, runtime>>

WelcomeNext == WelcomeSoundEnds \/ \E delegation \in BOOLEAN : LoginDelegated(delegation)

-----------------------------------------------------------------------------
(* Sleep, the network, keys *)

Hibernate ==
    /\ ~runtime.hibernated /\ runtime.sleeps < MaxSleeps
    /\ runtime' = [runtime EXCEPT !.hibernated = TRUE, !.sleeps = @ + 1]
    /\ reasons' = reasons \cup {"hibernated"}
    /\ turen' = Muted(Pickup(ToggleEngine(turen, FALSE), FALSE, TRUE), TRUE)
    /\ front' = NoApp
    /\ UNCHANGED <<waiting, engine, shouldRecover, boot, login, welcome>>

\* custodian.resetState is part of it; the engine is enabled whatever else the
\* runtime is disabled for.
Wakeup(shouldWelcome) ==
    /\ runtime.hibernated
    /\ runtime' = [runtime EXCEPT !.hibernated = FALSE, !.networkPrepared = TRUE,
                                  !.shouldWelcome = @ \/ shouldWelcome,
                                  !.grants = @ + (IF shouldWelcome THEN 1 ELSE 0)]
    /\ reasons' = reasons \ {"hibernated"}
    /\ turen' = ToggleEngine(Muted(turen, FALSE), TRUE)
    /\ UNCHANGED <<rest, boot, login, welcome>>

ResetNetwork ==
    /\ ~runtime.configuring /\ runtime.resets < MaxResets
    /\ runtime' = [runtime EXCEPT !.resets = @ + 1, !.shouldWelcome = TRUE, !.grants = @ + 1,
                                  !.resetting = TRUE]
    /\ turen' = Muted(turen, FALSE)
    /\ front' = NoApp
    /\ UNCHANGED <<waiting, engine, reasons, shouldRecover, boot, login, welcome>>

\* When the apps are destroyed custodian opens the network app,
\* which leaves when it is done.
NetworkReset ==
    /\ runtime.resetting
    /\ runtime' = [runtime EXCEPT !.resetting = FALSE, !.configuring = TRUE]
    /\ UNCHANGED <<turenVars, boot, login, welcome>>

NetworkConfigured ==
    /\ runtime.configuring
    /\ runtime' = [runtime EXCEPT !.configuring = FALSE]
    /\ UNCHANGED <<turenVars, boot, login, welcome>>

SetMicMute ==
    /\ turen' = Muted(turen, ~turen.muted)
    /\ UNCHANGED <<reasons, rest, own>>

SetPickup(open) ==
    /\ turen.pickingUp # open
    /\ open => ~turen.muted
    /\ turen' = Pickup(turen, open, TRUE)
    /\ UNCHANGED <<reasons, rest, own>>

Voice ==
    /\ \/ VoiceComing \/ TurenTimers \/ SpeechCompleted
       \/ \E yes \in BOOLEAN : WakeUpDelegated(yes) \/ StartOrEndVoice(yes)
       \/ \E a \in Listeners : Destruct(a) \/ \E on \in BOOLEAN : SetEnabled(a, on)
    /\ UNCHANGED own

RuntimeNext ==
    \/ BootNext
    \/ RuntimeLogin \/ (\E bindRequired \in BOOLEAN : OnLoginFails(bindRequired)) \/ OnLoggedIn
    \/ WelcomeNext
    \/ Hibernate \/ (\E shouldWelcome \in BOOLEAN : Wakeup(shouldWelcome))
    \/ ResetNetwork \/ NetworkReset \/ NetworkConfigured
    \/ SetMicMute \/ (\E open \in BOOLEAN : SetPickup(open))
    \/ Voice

RuntimeSpec == RuntimeInit /\ [][RuntimeNext]_runtimeVars

\* Apps get loaded, delegations and sounds settle.
RuntimeFairness == WF_runtimeVars(BootNext) /\ WF_runtimeVars(WelcomeNext)

-----------------------------------------------------------------------------
(* Properties *)

\* The device is asleep as long as it is disabled for its sleep: neither a
\* start, nor a welcome, nor a log-in that ends meanwhile wakes it, and what
\* woke it has left no reason behind.
AsleepIsDisabled == runtime.hibernated <=> "hibernated" \in reasons

\* Each reason to welcome the user is used once at most: a log-in repeated
\* after a lost connection is not greeted.
WelcomedOnce ==
    runtime.welcomes + (IF runtime.shouldWelcome THEN 1 ELSE 0) <= runtime.grants

\* The start and the welcome share a reason; whoever ends first enables the
\* runtime, and whatever fails of them it is enabled in the end.
WelcomingEnds == "welcoming" \in reasons ~> "welcoming" \notin reasons

\* Whatever starts, wakes, welcomes and logs in at once, the runtime agrees with
\* itself on why it is disabled, and with turen on the session it is in.
RuntimeInv ==
    /\ RuntimeTypeOK
    /\ AsleepIsDisabled /\ WelcomedOnce
    /\ LifetimeHeld /\ SolitaryInSession /\ NeverDeaf
=============================================================================
