------------------------------- MODULE Volume -------------------------------
(***************************************************************************)
(* The volume of the device: the volume app (apps/volume) with what it is  *)
(* asked by voice and by the key for less, and the sound component.  Both  *)
(* work on AudioManager; the streams are one, and a level is a tenth.      *)
(*                                                                         *)
(* A task is a request of the app from its handler to the end of the words *)
(* and effects it waits for.  Do-not-disturb, which sets the volume as     *)
(* well, is a matter of DndMode.                                           *)
(***************************************************************************)
EXTENDS Integers, FiniteSets, DndMode

CONSTANTS
    TopLevel,      \* 100 percent
    DefaultLevel,  \* audio.volume.recover
    MaxVolumeAsks, \* bound: requests
    VolumeOps      \* what the timing allows, see below

ASSUME VolumeAssumption ==
    /\ TopLevel \in Nat /\ DefaultLevel \in 1 .. TopLevel
    /\ MaxVolumeAsks \in Nat
    /\ VolumeOps \subseteq {"overlap",  \* requests while the app speaks
                            "fails",    \* words are not spoken
                            "silent",   \* nor are those of a muted device
                            "top",      \* volumemax at the top
                            "repeat"}   \* the long press repeats, as keyboard.json has it

VARIABLES
    audio,     \* AudioManager: level and mute; mutedBy
    tasks,     \* requests that are not over
    contexts,  \* ContextManager#contexts, by request
    less,      \* the key for less, and its timeouts
    wanted,    \* what the user wants, to be silent or not (history)
    requests   \* how many there have been

volumeVars == <<audio, tasks, contexts, less, wanted, requests>>

VolumeTypeOK ==
    /\ audio \in [level : 0 .. TopLevel, muted : BOOLEAN, by : {"nobody", "direct", "indirect"}]
    /\ tasks \in SUBSET [id : 1 .. MaxVolumeAsks, remute : BOOLEAN, exits : BOOLEAN]
    /\ contexts \in SUBSET (1 .. MaxVolumeAsks)
    /\ less \in [held : BOOLEAN, timers : SUBSET (1 .. MaxVolumeAsks), known : 0 .. MaxVolumeAsks]
    /\ wanted \in {"sound", "silence"}
    /\ requests \in 0 .. MaxVolumeAsks

\* initVolume: the device starts with the volume it had, and not muted.
VolumeInit ==
    /\ \E level \in 0 .. TopLevel :
         audio = [level |-> IF level = 0 THEN DefaultLevel ELSE level, muted |-> FALSE,
                  by |-> "nobody"]
    /\ tasks = {} /\ contexts = {}
    /\ less = [held |-> FALSE, timers |-> {}, known |-> 0]
    /\ wanted = "sound" /\ requests = 0

-----------------------------------------------------------------------------
(* Helpers of the app, on audio *)

Normalized(level) == IF level < 0 THEN 0 ELSE IF level > TopLevel THEN TopLevel ELSE level

SetMute(a, source) == [a EXCEPT !.muted = TRUE, !.by = source]

\* setVolume
SetLevel(a, target) ==
    LET n == Normalized(target)
        heard == IF a.muted /\ n > 0 THEN [a EXCEPT !.muted = FALSE] ELSE a
    IN [(IF n = 0 THEN SetMute(heard, "indirect") ELSE heard) EXCEPT !.level = n]

\* setUnmute, with recovery.
SetUnmute(a) ==
    SetLevel([a EXCEPT !.muted = FALSE],
             IF a.by = "direct" /\ a.level > 0 THEN a.level ELSE DefaultLevel)

\* incVolume and decVolume: announced, they only speak at the end of the range.
Altered(a, delta, announced) ==
    IF announced /\ (IF delta > 0 THEN a.level >= TopLevel ELSE a.level <= 0) THEN a
    ELSE SetLevel(a, a.level + delta)

\* What the user wants after a request that makes a of the volume.
Wants(a) == IF a = audio THEN wanted ELSE IF a.muted THEN "silence" ELSE "sound"

\* Words spoken while the device is muted are heard out, or not.
MayInterrupt == (\E t \in tasks : t.remute) => "overlap" \in VolumeOps

-----------------------------------------------------------------------------
(* Requests by voice: a context each, which the end of the task exits *)

Request ==
    /\ requests < MaxVolumeAsks /\ requests' = requests + 1
    /\ MayInterrupt
    /\ contexts' = contexts \cup {requests + 1}
    /\ UNCHANGED less

Task(remute, exits) ==
    tasks' = tasks \cup {[id |-> requests + 1, remute |-> remute, exits |-> exits]}

\* What sets the volume or mutes and leaves when this has been announced.
Becomes(a) == audio' = a /\ wanted' = Wants(a) /\ Task(FALSE, TRUE)

\* speakAndExit
SpeakAndExit(a) ==
    /\ audio' = [a EXCEPT !.muted = FALSE]
    /\ Task(a.muted, TRUE)

ShowVolume ==
    /\ Request
    /\ IF audio.muted \/ audio.level <= 0
       THEN SpeakAndExit(SetUnmute(audio)) /\ wanted' = "sound"
       ELSE SpeakAndExit(audio) /\ UNCHANGED wanted

\* set_volume, set_volume_percent, volumemin.
SetVolumeIntent(level) == Request /\ Becomes(SetLevel(audio, level))

\* add_volume_num and the like; adjustVolumeSlowly says more the third time.
AlterVolume(delta) == Request /\ Becomes(Altered(audio, delta, TRUE))

\* Out of range, or not understood.
NotUnderstood == Request /\ SpeakAndExit(audio) /\ UNCHANGED wanted

VolumeMax ==
    /\ Request
    /\ IF audio.level >= TopLevel
       THEN "top" \in VolumeOps /\ Task(FALSE, FALSE) /\ UNCHANGED <<audio, wanted>>
       ELSE Becomes(SetLevel(audio, TopLevel))

VolumeMute == Request /\ Becomes(SetMute(audio, "direct"))

CancelMute == Request /\ Becomes(SetUnmute(audio))

\* The task has come to its end.
TaskEnds(t) ==
    /\ t \in tasks /\ tasks' = tasks \ {t}
    /\ audio' = IF t.remute THEN [audio EXCEPT !.muted = TRUE] ELSE audio
    /\ contexts' = IF t.exits THEN contexts \ {t.id} ELSE contexts
    /\ UNCHANGED <<less, wanted, requests>>

\* Its words have not been spoken: nothing follows.
TaskFails(t) ==
    /\ "fails" \in VolumeOps
    /\ t.remute => "silent" \in VolumeOps
    /\ t \in tasks /\ tasks' = tasks \ {t}
    /\ UNCHANGED <<audio, contexts, less, wanted, requests>>

\* Another app comes: 'background' or 'destroy', which keeps the daemon.
ClearContexts ==
    /\ contexts # {} /\ contexts' = {}
    /\ UNCHANGED <<audio, tasks, less, wanted, requests>>

-----------------------------------------------------------------------------
(* Urls, of keys and others *)

Url(a) ==
    /\ requests < MaxVolumeAsks /\ requests' = requests + 1
    /\ MayInterrupt
    /\ audio' = a /\ wanted' = Wants(a)
    /\ UNCHANGED <<tasks, contexts>>

\* /volume_up, /set_volume, /mute, /unmute
VolumeUp == Url(Altered(audio, 1, FALSE)) /\ UNCHANGED less
SetVolumeUrl(level) == Url(SetLevel(audio, level)) /\ UNCHANGED less
MuteUrl == Url(SetMute(audio, "direct")) /\ UNCHANGED less
UnmuteUrl == Url(SetUnmute(audio)) /\ UNCHANGED less

\* The key for less goes down: /volume_down.
KeyDown ==
    /\ ~less.held
    /\ Url(Altered(audio, -1, FALSE)) /\ less' = [less EXCEPT !.held = TRUE]

\* It is pressed for long: /volume_down_with_fast_mute, decVolumeWithFastMuteTimer.
LongPress ==
    /\ less.held
    /\ less.timers # {} => "repeat" \in VolumeOps
    /\ Url(Altered(audio, -1, FALSE))
    /\ less' = [less EXCEPT !.timers = @ \cup {requests + 1}, !.known = requests + 1]

\* It is released: /volume_down_fast_mute_reset, resetFastMuteTimer.
KeyUp ==
    /\ less.held
    /\ less' = [less EXCEPT !.held = FALSE, !.timers = @ \ {less.known}]
    /\ UNCHANGED <<audio, tasks, contexts, wanted, requests>>

FastMute(timer) ==
    /\ timer \in less.timers /\ less' = [less EXCEPT !.timers = @ \ {timer}]
    /\ MayInterrupt
    /\ audio' = SetLevel(audio, 0) /\ wanted' = "silence"
    /\ UNCHANGED <<tasks, contexts, requests>>

-----------------------------------------------------------------------------
(* The sound component *)

\* unmuteIfNecessary: another skill is activated; playLongPressMic.
UnmuteIfNecessary ==
    /\ audio.muted \/ audio.level <= 0
    /\ MayInterrupt
    /\ audio' = [audio EXCEPT !.muted = FALSE, !.level = DefaultLevel]
    /\ wanted' = "sound"
    /\ UNCHANGED <<tasks, contexts, less, requests>>

VolumeNext ==
    \/ \E level \in 0 .. TopLevel : SetVolumeIntent(level) \/ SetVolumeUrl(level)
    \/ \E delta \in {-1, 1} : AlterVolume(delta)
    \/ ShowVolume \/ NotUnderstood \/ VolumeMax \/ VolumeMute \/ CancelMute
    \/ \E t \in tasks : TaskEnds(t) \/ TaskFails(t)
    \/ ClearContexts
    \/ VolumeUp \/ MuteUrl \/ UnmuteUrl \/ KeyDown \/ LongPress \/ KeyUp
    \/ \E timer \in less.timers : FastMute(timer)
    \/ UnmuteIfNecessary

VolumeSpec == VolumeInit /\ [][VolumeNext]_volumeVars

\* Words come to their end.
VolumeFairness == WF_volumeVars(\E t \in tasks : TaskEnds(t))

-----------------------------------------------------------------------------
(* Properties *)

\* What the app says while the device is muted does not change that it is: when
\* nothing is spoken the device is muted if and only if that is what the user
\* has wanted last.
MutedAsWanted == (\A t \in tasks : ~t.remute) => (audio.muted <=> wanted = "silence")

\* A device that is not muted can be heard.
HeardUnlessMuted == (\A t \in tasks : ~t.remute) => audio.muted \/ audio.level > 0

\* A key that has been released mutes nothing.
ReleasedIsHarmless == ~less.held => less.timers = {}

\* The app leaves when all it was asked is answered.
VolumeLeaves == contexts # {} ~> contexts = {}

\* Questions, keys and timers leave the device muted, or not, as the user wants.
VolumeInv == VolumeTypeOK /\ MutedAsWanted /\ HeardUnlessMuted /\ ReleasedIsHarmless

\* The volume: what mutes or turns it down for a while gives back what the user
\* wants, do-not-disturb over the hours and the volume app with its words.
VolumesInv == DndInv /\ VolumeInv
=============================================================================
