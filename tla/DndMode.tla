------------------------------ MODULE DndMode ------------------------------
(***************************************************************************)
(* Do not disturb (runtime/lib/component/dnd-mode.js): a state machine     *)
(* that turns the mode on and off with the hours of the day, unless the    *)
(* device is in use, and takes the volume down and gives it back.  What it *)
(* knows is kept over a restart, its timer is not.                         *)
(*                                                                         *)
(* The hours are those of the calendar day in which now, start and end are *)
(* compared: the day of the device, so that on one in the time zone of the *)
(* hours (TIME_ZONE) the default ones, 23:00 to 7:00, cross midnight.  Its *)
(* run to the next wait is one step, as it is in the code.  Muting is left *)
(* to Volume.                                                              *)
(***************************************************************************)
EXTENDS Naturals, Integers, Sequences

CONSTANTS
    DayHours,   \* hours a day has
    Windows,    \* pairs of hours, start and end, that the user sets
    UserVolumes,
    DndVolume,  \* DND_MODE_VOLUME
    DndEvents   \* what else happens: restart, use (of the device), off,
                \* late (volume changes are reported late)

ASSUME DndAssumption ==
    /\ DayHours \in Nat \ {0}
    /\ Windows \subseteq (0 .. DayHours - 1) \X (0 .. DayHours - 1)
    /\ UserVolumes \subseteq Nat \ {0} /\ DndVolume \in Nat \ {0}
    /\ DndEvents \subseteq {"restart", "use", "off", "late"}

VARIABLES
    kept,  \* properties that persist
    fsm,   \* the state machine, its timer and flags
    around \* the clock, the user, the volume and its events, the light

dndVars == <<kept, fsm, around>>

\* What parseInt makes of '', the property that was never set: not 0, and not
\* above any volume.
NaN == -1

SomeVolume == UserVolumes \cup {0, DndVolume, NaN}
HoursOfDay == 0 .. DayHours - 1

DndTypeOK ==
    /\ kept \in [switch : BOOLEAN, status : BOOLEAN, window : Windows, savedVolume : SomeVolume]
    /\ fsm \in [status : {"ready", "waiting", "end"}, waitSleep : BOOLEAN,
                left : 0 .. DayHours, setVolumeFlag : BOOLEAN]
    /\ around.clock \in HoursOfDay /\ {around.inUse, around.light, around.forgotten} \subseteq BOOLEAN
    /\ {around.volume, around.wanted} \subseteq SomeVolume
    /\ around.events \in Seq(SomeVolume)

DndInit ==
    /\ kept \in [switch : BOOLEAN, status : {FALSE}, window : Windows,
                 savedVolume : {0, NaN}]  \* NaN: none was ever saved
    /\ fsm = [status |-> "ready", waitSleep |-> FALSE, left |-> 0, setVolumeFlag |-> FALSE]
    /\ \E v \in UserVolumes :
          around \in [clock : HoursOfDay, inUse : {FALSE}, light : {FALSE}, volume : {v},
                      wanted : {v},      \* what the user set last
                      forgotten : {FALSE},  \* what it should be given back
                      events : {<<>>}]   \* volume changes on their way

-----------------------------------------------------------------------------
(* getDNDTime *)

\* Positive in the hours of the mode.  Whoever is in them after midnight is
\* told to wait for a day.
GetDNDTime(now, w) ==
    LET start == w[1]
        end == IF start >= w[2] THEN w[2] + DayHours ELSE w[2]
    IN  CASE now >= start /\ now < end -> end - now
          [] now < start /\ now + DayHours < end -> DayHours
          [] now < start /\ now + DayHours >= end -> now - start
          [] OTHER -> now - (start + DayHours)

Abs(n) == IF n < 0 THEN -n ELSE n

-----------------------------------------------------------------------------
(* One run of the machine; d has the three variables. *)

World == [kept |-> kept, fsm |-> fsm, around |-> around]

SetDnd(d) == kept' = d.kept /\ fsm' = d.fsm /\ around' = d.around

SetVolume(d, v) == [d EXCEPT !.around.volume = v, !.around.events = Append(@, v)]

\* initiate of the runtime: the volume is set again as it is, or, when it is no
\* number, to 0 and then to the default v.  If the mode is on and hears it, it
\* forgets what it saved for the volume that it has set itself.
Initiate(d, v, heard) ==
    LET cur == d.around.volume
        again == IF cur = NaN THEN <<0, v>> ELSE <<cur>>
    IN  [d EXCEPT !.around.volume = IF cur = NaN THEN v ELSE cur,
                  !.around.events = IF heard THEN @ \o again ELSE @,
                  !.around.forgotten = @ \/ (heard /\ d.kept.status /\ cur # d.around.wanted)]

\* What was never saved is set, too.
Disable(d) ==
    LET v == d.kept.savedVolume
        t == IF v # 0 THEN [SetVolume(d, v) EXCEPT !.kept.savedVolume = 0,
                                                   !.around.forgotten = @ \/ v = NaN]
             ELSE d
    IN  [t EXCEPT !.around.light = FALSE, !.kept.status = FALSE]

Enable(d) ==
    LET cur == d.around.volume
        t == IF DndVolume < cur
             THEN [SetVolume(d, DndVolume) EXCEPT !.fsm.setVolumeFlag = TRUE,
                                                  !.kept.savedVolume = cur]
             ELSE d
    IN  [t EXCEPT !.around.light = TRUE, !.kept.status = TRUE]

SetTimeout(d, waitSleep) ==
    [d EXCEPT !.fsm.status = "waiting", !.fsm.waitSleep = waitSleep,
              !.fsm.left = Abs(GetDNDTime(d.around.clock, d.kept.window))]

End(d) == [d EXCEPT !.fsm.status = "end"]

\* checkTime, checkTimeX
CheckTime(d) == GetDNDTime(d.around.clock, d.kept.window) > 0

\* checkActivity, checkActivityX: a new option does not wait for the user.
CheckActivity(d, isOption) == d.around.inUse /\ ~isOption

\* checkStatus and turnOff, with the switch off
SwitchedOff(d) == End(IF d.kept.status THEN Disable(d) ELSE d)

\* (slip: the mode goes on where it was on when the hours are over)
RunStaysOn(d, isOption) ==
    CASE ~d.kept.switch -> SwitchedOff(d)
      [] d.kept.switch /\ d.kept.status -> SetTimeout(d, ~CheckTime(d))
      [] d.kept.switch /\ ~d.kept.status /\ CheckTime(d) ->
            IF CheckActivity(d, isOption) THEN SetTimeout(d, TRUE)
            ELSE SetTimeout(Enable(d), FALSE)
      [] OTHER -> SetTimeout(d, FALSE)

\* start(code)
Run(d, isOption) ==
    CASE ~d.kept.switch -> SwitchedOff(d)
      [] d.kept.switch /\ d.kept.status /\ CheckTime(d) -> SetTimeout(d, FALSE)
      [] d.kept.switch /\ d.kept.status /\ ~CheckTime(d) ->
            IF CheckActivity(d, isOption) THEN SetTimeout(d, TRUE)
            ELSE SetTimeout(Disable(d), FALSE)
      [] d.kept.switch /\ ~d.kept.status /\ CheckTime(d) ->
            IF CheckActivity(d, isOption) THEN SetTimeout(d, TRUE)
            ELSE SetTimeout(Enable(d), FALSE)
      [] OTHER -> SetTimeout(d, FALSE)

-----------------------------------------------------------------------------
(* Steps *)

TimerDue == fsm.status = "waiting" /\ fsm.left = 0

\* Unless late, a change of the volume is reported before anything else.
Reported == "late" \in DndEvents \/ around.events = <<>>
Steady == Reported /\ ~TimerDue

\* init of the runtime, which may not yet be connected to what it subscribes to
InitDnd(v, heard) ==
    /\ Reported /\ fsm.status = "ready"
    /\ SetDnd(Initiate(Run(World, FALSE), v, heard))

TimerFires ==
    /\ Reported /\ TimerDue
    /\ SetDnd(Run(World, FALSE))

SetOption(on, w) ==
    /\ Steady /\ fsm.status # "ready"
    /\ on \/ "off" \in DndEvents
    /\ [kept EXCEPT !.switch = on, !.window = w] # kept
    /\ SetDnd(Run([World EXCEPT !.kept.switch = on, !.kept.window = w], TRUE))

\* onLoggedIn of the runtime: "recheck dnd mode because of date synchronization"
Recheck(v) ==
    /\ Steady /\ fsm.status # "ready"
    /\ SetDnd(Initiate(Run(World, FALSE), v, TRUE))

OnDeviceIdle(d) ==
    IF d.fsm.waitSleep /\ d.fsm.status = "waiting"
    THEN Run([d EXCEPT !.fsm.waitSleep = FALSE], FALSE)
    ELSE d

\* An app gets to the front, or the last one leaves it.
UseDevice(inUse) ==
    /\ "use" \in DndEvents /\ Steady /\ around.inUse # inUse
    /\ LET d == [World EXCEPT !.around.inUse = inUse]
       IN  SetDnd(IF inUse THEN d ELSE OnDeviceIdle(d))

UserSetsVolume(v) ==
    /\ Steady
    /\ SetDnd([SetVolume(World, v) EXCEPT !.around.wanted = v, !.around.forgotten = FALSE])

OnVolumeChanged ==
    /\ around.events # <<>>
    /\ around' = [around EXCEPT !.events = Tail(@)]
    /\ fsm' = [fsm EXCEPT !.setVolumeFlag = @ /\ ~kept.status]
    /\ kept' = IF kept.status /\ ~fsm.setVolumeFlag
               THEN [kept EXCEPT !.savedVolume = Head(around.events)] ELSE kept

HourPasses ==
    /\ Steady /\ fsm.status # "ready"
    /\ around' = [around EXCEPT !.clock = (@ + 1) % DayHours]
    /\ fsm' = [fsm EXCEPT !.left = IF fsm.status = "waiting" THEN @ - 1 ELSE @]
    /\ UNCHANGED kept

\* The light comes up without the mode.
RestartDevice ==
    /\ "restart" \in DndEvents /\ Steady
    /\ fsm' = [status |-> "ready", waitSleep |-> FALSE, left |-> 0, setVolumeFlag |-> FALSE]
    /\ around' = [around EXCEPT !.inUse = FALSE, !.light = FALSE, !.events = <<>>]
    /\ UNCHANGED kept

DndNext ==
    \/ TimerFires
    \/ \E on \in BOOLEAN, w \in Windows : SetOption(on, w)
    \/ \E inUse \in BOOLEAN : UseDevice(inUse)
    \/ \E v \in UserVolumes :
          Recheck(v) \/ UserSetsVolume(v) \/ \E heard \in BOOLEAN : InitDnd(v, heard)
    \/ OnVolumeChanged \/ HourPasses \/ RestartDevice

DndSpec == DndInit /\ [][DndNext]_dndVars

-----------------------------------------------------------------------------
(* Properties *)

\* However often the mode was turned on and off, by the clock, the user, a
\* restart, while the user changed the volume: when it is off, the volume is
\* the one the user wanted, unless what was saved of it is forgotten, because
\* the runtime set the volume of the mode again, or because nothing ever was.
VolumeGivenBack ==
    ~kept.status /\ around.events = <<>> /\ fsm.status # "ready" /\ ~around.forgotten
        => around.volume = around.wanted

\* "switch off: volume === 50": the same without exception.
VolumeComesBack ==
    ~kept.status /\ around.events = <<>> /\ fsm.status # "ready"
        => around.volume = around.wanted

\* "vol must be a number"
VolumeIsNumber == around.volume # NaN

InHours(now, w) ==
    IF w[1] < w[2] THEN w[1] <= now /\ now < w[2] ELSE w[1] <= now \/ now < w[2]

\* The mode follows the hours of a day: as long as nobody uses the device it is
\* on within them and off outside, whenever it was switched, restarted or used.
ModeFollowsHours ==
    /\ kept.switch /\ kept.window[1] < kept.window[2]
    /\ fsm.status = "waiting" /\ ~TimerDue /\ ~around.inUse
    => kept.status = InHours(around.clock, kept.window)

\* "if result >= 0, it's the millisecond to end time": what the machine waits
\* for within the hours is their end.
WaitsForTheEnd ==
    fsm.status = "waiting" /\ kept.status /\ InHours(around.clock, kept.window)
        => (around.clock + fsm.left) % DayHours = kept.window[2]

\* The light is dimmed as long as the mode is on.
LightFollowsMode == fsm.status # "ready" => around.light = kept.status

\* Over the hours, restarts and changes by the user the mode is on when it
\* should be and leaves the volume as the user wanted it.
DndInv == DndTypeOK /\ VolumeGivenBack /\ ModeFollowsHours
=============================================================================
