------------------------------- MODULE Timer -------------------------------
(***************************************************************************)
(* The timer app (apps/timer): its countdown, what it says, and the ring   *)
(* when the time is up.  The calls of the app reach the runtime in their   *)
(* order and each is answered in the step the runtime makes of it; what    *)
(* the app does next hangs on the one next action it has registered.       *)
(*                                                                         *)
(* Durations are left out, but for this: a countdown is longer than words  *)
(* and rings, and ends in none of them.  Words that are stopped are words  *)
(* that end.  The texts are left out.                                      *)
(***************************************************************************)
EXTENDS Naturals, Sequences

CONSTANTS
    MaxCommands,  \* bound: what the user asks of the app
    RingTimes,    \* config.RINGTONE.RING_TIMES
    TimerOps      \* race, fails, slow, follow: what the timing allows, see below

ASSUME TimerAssumption ==
    /\ MaxCommands \in Nat /\ RingTimes \in Nat \ {0}
    /\ TimerOps \subseteq {"race",    \* commands cross the answer to a call of the app
                           "fails",   \* words are not spoken
                           "slow",    \* two registrations in a handler at different times
                           "follow"}  \* commands while the app picks up

VARIABLES
    count,     \* timer and remainMilliSecs: the countdown
    answer,    \* the app: where it is, what it waits for and what it says
    rings,     \* rings that are not over: their timeouts
    ringtone,  \* ringtoneTimer and the player
    commands

timerVars == <<count, answer, rings, ringtone, commands>>

None == 0
RingNumbers == 1 .. 4
Call(what, id) == [what |-> what, id |-> id]

TimerTypeOK ==
    /\ count \in {"off", "runs", "due", "paused"}
    /\ answer \in [app : {"front", "back", "gone"},
                   asks : Seq([what : {"front", "ring", "pickup", "back", "exit"}, id : Nat]),
                   says : SUBSET Nat,                  \* words, by the id of their next action
                   id : Nat, ring : BOOLEAN,           \* nextActionId, nextActionFunc
                   pickup : BOOLEAN, wait : Nat]       \* isPickup, pickupTimer
    /\ rings \in SUBSET [n : RingNumbers, at : {"sounds", "pauses"}, left : 1 .. RingTimes]
    /\ ringtone \in [known : RingNumbers \cup {None}, sounds : BOOLEAN]
    /\ commands \in 0 .. MaxCommands

TimerInit ==
    /\ count = "off"
    /\ answer = [app |-> "back", asks |-> <<>>, says |-> {}, id |-> 0, ring |-> FALSE,
                 pickup |-> FALSE, wait |-> None]
    /\ rings = {} /\ ringtone = [known |-> None, sounds |-> FALSE]
    /\ commands = 0

-----------------------------------------------------------------------------
(* Helpers of the app, on answer *)

IsTimerExist(c) == c # "off"

Asks(a, what, id) == [a EXCEPT !.asks = Append(@, Call(what, id))]

\* registerNextAction: the id is the time, the same within a handler or not.
Registered(a, ring, id) == [a EXCEPT !.ring = ring, !.id = id]

\* speak, up to its call of setForeground.
Says(a, ring, id) == Asks(Registered(a, ring, id), "front", id)

\* setPickup, before words in the same handler.
PicksUp(a, id) == IF a.pickup THEN a ELSE Asks(Registered(a, FALSE, id), "pickup", id)

\* defaultNextAction
DefaultNextAction(a) ==
    IF a.pickup THEN a ELSE Asks(a, IF IsTimerExist(count) THEN "back" ELSE "exit", None)

\* triggerNextAction: what is not the latest to be registered does nothing.
TriggerNextAction(a, id) ==
    CASE a.id # id -> a
      [] a.id = id /\ a.ring -> Asks(a, "ring", RingTimes)
      [] OTHER -> DefaultNextAction(a)

\* shutup and stopRingtone: the timeout ringtoneTimer holds and the player.
StopRingtone == {r \in rings : r.n # ringtone.known}

Shutup ==
    /\ rings' = StopRingtone
    /\ ringtone' = [known |-> None, sounds |-> FALSE]

-----------------------------------------------------------------------------
(* Commands *)

\* Whether a command may come, and what it begins with.
Command ==
    /\ answer.app # "gone" /\ commands < MaxCommands /\ commands' = commands + 1
    /\ answer.asks # <<>> => "race" \in TimerOps
    /\ answer.pickup \/ answer.wait # None => "follow" \in TimerOps
    /\ Shutup

Latest == [answer EXCEPT !.app = "front"]

\* timer_start of a time that is too short or too long, timer_comeback.
TimerTold ==
    Command /\ UNCHANGED count /\ answer' = Says(Latest, FALSE, answer.id + 1)

\* timer_start, and timer_restart.
TimerStart(restart) ==
    /\ restart => IsTimerExist(count)
    /\ Command /\ count' = "runs" /\ answer' = Says(Latest, FALSE, answer.id + 1)

TimerClose ==
    Command /\ count' = "off" /\ answer' = Says(Latest, FALSE, answer.id + 1)

\* pauseTimer: of a countdown whose timeout is due nothing remains.
TimerPause ==
    /\ Command /\ answer' = Says(Latest, FALSE, answer.id + 1)
    /\ count' = CASE count = "runs" -> "paused" [] count = "due" -> "off" [] OTHER -> count

TimerKeepon ==
    /\ Command /\ answer' = Says(Latest, FALSE, answer.id + 1)
    /\ count' = IF count = "paused" THEN "runs" ELSE count

\* howtouse_timer, and timer_start without a time.
HowToUse ==
    /\ Command /\ UNCHANGED count
    /\ \E id \in {answer.id + 1} \cup (IF "slow" \in TimerOps THEN {answer.id + 2} ELSE {}) :
         answer' = Says(PicksUp(Latest, answer.id + 1), FALSE, id)

OtherIntent ==
    Command /\ UNCHANGED count /\ answer' = Asks(Latest, "exit", None)

\* kbdHandler
Click ==
    /\ answer.app = "front"
    /\ Command /\ UNCHANGED count
    /\ answer' = Asks(answer, IF IsTimerExist(count) THEN "back" ELSE "exit", None)

-----------------------------------------------------------------------------
(* Timeouts *)

\* Time passes, longer than words and rings.
Elapse ==
    /\ count = "runs" /\ count' = "due"
    /\ answer.asks = <<>> /\ answer.says = {} /\ rings = {}
    /\ UNCHANGED <<answer, rings, ringtone, commands>>

TimeupHandler ==
    /\ count = "due" /\ count' = "off"
    /\ answer' = Says(answer, TRUE, answer.id + 1)
    /\ UNCHANGED <<rings, ringtone, commands>>

PickupTimeout ==
    /\ answer.wait # None
    /\ answer' = TriggerNextAction([answer EXCEPT !.pickup = FALSE, !.wait = None], answer.wait)
    /\ UNCHANGED <<count, rings, ringtone, commands>>

\* The ring has sounded for eight seconds.
RingSounded(r) ==
    /\ r \in rings /\ r.at = "sounds"
    /\ IF r.left > 1
       THEN /\ rings' = (rings \ {r}) \cup {[r EXCEPT !.at = "pauses"]}
            /\ ringtone' = [known |-> r.n, sounds |-> FALSE]
            /\ UNCHANGED answer
       ELSE /\ rings' = rings \ {r}
            /\ ringtone' = [ringtone EXCEPT !.sounds = FALSE]
            /\ answer' = Asks(answer, "exit", None)
    /\ UNCHANGED <<count, commands>>

RingPaused(r) ==
    /\ r \in rings /\ r.at = "pauses"
    /\ rings' = rings \ {r}
    /\ answer' = Asks(answer, "ring", r.left - 1)
    /\ UNCHANGED <<count, ringtone, commands>>

-----------------------------------------------------------------------------
(* The runtime and ttsd *)

\* The app goes, and with it what it waits for.
Gone ==
    /\ answer' = [answer EXCEPT !.app = "gone", !.asks = <<>>, !.says = {},
                                !.pickup = FALSE, !.wait = None]
    /\ rings' = {} /\ ringtone' = [known |-> None, sounds |-> FALSE]
    /\ count' = "off"

\* 'background': without a countdown the app exits.
Background(a) ==
    /\ Shutup /\ UNCHANGED count
    /\ answer' = LET b == [a EXCEPT !.app = "back"]
                 IN IF IsTimerExist(count) THEN b ELSE Asks(b, "exit", None)

\* The runtime does what the app asked for, and the app goes on.
CallAnswered ==
    /\ answer.asks # <<>>
    /\ UNCHANGED commands
    /\ LET call == Head(answer.asks)
           a == [answer EXCEPT !.asks = Tail(@)]
       IN CASE call.what = "front" ->
                 /\ answer' = [a EXCEPT !.app = "front", !.says = @ \cup {call.id}]
                 /\ UNCHANGED <<count, rings, ringtone>>
            [] call.what = "ring" ->
                 LET n == CHOOSE k \in RingNumbers : \A r \in rings : r.n # k
                 IN /\ answer' = [a EXCEPT !.app = "front"]
                    /\ rings' = rings \cup {[n |-> n, at |-> "sounds", left |-> call.id]}
                    /\ ringtone' = [known |-> n, sounds |-> TRUE]
                    /\ UNCHANGED count
            [] call.what = "pickup" ->
                 /\ answer' = [a EXCEPT !.pickup = TRUE, !.wait = call.id]
                 /\ UNCHANGED <<count, rings, ringtone>>
            [] call.what = "back" -> Background(a)
            [] call.what = "exit" -> Gone

\* The words are over.
WordsEnd(id) ==
    /\ id \in answer.says
    /\ answer' = TriggerNextAction([answer EXCEPT !.says = @ \ {id}], id)
    /\ UNCHANGED <<count, rings, ringtone, commands>>

\* The words fail, and both handlers trigger what is next.
WordsFail(id) ==
    /\ id \in answer.says /\ "fails" \in TimerOps
    /\ answer' = TriggerNextAction(TriggerNextAction([answer EXCEPT !.says = @ \ {id}], id), id)
    /\ UNCHANGED <<count, rings, ringtone, commands>>

\* Another app comes to the front, or the device is idle.
Preempted ==
    /\ answer.app = "front" /\ commands < MaxCommands /\ commands' = commands + 1
    /\ answer.asks # <<>> => "race" \in TimerOps
    /\ Background(answer)

TimerNext ==
    \/ \E restart \in BOOLEAN : TimerStart(restart)
    \/ TimerTold \/ TimerClose \/ TimerPause \/ TimerKeepon \/ HowToUse \/ OtherIntent \/ Click
    \/ Elapse \/ TimeupHandler \/ PickupTimeout \/ CallAnswered \/ Preempted
    \/ \E r \in rings : RingSounded(r) \/ RingPaused(r)
    \/ \E id \in answer.says : WordsEnd(id) \/ WordsFail(id)

TimerSpec == TimerInit /\ [][TimerNext]_timerVars

\* Calls are answered, timeouts fire, words and time come to their end.
TimerFairness ==
    /\ WF_timerVars(CallAnswered) /\ WF_timerVars(Elapse) /\ WF_timerVars(TimeupHandler)
    /\ WF_timerVars(PickupTimeout)
    /\ WF_timerVars(\E r \in rings : RingSounded(r) \/ RingPaused(r))
    /\ WF_timerVars(\E id \in answer.says : WordsEnd(id))

-----------------------------------------------------------------------------
(* Properties *)

\* A ring that goes on can be stopped: ringtoneTimer holds its timeout.
RingIsKnown == \A r \in rings : r.n = ringtone.known

\* "shutup": the app does not ring over its latest words, which the user has
\* asked for after the time was up; new words cancel earlier ones in ttsd.
RingsAlone == ringtone.sounds => answer.id \notin answer.says

\* The app leaves the front by itself when it has nothing more to say.
TimerLeaves == answer.app = "front" ~> answer.app # "front"

\* When the time is up the app rings, unless the user or another app is first.
TimeIsRung ==
    count = "due" ~> \/ ringtone.sounds
                     \/ count # "due" /\ ~answer.ring
                     \/ answer.app = "gone"

\* A countdown that is paused is there to be resumed.
PausedIsKept == [][TimerPause /\ count # "off" => count' # "off"]_timerVars

\* Whatever is asked of the app around the end of the time, what rings can be
\* stopped and stays silent while the app answers.
TimerInv == TimerTypeOK /\ RingIsKnown /\ RingsAlone
=============================================================================
