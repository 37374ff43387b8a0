----------------------------- MODULE TimedSleep -----------------------------
(***************************************************************************)
(* The app that puts the device to sleep after a time (apps/timed-sleep).  *)
(* Unlike the timer app it does not tell apart whose words have come to    *)
(* their end.  Its calls reach the runtime in their order.                 *)
(***************************************************************************)
EXTENDS Naturals, Sequences, Alarm, Timer

CONSTANTS
    MaxSleepCommands,  \* bound: what the user asks of the app
    SleepOps           \* talk, fails, race: see below

ASSUME TimedSleepAssumption ==
    /\ MaxSleepCommands \in Nat
    /\ SleepOps \subseteq {"talk",   \* commands while the app speaks
                           "fails",  \* words are not spoken, and the device does not sleep
                           "race"}   \* commands while a call of the app is under way

VARIABLES
    sleep,  \* the app: its timer, what it asks of the runtime, what it says
    told    \* commands, and the last of them if its answer has not been said (history)

sleepVars == <<sleep, told>>

NoAnswer == 0

TimedSleepTypeOK ==
    /\ sleep \in [app : {"front", "back", "gone"},
                  timer : {"null", "runs", "fired"},
                  asks : Seq([what : {"front", "back", "exit", "idle"}, id : Nat]),
                  says : SUBSET Nat]   \* words whose end the app has not heard of
    /\ told \in [count : 0 .. MaxSleepCommands, owed : Nat]

TimedSleepInit ==
    /\ sleep = [app |-> "back", timer |-> "null", asks |-> <<>>, says |-> {}]
    /\ told = [count |-> 0, owed |-> NoAnswer]

-----------------------------------------------------------------------------
Calls(s, what, id) == [s EXCEPT !.asks = Append(@, [what |-> what, id |-> id])]

\* afterSpeak
AfterSleepWords(s) == Calls(s, IF s.timer # "null" THEN "back" ELSE "exit", NoAnswer)

\* A command, which makes timer of the timer and is answered: words that are
\* being said are stopped, and their end is heard of.
SleepCommand(timer) ==
    /\ sleep.app # "gone" /\ told.count < MaxSleepCommands
    /\ sleep.says # {} => "talk" \in SleepOps
    /\ sleep.asks # <<>> => "race" \in SleepOps
    /\ told' = [count |-> told.count + 1, owed |-> told.count + 1]
    /\ sleep' = Calls([sleep EXCEPT !.app = "front", !.timer = timer], "front", told.count + 1)

\* timed_sleep with a time the app takes, or not; cancel_timing.
SleepIn == SleepCommand("runs")
SleepRefused == SleepCommand(sleep.timer)
CancelTiming == SleepCommand("null")

\* doSleep, at the time; timer still holds the timeout.
DoSleep ==
    /\ sleep.timer = "runs"
    /\ sleep' = Calls([sleep EXCEPT !.timer = "fired"], "idle", NoAnswer)
    /\ UNCHANGED told

\* The key.
SleepClick ==
    /\ sleep.app = "front" /\ told.count < MaxSleepCommands
    /\ sleep.asks # <<>> => "race" \in SleepOps
    /\ sleep' = Calls(sleep, "back", NoAnswer)
    /\ told' = [count |-> told.count + 1, owed |-> NoAnswer]

\* The runtime does what it has been asked for.  When idle has been done or has
\* failed the app exits, also if it has been ended by it.
SleepAnswered ==
    /\ sleep.asks # <<>>
    /\ LET call == Head(sleep.asks)
           s == [sleep EXCEPT !.asks = Tail(@)]
       IN CASE call.what = "front" ->
                 /\ sleep' = [s EXCEPT !.app = "front", !.says = @ \cup {call.id}]
                 /\ UNCHANGED told
            [] call.what = "back" -> sleep' = [s EXCEPT !.app = "back"] /\ UNCHANGED told
            [] call.what = "exit" ->
                 /\ sleep' = [s EXCEPT !.app = "gone", !.asks = <<>>, !.says = {}, !.timer = "null"]
                 /\ UNCHANGED told
            [] call.what = "idle" ->
                 /\ sleep' = Calls(s, "exit", NoAnswer)
                 /\ told' = [told EXCEPT !.owed = NoAnswer]

\* Words are over: all of them, or stopped by others.
SleepWordsEnd(id) ==
    /\ id \in sleep.says
    /\ sleep' = AfterSleepWords([sleep EXCEPT !.says = @ \ {id}])
    /\ told' = IF told.owed = id THEN [told EXCEPT !.owed = NoAnswer] ELSE told

\* Words fail: afterSpeak is called by both handlers.
SleepWordsFail(id) ==
    /\ "fails" \in SleepOps /\ id \in sleep.says
    /\ sleep' = AfterSleepWords(AfterSleepWords([sleep EXCEPT !.says = @ \ {id}]))
    /\ told' = IF told.owed = id THEN [told EXCEPT !.owed = NoAnswer] ELSE told

TimedSleepNext ==
    \/ SleepIn \/ SleepRefused \/ CancelTiming \/ DoSleep \/ SleepClick \/ SleepAnswered
    \/ \E id \in sleep.says : SleepWordsEnd(id) \/ SleepWordsFail(id)

TimedSleepSpec == TimedSleepInit /\ [][TimedSleepNext]_sleepVars

TimedSleepFairness ==
    /\ WF_sleepVars(SleepAnswered) /\ WF_sleepVars(DoSleep)
    /\ WF_sleepVars(\E id \in sleep.says : SleepWordsEnd(id))

-----------------------------------------------------------------------------
(* Properties *)

\* An app whose timer runs does not leave: the device would not sleep.
SleepNotForgotten ==
    sleep.timer = "runs" => \A i \in DOMAIN sleep.asks : sleep.asks[i].what # "exit"

\* The user is answered: the app does not leave with words it has not said.
AnswerIsGiven == sleep.app = "gone" => told.owed = NoAnswer

\* The app leaves the front by itself when it has said what there is to say.
SleepLeaves == sleep.app = "front" ~> sleep.app # "front"

\* The device sleeps when it was told to, and the app answers what it is told.
TimedSleepInv == TimedSleepTypeOK /\ SleepNotForgotten /\ AnswerIsGiven

\* Alarms, the countdown and the sleep that is timed: what is due is not kept
\* from ringing, and what rings or speaks neither outlives what stops it nor
\* cuts off what the user has asked for later.
TimesInv == AlarmInv /\ TimerInv /\ TimedSleepInv
=============================================================================
