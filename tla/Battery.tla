------------------------------ MODULE Battery ------------------------------
(***************************************************************************)
(* The battery: the component that follows the battery service             *)
(* (runtime/lib/component/battery.js) and is asked at every wake-up whether *)
(* it takes it over, and the app it opens (apps/battery/app.js).           *)
(*                                                                         *)
(* Messages of the service are a report of the cell; several levels may    *)
(* pass between two of them.  Texts are left out.                          *)
(***************************************************************************)
EXTENDS Integers, Sequences, SequencesExt, FiniteSetsExt

CONSTANTS
    Levels,     \* levels that are reported
    MaxTasks,   \* bound: what the app is doing at once
    BatteryOps  \* what else happens: heat, ask (the user asks the app),
                \* fails (speech or media do)

Marks == {8, 10, 20}
Temperatures == IF "heat" \in BatteryOps THEN {"high", "low", "normal"} ELSE {"normal"}
BatteryIntents == {"battery_usetime", "battery_charging", "battery_level"}
TaskStages == {"sound and leave", "sound and query", "query", "query and speak", "tts", "media"}

ASSUME BatteryAssumption ==
    /\ Levels \subseteq 1 .. 100 /\ Levels # {} /\ MaxTasks \in Nat
    /\ BatteryOps \subseteq {"heat", "ask", "fails"}

VARIABLES
    battery,  \* the component
    cell,     \* what is reported, whether an app is active, power
    batApp,   \* the app's tasks and its timer
    notices   \* what the user was told

batteryVars == <<battery, cell, batApp, notices>>

NoLevel == 0

BatteryTypeOK ==
    /\ battery \in [level : Levels \cup {NoLevel}, charging : BOOLEAN,
                    dangerousState : Temperatures,
                    announced : BOOLEAN,    \* of danger, within ten minutes
                    shouldAnnounceLowPower : BOOLEAN]
    /\ cell \in [level : Levels, charging : BOOLEAN, temp : Temperatures,
                 idle : BOOLEAN, on : BOOLEAN]
    /\ batApp.tasks \in Seq(TaskStages) /\ batApp.timer \in {"none", "runs", "cleared"}
    /\ batApp \in [tasks : {batApp.tasks}, timer : {batApp.timer}, leaves : BOOLEAN]
    /\ notices \in [high : BOOLEAN, warned : BOOLEAN, closed : BOOLEAN, opened : BOOLEAN]

BatteryInit ==
    /\ battery = [level |-> NoLevel, charging |-> FALSE, dangerousState |-> "normal",
                  announced |-> FALSE, shouldAnnounceLowPower |-> FALSE]
    /\ cell \in [level : {Max(Levels)}, charging : {FALSE}, temp : {"normal"},
                 idle : {TRUE}, on : {TRUE}]
    /\ batApp = [tasks |-> <<>>, timer |-> "none", leaves |-> TRUE]
    /\ notices = [high |-> FALSE,    \* the battery was above the marks
                  warned |-> FALSE,  \* since, low power was announced
                  closed |-> FALSE,  \* the last wake-up was cut short,
                  opened |-> FALSE]  \* for an announcement

-----------------------------------------------------------------------------
(* The URLs the app is opened with *)

Busy == Len(batApp.tasks) + 2 > MaxTasks

Starts(a, stage) == [a EXCEPT !.tasks = Append(@, stage), !.leaves = FALSE]

\* The timer's name is kept when the timer is cleared.
PollingCheckTemperature(a) == [a EXCEPT !.timer = IF @ = "none" THEN "runs" ELSE @]

\* onUrl.  8 only pushes a notification to the phone.
OnUrl(a, url) ==
    CASE url = "power_on" -> Starts(a, "sound and leave")
      [] url = "power_off playing" -> Starts(a, "sound and leave")
      [] url = "power_off" -> Starts(a, "sound and query")
      [] url \in {"low_power_10", "low_power_20", "temperature"} -> Starts(a, "media")
      [] url = "temperature_light" -> PollingCheckTemperature(a)
      [] OTHER -> a

LowPowerUrl(mark) ==
    CASE mark = 8 -> "low_power_8" [] mark = 10 -> "low_power_10" [] OTHER -> "low_power_20"

-----------------------------------------------------------------------------
(* handleFloraInfo *)

\* (slip: a mark is crossed only by a level below it)
CrossedBelow(level) == {m \in Marks : battery.level > m /\ level < m}

\* The marks crossed since the last report; the lowest is the one that counts.
Crossed(level) == {m \in Marks : battery.level > m /\ level <= m}

Proactive(mark) == mark = 8 \/ (mark = 10 /\ ~cell.idle)

HandleFloraInfo(level, charging, temp) ==
    /\ cell.on /\ ~Busy
    /\ charging => level >= cell.level
    /\ ~charging => level <= cell.level
    /\ cell' = [cell EXCEPT !.level = level, !.charging = charging, !.temp = temp]
    /\ cell' # cell \/ battery.level = NoLevel
    /\ level > 5 \/ charging
    /\ LET heated == IF temp # "normal" THEN OnUrl(batApp, "temperature_light") ELSE batApp
           known == battery.level # NoLevel
           low == known /\ Crossed(level) # {}
           mark == Min(Crossed(level))
           now == low /\ Proactive(mark)
           told == IF now THEN OnUrl(heated, LowPowerUrl(mark)) ELSE heated
           plugged == known /\ battery.charging # charging
       IN  /\ batApp' = IF ~plugged THEN told
                        ELSE OnUrl(told, IF charging THEN "power_on"
                                         ELSE IF cell.idle THEN "power_off"
                                         ELSE "power_off playing")
           /\ battery' = [battery EXCEPT !.level = level, !.charging = charging,
                                         !.dangerousState = temp,
                                         !.shouldAnnounceLowPower = IF low THEN ~now ELSE @]
           /\ notices' = [notices EXCEPT !.high = @ \/ level > Max(Marks),
                                         !.warned = now \/ (@ /\ level <= Max(Marks)),
                                         !.closed = FALSE]

\* A report without charging, of a level of 5 or less: whether the device was
\* charging before is not asked.
Shutdown(level) ==
    /\ cell.on /\ level <= 5 /\ level <= cell.level
    /\ cell' = [cell EXCEPT !.level = level, !.charging = FALSE, !.on = FALSE]
    /\ UNCHANGED <<battery, batApp, notices>>

\* With another charge; nothing is remembered.
SwitchOn(level) ==
    /\ ~cell.on /\ level > 5
    /\ cell' = [cell EXCEPT !.level = level, !.on = TRUE, !.idle = TRUE]
    /\ battery' = [level |-> NoLevel, charging |-> FALSE, dangerousState |-> "normal",
                   announced |-> FALSE, shouldAnnounceLowPower |-> FALSE]
    /\ batApp' = [tasks |-> <<>>, timer |-> "none", leaves |-> TRUE]
    /\ notices' = [high |-> FALSE, warned |-> FALSE, closed |-> FALSE, opened |-> FALSE]

-----------------------------------------------------------------------------
(* At a wake-up *)

DelegateWakeUpIfDangerousStatus ==
    /\ battery.level # NoLevel /\ battery.dangerousState # "normal" /\ ~battery.announced
    /\ battery' = [battery EXCEPT !.announced = TRUE]
    /\ batApp' = OnUrl(batApp, "temperature")
    /\ notices' = [notices EXCEPT !.closed = TRUE, !.opened = TRUE]

\* A level above the marks opens nothing, and the wake-up goes on.
DelegateWakeUpIfBatteryInsufficient ==
    /\ battery.level # NoLevel
    /\ battery.dangerousState = "normal" \/ battery.announced
    /\ battery.shouldAnnounceLowPower /\ ~battery.charging
    /\ battery' = [battery EXCEPT !.shouldAnnounceLowPower = FALSE]
    /\ LET marks == {m \in Marks : battery.level <= m}
       IN  /\ batApp' = IF marks = {} THEN batApp ELSE OnUrl(batApp, LowPowerUrl(Min(marks)))
           /\ notices' = [notices EXCEPT !.closed = TRUE, !.opened = marks # {},
                                         !.warned = @ \/ marks # {}]

WakeUp ==
    /\ cell.on /\ ~Busy
    /\ DelegateWakeUpIfDangerousStatus \/ DelegateWakeUpIfBatteryInsufficient
    /\ UNCHANGED cell

TenMinutesPass ==
    /\ battery.announced
    /\ battery' = [battery EXCEPT !.announced = FALSE]
    /\ UNCHANGED <<cell, batApp, notices>>

FrontAppComesOrGoes ==
    /\ cell.on
    /\ cell' = [cell EXCEPT !.idle = ~@]
    /\ UNCHANGED <<battery, batApp, notices>>

-----------------------------------------------------------------------------
(* The app *)

\* onRequest
AskBattery(intent) ==
    /\ "ask" \in BatteryOps /\ cell.on /\ ~Busy
    /\ batApp' = Starts(batApp, "query and speak")
    /\ UNCHANGED <<battery, cell, notices>>

BeginTask(i, stage) == batApp' = [batApp EXCEPT !.tasks[i] = stage]

\* Whatever else the app is doing.
ExitBatteryApp(i) == batApp' = [batApp EXCEPT !.tasks = RemoveAt(@, i), !.leaves = TRUE]

\* powerStatusChange, when the sound was played
SoundPlayed(i) ==
    \/ batApp.tasks[i] = "sound and leave" /\ ExitBatteryApp(i)
    \/ batApp.tasks[i] = "sound and query" /\ BeginTask(i, "query")

\* Below 20 the time that is left may be unknown.
Queried(i) ==
    \/ batApp.tasks[i] \in {"query", "query and speak"} /\ BeginTask(i, "tts")
    \/ batApp.tasks[i] = "query" /\ cell.level < 20 /\ ExitBatteryApp(i)

\* notifyTTS, speakAndExit and notifyMedia
Told(i) == batApp.tasks[i] \in {"tts", "media"} /\ ExitBatteryApp(i)

\* A failure is logged.
TellingFails(i) ==
    /\ "fails" \in BatteryOps /\ batApp.tasks[i] \in {"tts", "media"}
    /\ batApp' = [batApp EXCEPT !.tasks = RemoveAt(@, i)]

AppGoesOn ==
    /\ \E i \in DOMAIN batApp.tasks : SoundPlayed(i) \/ Queried(i) \/ Told(i)
    /\ UNCHANGED <<battery, cell, notices>>

AppFails ==
    /\ \E i \in DOMAIN batApp.tasks : TellingFails(i)
    /\ UNCHANGED <<battery, cell, notices>>

CheckTemperature ==
    /\ batApp.timer = "runs" /\ cell.temp = "normal"
    /\ batApp' = [batApp EXCEPT !.timer = "cleared"]
    /\ UNCHANGED <<battery, cell, notices>>

BatteryNext ==
    \/ \E level \in Levels, charging \in BOOLEAN, temp \in Temperatures :
          HandleFloraInfo(level, charging, temp)
    \/ \E level \in Levels : Shutdown(level) \/ SwitchOn(level)
    \/ WakeUp \/ TenMinutesPass \/ FrontAppComesOrGoes
    \/ \E intent \in BatteryIntents : AskBattery(intent)
    \/ AppGoesOn \/ AppFails \/ CheckTemperature

BatterySpec == BatteryInit /\ [][BatteryNext]_batteryVars

\* Speech and media come to an end.
BatteryFairness == WF_batteryVars(AppGoesOn)

-----------------------------------------------------------------------------
(* Properties *)

\* A battery that was seen above the marks is not empty one day without a
\* word: low power was announced since, or will be at the next wake-up,
\* however many reports were missed, however it was charged in between.
LowPowerOwed ==
    notices.high /\ battery.level <= Max(Marks)
        => notices.warned \/ battery.shouldAnnounceLowPower

\* The app leaves when it has told what it was opened for.
BatteryAppLeaves == [](batApp.tasks # <<>> => <>batApp.leaves)

\* It does not leave while it is still telling something.
LeavesWhenDone == [][batApp'.leaves /\ ~batApp.leaves => batApp'.tasks = <<>>]_batteryVars

\* A wake-up is cut short only for an announcement.
ClosedForNotice == notices.closed => notices.opened

\* "check temperature if not safe will notifyLight again or safe will cancel
\* timer"
PollsWhileUnsafe == battery.dangerousState # "normal" => batApp.timer = "runs"

\* Whatever reports are missed, the user is told of low power.
BatteryInv == BatteryTypeOK /\ LowPowerOwed
=============================================================================
