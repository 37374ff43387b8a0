---------------------------- MODULE CronSchedule ----------------------------
(***************************************************************************)
(* When an alarm is due next (apps/alarm/expression.js, date.js): the loop *)
(* that moves an instant forward field by field until it matches the       *)
(* pattern of the alarm, with the arithmetic of JavaScript's Date, whose   *)
(* setters carry an overflow into the next field.                          *)
(*                                                                         *)
(* The length of months, weeks, days, hours and minutes is a constant, so  *)
(* that TLC goes through whole years.  Leap years are left out, and so is  *)
(* the type 'D7', whose pattern ('7') the parser refuses.                  *)
(***************************************************************************)
EXTENDS Integers, Sequences

CONSTANTS
    MonthDays,   \* daySpec: the number of days of each month
    WeekDays, Hours, Minutes, Seconds,  \* units in a week, day, hour, minute
    StartDays,   \* days of the month on which the search starts
    Repeats      \* the repeat types that are considered: "D" stands for 'D1' .. 'D6'

ASSUME CronAssumption ==
    /\ MonthDays # <<>> /\ \A m \in DOMAIN MonthDays : MonthDays[m] \in Nat \ {0}
    /\ WeekDays \in Nat \ 0 .. 2 /\ Hours \in Nat \ {0}
    /\ Minutes \in Nat \ {0} /\ Seconds \in Nat \ {0, 1}
    /\ StartDays \subseteq Nat
    /\ Repeats \subseteq {"D", "WEEKEND", "WEEKDAY"}

VARIABLES
    current,  \* the instant that is looked at
    begin,    \* the instant the loop began with
    fields,   \* the pattern, a set of values for each field
    found     \* the loop has ended

cronVars == <<current, begin, fields, found>>

Months == DOMAIN MonthDays
AnyDay == 1 .. 31 \cap UNION {1 .. MonthDays[m] : m \in Months}

Instant == [year : 0 .. 3, month : Months, day : AnyDay,
            hour : 0 .. Hours - 1, minute : 0 .. Minutes - 1, second : 0 .. Seconds - 1]

\* The days of the week of a repeat type: one of them, '1-5' or '6,0'.
RepeatDays(type) ==
    CASE type = "D" -> {{w} : w \in 1 .. WeekDays - 1}
      [] type = "WEEKEND" -> {1 .. WeekDays - 2}
      [] type = "WEEKDAY" -> {{WeekDays - 1, 0}}

Patterns ==
    [month : {Months} \cup {{m} : m \in Months},
     day : {AnyDay} \cup {{d} : d \in AnyDay},
     weekday : {0 .. WeekDays - 1} \cup UNION {RepeatDays(type) : type \in Repeats},
     hour : {{h} : h \in 0 .. Hours - 1},
     minute : {{m} : m \in 0 .. Minutes - 1},
     second : {{s} : s \in 0 .. Seconds - 1}]

CronTypeOK ==
    /\ current \in Instant /\ begin \in Instant
    /\ fields \in Patterns /\ found \in BOOLEAN

-----------------------------------------------------------------------------
(* Instants *)

\* Days before the month, and since the year 0.
DaysBefore[m \in Months] == IF m = 1 THEN 0 ELSE DaysBefore[m - 1] + MonthDays[m - 1]
YearDays == DaysBefore[Len(MonthDays)] + MonthDays[Len(MonthDays)]
DayNumber(t) == t.year * YearDays + DaysBefore[t.month] + t.day - 1
SecondNumber(t) == ((DayNumber(t) * Hours + t.hour) * Minutes + t.minute) * Seconds + t.second

\* The alarm is due: Task compares the time with what the pattern says.
Matches(t) ==
    /\ t.month \in fields.month /\ t.day \in fields.day
    /\ DayNumber(t) % WeekDays \in fields.weekday
    /\ t.hour \in fields.hour /\ t.minute \in fields.minute /\ t.second \in fields.second

\* Date#addMonth with setMonth, which carries the days a month has not got.
SetMonth(t, m) ==
    IF t.day <= MonthDays[m] THEN [t EXCEPT !.month = m]
    ELSE [t EXCEPT !.month = m + 1, !.day = @ - MonthDays[m]]

AddMonth(t) ==
    IF t.month = Len(MonthDays) THEN SetMonth([t EXCEPT !.year = @ + 1], 1)
    ELSE SetMonth(t, t.month + 1)

AddDay(t) ==
    IF t.day = MonthDays[t.month] THEN [AddMonth([t EXCEPT !.day = 1]) EXCEPT !.day = 1]
    ELSE [t EXCEPT !.day = @ + 1]

AddHour(t) ==
    IF t.hour = Hours - 1 THEN [AddDay(t) EXCEPT !.hour = 0] ELSE [t EXCEPT !.hour = @ + 1]

AddMinute(t) ==
    IF t.minute = Minutes - 1 THEN [AddHour(t) EXCEPT !.minute = 0] ELSE [t EXCEPT !.minute = @ + 1]

AddSecond(t) ==
    IF t.second = Seconds - 1
    THEN [AddMinute(t) EXCEPT !.second = 0]
    ELSE [t EXCEPT !.second = @ + 1]

SubstractDay(t) ==
    CASE t.day > 1 -> [t EXCEPT !.day = @ - 1]
      [] t.day = 1 /\ t.month > 1 -> [t EXCEPT !.month = @ - 1, !.day = MonthDays[t.month - 1]]
      [] OTHER -> [t EXCEPT !.year = @ - 1, !.month = Len(MonthDays),
                            !.day = MonthDays[Len(MonthDays)]]

\* Before midnight it is the first hour of the day before.
SubstractHour(t) ==
    IF t.hour = 0 THEN SubstractDay(t) ELSE [t EXCEPT !.hour = @ - 1]

SubstractMinute(t) ==
    IF t.minute = 0 THEN [SubstractHour(t) EXCEPT !.minute = Minutes - 1]
    ELSE [t EXCEPT !.minute = @ - 1]

SubstractSecond(t) ==
    IF t.second = 0 THEN [SubstractMinute(t) EXCEPT !.second = Seconds - 1]
    ELSE [t EXCEPT !.second = @ - 1]

-----------------------------------------------------------------------------
(* The patterns of alarms and the loop *)

\* _transferPattern: a time, and days of the week, or a day and a month.
AlarmPattern ==
    {p \in Patterns : \/ p.weekday = 0 .. WeekDays - 1
                      \/ p.day = AnyDay /\ p.month = Months}

\* What the loop looks for.  A value that is not greater than the one before is
\* dropped from a list, and '6,0' is read as '6'.
Sequence(weekdays) == IF weekdays = {WeekDays - 1, 0} THEN {WeekDays - 1} ELSE weekdays

\* The day occurs in the month; otherwise the loop goes on for ever.
Occurs(p) ==
    \E m \in p.month : \E d \in p.day : d <= MonthDays[m]

\* What the loop begins with for a current date.
BeginOf(t, p) ==
    IF p.second = {0} THEN SubstractMinute([t EXCEPT !.second = 0]) ELSE SubstractSecond(t)

FirstInstants(p) ==
    {BeginOf(t, p) : t \in {i \in Instant : /\ i.year = 1 /\ i.day \in StartDays
                                            /\ i.day <= MonthDays[i.month]}}

CronInit ==
    /\ fields \in {p \in AlarmPattern : Occurs(p)}
    /\ begin \in FirstInstants(fields)
    /\ current = begin
    /\ found = FALSE

Midnight(t) == [t EXCEPT !.hour = 0, !.minute = 0, !.second = 0]

WeekdayMatches == DayNumber(current) % WeekDays \in Sequence(fields.weekday)

\* (slip: a new day is begun at the time of the one before)
NextDayLate ==
    /\ current.month \in fields.month
    /\ current.day \notin fields.day \/ ~WeekdayMatches
    /\ current' = AddDay(current)
    /\ UNCHANGED <<begin, fields, found>>

NextMonth ==
    /\ current.month \notin fields.month
    /\ current' = Midnight([AddMonth(current) EXCEPT !.day = 1])
    /\ UNCHANGED <<begin, fields, found>>

NextDay ==
    /\ current.month \in fields.month
    /\ current.day \notin fields.day \/ ~WeekdayMatches
    /\ current' = Midnight(AddDay(current))
    /\ UNCHANGED <<begin, fields, found>>

DayMatches ==
    /\ ~found
    /\ current.month \in fields.month /\ current.day \in fields.day /\ WeekdayMatches

NextHour ==
    /\ DayMatches /\ current.hour \notin fields.hour
    /\ current' = [AddHour(current) EXCEPT !.minute = 0, !.second = 0]
    /\ UNCHANGED <<begin, fields, found>>

NextMinute ==
    /\ DayMatches /\ current.hour \in fields.hour /\ current.minute \notin fields.minute
    /\ current' = [AddMinute(current) EXCEPT !.second = 0]
    /\ UNCHANGED <<begin, fields, found>>

NextSecond ==
    /\ DayMatches /\ current.hour \in fields.hour /\ current.minute \in fields.minute
    /\ current.second \notin fields.second
    /\ current' = AddSecond(current)
    /\ UNCHANGED <<begin, fields, found>>

Found ==
    /\ DayMatches /\ current.hour \in fields.hour
    /\ current.minute \in fields.minute /\ current.second \in fields.second
    /\ found' = TRUE
    /\ UNCHANGED <<current, begin, fields>>

CronNext == NextMonth \/ NextDay \/ NextHour \/ NextMinute \/ NextSecond \/ Found

CronSpec == CronInit /\ [][CronNext]_cronVars

\* The loop runs.
CronFairness == WF_cronVars(CronNext)

-----------------------------------------------------------------------------
(* Properties *)

\* "Find next matching schedule date": no step of the loop jumps over an instant
\* at which the alarm is due; whichever fields are carried into others, the
\* instant that is found is the first one.
NothingSkipped ==
    [][LET next == {[year |-> y, month |-> m, day |-> d, hour |-> h, minute |-> i, second |-> s] :
                        y \in {current.year, current'.year}, m \in fields.month, d \in fields.day,
                        h \in fields.hour, i \in fields.minute, s \in fields.second}
       IN  \A t \in next : t.day <= MonthDays[t.month] /\ Matches(t) =>
              SecondNumber(t) \notin SecondNumber(current) .. SecondNumber(current') - 1
      ]_current

\* The loop comes to an end for every pattern that occurs at all.
LoopEnds == <>found

\* The search for the next instant of a job stays within the calendar and jumps
\* over none.
CronSafe == []CronTypeOK /\ NothingSkipped
=============================================================================
