--------------------------- MODULE ServicesProofs ---------------------------
(***************************************************************************)
(* Proofs about the components that serve the others: the battery and its  *)
(* warnings, lightd, the dispatcher of events and notifications, do-not-   *)
(* disturb with the volume, multimediad, the keys, and the client of cloud *)
(* skills. They share no state but do-not-disturb and the volume; each has *)
(* an invariant of its own.                                                *)
(***************************************************************************)
EXTENDS Battery, Lightd, Dispatcher, Volume, Multimedia, Keyboard,
        CloudAppClient, FiniteSetsExt, FiniteSetTheorems, SequenceTheorems,
        WellFoundedInduction, TLAPS

-----------------------------------------------------------------------------
(***************************************************************************)
(* The greatest and the least of a finite set of numbers                   *)
(***************************************************************************)

\* A finite set of numbers has a greatest and a least one: one of the
\* subsets of what is at least x, of what is at most x, has no other in it.
LEMMA MaxOfFinite ==
    ASSUME NEW S \in SUBSET Int, IsFiniteSet(S), S # {}
    PROVE  Max(S) \in S /\ \A y \in S : y <= Max(S)
<1> DEFINE From(x) == {y \in S : y >= x}
           F == {From(x) : x \in S}
<1>1. F \subseteq FiniteSubsetsOf(S) /\ F # {}
  <2>1. FiniteSubsetsOf(S) = SUBSET S
    BY FS_FiniteSubsetsOfFinite
  <2>2. \A x \in S : From(x) \in SUBSET S
    OBVIOUS
  <2>3. F \subseteq SUBSET S /\ F # {}
    BY <2>2
  <2> QED
    BY <2>1, <2>3
<1>2. PICK A \in F : \A B \in F : ~(<<B, A>> \in StrictSubsetOrdering(S))
  <2>1. IsWellFoundedOn(StrictSubsetOrdering(S), FiniteSubsetsOf(S))
    BY FS_StrictSubsetOrderingWellFounded
  <2> HIDE DEF F
  <2> QED
    BY <1>1, <2>1, WFMin
<1>3. PICK x \in S : A = From(x)
  OBVIOUS
<1>4. \A y \in S : x >= y
  <2> SUFFICES ASSUME NEW y \in S, ~(x >= y) PROVE FALSE
    OBVIOUS
  <2>1. From(y) \in F
    OBVIOUS
  <2>2. x < y /\ x \in Int /\ y \in Int
    OBVIOUS
  <2>3. From(y) \subseteq A /\ x \in A /\ x \notin From(y) /\ A \subseteq S
    <3>1. A \subseteq S /\ x \in A /\ x \notin From(y)
      BY <2>2, <1>3
    <3>2. ASSUME NEW z \in From(y) PROVE z \in A
      <4>1. z \in S /\ z >= y /\ z \in Int
        OBVIOUS
      <4>2. z >= x
        BY <2>2, <4>1
      <4> QED
        BY <1>3, <4>1, <4>2
    <3> QED
      BY <3>1, <3>2
  <2>4. <<From(y), A>> \in StrictSubsetOrdering(S)
    BY <2>3 DEF StrictSubsetOrdering
  <2> QED
    BY <1>2, <2>1, <2>4
<1>5. x \in S /\ \A y \in S : x >= y
  BY <1>4
<1>6. Max(S) \in S /\ \A y \in S : Max(S) >= y
  BY <1>5 DEF Max
<1> QED
  BY <1>6

\* The least one, likewise.
LEMMA MinOfFinite ==
    ASSUME NEW S \in SUBSET Int, IsFiniteSet(S), S # {}
    PROVE  Min(S) \in S /\ \A y \in S : y >= Min(S)
<1> DEFINE UpTo(x) == {y \in S : y <= x}
           F == {UpTo(x) : x \in S}
<1>1. F \subseteq FiniteSubsetsOf(S) /\ F # {}
  <2>1. FiniteSubsetsOf(S) = SUBSET S
    BY FS_FiniteSubsetsOfFinite
  <2>2. \A x \in S : UpTo(x) \in SUBSET S
    OBVIOUS
  <2>3. F \subseteq SUBSET S /\ F # {}
    BY <2>2
  <2> QED
    BY <2>1, <2>3
<1>2. PICK A \in F : \A B \in F : ~(<<B, A>> \in StrictSubsetOrdering(S))
  <2>1. IsWellFoundedOn(StrictSubsetOrdering(S), FiniteSubsetsOf(S))
    BY FS_StrictSubsetOrderingWellFounded
  <2> HIDE DEF F
  <2> QED
    BY <1>1, <2>1, WFMin
<1>3. PICK x \in S : A = UpTo(x)
  OBVIOUS
<1>4. \A y \in S : x <= y
  <2> SUFFICES ASSUME NEW y \in S, ~(x <= y) PROVE FALSE
    OBVIOUS
  <2>1. UpTo(y) \in F
    OBVIOUS
  <2>2. x > y /\ x \in Int /\ y \in Int
    OBVIOUS
  <2>3. UpTo(y) \subseteq A /\ x \in A /\ x \notin UpTo(y) /\ A \subseteq S
    <3>1. A \subseteq S /\ x \in A /\ x \notin UpTo(y)
      BY <2>2, <1>3
    <3>2. ASSUME NEW z \in UpTo(y) PROVE z \in A
      <4>1. z \in S /\ z <= y /\ z \in Int
        OBVIOUS
      <4>2. z <= x
        BY <2>2, <4>1
      <4> QED
        BY <1>3, <4>1, <4>2
    <3> QED
      BY <3>1, <3>2
  <2>4. <<UpTo(y), A>> \in StrictSubsetOrdering(S)
    BY <2>3 DEF StrictSubsetOrdering
  <2> QED
    BY <1>2, <2>1, <2>4
<1>5. x \in S /\ \A y \in S : x <= y
  BY <1>4
<1>6. Min(S) \in S /\ \A y \in S : Min(S) <= y
  BY <1>5 DEF Min
<1> QED
  BY <1>6

-----------------------------------------------------------------------------
(***************************************************************************)
(* The battery: a warning of low power is owed or told                     *)
(***************************************************************************)
BatteryRec == [level : Levels \cup {NoLevel}, charging : BOOLEAN, dangerousState : Temperatures,
               announced : BOOLEAN, shouldAnnounceLowPower : BOOLEAN]
CellRec == [level : Levels, charging : BOOLEAN, temp : Temperatures, idle : BOOLEAN, on : BOOLEAN]
BatAppRec == [tasks : Seq(TaskStages), timer : {"none", "runs", "cleared"}, leaves : BOOLEAN]
NoticesRec == [high : BOOLEAN, warned : BOOLEAN, closed : BOOLEAN, opened : BOOLEAN]

BatteryTyped ==
    battery \in BatteryRec /\ cell \in CellRec /\ batApp \in BatAppRec /\ notices \in NoticesRec

BatteryIInv == BatteryTyped /\ LowPowerOwed

LEMMA BatteryTypes == BatteryTyped => BatteryTypeOK
BY DEF BatteryTyped, BatteryTypeOK, BatteryRec, CellRec, BatAppRec, NoticesRec

LEMMA LevelFacts == Levels \subseteq Nat /\ NoLevel \in Nat /\ Max(Marks) = 20
<1>1. Levels \subseteq Nat /\ NoLevel \in Nat
  BY BatteryAssumption DEF NoLevel
<1>2. 20 \in Marks /\ \A y \in Marks : 20 >= y
  BY DEF Marks
<1>3. Max(Marks) \in Marks /\ \A y \in Marks : Max(Marks) >= y
  BY <1>2 DEF Max
<1> QED
  BY <1>1, <1>2, <1>3 DEF Marks

LEMMA StartsTyped ==
    ASSUME NEW a \in BatAppRec, NEW stage \in TaskStages
    PROVE  Starts(a, stage) \in BatAppRec
<1>1. a.tasks \in Seq(TaskStages)
  BY DEF BatAppRec
<1>2. Append(a.tasks, stage) \in Seq(TaskStages)
  BY <1>1
<1> QED
  BY <1>2 DEF Starts, BatAppRec

LEMMA OnUrlTyped ==
    ASSUME NEW a \in BatAppRec, NEW url
    PROVE  OnUrl(a, url) \in BatAppRec
<1>1. PollingCheckTemperature(a) \in BatAppRec
  BY DEF PollingCheckTemperature, BatAppRec
<1>2. \A stage \in {"sound and leave", "sound and query", "media"} : Starts(a, stage) \in BatAppRec
  BY StartsTyped DEF TaskStages
<1> QED
  BY <1>1, <1>2 DEF OnUrl

LEMMA FloraInfoStep ==
    ASSUME BatteryIInv, NEW level \in Levels, NEW charging \in BOOLEAN, NEW temp \in Temperatures,
           HandleFloraInfo(level, charging, temp)
    PROVE  BatteryIInv'
<1> DEFINE heated == IF temp # "normal" THEN OnUrl(batApp, "temperature_light") ELSE batApp
           known == battery.level # NoLevel
           low == known /\ Crossed(level) # {}
           mark == Min(Crossed(level))
           now == low /\ Proactive(mark)
           told == IF now THEN OnUrl(heated, LowPowerUrl(mark)) ELSE heated
           plugged == known /\ battery.charging # charging
           url == IF charging THEN "power_on" ELSE IF cell.idle THEN "power_off" ELSE "power_off playing"
           should == IF low THEN ~now ELSE battery.shouldAnnounceLowPower
           warned == now \/ (notices.warned /\ level <= Max(Marks))
           high == notices.high \/ level > Max(Marks)
<1>1. /\ cell' = [cell EXCEPT !.level = level, !.charging = charging, !.temp = temp]
      /\ batApp' = IF ~plugged THEN told ELSE OnUrl(told, url)
      /\ battery' = [battery EXCEPT !.level = level, !.charging = charging,
                                    !.dangerousState = temp,
                                    !.shouldAnnounceLowPower = should]
      /\ notices' = [notices EXCEPT !.high = high, !.warned = warned, !.closed = FALSE]
  BY DEF HandleFloraInfo
<1>2. /\ battery \in BatteryRec /\ cell \in CellRec /\ batApp \in BatAppRec
      /\ notices \in NoticesRec /\ LowPowerOwed
  BY DEF BatteryIInv, BatteryTyped
<1>3. now \in BOOLEAN
  BY DEF Proactive
<1>4. should \in BOOLEAN /\ warned \in BOOLEAN /\ high \in BOOLEAN
  <2> HIDE DEF now, low
  <2> QED
    BY <1>2, <1>3 DEF BatteryRec, NoticesRec
<1>5. batApp' \in BatAppRec
  <2>1. heated \in BatAppRec
    BY <1>2, OnUrlTyped
  <2>2. told \in BatAppRec
    <3> HIDE DEF heated, now
    <3> QED
      BY <2>1, OnUrlTyped
  <2> HIDE DEF told, plugged, url
  <2> QED
    BY <1>1, <2>2, OnUrlTyped
<1>6. level \in Nat /\ battery.level \in Nat /\ Max(Marks) = 20
  BY <1>2, LevelFacts DEF BatteryRec
<1>7. ASSUME high, level <= 20 PROVE warned \/ should
  <2>1. notices.high
    BY <1>6, <1>7
  <2>2. CASE low
    BY <2>2
  <2>3. CASE ~low
    <3>1. CASE battery.level > 20
      <4>1. known
        BY <3>1 DEF NoLevel
      <4>2. 20 \in Crossed(level)
        BY <1>6, <1>7, <3>1 DEF Crossed, Marks
      <4> QED
        BY <2>3, <4>1, <4>2
    <3>2. CASE battery.level <= 20
      <4>1. notices.warned \/ battery.shouldAnnounceLowPower
        BY <1>2, <1>6, <2>1, <3>2 DEF LowPowerOwed
      <4> QED
        BY <1>6, <1>7, <2>3, <4>1
    <3> QED
      BY <1>6, <3>1, <3>2
  <2> QED
    BY <2>2, <2>3
<1> HIDE DEF should, warned, high
<1>8. /\ battery' \in BatteryRec /\ cell' \in CellRec /\ notices' \in NoticesRec
      /\ battery'.level = level /\ battery'.shouldAnnounceLowPower = should
      /\ notices'.warned = warned /\ notices'.high = high
  BY <1>1, <1>2, <1>4 DEF BatteryRec, CellRec, NoticesRec
<1>9. LowPowerOwed'
  BY <1>6, <1>7, <1>8 DEF LowPowerOwed
<1> QED
  BY <1>5, <1>8, <1>9 DEF BatteryIInv, BatteryTyped

LEMMA SwitchStep ==
    ASSUME BatteryIInv, NEW level \in Levels, Shutdown(level) \/ SwitchOn(level)
    PROVE  BatteryIInv'
<1>1. "normal" \in Temperatures /\ <<>> \in Seq(TaskStages)
  BY DEF Temperatures
<1>2. CASE Shutdown(level)
  BY <1>2 DEF Shutdown, BatteryIInv, BatteryTyped, CellRec, LowPowerOwed
<1>3. CASE SwitchOn(level)
  BY <1>1, <1>3 DEF SwitchOn, BatteryIInv, BatteryTyped, CellRec, BatteryRec, BatAppRec, NoticesRec,
                    LowPowerOwed
<1> QED
  BY <1>2, <1>3

LEMMA WakeUpStep ==
    ASSUME BatteryIInv, WakeUp
    PROVE  BatteryIInv'
<1>1. /\ battery \in BatteryRec /\ cell \in CellRec /\ batApp \in BatAppRec
      /\ notices \in NoticesRec /\ LowPowerOwed /\ cell' = cell
  BY DEF BatteryIInv, BatteryTyped, WakeUp
<1>2. CASE DelegateWakeUpIfDangerousStatus
  <2>1. batApp' \in BatAppRec
    BY <1>1, <1>2, OnUrlTyped DEF DelegateWakeUpIfDangerousStatus
  <2> QED
    BY <1>1, <1>2, <2>1
    DEF DelegateWakeUpIfDangerousStatus, BatteryIInv, BatteryTyped, BatteryRec, NoticesRec, LowPowerOwed
<1>3. CASE DelegateWakeUpIfBatteryInsufficient
  <2> DEFINE marks == {m \in Marks : battery.level <= m}
             warned == notices.warned \/ marks # {}
  <2>1. /\ battery' = [battery EXCEPT !.shouldAnnounceLowPower = FALSE]
        /\ batApp' = IF marks = {} THEN batApp ELSE OnUrl(batApp, LowPowerUrl(Min(marks)))
        /\ notices' = [notices EXCEPT !.closed = TRUE, !.opened = marks # {}, !.warned = warned]
    BY <1>3 DEF DelegateWakeUpIfBatteryInsufficient
  <2>2. battery.level \in Nat /\ Max(Marks) = 20
    BY <1>1, LevelFacts DEF BatteryRec
  <2>3. battery.level <= 20 => marks # {}
    BY DEF Marks
  <2> HIDE DEF marks
  <2>4. batApp' \in BatAppRec
    BY <1>1, <2>1, OnUrlTyped
  <2>5. (marks # {}) \in BOOLEAN /\ warned \in BOOLEAN
    BY <1>1 DEF NoticesRec
  <2>6. /\ battery' \in BatteryRec /\ battery'.level = battery.level
        /\ notices' \in NoticesRec /\ notices'.warned = warned /\ notices'.high = notices.high
    <3> HIDE DEF warned
    <3> QED
      BY <1>1, <2>1, <2>5 DEF BatteryRec, NoticesRec
  <2> QED
    BY <1>1, <2>2, <2>3, <2>4, <2>6 DEF BatteryIInv, BatteryTyped, LowPowerOwed
<1> QED
  BY <1>2, <1>3 DEF WakeUp

\* What the app does leaves the component and the notices alone.
LEMMA BatteryAppStep ==
    ASSUME BatteryIInv, AppGoesOn \/ AppFails \/ CheckTemperature
                        \/ \E intent \in BatteryIntents : AskBattery(intent)
    PROVE  BatteryIInv'
<1>1. batApp \in BatAppRec /\ batApp.tasks \in Seq(TaskStages)
  BY DEF BatteryIInv, BatteryTyped, BatAppRec
<1>2. UNCHANGED <<battery, cell, notices>>
  BY DEF AppGoesOn, AppFails, CheckTemperature, AskBattery
<1>3. ASSUME NEW i \in DOMAIN batApp.tasks
      PROVE  RemoveAt(batApp.tasks, i) \in Seq(TaskStages)
  BY <1>1, <1>3 DEF RemoveAt
<1>4. ASSUME NEW i \in DOMAIN batApp.tasks, NEW stage \in TaskStages, BeginTask(i, stage)
      PROVE  batApp' \in BatAppRec
  BY <1>1, <1>4 DEF BeginTask, BatAppRec
<1>5. ASSUME NEW i \in DOMAIN batApp.tasks, ExitBatteryApp(i) PROVE batApp' \in BatAppRec
  BY <1>1, <1>3, <1>5 DEF ExitBatteryApp, BatAppRec
<1>6. ASSUME NEW i \in DOMAIN batApp.tasks, TellingFails(i) PROVE batApp' \in BatAppRec
  BY <1>1, <1>3, <1>6 DEF TellingFails, BatAppRec
<1>7. batApp' \in BatAppRec
  <2>1. "query" \in TaskStages /\ "tts" \in TaskStages /\ "query and speak" \in TaskStages
    BY DEF TaskStages
  <2>2. CASE AppGoesOn
    BY <1>4, <1>5, <2>1, <2>2 DEF AppGoesOn, SoundPlayed, Queried, Told
  <2>3. CASE AppFails
    BY <1>6, <2>3 DEF AppFails
  <2>4. CASE CheckTemperature
    BY <1>1, <2>4 DEF CheckTemperature, BatAppRec
  <2>5. CASE \E intent \in BatteryIntents : AskBattery(intent)
    BY <1>1, <2>1, <2>5, StartsTyped DEF AskBattery
  <2> QED
    BY <2>2, <2>3, <2>4, <2>5
<1> QED
  BY <1>2, <1>7 DEF BatteryIInv, BatteryTyped, LowPowerOwed

LEMMA BatteryInitInv == BatteryInit => BatteryIInv
<1> SUFFICES ASSUME BatteryInit PROVE BatteryIInv
  OBVIOUS
<1>1. Max(Levels) \in Levels
  <2>1. IsFiniteSet(Levels)
    <3>1. \A level \in Levels : level <= 100
      BY BatteryAssumption
    <3>2. 100 \in Nat
      OBVIOUS
    <3> QED
      BY <3>1, <3>2, LevelFacts, FS_BoundedSetOfNaturals
  <2> QED
    BY <2>1, BatteryAssumption, LevelFacts, MaxOfFinite
<1>2. "normal" \in Temperatures /\ <<>> \in Seq(TaskStages)
  BY DEF Temperatures
<1> QED
  BY <1>1, <1>2 DEF BatteryInit, BatteryIInv, BatteryTyped, BatteryRec, CellRec, BatAppRec, NoticesRec,
                    LowPowerOwed

\* For any levels that are reported, however many marks are passed between
\* two reports: a user whose battery was above the marks is told when it is
\* low, or will be at the next wake-up (handleFloraInfo and the delegates of
\* the wake-up).
THEOREM LowPowerTold == BatterySpec => []BatteryInv
<1>1. BatteryIInv => BatteryInv
  BY BatteryTypes DEF BatteryIInv, BatteryInv
<1>2. BatteryIInv /\ [BatteryNext]_batteryVars => BatteryIInv'
  <2> SUFFICES ASSUME BatteryIInv, [BatteryNext]_batteryVars PROVE BatteryIInv'
    OBVIOUS
  <2>1. CASE TenMinutesPass
    BY <2>1 DEF TenMinutesPass, BatteryIInv, BatteryTyped, BatteryRec, LowPowerOwed
  <2>2. CASE FrontAppComesOrGoes
    BY <2>2 DEF FrontAppComesOrGoes, BatteryIInv, BatteryTyped, CellRec, LowPowerOwed
  <2>3. CASE UNCHANGED batteryVars
    BY <2>3 DEF batteryVars, BatteryIInv, BatteryTyped, LowPowerOwed
  <2> QED
    BY <2>1, <2>2, <2>3, FloraInfoStep, SwitchStep, WakeUpStep, BatteryAppStep DEF BatteryNext
<1> QED
  BY <1>1, <1>2, BatteryInitInv, PTL DEF BatterySpec

-----------------------------------------------------------------------------
(***************************************************************************)
(* lightd: the layers, what they resume and who is answered                *)
(***************************************************************************)

PrevRec == {NoPrev} \cup [app : LightApps, uri : Lights,
                          z : SystemLayers \cup UserLayers, play : 0 .. MaxPlays]
CallbackRec == [kind : {"none", "noop", "fresh", "called"}, play : 0 .. MaxPlays]
LightRec == [system : [SystemLayers -> Layer \cup {NoLayer}],
             user : [UserLayers -> Layer \cup {NoLayer}],
             prev : PrevRec, callback : CallbackRec, timer : BOOLEAN,
             dones : SUBSET Plays, answers : [Plays -> 0 .. 2], plays : 0 .. MaxPlays]

\* Whoever has asked is answered, but for the asker of the light that runs.
Pending(l, n) == l.callback.kind = "fresh" /\ l.callback.play = n

\* but for x, who has just asked.
AnswersBut(l, x) ==
    /\ l.callback.kind = "fresh" => l.callback.play \in 1 .. l.plays /\ l.callback.play # x
    /\ \A n \in Plays : l.answers[n] = IF n > l.plays \/ n = x \/ Pending(l, n) THEN 0 ELSE 1

AnswersRight(l) == AnswersBut(l, 0)

\* The layers that wait are below p, and those of the system are its lights.
Below(p, l) ==
    /\ \A z \in SystemLayers : l.system[z] # NoLayer => p.uri \in SystemLights /\ p.z <= z
    /\ \A z \in UserLayers : l.user[z] # NoLayer => p.uri \in SystemLights \/ p.z >= z

SystemOwns(l) == \A z \in SystemLayers : l.system[z] # NoLayer => l.system[z].uri \in SystemLights

NoLayers(l) ==
    /\ \A z \in SystemLayers : l.system[z] = NoLayer
    /\ \A z \in UserLayers : l.user[z] = NoLayer

Ordered(l) ==
    /\ l.prev.uri # Dark => Below(l.prev, l)
    /\ l.prev.uri = Dark => NoLayers(l)

LightSound(l) == l \in LightRec /\ AnswersRight(l) /\ SystemOwns(l) /\ Ordered(l)

LightIInv == LightSound(light)
-----------------------------------------------------------------------------
LEMMA LightFacts ==
    /\ MaxPlays \in Nat
    /\ SystemLayers \in SUBSET Nat /\ IsFiniteSet(SystemLayers)
    /\ \A u \in SystemLights : SystemZ[u] \in SystemLayers
    /\ UserLayers \in SUBSET Nat /\ IsFiniteSet(UserLayers)
    /\ NoLayer.uri = Dark /\ NoPrev.uri = Dark
    /\ \A y \in Layer : y # NoLayer /\ y.uri # Dark
<1> DEFINE R == Range(SystemZ)
           S == {0} \cup R
           highest == Max(S)
<1>1. SystemZ \in [DOMAIN SystemZ -> Nat] /\ IsFiniteSet(DOMAIN SystemZ)
  BY LightAssumption
<1>2. R \subseteq Nat /\ SystemZ \in Surjection(DOMAIN SystemZ, R) /\ \A u \in DOMAIN SystemZ : SystemZ[u] \in R
  BY <1>1 DEF Range, Surjection
<1>3. IsFiniteSet(R)
  BY <1>1, <1>2, FS_Surjection
<1> HIDE DEF R
<1>4. IsFiniteSet(S) /\ 0 \in S /\ S \subseteq Nat
  BY <1>2, <1>3, FS_AddElement
<1> HIDE DEF S
<1>5. highest \in Nat /\ \A y \in S : y <= highest
  <2>1. S \in SUBSET Int /\ S # {} /\ IsFiniteSet(S)
    BY <1>4
  <2>2. Max(S) \in S /\ \A y \in S : y <= Max(S)
    BY <2>1, MaxOfFinite
  <2> QED
    BY <1>4, <2>2
<1>6. SystemLayers = 0 .. highest
  BY DEF SystemLayers, S, R
<1> HIDE DEF highest
<1>7. SystemLayers \in SUBSET Nat /\ IsFiniteSet(SystemLayers)
  <2>1. \A y \in SystemLayers : y <= highest
    BY <1>5, <1>6
  <2>2. SystemLayers \in SUBSET Nat
    BY <1>6
  <2> QED
    BY <1>5, <2>1, <2>2, FS_BoundedSetOfNaturals
<1>8. \A u \in SystemLights : SystemZ[u] \in SystemLayers
  <2> TAKE u \in SystemLights
  <2>1. SystemZ[u] \in S /\ SystemZ[u] \in Nat
    BY <1>2, <1>4 DEF S, SystemLights
  <2> QED
    BY <1>5, <1>6, <2>1
<1>9. UserLayers \in SUBSET Nat /\ IsFiniteSet(UserLayers)
  <2>1. \A y \in UserLayers : y <= 2
    BY DEF UserLayers
  <2>2. UserLayers \in SUBSET Nat
    BY DEF UserLayers
  <2> QED
    BY <2>1, <2>2, FS_BoundedSetOfNaturals
<1>10. /\ NoLayer.uri = Dark /\ NoPrev.uri = Dark
       /\ \A y \in Layer : y # NoLayer /\ y.uri # Dark
  BY LightAssumption DEF NoLayer, NoPrev, Layer
<1> QED
  BY <1>7, <1>8, <1>9, <1>10, LightAssumption

\* The highest of the layers that are in use.
LEMMA Highest ==
    /\ \A s \in SUBSET SystemLayers : s # {} => Min(s) \in s /\ \A z \in s : z >= Min(s)
    /\ \A w \in SUBSET UserLayers : w # {} => Max(w) \in w /\ \A z \in w : z <= Max(w)
<1>1. ASSUME NEW s \in SUBSET SystemLayers, s # {}
      PROVE  Min(s) \in s /\ \A z \in s : z >= Min(s)
  <2>1. IsFiniteSet(SystemLayers) /\ SystemLayers \in SUBSET Nat
    BY LightFacts
  <2>2. IsFiniteSet(s)
    BY <2>1, FS_Subset
  <2>3. s \in SUBSET Int
    BY <2>1
  <2> QED
    BY <1>1, <2>2, <2>3, MinOfFinite
<1>2. ASSUME NEW w \in SUBSET UserLayers, w # {}
      PROVE  Max(w) \in w /\ \A z \in w : z <= Max(w)
  <2>1. IsFiniteSet(UserLayers) /\ UserLayers \in SUBSET Nat
    BY LightFacts
  <2>2. IsFiniteSet(w)
    BY <2>1, FS_Subset
  <2>3. w \in SUBSET Int
    BY <2>1
  <2> QED
    BY <1>2, <2>2, <2>3, MaxOfFinite
<1> QED
  BY <1>1, <1>2

LEMMA AnsweredLight ==
    ASSUME NEW l \in LightRec, NEW n \in Plays
    PROVE  /\ Answered(l, n) \in LightRec
           /\ Answered(l, n).system = l.system /\ Answered(l, n).user = l.user
           /\ Answered(l, n).prev = l.prev /\ Answered(l, n).callback = l.callback
           /\ Answered(l, n).plays = l.plays /\ Answered(l, n).dones = l.dones
           /\ Answered(l, n).timer = l.timer
           /\ \A m \in Plays : m # n => Answered(l, n).answers[m] = l.answers[m]
           /\ l.answers[n] = 0 => Answered(l, n).answers[n] = 1
<1> DEFINE b == IF l.answers[n] < 2 THEN l.answers[n] + 1 ELSE 2
           g == [l.answers EXCEPT ![n] = b]
<1>1. l.answers \in [Plays -> 0 .. 2] /\ l.answers[n] \in 0 .. 2
  BY DEF LightRec
<1>2. b \in 0 .. 2
  BY <1>1
<1>3. /\ g \in [Plays -> 0 .. 2] /\ g[n] = b
      /\ \A m \in Plays : m # n => g[m] = l.answers[m]
  <2> HIDE DEF b
  <2> QED
    BY <1>1, <1>2
<1>4. Answered(l, n) = [l EXCEPT !.answers = g]
  BY DEF Answered, LightRec
<1>5. l.answers[n] = 0 => b = 1
  OBVIOUS
<1> HIDE DEF g, b
<1> QED
  BY <1>3, <1>4, <1>5 DEF LightRec

LEMMA CallPrevLight ==
    ASSUME NEW l \in LightRec, NEW x, AnswersBut(l, x)
    PROVE  /\ CallPrev(l) \in LightRec /\ AnswersBut(CallPrev(l), x)
           /\ CallPrev(l).callback.kind # "fresh"
           /\ CallPrev(l).system = l.system /\ CallPrev(l).user = l.user
           /\ CallPrev(l).prev = l.prev /\ CallPrev(l).plays = l.plays
           /\ CallPrev(l).dones = l.dones
<1>1. CASE l.callback.kind # "fresh"
  BY <1>1 DEF CallPrev
<1>2. CASE l.callback.kind = "fresh"
  <2> DEFINE n == l.callback.play
             c == Answered(l, n)
             k == [c.callback EXCEPT !.kind = "called"]
  <2>1. /\ n \in 1 .. l.plays /\ n # x /\ l.callback \in CallbackRec /\ l.plays \in 0 .. MaxPlays
        /\ \A m \in Plays : l.answers[m] = IF m > l.plays \/ m = x \/ m = n THEN 0 ELSE 1
    BY <1>2 DEF AnswersBut, Pending, LightRec
  <2>2. n \in Plays /\ n <= l.plays /\ l.answers[n] = 0
    BY <2>1, LightFacts DEF Plays
  <2>3. /\ c \in LightRec /\ c.system = l.system /\ c.user = l.user /\ c.prev = l.prev
        /\ c.callback = l.callback /\ c.plays = l.plays /\ c.dones = l.dones
        /\ \A m \in Plays : c.answers[m] = IF m > l.plays \/ m = x THEN 0 ELSE 1
    <3> HIDE DEF n
    <3>1. /\ \A m \in Plays : m # n => c.answers[m] = l.answers[m]
          /\ c.answers[n] = 1
      BY <2>2, AnsweredLight
    <3>2. \A m \in Plays : c.answers[m] = IF m > l.plays \/ m = x THEN 0 ELSE 1
      <4> TAKE m \in Plays
      <4>1. m \in Nat /\ l.plays \in Nat /\ n \in Nat
        BY <2>1, <2>2, LightFacts DEF Plays
      <4> QED
        BY <2>1, <2>2, <3>1, <4>1
    <3> QED
      BY <2>2, <3>2, AnsweredLight
  <2> HIDE DEF c
  <2>4. k \in CallbackRec /\ k.kind = "called"
    BY <2>1, <2>3 DEF CallbackRec
  <2>5. CallPrev(l) = [c EXCEPT !.timer = TRUE, !.callback = k]
    <3>1. CallPrev(l) = [c EXCEPT !.timer = TRUE, !.callback.kind = "called"]
      BY <1>2 DEF CallPrev, c
    <3> QED
      BY <3>1, <2>3 DEF LightRec
  <2> HIDE DEF k, n
  <2>6. /\ CallPrev(l) \in LightRec
        /\ CallPrev(l).system = c.system /\ CallPrev(l).user = c.user
        /\ CallPrev(l).prev = c.prev /\ CallPrev(l).callback = k
        /\ CallPrev(l).plays = c.plays /\ CallPrev(l).dones = c.dones
        /\ CallPrev(l).answers = c.answers
    BY <2>3, <2>4, <2>5 DEF LightRec
  <2> QED
    BY <2>3, <2>4, <2>6 DEF AnswersBut, Pending
<1> QED
  BY <1>1, <1>2

\* A light that is stopped leaves nobody unanswered and the layers as they are.
LEMMA StopPrevLight ==
    ASSUME NEW l \in LightRec, NEW x, AnswersBut(l, x)
    PROVE  /\ StopPrev(l) \in LightRec /\ AnswersBut(StopPrev(l), x)
           /\ StopPrev(l).callback = NoCallback
           /\ StopPrev(l).system = l.system /\ StopPrev(l).user = l.user
           /\ StopPrev(l).prev = NoPrev /\ StopPrev(l).plays = l.plays
<1> DEFINE c == CallPrev(l)
           d == IF l.prev.uri \in CallsBack THEN c.dones \cup ({l.prev.play} \ {0}) ELSE c.dones
<1>1. /\ c \in LightRec /\ AnswersBut(c, x) /\ c.callback.kind # "fresh"
      /\ c.system = l.system /\ c.user = l.user /\ c.prev = l.prev /\ c.plays = l.plays
  BY CallPrevLight
<1>2. StopPrev(l) = [c EXCEPT !.callback = NoCallback, !.prev = NoPrev, !.dones = d]
  BY <1>1 DEF StopPrev, LightRec
<1> HIDE DEF c
<1>3. d \in SUBSET Plays
  <2>1. l.prev \in PrevRec /\ c.dones \in SUBSET Plays
    BY <1>1 DEF LightRec
  <2>2. l.prev.play \in 0 .. MaxPlays
    BY <2>1, LightFacts DEF PrevRec, NoPrev
  <2> QED
    BY <2>1, <2>2, LightFacts DEF Plays
<1>4. NoCallback \in CallbackRec /\ NoCallback.kind = "none" /\ NoPrev \in PrevRec
  BY LightFacts DEF NoCallback, CallbackRec, PrevRec
<1> HIDE DEF d
<1>5. /\ StopPrev(l) \in LightRec
      /\ StopPrev(l).callback = NoCallback /\ StopPrev(l).prev = NoPrev
      /\ StopPrev(l).system = c.system /\ StopPrev(l).user = c.user
      /\ StopPrev(l).plays = c.plays /\ StopPrev(l).answers = c.answers
  BY <1>1, <1>2, <1>3, <1>4 DEF LightRec
<1> QED
  BY <1>1, <1>4, <1>5 DEF AnswersBut, Pending
\* Of the layers, some may be given up.
Fewer(m, l) ==
    /\ \A z \in SystemLayers : m.system[z] \in {l.system[z], NoLayer}
    /\ \A z \in UserLayers : m.user[z] \in {l.user[z], NoLayer}

LEMMA FewerLayers ==
    ASSUME NEW l, NEW m, Fewer(m, l)
    PROVE  /\ SystemOwns(l) => SystemOwns(m)
           /\ NoLayers(l) => NoLayers(m)
           /\ \A p : Below(p, l) => Below(p, m)
BY DEF Fewer, SystemOwns, NoLayers, Below

LEMMA RemovedLayer ==
    ASSUME NEW l \in LightRec, NEW u \in Lights
    PROVE  LET m == RemoveLayerByUri(l, u)
           IN  /\ m \in LightRec /\ Fewer(m, l)
               /\ m.prev = l.prev /\ m.callback = l.callback /\ m.timer = l.timer
               /\ m.dones = l.dones /\ m.answers = l.answers /\ m.plays = l.plays
<1>1. /\ l.system \in [SystemLayers -> Layer \cup {NoLayer}]
      /\ l.user \in [UserLayers -> Layer \cup {NoLayer}]
  BY DEF LightRec
<1>2. ASSUME NEW i, NEW m, m = [l EXCEPT !.system[i] = NoLayer]
      PROVE  /\ m \in LightRec /\ Fewer(m, l)
             /\ m.prev = l.prev /\ m.callback = l.callback /\ m.timer = l.timer
             /\ m.dones = l.dones /\ m.answers = l.answers /\ m.plays = l.plays
  <2> DEFINE g == [l.system EXCEPT ![i] = NoLayer]
  <2>1. g \in [SystemLayers -> Layer \cup {NoLayer}] /\ \A z \in SystemLayers : g[z] \in {l.system[z], NoLayer}
    BY <1>1
  <2>2. m = [l EXCEPT !.system = g]
    BY <1>2 DEF LightRec
  <2> HIDE DEF g
  <2> QED
    BY <2>1, <2>2 DEF LightRec, Fewer
<1>3. ASSUME NEW i, NEW m, m = [l EXCEPT !.user[i] = NoLayer]
      PROVE  /\ m \in LightRec /\ Fewer(m, l)
             /\ m.prev = l.prev /\ m.callback = l.callback /\ m.timer = l.timer
             /\ m.dones = l.dones /\ m.answers = l.answers /\ m.plays = l.plays
  <2> DEFINE g == [l.user EXCEPT ![i] = NoLayer]
  <2>1. g \in [UserLayers -> Layer \cup {NoLayer}] /\ \A z \in UserLayers : g[z] \in {l.user[z], NoLayer}
    BY <1>1
  <2>2. m = [l EXCEPT !.user = g]
    BY <1>3 DEF LightRec
  <2> HIDE DEF g
  <2> QED
    BY <2>1, <2>2 DEF LightRec, Fewer
<1> DEFINE m == RemoveLayerByUri(l, u)
<1>4. m = l \/ (\E i : m = [l EXCEPT !.system[i] = NoLayer]) \/ (\E i : m = [l EXCEPT !.user[i] = NoLayer])
  BY DEF RemoveLayerByUri
<1>5. CASE m = l
  BY <1>5 DEF Fewer
<1> QED
  BY <1>2, <1>3, <1>4, <1>5

\* A light that waits is put into its layer.
LEMMA SetResumeLight ==
    ASSUME NEW l \in LightRec, NEW a \in LightApps, NEW u \in Lights, NEW z \in Nat,
           IF u \in SystemLights THEN z \in SystemLayers ELSE z \in UserLayers
    PROVE  LET m == SetResume(l, a, u, z)
           IN  /\ m \in LightRec
               /\ m.prev = l.prev /\ m.callback = l.callback /\ m.timer = l.timer
               /\ m.dones = l.dones /\ m.answers = l.answers /\ m.plays = l.plays
               /\ SystemOwns(l) => SystemOwns(m)
               /\ \A p : /\ Below(p, l)
                         /\ IF u \in SystemLights THEN p.uri \in SystemLights /\ p.z <= z
                            ELSE p.uri \in SystemLights \/ p.z >= z
                         => Below(p, m)
<1> DEFINE m == SetResume(l, a, u, z)
           y == [app |-> a, uri |-> u]
<1>1. /\ l.system \in [SystemLayers -> Layer \cup {NoLayer}]
      /\ l.user \in [UserLayers -> Layer \cup {NoLayer}]
      /\ y \in Layer \cup {NoLayer} /\ y.uri = u
  BY DEF LightRec, Layer
<1>2. CASE u \in MissingLights
  <2>1. m = l
    BY <1>2 DEF SetResume
  <2> HIDE DEF m
  <2> QED
    BY <2>1 DEF m
<1>3. CASE u \notin MissingLights /\ u \in SystemLights
  <2> DEFINE g == [l.system EXCEPT ![z] = y]
  <2> HIDE DEF y
  <2>1. /\ g \in [SystemLayers -> Layer \cup {NoLayer}]
        /\ \A x \in SystemLayers : g[x] = IF x = z THEN y ELSE l.system[x]
    BY <1>1, <1>3
  <2>2. m = [l EXCEPT !.system = g]
    BY <1>3 DEF SetResume, LightRec, y
  <2> HIDE DEF g, m
  <2>3. /\ m \in LightRec /\ m.system = g /\ m.user = l.user
        /\ m.prev = l.prev /\ m.callback = l.callback /\ m.timer = l.timer
        /\ m.dones = l.dones /\ m.answers = l.answers /\ m.plays = l.plays
    BY <2>1, <2>2 DEF LightRec
  <2>4. SystemOwns(l) => SystemOwns(m)
    BY <1>1, <1>3, <2>1, <2>3 DEF SystemOwns
  <2>5. \A p : Below(p, l) /\ p.uri \in SystemLights /\ p.z <= z => Below(p, m)
    BY <2>1, <2>3 DEF Below
  <2> QED
    BY <1>3, <2>3, <2>4, <2>5 DEF m
<1>4. CASE u \notin MissingLights /\ u \notin SystemLights
  <2> DEFINE g == [l.user EXCEPT ![z] = y]
  <2> HIDE DEF y
  <2>1. /\ g \in [UserLayers -> Layer \cup {NoLayer}]
        /\ \A x \in UserLayers : g[x] = IF x = z THEN y ELSE l.user[x]
    BY <1>1, <1>4
  <2>2. m = [l EXCEPT !.user = g]
    BY <1>4 DEF SetResume, LightRec, y
  <2> HIDE DEF g, m
  <2>3. /\ m \in LightRec /\ m.system = l.system /\ m.user = g
        /\ m.prev = l.prev /\ m.callback = l.callback /\ m.timer = l.timer
        /\ m.dones = l.dones /\ m.answers = l.answers /\ m.plays = l.plays
    BY <2>1, <2>2 DEF LightRec
  <2>4. SystemOwns(l) => SystemOwns(m)
    BY <2>3 DEF SystemOwns
  <2>5. \A p : Below(p, l) /\ (p.uri \in SystemLights \/ p.z >= z) => Below(p, m)
    BY <2>1, <2>3 DEF Below
  <2> QED
    BY <1>4, <2>3, <2>4, <2>5 DEF m
<1> QED
  BY <1>2, <1>3, <1>4

\* Of the lights that wait the highest is shown, or there is none.
LEMMA ResumeLayerLight ==
    ASSUME FaultyLights = {}, NEW l \in LightRec, AnswersRight(l), SystemOwns(l)
    PROVE  LightSound(ResumeLayer(l))
<1> DEFINE s == {z \in SystemLayers : l.system[z] # NoLayer}
           w == {z \in UserLayers : l.user[z] # NoLayer}
           z == IF s # {} THEN Min(s) ELSE Max(w)
           layer == IF s # {} THEN l.system[z] ELSE l.user[z]
           stopped == StopPrev(l)
           noop == [kind |-> "noop", play |-> 0]
           staying == [stopped EXCEPT !.callback = noop]
           p == [app |-> layer.app, uri |-> layer.uri, z |-> z, play |-> 0]
           m == ResumeLayer(l)
<1>1. /\ stopped \in LightRec /\ AnswersRight(stopped)
      /\ stopped.callback = NoCallback
      /\ stopped.system = l.system /\ stopped.user = l.user
      /\ stopped.prev = NoPrev /\ stopped.plays = l.plays
  BY StopPrevLight DEF AnswersRight
<1> HIDE DEF stopped
<1>2. CASE s = {} /\ w = {}
  <2>1. m = stopped
    BY <1>2 DEF ResumeLayer, stopped
  <2>2. NoLayers(stopped)
    BY <1>1, <1>2 DEF NoLayers
  <2>3. SystemOwns(stopped) /\ NoPrev.uri = Dark
    BY <1>1, LightFacts DEF SystemOwns
  <2> HIDE DEF m
  <2> QED
    BY <1>1, <2>1, <2>2, <2>3 DEF LightSound, Ordered, m
<1>3. CASE ~(s = {} /\ w = {})
  <2>1. m = [staying EXCEPT !.prev = p]
    BY <1>3 DEF ResumeLayer, stopped
  <2>2. s \in SUBSET SystemLayers /\ w \in SUBSET UserLayers
    OBVIOUS
  <2>3. \/ /\ s # {} /\ z \in s /\ (\A x \in s : x >= z) /\ layer = l.system[z]
        \/ /\ s = {} /\ z \in w /\ (\A x \in w : x <= z) /\ layer = l.user[z]
    BY <1>3, <2>2, Highest
  <2>4. layer \in Layer /\ z \in SystemLayers \cup UserLayers
    BY <2>3 DEF LightRec
  <2>5. s # {} => layer.uri \in SystemLights
    BY <2>3 DEF SystemOwns
  <2>6. layer.app \in LightApps /\ layer.uri \in Lights /\ layer.uri # Dark
    BY <2>4, LightFacts DEF Layer
  <2> HIDE DEF layer, z, s, w
  <2>7. p \in PrevRec /\ p.uri = layer.uri /\ p.z = z /\ noop \in CallbackRec /\ noop.kind = "noop"
    BY <2>4, <2>6, LightFacts DEF PrevRec, CallbackRec
  <2> HIDE DEF p, noop, m
  <2>8. /\ m \in LightRec /\ m.prev = p /\ m.callback = noop
        /\ m.system = l.system /\ m.user = l.user /\ m.plays = l.plays
        /\ m.answers = stopped.answers
    BY <1>1, <2>1, <2>7 DEF LightRec
  <2>9. AnswersRight(m)
    BY <1>1, <2>7, <2>8 DEF AnswersRight, AnswersBut, Pending, NoCallback
  <2>10. SystemOwns(m)
    BY <2>8 DEF SystemOwns
  <2>11. Below(p, m)
    BY <2>3, <2>5, <2>7, <2>8 DEF Below, s, w
  <2> QED
    BY <2>6, <2>7, <2>8, <2>9, <2>10, <2>11 DEF LightSound, Ordered, m
<1> QED
  BY <1>2, <1>3
-----------------------------------------------------------------------------
(* The steps *)

\* The request numbered n has just come.
PlayAsked(l, n) == l.plays = n /\ AnswersBut(l, n)

LEMMA AnsweredNow ==
    ASSUME NEW l \in LightRec, NEW n \in Plays, PlayAsked(l, n)
    PROVE  AnswersRight(Answered(l, n))
<1>1. n \in Nat /\ \A m \in Plays : m # 0
  BY LightFacts DEF Plays
<1>2. l.callback.kind = "fresh" => l.callback.play \in 1 .. n /\ l.callback.play # n /\ l.callback.play # 0
  BY <1>1 DEF PlayAsked, AnswersBut
<1>3. \A m \in Plays : Answered(l, n).answers[m] = IF m > n \/ Pending(l, m) THEN 0 ELSE 1
  <2> TAKE m \in Plays
  <2>1. l.answers[m] = IF m > n \/ m = n \/ Pending(l, m) THEN 0 ELSE 1
    BY DEF PlayAsked, AnswersBut
  <2>2. CASE m = n
    BY <1>1, <1>2, <2>1, <2>2, AnsweredLight DEF Pending
  <2>3. CASE m # n
    BY <2>1, <2>3, AnsweredLight
  <2> QED
    BY <2>2, <2>3
<1>4. Answered(l, n).callback = l.callback /\ Answered(l, n).plays = n
  BY AnsweredLight DEF PlayAsked
<1> QED
  BY <1>1, <1>2, <1>3, <1>4 DEF AnswersRight, AnswersBut, Pending

\* A light that is drawn is above those that wait.
LEMMA RenderLight ==
    ASSUME FaultyLights = {}, NEW l \in LightRec, NEW n \in Plays, PlayAsked(l, n), SystemOwns(l),
           NEW a \in LightApps, NEW u \in Lights, NEW z \in Nat, NEW resume \in BOOLEAN,
           IF u \in SystemLights THEN z \in SystemLayers ELSE z \in UserLayers,
           \A p : p.uri = u /\ p.z = z => Below(p, l)
    PROVE  LightSound(Render(l, n, a, u, z, resume))
<1> DEFINE before == StopPrev(l)
           stopped == [before EXCEPT !.timer = FALSE]
           noop == [kind |-> "noop", play |-> 0]
           fresh == [kind |-> "fresh", play |-> n]
           silent == [stopped EXCEPT !.callback = noop]
           put == SetResume(silent, a, u, z)
           stored == IF resume THEN Answered(put, n) ELSE [stopped EXCEPT !.callback = fresh]
           p == [app |-> a, uri |-> u, z |-> z, play |-> n]
           m == Render(l, n, a, u, z, resume)
<1>1. m = [stored EXCEPT !.prev = p]
  BY DEF Render
<1>2. /\ before \in LightRec /\ before.plays = n /\ before.callback.kind = "none"
      /\ before.system = l.system /\ before.user = l.user
      /\ \A x \in Plays : before.answers[x] = IF x > n \/ x = n THEN 0 ELSE 1
  <2>1. AnswersBut(l, n) /\ l.plays = n
    BY DEF PlayAsked
  <2>2. /\ before \in LightRec /\ before.plays = n /\ before.callback = NoCallback
        /\ before.system = l.system /\ before.user = l.user /\ AnswersBut(before, n)
    BY <2>1, StopPrevLight
  <2>3. before.callback.kind = "none"
    BY <2>2 DEF NoCallback
  <2> QED
    BY <2>2, <2>3 DEF AnswersBut, Pending
<1>3. /\ p \in PrevRec /\ p.uri = u /\ p.z = z /\ u # Dark
      /\ noop \in CallbackRec /\ noop.kind = "noop"
      /\ fresh \in CallbackRec /\ fresh.kind = "fresh" /\ fresh.play = n
      /\ n \in Nat /\ n # 0 /\ \A x \in Plays : x # 0
  BY LightFacts, LightAssumption DEF PrevRec, CallbackRec, Plays
<1>4. Below(p, l)
  BY <1>3
<1> HIDE DEF before, p, noop, fresh, m
<1>5. /\ stored \in LightRec /\ stored.plays = n /\ AnswersRight(stored)
      /\ SystemOwns(stored) /\ Below(p, stored)
  <2>1. CASE resume
    <3>1. /\ silent \in LightRec /\ silent.plays = n /\ silent.callback = noop
          /\ silent.system = l.system /\ silent.user = l.user /\ silent.answers = before.answers
      BY <1>2, <1>3 DEF LightRec
    <3> HIDE DEF silent
    <3>2. SystemOwns(silent) /\ Below(p, silent)
      BY <1>4, <3>1 DEF SystemOwns, Below
    <3>3. IF u \in SystemLights THEN p.uri \in SystemLights /\ p.z <= z
          ELSE p.uri \in SystemLights \/ p.z >= z
      BY <1>3
    <3>4. /\ put \in LightRec /\ put.plays = n /\ put.callback = noop
          /\ put.answers = before.answers /\ SystemOwns(put) /\ Below(p, put)
      BY <3>1, <3>2, <3>3, SetResumeLight
    <3> HIDE DEF put
    <3>5. PlayAsked(put, n)
      BY <1>2, <1>3, <3>4 DEF PlayAsked, AnswersBut, Pending
    <3>6. stored = Answered(put, n)
      BY <2>1
    <3> HIDE DEF stored
    <3>7. /\ stored \in LightRec /\ stored.plays = n /\ AnswersRight(stored)
          /\ stored.system = put.system /\ stored.user = put.user
      BY <3>4, <3>5, <3>6, AnsweredLight, AnsweredNow
    <3> QED
      BY <3>4, <3>7 DEF SystemOwns, Below
  <2>2. CASE ~resume
    <3>1. stored = [stopped EXCEPT !.callback = fresh]
      BY <2>2
    <3> HIDE DEF stored
    <3>2. /\ stored \in LightRec /\ stored.plays = n /\ stored.callback = fresh
          /\ stored.system = l.system /\ stored.user = l.user /\ stored.answers = before.answers
      BY <1>2, <1>3, <3>1 DEF LightRec
    <3>3. SystemOwns(stored) /\ Below(p, stored)
      BY <1>4, <3>2 DEF SystemOwns, Below
    <3>4. AnswersRight(stored)
      BY <1>2, <1>3, <3>2 DEF AnswersRight, AnswersBut, Pending
    <3> QED
      BY <3>2, <3>3, <3>4
  <2> QED
    BY <2>1, <2>2
<1> HIDE DEF stored
<1>6. /\ m \in LightRec /\ m.plays = stored.plays /\ m.callback = stored.callback
      /\ m.answers = stored.answers /\ m.system = stored.system /\ m.user = stored.user
      /\ m.prev = p
  BY <1>1, <1>3, <1>5 DEF LightRec
<1>7. AnswersRight(m) /\ SystemOwns(m) /\ Below(p, m)
  BY <1>5, <1>6 DEF AnswersRight, AnswersBut, Pending, SystemOwns, Below
<1> QED
  BY <1>3, <1>6, <1>7 DEF LightSound, Ordered, m
LEMMA LoadfileStep ==
    ASSUME FaultyLights = {}, LightIInv, NEW a \in LightApps, NEW u \in Lights,
           NEW zIndex \in UserLayers, NEW resume \in BOOLEAN, Loadfile(a, u, zIndex, resume)
    PROVE  LightIInv'
<1> DEFINE n == light.plays + 1
           z == IF u \in SystemLights THEN SystemZ[u] ELSE zIndex
           k == IF resume THEN light ELSE RemoveLayerByUri(light, u)
           l == [k EXCEPT !.plays = n]
           m == IF resume THEN SetResume(l, a, u, z) ELSE l
<1>1. /\ light \in LightRec /\ AnswersBut(light, 0) /\ SystemOwns(light) /\ Ordered(light)
      /\ light.plays \in 0 .. MaxPlays /\ light.plays < MaxPlays
  BY DEF LightIInv, LightSound, AnswersRight, LightRec, Loadfile
<1>2. /\ n \in Plays /\ n \in 0 .. MaxPlays /\ n \in Nat
      /\ \A x \in Plays : x # 0 /\ (x > light.plays <=> x > n \/ x = n)
  BY <1>1, LightFacts DEF Plays
<1>3. light' = CASE ~CanRender(l, u, z) -> Answered(m, n)
                 [] CanRender(l, u, z) /\ u \in MissingLights -> Answered(l, n)
                 [] OTHER -> Render(l, n, a, u, z, resume)
  BY DEF Loadfile
<1>4. light' = IF ~CanRender(l, u, z) THEN Answered(m, n)
               ELSE IF u \in MissingLights THEN Answered(l, n)
               ELSE Render(l, n, a, u, z, resume)
  <2> HIDE DEF l, m, n, z
  <2> QED
    BY <1>3
<1>5. z \in Nat /\ IF u \in SystemLights THEN z \in SystemLayers ELSE z \in UserLayers
  BY LightFacts
<1>6. /\ k \in LightRec /\ Fewer(k, light) /\ k.prev = light.prev /\ k.callback = light.callback
      /\ k.answers = light.answers /\ k.plays = light.plays
  BY <1>1, RemovedLayer DEF Fewer
<1> HIDE DEF k, n
<1>7. /\ l \in LightRec /\ l.plays = n /\ l.prev = light.prev /\ l.callback = light.callback
      /\ l.answers = light.answers /\ l.system = k.system /\ l.user = k.user
  BY <1>2, <1>6 DEF LightRec
<1>8. PlayAsked(l, n)
  <2>1. light.callback.kind = "fresh" => light.callback.play \in 1 .. n /\ light.callback.play # n
    BY <1>1, LightFacts DEF AnswersBut, n
  <2>2. \A x \in Plays : light.answers[x] = IF x > n \/ x = n \/ Pending(light, x) THEN 0 ELSE 1
    BY <1>1, <1>2 DEF AnswersBut
  <2> HIDE DEF l
  <2> QED
    BY <1>7, <2>1, <2>2 DEF PlayAsked, AnswersBut, Pending
<1> HIDE DEF l
<1>9. SystemOwns(l) /\ Ordered(l)
  <2>1. SystemOwns(k) /\ (NoLayers(light) => NoLayers(k)) /\ (\A p : Below(p, light) => Below(p, k))
    BY <1>1, <1>6, FewerLayers
  <2> QED
    BY <1>1, <1>7, <2>1 DEF SystemOwns, Ordered, NoLayers, Below
<1>10. ASSUME NEW x \in LightRec, PlayAsked(x, n), SystemOwns(x), Ordered(x)
       PROVE  LightSound(Answered(x, n))
  <2>1. /\ Answered(x, n) \in LightRec /\ AnswersRight(Answered(x, n))
        /\ Answered(x, n).system = x.system /\ Answered(x, n).user = x.user
        /\ Answered(x, n).prev = x.prev
    BY <1>2, <1>10, AnsweredLight, AnsweredNow
  <2> QED
    BY <1>10, <2>1 DEF LightSound, SystemOwns, Ordered, NoLayers, Below
<1>11. CASE ~CanRender(l, u, z)
  <2>1. l.prev.uri # Dark /\ Below(l.prev, l)
    BY <1>9, <1>11 DEF CanRender, Ordered
  <2>2. IF u \in SystemLights THEN l.prev.uri \in SystemLights /\ l.prev.z <= z
        ELSE l.prev.uri \in SystemLights \/ l.prev.z >= z
    <3>1. l.prev \in PrevRec /\ l.prev # NoPrev
      BY <1>7, <2>1, LightFacts DEF LightRec
    <3>2. l.prev.z \in Nat
      BY <3>1, LightFacts DEF PrevRec
    <3> QED
      BY <1>5, <1>11, <3>2 DEF CanRender
  <2>3. m \in LightRec /\ PlayAsked(m, n) /\ SystemOwns(m) /\ Ordered(m)
    <3>1. CASE resume
      <4> DEFINE r == SetResume(l, a, u, z)
      <4>1. /\ r \in LightRec /\ r.prev = l.prev /\ r.callback = l.callback
            /\ r.answers = l.answers /\ r.plays = l.plays /\ SystemOwns(r) /\ Below(l.prev, r)
        BY <1>5, <1>7, <1>9, <2>1, <2>2, SetResumeLight
      <4> HIDE DEF r
      <4>2. PlayAsked(r, n) /\ Ordered(r)
        BY <1>8, <2>1, <4>1 DEF PlayAsked, AnswersBut, Pending, Ordered
      <4> QED
        BY <3>1, <4>1, <4>2 DEF r
    <3>2. CASE ~resume
      BY <1>7, <1>8, <1>9, <3>2
    <3> QED
      BY <3>1, <3>2
  <2> QED
    BY <1>4, <1>10, <1>11, <2>3 DEF LightIInv
<1>12. CASE CanRender(l, u, z) /\ u \in MissingLights
  BY <1>4, <1>7, <1>8, <1>9, <1>10, <1>12 DEF LightIInv
<1>13. CASE CanRender(l, u, z) /\ u \notin MissingLights
  <2>1. ASSUME NEW p, p.uri = u, p.z = z PROVE Below(p, l)
    <3>1. CASE l.prev.uri = Dark
      BY <1>9, <3>1 DEF Ordered, NoLayers, Below
    <3>2. CASE l.prev.uri # Dark
      <4>1. Below(l.prev, l) /\ l.prev \in PrevRec /\ l.prev # NoPrev
        BY <1>7, <1>9, <3>2, LightFacts DEF Ordered, LightRec
      <4>2. l.prev.z \in Nat
        BY <4>1, LightFacts DEF PrevRec
      <4>3. SystemLayers \subseteq Nat /\ UserLayers \subseteq Nat
        BY LightFacts
      <4> QED
        BY <1>5, <1>13, <2>1, <3>2, <4>1, <4>2, <4>3 DEF CanRender, Below
    <3> QED
      BY <3>1, <3>2
  <2> QED
    BY <1>2, <1>4, <1>5, <1>7, <1>8, <1>9, <1>13, <2>1, RenderLight DEF LightIInv
<1> QED
  BY <1>11, <1>12, <1>13

LEMMA StopFileStep ==
    ASSUME FaultyLights = {}, LightIInv, NEW a \in LightApps, NEW u \in Lights \cup {Dark}, StopFile(a, u)
    PROVE  LightIInv'
<1> DEFINE system == Owned(light.system, a, u)
           owned == Owned(light.user, a, u)
           one == u # Dark
           gone == IF one /\ system # {} THEN {Min(system)} ELSE system
           gone2 == IF one /\ owned # {} THEN {Max(owned)} ELSE owned
           sys == Without(light.system, gone)
           usr == IF system # {} THEN light.user ELSE Without(light.user, gone2)
           cleared == [light EXCEPT !.system = sys, !.user = usr]
<1>1. light \in LightRec /\ AnswersRight(light) /\ SystemOwns(light) /\ Ordered(light)
  BY DEF LightIInv, LightSound
<1>2. light' = ResumeLayer(cleared) \/ light' = cleared
  BY DEF StopFile
<1>3. /\ light.system \in [SystemLayers -> Layer \cup {NoLayer}]
      /\ light.user \in [UserLayers -> Layer \cup {NoLayer}]
  BY <1>1 DEF LightRec
<1> HIDE DEF system, gone, gone2
<1>4. /\ sys \in [SystemLayers -> Layer \cup {NoLayer}]
      /\ \A z \in SystemLayers : sys[z] \in {light.system[z], NoLayer}
  BY <1>3 DEF Without
<1>5. /\ usr \in [UserLayers -> Layer \cup {NoLayer}]
      /\ \A z \in UserLayers : usr[z] \in {light.user[z], NoLayer}
  BY <1>3 DEF Without
<1> HIDE DEF sys, usr
<1>6. /\ cleared \in LightRec /\ Fewer(cleared, light)
      /\ cleared.prev = light.prev /\ cleared.callback = light.callback
      /\ cleared.answers = light.answers /\ cleared.plays = light.plays
  BY <1>1, <1>4, <1>5 DEF LightRec, Fewer
<1> HIDE DEF cleared
<1>7. AnswersRight(cleared) /\ SystemOwns(cleared) /\ Ordered(cleared)
  BY <1>1, <1>6, FewerLayers DEF AnswersRight, AnswersBut, Pending, Ordered
<1>8. LightSound(cleared) /\ LightSound(ResumeLayer(cleared))
  BY <1>6, <1>7, ResumeLayerLight DEF LightSound
<1> QED
  BY <1>2, <1>8 DEF LightIInv

LEMMA ResetLightsStep ==
    ASSUME LightIInv, ResetLights
    PROVE  LightIInv'
<1> DEFINE l == [light EXCEPT !.system = [z \in SystemLayers |-> NoLayer],
                              !.user = [z \in UserLayers |-> NoLayer]]
<1>1. light' = StopPrev(l) /\ light \in LightRec /\ AnswersRight(light)
  BY DEF ResetLights, LightIInv, LightSound
<1>2. /\ l \in LightRec /\ NoLayers(l) /\ l.callback = light.callback
      /\ l.answers = light.answers /\ l.plays = light.plays
  BY <1>1 DEF LightRec, NoLayers
<1> HIDE DEF l
<1>3. AnswersBut(l, 0)
  BY <1>1, <1>2 DEF AnswersRight, AnswersBut, Pending
<1>4. /\ light' \in LightRec /\ AnswersBut(light', 0) /\ light'.prev.uri = Dark
      /\ light'.system = l.system /\ light'.user = l.user
  BY <1>1, <1>2, <1>3, StopPrevLight, LightFacts
<1> QED
  BY <1>2, <1>4 DEF LightIInv, LightSound, AnswersRight, NoLayers, SystemOwns, Ordered

LEMMA LightTimersStep ==
    ASSUME FaultyLights = {}, LightIInv, LightEnds \/ CalledBack \/ ResumeTimer
    PROVE  LightIInv'
<1>1. light \in LightRec /\ AnswersRight(light) /\ SystemOwns(light) /\ Ordered(light)
  BY DEF LightIInv, LightSound
<1>2. ASSUME NEW l \in LightRec, NEW d \in SUBSET Plays, NEW t \in BOOLEAN, AnswersRight(l),
             l.system = light.system, l.user = light.user, l.prev = light.prev
      PROVE  LightSound([l EXCEPT !.dones = d]) /\ LightSound([l EXCEPT !.timer = t])
  <2>1. SystemOwns(l) /\ Ordered(l)
    BY <1>1, <1>2 DEF SystemOwns, Ordered, Below, NoLayers
  <2>2. ASSUME NEW m \in {[l EXCEPT !.dones = d], [l EXCEPT !.timer = t]}
        PROVE  LightSound(m)
    <3>1. /\ m \in LightRec /\ m.callback = l.callback /\ m.answers = l.answers
          /\ m.plays = l.plays /\ m.system = l.system /\ m.user = l.user /\ m.prev = l.prev
      BY DEF LightRec
    <3> QED
      BY <1>2, <2>1, <3>1
      DEF LightSound, AnswersRight, AnswersBut, Pending, SystemOwns, Ordered, Below, NoLayers
  <2> QED
    BY <2>2
<1>3. CASE LightEnds
  <2>1. light.prev \in PrevRec /\ light.prev.play # 0 /\ light.dones \in SUBSET Plays
    BY <1>1, <1>3 DEF LightRec, LightEnds
  <2>2. light.prev.play \in Plays
    BY <2>1, LightFacts DEF PrevRec, NoPrev, Plays
  <2>3. light.dones \cup {light.prev.play} \in SUBSET Plays
    BY <2>1, <2>2
  <2>4. light' = [light EXCEPT !.dones = light.dones \cup {light.prev.play}]
    BY <1>1, <1>3 DEF LightEnds, LightRec
  <2> QED
    BY <1>1, <1>2, <2>3, <2>4 DEF LightIInv
<1>4. CASE CalledBack
  <2> DEFINE c == CallPrev(light)
  <2>1. /\ c \in LightRec /\ AnswersRight(c) /\ c.system = light.system /\ c.user = light.user
        /\ c.prev = light.prev
    BY <1>1, CallPrevLight DEF AnswersRight
  <2>2. PICK n \in light.dones : light' = [c EXCEPT !.dones = @ \ {n}]
    BY <1>4 DEF CalledBack
  <2> HIDE DEF c
  <2>3. light' = [c EXCEPT !.dones = c.dones \ {n}] /\ c.dones \ {n} \in SUBSET Plays
    BY <2>1, <2>2 DEF LightRec
  <2> QED
    BY <1>2, <2>1, <2>3 DEF LightIInv
<1>5. CASE ResumeTimer
  <2> DEFINE l == [light EXCEPT !.timer = FALSE]
  <2>1. light' = ResumeLayer(l)
    BY <1>5 DEF ResumeTimer
  <2>2. l \in LightRec /\ LightSound(l)
    BY <1>1, <1>2 DEF LightSound
  <2> HIDE DEF l
  <2> QED
    BY <2>1, <2>2, ResumeLayerLight DEF LightIInv, LightSound
<1> QED
  BY <1>3, <1>4, <1>5

LEMMA LightInitInv == LightInit => LightIInv
<1> SUFFICES ASSUME LightInit PROVE LightIInv
  OBVIOUS
<1>1. light \in LightRec
  BY LightFacts DEF LightInit, LightRec, PrevRec, CallbackRec, NoCallback
<1>2. AnswersRight(light)
  BY LightFacts DEF LightInit, AnswersRight, AnswersBut, Pending, NoCallback, Plays
<1>3. SystemOwns(light) /\ Ordered(light)
  BY LightFacts DEF LightInit, SystemOwns, Ordered, NoLayers
<1> QED
  BY <1>1, <1>2, <1>3 DEF LightIInv, LightSound

LEMMA LightSoundInv == LightIInv => LightInv
<1> SUFFICES ASSUME LightIInv PROVE LightInv
  OBVIOUS
<1>1. light \in LightRec /\ AnswersRight(light) /\ SystemOwns(light) /\ Ordered(light)
  BY DEF LightIInv, LightSound
<1>2. LightTypeOK
  BY <1>1 DEF LightTypeOK, LightRec, PrevRec, CallbackRec
<1>3. NothingHigherWaits /\ DarkOnlyIfEmpty
  BY <1>1 DEF NothingHigherWaits, DarkOnlyIfEmpty, Ordered, Below, NoLayers
<1>4. LightAnsweredOnce
  <2> SUFFICES ASSUME NEW n \in 1 .. light.plays
               PROVE  light.answers[n] = IF light.callback = [kind |-> "fresh", play |-> n] THEN 0 ELSE 1
    BY DEF LightAnsweredOnce
  <2>1. n \in Plays /\ ~(n > light.plays) /\ n # 0
    BY <1>1, LightFacts DEF LightRec, Plays
  <2>2. light.callback = [kind |-> "fresh", play |-> n] <=> Pending(light, n)
    BY <1>1 DEF LightRec, CallbackRec, Pending
  <2> QED
    BY <1>1, <2>1, <2>2 DEF AnswersRight, AnswersBut
<1> QED
  BY <1>2, <1>3, <1>4 DEF LightInv

\* As long as no light throws when it starts: for any number of requests of
\* any apps, the lights are worked off from the top, nothing is dark while a
\* layer waits, and each request is answered once (light.js: loadfile,
\* stopFile, stopPrev, resume and reset).
THEOREM LightsWorkedOff ==
    ASSUME FaultyLights = {}
    PROVE  LightSpec => []LightInv
<1>1. LightIInv /\ [LightNext]_light => LightIInv'
  <2> SUFFICES ASSUME LightIInv, [LightNext]_light PROVE LightIInv'
    OBVIOUS
  <2>1. CASE UNCHANGED light
    BY <2>1 DEF LightIInv
  <2>2. ASSUME NEW a \in LightApps, StopFile(a, Dark) PROVE LightIInv'
    BY <2>2, StopFileStep
  <2> QED
    BY <2>1, <2>2, LoadfileStep, StopFileStep, ResetLightsStep, LightTimersStep DEF LightNext
<1> QED
  BY <1>1, LightInitInv, LightSoundInv, PTL DEF LightSpec

-----------------------------------------------------------------------------
(***************************************************************************)
(* The dispatcher: events and notifications                                *)
(***************************************************************************)
(* What a call says of itself at each of its stages *)

\* An event is taken at its end and by who hears it then; a notification has
\* reached, missed or still has before it each app it goes to.
Accounted(call) ==
    /\ call \in CallRecord
    /\ call.left \subseteq DOMAIN call.apps
    /\ call.stage # "done" => call.left # {}
    /\ call.kind = "event" =>
          IF call.stage = "done" THEN call.taken = (call.heard # {})
                                 ELSE ~call.taken /\ call.heard = {} /\ call.left = {1}
    /\ call.kind = "notification" =>
          /\ call.heard \cup call.failed \cup {call.apps[i] : i \in call.left} = call.to
          /\ call.stage = "done" => call.left = {}

AllAccounted == \A c \in Dispatches : calls[c] = NoDispatch \/ Accounted(calls[c])

DispatcherIInv == DispatcherTypeOK /\ AllAccounted

LEMMA DispatcherIInvGives == DispatcherIInv => DispatcherInv
<1> SUFFICES ASSUME DispatcherIInv PROVE TakenMeansHeard /\ NotificationComplete
  BY DEF DispatcherIInv, DispatcherInv
<1>1. ASSUME NEW c \in Dispatches, calls[c] # NoDispatch PROVE Accounted(calls[c])
  BY <1>1 DEF DispatcherIInv, AllAccounted
<1>2. ASSUME NEW call, Accounted(call), call.kind = "notification", call.stage = "done"
      PROVE  call.heard \cup call.failed = call.to
  <2>1. call.left = {} /\ call.heard \cup call.failed \cup {call.apps[i] : i \in call.left} = call.to
    BY <1>2 DEF Accounted
  <2> QED
    BY <2>1
<1>3. TakenMeansHeard
  BY <1>1 DEF TakenMeansHeard, Accounted
<1>4. NotificationComplete
  BY <1>1, <1>2 DEF NotificationComplete
<1> QED
  BY <1>3, <1>4

\* The app a call has turned to is one of its list.
LEMMA TurnedIsLeft ==
    ASSUME NEW call \in CallRecord, call.left \subseteq DOMAIN call.apps, call.left # {}
    PROVE  /\ Min(call.left) \in call.left
           /\ Turned(call) \in Targets
           /\ call.left = Others(call) \cup {Min(call.left)}
           /\ Others(call) \subseteq call.left /\ Others(call) \in SUBSET Nat
<1>1. call.apps \in Seq(Targets) /\ call.left \in SUBSET Nat
  BY DEF CallRecord
<1>2. Len(call.apps) \in Nat /\ DOMAIN call.apps = 1..Len(call.apps)
  BY <1>1
<1>3. \A i \in call.left : i <= Len(call.apps)
  BY <1>2
<1>4. IsFiniteSet(call.left)
  BY <1>1, <1>2, <1>3, FS_BoundedSetOfNaturals
<1>5. call.left \in SUBSET Int
  BY <1>1
<1>6. Min(call.left) \in call.left
  BY <1>4, <1>5, MinOfFinite
<1>7. Turned(call) \in Targets
  BY <1>1, <1>6 DEF Turned
<1> QED
  BY <1>1, <1>6, <1>7 DEF Others

\* An event nobody has heard is not taken.
LEMMA Untaken ==
    ASSUME NEW call \in CallRecord, ~call.taken, call.heard = {}
    PROVE  call.taken = (call.heard # {})
<1>1. call.taken \in BOOLEAN
  BY DEF CallRecord
<1>2. call.taken = FALSE /\ (call.heard # {}) = FALSE
  BY <1>1
<1> QED
  BY <1>2

LEMMA CallsStep ==
    ASSUME DispatcherIInv, NEW c \in Dispatches, NEW call, PutCall(c, call), Accounted(call)
    PROVE  /\ calls' \in [Dispatches -> CallRecord \cup {NoDispatch}]
           /\ AllAccounted'
<1>1. calls \in [Dispatches -> CallRecord \cup {NoDispatch}] /\ AllAccounted /\ call \in CallRecord
  BY DEF DispatcherIInv, DispatcherTypeOK, Accounted
<1>2. calls' = [calls EXCEPT ![c] = call]
  BY DEF PutCall
<1>3. calls'[c] = call /\ \A d \in Dispatches : d # c => calls'[d] = calls[d]
  BY <1>1, <1>2
<1>4. AllAccounted'
  BY <1>1, <1>3 DEF AllAccounted
<1> QED
  BY <1>1, <1>2, <1>4

Statuses == {"none", "creating", "running", "destructing"}

LEMMA StageTyped ==
    ASSUME NEW st \in [Targets -> Statuses], NEW a \in Targets
    PROVE  /\ StageOfCreation(st, a) \in {"create", "failed", "created"}
           /\ Asked(st, a) \in [Targets -> Statuses]
<1>1. st[a] \in Statuses
  OBVIOUS
<1>2. CASE st[a] = "running"
  BY <1>2 DEF StageOfCreation, Asked, Statuses
<1>3. CASE st[a] = "none"
  BY <1>3 DEF StageOfCreation, Asked, Statuses
<1>4. CASE st[a] = "creating"
  BY <1>4 DEF StageOfCreation, Asked, Statuses
<1>5. CASE st[a] = "destructing"
  BY <1>5 DEF StageOfCreation, Asked, Statuses
<1> QED
  BY <1>1, <1>2, <1>3, <1>4, <1>5 DEF Statuses

\* A notification that turns to what is left of its list is accounted for.
LEMMA TurnToAccounted ==
    ASSUME DispatcherIInv, NEW c \in Dispatches,
           NEW call \in CallRecord, NEW st \in [Targets -> Statuses],
           call.kind = "notification", call.left \subseteq DOMAIN call.apps,
           call.heard \cup call.failed \cup {call.apps[i] : i \in call.left} = call.to,
           TurnTo(c, call, st)
    PROVE  /\ calls' \in [Dispatches -> CallRecord \cup {NoDispatch}]
           /\ AllAccounted'
           /\ status' \in [Targets -> Statuses]
<1>1. ASSUME NEW stage \in CallStages, stage = "done" <=> call.left = {},
             PutCall(c, [call EXCEPT !.stage = stage])
      PROVE  calls' \in [Dispatches -> CallRecord \cup {NoDispatch}] /\ AllAccounted'
  <2> DEFINE new == [call EXCEPT !.stage = stage]
  <2>1. new \in CallRecord /\ new.stage = stage
    BY DEF CallRecord
  <2>2. /\ new.kind = call.kind /\ new.left = call.left /\ new.apps = call.apps
        /\ new.heard = call.heard /\ new.failed = call.failed /\ new.to = call.to
    BY DEF CallRecord
  <2> HIDE DEF new
  <2>3. Accounted(new)
    BY <1>1, <2>1, <2>2 DEF Accounted
  <2> QED
    BY <1>1, <2>3, CallsStep DEF new
<1>2. CASE call.left = {}
  <2>1. PutCall(c, [call EXCEPT !.stage = "done"]) /\ status' = st
    BY <1>2 DEF TurnTo
  <2> QED
    BY <1>1, <1>2, <2>1 DEF CallStages
<1>3. CASE call.left # {} /\ call.creates
  <2> DEFINE stage == StageOfCreation(st, Turned(call))
  <2>1. PutCall(c, [call EXCEPT !.stage = stage]) /\ status' = Asked(st, Turned(call))
    BY <1>3 DEF TurnTo
  <2>2. Turned(call) \in Targets
    BY <1>3, TurnedIsLeft
  <2>3. stage \in {"create", "failed", "created"} /\ status' \in [Targets -> Statuses]
    BY <2>1, <2>2, StageTyped
  <2> HIDE DEF stage
  <2> QED
    BY <1>1, <1>3, <2>1, <2>3 DEF CallStages
<1>4. CASE call.left # {} /\ ~call.creates
  <2>1. PutCall(c, [call EXCEPT !.stage = "created"]) /\ status' = st
    BY <1>4 DEF TurnTo
  <2> QED
    BY <1>1, <1>4, <2>1 DEF CallStages
<1> QED
  BY <1>2, <1>3, <1>4

-----------------------------------------------------------------------------
(* The steps *)

LEMMA FrontTyped ==
    ASSUME DispatcherIInv
    PROVE  /\ status \in [Targets -> Statuses]
           /\ top \in Targets \cup {NoTarget} /\ monopolist \in Targets \cup {NoTarget}
           /\ stackOwner \in Targets \cup {NoTarget} /\ disabled \in BOOLEAN
           /\ calls \in [Dispatches -> CallRecord \cup {NoDispatch}] /\ AllAccounted
BY DEF DispatcherIInv, DispatcherTypeOK, Statuses

LEMMA Rebuilt ==
    ASSUME status' \in [Targets -> Statuses], top' \in Targets \cup {NoTarget},
           monopolist' \in Targets \cup {NoTarget}, stackOwner' \in Targets \cup {NoTarget},
           disabled' \in BOOLEAN, calls' \in [Dispatches -> CallRecord \cup {NoDispatch}],
           AllAccounted'
    PROVE  DispatcherIInv'
BY DEF DispatcherIInv, DispatcherTypeOK, Statuses

LEMMA CreationSettlesStep ==
    ASSUME DispatcherIInv, NEW a \in Targets, NEW ok \in BOOLEAN, CreationSettles(a, ok)
    PROVE  DispatcherIInv'
<1>1. calls' \in [Dispatches -> CallRecord \cup {NoDispatch}] /\ AllAccounted'
  <2> DEFINE stage == IF ok THEN "created" ELSE "failed"
             new(c) == [calls[c] EXCEPT !.stage = stage]
  <2>1. calls' = [c \in Dispatches |-> IF Waits(c, a) THEN new(c) ELSE calls[c]]
    BY DEF CreationSettles
  <2>2. ASSUME NEW c \in Dispatches, Waits(c, a) PROVE Accounted(new(c))
    <3>1. Accounted(calls[c]) /\ calls[c].stage = "create"
      BY <2>2, FrontTyped DEF AllAccounted, Waits
    <3>2. stage \in CallStages /\ stage # "done"
      BY DEF CallStages
    <3> HIDE DEF stage
    <3>3. /\ new(c) \in CallRecord /\ new(c).stage = stage
          /\ new(c).kind = calls[c].kind /\ new(c).left = calls[c].left
          /\ new(c).apps = calls[c].apps /\ new(c).heard = calls[c].heard
          /\ new(c).failed = calls[c].failed /\ new(c).to = calls[c].to
          /\ new(c).taken = calls[c].taken
      BY <3>1, <3>2 DEF Accounted, CallRecord
    <3> HIDE DEF new
    <3> QED
      BY <3>1, <3>2, <3>3 DEF Accounted
  <2>3. ASSUME NEW c \in Dispatches
        PROVE  /\ calls'[c] \in CallRecord \cup {NoDispatch}
               /\ calls'[c] = NoDispatch \/ Accounted(calls'[c])
    <3>1. calls'[c] = IF Waits(c, a) THEN new(c) ELSE calls[c]
      BY <2>1
    <3>2. Accounted(new(c)) => new(c) \in CallRecord
      BY DEF Accounted
    <3> HIDE DEF new
    <3>3. CASE Waits(c, a)
      BY <2>2, <3>1, <3>2, <3>3
    <3>4. CASE ~Waits(c, a)
      BY <3>1, <3>4, FrontTyped DEF AllAccounted
    <3> QED
      BY <3>3, <3>4
  <2>4. calls' \in [Dispatches -> CallRecord \cup {NoDispatch}]
    <3> HIDE DEF new
    <3> QED
      BY <2>1, <2>3
  <2> QED
    BY <2>3, <2>4 DEF AllAccounted
<1>2. status' \in [Targets -> Statuses]
  BY FrontTyped DEF CreationSettles, Statuses
<1> QED
  BY <1>1, <1>2, FrontTyped, Rebuilt DEF CreationSettles

LEMMA FrontStep ==
    ASSUME DispatcherIInv, NEW a \in Targets, NEW on \in BOOLEAN,
           AppEnds(a) \/ Monologue(a) \/ SetDisabled(on)
    PROVE  DispatcherIInv'
<1>1. calls' = calls /\ AllAccounted'
  BY FrontTyped DEF AppEnds, Monologue, SetDisabled, AllAccounted
<1>2. CASE AppEnds(a)
  BY <1>1, <1>2, FrontTyped, Rebuilt DEF AppEnds, Statuses
<1>3. CASE Monologue(a)
  BY <1>1, <1>3, FrontTyped, Rebuilt DEF Monologue
<1>4. CASE SetDisabled(on)
  BY <1>1, <1>4, FrontTyped, Rebuilt DEF SetDisabled, Statuses
<1> QED
  BY <1>2, <1>3, <1>4

LEMMA DispatchAppEventStep ==
    ASSUME DispatcherIInv, NEW c \in Dispatches, NEW a \in Targets, NEW preemptive \in BOOLEAN,
           DispatchAppEvent(c, a, preemptive)
    PROVE  DispatcherIInv'
<1> DEFINE call == NewCall("event", <<a>>, {1}, preemptive, TRUE)
<1>1. /\ call \in CallRecord /\ call.kind = "event" /\ call.left = {1} /\ ~call.taken
      /\ call.apps = <<a>> /\ call.heard = {} /\ call.stage = "done"
  BY DEF NewCall, CallRecord, CallStages
<1> HIDE DEF call
<1>2. DOMAIN call.apps = {1}
  <2>1. Len(<<a>>) = 1
    OBVIOUS
  <2> QED
    BY <1>1, <2>1
<1>3. ASSUME NEW stage \in CallStages \ {"done"}
      PROVE  Accounted([call EXCEPT !.stage = stage])
  <2> DEFINE new == [call EXCEPT !.stage = stage]
  <2>1. /\ new \in CallRecord /\ new.kind = "event" /\ new.left = {1} /\ new.stage = stage
        /\ ~new.taken /\ new.heard = {} /\ new.apps = call.apps
    BY <1>1 DEF CallRecord
  <2> HIDE DEF new
  <2>2. Accounted(new)
    BY <1>2, <2>1 DEF Accounted
  <2> QED
    BY <2>2 DEF new
<1>4. ASSUME IsMonopolized
      PROVE  Accounted([call EXCEPT !.taken = TRUE, !.heard = {monopolist}])
  <2> DEFINE new == [call EXCEPT !.taken = TRUE, !.heard = {monopolist}]
  <2>1. monopolist \in Targets
    BY <1>4, FrontTyped DEF IsMonopolized
  <2>2. /\ new \in CallRecord /\ new.kind = "event" /\ new.left = {1} /\ new.stage = "done"
        /\ new.taken /\ new.heard = {monopolist} /\ new.apps = call.apps
    BY <1>1, <2>1 DEF CallRecord
  <2> HIDE DEF new
  <2>3. Accounted(new)
    BY <1>2, <2>2 DEF Accounted
  <2> QED
    BY <2>3 DEF new
<1>5. Accounted(call)
  BY <1>1, <1>2, Untaken DEF Accounted
<1>6. UNCHANGED <<top, monopolist, stackOwner, disabled>>
  BY DEF DispatchAppEvent
<1>7. CASE PutCall(c, call) /\ UNCHANGED status
  BY <1>5, <1>6, <1>7, CallsStep, FrontTyped, Rebuilt
<1>8. CASE /\ Oppressed(a) /\ UNCHANGED status
           /\ PutCall(c, [call EXCEPT !.taken = TRUE, !.heard = {monopolist}])
  <2>1. Accounted([call EXCEPT !.taken = TRUE, !.heard = {monopolist}])
    BY <1>4, <1>8 DEF Oppressed
  <2> QED
    BY <1>6, <1>8, <2>1, CallsStep, FrontTyped, Rebuilt
<1>9. CASE /\ PutCall(c, [call EXCEPT !.stage = StageOfCreation(status, a)])
           /\ status' = Asked(status, a)
  <2>1. StageOfCreation(status, a) \in CallStages \ {"done"} /\ status' \in [Targets -> Statuses]
    BY <1>9, FrontTyped, StageTyped DEF CallStages
  <2>2. Accounted([call EXCEPT !.stage = StageOfCreation(status, a)])
    BY <1>3, <2>1
  <2> QED
    BY <1>6, <1>9, <2>1, <2>2, CallsStep, FrontTyped, Rebuilt
<1> QED
  BY <1>7, <1>8, <1>9 DEF DispatchAppEvent, call

LEMMA DispatchNotificationStep ==
    ASSUME DispatcherIInv, NEW c \in Dispatches, NEW S \in Channels, NEW creates \in BOOLEAN,
           DispatchNotification(c, S, creates)
    PROVE  DispatcherIInv'
<1> DEFINE left == {i \in DOMAIN S : creates \/ Running(S[i])}
           call == NewCall("notification", S, left, FALSE, creates)
<1>1. S \in Seq(Targets)
  BY DispatcherAssumption
<1>2. left \subseteq DOMAIN S /\ left \in SUBSET Nat /\ {S[i] : i \in left} \in SUBSET Targets
  BY <1>1
<1>3. TurnTo(c, call, status) /\ UNCHANGED <<top, monopolist, stackOwner, disabled>>
  BY DEF DispatchNotification
<1> HIDE DEF left
<1>4. /\ call \in CallRecord /\ call.kind = "notification" /\ call.left = left /\ call.apps = S
      /\ call.heard = {} /\ call.failed = {} /\ call.to = {S[i] : i \in left}
  BY <1>1, <1>2 DEF NewCall, CallRecord, CallStages
<1> HIDE DEF call
<1>5. call.heard \cup call.failed \cup {call.apps[i] : i \in call.left} = call.to
  BY <1>4
<1>6. call.left \subseteq DOMAIN call.apps
  BY <1>2, <1>4
<1> QED
  BY <1>3, <1>4, <1>5, <1>6, FrontTyped, TurnToAccounted, Rebuilt

\* A notification goes on from the app it turned to, which has heard it or
\* has failed.
LEMMA GoesOn ==
    ASSUME DispatcherIInv, NEW c \in Dispatches, NEW st \in [Targets -> Statuses],
           Accounted(calls[c]), calls[c].stage # "done", calls[c].kind = "notification",
           NEW call \in CallRecord,
           call.kind = "notification", call.apps = calls[c].apps, call.to = calls[c].to,
           call.heard \cup call.failed
              = calls[c].heard \cup calls[c].failed \cup {Turned(calls[c])},
           TurnTo(c, [call EXCEPT !.left = Others(calls[c])], st)
    PROVE  /\ calls' \in [Dispatches -> CallRecord \cup {NoDispatch}]
           /\ AllAccounted'
           /\ status' \in [Targets -> Statuses]
<1> DEFINE old == calls[c]
           new == [call EXCEPT !.left = Others(old)]
           min == Min(old.left)
<1>1. /\ old \in CallRecord /\ old.left \subseteq DOMAIN old.apps /\ old.left # {}
      /\ old.heard \cup old.failed \cup {old.apps[i] : i \in old.left} = old.to
  BY DEF Accounted
<1> HIDE DEF old
<1>2. /\ min \in old.left /\ old.left = Others(old) \cup {min}
      /\ Others(old) \subseteq old.left /\ Others(old) \in SUBSET Nat
  BY <1>1, TurnedIsLeft
<1>3. /\ new \in CallRecord /\ new.kind = "notification" /\ new.left = Others(old)
      /\ new.apps = old.apps /\ new.to = old.to /\ new.heard = call.heard
      /\ new.failed = call.failed
  BY <1>2 DEF CallRecord, old
<1>4. Turned(old) = old.apps[min]
  BY DEF Turned
<1>5. call.heard \cup call.failed = old.heard \cup old.failed \cup {old.apps[min]}
  BY <1>4 DEF old
<1> HIDE DEF min
<1>6. {old.apps[i] : i \in old.left} = {old.apps[i] : i \in Others(old)} \cup {old.apps[min]}
  BY <1>2
<1>7. new.heard \cup new.failed \cup {new.apps[i] : i \in new.left} = new.to
  BY <1>1, <1>3, <1>5, <1>6
<1>8. new.left \subseteq DOMAIN new.apps
  BY <1>1, <1>2, <1>3
<1>9. TurnTo(c, new, st)
  BY DEF old
<1> HIDE DEF new
<1> QED
  BY <1>3, <1>7, <1>8, <1>9, TurnToAccounted

LEMMA CreationFailedStep ==
    ASSUME DispatcherIInv, NEW c \in Dispatches, CreationFailed(c)
    PROVE  DispatcherIInv'
<1> DEFINE a == Turned(calls[c])
           st == [status EXCEPT ![a] = IF @ = "running" THEN "destructing" ELSE @]
           call == [calls[c] EXCEPT !.failed = @ \cup {a}]
<1>1. /\ calls[c].stage = "failed" /\ top' \in {top, NoTarget}
      /\ UNCHANGED <<monopolist, stackOwner, disabled>>
      /\ \/ call.kind = "event" /\ PutCall(c, [call EXCEPT !.stage = "done"]) /\ status' = st
         \/ /\ call.kind = "notification"
            /\ TurnTo(c, [call EXCEPT !.left = Others(calls[c])], st)
  <2>1. Others(call) = Others(calls[c])
    BY DEF Others
  <2> QED
    BY <2>1 DEF CreationFailed
<1>2. Accounted(calls[c])
  BY FrontTyped DEF CreationFailed, AllAccounted
<1>3. calls[c] \in CallRecord /\ calls[c].left \subseteq DOMAIN calls[c].apps /\ calls[c].left # {}
  BY <1>1, <1>2 DEF Accounted
<1>4. a \in Targets
  BY <1>3, TurnedIsLeft
<1>5. st \in [Targets -> Statuses]
  BY FrontTyped DEF Statuses
<1> HIDE DEF a
<1>6. /\ call \in CallRecord /\ call.kind = calls[c].kind /\ call.apps = calls[c].apps
      /\ call.to = calls[c].to /\ call.heard = calls[c].heard /\ call.left = calls[c].left
      /\ call.failed = calls[c].failed \cup {a} /\ call.taken = calls[c].taken
  BY <1>3, <1>4 DEF CallRecord
<1> HIDE DEF call, st
<1>7. /\ calls' \in [Dispatches -> CallRecord \cup {NoDispatch}] /\ AllAccounted'
      /\ status' \in [Targets -> Statuses]
  <2>1. CASE /\ call.kind = "event" /\ PutCall(c, [call EXCEPT !.stage = "done"])
             /\ status' = st
    <3> DEFINE new == [call EXCEPT !.stage = "done"]
    <3>1. /\ new \in CallRecord /\ new.kind = "event" /\ new.stage = "done"
          /\ new.left = calls[c].left /\ new.apps = calls[c].apps
          /\ ~new.taken /\ new.heard = {}
      BY <1>1, <1>2, <1>6, <2>1 DEF CallRecord, CallStages, Accounted
    <3> HIDE DEF new
    <3>2. Accounted(new)
      BY <1>3, <3>1, Untaken DEF Accounted
    <3>3. PutCall(c, new)
      BY <2>1 DEF new
    <3> QED
      BY <1>5, <2>1, <3>2, <3>3, CallsStep
  <2>2. CASE /\ call.kind = "notification"
             /\ TurnTo(c, [call EXCEPT !.left = Others(calls[c])], st)
    <3>1. call.heard \cup call.failed
             = calls[c].heard \cup calls[c].failed \cup {Turned(calls[c])}
      BY <1>6 DEF a
    <3> QED
      BY <1>1, <1>2, <1>5, <1>6, <2>2, <3>1, GoesOn
  <2> QED
    BY <1>1, <2>1, <2>2
<1> QED
  BY <1>1, <1>7, FrontTyped, Rebuilt

LEMMA ActivateForStep ==
    ASSUME DispatcherIInv, NEW c \in Dispatches, ActivateFor(c)
    PROVE  DispatcherIInv'
<1> DEFINE a == Turned(calls[c])
           may == Running(a) /\ ~Oppressed(a)
           stage == IF ~calls[c].preemptive THEN "emit" ELSE IF may THEN "activated" ELSE "done"
           new == [calls[c] EXCEPT !.stage = stage]
<1>1. /\ calls[c].kind = "event" /\ calls[c].stage = "created" /\ PutCall(c, new)
      /\ top' \in {a, top} /\ UNCHANGED <<status, monopolist, stackOwner, disabled>>
  BY DEF ActivateFor, AtStage
<1>2. Accounted(calls[c])
  BY FrontTyped DEF ActivateFor, AtStage, AllAccounted
<1>3. calls[c] \in CallRecord /\ calls[c].left \subseteq DOMAIN calls[c].apps /\ calls[c].left # {}
  BY <1>1, <1>2 DEF Accounted
<1>4. a \in Targets
  BY <1>3, TurnedIsLeft
<1>5. stage \in CallStages
  BY DEF CallStages
<1> HIDE DEF a, stage
<1>6. /\ new \in CallRecord /\ new.kind = "event" /\ new.left = {1} /\ new.apps = calls[c].apps
      /\ ~new.taken /\ new.heard = {} /\ new.left = calls[c].left
  BY <1>1, <1>2, <1>3, <1>5 DEF CallRecord, Accounted
<1> HIDE DEF new
<1>7. Accounted(new)
  BY <1>3, <1>6, Untaken DEF Accounted
<1> QED
  BY <1>1, <1>4, <1>7, CallsStep, FrontTyped, Rebuilt

LEMMA UpdateCloudStackStep ==
    ASSUME DispatcherIInv, NEW c \in Dispatches, UpdateCloudStack(c)
    PROVE  DispatcherIInv'
<1> DEFINE new == [calls[c] EXCEPT !.stage = "emit"]
<1>1. /\ calls[c].kind = "event" /\ calls[c].stage = "activated" /\ PutCall(c, new)
      /\ stackOwner' = Turned(calls[c]) /\ UNCHANGED <<status, top, monopolist, disabled>>
  BY DEF UpdateCloudStack, AtStage
<1>2. Accounted(calls[c])
  BY FrontTyped DEF UpdateCloudStack, AtStage, AllAccounted
<1>3. calls[c] \in CallRecord /\ calls[c].left \subseteq DOMAIN calls[c].apps /\ calls[c].left # {}
  BY <1>1, <1>2 DEF Accounted
<1>4. Turned(calls[c]) \in Targets
  BY <1>3, TurnedIsLeft
<1>5. /\ new \in CallRecord /\ new.kind = "event" /\ new.left = {1} /\ new.apps = calls[c].apps
      /\ ~new.taken /\ new.heard = {} /\ new.left = calls[c].left
  BY <1>1, <1>2, <1>3 DEF CallRecord, CallStages, Accounted
<1> HIDE DEF new
<1>6. Accounted(new)
  BY <1>3, <1>5, Untaken DEF Accounted
<1> QED
  BY <1>1, <1>4, <1>6, CallsStep, FrontTyped, Rebuilt

LEMMA HeardTyped ==
    ASSUME NEW call \in CallRecord, NEW a \in Targets
    PROVE  LET h == Heard(call, a)
           IN  /\ h \in CallRecord /\ h.kind = call.kind /\ h.apps = call.apps /\ h.to = call.to
               /\ h.left = call.left /\ h.heard \cup h.failed = call.heard \cup call.failed \cup {a}
               /\ h.heard = IF HasDescriptor(a) THEN call.heard \cup {a} ELSE call.heard
<1>1. CASE HasDescriptor(a)
  BY <1>1 DEF Heard, CallRecord
<1>2. CASE ~HasDescriptor(a)
  BY <1>2 DEF Heard, CallRecord
<1> QED
  BY <1>1, <1>2

LEMMA EmitEventStep ==
    ASSUME DispatcherIInv, NEW c \in Dispatches, EmitEvent(c)
    PROVE  DispatcherIInv'
<1> DEFINE a == Turned(calls[c])
           h == Heard(calls[c], a)
           has == HasDescriptor(a)
           new == [h EXCEPT !.stage = "done", !.taken = has]
<1>1. /\ calls[c].kind = "event" /\ calls[c].stage = "emit" /\ PutCall(c, new)
      /\ UNCHANGED <<status, top, monopolist, stackOwner, disabled>>
  BY DEF EmitEvent, AtStage, appVars
<1>2. Accounted(calls[c])
  BY FrontTyped DEF EmitEvent, AtStage, AllAccounted
<1>3. calls[c] \in CallRecord /\ calls[c].left \subseteq DOMAIN calls[c].apps /\ calls[c].left # {}
  BY <1>1, <1>2 DEF Accounted
<1>4. a \in Targets
  BY <1>3, TurnedIsLeft
<1>5. has \in BOOLEAN
  BY DEF HasDescriptor
<1> HIDE DEF a
<1>6. /\ h \in CallRecord /\ h.kind = "event" /\ h.apps = calls[c].apps /\ h.left = calls[c].left
      /\ h.heard = IF has THEN calls[c].heard \cup {a} ELSE calls[c].heard
  BY <1>1, <1>3, <1>4, HeardTyped
<1>7. calls[c].heard = {}
  BY <1>1, <1>2 DEF Accounted
<1>8. has = (h.heard # {})
  <2> HIDE DEF has, h
  <2>1. CASE has
    BY <1>6, <1>7, <2>1
  <2>2. CASE ~has
    BY <1>5, <1>6, <1>7, <2>2
  <2> QED
    BY <2>1, <2>2
<1> HIDE DEF h, has
<1>9. /\ new \in CallRecord /\ new.kind = "event" /\ new.stage = "done" /\ new.left = calls[c].left
      /\ new.apps = calls[c].apps /\ new.taken = has /\ new.heard = h.heard
  BY <1>5, <1>6 DEF CallRecord, CallStages
<1> HIDE DEF new
<1>10. Accounted(new)
  BY <1>3, <1>8, <1>9 DEF Accounted
<1> QED
  BY <1>1, <1>10, CallsStep, FrontTyped, Rebuilt

LEMMA EmitNotificationStep ==
    ASSUME DispatcherIInv, NEW c \in Dispatches, EmitNotification(c)
    PROVE  DispatcherIInv'
<1> DEFINE a == Turned(calls[c])
           h == Heard(calls[c], a)
<1>1. /\ calls[c].kind = "notification" /\ calls[c].stage = "created"
      /\ TurnTo(c, [h EXCEPT !.left = Others(calls[c])], status)
      /\ UNCHANGED <<top, monopolist, stackOwner, disabled>>
  BY DEF EmitNotification, AtStage
<1>2. Accounted(calls[c])
  BY FrontTyped DEF EmitNotification, AtStage, AllAccounted
<1>3. calls[c] \in CallRecord /\ calls[c].left \subseteq DOMAIN calls[c].apps /\ calls[c].left # {}
  BY <1>1, <1>2 DEF Accounted
<1>4. a \in Targets
  BY <1>3, TurnedIsLeft
<1>5. /\ h \in CallRecord /\ h.kind = "notification" /\ h.apps = calls[c].apps
      /\ h.to = calls[c].to
      /\ h.heard \cup h.failed = calls[c].heard \cup calls[c].failed \cup {a}
  BY <1>1, <1>3, <1>4, HeardTyped
<1> HIDE DEF h
<1>6. /\ calls' \in [Dispatches -> CallRecord \cup {NoDispatch}] /\ AllAccounted'
      /\ status' \in [Targets -> Statuses]
  BY <1>1, <1>2, <1>5, FrontTyped, GoesOn
<1> QED
  BY <1>1, <1>6, FrontTyped, Rebuilt

LEMMA DispatcherInductive == DispatcherIInv /\ [DispatcherNext]_dispatcherVars => DispatcherIInv'
<1> SUFFICES ASSUME DispatcherIInv, [DispatcherNext]_dispatcherVars PROVE DispatcherIInv'
  OBVIOUS
<1>1. CASE DispatchStep
  BY <1>1, CreationFailedStep, ActivateForStep, UpdateCloudStackStep, EmitEventStep,
     EmitNotificationStep DEF DispatchStep
<1>2. CASE \E c \in Dispatches, a \in Targets, preemptive \in BOOLEAN :
              DispatchAppEvent(c, a, preemptive)
  BY <1>2, DispatchAppEventStep
<1>3. CASE \E c \in Dispatches, S \in Channels, creates \in BOOLEAN :
              DispatchNotification(c, S, creates)
  BY <1>3, DispatchNotificationStep
<1>4. CASE \E a \in Targets : AppEnds(a) \/ Monologue(a)
  BY <1>4, FrontStep
<1>5. CASE \E a \in Targets, ok \in BOOLEAN : CreationSettles(a, ok)
  BY <1>5, CreationSettlesStep
<1>6. CASE \E on \in BOOLEAN : SetDisabled(on)
  <2>1. PICK on \in BOOLEAN : SetDisabled(on)
    BY <1>6
  <2>2. AllAccounted' /\ calls' = calls
    BY <2>1, FrontTyped DEF SetDisabled, AllAccounted
  <2> QED
    BY <2>1, <2>2, FrontTyped, Rebuilt DEF SetDisabled, Statuses
<1>7. CASE UNCHANGED dispatcherVars
  <2>1. AllAccounted'
    BY <1>7, FrontTyped DEF AllAccounted, dispatcherVars
  <2> QED
    BY <1>7, <2>1, FrontTyped, Rebuilt DEF dispatcherVars, appVars
<1> QED
  BY <1>1, <1>2, <1>3, <1>4, <1>5, <1>6, <1>7 DEF DispatcherNext

\* What a dispatch reports is what became of it: turen, which lets speech and
\* media go on when nobody took an event, is told so exactly when no app heard
\* it, and a notification ends with each app of its channel reached or known to
\* have failed, however many calls overlap and whatever apps come and go.
THEOREM DispatchesReported == DispatcherSpec => []DispatcherInv
<1>1. DispatcherInit => DispatcherIInv
  BY DEF DispatcherInit, DispatcherIInv, DispatcherTypeOK, AllAccounted
<1> QED
  BY <1>1, DispatcherInductive, DispatcherIInvGives, PTL DEF DispatcherSpec

-----------------------------------------------------------------------------
(***************************************************************************)
(* Do-not-disturb: the volume it saves and sets                            *)
(***************************************************************************)
(* The invariant.  An operator of the model takes the three variables as    *)
(* one record d.                                                           *)

DndKeptRec == [switch : BOOLEAN, status : BOOLEAN, window : Windows, savedVolume : SomeVolume]

FsmRec == [status : {"ready", "waiting", "end"}, waitSleep : BOOLEAN, left : 0 .. DayHours,
           setVolumeFlag : BOOLEAN]

AroundRec == [clock : HoursOfDay, inUse : BOOLEAN, light : BOOLEAN, volume : SomeVolume,
              wanted : SomeVolume, forgotten : BOOLEAN, events : Seq(SomeVolume)]

DndWorlds == [kept : DndKeptRec, fsm : FsmRec, around : AroundRec]

\* Nothing of the user is saved.
NothingSaved(d) == d.kept.savedVolume \in {0, NaN}

\* What the user wants is the volume, or what is saved of it: what is saved is
\* right once the change is reported, and for the change the mode itself made
\* already before.
Remembered(d) ==
    /\ d.around.volume # NaN
    /\ ~d.kept.status => d.around.volume = d.around.wanted
    /\ d.kept.status /\ d.around.events = <<>> =>
           d.around.wanted = IF NothingSaved(d) THEN d.around.volume ELSE d.kept.savedVolume
    /\ d.kept.status /\ d.around.events # <<>> =>
           /\ d.around.events = <<d.around.volume>>
           /\ d.around.wanted = IF d.fsm.setVolumeFlag THEN d.kept.savedVolume
                                                       ELSE d.around.volume
    /\ d.fsm.setVolumeFlag => ~NothingSaved(d)

VolumeKept(d) ==
    /\ ~d.kept.status => NothingSaved(d) /\ ~d.fsm.setVolumeFlag
    /\ d.around.events = <<>> => ~d.fsm.setVolumeFlag
    /\ ~d.around.forgotten => Remembered(d)

\* A change on its way is one that the mode has made: the volume is not what the
\* user wants.
OnlyDims(d) ==
    d.kept.status /\ ~d.around.forgotten /\ d.around.events # <<>>
        => d.around.volume # d.around.wanted

\* Hours that do not cross midnight; for the others see WaitsForTheEnd.
WithinDay(w) == w[1] < w[2]

\* Within a day the machine only waits with the mode against the hours while the
\* device is in use; else it is not past the next change of the hours when it
\* looks again.
HoursKept(d) ==
    d.fsm.status = "waiting" =>
        IF d.fsm.waitSleep THEN d.around.inUse
        ELSE WithinDay(d.kept.window) /\ d.fsm.left > 0 =>
                 /\ d.kept.status <=> InHours(d.around.clock, d.kept.window)
                 /\ d.fsm.left <= Abs(GetDNDTime(d.around.clock, d.kept.window))

DndIInv == World \in DndWorlds /\ VolumeKept(World) /\ HoursKept(World)

LEMMA DndIInvGives == DndIInv => DndInv
<1> SUFFICES ASSUME DndIInv PROVE DndInv
  OBVIOUS
<1>1. kept \in DndKeptRec /\ fsm \in FsmRec /\ around \in AroundRec
  BY DEF DndIInv, DndWorlds, World
<1>2. DndTypeOK
  BY <1>1 DEF DndTypeOK, DndKeptRec, FsmRec, AroundRec
<1>3. VolumeGivenBack
  BY DEF DndIInv, VolumeKept, Remembered, World, VolumeGivenBack
<1>4. ModeFollowsHours
  <2> SUFFICES ASSUME kept.switch, WithinDay(kept.window), fsm.status = "waiting",
                      ~TimerDue, ~around.inUse
               PROVE  kept.status = InHours(around.clock, kept.window)
    BY DEF ModeFollowsHours, WithinDay
  <2>1. fsm.left > 0
    BY <1>1, DndAssumption DEF TimerDue, FsmRec
  <2>2. kept.status <=> InHours(around.clock, kept.window)
    BY <2>1 DEF DndIInv, HoursKept, World
  <2>3. kept.status \in BOOLEAN /\ InHours(around.clock, kept.window) \in BOOLEAN
    BY <1>1 DEF DndKeptRec, InHours
  <2> QED
    BY <2>2, <2>3
<1> QED
  BY <1>2, <1>3, <1>4 DEF DndInv

-----------------------------------------------------------------------------
(* The hours *)

LEMMA WindowGives ==
    ASSUME NEW w \in Windows
    PROVE  w[1] \in HoursOfDay /\ w[2] \in HoursOfDay
BY DndAssumption DEF HoursOfDay

\* The machine never waits for more than a day.
LEMMA TimeInADay ==
    ASSUME NEW now \in HoursOfDay, NEW w \in Windows
    PROVE  GetDNDTime(now, w) \in Int /\ Abs(GetDNDTime(now, w)) \in 0 .. DayHours
<1> DEFINE start == w[1]
           till == IF start >= w[2] THEN w[2] + DayHours ELSE w[2]
           g == GetDNDTime(now, w)
<1>1. start \in HoursOfDay /\ w[2] \in HoursOfDay
  BY WindowGives
<1>2. till \in Int /\ till > start /\ till <= start + DayHours
  BY <1>1, DndAssumption DEF HoursOfDay
<1> HIDE DEF start, till
<1>3. g = IF now >= start /\ now < till THEN till - now
          ELSE IF now < start /\ now + DayHours < till THEN DayHours
          ELSE IF now < start THEN now - start
          ELSE now - (start + DayHours)
  BY <1>1, <1>2, DndAssumption DEF GetDNDTime, HoursOfDay, start, till
<1> HIDE DEF g
<1>4. g \in Int /\ g <= DayHours /\ -g <= DayHours
  BY <1>1, <1>2, <1>3, DndAssumption DEF HoursOfDay
<1>5. Abs(g) \in 0 .. DayHours
  BY <1>4, DndAssumption DEF Abs
<1> QED
  BY <1>4, <1>5 DEF g

\* Within a day the time is positive in the hours, and else that to the next.
LEMMA TimeOfDay ==
    ASSUME NEW now \in HoursOfDay, NEW w \in Windows, WithinDay(w)
    PROVE  /\ GetDNDTime(now, w) \in Int
           /\ GetDNDTime(now, w) > 0 <=> InHours(now, w)
           /\ Abs(GetDNDTime(now, w)) \in 1 .. DayHours
           /\ Abs(GetDNDTime(now, w)) = IF w[1] <= now /\ now < w[2] THEN w[2] - now
                                        ELSE IF now < w[1] THEN w[1] - now
                                        ELSE w[1] + DayHours - now
<1> DEFINE start == w[1]
           end == w[2]
<1>1. start \in HoursOfDay /\ end \in HoursOfDay /\ start < end
  BY WindowGives DEF WithinDay
<1>2. GetDNDTime(now, w) = IF now >= start /\ now < end THEN end - now
                           ELSE IF now < start /\ now + DayHours < end THEN DayHours
                           ELSE IF now < start THEN now - start
                           ELSE now - (start + DayHours)
  BY <1>1, DndAssumption DEF GetDNDTime, HoursOfDay
<1>3. InHours(now, w) <=> (start <= now /\ now < end)
  BY <1>1 DEF InHours
<1> HIDE DEF start, end
<1> DEFINE g == GetDNDTime(now, w)
<1>4. g = IF now >= start /\ now < end THEN end - now
          ELSE IF now < start THEN now - start ELSE now - (start + DayHours)
  BY <1>1, <1>2, DndAssumption DEF HoursOfDay
<1> HIDE DEF g
<1>5. g \in Int /\ (g > 0 <=> start <= now /\ now < end)
  BY <1>1, <1>4, DndAssumption DEF HoursOfDay
<1>6. /\ Abs(g) \in 1 .. DayHours
      /\ Abs(g) = IF start <= now /\ now < end THEN end - now
                  ELSE IF now < start THEN start - now ELSE start + DayHours - now
  BY <1>1, <1>4, DndAssumption DEF HoursOfDay, Abs
<1> QED
  BY <1>3, <1>5, <1>6 DEF g, start, end

\* An hour before the next change of the hours nothing changes within the hour.
LEMMA HourIsOneLess ==
    ASSUME NEW now \in HoursOfDay, NEW w \in Windows, WithinDay(w),
           Abs(GetDNDTime(now, w)) > 1
    PROVE  LET next == (now + 1) % DayHours
           IN  /\ next \in HoursOfDay
               /\ InHours(next, w) <=> InHours(now, w)
               /\ Abs(GetDNDTime(next, w)) = Abs(GetDNDTime(now, w)) - 1
<1> DEFINE next == IF now + 1 = DayHours THEN 0 ELSE now + 1
<1>1. (now + 1) % DayHours = next
  BY DndAssumption DEF HoursOfDay
<1>2. next \in HoursOfDay
  BY DndAssumption DEF HoursOfDay
<1>3. w[1] \in HoursOfDay /\ w[2] \in HoursOfDay /\ w[1] < w[2]
  BY WindowGives DEF WithinDay
<1>4. Abs(GetDNDTime(next, w)) = IF w[1] <= next /\ next < w[2] THEN w[2] - next
                                 ELSE IF next < w[1] THEN w[1] - next
                                 ELSE w[1] + DayHours - next
  BY <1>2, TimeOfDay
<1>5. Abs(GetDNDTime(now, w)) = IF w[1] <= now /\ now < w[2] THEN w[2] - now
                                ELSE IF now < w[1] THEN w[1] - now
                                ELSE w[1] + DayHours - now
  BY TimeOfDay
<1>6. InHours(next, w) <=> InHours(now, w)
  BY <1>3, <1>5, DndAssumption DEF HoursOfDay, InHours
<1>7. Abs(GetDNDTime(next, w)) = Abs(GetDNDTime(now, w)) - 1
  <2> DEFINE a == Abs(GetDNDTime(next, w))
             b == Abs(GetDNDTime(now, w))
  <2>1. b > 1
    OBVIOUS
  <2> HIDE DEF a, b
  <2> QED
    BY <1>3, <1>4, <1>5, <2>1, DndAssumption DEF HoursOfDay, a, b
<1> QED
  BY <1>1, <1>2, <1>6, <1>7

-----------------------------------------------------------------------------
(* The operators *)

\* What the machine leaves alone: the clock, the user and the option.
SameUser(d, q) ==
    /\ q.kept.switch = d.kept.switch /\ q.kept.window = d.kept.window
    /\ q.around.clock = d.around.clock /\ q.around.inUse = d.around.inUse
    /\ q.around.wanted = d.around.wanted

\* s is d with the volume v, which is to be reported.
VolumeSetTo(d, v, s) ==
    /\ s \in DndWorlds /\ s.kept = d.kept /\ s.fsm = d.fsm
    /\ s.around.volume = v /\ SameUser(d, s) /\ s.around.forgotten = d.around.forgotten
    /\ s.around.events = Append(d.around.events, v)

LEMMA SetVolumeGives ==
    ASSUME NEW d \in DndWorlds, NEW v \in SomeVolume
    PROVE  VolumeSetTo(d, v, SetVolume(d, v))
<1> DEFINE e == Append(d.around.events, v)
           s == SetVolume(d, v)
<1>1. d.around \in AroundRec /\ d.kept \in DndKeptRec /\ d.fsm \in FsmRec
  BY DEF DndWorlds
<1>2. e \in Seq(SomeVolume)
  BY <1>1 DEF AroundRec
<1>3. s = [d EXCEPT !.around = [d.around EXCEPT !.volume = v, !.events = e]]
  BY <1>1 DEF SetVolume, DndWorlds, AroundRec
<1> HIDE DEF e, s
<1> DEFINE a == [d.around EXCEPT !.volume = v, !.events = e]
<1>4. /\ a \in AroundRec /\ a.volume = v /\ a.events = e /\ a.clock = d.around.clock
      /\ a.inUse = d.around.inUse /\ a.wanted = d.around.wanted
      /\ a.forgotten = d.around.forgotten
  BY <1>1, <1>2 DEF AroundRec
<1> HIDE DEF a
<1>5. s \in DndWorlds /\ s.kept = d.kept /\ s.fsm = d.fsm /\ s.around = a
  BY <1>1, <1>3, <1>4 DEF DndWorlds, a
<1> QED
  BY <1>4, <1>5 DEF e, s, SameUser, VolumeSetTo

LEMMA DisableGives ==
    ASSUME NEW d \in DndWorlds, VolumeKept(d), d.around.events = <<>>, d.kept.status
    PROVE  /\ Disable(d) \in DndWorlds /\ ~Disable(d).kept.status /\ VolumeKept(Disable(d))
           /\ SameUser(d, Disable(d)) /\ Disable(d).fsm = d.fsm
<1> DEFINE v == d.kept.savedVolume
           s == SetVolume(d, v)
           k == IF v # 0 THEN [d.kept EXCEPT !.savedVolume = 0, !.status = FALSE]
                         ELSE [d.kept EXCEPT !.status = FALSE]
           a == IF v # 0 THEN [s.around EXCEPT !.light = FALSE,
                                               !.forgotten = s.around.forgotten \/ v = NaN]
                         ELSE [d.around EXCEPT !.light = FALSE]
           q == Disable(d)
<1>1. d.kept \in DndKeptRec /\ d.fsm \in FsmRec /\ d.around \in AroundRec /\ v \in SomeVolume
  BY DEF DndWorlds, DndKeptRec
<1>2. /\ s \in DndWorlds /\ s.kept = d.kept /\ s.fsm = d.fsm /\ s.around.volume = v
      /\ SameUser(d, s) /\ s.around.forgotten = d.around.forgotten
  <2>1. VolumeSetTo(d, v, s)
    BY <1>1, SetVolumeGives
  <2> HIDE DEF s
  <2> QED
    BY <2>1 DEF VolumeSetTo
<1>3. q = [kept |-> k, fsm |-> d.fsm, around |-> a]
  <2> HIDE DEF s
  <2>1. CASE v # 0
    <3> DEFINE lost == s.around.forgotten \/ v = NaN
    <3>1. q = [[s EXCEPT !.kept.savedVolume = 0, !.around.forgotten = lost]
                  EXCEPT !.around.light = FALSE, !.kept.status = FALSE]
      BY <2>1 DEF Disable, s
    <3>2. a = [s.around EXCEPT !.light = FALSE, !.forgotten = lost]
      BY <2>1
    <3>3. k = [s.kept EXCEPT !.savedVolume = 0, !.status = FALSE]
      BY <1>2, <2>1
    <3> HIDE DEF lost, a, k
    <3> DEFINE m == [s EXCEPT !.kept.savedVolume = 0, !.around.forgotten = lost]
    <3>4. /\ s = [kept |-> s.kept, fsm |-> s.fsm, around |-> s.around]
          /\ s.kept \in DndKeptRec /\ s.around \in AroundRec
      BY <1>2 DEF DndWorlds
    <3>5. m = [kept |-> [s.kept EXCEPT !.savedVolume = 0], fsm |-> s.fsm,
               around |-> [s.around EXCEPT !.forgotten = lost]]
      <4> DEFINE kk == s.kept
                 aa == s.around
      <4>1. s = [kept |-> kk, fsm |-> s.fsm, around |-> aa]
        BY <3>4
      <4>2. /\ [s EXCEPT !.kept.savedVolume = 0] = [s EXCEPT !.kept = [kk EXCEPT !.savedVolume = 0]]
            /\ m = [[s EXCEPT !.kept.savedVolume = 0] EXCEPT !.around.forgotten = lost]
        OBVIOUS
      <4> HIDE DEF kk, aa, m
      <4>3. [s EXCEPT !.kept.savedVolume = 0]
               = [kept |-> [kk EXCEPT !.savedVolume = 0], fsm |-> s.fsm, around |-> aa]
        BY <4>1, <4>2
      <4> QED
        BY <4>2, <4>3 DEF kk, aa
    <3>6. [[s.kept EXCEPT !.savedVolume = 0] EXCEPT !.status = FALSE] = k
      BY <3>3, <3>4 DEF DndKeptRec
    <3>7. [[s.around EXCEPT !.forgotten = lost] EXCEPT !.light = FALSE] = a
      BY <3>2, <3>4 DEF AroundRec
    <3>8. q = [m EXCEPT !.around.light = FALSE, !.kept.status = FALSE]
      BY <3>1
    <3> HIDE DEF m
    <3> QED
      BY <1>2, <3>5, <3>6, <3>7, <3>8
  <2>2. CASE v = 0
    <3>1. q = [d EXCEPT !.around.light = FALSE, !.kept.status = FALSE]
      BY <2>2 DEF Disable
    <3> QED
      BY <1>1, <2>2, <3>1 DEF DndWorlds
  <2> QED
    BY <2>1, <2>2
<1> HIDE DEF s, q
<1>4. k \in DndKeptRec /\ k.savedVolume = 0 /\ ~k.status /\ k.switch = d.kept.switch
      /\ k.window = d.kept.window
  <2>1. 0 \in SomeVolume
    BY DEF SomeVolume
  <2> QED
    BY <1>1, <2>1 DEF DndKeptRec
<1> HIDE DEF k
<1>5. s.around \in AroundRec
  BY <1>2 DEF DndWorlds
<1>6. /\ a \in AroundRec /\ a.clock = d.around.clock /\ a.inUse = d.around.inUse
      /\ a.wanted = d.around.wanted
      /\ a.volume = IF v # 0 THEN v ELSE d.around.volume
      /\ a.forgotten = (d.around.forgotten \/ v = NaN)
  <2>1. CASE v # 0
    <3>1. (s.around.forgotten \/ v = NaN) \in BOOLEAN
      BY <1>5 DEF AroundRec
    <3> QED
      BY <1>1, <1>2, <1>5, <2>1, <3>1 DEF AroundRec, SameUser
  <2>2. CASE v = 0
    <3>1. (d.around.forgotten \/ v = NaN) = d.around.forgotten
      <4>1. v # NaN /\ d.around.forgotten \in BOOLEAN
        BY <1>1, <2>2 DEF AroundRec, NaN
      <4> QED
        BY <4>1
    <3>2. a = [d.around EXCEPT !.light = FALSE]
      BY <2>2
    <3> QED
      BY <1>1, <2>2, <3>1, <3>2 DEF AroundRec
  <2> QED
    BY <2>1, <2>2
<1> HIDE DEF a
<1>7. q \in DndWorlds /\ q.kept = k /\ q.fsm = d.fsm /\ q.around = a
  BY <1>1, <1>3, <1>4, <1>6 DEF DndWorlds
<1>8. ~d.fsm.setVolumeFlag
  BY DEF VolumeKept
<1>9. ASSUME ~q.around.forgotten PROVE Remembered(q)
  <2>1. ~d.around.forgotten /\ v # NaN
    BY <1>6, <1>7, <1>9
  <2>2. /\ d.around.volume # NaN
        /\ d.around.wanted = IF v = 0 THEN d.around.volume ELSE v
    BY <2>1 DEF VolumeKept, Remembered, NothingSaved
  <2>3. a.volume = a.wanted /\ a.volume # NaN
    BY <1>6, <2>1, <2>2
  <2> QED
    BY <1>4, <1>7, <1>8, <2>3 DEF Remembered
<1>10. VolumeKept(q)
  BY <1>4, <1>7, <1>8, <1>9 DEF VolumeKept, NothingSaved
<1>11. SameUser(d, q)
  BY <1>4, <1>6, <1>7 DEF SameUser
<1> QED
  BY <1>4, <1>7, <1>10, <1>11 DEF q

LEMMA EnableGives ==
    ASSUME NEW d \in DndWorlds, VolumeKept(d), d.around.events = <<>>, ~d.kept.status
    PROVE  /\ Enable(d) \in DndWorlds /\ Enable(d).kept.status /\ VolumeKept(Enable(d))
           /\ OnlyDims(Enable(d)) /\ SameUser(d, Enable(d))
<1> DEFINE cur == d.around.volume
           s == SetVolume(d, DndVolume)
           lower == DndVolume < cur
           k == IF lower THEN [d.kept EXCEPT !.savedVolume = cur, !.status = TRUE]
                         ELSE [d.kept EXCEPT !.status = TRUE]
           f == IF lower THEN [d.fsm EXCEPT !.setVolumeFlag = TRUE] ELSE d.fsm
           a == IF lower THEN [s.around EXCEPT !.light = TRUE]
                         ELSE [d.around EXCEPT !.light = TRUE]
           q == Enable(d)
<1>1. /\ d.kept \in DndKeptRec /\ d.fsm \in FsmRec /\ d.around \in AroundRec
      /\ cur \in SomeVolume /\ DndVolume \in SomeVolume
      /\ cur \in Int /\ DndVolume \in Nat \ {0}
  <2>1. /\ d.kept \in DndKeptRec /\ d.fsm \in FsmRec /\ d.around \in AroundRec
        /\ cur \in SomeVolume
    BY DEF DndWorlds, AroundRec
  <2>2. SomeVolume \subseteq Int /\ DndVolume \in SomeVolume /\ DndVolume \in Nat \ {0}
    BY DndAssumption DEF SomeVolume, NaN
  <2> QED
    BY <2>1, <2>2
<1>2. /\ s \in DndWorlds /\ s.kept = d.kept /\ s.fsm = d.fsm /\ s.around.volume = DndVolume
      /\ SameUser(d, s) /\ s.around.events = <<DndVolume>>
      /\ s.around.forgotten = d.around.forgotten
  <2>1. Append(<<>>, DndVolume) = <<DndVolume>>
    OBVIOUS
  <2>2. VolumeSetTo(d, DndVolume, s)
    BY <1>1, SetVolumeGives
  <2> HIDE DEF s, lower
  <2> QED
    BY <2>1, <2>2 DEF VolumeSetTo
<1>3. q = [kept |-> k, fsm |-> f, around |-> a]
  <2> HIDE DEF s
  <2>1. CASE lower
    <3>1. q = [[s EXCEPT !.fsm.setVolumeFlag = TRUE, !.kept.savedVolume = cur]
                  EXCEPT !.around.light = TRUE, !.kept.status = TRUE]
      BY <2>1 DEF Enable, s
    <3> QED
      BY <1>1, <1>2, <2>1, <3>1 DEF DndWorlds, DndKeptRec, AroundRec, FsmRec
  <2>2. CASE ~lower
    <3>1. q = [d EXCEPT !.around.light = TRUE, !.kept.status = TRUE]
      BY <2>2 DEF Enable
    <3> QED
      BY <1>1, <2>2, <3>1 DEF DndWorlds
  <2> QED
    BY <2>1, <2>2
<1> HIDE DEF s, q, lower
<1>4. /\ k \in DndKeptRec /\ k.status /\ k.switch = d.kept.switch /\ k.window = d.kept.window
      /\ k.savedVolume = IF lower THEN cur ELSE d.kept.savedVolume
  BY <1>1 DEF DndKeptRec
<1> HIDE DEF k
<1>5. f \in FsmRec /\ (f.setVolumeFlag <=> lower \/ d.fsm.setVolumeFlag)
  BY <1>1 DEF FsmRec
<1> HIDE DEF f
<1>6. s.around \in AroundRec
  BY <1>2 DEF DndWorlds
<1>7. /\ a \in AroundRec /\ a.clock = d.around.clock /\ a.inUse = d.around.inUse
      /\ a.wanted = d.around.wanted /\ a.forgotten = d.around.forgotten
      /\ a.volume = IF lower THEN s.around.volume ELSE d.around.volume
      /\ a.events = IF lower THEN s.around.events ELSE d.around.events
  BY <1>1, <1>2, <1>6 DEF AroundRec, SameUser
<1> HIDE DEF a
<1>8. q \in DndWorlds /\ q.kept = k /\ q.fsm = f /\ q.around = a
  BY <1>3, <1>4, <1>5, <1>7 DEF DndWorlds
<1>9. /\ ~d.fsm.setVolumeFlag /\ NothingSaved(d)
      /\ ~d.around.forgotten => d.around.wanted = cur /\ cur # NaN
  BY DEF VolumeKept, Remembered
<1>10. lower => cur # 0 /\ cur # NaN /\ cur # DndVolume
  BY <1>1 DEF lower, NaN
<1>11. <<DndVolume>> # <<>>
  OBVIOUS
<1>12. ASSUME ~q.around.forgotten PROVE Remembered(q) /\ OnlyDims(q)
  <2>1. d.around.wanted = cur /\ cur # NaN
    BY <1>7, <1>8, <1>9, <1>12
  <2>2. CASE lower
    <3>1. /\ q.kept.status /\ q.around.events = <<DndVolume>> /\ q.around.volume = DndVolume
          /\ q.around.wanted = cur /\ q.kept.savedVolume = cur /\ q.fsm.setVolumeFlag
      BY <1>2, <1>4, <1>5, <1>7, <1>8, <2>1, <2>2
    <3>2. DndVolume # NaN
      BY <1>1 DEF NaN
    <3> QED
      BY <1>10, <1>11, <2>2, <3>1, <3>2 DEF Remembered, NothingSaved, OnlyDims
  <2>3. CASE ~lower
    <3>1. /\ q.kept.status /\ q.around.events = <<>> /\ q.around.volume = cur
          /\ q.around.wanted = cur /\ NothingSaved(q) /\ ~q.fsm.setVolumeFlag
      BY <1>4, <1>5, <1>7, <1>8, <1>9, <2>1, <2>3 DEF NothingSaved
    <3> QED
      BY <2>1, <3>1 DEF Remembered, OnlyDims
  <2> QED
    BY <2>2, <2>3
<1>13. VolumeKept(q)
  <2>1. q.around.events = <<>> => ~q.fsm.setVolumeFlag
    BY <1>2, <1>5, <1>7, <1>8, <1>9, <1>11
  <2> QED
    BY <1>4, <1>8, <1>12, <2>1 DEF VolumeKept
<1>14. OnlyDims(q)
  BY <1>12 DEF OnlyDims
<1>15. SameUser(d, q)
  BY <1>4, <1>7, <1>8 DEF SameUser
<1> QED
  BY <1>4, <1>8, <1>13, <1>14, <1>15 DEF q

\* What a run of the machine leaves.
RunsWell(q) == q \in DndWorlds /\ VolumeKept(q) /\ HoursKept(q) /\ OnlyDims(q)

LEMMA SetTimeoutGives ==
    ASSUME NEW d \in DndWorlds, NEW ws \in BOOLEAN, VolumeKept(d), OnlyDims(d),
           IF ws THEN d.around.inUse
           ELSE WithinDay(d.kept.window)
                   => (d.kept.status <=> InHours(d.around.clock, d.kept.window))
    PROVE  RunsWell(SetTimeout(d, ws))
<1> DEFINE q == SetTimeout(d, ws)
           left == Abs(GetDNDTime(d.around.clock, d.kept.window))
           f == [d.fsm EXCEPT !.status = "waiting", !.waitSleep = ws, !.left = left]
<1>1. d.kept \in DndKeptRec /\ d.fsm \in FsmRec /\ d.around \in AroundRec
  BY DEF DndWorlds
<1>2. left \in 0 .. DayHours
  <2>1. d.around.clock \in HoursOfDay /\ d.kept.window \in Windows
    BY <1>1 DEF AroundRec, DndKeptRec
  <2> QED
    BY <2>1, TimeInADay
<1>3. q = [d EXCEPT !.fsm = f]
  BY <1>1 DEF SetTimeout, DndWorlds, FsmRec
<1> HIDE DEF left, q
<1>4. /\ f \in FsmRec /\ f.status = "waiting" /\ f.waitSleep = ws /\ f.left = left
      /\ f.setVolumeFlag = d.fsm.setVolumeFlag
  BY <1>1, <1>2 DEF FsmRec
<1> HIDE DEF f
<1>5. q \in DndWorlds /\ q.kept = d.kept /\ q.around = d.around /\ q.fsm = f
  BY <1>1, <1>3, <1>4 DEF DndWorlds
<1>6. VolumeKept(q) /\ OnlyDims(q)
  BY <1>4, <1>5 DEF VolumeKept, Remembered, NothingSaved, OnlyDims
<1>7. left <= left
  BY <1>2
<1>8. HoursKept(q)
  BY <1>4, <1>5, <1>7 DEF HoursKept, left
<1> QED
  BY <1>5, <1>6, <1>8 DEF q, RunsWell

LEMMA SwitchedOffGives ==
    ASSUME NEW d \in DndWorlds, VolumeKept(d), d.around.events = <<>>
    PROVE  RunsWell(SwitchedOff(d))
<1> DEFINE p == IF d.kept.status THEN Disable(d) ELSE d
           q == SwitchedOff(d)
<1>1. p \in DndWorlds /\ VolumeKept(p) /\ ~p.kept.status
  BY DisableGives
<1>2. q = [p EXCEPT !.fsm.status = "end"]
  BY DEF SwitchedOff, End
<1> HIDE DEF p, q
<1>3. /\ q \in DndWorlds /\ q.kept = p.kept /\ q.around = p.around /\ q.fsm.status = "end"
      /\ q.fsm.setVolumeFlag = p.fsm.setVolumeFlag
  BY <1>1, <1>2 DEF DndWorlds, FsmRec
<1> QED
  BY <1>1, <1>3 DEF VolumeKept, Remembered, NothingSaved, HoursKept, OnlyDims, RunsWell, q

\* Wherever it runs, the machine gets the mode and the volume right.
LEMMA RunGives ==
    ASSUME NEW d \in DndWorlds, NEW isOption \in BOOLEAN, VolumeKept(d),
           d.around.events = <<>>
    PROVE  RunsWell(Run(d, isOption))
<1>1. d.around.clock \in HoursOfDay /\ d.kept.window \in Windows
      /\ {d.kept.switch, d.kept.status, d.around.inUse} \subseteq BOOLEAN
  BY DEF DndWorlds, AroundRec, DndKeptRec
<1>2. WithinDay(d.kept.window)
         => (CheckTime(d) <=> InHours(d.around.clock, d.kept.window))
  BY <1>1, TimeOfDay DEF CheckTime
<1>3. CheckActivity(d, isOption) => d.around.inUse
  BY DEF CheckActivity
<1>4. OnlyDims(d)
  BY DEF OnlyDims
<1>5. CASE ~d.kept.switch
  <2>1. Run(d, isOption) = SwitchedOff(d)
    BY <1>5 DEF Run
  <2> QED
    BY <2>1, SwitchedOffGives
<1>6. CASE d.kept.switch /\ (d.kept.status <=> CheckTime(d))
  <2>1. Run(d, isOption) = SetTimeout(d, FALSE)
    BY <1>6 DEF Run
  <2> QED
    BY <1>2, <1>4, <1>6, <2>1, SetTimeoutGives
<1>7. CASE d.kept.switch /\ ~(d.kept.status <=> CheckTime(d)) /\ CheckActivity(d, isOption)
  <2>1. Run(d, isOption) = SetTimeout(d, TRUE)
    BY <1>7 DEF Run
  <2> QED
    BY <1>3, <1>4, <1>7, <2>1, SetTimeoutGives
<1>8. CASE d.kept.switch /\ d.kept.status /\ ~CheckTime(d) /\ ~CheckActivity(d, isOption)
  <2>1. Run(d, isOption) = SetTimeout(Disable(d), FALSE)
    BY <1>8 DEF Run
  <2>2. /\ Disable(d) \in DndWorlds /\ ~Disable(d).kept.status /\ VolumeKept(Disable(d))
        /\ SameUser(d, Disable(d))
    BY <1>8, DisableGives
  <2>3. OnlyDims(Disable(d))
    BY <2>2 DEF OnlyDims
  <2>4. WithinDay(Disable(d).kept.window) =>
           (Disable(d).kept.status
               <=> InHours(Disable(d).around.clock, Disable(d).kept.window))
    BY <1>2, <1>8, <2>2 DEF SameUser
  <2> QED
    BY <2>1, <2>2, <2>3, <2>4, SetTimeoutGives
<1>9. CASE d.kept.switch /\ ~d.kept.status /\ CheckTime(d) /\ ~CheckActivity(d, isOption)
  <2>1. Run(d, isOption) = SetTimeout(Enable(d), FALSE)
    BY <1>9 DEF Run
  <2>2. /\ Enable(d) \in DndWorlds /\ Enable(d).kept.status /\ VolumeKept(Enable(d))
        /\ OnlyDims(Enable(d)) /\ SameUser(d, Enable(d))
    BY <1>9, EnableGives
  <2>3. WithinDay(Enable(d).kept.window) =>
           (Enable(d).kept.status
               <=> InHours(Enable(d).around.clock, Enable(d).kept.window))
    BY <1>2, <1>9, <2>2 DEF SameUser
  <2> QED
    BY <2>1, <2>2, <2>3, SetTimeoutGives
<1> QED
  BY <1>5, <1>6, <1>7, <1>8, <1>9

\* The runtime sets the volume again after the run: the mode, when it is on and
\* hears it, goes on to remember, or forgets what the user wants.
LEMMA InitiateGives ==
    ASSUME NEW d, RunsWell(d), NEW v \in UserVolumes, NEW heard \in BOOLEAN
    PROVE  LET q == Initiate(d, v, heard)
           IN  q \in DndWorlds /\ VolumeKept(q) /\ HoursKept(q)
<1> DEFINE cur == d.around.volume
           again == IF cur = NaN THEN <<0, v>> ELSE <<cur>>
           vol == IF cur = NaN THEN v ELSE cur
           evs == IF heard THEN d.around.events \o again ELSE d.around.events
           forgets == d.around.forgotten \/ (heard /\ d.kept.status /\ cur # d.around.wanted)
           a == [d.around EXCEPT !.volume = vol, !.events = evs, !.forgotten = forgets]
           q == Initiate(d, v, heard)
<1> SUFFICES q \in DndWorlds /\ VolumeKept(q) /\ HoursKept(q)
  OBVIOUS
<1>1. /\ d \in DndWorlds /\ d.kept \in DndKeptRec /\ d.fsm \in FsmRec /\ d.around \in AroundRec
      /\ cur \in SomeVolume /\ v \in SomeVolume /\ 0 \in SomeVolume
      /\ d.around.events \in Seq(SomeVolume)
  BY DEF RunsWell, DndWorlds, AroundRec, SomeVolume
<1>2. VolumeKept(d) /\ HoursKept(d) /\ OnlyDims(d)
  BY DEF RunsWell
<1>3. vol \in SomeVolume /\ again \in Seq(SomeVolume) /\ again # <<>>
  BY <1>1
<1>4. evs \in Seq(SomeVolume)
  BY <1>1, <1>3
<1>5. forgets \in BOOLEAN
  BY <1>1 DEF AroundRec
<1>6. q = [d EXCEPT !.around = a]
  BY <1>1 DEF Initiate, DndWorlds, AroundRec
<1>7. evs = <<>> => d.around.events = <<>>
  BY <1>1, <1>3
<1>8. d.around.events = <<>> => evs = IF heard THEN again ELSE <<>>
  BY <1>3
<1>9. ~heard => evs = d.around.events
  OBVIOUS
<1>10. cur # NaN => vol = cur /\ again = <<cur>>
  OBVIOUS
<1>11. ~forgets => ~d.around.forgotten /\ (heard /\ d.kept.status => cur = d.around.wanted)
  OBVIOUS
<1> HIDE DEF vol, evs, forgets, again
<1>12. /\ a \in AroundRec /\ a.volume = vol /\ a.events = evs /\ a.forgotten = forgets
       /\ a.clock = d.around.clock /\ a.inUse = d.around.inUse /\ a.wanted = d.around.wanted
  BY <1>1, <1>3, <1>4, <1>5 DEF AroundRec
<1> HIDE DEF a, q
<1>13. q \in DndWorlds /\ q.kept = d.kept /\ q.fsm = d.fsm /\ q.around = a
  BY <1>1, <1>6, <1>12 DEF DndWorlds
<1>14. ASSUME ~forgets PROVE Remembered(q)
  <2>1. ~d.around.forgotten /\ (heard /\ d.kept.status => cur = d.around.wanted)
    BY <1>11, <1>14
  <2>2. Remembered(d) /\ cur # NaN
    BY <1>2, <2>1 DEF VolumeKept, Remembered
  <2>3. vol = cur /\ again = <<cur>>
    BY <1>10, <2>2
  <2>4. CASE heard /\ d.kept.status
    <3>1. cur = d.around.wanted /\ d.around.events = <<>>
      BY <1>2, <2>1, <2>4 DEF OnlyDims
    <3>2. evs = <<cur>>
      BY <1>8, <2>3, <2>4, <3>1
    <3>3. ~d.fsm.setVolumeFlag
      BY <1>2, <3>1 DEF VolumeKept
    <3>4. <<cur>> # <<>>
      OBVIOUS
    <3> HIDE DEF cur
    <3> QED
      BY <1>12, <1>13, <2>2, <2>3, <2>4, <3>1, <3>2, <3>3, <3>4 DEF Remembered
  <2>5. CASE ~heard
    BY <1>9, <1>12, <1>13, <2>2, <2>3, <2>5 DEF Remembered, NothingSaved
  <2>6. CASE ~d.kept.status
    BY <1>2, <1>12, <1>13, <2>2, <2>3, <2>6 DEF Remembered, NothingSaved, VolumeKept
  <2> QED
    BY <2>4, <2>5, <2>6
<1>15. VolumeKept(q)
  BY <1>2, <1>7, <1>12, <1>13, <1>14 DEF VolumeKept, NothingSaved
<1>16. HoursKept(q)
  BY <1>2, <1>12, <1>13 DEF HoursKept
<1> QED
  BY <1>13, <1>15, <1>16

-----------------------------------------------------------------------------
(* The steps, with changes of the volume reported before anything else *)

LEMMA SetDndGives ==
    ASSUME NEW q \in DndWorlds, SetDnd(q), VolumeKept(q), HoursKept(q)
    PROVE  DndIInv'
<1>1. World' = q
  BY DEF World, SetDnd, DndWorlds
<1> QED
  BY <1>1 DEF DndIInv, VolumeKept, Remembered, NothingSaved, NaN, HoursKept, WithinDay,
              InHours, GetDNDTime, Abs

LEMMA DndInductive ==
    ASSUME "late" \notin DndEvents
    PROVE  DndIInv /\ [DndNext]_dndVars => DndIInv'
<1> SUFFICES ASSUME DndIInv, [DndNext]_dndVars PROVE DndIInv'
  OBVIOUS
<1>1. /\ World \in DndWorlds /\ VolumeKept(World) /\ HoursKept(World)
      /\ World.kept = kept /\ World.fsm = fsm /\ World.around = around
      /\ kept \in DndKeptRec /\ fsm \in FsmRec /\ around \in AroundRec
  BY DEF DndIInv, World, DndWorlds
<1>2. Reported <=> World.around.events = <<>>
  BY <1>1 DEF Reported
<1>3. CASE UNCHANGED dndVars
  <2>1. SetDnd(World)
    BY <1>1, <1>3 DEF dndVars, SetDnd
  <2> QED
    BY <1>1, <2>1, SetDndGives
<1>4. CASE TimerFires
  <2>1. SetDnd(Run(World, FALSE)) /\ World.around.events = <<>>
    BY <1>2, <1>4 DEF TimerFires
  <2> QED
    BY <1>1, <2>1, RunGives, SetDndGives DEF RunsWell
<1>5. ASSUME NEW on \in BOOLEAN, NEW w \in Windows, SetOption(on, w) PROVE DndIInv'
  <2> DEFINE d == [World EXCEPT !.kept.switch = on, !.kept.window = w]
  <2>1. SetDnd(Run(d, TRUE)) /\ World.around.events = <<>>
    BY <1>2, <1>5 DEF SetOption, Steady
  <2>2. /\ d \in DndWorlds /\ d.fsm = fsm /\ d.around = around
        /\ d.kept.status = kept.status /\ d.kept.savedVolume = kept.savedVolume
    BY <1>1 DEF DndWorlds, DndKeptRec
  <2> HIDE DEF d
  <2>3. VolumeKept(d) /\ d.around.events = <<>>
    BY <1>1, <2>1, <2>2 DEF VolumeKept, Remembered, NothingSaved
  <2> QED
    BY <2>1, <2>2, <2>3, RunGives, SetDndGives DEF RunsWell
<1>6. ASSUME NEW inUse \in BOOLEAN, UseDevice(inUse) PROVE DndIInv'
  <2> DEFINE d == [World EXCEPT !.around.inUse = inUse]
  <2>1. World.around.events = <<>> /\ SetDnd(IF inUse THEN d ELSE OnDeviceIdle(d))
    BY <1>2, <1>6 DEF UseDevice, Steady
  <2>2. /\ d \in DndWorlds /\ d.kept = kept /\ d.fsm = fsm /\ d.around.inUse = inUse
        /\ d.around.volume = around.volume /\ d.around.wanted = around.wanted
        /\ d.around.events = around.events /\ d.around.clock = around.clock
        /\ d.around.forgotten = around.forgotten
    BY <1>1 DEF DndWorlds, AroundRec
  <2> HIDE DEF d
  <2>3. VolumeKept(d) /\ d.around.events = <<>>
    BY <1>1, <2>1, <2>2 DEF VolumeKept, Remembered, NothingSaved
  <2>4. CASE inUse \/ ~(fsm.waitSleep /\ fsm.status = "waiting")
    <3>1. SetDnd(d)
      BY <2>1, <2>2, <2>4 DEF OnDeviceIdle
    <3>2. HoursKept(d)
      BY <1>1, <2>2, <2>4 DEF HoursKept
    <3> QED
      BY <2>2, <2>3, <3>1, <3>2, SetDndGives
  <2>5. CASE ~inUse /\ fsm.waitSleep /\ fsm.status = "waiting"
    <3> DEFINE e == [d EXCEPT !.fsm.waitSleep = FALSE]
    <3>1. SetDnd(Run(e, FALSE))
      BY <2>1, <2>2, <2>5 DEF OnDeviceIdle
    <3>2. /\ e \in DndWorlds /\ e.kept = d.kept /\ e.around = d.around
          /\ e.fsm.setVolumeFlag = d.fsm.setVolumeFlag
      BY <2>2 DEF DndWorlds, FsmRec
    <3> HIDE DEF e
    <3>3. VolumeKept(e) /\ e.around.events = <<>>
      BY <2>3, <3>2 DEF VolumeKept, Remembered, NothingSaved
    <3> QED
      BY <3>1, <3>2, <3>3, RunGives, SetDndGives DEF RunsWell
  <2> QED
    BY <2>4, <2>5
<1>7. ASSUME NEW v \in UserVolumes, UserSetsVolume(v) PROVE DndIInv'
  <2> DEFINE s == SetVolume(World, v)
             a == [s.around EXCEPT !.wanted = v, !.forgotten = FALSE]
             q == [kept |-> s.kept, fsm |-> s.fsm, around |-> a]
  <2>1. /\ SetDnd([s EXCEPT !.around.wanted = v, !.around.forgotten = FALSE])
        /\ around.events = <<>> /\ v \in SomeVolume /\ v # NaN
    BY <1>1, <1>2, <1>7, DndAssumption DEF UserSetsVolume, Steady, SomeVolume, NaN
  <2>2. /\ s \in DndWorlds /\ s.kept = kept /\ s.fsm = fsm /\ s.around.volume = v
        /\ SameUser(World, s) /\ s.around.events = <<v>>
    <3>1. Append(<<>>, v) = <<v>>
      OBVIOUS
    <3>2. VolumeSetTo(World, v, s)
      BY <1>1, <2>1, SetVolumeGives
    <3> HIDE DEF s
    <3> QED
      BY <1>1, <2>1, <3>1, <3>2 DEF VolumeSetTo
  <2> HIDE DEF s
  <2>3. s.kept \in DndKeptRec /\ s.fsm \in FsmRec /\ s.around \in AroundRec
    BY <2>2 DEF DndWorlds
  <2>4. SetDnd(q)
    BY <2>1, <2>2, <2>3 DEF SetDnd, DndWorlds, AroundRec
  <2>5. /\ a \in AroundRec /\ a.volume = v /\ a.wanted = v /\ ~a.forgotten
        /\ a.events = <<v>> /\ a.clock = around.clock /\ a.inUse = around.inUse
    BY <1>1, <2>1, <2>2, <2>3 DEF AroundRec, SameUser
  <2> HIDE DEF a
  <2>6. q \in DndWorlds /\ q.kept = kept /\ q.fsm = fsm /\ q.around = a
    BY <2>2, <2>3, <2>5 DEF DndWorlds
  <2> HIDE DEF q
  <2>7. ~fsm.setVolumeFlag /\ (~kept.status => kept.savedVolume \in {0, NaN})
    BY <1>1, <2>1 DEF VolumeKept, NothingSaved
  <2>8. <<v>> # <<>>
    OBVIOUS
  <2>9. VolumeKept(q)
    BY <2>1, <2>5, <2>6, <2>7, <2>8 DEF VolumeKept, Remembered, NothingSaved
  <2>10. HoursKept(q)
    BY <1>1, <2>5, <2>6 DEF HoursKept
  <2> QED
    BY <2>4, <2>6, <2>9, <2>10, SetDndGives
<1>8. CASE OnVolumeChanged
  <2> DEFINE k == IF kept.status /\ ~fsm.setVolumeFlag
                  THEN [kept EXCEPT !.savedVolume = Head(around.events)] ELSE kept
             f == [fsm EXCEPT !.setVolumeFlag = @ /\ ~kept.status]
             a == [around EXCEPT !.events = Tail(@)]
             q == [kept |-> k, fsm |-> f, around |-> a]
  <2>1. around.events # <<>> /\ kept' = k /\ fsm' = f /\ around' = a
    BY <1>8 DEF OnVolumeChanged
  <2>2. around.events \in Seq(SomeVolume)
    BY <1>1 DEF AroundRec
  <2>3. Head(around.events) \in SomeVolume /\ Tail(around.events) \in Seq(SomeVolume)
    BY <2>1, <2>2
  <2>4. /\ k \in DndKeptRec /\ k.status = kept.status /\ k.switch = kept.switch
        /\ k.window = kept.window
        /\ k.savedVolume = IF kept.status /\ ~fsm.setVolumeFlag THEN Head(around.events)
                                                                ELSE kept.savedVolume
    BY <1>1, <2>3 DEF DndKeptRec
  <2>5. /\ f \in FsmRec /\ f.status = fsm.status /\ f.waitSleep = fsm.waitSleep
        /\ f.left = fsm.left /\ (f.setVolumeFlag <=> fsm.setVolumeFlag /\ ~kept.status)
    BY <1>1 DEF FsmRec
  <2>6. /\ a \in AroundRec /\ a.events = Tail(around.events) /\ a.volume = around.volume
        /\ a.wanted = around.wanted /\ a.clock = around.clock /\ a.inUse = around.inUse
        /\ a.forgotten = around.forgotten
    BY <1>1, <2>3 DEF AroundRec
  <2> HIDE DEF k, f, a
  <2>7. q \in DndWorlds /\ q.kept = k /\ q.fsm = f /\ q.around = a
    BY <2>4, <2>5, <2>6 DEF DndWorlds
  <2>8. SetDnd(q)
    BY <2>1 DEF SetDnd
  <2> HIDE DEF q
  <2>9. ~f.setVolumeFlag
    BY <1>1, <2>5 DEF VolumeKept
  <2>10. ASSUME ~around.forgotten PROVE Remembered(q)
    <3>1. Remembered(World) /\ around.volume # NaN
      BY <1>1, <2>10 DEF VolumeKept, Remembered
    <3>2. CASE ~kept.status
      BY <1>1, <2>4, <2>6, <2>7, <2>9, <3>1, <3>2 DEF Remembered
    <3>3. CASE kept.status
      <4>1. around.events = <<around.volume>>
        BY <1>1, <2>1, <3>1, <3>3 DEF Remembered
      <4>2. Head(around.events) = around.volume /\ Tail(around.events) = <<>>
        BY <4>1
      <4>3. around.wanted = IF fsm.setVolumeFlag THEN kept.savedVolume ELSE around.volume
        BY <1>1, <2>1, <3>1, <3>3 DEF Remembered
      <4>4. fsm.setVolumeFlag => ~NothingSaved(World)
        BY <1>1, <3>1 DEF Remembered
      <4> QED
        BY <1>1, <2>4, <2>6, <2>7, <2>9, <3>1, <3>3, <4>2, <4>3, <4>4
           DEF Remembered, NothingSaved
    <3> QED
      BY <3>2, <3>3
  <2>11. VolumeKept(q)
    BY <1>1, <2>4, <2>6, <2>7, <2>9, <2>10 DEF VolumeKept, NothingSaved
  <2>12. HoursKept(q)
    BY <1>1, <2>4, <2>5, <2>6, <2>7 DEF HoursKept
  <2> QED
    BY <2>7, <2>8, <2>11, <2>12, SetDndGives
<1>9. CASE HourPasses
  <2> DEFINE next == (around.clock + 1) % DayHours
             left == IF fsm.status = "waiting" THEN fsm.left - 1 ELSE fsm.left
             f == [fsm EXCEPT !.left = left]
             a == [around EXCEPT !.clock = next]
             q == [kept |-> kept, fsm |-> f, around |-> a]
  <2>1. /\ kept' = kept /\ fsm' = f /\ around' = a /\ around.events = <<>> /\ ~TimerDue
    BY <1>1, <1>2, <1>9 DEF HourPasses, Steady
  <2>2. around.clock \in HoursOfDay /\ fsm.left \in 0 .. DayHours /\ kept.window \in Windows
    BY <1>1 DEF AroundRec, FsmRec, DndKeptRec
  <2>3. next \in HoursOfDay
    BY <2>2, DndAssumption DEF HoursOfDay
  <2>4. left \in 0 .. DayHours
    BY <2>1, <2>2, DndAssumption DEF TimerDue
  <2> HIDE DEF next, left
  <2>5. /\ f \in FsmRec /\ f.status = fsm.status /\ f.waitSleep = fsm.waitSleep
        /\ f.left = left /\ f.setVolumeFlag = fsm.setVolumeFlag
    BY <1>1, <2>4 DEF FsmRec
  <2>6. /\ a \in AroundRec /\ a.events = around.events /\ a.volume = around.volume
        /\ a.wanted = around.wanted /\ a.clock = next /\ a.inUse = around.inUse
        /\ a.forgotten = around.forgotten
    BY <1>1, <2>3 DEF AroundRec
  <2> HIDE DEF f, a
  <2>7. q \in DndWorlds /\ q.kept = kept /\ q.fsm = f /\ q.around = a
    BY <1>1, <2>5, <2>6 DEF DndWorlds
  <2>8. SetDnd(q)
    BY <2>1 DEF SetDnd
  <2> HIDE DEF q
  <2>9. VolumeKept(q)
    BY <1>1, <2>5, <2>6, <2>7 DEF VolumeKept, Remembered, NothingSaved
  <2>10. ASSUME fsm.status = "waiting", ~fsm.waitSleep, WithinDay(kept.window), left > 0
         PROVE  /\ kept.status <=> InHours(next, kept.window)
                /\ left <= Abs(GetDNDTime(next, kept.window))
    <3> DEFINE wait == Abs(GetDNDTime(around.clock, kept.window))
    <3>1. left = fsm.left - 1 /\ fsm.left > 1
      BY <2>2, <2>10 DEF left
    <3>2. (kept.status <=> InHours(around.clock, kept.window)) /\ fsm.left <= wait
      BY <1>1, <2>2, <2>10, <3>1 DEF HoursKept
    <3>3. wait \in 1 .. DayHours
      BY <2>2, <2>10, TimeOfDay
    <3>4. wait > 1
      BY <2>2, <3>1, <3>2, <3>3
    <3>5. (InHours(next, kept.window) <=> InHours(around.clock, kept.window))
          /\ Abs(GetDNDTime(next, kept.window)) = wait - 1
      BY <2>2, <2>10, <3>4, HourIsOneLess DEF next
    <3> HIDE DEF wait
    <3> QED
      BY <2>2, <3>1, <3>2, <3>3, <3>5
  <2>11. HoursKept(q)
    BY <1>1, <2>5, <2>6, <2>7, <2>10 DEF HoursKept
  <2> QED
    BY <2>7, <2>8, <2>9, <2>11, SetDndGives
<1>10. CASE RestartDevice
  <2> DEFINE f == [status |-> "ready", waitSleep |-> FALSE, left |-> 0, setVolumeFlag |-> FALSE]
             a == [around EXCEPT !.inUse = FALSE, !.light = FALSE, !.events = <<>>]
             q == [kept |-> kept, fsm |-> f, around |-> a]
  <2>1. kept' = kept /\ fsm' = f /\ around' = a /\ around.events = <<>>
    BY <1>1, <1>2, <1>10 DEF RestartDevice, Steady
  <2>2. 0 \in 0 .. DayHours /\ <<>> \in Seq(SomeVolume)
    BY DndAssumption
  <2>3. f \in FsmRec /\ f.status = "ready" /\ ~f.setVolumeFlag
    BY <2>2 DEF FsmRec
  <2>4. /\ a \in AroundRec /\ a.events = <<>> /\ a.volume = around.volume
        /\ a.wanted = around.wanted /\ a.forgotten = around.forgotten
    BY <1>1, <2>2 DEF AroundRec
  <2> HIDE DEF f, a
  <2>5. q \in DndWorlds /\ q.kept = kept /\ q.fsm = f /\ q.around = a
    BY <1>1, <2>3, <2>4 DEF DndWorlds
  <2>6. SetDnd(q)
    BY <2>1 DEF SetDnd
  <2> HIDE DEF q
  <2>7. VolumeKept(q) /\ HoursKept(q)
    BY <1>1, <2>1, <2>3, <2>4, <2>5 DEF VolumeKept, Remembered, NothingSaved, HoursKept
  <2> QED
    BY <2>5, <2>6, <2>7, SetDndGives
<1>11. ASSUME NEW v \in UserVolumes, NEW heard \in BOOLEAN,
              InitDnd(v, heard) \/ (heard /\ Recheck(v))
       PROVE  DndIInv'
  <2>1. SetDnd(Initiate(Run(World, FALSE), v, heard)) /\ World.around.events = <<>>
    BY <1>2, <1>11 DEF InitDnd, Recheck, Steady
  <2>2. RunsWell(Run(World, FALSE))
    BY <1>1, <2>1, RunGives
  <2> QED
    BY <2>1, <2>2, InitiateGives, SetDndGives
<1> QED
  BY <1>3, <1>4, <1>5, <1>6, <1>7, <1>8, <1>9, <1>10, <1>11 DEF DndNext

LEMMA DndStarts == DndInit => DndIInv
<1> SUFFICES ASSUME DndInit PROVE DndIInv
  OBVIOUS
<1>1. PICK v \in UserVolumes :
         around \in [clock : HoursOfDay, inUse : {FALSE}, light : {FALSE}, volume : {v},
                     wanted : {v}, forgotten : {FALSE}, events : {<<>>}]
  BY DEF DndInit
<1>2. /\ {0, v, NaN} \subseteq SomeVolume /\ 0 \in 0 .. DayHours /\ <<>> \in Seq(SomeVolume)
      /\ v # NaN
  BY DndAssumption DEF SomeVolume, NaN
<1>3. /\ around \in AroundRec /\ around.volume = v /\ around.wanted = v
      /\ around.events = <<>>
  BY <1>1, <1>2 DEF AroundRec
<1>4. fsm \in FsmRec /\ fsm.status = "ready" /\ ~fsm.setVolumeFlag
  BY <1>2 DEF DndInit, FsmRec
<1>5. kept \in DndKeptRec /\ ~kept.status /\ kept.savedVolume \in {0, NaN}
  BY <1>2 DEF DndInit, DndKeptRec
<1>6. World \in DndWorlds /\ World.kept = kept /\ World.fsm = fsm /\ World.around = around
  BY <1>3, <1>4, <1>5 DEF World, DndWorlds
<1>7. Remembered(World)
  BY <1>2, <1>3, <1>4, <1>5, <1>6 DEF Remembered
<1> QED
  BY <1>4, <1>5, <1>6, <1>7 DEF DndIInv, VolumeKept, NothingSaved, HoursKept

-----------------------------------------------------------------------------
(***************************************************************************)
(* The volume: mutes that words lift                                       *)
(***************************************************************************)
AudioRec == [level : 0 .. TopLevel, muted : BOOLEAN, by : {"nobody", "direct", "indirect"}]
VolumeTaskRec == [id : 1 .. MaxVolumeAsks, remute : BOOLEAN, exits : BOOLEAN]
LessRec == [held : BOOLEAN, timers : SUBSET (1 .. MaxVolumeAsks), known : 0 .. MaxVolumeAsks]

\* While words are spoken on a muted device it is to be muted again.
SpeaksMuted == \E t \in tasks : t.remute

\* The end of one task only mutes it again.
OneRemutes == \A t, u \in tasks : t.remute /\ u.remute => t = u

\* Then the user wants silence; else the device is as the user wants it.

Settled(a, want) == (a.muted <=> want = "silence") /\ (a.muted \/ a.level > 0)

Balanced ==
    /\ OneRemutes
    /\ IF SpeaksMuted THEN ~audio.muted /\ wanted = "silence" ELSE Settled(audio, wanted)

VolumeIInv ==
    /\ VolumeTypeOK
    /\ Balanced
    /\ less.timers \subseteq {less.known}
    /\ ~less.held => less.timers = {}

LEMMA VolumeIInvGives == VolumeIInv => VolumeInv
<1> SUFFICES ASSUME VolumeIInv PROVE VolumeInv
  OBVIOUS
<1>1. (\A t \in tasks : ~t.remute) => Settled(audio, wanted)
  BY DEF VolumeIInv, Balanced, SpeaksMuted
<1> QED
  BY <1>1 DEF VolumeIInv, VolumeInv, MutedAsWanted, HeardUnlessMuted, ReleasedIsHarmless, Settled

\* The level that is set says whether the device is muted by it.
LEMMA SetLevelGives ==
    ASSUME NEW a \in AudioRec, NEW target \in Int
    PROVE  /\ SetLevel(a, target) \in AudioRec
           /\ SetLevel(a, target).muted <=> SetLevel(a, target).level = 0
           /\ target > 0 => SetLevel(a, target).level > 0 \/ TopLevel = 0
           /\ target = 0 => SetLevel(a, target).muted
<1> DEFINE n == Normalized(target)
           heard == IF a.muted /\ n > 0 THEN [a EXCEPT !.muted = FALSE] ELSE a
           s == IF n = 0 THEN SetMute(heard, "indirect") ELSE heard
<1>1. n \in 0 .. TopLevel /\ (target > 0 => n > 0 \/ TopLevel = 0) /\ (target = 0 => n = 0)
  BY VolumeAssumption DEF Normalized
<1> HIDE DEF n
<1>2. heard \in AudioRec /\ (n > 0 => ~heard.muted)
  BY <1>1 DEF AudioRec
<1> HIDE DEF heard
<1>3. s \in AudioRec /\ (s.muted <=> n = 0)
  <2>1. CASE n = 0
    <3>1. s = [heard EXCEPT !.muted = TRUE, !.by = "indirect"]
      BY <2>1 DEF SetMute
    <3> QED
      BY <1>2, <2>1, <3>1 DEF AudioRec
  <2>2. CASE n # 0
    <3>1. s = heard /\ n > 0
      BY <1>1, <2>2
    <3> QED
      BY <1>2, <2>2, <3>1
  <2> QED
    BY <2>1, <2>2
<1>4. SetLevel(a, target) = [s EXCEPT !.level = n]
  BY DEF SetLevel, n, heard
<1> HIDE DEF s
<1> QED
  BY <1>1, <1>3, <1>4 DEF AudioRec

LEMMA SetUnmuteGives ==
    ASSUME NEW a \in AudioRec
    PROVE  SetUnmute(a) \in AudioRec /\ ~SetUnmute(a).muted /\ SetUnmute(a).level > 0
<1> DEFINE b == [a EXCEPT !.muted = FALSE]
           target == IF a.by = "direct" /\ a.level > 0 THEN a.level ELSE DefaultLevel
<1>1. b \in AudioRec
  BY DEF AudioRec
<1>2. b \in AudioRec /\ target \in Int /\ target > 0 /\ TopLevel \in Nat /\ TopLevel # 0
  <2>1. a.level \in 0 .. TopLevel /\ TopLevel \in Nat /\ DefaultLevel \in 1 .. TopLevel
    BY VolumeAssumption DEF AudioRec
  <2> QED
    BY <1>1, <2>1
<1>3. SetUnmute(a) = SetLevel(b, target)
  BY DEF SetUnmute
<1> HIDE DEF b, target
<1>4. SetLevel(b, target) \in AudioRec /\ SetLevel(b, target).level > 0
      /\ (SetLevel(b, target).muted <=> SetLevel(b, target).level = 0)
  BY <1>2, SetLevelGives
<1> QED
  BY <1>3, <1>4 DEF AudioRec

LEMMA AlteredGives ==
    ASSUME NEW a \in AudioRec, NEW delta \in {-1, 1}, NEW announced \in BOOLEAN
    PROVE  /\ Altered(a, delta, announced) \in AudioRec
           /\ \/ Altered(a, delta, announced) = a
              \/ Altered(a, delta, announced).muted <=> Altered(a, delta, announced).level = 0
<1>1. a.level + delta \in Int
  BY VolumeAssumption DEF AudioRec
<1> QED
  BY <1>1, SetLevelGives DEF Altered

\* What a request makes of the volume is what the user wants from then on.
LEMMA WantedStep ==
    ASSUME VolumeIInv, ~SpeaksMuted, NEW a \in AudioRec, a = audio \/ (a.muted \/ a.level > 0),
           audio' = a, wanted' = Wants(a), \A t \in tasks' : t \in tasks \/ ~t.remute
    PROVE  ~SpeaksMuted' /\ Settled(audio', wanted') /\ wanted' \in {"sound", "silence"}
<1>1. ~SpeaksMuted'
  BY DEF SpeaksMuted
<1>2. Settled(audio, wanted) /\ wanted \in {"sound", "silence"}
  BY DEF VolumeIInv, Balanced, VolumeTypeOK
<1>3. CASE a = audio
  BY <1>1, <1>2, <1>3 DEF Wants, Settled
<1>4. CASE a # audio
  BY <1>1, <1>4 DEF Wants, Settled
<1> QED
  BY <1>3, <1>4

LEMMA VolumeFacts ==
    ASSUME VolumeIInv
    PROVE  /\ audio \in AudioRec /\ tasks \in SUBSET VolumeTaskRec /\ less \in LessRec
           /\ contexts \in SUBSET (1 .. MaxVolumeAsks) /\ wanted \in {"sound", "silence"}
           /\ requests \in 0 .. MaxVolumeAsks /\ MaxVolumeAsks \in Nat
BY VolumeAssumption DEF VolumeIInv, VolumeTypeOK, AudioRec, VolumeTaskRec, LessRec

LEMMA VolumeRebuilt ==
    ASSUME audio' \in AudioRec, tasks' \in SUBSET VolumeTaskRec, less' \in LessRec,
           contexts' \in SUBSET (1 .. MaxVolumeAsks), wanted' \in {"sound", "silence"},
           requests' \in 0 .. MaxVolumeAsks,
           Balanced', less'.timers \subseteq {less'.known}, ~less'.held => less'.timers = {}
    PROVE  VolumeIInv'
BY DEF VolumeIInv, VolumeTypeOK, AudioRec, VolumeTaskRec, LessRec

LEMMA BalancedAfter ==
    ASSUME ~SpeaksMuted', Settled(audio', wanted')
    PROVE  Balanced'
BY DEF Balanced, OneRemutes, SpeaksMuted

LEMMA BalanceKept ==
    ASSUME VolumeIInv, tasks' \subseteq tasks, \A t \in tasks : t.remute => t \in tasks',
           UNCHANGED <<audio, wanted>>
    PROVE  Balanced'
<1>1. SpeaksMuted' <=> SpeaksMuted
  BY DEF SpeaksMuted
<1>2. OneRemutes'
  BY DEF VolumeIInv, Balanced, OneRemutes
<1> QED
  BY <1>1, <1>2 DEF VolumeIInv, Balanced, Settled

LEMMA LessKept ==
    ASSUME VolumeIInv, UNCHANGED less
    PROVE  /\ less' \in LessRec /\ less'.timers \subseteq {less'.known}
           /\ ~less'.held => less'.timers = {}
BY VolumeFacts DEF VolumeIInv

-----------------------------------------------------------------------------
(* The steps, in the order of time the runs look at *)

LEMMA VoiceSteps ==
    ASSUME VolumeOps \subseteq {"top", "fails"}, VolumeIInv,
           \/ \E level \in 0 .. TopLevel : SetVolumeIntent(level)
           \/ \E delta \in {-1, 1} : AlterVolume(delta)
           \/ ShowVolume \/ NotUnderstood \/ VolumeMax \/ VolumeMute \/ CancelMute
    PROVE  VolumeIInv'
<1>1. /\ requests < MaxVolumeAsks /\ requests' = requests + 1 /\ MayInterrupt
      /\ contexts' = contexts \cup {requests + 1} /\ UNCHANGED less
  BY DEF Request, SetVolumeIntent, AlterVolume, ShowVolume, NotUnderstood, VolumeMax, VolumeMute,
         CancelMute
<1>2. ~SpeaksMuted
  BY <1>1 DEF MayInterrupt, SpeaksMuted
<1>3. /\ requests + 1 \in 1 .. MaxVolumeAsks /\ requests' \in 0 .. MaxVolumeAsks
      /\ contexts' \in SUBSET (1 .. MaxVolumeAsks)
  BY <1>1, VolumeFacts
<1>4. Settled(audio, wanted)
  BY <1>2 DEF VolumeIInv, Balanced
<1>5. ASSUME NEW remute \in BOOLEAN, NEW exits \in BOOLEAN, Task(remute, exits)
      PROVE  /\ tasks' \in SUBSET VolumeTaskRec
             /\ (SpeaksMuted' <=> remute) /\ OneRemutes'
             /\ ~remute => \A t \in tasks' : t \in tasks \/ ~t.remute
  <2> DEFINE new == [id |-> requests + 1, remute |-> remute, exits |-> exits]
  <2>1. tasks' = tasks \cup {new} /\ new \in VolumeTaskRec /\ new.remute = remute
    BY <1>3, <1>5 DEF Task, VolumeTaskRec
  <2> HIDE DEF new
  <2> QED
    BY <1>2, <2>1, VolumeFacts DEF SpeaksMuted, OneRemutes
<1>6. ASSUME NEW a \in AudioRec, a = audio \/ (a.muted \/ a.level > 0), Becomes(a)
      PROVE  VolumeIInv'
  <2>1. Task(FALSE, TRUE) /\ audio' = a /\ wanted' = Wants(a)
    BY <1>6 DEF Becomes
  <2>2. tasks' \in SUBSET VolumeTaskRec /\ \A t \in tasks' : t \in tasks \/ ~t.remute
    BY <1>5, <2>1
  <2>3. Balanced' /\ wanted' \in {"sound", "silence"}
    BY <1>2, <1>6, <2>1, <2>2, WantedStep, BalancedAfter
  <2> QED
    BY <1>1, <1>3, <1>6, <2>1, <2>2, <2>3, LessKept, VolumeRebuilt
<1>7. ASSUME NEW a \in AudioRec, SpeakAndExit(a), Settled(a, wanted'),
             wanted' \in {"sound", "silence"}
      PROVE  VolumeIInv'
  <2>1. Task(a.muted, TRUE) /\ audio' = [a EXCEPT !.muted = FALSE] /\ a.muted \in BOOLEAN
    BY <1>7 DEF SpeakAndExit, AudioRec
  <2>2. tasks' \in SUBSET VolumeTaskRec /\ (SpeaksMuted' <=> a.muted) /\ OneRemutes'
    BY <1>5, <2>1
  <2>3. audio' \in AudioRec /\ ~audio'.muted /\ audio'.level = a.level
    BY <2>1 DEF AudioRec
  <2>4. Balanced'
    BY <1>7, <2>2, <2>3 DEF Settled, Balanced
  <2> QED
    BY <1>1, <1>3, <1>7, <2>2, <2>3, <2>4, LessKept, VolumeRebuilt
<1>8. ASSUME NEW level \in 0 .. TopLevel, SetVolumeIntent(level) PROVE VolumeIInv'
  <2>1. level \in Int
    OBVIOUS
  <2>2. SetLevel(audio, level) \in AudioRec /\ (SetLevel(audio, level).muted <=> SetLevel(audio, level).level = 0)
    BY <2>1, SetLevelGives, VolumeFacts
  <2>3. SetLevel(audio, level).muted \/ SetLevel(audio, level).level > 0
    BY <2>2, VolumeAssumption DEF AudioRec
  <2> QED
    BY <1>6, <1>8, <2>2, <2>3 DEF SetVolumeIntent
<1>9. ASSUME NEW delta \in {-1, 1}, AlterVolume(delta) PROVE VolumeIInv'
  <2> DEFINE a == Altered(audio, delta, TRUE)
  <2>1. a \in AudioRec /\ (a = audio \/ (a.muted <=> a.level = 0))
    BY AlteredGives, VolumeFacts
  <2>2. Becomes(a)
    BY <1>9 DEF AlterVolume
  <2> HIDE DEF a
  <2>3. a = audio \/ (a.muted \/ a.level > 0)
    BY <2>1, VolumeAssumption DEF AudioRec
  <2> QED
    BY <1>6, <2>1, <2>2, <2>3
<1>10. CASE ShowVolume
  <2>1. CASE audio.muted \/ audio.level <= 0
    <3>1. SpeakAndExit(SetUnmute(audio)) /\ wanted' = "sound"
      BY <1>10, <2>1 DEF ShowVolume
    <3>2. Settled(SetUnmute(audio), wanted') /\ SetUnmute(audio) \in AudioRec
      BY <3>1, SetUnmuteGives, VolumeFacts DEF Settled
    <3> QED
      BY <1>7, <3>1, <3>2
  <2>2. CASE ~(audio.muted \/ audio.level <= 0)
    BY <1>4, <1>7, <1>10, <2>2, VolumeFacts DEF ShowVolume
  <2> QED
    BY <2>1, <2>2
<1>11. CASE NotUnderstood
  BY <1>4, <1>7, <1>11, VolumeFacts DEF NotUnderstood
<1>12. CASE VolumeMax
  <2>1. CASE audio.level >= TopLevel
    <3>1. Task(FALSE, FALSE) /\ UNCHANGED <<audio, wanted>>
      BY <1>12, <2>1 DEF VolumeMax
    <3>2. tasks' \in SUBSET VolumeTaskRec /\ ~SpeaksMuted'
      BY <1>5, <3>1
    <3>3. Balanced'
      BY <1>4, <3>1, <3>2, BalancedAfter
    <3> QED
      BY <1>1, <1>3, <3>1, <3>2, <3>3, LessKept, VolumeFacts, VolumeRebuilt
  <2>2. CASE ~(audio.level >= TopLevel)
    <3> DEFINE a == SetLevel(audio, TopLevel)
    <3>1. a \in AudioRec /\ (a.muted <=> a.level = 0)
      BY SetLevelGives, VolumeFacts, VolumeAssumption
    <3>2. Becomes(a)
      BY <1>12, <2>2 DEF VolumeMax
    <3> HIDE DEF a
    <3>3. a.muted \/ a.level > 0
      BY <3>1, VolumeAssumption DEF AudioRec
    <3> QED
      BY <1>6, <3>1, <3>2, <3>3
  <2> QED
    BY <2>1, <2>2
<1>13. CASE VolumeMute
  <2> DEFINE a == SetMute(audio, "direct")
  <2>1. a \in AudioRec /\ a.muted
    BY VolumeFacts DEF SetMute, AudioRec
  <2> QED
    BY <1>6, <1>13, <2>1 DEF VolumeMute
<1>14. CASE CancelMute
  BY <1>6, <1>14, SetUnmuteGives, VolumeFacts DEF CancelMute
<1> QED
  BY <1>8, <1>9, <1>10, <1>11, <1>12, <1>13, <1>14

LEMMA TaskSteps ==
    ASSUME VolumeOps \subseteq {"top", "fails"}, VolumeIInv,
           (\E t \in tasks : TaskEnds(t) \/ TaskFails(t)) \/ ClearContexts
    PROVE  VolumeIInv'
<1>1. UNCHANGED <<less, wanted, requests>>
  BY DEF TaskEnds, TaskFails, ClearContexts
<1>2. ASSUME NEW t \in tasks, TaskEnds(t) PROVE VolumeIInv'
  <2>1. /\ tasks' = tasks \ {t} /\ tasks' \in SUBSET VolumeTaskRec
        /\ contexts' \in SUBSET (1 .. MaxVolumeAsks)
    BY <1>2, VolumeFacts DEF TaskEnds
  <2>2. CASE t.remute
    <3>1. SpeaksMuted /\ wanted = "silence"
      BY <2>2 DEF SpeaksMuted, VolumeIInv, Balanced
    <3>2. audio' = [audio EXCEPT !.muted = TRUE] /\ audio' \in AudioRec /\ audio'.muted
      BY <1>2, <2>2, VolumeFacts DEF TaskEnds, AudioRec
    <3>3. Settled(audio', wanted')
      BY <1>1, <3>1, <3>2 DEF Settled
    <3>4. ~SpeaksMuted'
      BY <2>1, <2>2 DEF SpeaksMuted, VolumeIInv, Balanced, OneRemutes
    <3>5. Balanced'
      BY <3>3, <3>4, BalancedAfter
    <3> QED
      BY <1>1, <2>1, <3>2, <3>5, LessKept, VolumeFacts, VolumeRebuilt
  <2>3. CASE ~t.remute
    <3>1. audio' = audio
      BY <1>2, <2>3 DEF TaskEnds
    <3>2. Balanced'
      BY <1>1, <2>1, <2>3, <3>1, BalanceKept
    <3> QED
      BY <1>1, <2>1, <3>1, <3>2, LessKept, VolumeFacts, VolumeRebuilt
  <2> QED
    BY <2>2, <2>3
<1>3. ASSUME NEW t \in tasks, TaskFails(t) PROVE VolumeIInv'
  <2>1. /\ ~t.remute /\ tasks' = tasks \ {t} /\ UNCHANGED <<audio, contexts>>
        /\ tasks' \in SUBSET VolumeTaskRec
    BY <1>3, VolumeFacts DEF TaskFails
  <2>3. Balanced'
    BY <1>1, <2>1, BalanceKept
  <2> QED
    BY <1>1, <2>1, <2>3, LessKept, VolumeFacts, VolumeRebuilt
<1>4. CASE ClearContexts
  <2>1. UNCHANGED <<audio, tasks>> /\ contexts' = {}
    BY <1>4 DEF ClearContexts
  <2>3. Balanced'
    BY <1>1, <2>1, BalanceKept
  <2> QED
    BY <1>1, <2>1, <2>3, LessKept, VolumeFacts, VolumeRebuilt
<1> QED
  BY <1>2, <1>3, <1>4

LEMMA UrlSteps ==
    ASSUME VolumeOps \subseteq {"top", "fails"}, VolumeIInv,
           \/ \E level \in 0 .. TopLevel : SetVolumeUrl(level)
           \/ VolumeUp \/ MuteUrl \/ UnmuteUrl \/ KeyDown \/ LongPress
    PROVE  VolumeIInv'
<1>1. ASSUME NEW a \in AudioRec, a = audio \/ (a.muted \/ a.level > 0), Url(a),
             less' \in LessRec, less'.timers \subseteq {less'.known}, ~less'.held => less'.timers = {}
      PROVE  VolumeIInv'
  <2>1. /\ requests' \in 0 .. MaxVolumeAsks /\ audio' = a /\ wanted' = Wants(a)
        /\ UNCHANGED <<tasks, contexts>> /\ MayInterrupt
    BY <1>1, VolumeFacts DEF Url
  <2>2. ~SpeaksMuted
    BY <2>1 DEF MayInterrupt, SpeaksMuted
  <2>3. Balanced' /\ wanted' \in {"sound", "silence"}
    BY <1>1, <2>1, <2>2, WantedStep, BalancedAfter
  <2> QED
    BY <1>1, <2>1, <2>3, VolumeFacts, VolumeRebuilt
<1>2. ASSUME NEW target \in Int
      PROVE  /\ SetLevel(audio, target) \in AudioRec
             /\ SetLevel(audio, target).muted \/ SetLevel(audio, target).level > 0
  <2>1. SetLevel(audio, target) \in AudioRec
        /\ (SetLevel(audio, target).muted <=> SetLevel(audio, target).level = 0)
    BY SetLevelGives, VolumeFacts
  <2> QED
    BY <2>1, VolumeAssumption DEF AudioRec
<1>3. ASSUME NEW delta \in {-1, 1}
      PROVE  /\ Altered(audio, delta, FALSE) \in AudioRec
             /\ Altered(audio, delta, FALSE).muted \/ Altered(audio, delta, FALSE).level > 0
  <2>1. Altered(audio, delta, FALSE) = SetLevel(audio, audio.level + delta)
    BY DEF Altered
  <2>2. audio.level + delta \in Int
    BY VolumeFacts, VolumeAssumption DEF AudioRec
  <2> QED
    BY <1>2, <2>1, <2>2
<1>4. ASSUME NEW level \in 0 .. TopLevel, SetVolumeUrl(level) PROVE VolumeIInv'
  BY <1>1, <1>2, <1>4, LessKept DEF SetVolumeUrl
<1>5. CASE VolumeUp
  BY <1>1, <1>3, <1>5, LessKept DEF VolumeUp
<1>6. CASE MuteUrl
  <2>1. SetMute(audio, "direct") \in AudioRec /\ SetMute(audio, "direct").muted
    BY VolumeFacts DEF SetMute, AudioRec
  <2> QED
    BY <1>1, <1>6, <2>1, LessKept DEF MuteUrl
<1>7. CASE UnmuteUrl
  BY <1>1, <1>7, SetUnmuteGives, VolumeFacts, LessKept DEF UnmuteUrl
<1>8. CASE KeyDown
  <2>1. less' = [less EXCEPT !.held = TRUE] /\ Url(Altered(audio, -1, FALSE))
    BY <1>8 DEF KeyDown
  <2>2. /\ less' \in LessRec /\ less'.timers = less.timers /\ less'.known = less.known /\ less'.held
    BY <2>1, VolumeFacts DEF LessRec
  <2>3. less.timers \subseteq {less.known} /\ -1 \in {-1, 1}
    BY DEF VolumeIInv
  <2> QED
    BY <1>1, <1>3, <2>1, <2>2, <2>3
<1>9. CASE LongPress
  <2>1. /\ less' = [less EXCEPT !.timers = @ \cup {requests + 1}, !.known = requests + 1]
        /\ Url(Altered(audio, -1, FALSE)) /\ less.held /\ less.timers = {}
    BY <1>9 DEF LongPress
  <2>2. requests + 1 \in 1 .. MaxVolumeAsks
    BY <2>1, VolumeFacts DEF Url
  <2>3. less \in LessRec /\ requests + 1 \in 0 .. MaxVolumeAsks
    BY <2>2, VolumeFacts
  <2>5. /\ less' \in LessRec /\ less'.timers = {requests + 1} /\ less'.known = requests + 1
        /\ less'.held
    BY <2>1, <2>2, <2>3 DEF LessRec
  <2>4. -1 \in {-1, 1}
    OBVIOUS
  <2> QED
    BY <1>1, <1>3, <2>1, <2>4, <2>5
<1> QED
  BY <1>4, <1>5, <1>6, <1>7, <1>8, <1>9

LEMMA OtherVolumeSteps ==
    ASSUME VolumeOps \subseteq {"top", "fails"}, VolumeIInv,
           KeyUp \/ (\E timer \in less.timers : FastMute(timer)) \/ UnmuteIfNecessary
    PROVE  VolumeIInv'
<1>1. less.timers \subseteq {less.known} /\ (~less.held => less.timers = {})
  BY DEF VolumeIInv
<1>2. CASE KeyUp
  <2>1. /\ less' = [less EXCEPT !.held = FALSE, !.timers = @ \ {less.known}]
        /\ UNCHANGED <<audio, tasks, contexts, wanted, requests>>
    BY <1>2 DEF KeyUp
  <2>2. less' \in LessRec /\ less'.timers = {}
    BY <1>1, <2>1, VolumeFacts DEF LessRec
  <2>4. Balanced'
    BY <2>1, BalanceKept
  <2> QED
    BY <2>1, <2>2, <2>4, VolumeFacts, VolumeRebuilt
<1>3. ASSUME NEW timer \in less.timers, FastMute(timer) PROVE VolumeIInv'
  <2>1. /\ less' = [less EXCEPT !.timers = @ \ {timer}] /\ MayInterrupt
        /\ audio' = SetLevel(audio, 0) /\ wanted' = "silence"
        /\ UNCHANGED <<tasks, contexts, requests>>
    BY <1>3 DEF FastMute
  <2>2. less' \in LessRec /\ less'.timers \subseteq less.timers /\ less'.known = less.known
        /\ less'.held = less.held
    BY <2>1, VolumeFacts DEF LessRec
  <2>3. ~SpeaksMuted'
    BY <2>1 DEF MayInterrupt, SpeaksMuted
  <2>4. audio' \in AudioRec /\ audio'.muted
    BY <2>1, SetLevelGives, VolumeFacts
  <2>5. Settled(audio', wanted')
    BY <2>1, <2>4 DEF Settled
  <2>6. Balanced'
    BY <2>3, <2>5, BalancedAfter
  <2> QED
    BY <1>1, <2>1, <2>2, <2>4, <2>6, VolumeFacts, VolumeRebuilt
<1>4. CASE UnmuteIfNecessary
  <2>1. /\ MayInterrupt /\ audio' = [audio EXCEPT !.muted = FALSE, !.level = DefaultLevel]
        /\ wanted' = "sound" /\ UNCHANGED <<tasks, contexts, less, requests>>
    BY <1>4 DEF UnmuteIfNecessary
  <2>2. ~SpeaksMuted'
    BY <2>1 DEF MayInterrupt, SpeaksMuted
  <2>3. DefaultLevel \in 0 .. TopLevel /\ DefaultLevel > 0
    BY VolumeAssumption
  <2>4. audio' \in AudioRec /\ ~audio'.muted /\ audio'.level > 0
    BY <2>1, <2>3, VolumeFacts DEF AudioRec
  <2>5. Settled(audio', wanted')
    BY <2>1, <2>4 DEF Settled
  <2>6. Balanced'
    BY <2>2, <2>5, BalancedAfter
  <2> QED
    BY <2>1, <2>4, <2>6, LessKept, VolumeFacts, VolumeRebuilt
<1> QED
  BY <1>2, <1>3, <1>4

LEMMA VolumeInductive ==
    ASSUME VolumeOps \subseteq {"top", "fails"}
    PROVE  VolumeIInv /\ [VolumeNext]_volumeVars => VolumeIInv'
<1> SUFFICES ASSUME VolumeIInv, [VolumeNext]_volumeVars PROVE VolumeIInv'
  OBVIOUS
<1>1. CASE UNCHANGED volumeVars
  <2>2. Balanced'
    BY <1>1, BalanceKept DEF volumeVars
  <2> QED
    BY <1>1, <2>2, LessKept, VolumeFacts, VolumeRebuilt DEF volumeVars
<1>2. CASE VolumeNext
  BY <1>2, VoiceSteps, TaskSteps, UrlSteps, OtherVolumeSteps DEF VolumeNext
<1> QED
  BY <1>1, <1>2

LEMMA VolumeStarts == VolumeInit => VolumeIInv
<1> SUFFICES ASSUME VolumeInit PROVE VolumeIInv
  OBVIOUS
<1>1. PICK level \in 0 .. TopLevel :
         audio = [level |-> IF level = 0 THEN DefaultLevel ELSE level, muted |-> FALSE,
                  by |-> "nobody"]
  BY DEF VolumeInit
<1>2. audio \in AudioRec /\ ~audio.muted /\ audio.level > 0
  BY <1>1, VolumeAssumption DEF AudioRec
<1>3. ~SpeaksMuted
  BY DEF VolumeInit, SpeaksMuted
<1>4. Balanced
  BY <1>2, <1>3 DEF VolumeInit, Balanced, OneRemutes, SpeaksMuted, Settled
<1> QED
  BY <1>2, <1>4, VolumeAssumption DEF VolumeInit, VolumeIInv, VolumeTypeOK, AudioRec

\* Do-not-disturb over the hours, its restarts and what the user sets, and the
\* volume app with its words, keys and timers: each leaves the volume and the
\* mute as the user wants them, or has forgotten the volume in one of the two
\* ways DndMode marks.  Changes of the volume are reported before anything else,
\* and requests wait for the words said on a muted device, which are spoken
\* (VolumeOps): the rest is not so.
THEOREM VolumeAsWanted ==
    ASSUME "late" \notin DndEvents, VolumeOps \subseteq {"top", "fails"}
    PROVE  DndSpec /\ VolumeSpec => []VolumesInv
<1>1. DndSpec => []DndIInv
  BY DndStarts, DndInductive, PTL DEF DndSpec
<1>2. VolumeSpec => []VolumeIInv
  BY VolumeStarts, VolumeInductive, PTL DEF VolumeSpec
<1>3. DndIInv /\ VolumeIInv => VolumesInv
  BY DndIInvGives, VolumeIInvGives DEF VolumesInv
<1> QED
  BY <1>1, <1>2, <1>3, PTL

-----------------------------------------------------------------------------
(***************************************************************************)
(* multimediad: players, what is queued in them and what the bus carries   *)
(***************************************************************************)
(* The invariant: what holds of a player, of its state s, whether its app   *)
(* still has it, what the engine has queued and what the bus carries of it. *)

MediaEvents == {"prepared", "playbackcomplete", "error"}
BusItems == Ends \cup {"reply"}

\* What does not exist yet has no trace.
Unborn(s, queue, carried) == s.owner = Nobody => s = NoPlayer /\ queue = <<>> /\ carried = <<>>

\* The app has what is not stopped, and what it has has not come to its end.
HadByApp(s, has) ==
    /\ s.owner # Nobody /\ s.engine # "stopped" => has
    /\ has => s.owner # Nobody /\ ~s.ignoreCancel

\* The reply comes first, and what the app has no more ends behind it or has.
ToldToApp(s, has, carried) ==
    /\ s.owner # Nobody /\ s.listened = "not yet" => carried # <<>> /\ carried[1] = "reply"
    /\ \A n \in DOMAIN carried : carried[n] = "reply" => n = 1 /\ s.listened = "not yet"
    /\ s.owner # Nobody /\ ~has =>
           s.listened = "no more" \/ \E n \in DOMAIN carried : carried[n] \in Ends

Has(p) == player[p].owner # Nobody /\ p \in handle[player[p].owner]

PlayersKept ==
    \A p \in Players : /\ Unborn(player[p], pending[p], bus[p])
                       /\ HadByApp(player[p], Has(p))
                       /\ ToldToApp(player[p], Has(p), bus[p])

ListsKept == \A a \in MediaApps : \A p \in handle[a] : player[p].owner = a

MediaIInv == MediaTypeOK /\ PlayersKept /\ ListsKept

LEMMA MediaIInvGives == MediaIInv => MediaInv
<1> SUFFICES ASSUME MediaIInv PROVE MediaInv
  OBVIOUS
<1>1. ASSUME NEW p \in Players, player[p].engine = "playing"
      PROVE  p \in handle[player[p].owner]
  <2>1. player[p].owner # Nobody
    <3> SUFFICES ASSUME player[p].owner = Nobody PROVE FALSE
      OBVIOUS
    <3>1. player[p] = NoPlayer
      BY DEF MediaIInv, PlayersKept, Unborn
    <3>2. NoPlayer.engine = "idle"
      BY DEF NoPlayer
    <3> HIDE DEF NoPlayer
    <3> QED
      BY <1>1, <3>1, <3>2
  <2> QED
    BY <1>1, <2>1 DEF MediaIInv, PlayersKept, HadByApp, Has
<1>2. NoOrphanPlayer
  BY <1>1 DEF NoOrphanPlayer
<1>3. LeftIsTold
  BY DEF MediaIInv, PlayersKept, ToldToApp, Has, LeftIsTold
<1> QED
  BY <1>2, <1>3 DEF MediaIInv, MediaInv

LEMMA MediaFacts ==
    ASSUME MediaIInv, NEW p \in Players
    PROVE  /\ player[p] \in PlayerState /\ pending[p] \in Seq(MediaEvents)
           /\ bus[p] \in Seq(BusItems)
           /\ Unborn(player[p], pending[p], bus[p]) /\ HadByApp(player[p], Has(p))
           /\ ToldToApp(player[p], Has(p), bus[p])
           /\ player[p].owner # Nobody => player[p].owner \in MediaApps
BY DEF MediaIInv, MediaTypeOK, PlayersKept, MediaEvents, BusItems, PlayerState

-----------------------------------------------------------------------------
(* What a step may do with one player: s, has, queue and carried become t,  *)
(* had, rest and sent.                                                      *)

Kept(s, has, queue, carried) ==
    /\ s \in PlayerState /\ queue \in Seq(MediaEvents) /\ carried \in Seq(BusItems)
    /\ Unborn(s, queue, carried) /\ HadByApp(s, has) /\ ToldToApp(s, has, carried)

\* Its engine goes on, pauses or ends by itself; the app still has it.
LEMMA EngineMoves ==
    ASSUME NEW s, NEW has \in BOOLEAN, NEW queue, NEW carried, Kept(s, has, queue, carried),
           NEW t \in PlayerState, NEW rest \in Seq(MediaEvents),
           s.owner # Nobody, t.owner = s.owner, t.ignoreCancel = s.ignoreCancel,
           t.listened = s.listened, t.engine # "stopped" => s.engine # "stopped"
    PROVE  Kept(t, has, rest, carried)
BY DEF Kept, Unborn, HadByApp, ToldToApp

\* An end goes behind what the bus carries.
LEMMA HeardOfEnd ==
    ASSUME NEW s, NEW has, NEW carried \in Seq(BusItems), ToldToApp(s, has, carried),
           NEW t, NEW had, NEW end \in Ends,
           s.owner # Nobody, t.owner = s.owner, t.listened = s.listened
    PROVE  Append(carried, end) \in Seq(BusItems) /\ ToldToApp(t, had, Append(carried, end))
<1> DEFINE sent == Append(carried, end)
<1>1. end \in BusItems /\ end # "reply"
  BY DEF BusItems, Ends
<1>2. /\ sent \in Seq(BusItems) /\ Len(sent) = Len(carried) + 1 /\ sent[Len(sent)] = end
      /\ \A n \in 1 .. Len(carried) : sent[n] = carried[n]
  BY <1>1
<1>3. DOMAIN sent = 1 .. Len(carried) + 1 /\ DOMAIN carried = 1 .. Len(carried)
      /\ Len(carried) \in Nat
  BY <1>1, <1>2
<1> HIDE DEF sent
<1>4. \E n \in DOMAIN sent : sent[n] \in Ends
  BY <1>2, <1>3
<1>5. ASSUME NEW n \in DOMAIN sent, sent[n] = "reply" PROVE n = 1 /\ t.listened = "not yet"
  <2>1. n # Len(carried) + 1
    BY <1>1, <1>2, <1>5
  <2>2. n \in 1 .. Len(carried)
    BY <1>3, <1>5, <2>1
  <2>3. n \in DOMAIN carried /\ carried[n] = "reply"
    BY <1>2, <1>3, <1>5, <2>2
  <2> QED
    BY <2>3 DEF ToldToApp
<1>6. ASSUME t.listened = "not yet" PROVE sent # <<>> /\ sent[1] = "reply"
  <2>1. carried # <<>> /\ carried[1] = "reply"
    BY <1>6 DEF ToldToApp
  <2>2. Len(carried) \in Nat \ {0}
    BY <2>1, EmptySeq
  <2>3. 1 \in 1 .. Len(carried) /\ Len(sent) # 0
    BY <1>2, <2>2
  <2> QED
    BY <1>2, <2>1, <2>3
<1> QED
  BY <1>2, <1>4, <1>5, <1>6 DEF ToldToApp, sent

\* It is told of its end.
LEMMA EndIsSent ==
    ASSUME NEW s, NEW has, NEW queue, NEW carried, Kept(s, has, queue, carried),
           NEW t \in PlayerState, NEW rest \in Seq(MediaEvents), NEW had,
           NEW end \in Ends, s.owner # Nobody, t.owner = s.owner, t.listened = s.listened,
           t.engine = "stopped", had => ~t.ignoreCancel
    PROVE  Kept(t, had, rest, Append(carried, end))
<1>1. carried \in Seq(BusItems) /\ ToldToApp(s, has, carried)
  BY DEF Kept
<1>2. Append(carried, end) \in Seq(BusItems) /\ ToldToApp(t, had, Append(carried, end))
  BY <1>1, HeardOfEnd
<1>3. HadByApp(t, had)
  BY DEF HadByApp
<1>4. Unborn(t, rest, Append(carried, end))
  BY DEF Unborn
<1> QED
  BY <1>2, <1>3, <1>4 DEF Kept

AfterHearing(listened, item) ==
    IF item = "reply" THEN "yes" ELSE IF listened = "yes" THEN "no more" ELSE listened

\* The runtime hears the reply, and the end after it.
LEMMA OneIsHeard ==
    ASSUME NEW s, NEW has, NEW queue, NEW carried, Kept(s, has, queue, carried), carried # <<>>,
           NEW t \in PlayerState, t.owner = s.owner, t.engine = s.engine,
           t.ignoreCancel = s.ignoreCancel, s.owner # Nobody,
           t.listened = AfterHearing(s.listened, Head(carried))
    PROVE  Kept(t, has, queue, Tail(carried))
<1>1. /\ carried \in Seq(BusItems) /\ s \in PlayerState /\ queue \in Seq(MediaEvents)
      /\ ToldToApp(s, has, carried) /\ HadByApp(s, has)
  BY DEF Kept
<1> DEFINE rest == Tail(carried)
           len == Len(carried)
<1>2. /\ len \in Nat \ {0} /\ DOMAIN carried = 1 .. len /\ 1 \in DOMAIN carried
      /\ Head(carried) = carried[1]
  <2>1. len \in Nat \ {0} /\ DOMAIN carried = 1 .. len
    BY <1>1, EmptySeq, LenProperties
  <2>2. Head(carried) = carried[1]
    BY <1>1
  <2> HIDE DEF len
  <2> QED
    BY <2>1, <2>2
<1>3. /\ rest \in Seq(BusItems) /\ DOMAIN rest = 1 .. len - 1
      /\ \A n \in 1 .. len - 1 : rest[n] = carried[n + 1]
  <2>1. rest \in Seq(BusItems) /\ Len(rest) = len - 1
        /\ \A n \in 1 .. Len(rest) : rest[n] = carried[n + 1]
    BY <1>1, HeadTailProperties
  <2> HIDE DEF rest, len
  <2>2. DOMAIN rest = 1 .. Len(rest)
    BY <2>1, LenProperties
  <2> QED
    BY <2>1, <2>2
<1> HIDE DEF rest, len
<1>4. ASSUME NEW n \in DOMAIN rest PROVE rest[n] # "reply"
  <2>1. n + 1 \in DOMAIN carried /\ n + 1 # 1 /\ rest[n] = carried[n + 1]
    BY <1>2, <1>3, <1>4
  <2> QED
    BY <1>1, <2>1 DEF ToldToApp
<1>5. (Head(carried) = "reply" => s.listened = "not yet")
      /\ (s.listened = "not yet" => Head(carried) = "reply")
  BY <1>1, <1>2 DEF ToldToApp
<1>6. t.listened # "not yet"
  BY <1>5 DEF AfterHearing
<1>7. ASSUME NEW n \in DOMAIN carried, n # 1
       PROVE  n - 1 \in DOMAIN rest /\ rest[n - 1] = carried[n]
  <2>1. n \in Nat /\ 1 <= n /\ n <= len
    BY <1>2
  <2>2. n - 1 \in 1 .. len - 1 /\ (n - 1) + 1 = n
    BY <1>2, <1>7, <2>1
  <2> QED
    BY <1>3, <2>2
<1>8. ASSUME ~has PROVE t.listened = "no more" \/ \E n \in DOMAIN rest : rest[n] \in Ends
  <2>1. s.listened = "no more" \/ \E n \in DOMAIN carried : carried[n] \in Ends
    BY <1>1, <1>8 DEF ToldToApp
  <2>2. CASE s.listened = "no more"
    BY <1>5, <2>2 DEF AfterHearing
  <2>3. ASSUME NEW n \in DOMAIN carried, carried[n] \in Ends, s.listened # "no more"
        PROVE  t.listened = "no more" \/ \E m \in DOMAIN rest : rest[m] \in Ends
    <3>1. CASE n = 1
      <4>1. Head(carried) # "reply"
        BY <1>2, <2>3, <3>1 DEF Ends
      <4>2. s.listened = "yes"
        BY <1>1, <1>5, <2>3, <4>1 DEF PlayerState
      <4> QED
        BY <4>1, <4>2 DEF AfterHearing
    <3>2. CASE n # 1
      BY <1>7, <2>3, <3>2
    <3> QED
      BY <3>1, <3>2
  <2> QED
    BY <2>1, <2>2, <2>3
<1>9. ToldToApp(t, has, rest)
  BY <1>4, <1>8, <1>6 DEF ToldToApp
<1>10. HadByApp(t, has) /\ Unborn(t, queue, rest)
  BY <1>1 DEF HadByApp, Unborn
<1> QED
  BY <1>1, <1>3, <1>9, <1>10 DEF Kept, rest

-----------------------------------------------------------------------------
(* The steps *)

\* It is enough to look at one player at a time.
LEMMA MediaRebuilt ==
    ASSUME handle' \in [MediaApps -> SUBSET Players], ListsKept', DOMAIN player' = Players,
           DOMAIN pending' = Players, DOMAIN bus' = Players,
           player' = [p \in Players |-> player'[p]], pending' = [p \in Players |-> pending'[p]],
           bus' = [p \in Players |-> bus'[p]],
           media' \in [playing : BOOLEAN, pausedOnAwaken : MediaApps \cup {Nobody}],
           \A p \in Players : Kept(player'[p], Has(p)', pending'[p], bus'[p])
    PROVE  MediaIInv'
<1>1. \A p \in Players : /\ player'[p] \in PlayerState /\ pending'[p] \in Seq(MediaEvents)
                         /\ bus'[p] \in Seq(BusItems)
  BY DEF Kept
<1>2. /\ player' \in [Players -> PlayerState] /\ pending' \in [Players -> Seq(MediaEvents)]
      /\ bus' \in [Players -> Seq(BusItems)]
  BY <1>1
<1>3. MediaTypeOK'
  BY <1>2 DEF MediaTypeOK, MediaEvents, BusItems
<1>4. PlayersKept'
  BY DEF PlayersKept, Kept
<1> QED
  BY <1>3, <1>4 DEF MediaIInv

LEMMA MediaKeptNow == ASSUME MediaIInv, NEW p \in Players
                      PROVE  Kept(player[p], Has(p), pending[p], bus[p]) /\ Has(p) \in BOOLEAN
BY MediaFacts DEF Kept, Has

\* No player is created and none stopped: pauses, resumptions and the engine.
LEMMA QuietStep ==
    ASSUME MediaIInv, UNCHANGED <<handle, bus>>,
           player' \in [Players -> PlayerState], pending' \in [Players -> Seq(MediaEvents)],
           media' \in [playing : BOOLEAN, pausedOnAwaken : MediaApps \cup {Nobody}],
           \A p \in Players :
              \/ player'[p] = player[p] /\ pending'[p] = pending[p]
              \/ /\ player[p].owner # Nobody /\ player'[p].owner = player[p].owner
                 /\ player'[p].ignoreCancel = player[p].ignoreCancel
                 /\ player'[p].listened = player[p].listened
                 /\ player'[p].engine # "stopped" => player[p].engine # "stopped"
    PROVE  MediaIInv'
<1>1. ASSUME NEW p \in Players PROVE Kept(player'[p], Has(p)', pending'[p], bus'[p])
  <2>1. Kept(player[p], Has(p), pending[p], bus[p]) /\ Has(p) \in BOOLEAN
    BY MediaKeptNow
  <2>2. player'[p].owner = player[p].owner
    OBVIOUS
  <2>3. Has(p)' = Has(p) /\ bus'[p] = bus[p]
    BY <2>2 DEF Has
  <2>4. CASE player'[p] = player[p] /\ pending'[p] = pending[p]
    BY <2>1, <2>3, <2>4
  <2>5. ASSUME ~(player'[p] = player[p] /\ pending'[p] = pending[p])
        PROVE  Kept(player'[p], Has(p)', pending'[p], bus'[p])
    <3>1. player'[p] \in PlayerState /\ pending'[p] \in Seq(MediaEvents)
      OBVIOUS
    <3>2. /\ player[p].owner # Nobody /\ player'[p].owner = player[p].owner
          /\ player'[p].ignoreCancel = player[p].ignoreCancel
          /\ player'[p].listened = player[p].listened
          /\ player'[p].engine # "stopped" => player[p].engine # "stopped"
      BY <2>5
    <3>3. Kept(player'[p], Has(p), pending'[p], bus[p])
      BY <2>1, <3>1, <3>2, EngineMoves
    <3> QED
      BY <2>3, <3>3
  <2> QED
    BY <2>4, <2>5
<1>2. \A p \in Players : player'[p].owner = player[p].owner
  OBVIOUS
<1>3. handle' \in [MediaApps -> SUBSET Players] /\ DOMAIN bus = Players
      /\ bus = [p \in Players |-> bus[p]]
  BY DEF MediaIInv, MediaTypeOK
<1>4. ListsKept'
  BY <1>2, <1>3 DEF MediaIInv, ListsKept
<1> QED
  BY <1>1, <1>3, <1>4, MediaRebuilt

\* Players that apps have are stopped: they are told, and each list keeps what
\* it keeps.
LEMMA StopAllGives ==
    ASSUME MediaIInv, NEW s \in SUBSET Players, \A p \in s : Has(p)
    PROVE  /\ Cancels(s) = s
           /\ StopAll(s) \in [Players -> PlayerState]
           /\ DOMAIN Signals(s) = Players
           /\ \A q \in Players \ s : StopAll(s)[q] = player[q] /\ Signals(s)[q] = bus[q]
           /\ \A q \in Players : StopAll(s)[q].owner = player[q].owner
           /\ \A q \in s, had \in BOOLEAN :
                 Kept(StopAll(s)[q], had, pending[q], Signals(s)[q])
<1>1. Cancels(s) = s
  BY MediaFacts DEF Cancels, HadByApp
<1>2. ASSUME NEW q \in Players
      PROVE  /\ StopAll(s)[q] \in PlayerState /\ StopAll(s)[q].owner = player[q].owner
             /\ q \in s => /\ StopAll(s)[q].engine = "stopped"
                           /\ StopAll(s)[q].listened = player[q].listened
                           /\ StopAll(s)[q].ignoreCancel = player[q].ignoreCancel
  <2>1. player[q] \in PlayerState
    BY MediaFacts
  <2>2. CASE q \notin s
    BY <2>1, <2>2 DEF StopAll
  <2>3. CASE q \in s
    <3> DEFINE ends == IF q \in Cancels(s) THEN OneMore(player[q].ends) ELSE player[q].ends
    <3>1. ends \in 0 .. 2
      <4>0. 1 \in 0 .. 2 /\ 2 \in 0 .. 2
        OBVIOUS
      <4>1. player[q].ends \in 0 .. 2 /\ 1 \in 0 .. 2 /\ 2 \in 0 .. 2
        BY <2>1, <4>0 DEF PlayerState
      <4> QED
        BY <4>1 DEF OneMore
    <3>2. StopAll(s)[q] = [player[q] EXCEPT !.engine = "stopped", !.starts = FALSE,
                                            !.resumes = FALSE, !.ends = ends]
      BY <2>1, <2>3 DEF StopAll, PlayerState
    <3> HIDE DEF ends
    <3> QED
      BY <2>1, <2>3, <3>1, <3>2 DEF PlayerState
  <2> QED
    BY <2>2, <2>3
<1>3. StopAll(s) \in [Players -> PlayerState]
  <2>1. StopAll(s) = [p \in Players |-> StopAll(s)[p]]
    BY DEF StopAll
  <2> QED
    BY <1>2, <2>1
<1>4. ASSUME NEW q \in s, NEW had \in BOOLEAN
      PROVE  Kept(StopAll(s)[q], had, pending[q], Signals(s)[q])
  <2>1. Signals(s)[q] = Append(bus[q], "cancel")
    BY <1>1 DEF Signals
  <2>2. Kept(player[q], Has(q), pending[q], bus[q]) /\ Has(q) /\ pending[q] \in Seq(MediaEvents)
    BY MediaKeptNow, MediaFacts
  <2>3. player[q].owner # Nobody /\ ~player[q].ignoreCancel
    BY <2>2 DEF Kept, HadByApp
  <2>4. Has(q) \in BOOLEAN /\ "cancel" \in Ends
    BY MediaKeptNow DEF Ends
  <2> DEFINE t == StopAll(s)[q]
  <2>5. /\ t \in PlayerState /\ t.owner = player[q].owner /\ t.listened = player[q].listened
        /\ t.engine = "stopped" /\ ~t.ignoreCancel
    BY <1>2, <2>3
  <2> HIDE DEF t
  <2>6. Kept(t, had, pending[q], Append(bus[q], "cancel"))
    BY <2>2, <2>3, <2>4, <2>5, EndIsSent
  <2> QED
    BY <2>1, <2>6 DEF t
<1>5. DOMAIN Signals(s) = Players
      /\ \A q \in Players \ s : StopAll(s)[q] = player[q] /\ Signals(s)[q] = bus[q]
  BY <1>1 DEF Signals, StopAll
<1> QED
  BY <1>1, <1>2, <1>3, <1>4, <1>5

MediaRec == [playing : BOOLEAN, pausedOnAwaken : MediaApps \cup {Nobody}]

LEMMA MediaRecSet ==
    ASSUME media \in MediaRec, NEW b \in BOOLEAN
    PROVE  [media EXCEPT !.playing = b] \in MediaRec
BY DEF MediaRec

LEMMA PlayersAppsHave ==
    ASSUME MediaIInv, NEW a \in MediaApps
    PROVE  /\ handle[a] \in SUBSET Players
           /\ \A p \in handle[a] : player[p].owner = a /\ Has(p)
<1>1. handle[a] \in SUBSET Players /\ a # Nobody
  BY MediaAssumption DEF MediaIInv, MediaTypeOK
<1>2. \A p \in handle[a] : player[p].owner = a
  BY DEF MediaIInv, ListsKept
<1> QED
  BY <1>1, <1>2 DEF Has

LEMMA StopStep ==
    ASSUME MediaIInv, NEW s \in SUBSET Players, \A p \in s : Has(p),
           player' = StopAll(s), bus' = Signals(s), pending' = pending, media' \in MediaRec,
           handle' \in [MediaApps -> SUBSET Players],
           \A b \in MediaApps : handle'[b] \subseteq handle[b] /\ handle[b] \ s \subseteq handle'[b]
    PROVE  MediaIInv'
<1>1. ASSUME NEW q \in Players PROVE Kept(player'[q], Has(q)', pending'[q], bus'[q])
  <2>1. player'[q].owner = player[q].owner /\ Has(q)' \in BOOLEAN
    BY StopAllGives DEF Has
  <2>2. CASE q \in s
    BY <2>1, <2>2, StopAllGives
  <2>3. CASE q \notin s
    <3>1. player'[q] = player[q] /\ bus'[q] = bus[q]
      BY <2>3, StopAllGives
    <3>2. Has(q)' <=> Has(q)
      BY <2>1, <2>3, MediaFacts DEF Has
    <3>3. Has(q)' = Has(q)
      BY <3>2 DEF Has
    <3> QED
      BY <3>1, <3>3, MediaKeptNow
  <2> QED
    BY <2>2, <2>3
<1>2. \A q \in Players : player'[q].owner = player[q].owner
  BY StopAllGives
<1>3. ListsKept'
  BY <1>2 DEF MediaIInv, ListsKept
<1>4. /\ player' \in [Players -> PlayerState] /\ DOMAIN bus' = Players
      /\ bus' = [p \in Players |-> bus'[p]]
  BY StopAllGives DEF Signals
<1>5. pending' \in [Players -> Seq(MediaEvents)]
  BY DEF MediaIInv, MediaTypeOK, MediaEvents
<1> QED
  BY <1>1, <1>3, <1>4, <1>5, MediaRebuilt DEF MediaRec

LEMMA StopSteps ==
    ASSUME MediaIInv,
           \/ \E a \in MediaApps : Stop(a) \/ \E p \in Players : StopOne(a, p)
           \/ ResetPlayers
    PROVE  MediaIInv'
<1>1. media \in MediaRec /\ handle \in [MediaApps -> SUBSET Players]
  BY DEF MediaIInv, MediaTypeOK, MediaRec
<1>2. ASSUME NEW a \in MediaApps, NEW s \in SUBSET handle[a], StopPlayers(a, s)
      PROVE  MediaIInv'
  <2>1. /\ player' = StopAll(s) /\ handle' = [handle EXCEPT ![a] = @ \ s]
        /\ bus' = Signals(s) /\ media' = [media EXCEPT !.playing = StillPlaying(s)]
        /\ pending' = pending
    BY <1>2 DEF StopPlayers
  <2>2. StillPlaying(s) \in BOOLEAN
    BY DEF StillPlaying
  <2>3. media' \in MediaRec
    BY <1>1, <2>1, <2>2, MediaRecSet
  <2>4. s \in SUBSET Players /\ \A p \in s : Has(p)
    BY PlayersAppsHave
  <2>5. /\ handle' \in [MediaApps -> SUBSET Players]
        /\ \A b \in MediaApps : handle'[b] \subseteq handle[b] /\ handle[b] \ s \subseteq handle'[b]
    BY <1>1, <2>1
  <2> QED
    BY <2>1, <2>3, <2>4, <2>5, StopStep
<1>3. ASSUME NEW a \in MediaApps, Stop(a) PROVE MediaIInv'
  <2>1. Reached(handle[a]) \in SUBSET handle[a]
    BY DEF Reached
  <2> QED
    BY <1>2, <1>3, <2>1 DEF Stop
<1>4. ASSUME NEW a \in MediaApps, NEW p \in Players, StopOne(a, p) PROVE MediaIInv'
  BY <1>2, <1>4 DEF StopOne
<1>5. CASE ResetPlayers
  <2> DEFINE s == UNION {handle[a] : a \in MediaApps}
  <2>1. /\ player' = StopAll(s) /\ bus' = Signals(s)
        /\ media' = [media EXCEPT !.playing = FALSE] /\ UNCHANGED <<handle, pending>>
    BY <1>5 DEF ResetPlayers
  <2>2. s \in SUBSET Players /\ \A p \in s : Has(p)
    BY PlayersAppsHave
  <2> HIDE DEF s
  <2>3. media' \in MediaRec
    BY <1>1, <2>1, MediaRecSet
  <2> QED
    BY <1>1, <2>1, <2>2, <2>3, StopStep
<1> QED
  BY <1>3, <1>4, <1>5

LEMMA PrepareStep ==
    ASSUME MediaIInv, NEW a \in MediaApps, NEW multiple \in BOOLEAN, NEW start \in BOOLEAN,
           Prepare(a, multiple, start)
    PROVE  MediaIInv'
<1> DEFINE old == IF multiple THEN {} ELSE handle[a]
           new == [NoPlayer EXCEPT !.owner = a, !.status = "preparing", !.starts = start]
<1>1. PICK p \in NextPlayer :
         /\ player' = [StopAll(old) EXCEPT ![p] = new]
         /\ handle' = [handle EXCEPT ![a] = IF multiple THEN @ \cup {p} ELSE {p}]
         /\ bus' = [Signals(old) EXCEPT ![p] = Append(@, "reply")]
         /\ media' = [media EXCEPT !.playing = StillPlaying(old)]
         /\ pending' = pending
  BY DEF Prepare
<1>2. p \in Players /\ player[p].owner = Nobody
  BY DEF NextPlayer
<1>3. /\ new \in PlayerState /\ new.owner = a /\ new.listened = "not yet" /\ ~new.ignoreCancel
      /\ a # Nobody
  <2>1. 0 \in 0 .. 2
    OBVIOUS
  <2> QED
    BY <2>1, MediaAssumption DEF NoPlayer, PlayerState
<1> HIDE DEF new
<1>4. pending[p] = <<>> /\ bus[p] = <<>>
  BY <1>2, MediaFacts DEF Unborn
<1>5. old \in SUBSET Players /\ (\A q \in old : Has(q)) /\ p \notin old
      /\ \A b \in MediaApps : p \notin handle[b]
  BY <1>2, PlayersAppsHave, MediaAssumption
<1>6. /\ StopAll(old) \in [Players -> PlayerState] /\ DOMAIN Signals(old) = Players
      /\ \A q \in Players \ old : StopAll(old)[q] = player[q] /\ Signals(old)[q] = bus[q]
      /\ \A q \in Players : StopAll(old)[q].owner = player[q].owner
      /\ \A q \in old, had \in BOOLEAN :
            Kept(StopAll(old)[q], had, pending[q], Signals(old)[q])
  BY <1>5, StopAllGives
<1>7. handle \in [MediaApps -> SUBSET Players] /\ media \in MediaRec
  BY DEF MediaIInv, MediaTypeOK, MediaRec
<1>8. /\ player' \in [Players -> PlayerState] /\ player'[p] = new
      /\ \A q \in Players \ {p} : player'[q] = StopAll(old)[q]
  BY <1>1, <1>2, <1>3, <1>6
<1>9. /\ DOMAIN bus' = Players /\ bus' = [q \in Players |-> bus'[q]]
      /\ bus'[p] = <<"reply">>
      /\ \A q \in Players \ {p} : bus'[q] = Signals(old)[q]
  <2>1. Signals(old)[p] = <<>> /\ Append(<<>>, "reply") = <<"reply">>
    BY <1>2, <1>4, <1>5, <1>6
  <2>2. Signals(old) = [q \in Players |-> Signals(old)[q]]
    BY DEF Signals
  <2> HIDE DEF old
  <2> QED
    BY <1>1, <1>2, <1>6, <2>1, <2>2
<1>10. /\ handle' \in [MediaApps -> SUBSET Players] /\ p \in handle'[a]
       /\ \A b \in MediaApps : \A q \in handle'[b] : q \in handle[b] \/ (q = p /\ b = a)
       /\ \A b \in MediaApps : \A q \in handle[b] : q \in old \/ q \in handle'[b]
  <2> DEFINE mine == IF multiple THEN handle[a] \cup {p} ELSE {p}
  <2>1. mine \in SUBSET Players /\ p \in mine /\ (\A q \in mine : q \in handle[a] \/ q = p)
        /\ \A q \in handle[a] : q \in old \/ q \in mine
    BY <1>2, <1>7
  <2>2. handle' = [handle EXCEPT ![a] = mine]
    BY <1>1, <1>7
  <2> HIDE DEF mine, old
  <2>3. handle'[a] = mine /\ \A b \in MediaApps \ {a} : handle'[b] = handle[b]
    BY <1>7, <2>2
  <2>4. handle' \in [MediaApps -> SUBSET Players]
    BY <1>7, <2>1, <2>2
  <2> QED
    BY <2>1, <2>3, <2>4
<1>11. ASSUME NEW q \in Players PROVE Kept(player'[q], Has(q)', pending'[q], bus'[q])
  <2>1. Has(q)' \in BOOLEAN
    BY DEF Has
  <2>2. CASE q = p
    <3>1. Has(p)'
      BY <1>3, <1>8, <1>10 DEF Has
    <3>2. <<>> \in Seq(MediaEvents) /\ <<"reply">> \in Seq(BusItems) /\ <<"reply">> # <<>>
          /\ DOMAIN <<"reply">> = {1}
      BY DEF BusItems
    <3>3. ToldToApp(new, TRUE, <<"reply">>)
      BY <1>3, <3>2 DEF ToldToApp
    <3>4. Kept(new, TRUE, <<>>, <<"reply">>)
      BY <1>3, <3>2, <3>3 DEF Kept, Unborn, HadByApp
    <3>5. pending'[p] = <<>> /\ Has(p)' = TRUE
      BY <1>1, <1>4, <3>1 DEF Has
    <3> QED
      BY <1>8, <1>9, <2>2, <3>4, <3>5
  <2>3. CASE q \in old
    BY <1>1, <1>5, <1>6, <1>8, <1>9, <2>1, <2>3
  <2>4. CASE q # p /\ q \notin old
    <3>1. player'[q] = player[q] /\ bus'[q] = bus[q] /\ pending'[q] = pending[q]
      BY <1>1, <1>6, <1>8, <1>9, <2>4
    <3>2. player[q].owner # Nobody => (q \in handle'[player[q].owner] <=> q \in handle[player[q].owner])
      <4> SUFFICES ASSUME player[q].owner # Nobody
                   PROVE  q \in handle'[player[q].owner] <=> q \in handle[player[q].owner]
        OBVIOUS
      <4> DEFINE b == player[q].owner
      <4>1. b \in MediaApps
        BY MediaFacts
      <4> HIDE DEF b
      <4>2. q \in handle'[b] <=> q \in handle[b]
        BY <1>10, <2>4, <4>1
      <4> QED
        BY <4>2 DEF b
    <3>3. Has(q)' = Has(q)
      BY <3>1, <3>2 DEF Has
    <3> QED
      BY <3>1, <3>3, MediaKeptNow
  <2> QED
    BY <2>2, <2>3, <2>4
<1>12. ListsKept'
  <2> SUFFICES ASSUME NEW b \in MediaApps, NEW q \in handle'[b] PROVE player'[q].owner = b
    BY DEF ListsKept
  <2> HIDE DEF old
  <2>1. CASE q = p
    <3>1. b = a
      BY <1>5, <1>10, <2>1
    <3> QED
      BY <1>3, <1>8, <2>1, <3>1
  <2>2. CASE q # p
    <3>1. q \in handle[b]
      BY <1>10, <2>2
    <3>2. player[q].owner = b /\ q \in Players
      BY <3>1, PlayersAppsHave
    <3> QED
      BY <1>6, <1>8, <2>2, <3>2
  <2> QED
    BY <2>1, <2>2
<1>13. pending' \in [Players -> Seq(MediaEvents)]
  BY <1>1 DEF MediaIInv, MediaTypeOK, MediaEvents
<1>14. media' \in MediaRec
  BY <1>1, <1>7, MediaRecSet DEF StillPlaying
<1> QED
  BY <1>8, <1>9, <1>10, <1>11, <1>12, <1>13, <1>14, MediaRebuilt DEF MediaRec

LEMMA PauseSteps ==
    ASSUME MediaIInv,
           \/ \E a \in MediaApps : \/ Pause(a) \/ Resume(a) \/ ResetAwakenMedia(a)
                                  \/ \E p \in Players : PauseOne(a, p)
           \/ VoicePauses
    PROVE  MediaIInv'
<1>1. media \in MediaRec /\ player \in [Players -> PlayerState]
      /\ pending \in [Players -> Seq(MediaEvents)]
  BY DEF MediaIInv, MediaTypeOK, MediaRec, MediaEvents
<1>2. UNCHANGED <<handle, pending, bus>>
  BY DEF Pause, Resume, ResetAwakenMedia, PauseOne, VoicePauses
<1>3. ASSUME NEW s \in SUBSET Players, \A p \in s : Has(p),
             player' = Paused(s) \/ player' = Resumed(s), media' \in MediaRec
      PROVE  MediaIInv'
  <2>1. ASSUME NEW p \in Players
        PROVE  /\ player'[p] \in PlayerState
               /\ \/ player'[p] = player[p]
                  \/ /\ player[p].owner # Nobody /\ player'[p].owner = player[p].owner
                     /\ player'[p].ignoreCancel = player[p].ignoreCancel
                     /\ player'[p].listened = player[p].listened
                     /\ player'[p].engine # "stopped" => player[p].engine # "stopped"
    <3>1. player[p] \in PlayerState
      BY MediaFacts
    <3>2. CASE player'[p] = player[p]
      BY <3>1, <3>2
    <3>3. CASE player'[p] # player[p]
      <4>1. p \in s /\ player[p].owner # Nobody
        BY <1>3, <3>3 DEF Paused, Resumed, Has
      <4>2. \/ player[p].engine = "playing" /\ player'[p] = [player[p] EXCEPT !.engine = "paused"]
            \/ player'[p] = [player[p] EXCEPT !.resumes = TRUE]
            \/ /\ player[p].engine \in {"ready", "paused"}
               /\ player'[p] = [player[p] EXCEPT !.engine = "playing"]
        BY <1>3, <3>3, <4>1 DEF Paused, Resumed
      <4> QED
        BY <3>1, <4>1, <4>2 DEF PlayerState
    <3> QED
      BY <3>2, <3>3
  <2>2. player' = [p \in Players |-> player'[p]]
    BY <1>3 DEF Paused, Resumed
  <2>3. player' \in [Players -> PlayerState]
    BY <2>1, <2>2
  <2> QED
    BY <1>1, <1>2, <1>3, <2>1, <2>3, QuietStep DEF MediaRec
<1>4. ASSUME NEW a \in MediaApps, Pause(a) PROVE MediaIInv'
  <2>1. player' = Paused(handle[a]) /\ media' \in MediaRec
    BY <1>1, <1>4, MediaRecSet DEF Pause, PausePlayers
  <2> QED
    BY <1>3, <2>1, PlayersAppsHave
<1>5. ASSUME NEW a \in MediaApps, NEW p \in Players, PauseOne(a, p) PROVE MediaIInv'
  <2>1. player' = Paused({p}) /\ media' \in MediaRec /\ p \in handle[a]
    BY <1>1, <1>5, MediaRecSet DEF PauseOne, PausePlayers
  <2> QED
    BY <1>3, <2>1, PlayersAppsHave
<1>6. ASSUME NEW a \in MediaApps, Resume(a) PROVE MediaIInv'
  <2>1. player' = Resumed(handle[a]) /\ media' \in MediaRec
    BY <1>1, <1>6, MediaRecSet DEF Resume, ResumePlayers
  <2> QED
    BY <1>3, <2>1, PlayersAppsHave
<1>7. ASSUME NEW a \in MediaApps, ResetAwakenMedia(a) PROVE MediaIInv'
  <2> DEFINE s == IF a = media.pausedOnAwaken THEN handle[a] ELSE {}
  <2>1. player' = Resumed(s) /\ media' \in MediaRec
    BY <1>1, <1>7 DEF ResetAwakenMedia, MediaRec
  <2>2. s \in SUBSET Players /\ \A p \in s : Has(p)
    BY PlayersAppsHave
  <2> HIDE DEF s
  <2> QED
    BY <1>3, <2>1, <2>2
<1>8. CASE VoicePauses
  <2>1. CASE CurrentlyPlaying = {}
    <3>1. player' = player /\ media' = [media EXCEPT !.pausedOnAwaken = Nobody]
      BY <1>8, <2>1 DEF VoicePauses
    <3>2. media' \in MediaRec
      BY <1>1, <3>1 DEF MediaRec
    <3> QED
      BY <1>1, <1>2, <3>1, <3>2, QuietStep DEF MediaRec
  <2>2. CASE CurrentlyPlaying # {}
    <3>1. PICK a \in CurrentlyPlaying :
             player' = Paused(handle[a]) /\ media' = [playing |-> FALSE, pausedOnAwaken |-> a]
      BY <1>8, <2>2 DEF VoicePauses
    <3>2. a \in MediaApps
      BY DEF CurrentlyPlaying
    <3>3. media' \in MediaRec
      BY <3>1, <3>2 DEF MediaRec
    <3> QED
      BY <1>3, <3>1, <3>2, <3>3, PlayersAppsHave
  <2> QED
    BY <2>1, <2>2
<1> QED
  BY <1>4, <1>5, <1>6, <1>7, <1>8

LEMMA EventSteps ==
    ASSUME MediaIInv, NEW p \in Players,
           \/ OnPrepared(p) \/ OnEnd(p) \/ Receive(p)
           \/ \E event \in MediaEvents : EngineEvent(p, event)
    PROVE  MediaIInv'
<1>1. /\ media \in MediaRec /\ player \in [Players -> PlayerState]
      /\ pending \in [Players -> Seq(MediaEvents)] /\ bus \in [Players -> Seq(BusItems)]
      /\ handle \in [MediaApps -> SUBSET Players]
  BY DEF MediaIInv, MediaTypeOK, MediaRec, MediaEvents, BusItems
<1>2. player[p] \in PlayerState /\ pending[p] \in Seq(MediaEvents) /\ bus[p] \in Seq(BusItems)
      /\ Unborn(player[p], pending[p], bus[p])
  BY MediaFacts
<1>3. ASSUME pending[p] # <<>>
      PROVE  /\ player[p].owner # Nobody /\ player[p].owner \in MediaApps
             /\ Tail(pending[p]) \in Seq(MediaEvents) /\ Head(pending[p]) \in MediaEvents
  BY <1>2, <1>3, MediaFacts, HeadTailProperties DEF Unborn
<1>4. ASSUME NEW event \in MediaEvents, EngineEvent(p, event) PROVE MediaIInv'
  <2> DEFINE t == [player[p] EXCEPT !.engine = IF event = "prepared" THEN "ready" ELSE "ended"]
             q == Append(pending[p], event)
  <2>1. /\ player' = [player EXCEPT ![p] = t] /\ pending' = [pending EXCEPT ![p] = q]
        /\ UNCHANGED <<handle, bus, media>>
    BY <1>1, <1>4 DEF EngineEvent
  <2>2. player[p].engine # "stopped" /\ player[p].owner # Nobody
    <3>1. NoPlayer.status = "idle" /\ NoPlayer.engine = "idle"
      BY DEF NoPlayer
    <3> QED
      BY <1>2, <1>4, <3>1 DEF EngineEvent, Unborn
  <2>3. /\ t \in PlayerState /\ t.owner = player[p].owner
        /\ t.ignoreCancel = player[p].ignoreCancel /\ t.listened = player[p].listened
    BY <1>2 DEF PlayerState
  <2>4. q \in Seq(MediaEvents)
    BY <1>2
  <2> HIDE DEF t, q
  <2>5. player' \in [Players -> PlayerState] /\ pending' \in [Players -> Seq(MediaEvents)]
    BY <1>1, <2>1, <2>3, <2>4
  <2>6. \A r \in Players :
           \/ player'[r] = player[r] /\ pending'[r] = pending[r]
           \/ /\ player[r].owner # Nobody /\ player'[r].owner = player[r].owner
              /\ player'[r].ignoreCancel = player[r].ignoreCancel
              /\ player'[r].listened = player[r].listened
              /\ player'[r].engine # "stopped" => player[r].engine # "stopped"
    BY <1>1, <2>1, <2>2, <2>3
  <2> QED
    BY <1>1, <2>1, <2>5, <2>6, QuietStep DEF MediaRec
<1>5. CASE OnPrepared(p)
  <2> DEFINE e == IF player[p].engine = "ready" /\ (player[p].starts \/ player[p].resumes)
                  THEN "playing" ELSE player[p].engine
             t == [player[p] EXCEPT !.status = "prepared", !.starts = FALSE, !.resumes = FALSE,
                                    !.engine = e]
             q == Tail(pending[p])
  <2>1. /\ player' = [player EXCEPT ![p] = t] /\ pending' = [pending EXCEPT ![p] = q]
        /\ pending[p] # <<>> /\ media' = [media EXCEPT !.playing = TRUE]
        /\ UNCHANGED <<handle, bus>>
    BY <1>1, <1>2, <1>5 DEF OnPrepared, PlayerState
  <2>2. /\ e \in {"idle", "ready", "playing", "paused", "ended", "stopped"}
        /\ e # "stopped" => player[p].engine # "stopped"
    BY <1>2 DEF PlayerState
  <2> HIDE DEF e
  <2>3. /\ t \in PlayerState /\ t.owner = player[p].owner /\ t.engine = e
        /\ t.ignoreCancel = player[p].ignoreCancel /\ t.listened = player[p].listened
    BY <1>2, <2>2 DEF PlayerState
  <2>4. q \in Seq(MediaEvents) /\ player[p].owner # Nobody
    BY <1>3, <2>1
  <2> HIDE DEF t, q
  <2>5. player' \in [Players -> PlayerState] /\ pending' \in [Players -> Seq(MediaEvents)]
    BY <1>1, <2>1, <2>3, <2>4
  <2>6. \A r \in Players :
           \/ player'[r] = player[r] /\ pending'[r] = pending[r]
           \/ /\ player[r].owner # Nobody /\ player'[r].owner = player[r].owner
              /\ player'[r].ignoreCancel = player[r].ignoreCancel
              /\ player'[r].listened = player[r].listened
              /\ player'[r].engine # "stopped" => player[r].engine # "stopped"
    BY <1>1, <2>1, <2>2, <2>3, <2>4
  <2>7. media' \in MediaRec
    BY <1>1, <2>1, MediaRecSet
  <2> QED
    BY <2>1, <2>5, <2>6, <2>7, QuietStep DEF MediaRec
<1>6. ASSUME NEW t \in PlayerState, NEW q \in Seq(MediaEvents), NEW carried \in Seq(BusItems),
             player' = [player EXCEPT ![p] = t], pending' = [pending EXCEPT ![p] = q],
             bus' = [bus EXCEPT ![p] = carried], media' \in MediaRec,
             t.owner = player[p].owner, player[p].owner # Nobody,
             handle' \in [MediaApps -> SUBSET Players],
             \A b \in MediaApps : handle'[b] \subseteq handle[b] /\ handle[b] \ {p} \subseteq handle'[b],
             Kept(t, Has(p)', q, carried)
      PROVE  MediaIInv'
  <2>1. /\ player' \in [Players -> PlayerState] /\ pending' \in [Players -> Seq(MediaEvents)]
        /\ bus' \in [Players -> Seq(BusItems)]
    BY <1>1, <1>6
  <2>2. ASSUME NEW r \in Players PROVE Kept(player'[r], Has(r)', pending'[r], bus'[r])
    <3>1. CASE r = p
      BY <1>1, <1>6, <3>1
    <3>2. CASE r # p
      <4>1. player'[r] = player[r] /\ pending'[r] = pending[r] /\ bus'[r] = bus[r]
        BY <1>1, <1>6, <3>2
      <4>2. ASSUME NEW b \in MediaApps PROVE r \in handle'[b] <=> r \in handle[b]
        BY <1>6, <3>2, <4>2
      <4>3. Has(r)' = Has(r)
        BY <4>1, <4>2, MediaFacts DEF Has
      <4> QED
        BY <4>1, <4>3, MediaKeptNow
    <3> QED
      BY <3>1, <3>2
  <2>3. \A r \in Players : player'[r].owner = player[r].owner
    BY <1>1, <1>6
  <2>4. ListsKept'
    BY <1>1, <1>6, <2>3 DEF MediaIInv, ListsKept
  <2> QED
    BY <1>6, <2>1, <2>2, <2>4, MediaRebuilt DEF MediaRec
<1>7. CASE OnEnd(p)
  <2> DEFINE t == [player[p] EXCEPT !.engine = "stopped", !.ignoreCancel = TRUE, !.starts = FALSE,
                                    !.resumes = FALSE, !.ends = OneMore(player[p].ends)]
             q == Tail(pending[p])
             a == player[p].owner
             carried == Append(bus[p], Head(pending[p]))
  <2>1. /\ player' = [player EXCEPT ![p] = t] /\ pending' = [pending EXCEPT ![p] = q]
        /\ pending[p] # <<>> /\ Head(pending[p]) # "prepared"
        /\ handle' = [handle EXCEPT ![a] = @ \ {p}] /\ bus' = [bus EXCEPT ![p] = carried]
        /\ media' = [media EXCEPT !.playing = FALSE]
    BY <1>1, <1>2, <1>7 DEF OnEnd, PlayerState
  <2>2. a # Nobody /\ a \in MediaApps /\ q \in Seq(MediaEvents) /\ Head(pending[p]) \in Ends
    BY <1>3, <2>1 DEF MediaEvents, Ends
  <2>3. OneMore(player[p].ends) \in 0 .. 2
    <3>1. 1 \in 0 .. 2 /\ 2 \in 0 .. 2
      OBVIOUS
    <3> QED
      BY <3>1 DEF OneMore
  <2>4. /\ t \in PlayerState /\ t.owner = a /\ t.listened = player[p].listened
        /\ t.engine = "stopped"
    BY <1>2, <2>3 DEF PlayerState
  <2>5. /\ handle' \in [MediaApps -> SUBSET Players] /\ p \notin handle'[a]
        /\ \A b \in MediaApps : handle'[b] \subseteq handle[b] /\ handle[b] \ {p} \subseteq handle'[b]
    BY <1>1, <2>1, <2>2
  <2> HIDE DEF t, q, a
  <2>6. player'[p] = t
    BY <1>1, <2>1
  <2>7. Has(p)' = FALSE
    BY <2>4, <2>5, <2>6 DEF Has
  <2>8. Kept(player[p], Has(p), pending[p], bus[p])
    BY MediaKeptNow
  <2>9. Kept(t, FALSE, q, carried)
    BY <2>2, <2>4, <2>8, EndIsSent DEF a
  <2>10. carried \in Seq(BusItems)
    BY <2>9 DEF Kept
  <2>11. media' \in MediaRec
    BY <1>1, <2>1, MediaRecSet
  <2> HIDE DEF carried
  <2>12. t.owner = player[p].owner /\ player[p].owner # Nobody
    BY <2>2, <2>4 DEF a
  <2>13. Kept(t, Has(p)', q, carried)
    BY <2>7, <2>9
  <2> QED
    BY <1>6, <2>1, <2>2, <2>4, <2>5, <2>10, <2>11, <2>12, <2>13
<1>8. CASE Receive(p)
  <2> DEFINE l == AfterHearing(player[p].listened, Head(bus[p]))
             t == [player[p] EXCEPT !.listened = l]
             carried == Tail(bus[p])
  <2>1. /\ bus[p] # <<>> /\ bus' = [bus EXCEPT ![p] = carried]
        /\ player' = [player EXCEPT ![p] = t] /\ UNCHANGED <<handle, pending, media>>
    BY <1>1, <1>8 DEF Receive, AfterHearing
  <2>2. player[p].owner # Nobody
    BY <1>2, <2>1 DEF Unborn
  <2>3. l \in {"not yet", "yes", "no more"}
    BY <1>2 DEF PlayerState, AfterHearing
  <2>4. /\ t \in PlayerState /\ t.owner = player[p].owner /\ t.engine = player[p].engine
        /\ t.ignoreCancel = player[p].ignoreCancel /\ t.listened = l
    <3> HIDE DEF l
    <3> QED
      BY <1>2, <2>3 DEF PlayerState
  <2> HIDE DEF t
  <2>5. Kept(player[p], Has(p), pending[p], bus[p])
    BY MediaKeptNow
  <2>6. Kept(t, Has(p), pending[p], carried)
    BY <2>1, <2>2, <2>4, <2>5, OneIsHeard
  <2>7. carried \in Seq(BusItems)
    BY <2>6 DEF Kept
  <2> HIDE DEF carried, l
  <2>8. player'[p] = t /\ pending' = [pending EXCEPT ![p] = pending[p]]
    BY <1>1, <2>1
  <2>9. Has(p)' = Has(p)
    BY <2>1, <2>4, <2>8 DEF Has
  <2> QED
    BY <1>1, <1>2, <1>6, <2>1, <2>2, <2>4, <2>6, <2>7, <2>8, <2>9
<1> QED
  BY <1>4, <1>5, <1>7, <1>8

LEMMA MediaInductive == MediaIInv /\ [MediaNext]_mediaVars => MediaIInv'
<1> SUFFICES ASSUME MediaIInv, [MediaNext]_mediaVars PROVE MediaIInv'
  OBVIOUS
<1>1. CASE UNCHANGED mediaVars
  <2>1. /\ media \in MediaRec /\ player \in [Players -> PlayerState]
        /\ pending \in [Players -> Seq(MediaEvents)]
    BY DEF MediaIInv, MediaTypeOK, MediaRec, MediaEvents
  <2> QED
    BY <1>1, <2>1, QuietStep DEF mediaVars, MediaRec
<1>2. CASE MediaNext
  BY <1>2, StopSteps, PrepareStep, PauseSteps, EventSteps DEF MediaNext, MediaEvents
<1> QED
  BY <1>1, <1>2

LEMMA MediaStarts == MediaInit => MediaIInv
<1> SUFFICES ASSUME MediaInit PROVE MediaIInv
  OBVIOUS
<1>1. NoPlayer \in PlayerState /\ NoPlayer.owner = Nobody
  <2>1. 0 \in 0 .. 2
    OBVIOUS
  <2> QED
    BY <2>1 DEF NoPlayer, PlayerState
<1>2. <<>> \in Seq(MediaEvents) /\ <<>> \in Seq(BusItems)
  OBVIOUS
<1> HIDE DEF NoPlayer
<1>3. \A p \in Players : player[p] = NoPlayer /\ pending[p] = <<>> /\ bus[p] = <<>>
  BY DEF MediaInit
<1>4. \A p \in Players : ~Has(p)
  BY <1>1, <1>3 DEF Has
<1>5. PlayersKept
  <2> SUFFICES ASSUME NEW p \in Players
               PROVE  /\ Unborn(NoPlayer, <<>>, <<>>) /\ HadByApp(NoPlayer, FALSE)
                      /\ ToldToApp(NoPlayer, FALSE, <<>>)
    BY <1>3, <1>4 DEF PlayersKept, Has
  <2> QED
    BY <1>1 DEF Unborn, HadByApp, ToldToApp
<1>6. MediaTypeOK
  BY <1>1, <1>2 DEF MediaInit, MediaTypeOK, MediaEvents, BusItems
<1>7. ListsKept
  BY DEF MediaInit, ListsKept
<1> QED
  BY <1>5, <1>6, <1>7 DEF MediaIInv

\* Whatever apps prepare, stop, pause, resume and reset, and whenever the engine
\* ends a player: what plays can be stopped by its app, and the app hears of the
\* end of each player that it no longer has.
THEOREM PlayersAnswered == MediaSpec => []MediaInv
<1>1. MediaSpec => []MediaIInv
  BY MediaStarts, MediaInductive, PTL DEF MediaSpec
<1> QED
  BY <1>1, MediaIInvGives, PTL

-----------------------------------------------------------------------------
(***************************************************************************)
(* The keys: what a long press prevents, repeats and debounces             *)
(***************************************************************************)
KeyboardRec == [currentKeyCode : Keys \cup {NoKey}, pressed : 0 .. MaxHeld + 1,
                preventSubsequent : BOOLEAN, guard : [Descriptors -> Nat]]
UserRec == [front : KeyApps \cup {"none"}, held : [Keys -> 0 .. MaxHeld + 1],
            prevents : SUBSET Keys]
FiredRec == [last : SUBSET Descriptors, key : Keys \cup {NoKey}, times : [Once -> 0 .. 2],
             wait : [Descriptors -> Nat]]

KeysTyped(kb, u, f) ==
    /\ kb \in KeyboardRec /\ u \in UserRec /\ f \in FiredRec
    /\ interests \in [KeyApps -> SUBSET (Keys \X Interests)]

\* The key that is held is the current one, and since when.
CurrentIsHeld(kb, u) ==
    \A k \in Keys : u.held[k] > 0 => kb.currentKeyCode = k /\ kb.pressed = u.held[k]

\* What is prevented is its press, and all of it.
PreventsPress(kb, u) ==
    /\ kb.preventSubsequent => /\ kb.currentKeyCode \in u.prevents
                               /\ u.held[kb.currentKeyCode] > 0
    /\ \A k \in u.prevents : u.held[k] > 0 => kb.preventSubsequent

\* The guards' timers run as long as the actions are not to happen again.
Guarded(kb, f) ==
    /\ f.wait = kb.guard
    /\ \A d \in Descriptors : d.debounce = 0 => kb.guard[d] = 0

\* The time of what has happened once in a press is over.
HappenedBefore(kb, u, times) ==
    \A d \in Once : /\ times[d] <= 1
                    /\ times[d] > 0 /\ u.held[d.key] > 0 => d.timeDelta <= Rounded(kb.pressed - 1)

KeyKept(kb, u, f) ==
    /\ KeysTyped(kb, u, f) /\ CurrentIsHeld(kb, u) /\ PreventsPress(kb, u)
    /\ Guarded(kb, f) /\ HappenedBefore(kb, u, f.times)

KeyIInv == KeyKept(keyboard, user, fired)

LEMMA KeyRebuilt ==
    ASSUME NEW kb, NEW u, NEW f, KeyKept(kb, u, f), keyboard' = kb, user' = u, fired' = f,
           interests' \in [KeyApps -> SUBSET (Keys \X Interests)]
    PROVE  KeyIInv'
<1>1. KeysTyped(kb, u, f)'
  BY DEF KeyKept, KeysTyped, KeyboardRec, UserRec, FiredRec
<1> QED
  BY <1>1 DEF KeyIInv, KeyKept, KeysTyped, CurrentIsHeld, PreventsPress, Guarded, HappenedBefore

\* What one key at a time may do, in intervals that rounding tells apart.
OneKeyInTime == KeysAtOnce = 1 /\ \A dt \in Intervals : dt >= Window

LEMMA KeyIInvGives == KeyIInv => KeyboardTypeOK /\ PreventsOwnPress /\ NonRepeatingOnce
<1> SUFFICES ASSUME KeyIInv PROVE KeyboardTypeOK /\ PreventsOwnPress /\ NonRepeatingOnce
  OBVIOUS
<1>1. keyboard \in KeyboardRec /\ user \in UserRec /\ fired \in FiredRec
      /\ interests \in [KeyApps -> SUBSET (Keys \X Interests)]
  BY DEF KeyIInv, KeyKept, KeysTyped
<1>2. KeyboardTypeOK
  BY <1>1 DEF KeyboardRec, UserRec, FiredRec, KeyboardTypeOK
<1>3. PreventsOwnPress
  BY <1>1 DEF KeyIInv, KeyKept, PreventsPress, PreventsOwnPress, Held, UserRec
<1>4. NonRepeatingOnce
  BY DEF KeyIInv, KeyKept, HappenedBefore, NonRepeatingOnce
<1> QED
  BY <1>2, <1>3, <1>4

LEMMA CountedDown ==
    ASSUME NEW count \in [Descriptors -> Nat], NEW dt \in Nat
    PROVE  /\ CountDown(count, dt) \in [Descriptors -> Nat]
           /\ \A d \in Descriptors : count[d] = 0 => CountDown(count, dt)[d] = 0
           /\ dt = 0 => CountDown(count, dt) = count
<1>1. CountDown(count, dt) \in [Descriptors -> Nat]
  BY DEF CountDown
<1>2. \A d \in Descriptors : count[d] = 0 => CountDown(count, dt)[d] = 0
  BY DEF CountDown
<1>3. ASSUME dt = 0 PROVE CountDown(count, dt) = count
  <2>1. \A d \in Descriptors : CountDown(count, dt)[d] = count[d]
    BY <1>3 DEF CountDown
  <2> QED
    BY <1>1, <2>1
<1> QED
  BY <1>1, <1>2, <1>3

LEMMA TimesGives ==
    ASSUME KeyIInv
    PROVE  /\ Times \in [Once -> 0 .. 2] /\ Times \in [Once -> 0 .. 1]
           /\ \A d \in Once : /\ Times[d] <= 1 /\ d.key \in Keys /\ d \in Descriptors
                              /\ user.held[d.key] = 0 => Times[d] = 0
                              /\ user.held[d.key] # 0 => Times[d] = fired.times[d]
<1>1. fired.times \in [Once -> 0 .. 2] /\ \A d \in Once : fired.times[d] <= 1
  BY DEF KeyIInv, KeyKept, KeysTyped, FiredRec, HappenedBefore
<1>2. \A d \in Once : d \in Descriptors /\ d.key \in Keys
  BY KeyboardAssumption DEF Once
<1> QED
  BY <1>1, <1>2 DEF Times

\* What becomes of the guards and what is remembered of the actions; the kb is
\* what the handler did before.
KeyHandled(kb, k) ==
    /\ keyboard' \in KeyboardRec
    /\ keyboard'.currentKeyCode = kb.currentKeyCode /\ keyboard'.pressed = kb.pressed
    /\ keyboard'.preventSubsequent = kb.preventSubsequent
    /\ fired' \in FiredRec /\ fired'.key = k /\ fired'.times = Times
    /\ Guarded(keyboard', fired')
    /\ \A d \in Descriptors : fired.wait[d] > 0 => d \notin fired'.last

LEMMA SilentGives ==
    ASSUME KeyIInv, NEW kb \in KeyboardRec, NEW k \in Keys \cup {NoKey}, NEW dt \in Nat,
           kb.guard = CountDown(keyboard.guard, dt), keyboard' = kb, Silent(k, dt)
    PROVE  KeyHandled(kb, k) /\ fired'.last = {}
<1> DEFINE w == CountDown(fired.wait, dt)
<1>1. fired' = [last |-> {}, key |-> k, times |-> Times, wait |-> w]
  BY DEF Silent
<1>2. /\ fired.wait = keyboard.guard /\ keyboard.guard \in [Descriptors -> Nat]
      /\ \A d \in Descriptors : d.debounce = 0 => keyboard.guard[d] = 0
  BY DEF KeyIInv, KeyKept, KeysTyped, KeyboardRec, Guarded
<1>3. /\ w = kb.guard /\ w \in [Descriptors -> Nat]
      /\ \A d \in Descriptors : d.debounce = 0 => w[d] = 0
  BY <1>2, CountedDown
<1> HIDE DEF w
<1>4. fired' \in FiredRec /\ fired'.last = {} /\ fired'.key = k /\ fired'.times = Times
      /\ fired'.wait = w
  BY <1>1, <1>3, TimesGives DEF FiredRec
<1> QED
  BY <1>3, <1>4 DEF KeyHandled, Guarded

LEMMA DebouncedGives ==
    ASSUME KeyIInv, NEW kb \in KeyboardRec, NEW k \in Keys, kb.guard = keyboard.guard,
           NEW ds \in SUBSET Descriptors, \A d \in ds : d.event # "longpress",
           Debounced(ds, k, kb)
    PROVE  KeyHandled(kb, k)
<1>1. keyboard.guard \in [Descriptors -> Nat] /\ fired.wait = keyboard.guard
      /\ \A d \in Descriptors : d.debounce = 0 => keyboard.guard[d] = 0
  BY DEF KeyIInv, KeyKept, KeysTyped, KeyboardRec, Guarded
<1>2. CountDown(keyboard.guard, 0) = keyboard.guard
  BY <1>1, CountedDown
<1>3. ASSUME keyboard' = kb, Silent(k, 0) PROVE KeyHandled(kb, k)
  BY <1>2, <1>3, SilentGives
<1>4. ASSUME ds # {}, NEW d \in ds, kb.guard[d] = 0 \/ d.debounce = 0,
             keyboard' = [kb EXCEPT !.guard[d] = d.debounce], ExecuteDescriptor(d, k, 0)
      PROVE  KeyHandled(kb, k)
  <2> DEFINE g == [keyboard.guard EXCEPT ![d] = d.debounce]
  <2>1. d \in Descriptors /\ d.debounce \in Nat /\ d \notin Once
    BY <1>4, KeyboardAssumption DEF Once
  <2>2. g \in [Descriptors -> Nat] /\ \A x \in Descriptors : x.debounce = 0 => g[x] = 0
    BY <1>1, <2>1
  <2>3. keyboard' = [kb EXCEPT !.guard = g]
    BY <1>4 DEF KeyboardRec
  <2>4. \A x \in Once : x # d
    BY <2>1
  <2>5. [x \in Once |-> IF x = d /\ Times[x] < 2 THEN Times[x] + 1 ELSE Times[x]] = Times
    BY <2>4, TimesGives
  <2>6. fired' = [last |-> {d}, key |-> k, wait |-> g, times |-> Times]
    BY <1>1, <1>2, <1>4, <2>5 DEF ExecuteDescriptor
  <2> HIDE DEF g
  <2>7. keyboard' \in KeyboardRec /\ keyboard'.guard = g
        /\ keyboard'.currentKeyCode = kb.currentKeyCode /\ keyboard'.pressed = kb.pressed
        /\ keyboard'.preventSubsequent = kb.preventSubsequent
    BY <2>2, <2>3 DEF KeyboardRec
  <2>8. fired' \in FiredRec /\ fired'.last = {d} /\ fired'.key = k /\ fired'.times = Times
        /\ fired'.wait = g
    BY <2>1, <2>2, <2>6, TimesGives DEF FiredRec
  <2>9. fired.wait[d] = 0
    BY <1>1, <1>4, <2>1
  <2> QED
    BY <2>2, <2>7, <2>8, <2>9 DEF KeyHandled, Guarded
<1>5. CASE ds = {}
  BY <1>3, <1>5 DEF Debounced
<1>6. CASE ds # {}
  <2> DEFINE d == CHOOSE x \in ds : TRUE
  <2>1. d \in ds
    BY <1>6
  <2>2. IF d.debounce > 0 /\ kb.guard[d] > 0 THEN keyboard' = kb /\ Silent(k, 0)
        ELSE keyboard' = [kb EXCEPT !.guard[d] = d.debounce] /\ ExecuteDescriptor(d, k, 0)
    BY <1>6 DEF Debounced
  <2> HIDE DEF d
  <2>3. d.debounce \in Nat /\ kb.guard[d] \in Nat
    BY <1>1, <2>1, KeyboardAssumption
  <2> QED
    BY <1>3, <1>4, <1>6, <2>1, <2>2, <2>3
<1> QED
  BY <1>5, <1>6

LEMMA HandleGives ==
    ASSUME KeyIInv, NEW kb \in KeyboardRec, NEW k \in Keys, kb.guard = keyboard.guard,
           NEW event \in {"keydown", "keyup"}, Handle(event, k, kb)
    PROVE  KeyHandled(kb, k)
<1>1. CASE AppListens(event, k)
  <2>1. CountDown(keyboard.guard, 0) = keyboard.guard
    BY CountedDown DEF KeyIInv, KeyKept, KeysTyped, KeyboardRec
  <2> QED
    BY <1>1, <2>1, SilentGives DEF Handle
<1>2. CASE ~AppListens(event, k)
  BY <1>2, DebouncedGives DEF Handle, DescriptorsAt
<1> QED
  BY <1>1, <1>2

\* What has happened once is counted as long as the key is held.
LEMMA PressCounted ==
    ASSUME KeyIInv, NEW kb, NEW k, KeyHandled(kb, k), user' \in UserRec, interests' = interests,
           CurrentIsHeld(keyboard', user'), PreventsPress(keyboard', user'),
           \A x \in Keys : user'.held[x] > 0 /\ user.held[x] > 0
                              => keyboard'.pressed = keyboard.pressed
    PROVE  KeyIInv'
<1>1. HappenedBefore(keyboard', user', fired'.times)
  <2> SUFFICES ASSUME NEW d \in Once
               PROVE  /\ fired'.times[d] <= 1
                      /\ fired'.times[d] > 0 /\ user'.held[d.key] > 0
                            => d.timeDelta <= Rounded(keyboard'.pressed - 1)
    BY DEF HappenedBefore
  <2>1. fired'.times[d] = Times[d] /\ Times[d] <= 1 /\ d.key \in Keys
    BY TimesGives DEF KeyHandled
  <2>2. ASSUME Times[d] > 0, user'.held[d.key] > 0
        PROVE  d.timeDelta <= Rounded(keyboard'.pressed - 1)
    <3>1. user.held[d.key] # 0 /\ fired.times[d] > 0
      BY <2>2, TimesGives
    <3>2. user.held[d.key] \in Nat
      BY <2>1 DEF KeyIInv, KeyKept, KeysTyped, UserRec
    <3>3. user.held[d.key] > 0
      BY <3>1, <3>2
    <3>4. d.timeDelta <= Rounded(keyboard.pressed - 1)
      BY <3>1, <3>3 DEF KeyIInv, KeyKept, HappenedBefore
    <3> QED
      BY <2>1, <2>2, <3>3, <3>4
  <2> QED
    BY <2>1, <2>2
<1>2. KeyKept(keyboard', user', fired')
  BY <1>1 DEF KeyHandled, KeyKept, KeysTyped, KeyIInv
<1> QED
  BY <1>2 DEF KeyIInv, KeyKept, KeysTyped

\* A key goes down when none is held.
LEMMA NoneHeld ==
    ASSUME KeyIInv, KeysAtOnce = 1, Cardinality(Held) < KeysAtOnce
    PROVE  \A k \in Keys : user.held[k] = 0
<1>1. \A k \in Held : k = keyboard.currentKeyCode
  BY DEF KeyIInv, KeyKept, CurrentIsHeld, Held
<1>2. Held \subseteq {keyboard.currentKeyCode}
  BY <1>1
<1>3. IsFiniteSet(Held)
  BY <1>2, FS_Singleton, FS_Subset
<1>4. Cardinality(Held) \in Nat /\ (Cardinality(Held) = 0 <=> Held = {})
  BY <1>3, FS_CardinalityType, FS_EmptySet
<1>5. Held = {}
  BY <1>4
<1>6. \A k \in Keys : user.held[k] \in Nat
  BY DEF KeyIInv, KeyKept, KeysTyped, UserRec
<1> QED
  BY <1>5, <1>6 DEF Held

\* What a step may do: after what is prevented nothing, and what is debounced
\* not before its time.
KeyStepKept ==
    /\ \A k \in user.prevents : user.held[k] > 0 /\ fired'.key = k => fired'.last = {}
    /\ \A d \in Descriptors : fired.wait[d] > 0 => d \notin fired'.last

LEMMA KeydownStep ==
    ASSUME KeyIInv, OneKeyInTime, NEW k \in Keys, Keydown(k)
    PROVE  KeyIInv' /\ KeyStepKept
<1> DEFINE kb == [keyboard EXCEPT !.currentKeyCode = k, !.pressed = 1]
<1>1. \A x \in Keys : user.held[x] = 0
  BY NoneHeld DEF Keydown, OneKeyInTime
<1>2. keyboard \in KeyboardRec /\ user \in UserRec
  BY DEF KeyIInv, KeyKept, KeysTyped
<1>3. MaxHeld \in Nat /\ 1 \in 0 .. MaxHeld + 1
  BY KeyboardAssumption
<1>4. /\ kb \in KeyboardRec /\ kb.guard = keyboard.guard /\ kb.currentKeyCode = k
      /\ kb.pressed = 1 /\ kb.preventSubsequent = keyboard.preventSubsequent
  BY <1>2, <1>3 DEF KeyboardRec
<1>5. ~keyboard.preventSubsequent
  BY <1>1 DEF KeyIInv, KeyKept, PreventsPress, KeysTyped, UserRec
<1>6. Handle("keydown", k, kb)
  BY DEF Keydown
<1> HIDE DEF kb
<1>7. KeyHandled(kb, k)
  BY <1>4, <1>6, HandleGives
<1>8. /\ user' \in UserRec /\ user'.held = [user.held EXCEPT ![k] = 1]
      /\ user'.prevents = user.prevents \ {k} /\ interests' = interests
  BY <1>2, <1>3 DEF Keydown, UserRec
<1>9. /\ user'.held[k] = 1 /\ \A x \in Keys : x # k => user'.held[x] = 0
  BY <1>1, <1>2, <1>8 DEF UserRec
<1>10. CurrentIsHeld(keyboard', user')
  BY <1>4, <1>7, <1>9 DEF CurrentIsHeld, KeyHandled
<1>11. PreventsPress(keyboard', user')
  <2>1. ~keyboard'.preventSubsequent
    BY <1>4, <1>5, <1>7 DEF KeyHandled
  <2>2. \A x \in user'.prevents : x \in Keys /\ x # k
    BY <1>2, <1>8 DEF UserRec
  <2> QED
    BY <1>9, <2>1, <2>2 DEF PreventsPress
<1>12. KeyIInv'
  BY <1>1, <1>7, <1>8, <1>10, <1>11, PressCounted
<1>13. \A x \in user.prevents : x \in Keys
  BY <1>2 DEF UserRec
<1> QED
  BY <1>1, <1>7, <1>12, <1>13 DEF KeyStepKept, KeyHandled

LEMMA KeyupStep ==
    ASSUME KeyIInv, NEW k \in Keys, Keyup(k)
    PROVE  KeyIInv' /\ KeyStepKept
<1> DEFINE current == keyboard.currentKeyCode = k
           kb == [keyboard EXCEPT !.pressed = IF current THEN 0 ELSE @,
                                  !.preventSubsequent = @ /\ ~current]
<1>1. keyboard \in KeyboardRec /\ user \in UserRec /\ user.held[k] > 0 /\ 0 \in 0 .. MaxHeld + 1
  BY KeyboardAssumption DEF Keyup, KeyIInv, KeyKept, KeysTyped
<1>2. current
  BY <1>1 DEF KeyIInv, KeyKept, CurrentIsHeld
<1>3. kb = [keyboard EXCEPT !.pressed = 0, !.preventSubsequent = FALSE]
  BY <1>1, <1>2 DEF KeyboardRec
<1>4. IF keyboard.preventSubsequent THEN keyboard' = kb /\ Silent(k, 0)
                                    ELSE Handle("keyup", k, kb)
  BY <1>2 DEF Keyup
<1> HIDE DEF kb
<1>5. /\ kb \in KeyboardRec /\ kb.guard = keyboard.guard
      /\ kb.currentKeyCode = k /\ kb.pressed = 0 /\ kb.preventSubsequent = FALSE
  BY <1>1, <1>2, <1>3 DEF KeyboardRec
<1>6. /\ KeyHandled(kb, k)
      /\ keyboard.preventSubsequent => fired'.last = {}
  <2>1. CountDown(keyboard.guard, 0) = keyboard.guard
    BY <1>1, CountedDown DEF KeyboardRec
  <2> QED
    BY <1>4, <1>5, <2>1, SilentGives, HandleGives
<1>7. /\ user' \in UserRec /\ user'.held = [user.held EXCEPT ![k] = 0]
      /\ user'.prevents = user.prevents /\ interests' = interests
  BY <1>1 DEF Keyup, UserRec
<1>8. \A x \in Keys : user'.held[x] = 0
  <2>1. \A x \in Keys : x # k => ~(user.held[x] > 0) /\ user.held[x] \in Nat
    BY <1>1, <1>2 DEF KeyIInv, KeyKept, CurrentIsHeld, UserRec
  <2> QED
    BY <1>1, <1>7, <2>1 DEF UserRec
<1>9. CurrentIsHeld(keyboard', user')
  BY <1>8 DEF CurrentIsHeld
<1>10. PreventsPress(keyboard', user')
  <2>1. ~keyboard'.preventSubsequent
    BY <1>5, <1>6 DEF KeyHandled
  <2> QED
    BY <1>7, <1>8, <2>1 DEF PreventsPress, UserRec
<1>11. KeyIInv'
  BY <1>6, <1>7, <1>8, <1>9, <1>10, PressCounted
<1>12. \A x \in user.prevents : user.held[x] > 0 => keyboard.preventSubsequent
  BY DEF KeyIInv, KeyKept, PreventsPress
<1> QED
  BY <1>6, <1>11, <1>12 DEF KeyStepKept, KeyHandled

LEMMA GestureStep ==
    ASSUME KeyIInv, NEW k \in Keys, NEW g \in Gestures, Gesture(g, k)
    PROVE  KeyIInv' /\ KeyStepKept
<1>1. keyboard \in KeyboardRec /\ user \in UserRec /\ user.held[k] = 0
      /\ interests' = interests /\ user' = user
  BY DEF Gesture, KeyIInv, KeyKept, KeysTyped
<1>2. KeyHandled(keyboard, k)
  <2>1. CASE AppListens(g, k)
    <3>1. keyboard.guard \in [Descriptors -> Nat]
      BY <1>1 DEF KeyboardRec
    <3>2. CountDown(keyboard.guard, 0) = keyboard.guard
      BY <3>1, CountedDown
    <3> QED
      BY <1>1, <2>1, <3>2, SilentGives DEF Gesture
  <2>2. CASE ~AppListens(g, k)
    <3> DEFINE ds == IF DescriptorsAt(k, g, 0) # {} THEN DescriptorsAt(k, g, 0)
                     ELSE DescriptorsAt(Fallback, g, 0)
    <3>1. ds \in SUBSET Descriptors /\ \A d \in ds : d.event # "longpress"
      BY DEF DescriptorsAt, Gestures
    <3>2. Debounced(ds, k, keyboard)
      BY <2>2 DEF Gesture
    <3> HIDE DEF ds
    <3> QED
      BY <1>1, <3>1, <3>2, DebouncedGives
  <2> QED
    BY <2>1, <2>2
<1>3. CurrentIsHeld(keyboard', user') /\ PreventsPress(keyboard', user')
  BY <1>1, <1>2 DEF KeyIInv, KeyKept, CurrentIsHeld, PreventsPress, KeyHandled
<1>4. KeyIInv'
  <2>1. keyboard'.pressed = keyboard.pressed
    BY <1>2 DEF KeyHandled
  <2> QED
    BY <1>1, <1>2, <1>3, <2>1, PressCounted
<1> QED
  BY <1>1, <1>2, <1>4 DEF KeyStepKept, KeyHandled

\* Time and what apps do execute nothing.
LEMMA QuietKeyStep ==
    ASSUME KeyIInv, NEW dt \in Nat, Silent(NoKey, dt),
           keyboard' = [keyboard EXCEPT !.guard = CountDown(@, dt)],
           user' \in UserRec, user'.held = user.held, user'.prevents = user.prevents,
           interests' \in [KeyApps -> SUBSET (Keys \X Interests)]
    PROVE  KeyIInv' /\ KeyStepKept
<1>1. keyboard \in KeyboardRec /\ CountDown(keyboard.guard, dt) \in [Descriptors -> Nat]
  BY CountedDown DEF KeyIInv, KeyKept, KeysTyped, KeyboardRec
<1> DEFINE kb == [keyboard EXCEPT !.guard = CountDown(@, dt)]
<1>2. /\ kb \in KeyboardRec /\ kb.guard = CountDown(keyboard.guard, dt)
      /\ kb.currentKeyCode = keyboard.currentKeyCode /\ kb.pressed = keyboard.pressed
      /\ kb.preventSubsequent = keyboard.preventSubsequent
  BY <1>1 DEF KeyboardRec
<1> HIDE DEF kb
<1>3. KeyHandled(kb, NoKey) /\ fired'.last = {}
  <2>1. keyboard' = kb
    BY DEF kb
  <2> QED
    BY <1>2, <2>1, SilentGives
<1>4. CurrentIsHeld(keyboard', user') /\ PreventsPress(keyboard', user')
  BY <1>2, <1>3 DEF KeyIInv, KeyKept, CurrentIsHeld, PreventsPress, KeyHandled
<1>5. HappenedBefore(keyboard', user', fired'.times)
  <2>1. ASSUME NEW d \in Once
        PROVE  /\ fired'.times[d] <= 1 /\ user'.held[d.key] = user.held[d.key]
               /\ fired'.times[d] > 0 /\ user.held[d.key] > 0 => fired.times[d] > 0
    BY <1>3, TimesGives DEF KeyHandled
  <2> QED
    BY <1>2, <1>3, <2>1 DEF HappenedBefore, KeyIInv, KeyKept, KeyHandled
<1>6. KeyKept(keyboard', user', fired')
  <2>1. KeysTyped(keyboard', user', fired')
    BY <1>3 DEF KeyHandled, KeysTyped, KeyIInv, KeyKept
  <2>2. Guarded(keyboard', fired')
    BY <1>3 DEF KeyHandled
  <2> QED
    BY <1>4, <1>5, <2>1, <2>2 DEF KeyKept
<1>7. KeyIInv'
  BY <1>6, KeyRebuilt
<1> QED
  BY <1>3, <1>7 DEF KeyStepKept

\* Rounding keeps times that are a window apart, apart.
LEMMA RoundedApart ==
    ASSUME NEW s \in Nat, NEW t \in Nat, t >= s + Window
    PROVE  Rounded(s) \in Nat /\ Rounded(t) > Rounded(s)
BY DEF Rounded, Window

LEMMA LongpressStep ==
    ASSUME KeyIInv, OneKeyInTime, NEW k \in Keys, NEW dt \in Intervals, Longpress(k, dt)
    PROVE  KeyIInv' /\ KeyStepKept
<1> DEFINE timeDelta == Rounded(keyboard.pressed + dt - 1)
           found == {d \in LongpressDescriptor(k, timeDelta) : Applies(d, timeDelta)}
           ignored == \/ keyboard.currentKeyCode # k
                      \/ keyboard.preventSubsequent
                      \/ AppListens("longpress", k)
                      \/ found = {}
           d == CHOOSE x \in found : TRUE
           prevents == ~ignored /\ d.preventSubsequent
           kb == [keyboard EXCEPT !.pressed = keyboard.pressed + dt,
                                  !.guard = CountDown(@, dt)]
           w == CountDown(fired.wait, dt)
<1>1. /\ user.held[k] > 0 /\ user.held[k] + dt <= MaxHeld + 1
      /\ keyboard' = [[keyboard EXCEPT !.pressed = IF keyboard.currentKeyCode = k
                                                   THEN @ + dt ELSE @,
                                       !.guard = CountDown(@, dt)]
                         EXCEPT !.preventSubsequent = @ \/ prevents]
      /\ IF ignored THEN Silent(k, dt) ELSE ExecuteDescriptor(d, k, dt)
      /\ user' = [user EXCEPT !.held[k] = @ + dt,
                              !.prevents = IF prevents THEN @ \cup {k} ELSE @]
      /\ interests' = interests
  BY DEF Longpress
<1>2. /\ keyboard \in KeyboardRec /\ user \in UserRec /\ fired \in FiredRec
      /\ dt \in Nat /\ dt >= Window /\ MaxHeld \in Nat
      /\ fired.wait = keyboard.guard /\ keyboard.guard \in [Descriptors -> Nat]
      /\ \A x \in Descriptors : x.debounce = 0 => keyboard.guard[x] = 0
  BY KeyboardAssumption DEF KeyIInv, KeyKept, KeysTyped, OneKeyInTime, Guarded, KeyboardRec
<1>3. keyboard.currentKeyCode = k /\ keyboard.pressed = user.held[k]
  BY <1>1 DEF KeyIInv, KeyKept, CurrentIsHeld
<1>4. keyboard.pressed + dt \in 0 .. MaxHeld + 1 /\ keyboard.pressed \in Nat /\ keyboard.pressed > 0
  BY <1>1, <1>2, <1>3 DEF UserRec
<1>5. w \in [Descriptors -> Nat] /\ w = CountDown(keyboard.guard, dt)
      /\ \A x \in Descriptors : x.debounce = 0 => w[x] = 0
  BY <1>2, CountedDown
<1>6. ASSUME ~ignored
      PROVE  /\ d \in Descriptors /\ d.key = k /\ d.event = "longpress" /\ d.debounce = 0
             /\ d.timeDelta \in Nat /\ d.repeat \in BOOLEAN /\ d.preventSubsequent \in BOOLEAN
             /\ ~d.repeat => d.timeDelta = timeDelta
  <2>1. d \in found
    BY <1>6
  <2>2. d \in LongpressDescriptor(k, timeDelta) /\ Applies(d, timeDelta)
    BY <2>1
  <2> HIDE DEF d, found, timeDelta
  <2>3. d \in Descriptors /\ d.key = k /\ d.event = "longpress"
    BY <2>2 DEF LongpressDescriptor, DescriptorsAt
  <2>4. d.debounce = 0 /\ d.timeDelta \in Nat /\ d.repeat \in BOOLEAN
        /\ d.preventSubsequent \in BOOLEAN
    BY <2>3, KeyboardAssumption
  <2>5. timeDelta \in Nat
    BY <1>2, <1>4 DEF timeDelta, Rounded, Window
  <2>6. ~d.repeat => d.timeDelta = timeDelta
    BY <2>2, <2>4, <2>5 DEF Applies
  <2> QED
    BY <2>3, <2>4, <2>6
<1>7. timeDelta \in Nat /\ Rounded(keyboard.pressed - 1) \in Nat
      /\ timeDelta > Rounded(keyboard.pressed - 1)
  <2>1. /\ keyboard.pressed - 1 \in Nat /\ keyboard.pressed + dt - 1 \in Nat
        /\ keyboard.pressed + dt - 1 >= (keyboard.pressed - 1) + Window
    BY <1>2, <1>4 DEF Window
  <2>2. Rounded(keyboard.pressed + dt - 1) \in Nat
    BY <2>1 DEF Rounded, Window
  <2> QED
    BY <2>1, <2>2, RoundedApart
<1>8. /\ prevents \in BOOLEAN
      /\ prevents => ~ignored
      /\ ~ignored => ~keyboard.preventSubsequent
  OBVIOUS
<1> HIDE DEF w, d, found, ignored, prevents, timeDelta
<1>9. /\ keyboard' \in KeyboardRec /\ keyboard'.currentKeyCode = k
      /\ keyboard'.pressed = keyboard.pressed + dt /\ keyboard'.guard = w
      /\ keyboard'.preventSubsequent <=> (keyboard.preventSubsequent \/ prevents)
  BY <1>1, <1>2, <1>3, <1>4, <1>5, <1>8 DEF KeyboardRec
<1>10. user.held[k] + dt \in 0 .. MaxHeld + 1
  BY <1>3, <1>4
<1>11. /\ user' \in UserRec /\ user'.held = [user.held EXCEPT ![k] = user.held[k] + dt]
       /\ user'.prevents = IF prevents THEN user.prevents \cup {k} ELSE user.prevents
  BY <1>1, <1>2, <1>10 DEF UserRec
<1>12. \A x \in Keys : x # k => user'.held[x] = 0 /\ user.held[x] = 0
  <2>1. \A x \in Keys : x # k => ~(user.held[x] > 0) /\ user.held[x] \in Nat
    BY <1>2, <1>3 DEF KeyIInv, KeyKept, CurrentIsHeld, UserRec
  <2> QED
    BY <1>2, <1>11, <2>1 DEF UserRec
<1>13. user'.held[k] = user.held[k] + dt /\ user'.held[k] > 0
  BY <1>2, <1>3, <1>4, <1>11 DEF UserRec
<1>14. CurrentIsHeld(keyboard', user')
  BY <1>3, <1>9, <1>12, <1>13 DEF CurrentIsHeld
<1>15. PreventsPress(keyboard', user')
  <2>1. keyboard.preventSubsequent => k \in user.prevents
    BY <1>3 DEF KeyIInv, KeyKept, PreventsPress
  <2>2. k \in user.prevents => keyboard.preventSubsequent
    BY <1>1 DEF KeyIInv, KeyKept, PreventsPress
  <2>3. \A x \in user'.prevents : x \in Keys
    BY <1>11 DEF UserRec
  <2> QED
    BY <1>9, <1>11, <1>12, <1>13, <2>1, <2>2, <2>3 DEF PreventsPress
<1>16. ASSUME NEW x \in Once
       PROVE  /\ x.key \in Keys /\ Times[x] \in 0 .. 1 /\ x.timeDelta \in Nat
              /\ Times[x] > 0 => x.key = k /\ x.timeDelta <= Rounded(keyboard.pressed - 1)
  <2>1. x.timeDelta \in Nat /\ x.key \in Keys /\ Times[x] \in 0 .. 1
    BY TimesGives, KeyboardAssumption DEF Once
  <2>2. ASSUME Times[x] > 0
        PROVE  x.key = k /\ x.timeDelta <= Rounded(keyboard.pressed - 1)
    <3>1. user.held[x.key] # 0 /\ fired.times[x] > 0
      BY <2>2, TimesGives
    <3>2. x.key = k
      BY <1>12, <2>1, <3>1
    <3> QED
      BY <1>1, <3>1, <3>2 DEF KeyIInv, KeyKept, HappenedBefore
  <2> QED
    BY <2>1, <2>2
<1>17. /\ fired' \in FiredRec /\ fired'.key = k /\ fired'.wait = w
       /\ ignored => fired'.last = {} /\ fired'.times = Times
       /\ ~ignored => /\ fired'.last = {d}
                      /\ \A x \in Once : fired'.times[x] = IF x = d THEN Times[x] + 1 ELSE Times[x]
  <2>1. CASE ignored
    <3>1. fired' = [last |-> {}, key |-> k, times |-> Times, wait |-> w]
      BY <1>1, <2>1 DEF Silent, w
    <3> QED
      BY <1>5, <2>1, <3>1, TimesGives DEF FiredRec
  <2>2. CASE ~ignored
    <3> DEFINE times == [x \in Once |-> IF x = d /\ Times[x] < 2 THEN Times[x] + 1 ELSE Times[x]]
    <3>1. \A x \in Once : Times[x] \in 0 .. 1
      BY <1>16
    <3>2. /\ times \in [Once -> 0 .. 2]
          /\ \A x \in Once : times[x] = IF x = d THEN Times[x] + 1 ELSE Times[x]
      BY <3>1
    <3> HIDE DEF times
    <3>3. d \in Descriptors /\ d.debounce = 0
      BY <1>6, <2>2
    <3>4. [w EXCEPT ![d] = d.debounce] = w
      BY <1>5, <3>3
    <3>5. fired' = [last |-> {d}, key |-> k, wait |-> w, times |-> times]
      BY <1>1, <2>2, <3>4 DEF ExecuteDescriptor, w, times
    <3> QED
      BY <1>5, <2>2, <3>2, <3>3, <3>5 DEF FiredRec
  <2> QED
    BY <2>1, <2>2
<1>18. HappenedBefore(keyboard', user', fired'.times)
  <2>0. timeDelta = Rounded(keyboard'.pressed - 1)
    BY <1>2, <1>4, <1>9 DEF timeDelta, Rounded, Window
  <2> SUFFICES ASSUME NEW x \in Once
               PROVE  fired'.times[x] <= 1 /\ (fired'.times[x] > 0 => x.timeDelta <= timeDelta)
    BY <2>0 DEF HappenedBefore
  <2>1. CASE ignored \/ x # d
    <3>1. fired'.times[x] = Times[x]
      BY <1>17, <2>1
    <3> QED
      BY <1>7, <1>16, <3>1
  <2>2. CASE ~ignored /\ x = d
    <3>1. ~x.repeat /\ x.timeDelta = timeDelta
      BY <1>6, <2>2 DEF Once
    <3>2. Times[x] = 0
      BY <1>7, <1>16, <3>1
    <3>3. fired'.times[x] = 1
      BY <1>17, <2>2, <3>2
    <3> QED
      BY <1>7, <3>1, <3>3
  <2> QED
    BY <2>1, <2>2
<1>19. Guarded(keyboard', fired')
  BY <1>5, <1>9, <1>17 DEF Guarded
<1>20. KeyIInv'
  <2>1. KeyKept(keyboard', user', fired')
    BY <1>1, <1>9, <1>11, <1>14, <1>15, <1>17, <1>18, <1>19 DEF KeyKept, KeysTyped, KeyIInv
  <2>2. interests' \in [KeyApps -> SUBSET (Keys \X Interests)]
    BY <1>1 DEF KeyIInv, KeyKept, KeysTyped
  <2> QED
    BY <2>1, <2>2, KeyRebuilt
<1>21. \A x \in Descriptors : fired.wait[x] > 0 => x \notin fired'.last
  <2>1. CASE ignored
    BY <1>17, <2>1
  <2>2. CASE ~ignored
    BY <1>2, <1>6, <1>17, <2>2
  <2> QED
    BY <2>1, <2>2
<1>22. \A x \in user.prevents : user.held[x] > 0 /\ fired'.key = x => fired'.last = {}
  <2>1. \A x \in user.prevents : user.held[x] > 0 => keyboard.preventSubsequent
    BY DEF KeyIInv, KeyKept, PreventsPress
  <2> QED
    BY <1>8, <1>17, <2>1
<1> QED
  BY <1>20, <1>21, <1>22 DEF KeyStepKept

LEMMA KeySteps ==
    ASSUME KeyIInv, OneKeyInTime, KeyboardNext
    PROVE  KeyIInv' /\ KeyStepKept
<1>1. /\ keyboard \in KeyboardRec /\ user \in UserRec /\ keyboard.guard \in [Descriptors -> Nat]
      /\ interests \in [KeyApps -> SUBSET (Keys \X Interests)]
  BY DEF KeyIInv, KeyKept, KeysTyped, KeyboardRec
<1>2. [keyboard EXCEPT !.guard = CountDown(@, 0)] = keyboard
  <2>1. CountDown(keyboard.guard, 0) = keyboard.guard
    BY <1>1, CountedDown
  <2> QED
    BY <1>1, <2>1 DEF KeyboardRec
<1>3. ASSUME NEW a \in KeyApps, NEW k \in Keys, NEW events \in {Interests, {"longpress"}},
             PreventDefaults(a, k, events) \/ RestoreDefaults(a, k, events)
      PROVE  KeyIInv' /\ KeyStepKept
  <2>1. {k} \X events \in SUBSET (Keys \X Interests)
    BY DEF Interests
  <2>2. interests' \in [KeyApps -> SUBSET (Keys \X Interests)] /\ user' = user
        /\ keyboard' = keyboard /\ Silent(NoKey, 0)
    BY <1>1, <1>3, <2>1 DEF PreventDefaults, RestoreDefaults
  <2> QED
    BY <1>1, <1>2, <2>2, QuietKeyStep
<1>4. ASSUME NEW a \in KeyApps, RestoreAll(a) PROVE KeyIInv' /\ KeyStepKept
  <2>1. interests' \in [KeyApps -> SUBSET (Keys \X Interests)] /\ user' = user
        /\ keyboard' = keyboard /\ Silent(NoKey, 0)
    BY <1>1, <1>4 DEF RestoreAll
  <2> QED
    BY <1>1, <1>2, <2>1, QuietKeyStep
<1>5. ASSUME NEW a \in KeyApps \cup {"none"}, FrontAppChanges(a) PROVE KeyIInv' /\ KeyStepKept
  <2>1. /\ user' \in UserRec /\ user'.held = user.held /\ user'.prevents = user.prevents
        /\ interests' = interests /\ keyboard' = keyboard /\ Silent(NoKey, 0)
    BY <1>1, <1>5 DEF FrontAppChanges, UserRec
  <2> QED
    BY <1>1, <1>2, <2>1, QuietKeyStep
<1>6. ASSUME Wait PROVE KeyIInv' /\ KeyStepKept
  <2>1. user' = user /\ interests' = interests /\ Silent(NoKey, 1)
        /\ keyboard' = [keyboard EXCEPT !.guard = CountDown(@, 1)]
    BY <1>6 DEF Wait
  <2> QED
    BY <1>1, <2>1, QuietKeyStep
<1> QED
  BY <1>3, <1>4, <1>5, <1>6, KeydownStep, KeyupStep, GestureStep, LongpressStep DEF KeyboardNext

LEMMA KeyStarts == KeyboardInit => KeyIInv
<1> SUFFICES ASSUME KeyboardInit PROVE KeyIInv
  OBVIOUS
<1>1. 0 \in 0 .. MaxHeld + 1 /\ MaxHeld \in Nat
  BY KeyboardAssumption
<1>2. /\ keyboard = [currentKeyCode |-> NoKey, pressed |-> 0, preventSubsequent |-> FALSE,
                     guard |-> [d \in Descriptors |-> 0]]
      /\ fired = [last |-> {}, key |-> NoKey, times |-> [d \in Once |-> 0],
                  wait |-> [d \in Descriptors |-> 0]]
      /\ interests = [a \in KeyApps |-> {}]
      /\ user.held = [k \in Keys |-> 0] /\ user.prevents = {}
  BY DEF KeyboardInit
<1>3. keyboard \in KeyboardRec /\ fired \in FiredRec
      /\ interests \in [KeyApps -> SUBSET (Keys \X Interests)]
  BY <1>1, <1>2 DEF KeyboardRec, FiredRec
<1>4. user \in UserRec
  <2>1. [k \in Keys |-> 0] \in [Keys -> 0 .. MaxHeld + 1]
    BY <1>1
  <2> QED
    BY <2>1 DEF KeyboardInit, UserRec
<1>5. \A k \in Keys : user.held[k] = 0
  BY <1>2
<1>6. \A d \in Once : fired.times[d] = 0 /\ d.key \in Keys
  BY <1>2, KeyboardAssumption DEF Once
<1> QED
  BY <1>2, <1>3, <1>4, <1>5, <1>6
     DEF KeyIInv, KeyKept, KeysTyped, CurrentIsHeld, PreventsPress, Guarded, HappenedBefore

\* One key at a time, whose long press is reported at times that rounding to the
\* window keeps apart: for any keys, descriptors, apps and interests, what a long
\* press prevents is the rest of its own press and nothing else, what is not to
\* repeat happens once in a press, and what is debounced not before its time
\* (keyboard.js: onKeydown, onKeyup, onLongpress, execute and debounce).
THEOREM KeysDoAsConfigured ==
    ASSUME OneKeyInTime
    PROVE  KeyboardSpec => KeyboardSafe
<1>1. KeyIInv /\ [KeyboardNext]_keyVars => KeyIInv'
  <2> SUFFICES ASSUME KeyIInv, [KeyboardNext]_keyVars PROVE KeyIInv'
    OBVIOUS
  <2>1. CASE UNCHANGED keyVars
    BY <2>1 DEF keyVars, KeyIInv, KeyKept, KeysTyped
  <2> QED
    BY <2>1, KeySteps
<1>2. KeyIInv /\ [KeyboardNext]_keyVars
         => [\A k \in user.prevents :
                user.held[k] > 0 /\ fired'.key = k => fired'.last = {}]_keyVars
  BY KeySteps DEF KeyStepKept
<1>3. KeyIInv /\ [KeyboardNext]_keyVars
         => [\A d \in Descriptors : fired.wait[d] > 0 => d \notin fired'.last]_keyVars
  BY KeySteps DEF KeyStepKept
<1>4. KeyIInv => KeyboardTypeOK /\ PreventsOwnPress /\ NonRepeatingOnce
  BY KeyIInvGives
<1> QED
  BY <1>1, <1>2, <1>3, <1>4, KeyStarts, PTL
     DEF KeyboardSpec, KeyboardSafe, NothingAfterPrevented, Debounces

-----------------------------------------------------------------------------
(***************************************************************************)
(* The client of cloud skills                                              *)
(***************************************************************************)

\* The records of the app and of the client, in their types.
ClientApps ==
    [isAppActive : BOOLEAN, manualPause : BOOLEAN, needResume : BOOLEAN, taskTimer : BOOLEAN,
     requests : 0 .. MaxRequests, answers : 0 .. MaxAnswers]

ClientStates ==
    [skill : Seq(SkillRecord), stack : Seq(Nat), frontend : Nat,
     chains : [ChainIds -> ChainRecord \cup {Unused}],
     handle : [SkillApps -> {0} \cup ChainIds], tick : Nat, app : ClientApps]

\* Whoever is named is a skill there is, and there are no more than requests.
NamesSkills(s) ==
    /\ Len(s.skill) <= s.app.requests
    /\ \A i \in 1 .. Len(s.stack) : s.stack[i] \in 1 .. Len(s.skill)
    /\ s.frontend \in 0 .. Len(s.skill)
    /\ s.tick \in 0 .. Len(s.skill)
    /\ \A c \in ChainIds : s.chains[c] # Unused => s.chains[c].skill \in 1 .. Len(s.skill)

\* k is the skill under another one.
IsUnder(s, k) == Len(s.stack) = 2 /\ s.stack[1] = k

\* Of two skills the lower one is a scene, paused, not to be started, and the
\* upper one a cut skill of another app.
StackInShape(s) ==
    /\ Len(s.stack) <= 2
    /\ Len(s.stack) = 2 =>
        /\ s.skill[s.stack[1]].form = "scene" /\ s.skill[s.stack[2]].form = "cut"
        /\ s.skill[s.stack[1]].app # s.skill[s.stack[2]].app
        /\ s.skill[s.stack[1]].paused
        /\ s.tick # s.stack[1]

\* A skill's chains are no more than its count of tasks.
ChainsOf(s, k) == {c \in ChainIds : s.chains[c] # Unused /\ s.chains[c].skill = k}
ChainsCounted(s) ==
    \A k \in 1 .. Len(s.skill) : Cardinality(ChainsOf(s, k)) <= s.skill[k].task

\* The inductive invariant, of a state of the client.
ClientSound(s) ==
    s \in ClientStates /\ NamesSkills(s) /\ StackInShape(s) /\ ChainsCounted(s)

\* Nothing but players, lists and the app's flags changes from s to t, and
\* skills may be paused.
Calmed(s, t) ==
    /\ t \in ClientStates
    /\ Len(t.skill) = Len(s.skill)
    /\ \A k \in 1 .. Len(s.skill) :
          /\ t.skill[k].app = s.skill[k].app /\ t.skill[k].form = s.skill[k].form
          /\ t.skill[k].task = s.skill[k].task
          /\ s.skill[k].paused => t.skill[k].paused
    /\ t.stack = s.stack /\ t.tick = s.tick /\ t.frontend \in {0, s.frontend}
    /\ t.app.requests = s.app.requests
    /\ \A c \in ChainIds :
          /\ t.chains[c] = Unused <=> s.chains[c] = Unused
          /\ s.chains[c] # Unused => t.chains[c].skill = s.chains[c].skill

\* t is as sound as s was, has its skills, and no chain is free that was not.
Succeeds(s, t) ==
    /\ ClientSound(t)
    /\ Len(t.skill) = Len(s.skill)
    /\ \A c \in ChainIds : s.chains[c] # Unused => t.chains[c] # Unused

\* and its stack and what is started next.
SucceedsInPlace(s, t) == Succeeds(s, t) /\ t.stack = s.stack /\ t.tick = s.tick

\* What the length of a stack may be, without sequences for the provers.
LEMMA LengthFacts ==
    /\ 1 <= 2 /\ 1 # 2 /\ 2 <= 2
    /\ \A n \in Nat : (n <= 1 => n # 2) /\ (n <= 2 => n \in 0 .. 2)
  OBVIOUS

LEMMA ChainTyped ==
    /\ Unused \notin ChainRecord
    /\ \A r \in ChainRecord \cup {Unused} : r # Unused => r \in ChainRecord
    /\ \A r \in ChainRecord \cup {Unused} : r.stage \in Steps \cup {"opening", "asked"} => r # Unused
  BY DEF ChainRecord, Unused, Steps

LEMMA ChainsFinite ==
    ASSUME NEW s, NEW k PROVE IsFiniteSet(ChainsOf(s, k)) /\ Cardinality(ChainsOf(s, k)) \in Nat
<1>1. IsFiniteSet(ChainIds)
  <2>1. MaxChains \in Nat
    BY ClientAssumption
  <2>2. ChainIds \in SUBSET Nat /\ \A c \in ChainIds : c <= MaxChains
    BY <2>1 DEF ChainIds
  <2> QED
    BY <2>1, <2>2, FS_BoundedSetOfNaturals
<1>2. ChainsOf(s, k) \subseteq ChainIds
  BY DEF ChainsOf
<1> QED
  BY <1>1, <1>2, FS_Subset, FS_CardinalityType

LEMMA SkillTyped ==
    ASSUME NEW s, s \in ClientStates, NEW k \in 1 .. Len(s.skill)
    PROVE  s.skill \in Seq(SkillRecord) /\ s.skill[k] \in SkillRecord /\ s.skill[k].task \in Nat
<1>1. s.skill \in Seq(SkillRecord) /\ s.skill[k] \in SkillRecord
  BY DEF ClientStates
<1> QED
  BY <1>1 DEF SkillRecord

LEMMA CalmedSound ==
    ASSUME NEW s, NEW t, ClientSound(s), Calmed(s, t)
    PROVE  ClientSound(t) /\ SucceedsInPlace(s, t)
<1> USE DEF Calmed
<1>1. s \in ClientStates /\ NamesSkills(s) /\ StackInShape(s) /\ ChainsCounted(s)
  BY DEF ClientSound
<1>2. Len(s.skill) \in Nat
  BY <1>1 DEF ClientStates
<1>3. NamesSkills(t)
  BY <1>2, <1>1 DEF NamesSkills
<1>4. StackInShape(t)
  <2>1. Len(s.stack) = 2 => s.stack[1] \in 1 .. Len(s.skill) /\ s.stack[2] \in 1 .. Len(s.skill)
    BY <1>1 DEF NamesSkills
  <2> QED
    BY <1>1, <2>1 DEF StackInShape
<1>5. ChainsCounted(t)
  <2> SUFFICES ASSUME NEW k \in 1 .. Len(t.skill) PROVE Cardinality(ChainsOf(t, k)) <= t.skill[k].task
    BY DEF ChainsCounted
  <2>1. ChainsOf(t, k) = ChainsOf(s, k)
    BY DEF ChainsOf
  <2> QED
    BY <2>1, <1>1 DEF ChainsCounted
<1> QED
  BY <1>3, <1>4, <1>5 DEF ClientSound, SucceedsInPlace, Succeeds

LEMMA CalmedTwice ==
    ASSUME NEW s, NEW t, NEW u, Calmed(s, t), Calmed(t, u)
    PROVE  Calmed(s, u)
  BY DEF Calmed

LEMMA SucceedsTwice ==
    ASSUME NEW s, NEW t, NEW u, Succeeds(s, t), Succeeds(t, u)
    PROVE  Succeeds(s, u)
  BY DEF Succeeds

LEMMA HushedCalm == ASSUME NEW s, s \in ClientStates PROVE Calmed(s, Hushed(s))
<1> DEFINE f == [c \in ChainIds |-> IF s.chains[c].stage = "tts"
                                      THEN [s.chains[c] EXCEPT !.told = TRUE] ELSE s.chains[c]]
           t == [s EXCEPT !.chains = f]
<1>1. ASSUME NEW c \in ChainIds
      PROVE  /\ f[c] \in ChainRecord \cup {Unused}
             /\ f[c] = Unused <=> s.chains[c] = Unused
             /\ s.chains[c] # Unused => f[c].skill = s.chains[c].skill
  <2>1. s.chains[c] \in ChainRecord \cup {Unused}
    BY DEF ClientStates
  <2>2. CASE s.chains[c].stage = "tts"
    <3>1. s.chains[c] \in ChainRecord
      BY <2>1, <2>2 DEF Unused
    <3>2. f[c] = [s.chains[c] EXCEPT !.told = TRUE]
      BY <2>2
    <3>3. f[c] \in ChainRecord /\ f[c].skill = s.chains[c].skill
      BY <3>1, <3>2 DEF ChainRecord
    <3> QED
      BY <3>1, <3>3, ChainTyped
  <2>3. CASE s.chains[c].stage # "tts"
    BY <2>1, <2>3
  <2> QED
    BY <2>2, <2>3
<1>2. f \in [ChainIds -> ChainRecord \cup {Unused}]
  BY <1>1
<1>3. Hushed(s) = t
  BY DEF Hushed
<1> HIDE DEF f
<1>4. t \in ClientStates /\ t.chains = f
  BY <1>2 DEF ClientStates
<1>5. /\ t.skill = s.skill /\ t.stack = s.stack /\ t.tick = s.tick /\ t.frontend = s.frontend
      /\ t.app = s.app
  BY DEF ClientStates
<1> HIDE DEF t
<1> QED
  BY <1>1, <1>3, <1>4, <1>5 DEF Calmed

LEMMA ExecuteOwnCalm == ASSUME NEW s, s \in ClientStates PROVE Calmed(s, ExecuteOwn(s))
  BY DEF ExecuteOwn, ClientStates, Calmed

LEMMA StopPlayerCalm ==
    ASSUME NEW s, s \in ClientStates, NEW a \in SkillApps PROVE Calmed(s, StopPlayer(s, a))
<1> DEFINE p == s.handle[a]
           r == IF s.chains[p].stage = "media" THEN [s.chains[p] EXCEPT !.told = TRUE] ELSE s.chains[p]
           t == [s EXCEPT !.handle[a] = 0, !.chains[p] = r]
<1>1. CASE p = 0
  BY <1>1 DEF StopPlayer, Calmed
<1>2. CASE p # 0
  <2>1. p \in ChainIds /\ s.chains[p] \in ChainRecord \cup {Unused}
    BY <1>2 DEF ClientStates
  <2>2. /\ r \in ChainRecord \cup {Unused} /\ (r = Unused <=> s.chains[p] = Unused)
        /\ s.chains[p] # Unused => r.skill = s.chains[p].skill
    BY <2>1, ChainTyped DEF ChainRecord, Unused, Steps
  <2>3. StopPlayer(s, a) = t
    BY <1>2 DEF StopPlayer, ClientStates
  <2> HIDE DEF r, p
  <2>4. t \in ClientStates
    BY <2>1, <2>2 DEF ClientStates
  <2>5. \A c \in ChainIds : t.chains[c] = IF c = p THEN r ELSE s.chains[c]
    BY DEF ClientStates
  <2>6. /\ t.skill = s.skill /\ t.stack = s.stack /\ t.tick = s.tick /\ t.frontend = s.frontend
        /\ t.app = s.app
    BY DEF ClientStates
  <2> HIDE DEF t
  <2> QED
    BY <2>1, <2>2, <2>3, <2>4, <2>5, <2>6 DEF Calmed
<1> QED
  BY <1>1, <1>2

\* The app's flags, and its counts but that of requests.
LEMMA AppCalm ==
    ASSUME NEW s, s \in ClientStates, NEW r \in ClientApps, r.requests = s.app.requests
    PROVE  Calmed(s, [s EXCEPT !.app = r])
  BY DEF ClientStates, Calmed

LEMMA AppSound ==
    ASSUME NEW s, ClientSound(s), NEW r \in ClientApps, r.requests = s.app.requests
    PROVE  SucceedsInPlace(s, [s EXCEPT !.app = r])
<1>1. s \in ClientStates
  BY DEF ClientSound
<1> QED
  BY <1>1, AppCalm, CalmedSound

LEMMA DestroyCalm ==
    ASSUME NEW s, s \in ClientStates, NEW k \in 1 .. Len(s.skill)
    PROVE  Calmed(s, Destroy(s, k))
<1> DEFINE t == ExecuteOwn(Hushed(s))
<1>1. Calmed(s, Hushed(s)) /\ Hushed(s) \in ClientStates
  BY HushedCalm DEF Calmed
<1>2. Calmed(Hushed(s), t)
  BY <1>1, ExecuteOwnCalm
<1>3. Calmed(s, t) /\ t \in ClientStates
  BY <1>1, <1>2, CalmedTwice DEF Calmed
<1> HIDE DEF t
<1>4. s.skill[k].app \in SkillApps
  BY SkillTyped DEF SkillRecord
<1>5. Calmed(t, StopPlayer(t, s.skill[k].app))
  BY <1>3, <1>4, StopPlayerCalm
<1>6. Calmed(s, StopPlayer(t, s.skill[k].app))
  BY <1>3, <1>5, CalmedTwice
<1> QED
  BY <1>3, <1>6 DEF Destroy, t

LEMMA PausedCalm ==
    ASSUME NEW s, s \in ClientStates, NEW k \in 1 .. Len(s.skill)
    PROVE  /\ Calmed(s, [s EXCEPT !.skill[k].paused = TRUE])
           /\ [s EXCEPT !.skill[k].paused = TRUE].skill[k].paused
<1> DEFINE r == [s.skill[k] EXCEPT !.paused = TRUE]
           q == [s.skill EXCEPT ![k] = r]
           t == [s EXCEPT !.skill = q]
<1>1. s.skill[k] \in SkillRecord /\ s.skill \in Seq(SkillRecord)
  BY SkillTyped
<1>2. /\ r \in SkillRecord /\ r.app = s.skill[k].app /\ r.form = s.skill[k].form
      /\ r.task = s.skill[k].task /\ r.paused
  BY <1>1 DEF SkillRecord
<1> HIDE DEF r
<1>3. /\ q \in Seq(SkillRecord) /\ Len(q) = Len(s.skill)
      /\ \A j \in 1 .. Len(s.skill) : q[j] = IF j = k THEN r ELSE s.skill[j]
  BY <1>1, <1>2
<1> HIDE DEF q
<1>4. t \in ClientStates /\ t.skill = q
  BY <1>3 DEF ClientStates
<1>5. /\ t.chains = s.chains /\ t.stack = s.stack /\ t.tick = s.tick /\ t.frontend = s.frontend
      /\ t.app = s.app
  BY DEF ClientStates
<1>6. t = [s EXCEPT !.skill[k].paused = TRUE]
  BY <1>1 DEF q, r, ClientStates
<1> HIDE DEF t
<1>7. Calmed(s, t)
  BY <1>2, <1>3, <1>4, <1>5 DEF Calmed
<1> QED
  BY <1>2, <1>3, <1>4, <1>6, <1>7

LEMMA PauseSkillCalm ==
    ASSUME NEW s, s \in ClientStates, NEW k \in 1 .. Len(s.skill), NEW isAppPause \in BOOLEAN
    PROVE  Calmed(s, PauseSkill(s, k, isAppPause)) /\ PauseSkill(s, k, isAppPause).skill[k].paused
<1> DEFINE t == [s EXCEPT !.skill[k].paused = TRUE]
<1>1. Calmed(s, t) /\ t \in ClientStates /\ t.skill[k].paused /\ k \in 1 .. Len(t.skill)
  BY PausedCalm DEF Calmed
<1>2. \A u : Calmed(t, u) => Calmed(s, u) /\ u.skill[k].paused
  BY <1>1, CalmedTwice DEF Calmed
<1>3. Calmed(t, Hushed(t)) /\ Hushed(t) \in ClientStates
  BY <1>1, HushedCalm DEF Calmed
<1>4. Calmed(t, ExecuteOwn(Hushed(t)))
  BY <1>3, ExecuteOwnCalm, CalmedTwice
<1>5. Calmed(t, ExecuteOwn(t))
  BY <1>1, ExecuteOwnCalm
<1>6. PauseSkill(s, k, isAppPause) \in {t, ExecuteOwn(t), ExecuteOwn(Hushed(t))}
  BY DEF PauseSkill
<1> HIDE DEF t
<1> QED
  BY <1>1, <1>2, <1>4, <1>5, <1>6

LEMMA PopSkillSound ==
    ASSUME NEW s, ClientSound(s)
    PROVE  /\ Succeeds(s, PopSkill(s)) /\ Len(PopSkill(s).stack) <= 1
           /\ PopSkill(s).skill = s.skill /\ PopSkill(s).tick = s.tick
           /\ PopSkill(s).app = s.app
           /\ \A i \in 1 .. Len(PopSkill(s).stack) :
                 i < Len(s.stack) /\ PopSkill(s).stack[i] = s.stack[i]
<1> DEFINE t == PopSkill(s)
           q == IF s.stack = <<>> THEN s.stack ELSE SubSeq(s.stack, 1, Len(s.stack) - 1)
<1>1. s \in ClientStates /\ NamesSkills(s) /\ StackInShape(s) /\ ChainsCounted(s)
  BY DEF ClientSound
<1>2. s.stack \in Seq(Nat) /\ Len(s.stack) <= 2 /\ Len(s.stack) \in Nat
  BY <1>1 DEF ClientStates, StackInShape
<1>3. /\ q \in Seq(Nat) /\ Len(q) <= 1
      /\ \A i \in 1 .. Len(q) : i < Len(s.stack) /\ q[i] = s.stack[i]
  BY <1>2
<1>4. t = [s EXCEPT !.stack = q]
  BY DEF PopSkill
<1> HIDE DEF q
<1>5. t \in ClientStates /\ t.stack = q
  BY <1>1, <1>3, <1>4 DEF ClientStates
<1>6. /\ t.chains = s.chains /\ t.skill = s.skill /\ t.tick = s.tick /\ t.frontend = s.frontend
      /\ t.app = s.app
  BY <1>1, <1>4 DEF ClientStates
<1> HIDE DEF t
<1>7. NamesSkills(t)
  <2>1. \A i \in 1 .. Len(q) : i \in 1 .. Len(s.stack)
    BY <1>2, <1>3
  <2> QED
    BY <1>1, <1>3, <1>5, <1>6, <2>1 DEF NamesSkills
<1>8. StackInShape(t)
  BY <1>3, <1>5 DEF StackInShape
<1>9. ChainsCounted(t)
  <2>1. \A k : ChainsOf(t, k) = ChainsOf(s, k)
    BY <1>6 DEF ChainsOf
  <2> QED
    BY <1>1, <1>6, <2>1 DEF ChainsCounted
<1>10. Succeeds(s, t)
  BY <1>5, <1>6, <1>7, <1>8, <1>9 DEF Succeeds, ClientSound
<1> QED
  BY <1>3, <1>5, <1>6, <1>10 DEF t

\* The step of a chain that is in use.
LEMMA PerformCalm ==
    ASSUME NEW s, s \in ClientStates, NEW c, c \in ChainIds => s.chains[c] # Unused,
           NEW step \in Steps
    PROVE  Calmed(s, Perform(s, c, step))
<1> DEFINE At(t, r) == [t EXCEPT !.chains = [@ EXCEPT ![c] = r]]
<1>1. ASSUME NEW t, t \in ClientStates, Calmed(s, t),
             NEW r, c \in ChainIds => r \in ChainRecord /\ r.skill = t.chains[c].skill
      PROVE  Calmed(s, At(t, r))
  <2> DEFINE f == [t.chains EXCEPT ![c] = r]
             u == [t EXCEPT !.chains = f]
  <2>1. t.chains \in [ChainIds -> ChainRecord \cup {Unused}]
    BY <1>1 DEF ClientStates
  <2>2. /\ f \in [ChainIds -> ChainRecord \cup {Unused}]
        /\ \A d \in ChainIds : f[d] = IF d = c THEN r ELSE t.chains[d]
    BY <1>1, <2>1
  <2>3. At(t, r) = u
    OBVIOUS
  <2> HIDE DEF f
  <2>4. u \in ClientStates /\ u.chains = f
    BY <1>1, <2>2 DEF ClientStates
  <2>5. /\ u.skill = t.skill /\ u.stack = t.stack /\ u.tick = t.tick /\ u.frontend = t.frontend
        /\ u.app = t.app
    BY <1>1 DEF ClientStates
  <2> HIDE DEF u, At
  <2>6. \A d \in ChainIds :
           /\ u.chains[d] = Unused <=> s.chains[d] = Unused
           /\ s.chains[d] # Unused => u.chains[d].skill = s.chains[d].skill
    BY <1>1, <2>2, <2>4, ChainTyped DEF Calmed
  <2> QED
    BY <1>1, <2>3, <2>4, <2>5, <2>6 DEF Calmed
<1>2. ASSUME NEW t, t \in ClientStates, Calmed(s, t), c \in ChainIds
      PROVE  t.chains[c] \in ChainRecord
  BY <1>2, ChainTyped DEF Calmed, ClientStates
<1>3. Calmed(s, s) /\ Calmed(s, Hushed(s)) /\ Hushed(s) \in ClientStates
  BY HushedCalm DEF Calmed
<1>4. CASE step = "tts"
  <2> DEFINE t == Hushed(s)
             r == [t.chains[c] EXCEPT !.stage = "tts", !.told = FALSE]
  <2>1. c \in ChainIds => r \in ChainRecord /\ r.skill = t.chains[c].skill
    BY <1>2, <1>3 DEF ChainRecord
  <2>2. Perform(s, c, step) = At(t, r)
    BY <1>3, <1>4 DEF Perform, ClientStates
  <2> HIDE DEF t, r, At
  <2> QED
    BY <1>1, <1>3, <2>1, <2>2 DEF t
<1>5. CASE step = "media"
  <2> DEFINE r == [s.chains[c] EXCEPT !.stage = "opening", !.told = FALSE]
  <2>1. c \in ChainIds => r \in ChainRecord /\ r.skill = s.chains[c].skill
    BY <1>2, <1>3 DEF ChainRecord
  <2>2. Perform(s, c, step) = At(s, r)
    BY <1>5 DEF Perform, ClientStates
  <2> HIDE DEF r, At
  <2> QED
    BY <1>1, <1>3, <2>1, <2>2
<1>6. CASE step = "native"
  <2> DEFINE r == [s.chains[c] EXCEPT !.stage = "native"]
  <2>1. c \in ChainIds => r \in ChainRecord /\ r.skill = s.chains[c].skill
    BY <1>2, <1>3 DEF ChainRecord
  <2>2. Perform(s, c, step) = At(s, r)
    BY <1>6 DEF Perform, ClientStates
  <2> HIDE DEF r, At
  <2> QED
    BY <1>1, <1>3, <2>1, <2>2
<1> QED
  BY <1>4, <1>5, <1>6 DEF Steps

\* A skill's record may change as long as it stays the same skill, has no
\* fewer tasks, and stays paused if it is under another one.
LEMMA SkillPut ==
    ASSUME NEW s, ClientSound(s), NEW k \in 1 .. Len(s.skill), NEW r \in SkillRecord,
           r.app = s.skill[k].app, r.form = s.skill[k].form, r.task >= s.skill[k].task,
           r.paused \/ ~IsUnder(s, k)
    PROVE  SucceedsInPlace(s, PutSkill(s, k, r)) /\ PutSkill(s, k, r).skill[k] = r
<1> DEFINE q == [s.skill EXCEPT ![k] = r]
           t == [s EXCEPT !.skill = q]
<1>1. s \in ClientStates /\ NamesSkills(s) /\ StackInShape(s) /\ ChainsCounted(s)
  BY DEF ClientSound
<1>2. s.skill \in Seq(SkillRecord)
  BY <1>1, SkillTyped
<1>3. /\ q \in Seq(SkillRecord) /\ Len(q) = Len(s.skill)
      /\ \A j \in 1 .. Len(s.skill) : q[j] = IF j = k THEN r ELSE s.skill[j]
  BY <1>2
<1> HIDE DEF q
<1>4. t \in ClientStates /\ t.skill = q
  BY <1>1, <1>3 DEF ClientStates
<1>5. /\ t.chains = s.chains /\ t.stack = s.stack /\ t.tick = s.tick /\ t.frontend = s.frontend
      /\ t.app = s.app
  BY <1>1 DEF ClientStates
<1>6. PutSkill(s, k, r) = t
  BY <1>1 DEF PutSkill, q, ClientStates
<1> HIDE DEF t
<1>7. NamesSkills(t)
  BY <1>1, <1>3, <1>4, <1>5 DEF NamesSkills
<1>8. StackInShape(t)
  <2>1. Len(s.stack) = 2 => s.stack[1] \in 1 .. Len(s.skill) /\ s.stack[2] \in 1 .. Len(s.skill)
    BY <1>1 DEF NamesSkills
  <2> QED
    BY <1>1, <1>3, <1>4, <1>5, <2>1 DEF StackInShape, IsUnder
<1>9. ChainsCounted(t)
  <2> SUFFICES ASSUME NEW j \in 1 .. Len(t.skill) PROVE Cardinality(ChainsOf(t, j)) <= t.skill[j].task
    BY DEF ChainsCounted
  <2>1. ChainsOf(t, j) = ChainsOf(s, j) /\ j \in 1 .. Len(s.skill)
    BY <1>3, <1>4, <1>5 DEF ChainsOf
  <2>2. Cardinality(ChainsOf(s, j)) <= s.skill[j].task /\ s.skill[j].task \in Nat
    BY <1>1, <2>1, SkillTyped DEF ChainsCounted
  <2>3. t.skill[j].task >= s.skill[j].task /\ t.skill[j].task \in Nat
    <3>1. r.task \in Nat
      BY DEF SkillRecord
    <3> QED
      BY <1>3, <1>4, <2>1, <2>2, <3>1
  <2>4. Cardinality(ChainsOf(s, j)) \in Nat
    BY ChainsFinite
  <2> QED
    BY <2>1, <2>2, <2>3, <2>4
<1>10. SucceedsInPlace(s, t)
  BY <1>3, <1>4, <1>5, <1>7, <1>8, <1>9 DEF SucceedsInPlace, Succeeds, ClientSound
<1> QED
  BY <1>3, <1>4, <1>6, <1>10

LEMMA ListTyped ==
    ASSUME NEW list \in Seq(Steps)
    PROVE  /\ Ahead(list) \in Steps \cup {"exit"} /\ Remain(list) \in Seq(Steps)
           /\ list # <<>> => Head(list) \in Steps /\ Tail(list) \in Seq(Steps)
           /\ HasMedia(list) \in BOOLEAN
<1>1. CASE list = <<>>
  BY <1>1 DEF Ahead, Remain, HasMedia
<1>2. CASE list # <<>>
  BY <1>2 DEF Ahead, Remain, HasMedia
<1> QED
  BY <1>1, <1>2

\* Executing a skill's list takes a chain and counts a task.
LEMMA ExecuteSound ==
    ASSUME NEW s, ClientSound(s), NEW k \in 1 .. Len(s.skill), NEW restarted \in BOOLEAN
    PROVE  SucceedsInPlace(s, ExecuteDirectives(s, k, restarted))
<1> DEFINE list == s.skill[k].directives
           c == CHOOSE d \in FreeChains(s) : \A e \in FreeChains(s) : d <= e
           chain == [skill |-> k, stage |-> "asked", next |-> Ahead(Tail(list)), told |-> FALSE,
                     canceled |-> FALSE, restarted |-> restarted, mayResume |-> ~HasMedia(list)]
           more == [s.skill[k] EXCEPT !.task = @ + 1]
           t == [PutSkill(s, k, more) EXCEPT !.frontend = k]
           r == [more EXCEPT !.directives = Remain(Tail(list))]
           u == [PutSkill(s, k, r) EXCEPT !.frontend = k]
           v == [u EXCEPT !.chains = [s.chains EXCEPT ![c] = chain]]
<1>1. s \in ClientStates /\ NamesSkills(s) /\ StackInShape(s) /\ ChainsCounted(s)
  BY DEF ClientSound
<1>2. s.skill[k] \in SkillRecord /\ list \in Seq(Steps) /\ s.skill[k].task \in Nat
  BY <1>1, SkillTyped DEF SkillRecord
<1>3. /\ more \in SkillRecord /\ more.task = s.skill[k].task + 1 /\ more.app = s.skill[k].app
      /\ more.form = s.skill[k].form /\ more.paused = s.skill[k].paused
  BY <1>2 DEF SkillRecord
<1>4. IsUnder(s, k) => s.skill[k].paused
  BY <1>1 DEF IsUnder, StackInShape
<1>5. list # <<>> => r \in SkillRecord /\ r.task = more.task /\ r.app = more.app
                     /\ r.form = more.form /\ r.paused = more.paused
  <2>1. list # <<>> => Remain(Tail(list)) \in Seq(Steps)
    BY <1>2, ListTyped
  <2> HIDE DEF more, list
  <2> QED
    BY <1>3, <2>1 DEF SkillRecord
<1>6. list # <<>> => chain \in ChainRecord
  <2>1. k \in SkillIds
    <3>1. s.app.requests \in 0 .. MaxRequests /\ MaxRequests \in Nat /\ Len(s.skill) \in Nat
      BY <1>1, ClientAssumption DEF ClientStates, ClientApps
    <3> QED
      BY <1>1, <3>1 DEF NamesSkills, SkillIds
  <2>2. list # <<>> => Ahead(Tail(list)) \in Steps \cup {"exit"} /\ HasMedia(list) \in BOOLEAN
    BY <1>2, ListTyped
  <2> HIDE DEF list
  <2> QED
    BY <2>1, <2>2 DEF ChainRecord
<1>7. \A w : SucceedsInPlace(s, w) => SucceedsInPlace(s, [w EXCEPT !.frontend = k])
  <2> SUFFICES ASSUME NEW w, SucceedsInPlace(s, w)
               PROVE  SucceedsInPlace(s, [w EXCEPT !.frontend = k])
    OBVIOUS
  <2> DEFINE x == [w EXCEPT !.frontend = k]
  <2>1. w \in ClientStates /\ NamesSkills(w) /\ StackInShape(w) /\ ChainsCounted(w)
        /\ Len(w.skill) = Len(s.skill) /\ k \in 0 .. Len(w.skill) /\ k \in Nat
    BY <1>1 DEF SucceedsInPlace, Succeeds, ClientSound, ClientStates
  <2>2. x \in ClientStates /\ x.frontend = k
    BY <2>1 DEF ClientStates
  <2>3. /\ x.skill = w.skill /\ x.chains = w.chains /\ x.stack = w.stack /\ x.tick = w.tick
        /\ x.app = w.app
    BY <2>1 DEF ClientStates
  <2> HIDE DEF x
  <2>4. NamesSkills(x) /\ StackInShape(x)
    BY <2>1, <2>2, <2>3 DEF NamesSkills, StackInShape
  <2>5. ChainsCounted(x)
    <3>1. \A j : ChainsOf(x, j) = ChainsOf(w, j)
      BY <2>3 DEF ChainsOf
    <3> QED
      BY <2>1, <2>3, <3>1 DEF ChainsCounted
  <2> QED
    BY <2>2, <2>3, <2>4, <2>5 DEF SucceedsInPlace, Succeeds, ClientSound, x
<1>8. CASE list = <<>>
  <2>1. ExecuteDirectives(s, k, restarted) = t
    BY <1>1, <1>8 DEF ExecuteDirectives, PutSkill, ClientStates
  <2> HIDE DEF more
  <2>2. SucceedsInPlace(s, PutSkill(s, k, more))
    BY <1>2, <1>3, <1>4, SkillPut
  <2> QED
    BY <1>7, <2>1, <2>2
<1>9. CASE list # <<>>
  <2>1. ExecuteDirectives(s, k, restarted) = Perform(v, c, Head(list))
    <3> DEFINE y == [s EXCEPT !.skill[k].task = @ + 1, !.frontend = k]
               z == [y EXCEPT !.skill[k].directives = Remain(Tail(list)), !.chains[c] = chain]
    <3>1. ExecuteDirectives(s, k, restarted) = Perform(z, c, Head(list))
      BY <1>9 DEF ExecuteDirectives
    <3>2. y = [s EXCEPT !.skill = [@ EXCEPT ![k] = more], !.frontend = k]
      BY <1>1 DEF ClientStates
    <3>3. [[s.skill EXCEPT ![k] = more] EXCEPT ![k] = r] = [s.skill EXCEPT ![k] = r]
      <4> HIDE DEF more, r
      <4> QED
        BY <1>1 DEF ClientStates
    <3>4. y.skill = [s.skill EXCEPT ![k] = more] /\ y.skill[k] = more /\ y.chains = s.chains
      <4> HIDE DEF more, y
      <4>1. y.skill = [s.skill EXCEPT ![k] = more] /\ y.chains = s.chains
        BY <1>1, <3>2 DEF ClientStates
      <4>2. s.skill \in Seq(SkillRecord)
        BY <1>1 DEF ClientStates
      <4> QED
        BY <4>1, <4>2
    <3>5. z = [y EXCEPT !.skill = [s.skill EXCEPT ![k] = r], !.chains = [s.chains EXCEPT ![c] = chain]]
      <4>1. z = [y EXCEPT !.skill = [y.skill EXCEPT ![k] = [y.skill[k] EXCEPT !.directives = Remain(Tail(list))]],
                          !.chains = [y.chains EXCEPT ![c] = chain]]
        OBVIOUS
      <4> HIDE DEF y, z, more, c, chain, list
      <4> QED
        BY <3>3, <3>4, <4>1 DEF r
    <3>6. z = v
      <4> HIDE DEF more, c, chain, list, z
      <4> QED
        BY <1>1, <3>2, <3>5 DEF PutSkill, ClientStates, y
    <3> QED
      BY <3>1, <3>6
  <2>2. SucceedsInPlace(s, PutSkill(s, k, r)) /\ PutSkill(s, k, r).skill[k] = r
    <3> HIDE DEF more, r
    <3> QED
      BY <1>2, <1>3, <1>4, <1>5, <1>9, SkillPut
  <2>3. SucceedsInPlace(s, u)
    BY <1>7, <2>2
  <2>4. u.chains = s.chains /\ u.skill = PutSkill(s, k, r).skill /\ u.app = s.app
        /\ \A j \in 1 .. Len(s.skill) : j # k => u.skill[j] = s.skill[j]
    BY <1>1, <2>2 DEF PutSkill, ClientStates
  <2>5. u.skill[k].task = s.skill[k].task + 1
    <3> HIDE DEF more, r
    <3> QED
      BY <1>3, <1>5, <1>9, <2>2, <2>4
  <2> HIDE DEF r, more, u, c, chain, list
  <2>6. u \in ClientStates /\ NamesSkills(u) /\ StackInShape(u) /\ Len(u.skill) = Len(s.skill)
    BY <2>3 DEF SucceedsInPlace, Succeeds, ClientSound
  <2>7. chain \in ChainRecord /\ chain # Unused /\ chain.skill = k
    BY <1>6, <1>9, ChainTyped DEF chain
  <2> DEFINE f == [s.chains EXCEPT ![c] = chain]
  <2>8. /\ f \in [ChainIds -> ChainRecord \cup {Unused}]
        /\ \A d \in ChainIds : f[d] = IF d = c THEN chain ELSE s.chains[d]
    BY <1>1, <2>7 DEF ClientStates
  <2> HIDE DEF f
  <2>9. v \in ClientStates /\ v.chains = f
    BY <2>6, <2>8 DEF ClientStates, f
  <2>10. /\ v.skill = u.skill /\ v.stack = u.stack /\ v.tick = u.tick /\ v.frontend = u.frontend
         /\ v.app = u.app
    BY <2>6 DEF ClientStates
  <2> HIDE DEF v
  <2>11. NamesSkills(v) /\ StackInShape(v)
    BY <1>1, <2>6, <2>7, <2>8, <2>9, <2>10 DEF NamesSkills, StackInShape
  <2>12. ChainsCounted(v)
    <3> SUFFICES ASSUME NEW j \in 1 .. Len(v.skill)
                 PROVE  Cardinality(ChainsOf(v, j)) <= v.skill[j].task
      BY DEF ChainsCounted
    <3>1. j \in 1 .. Len(s.skill)
      BY <2>6, <2>10
    <3>2. Cardinality(ChainsOf(s, j)) <= s.skill[j].task /\ s.skill[j].task \in Nat
      BY <1>1, <3>1, SkillTyped DEF ChainsCounted
    <3>3. /\ IsFiniteSet(ChainsOf(s, j)) /\ Cardinality(ChainsOf(s, j)) \in Nat
          /\ Cardinality(ChainsOf(v, j)) \in Nat
      BY ChainsFinite
    <3>4. CASE j = k
      <4>1. ChainsOf(v, j) \subseteq ChainsOf(s, j) \cup {c}
        BY <2>8, <2>9 DEF ChainsOf
      <4>2. /\ IsFiniteSet(ChainsOf(s, j) \cup {c})
            /\ Cardinality(ChainsOf(s, j) \cup {c}) \in Nat
            /\ Cardinality(ChainsOf(s, j) \cup {c}) <= Cardinality(ChainsOf(s, j)) + 1
        <5>1. /\ IsFiniteSet(ChainsOf(s, j) \cup {c})
              /\ \/ Cardinality(ChainsOf(s, j) \cup {c}) = Cardinality(ChainsOf(s, j))
                 \/ Cardinality(ChainsOf(s, j) \cup {c}) = Cardinality(ChainsOf(s, j)) + 1
          BY <3>3, FS_AddElement
        <5> QED
          BY <3>3, <5>1
      <4>3. Cardinality(ChainsOf(v, j)) <= Cardinality(ChainsOf(s, j) \cup {c})
        BY <4>1, <4>2, FS_Subset
      <4>4. v.skill[j].task = s.skill[j].task + 1
        BY <2>5, <2>10, <3>4
      <4> QED
        BY <3>2, <3>3, <4>2, <4>3, <4>4
    <3>5. CASE j # k
      <4>1. ChainsOf(v, j) \subseteq ChainsOf(s, j)
        BY <2>7, <2>8, <2>9, <3>5 DEF ChainsOf
      <4>2. Cardinality(ChainsOf(v, j)) <= Cardinality(ChainsOf(s, j))
        BY <3>3, <4>1, FS_Subset
      <4>3. v.skill[j] = s.skill[j]
        BY <2>4, <2>10, <3>1, <3>5
      <4> QED
        BY <3>2, <3>3, <4>2, <4>3
    <3> QED
      BY <3>4, <3>5
  <2>13. SucceedsInPlace(s, v)
    <3>1. \A d \in ChainIds : s.chains[d] # Unused => v.chains[d] # Unused
      BY <2>7, <2>8, <2>9
    <3>2. u.stack = s.stack /\ u.tick = s.tick
      BY <2>3 DEF SucceedsInPlace
    <3> QED
      BY <2>6, <2>9, <2>10, <2>11, <2>12, <3>1, <3>2 DEF SucceedsInPlace, Succeeds, ClientSound
  <2>14. Head(list) \in Steps /\ (c \in ChainIds => v.chains[c] # Unused)
    BY <1>2, <1>9, <2>7, <2>8, <2>9, ListTyped
  <2>15. Calmed(v, Perform(v, c, Head(list)))
    BY <2>9, <2>14, PerformCalm
  <2>16. SucceedsInPlace(v, Perform(v, c, Head(list)))
    BY <2>13, <2>15, CalmedSound DEF SucceedsInPlace, Succeeds
  <2> QED
    BY <2>1, <2>13, <2>16, SucceedsTwice DEF SucceedsInPlace
<1> QED
  BY <1>8, <1>9

LEMMA ResumeSkillSound ==
    ASSUME NEW s, ClientSound(s), NEW k \in 1 .. Len(s.skill), ~IsUnder(s, k)
    PROVE  SucceedsInPlace(s, ResumeSkill(s, k))
<1> DEFINE r == [s.skill[k] EXCEPT !.paused = FALSE]
           p == PutSkill(s, k, r)
           t == ExecuteOwn(p)
           no == TRUE
<1>1. s \in ClientStates /\ s.skill[k] \in SkillRecord /\ s.skill[k].task \in Nat
  BY SkillTyped DEF ClientSound
<1>2. /\ r \in SkillRecord /\ r.task = s.skill[k].task /\ r.app = s.skill[k].app
      /\ r.form = s.skill[k].form
  BY <1>1 DEF SkillRecord
<1>3. [s EXCEPT !.skill[k].paused = FALSE] = p
  BY <1>1 DEF PutSkill, ClientStates
<1>4. ResumeSkill(s, k) = IF t.skill[k].directives = <<>> THEN t ELSE ExecuteDirectives(t, k, no)
  BY <1>3 DEF ResumeSkill
<1>5. no \in BOOLEAN
  OBVIOUS
<1> HIDE DEF r, no
<1>6. SucceedsInPlace(s, p)
  BY <1>1, <1>2, SkillPut
<1> HIDE DEF p
<1>7. p \in ClientStates /\ ClientSound(p)
  BY <1>6 DEF SucceedsInPlace, Succeeds, ClientSound
<1>8. SucceedsInPlace(p, t)
  BY <1>7, ExecuteOwnCalm, CalmedSound
<1> HIDE DEF t
<1>9. SucceedsInPlace(s, t) /\ ClientSound(t) /\ k \in 1 .. Len(t.skill)
  BY <1>6, <1>8, SucceedsTwice DEF SucceedsInPlace, Succeeds
<1>10. SucceedsInPlace(t, ExecuteDirectives(t, k, no))
  BY <1>5, <1>9, ExecuteSound
<1>11. SucceedsInPlace(s, ExecuteDirectives(t, k, no))
  BY <1>9, <1>10, SucceedsTwice DEF SucceedsInPlace
<1> QED
  BY <1>4, <1>9, <1>11

\* The current skill is the last in the stack and not under another one.
LEMMA CurrentIs ==
    ASSUME NEW s, ClientSound(s)
    PROVE  /\ s.stack = <<>> <=> Len(s.stack) = 0
           /\ Len(s.stack) \in 0 .. 2
           /\ CurrentSkill(s) # 0 <=> s.stack # <<>>
           /\ s.stack # <<>> => /\ CurrentSkill(s) \in 1 .. Len(s.skill)
                                /\ CurrentSkill(s) = s.stack[Len(s.stack)]
                                /\ ~IsUnder(s, CurrentSkill(s))
<1>1. s \in ClientStates /\ NamesSkills(s) /\ StackInShape(s)
  BY DEF ClientSound
<1>2. s.stack \in Seq(Nat) /\ Len(s.stack) \in 0 .. 2 /\ Len(s.skill) \in Nat
  <2>1. s.stack \in Seq(Nat) /\ Len(s.stack) \in Nat /\ Len(s.skill) \in Nat
    BY <1>1 DEF ClientStates
  <2>2. Len(s.stack) <= 2
    BY <1>1 DEF StackInShape
  <2> QED
    BY <2>1, <2>2, LengthFacts
<1>3. s.stack = <<>> <=> Len(s.stack) = 0
  BY <1>2
<1>4. s.stack # <<>> => s.stack[Len(s.stack)] \in 1 .. Len(s.skill)
  BY <1>1, <1>2, <1>3 DEF NamesSkills
<1>5. s.stack # <<>> => CurrentSkill(s) = s.stack[Len(s.stack)]
  BY DEF CurrentSkill
<1>6. s.stack = <<>> => CurrentSkill(s) = 0
  BY DEF CurrentSkill
<1>7. s.stack # <<>> => ~IsUnder(s, s.stack[Len(s.stack)])
  BY <1>1, <1>2, <1>3 DEF IsUnder, StackInShape
<1> QED
  BY <1>2, <1>3, <1>4, <1>5, <1>6, <1>7

LEMMA ResumeCurrentSound ==
    ASSUME NEW s, ClientSound(s) PROVE SucceedsInPlace(s, ResumeCurrent(s))
<1>1. CASE CurrentSkill(s) = 0
  BY <1>1 DEF ResumeCurrent, SucceedsInPlace, Succeeds
<1>2. CASE CurrentSkill(s) # 0
  BY <1>2, CurrentIs, ResumeSkillSound DEF ResumeCurrent
<1> QED
  BY <1>1, <1>2

LEMMA EmptySound ==
    ASSUME NEW s, ClientSound(s) PROVE SucceedsInPlace(s, Empty(s))
<1> DEFINE r == [s.app EXCEPT !.taskTimer = TRUE]
<1>1. s \in ClientStates /\ s.app \in ClientApps
  BY DEF ClientSound, ClientStates
<1>2. Empty(s) = [s EXCEPT !.app = r]
  BY <1>1 DEF Empty, ClientStates
<1>3. r \in ClientApps /\ r.requests = s.app.requests
  BY <1>1 DEF ClientApps
<1> HIDE DEF r
<1> QED
  BY <1>2, <1>3, AppSound

LEMMA NextSkillSound ==
    ASSUME NEW s, ClientSound(s), NEW k \in 1 .. Len(s.skill)
    PROVE  Succeeds(s, NextSkill(s, k))
<1> DEFINE t == StopPlayer(s, s.skill[k].app)
           p == PopSkill(t)
           on == p.app.isAppActive /\ Len(t.stack) > 1
           r == [p.app EXCEPT !.isAppActive = on]
           u == [p EXCEPT !.app = r]
<1>1. s \in ClientStates /\ s.skill[k].app \in SkillApps
  BY SkillTyped DEF ClientSound, SkillRecord
<1>2. SucceedsInPlace(s, t)
  BY <1>1, StopPlayerCalm, CalmedSound
<1>3. [PopSkill(t) EXCEPT !.app.isAppActive = @ /\ Len(t.stack) > 1] = u
  OBVIOUS
<1>4. NextSkill(s, k) \in {t, Empty(u), ResumeCurrent(u)}
  BY <1>3 DEF NextSkill
<1> HIDE DEF t
<1>5. Succeeds(s, t) /\ ClientSound(t)
  BY <1>2 DEF SucceedsInPlace, Succeeds
<1>6. Succeeds(t, p) /\ ClientSound(p) /\ p \in ClientStates
  BY <1>5, PopSkillSound DEF Succeeds, ClientSound
<1> HIDE DEF p
<1>7. on \in BOOLEAN
  OBVIOUS
<1> HIDE DEF on
<1>8. r \in ClientApps /\ r.requests = p.app.requests
  BY <1>6, <1>7 DEF ClientStates, ClientApps
<1> HIDE DEF r
<1>9. Succeeds(p, u) /\ ClientSound(u)
  BY <1>6, <1>8, AppSound DEF SucceedsInPlace, Succeeds
<1> HIDE DEF u
<1>10. Succeeds(s, u)
  BY <1>5, <1>6, <1>9, SucceedsTwice
<1>11. Succeeds(u, Empty(u)) /\ Succeeds(u, ResumeCurrent(u))
  BY <1>9, EmptySound, ResumeCurrentSound DEF SucceedsInPlace
<1>12. Succeeds(s, Empty(u)) /\ Succeeds(s, ResumeCurrent(u))
  BY <1>10, <1>11, SucceedsTwice
<1> QED
  BY <1>4, <1>5, <1>12

\* A chain that has come to its end leaves its skill one task less.
LEMMA CompletedSound ==
    ASSUME NEW s, ClientSound(s), NEW c \in ChainIds, s.chains[c] # Unused
    PROVE  ClientSound(Completed(s, c))
<1> DEFINE k == s.chains[c].skill
           r == [s.skill[k] EXCEPT !.task = @ - 1]
           q == [s.skill EXCEPT ![k] = r]
           f == [s.chains EXCEPT ![c] = Unused]
           t == [s EXCEPT !.chains = f, !.skill = q]
<1>1. s \in ClientStates /\ NamesSkills(s) /\ StackInShape(s) /\ ChainsCounted(s)
  BY DEF ClientSound
<1>2. k \in 1 .. Len(s.skill)
  BY <1>1 DEF NamesSkills
<1>3. s.skill \in Seq(SkillRecord) /\ s.skill[k] \in SkillRecord /\ s.skill[k].task \in Nat
  BY <1>1, <1>2, SkillTyped
<1>4. s.skill[k].task >= 1
  <2>1. c \in ChainsOf(s, k)
    BY DEF ChainsOf
  <2>2. Cardinality(ChainsOf(s, k)) # 0 /\ Cardinality(ChainsOf(s, k)) \in Nat
    BY <2>1, ChainsFinite, FS_EmptySet
  <2>3. Cardinality(ChainsOf(s, k)) <= s.skill[k].task
    BY <1>1, <1>2 DEF ChainsCounted
  <2> HIDE DEF k
  <2> QED
    BY <1>3, <2>2, <2>3
<1>5. /\ r \in SkillRecord /\ r.task = s.skill[k].task - 1 /\ r.app = s.skill[k].app
      /\ r.form = s.skill[k].form /\ r.paused = s.skill[k].paused
  <2> HIDE DEF k
  <2>1. s.skill[k].task - 1 \in Nat
    BY <1>3, <1>4
  <2> QED
    BY <1>3, <2>1 DEF SkillRecord
<1> HIDE DEF r, k
<1>6. /\ q \in Seq(SkillRecord) /\ Len(q) = Len(s.skill)
      /\ \A j \in 1 .. Len(s.skill) : q[j] = IF j = k THEN r ELSE s.skill[j]
  BY <1>2, <1>3, <1>5
<1>7. /\ f \in [ChainIds -> ChainRecord \cup {Unused}]
      /\ \A d \in ChainIds : f[d] = IF d = c THEN Unused ELSE s.chains[d]
  BY <1>1 DEF ClientStates
<1>8. t = [s EXCEPT !.chains[c] = Unused, !.skill[k].task = @ - 1]
  BY <1>1 DEF ClientStates, r
<1> HIDE DEF q, f
<1>9. t \in ClientStates /\ t.skill = q /\ t.chains = f
  BY <1>1, <1>6, <1>7 DEF ClientStates
<1>10. t.stack = s.stack /\ t.tick = s.tick /\ t.frontend = s.frontend /\ t.app = s.app
  BY <1>1 DEF ClientStates
<1> HIDE DEF t
<1>11. NamesSkills(t)
  BY <1>1, <1>6, <1>7, <1>9, <1>10 DEF NamesSkills
<1>12. StackInShape(t)
  <2>1. Len(s.stack) = 2 => s.stack[1] \in 1 .. Len(s.skill) /\ s.stack[2] \in 1 .. Len(s.skill)
    BY <1>1 DEF NamesSkills
  <2> QED
    BY <1>1, <1>5, <1>6, <1>9, <1>10, <2>1 DEF StackInShape
<1>13. ChainsCounted(t)
  <2> SUFFICES ASSUME NEW j \in 1 .. Len(t.skill)
               PROVE  Cardinality(ChainsOf(t, j)) <= t.skill[j].task
    BY DEF ChainsCounted
  <2>1. j \in 1 .. Len(s.skill)
    BY <1>6, <1>9
  <2>2. Cardinality(ChainsOf(s, j)) <= s.skill[j].task /\ s.skill[j].task \in Nat
    BY <1>1, <2>1, SkillTyped DEF ChainsCounted
  <2>3. /\ IsFiniteSet(ChainsOf(s, j)) /\ Cardinality(ChainsOf(s, j)) \in Nat
        /\ Cardinality(ChainsOf(t, j)) \in Nat
    BY ChainsFinite
  <2>4. CASE j = k
    <3>1. c \in ChainsOf(s, j) /\ ChainsOf(t, j) = ChainsOf(s, j) \ {c}
      BY <1>7, <1>9, <2>4 DEF ChainsOf, k
    <3>2. Cardinality(ChainsOf(t, j)) = Cardinality(ChainsOf(s, j)) - 1
      BY <2>3, <3>1, FS_RemoveElement
    <3>3. t.skill[j].task = s.skill[j].task - 1
      BY <1>2, <1>5, <1>6, <1>9, <2>4
    <3> QED
      BY <2>2, <2>3, <3>2, <3>3
  <2>5. CASE j # k
    <3>1. ChainsOf(t, j) = ChainsOf(s, j)
      BY <1>7, <1>9, <2>5 DEF ChainsOf, k
    <3>2. t.skill[j] = s.skill[j]
      BY <1>6, <1>9, <2>1, <2>5
    <3> QED
      BY <2>2, <3>1, <3>2
  <2> QED
    BY <2>4, <2>5
<1>14. ClientSound(t) /\ k \in 1 .. Len(t.skill)
  BY <1>2, <1>6, <1>9, <1>11, <1>12, <1>13 DEF ClientSound
<1>15. Completed(s, c) \in {t, NextSkill(t, k), ExecuteOwn(t)}
  BY <1>8 DEF Completed, k
<1>16. ClientSound(NextSkill(t, k))
  BY <1>14, NextSkillSound DEF Succeeds
<1>17. ClientSound(ExecuteOwn(t))
  BY <1>9, <1>14, ExecuteOwnCalm, CalmedSound
<1> QED
  BY <1>14, <1>15, <1>16, <1>17

\* What a chain in use may become.
LEMMA ChainPut ==
    ASSUME NEW s, ClientSound(s), NEW c \in ChainIds, s.chains[c] # Unused,
           NEW r \in ChainRecord, r.skill = s.chains[c].skill
    PROVE  /\ SucceedsInPlace(s, [s EXCEPT !.chains[c] = r])
           /\ [s EXCEPT !.chains[c] = r].chains[c] # Unused
<1> DEFINE f == [s.chains EXCEPT ![c] = r]
           t == [s EXCEPT !.chains = f]
<1>1. s \in ClientStates
  BY DEF ClientSound
<1>2. /\ f \in [ChainIds -> ChainRecord \cup {Unused}]
      /\ \A d \in ChainIds : f[d] = IF d = c THEN r ELSE s.chains[d]
  BY <1>1 DEF ClientStates
<1>3. [s EXCEPT !.chains[c] = r] = t
  BY <1>1 DEF ClientStates
<1> HIDE DEF f
<1>4. t \in ClientStates /\ t.chains = f
  BY <1>1, <1>2 DEF ClientStates
<1>5. /\ t.skill = s.skill /\ t.stack = s.stack /\ t.tick = s.tick /\ t.frontend = s.frontend
      /\ t.app = s.app
  BY <1>1 DEF ClientStates
<1> HIDE DEF t
<1>6. Calmed(s, t) /\ t.chains[c] # Unused
  BY <1>2, <1>4, <1>5, ChainTyped DEF Calmed
<1> QED
  BY <1>3, <1>6, CalmedSound

LEMMA ContinueSound ==
    ASSUME NEW s, ClientSound(s), NEW c \in ChainIds, s.chains[c] # Unused
    PROVE  ClientSound(Continue(s, c))
<1> DEFINE step == s.chains[c].next
           list == IF s.frontend = 0 THEN <<>> ELSE s.skill[s.frontend].directives
           r == [s.chains[c] EXCEPT !.next = Ahead(list)]
           t == [s EXCEPT !.chains[c] = r]
           k == s.frontend
           q == [s.skill[k] EXCEPT !.directives = Remain(list)]
           u == IF k = 0 THEN t ELSE PutSkill(t, k, q)
           T == [s EXCEPT !.chains[c].next = Ahead(list)]
           U == IF k = 0 THEN T ELSE [T EXCEPT !.skill[k].directives = Remain(list)]
<1>1. Continue(s, c) = IF step = "exit" \/ s.chains[c].canceled THEN Completed(s, c)
                       ELSE Perform(U, c, step)
  BY DEF Continue
<1>2. s \in ClientStates /\ NamesSkills(s) /\ StackInShape(s)
  BY DEF ClientSound
<1>3. s.chains[c] \in ChainRecord /\ step \in Steps \cup {"exit"}
  BY <1>2, ChainTyped DEF ClientStates, ChainRecord
<1>4. k # 0 => k \in 1 .. Len(s.skill) /\ s.skill[k] \in SkillRecord /\ s.skill[k].task \in Nat
  <2>1. k # 0 => k \in 1 .. Len(s.skill)
    BY <1>2 DEF NamesSkills, ClientStates
  <2> QED
    BY <1>2, <2>1, SkillTyped
<1>5. list \in Seq(Steps)
  <2>1. <<>> \in Seq(Steps)
    OBVIOUS
  <2> QED
    BY <1>4, <2>1 DEF SkillRecord
<1>6. Ahead(list) \in Steps \cup {"exit"} /\ Remain(list) \in Seq(Steps)
  BY <1>5, ListTyped
<1> HIDE DEF list, k, step
<1>7. r \in ChainRecord /\ r.skill = s.chains[c].skill
  BY <1>3, <1>6 DEF ChainRecord
<1>8. t = [s EXCEPT !.chains[c].next = Ahead(list)]
  BY <1>2 DEF ClientStates
<1> HIDE DEF r
<1>9. SucceedsInPlace(s, t) /\ t.chains[c] # Unused
  BY <1>7, ChainPut
<1>10. t.skill = s.skill /\ t.stack = s.stack
  BY <1>2 DEF ClientStates
<1>11. k # 0 => /\ q \in SkillRecord /\ q.app = t.skill[k].app /\ q.form = t.skill[k].form
                /\ q.task = t.skill[k].task /\ q.paused = t.skill[k].paused
  BY <1>4, <1>6, <1>10 DEF SkillRecord
<1>12. k # 0 => PutSkill(t, k, q) = [t EXCEPT !.skill[k].directives = Remain(list)]
  BY <1>2, <1>10 DEF PutSkill, ClientStates
<1>13. IsUnder(t, k) => t.skill[k].paused
  BY <1>2, <1>10 DEF IsUnder, StackInShape
<1> HIDE DEF t, q
<1>14. k # 0 => SucceedsInPlace(t, PutSkill(t, k, q))
  <2> SUFFICES ASSUME k # 0 PROVE SucceedsInPlace(t, PutSkill(t, k, q))
    OBVIOUS
  <2>1. k \in 1 .. Len(t.skill) /\ t.skill[k].task \in Nat
    BY <1>4, <1>10
  <2>2. q.task >= t.skill[k].task
    BY <1>11, <2>1
  <2> QED
    BY <1>9, <1>11, <1>13, <2>1, <2>2, SkillPut DEF SucceedsInPlace, Succeeds
<1>15. ClientSound(u) /\ u.chains[c] # Unused
  BY <1>9, <1>14 DEF SucceedsInPlace, Succeeds
<1>16. U = u
  BY <1>8, <1>12
<1> HIDE DEF u, U
<1>17. CASE step = "exit" \/ s.chains[c].canceled
  BY <1>1, <1>17, CompletedSound
<1>18. CASE ~(step = "exit" \/ s.chains[c].canceled)
  <2>1. step \in Steps /\ u \in ClientStates
    BY <1>3, <1>15, <1>18 DEF ClientSound
  <2>2. Calmed(u, Perform(u, c, step))
    BY <1>15, <2>1, PerformCalm
  <2> QED
    BY <1>1, <1>15, <1>16, <1>18, <2>2, CalmedSound
<1> QED
  BY <1>17, <1>18

LEMMA SortedTyped ==
    ASSUME NEW list \in Seq(Steps) PROVE Sorted(list) \in Seq(Steps)
<1>1. Len(list) \in Nat /\ DOMAIN list = 1 .. Len(list)
  OBVIOUS
<1>2. \A n \in DOMAIN list : Sorted(list)[n] \in Steps
  BY DEF Sorted, Steps
<1>3. Sorted(list) = [n \in DOMAIN list |-> Sorted(list)[n]]
  BY DEF Sorted
<1> HIDE DEF Sorted
<1>4. Sorted(list) \in [1 .. Len(list) -> Steps]
  BY <1>1, <1>2, <1>3
<1> QED
  BY <1>1, <1>4

LEMMA TickSound ==
    ASSUME NEW s, ClientSound(s), NEW k \in 0 .. Len(s.skill), ~IsUnder(s, k)
    PROVE  Succeeds(s, [s EXCEPT !.tick = k]) /\ [s EXCEPT !.tick = k].stack = s.stack
<1> DEFINE t == [s EXCEPT !.tick = k]
<1>1. s \in ClientStates /\ NamesSkills(s) /\ StackInShape(s) /\ ChainsCounted(s)
  BY DEF ClientSound
<1>2. t \in ClientStates /\ t.tick = k
  BY <1>1 DEF ClientStates
<1>3. /\ t.skill = s.skill /\ t.chains = s.chains /\ t.stack = s.stack
      /\ t.frontend = s.frontend /\ t.app = s.app
  BY <1>1 DEF ClientStates
<1> HIDE DEF t
<1>4. NamesSkills(t) /\ StackInShape(t)
  BY <1>1, <1>2, <1>3 DEF NamesSkills, StackInShape, IsUnder
<1>5. \A j : ChainsOf(t, j) = ChainsOf(s, j)
  BY <1>3 DEF ChainsOf
<1>6. ChainsCounted(t)
  BY <1>1, <1>3, <1>5 DEF ChainsCounted
<1> QED
  BY <1>2, <1>3, <1>4, <1>6 DEF Succeeds, ClientSound, t

\* A request is for a skill that is not under another one; an answer may be,
\* and leaves it paused.
LEMMA OnRequestSound ==
    ASSUME NEW s, ClientSound(s), NEW k \in 1 .. Len(s.skill), NEW list \in Seq(Steps),
           NEW ends \in BOOLEAN, NEW append \in BOOLEAN, append \/ ~IsUnder(s, k)
    PROVE  Succeeds(s, OnRequest(s, k, list, ends, append))
<1> DEFINE r == s.skill[k]
           new == IF append THEN Sorted(r.directives \o list) ELSE list
           stays == r.paused /\ append
           plays == r.hasPlayer \/ HasMedia(list)
           q == [r EXCEPT !.shouldEndSession = ends, !.paused = stays, !.directives = new,
                          !.hasPlayer = plays]
           p == PutSkill(s, k, q)
           j == IF q.paused THEN s.tick ELSE k
           t == [p EXCEPT !.tick = j]
<1>1. s \in ClientStates /\ NamesSkills(s) /\ StackInShape(s)
  BY DEF ClientSound
<1>2. r \in SkillRecord /\ r.directives \in Seq(Steps) /\ r.task \in Nat
  BY <1>1, SkillTyped DEF SkillRecord
<1>3. new \in Seq(Steps) /\ stays \in BOOLEAN /\ plays \in BOOLEAN
  <2>1. r.directives \o list \in Seq(Steps)
    BY <1>2
  <2> QED
    BY <2>1, SortedTyped
<1>4. OnRequest(s, k, list, ends, append) = IF r.shouldEndSession THEN NextSkill(s, k) ELSE t
  BY <1>1 DEF OnRequest, PutSkill, ClientStates
<1>5. IsUnder(s, k) => stays
  BY <1>1 DEF IsUnder, StackInShape
<1> HIDE DEF new, stays, plays, r
<1>6. /\ q \in SkillRecord /\ q.app = r.app /\ q.form = r.form /\ q.task = r.task
      /\ q.paused <=> stays
  BY <1>2, <1>3 DEF SkillRecord
<1> HIDE DEF q
<1>7. SucceedsInPlace(s, p)
  <2>1. q.task >= r.task /\ (q.paused \/ ~IsUnder(s, k))
    BY <1>2, <1>5, <1>6
  <2> QED
    BY <1>6, <2>1, SkillPut DEF r
<1> HIDE DEF p
<1>8. ClientSound(p) /\ Len(p.skill) = Len(s.skill) /\ p.stack = s.stack
  BY <1>7 DEF SucceedsInPlace, Succeeds
<1>9. j \in 0 .. Len(p.skill) /\ ~IsUnder(p, j)
  BY <1>1, <1>5, <1>6, <1>8 DEF NamesSkills, IsUnder, StackInShape
<1> HIDE DEF j
<1>10. Succeeds(p, t)
  BY <1>8, <1>9, TickSound
<1>11. Succeeds(s, t)
  BY <1>7, <1>10, SucceedsTwice DEF SucceedsInPlace
<1> QED
  BY <1>4, <1>11, NextSkillSound

\* Of skills in the stack of an app, one that is not the current one's is the
\* lower one.
LEMMA ToKnownSound ==
    ASSUME NEW s, ClientSound(s), NEW a \in SkillApps, NEW k \in OfSkill(s, a),
           NEW list \in Seq(Steps), NEW ends \in BOOLEAN
    PROVE  ClientSound(ToKnown(s, k, list, ends))
<1> DEFINE prev == CurrentSkill(s)
           p == PopSkill(s)
           d == Destroy(p, prev)
           t == ResumeSkill(d, k)
           no == FALSE
<1>1. s \in ClientStates /\ NamesSkills(s) /\ StackInShape(s) /\ s.stack \in Seq(Nat)
  BY DEF ClientSound, ClientStates
<1>2. PICK i \in DOMAIN s.stack : s.stack[i] = k
  BY DEF OfSkill, InStack
<1>3. k \in 1 .. Len(s.skill) /\ s.skill[k].app = a /\ i \in 1 .. Len(s.stack) /\ s.stack # <<>>
  <2>1. i \in 1 .. Len(s.stack)
    BY <1>1, <1>2
  <2>2. s.stack # <<>>
    BY <1>2
  <2> QED
    BY <1>1, <1>2, <2>1, <2>2 DEF NamesSkills, OfSkill
<1>4. /\ prev \in 1 .. Len(s.skill) /\ prev = s.stack[Len(s.stack)] /\ ~IsUnder(s, prev)
      /\ Len(s.stack) \in 0 .. 2
  BY <1>3, CurrentIs
<1>5. no \in BOOLEAN /\ no = FALSE
  OBVIOUS
<1> HIDE DEF no
<1>6. CASE s.skill[prev].app = s.skill[k].app
  <2>1. ~IsUnder(s, k)
    BY <1>1, <1>4, <1>6 DEF IsUnder, StackInShape
  <2>2. ToKnown(s, k, list, ends) = OnRequest(s, k, list, ends, no)
    BY <1>5, <1>6 DEF ToKnown
  <2> QED
    BY <1>3, <1>5, <2>1, <2>2, OnRequestSound DEF Succeeds
<1>7. CASE s.skill[prev].app # s.skill[k].app
  <2>1. ClientSound(p) /\ Len(p.stack) # 2 /\ p.skill = s.skill
    <3>1. ClientSound(p) /\ Len(p.stack) <= 1 /\ p.skill = s.skill
      BY PopSkillSound DEF Succeeds
    <3>2. Len(p.stack) \in Nat
      BY <3>1 DEF ClientSound, ClientStates
    <3> QED
      BY <3>1, <3>2, LengthFacts
  <2> HIDE DEF p, prev
  <2>2. Calmed(p, d)
    BY <1>4, <2>1, DestroyCalm DEF ClientSound
  <2> HIDE DEF d
  <2>3. ClientSound(d) /\ d.stack = p.stack /\ Len(d.skill) = Len(s.skill)
    BY <2>1, <2>2, CalmedSound DEF Calmed
  <2>4. ~IsUnder(d, k)
    BY <2>1, <2>3 DEF IsUnder
  <2>5. SucceedsInPlace(d, t)
    BY <1>3, <2>3, <2>4, ResumeSkillSound
  <2> HIDE DEF t
  <2>6. ClientSound(t) /\ t.stack = d.stack /\ Len(t.skill) = Len(s.skill)
    BY <2>3, <2>5 DEF SucceedsInPlace, Succeeds
  <2>7. ~IsUnder(t, k)
    BY <2>1, <2>3, <2>6 DEF IsUnder
  <2>8. ToKnown(s, k, list, ends) = OnRequest(t, k, list, ends, no)
    BY <1>5, <1>7 DEF ToKnown, t, d, p, prev
  <2> QED
    BY <1>3, <1>5, <2>6, <2>7, <2>8, OnRequestSound DEF Succeeds
<1> QED
  BY <1>6, <1>7

LEMMA DestroyTwoCalm ==
    ASSUME NEW s, ClientSound(s) PROVE Calmed(s, DestroyTwo(s))
<1> DEFINE d == Destroy(s, s.stack[1])
<1>1. s \in ClientStates /\ NamesSkills(s) /\ Calmed(s, s)
  BY DEF ClientSound, Calmed
<1>2. CASE Len(s.stack) = 2
  <2>1. s.stack[1] \in 1 .. Len(s.skill) /\ s.stack[2] \in 1 .. Len(s.skill)
    BY <1>1, <1>2 DEF NamesSkills
  <2>2. Calmed(s, d)
    BY <1>1, <2>1, DestroyCalm
  <2>3. DestroyTwo(s) = Destroy(d, s.stack[2])
    BY <1>2 DEF DestroyTwo
  <2> HIDE DEF d
  <2>4. d \in ClientStates /\ s.stack[2] \in 1 .. Len(d.skill)
    BY <2>1, <2>2 DEF Calmed
  <2>5. Calmed(d, Destroy(d, s.stack[2]))
    BY <2>4, DestroyCalm
  <2> QED
    BY <2>2, <2>3, <2>5, CalmedTwice
<1>3. CASE Len(s.stack) = 1
  <2>1. s.stack[1] \in 1 .. Len(s.skill)
    BY <1>1, <1>3 DEF NamesSkills
  <2>2. DestroyTwo(s) = d
    BY <1>3 DEF DestroyTwo
  <2> QED
    BY <1>1, <2>1, <2>2, DestroyCalm
<1>4. CASE Len(s.stack) # 2 /\ Len(s.stack) # 1
  BY <1>1, <1>4 DEF DestroyTwo
<1> QED
  BY <1>2, <1>3, <1>4

\* Another stack of the same skills, in shape.
LEMMA StackPut ==
    ASSUME NEW s, ClientSound(s), NEW q \in Seq(Nat),
           \A i \in 1 .. Len(q) : q[i] \in 1 .. Len(s.skill),
           StackInShape([s EXCEPT !.stack = q])
    PROVE  Succeeds(s, [s EXCEPT !.stack = q]) /\ [s EXCEPT !.stack = q].stack = q
<1> DEFINE t == [s EXCEPT !.stack = q]
<1>1. s \in ClientStates /\ NamesSkills(s) /\ ChainsCounted(s)
  BY DEF ClientSound
<1>2. t \in ClientStates /\ t.stack = q
  BY <1>1 DEF ClientStates
<1>3. /\ t.skill = s.skill /\ t.chains = s.chains /\ t.tick = s.tick
      /\ t.frontend = s.frontend /\ t.app = s.app
  BY <1>1 DEF ClientStates
<1>4. StackInShape(t)
  OBVIOUS
<1> HIDE DEF t
<1>5. NamesSkills(t)
  BY <1>1, <1>2, <1>3 DEF NamesSkills
<1>6. \A j : ChainsOf(t, j) = ChainsOf(s, j)
  BY <1>3 DEF ChainsOf
<1>7. ChainsCounted(t)
  BY <1>1, <1>3, <1>6 DEF ChainsCounted
<1> QED
  BY <1>2, <1>3, <1>4, <1>5, <1>7 DEF Succeeds, ClientSound, t

LEMMA SingleInShape ==
    ASSUME NEW s, ClientSound(s), NEW k \in 1 .. Len(s.skill)
    PROVE  Succeeds(s, [s EXCEPT !.stack = <<k>>])
<1> DEFINE q == <<k>>
           t == [s EXCEPT !.stack = q]
<1>1. s \in ClientStates /\ Len(s.skill) \in Nat
  BY DEF ClientSound, ClientStates
<1>2. q \in Seq(Nat) /\ Len(q) = 1 /\ q[1] = k
  BY <1>1
<1> HIDE DEF q
<1>3. t.stack = q
  BY <1>1 DEF ClientStates
<1>4. StackInShape(t)
  <2> HIDE DEF t
  <2> QED
    BY <1>2, <1>3, LengthFacts DEF StackInShape
<1>5. \A i \in 1 .. Len(q) : q[i] \in 1 .. Len(s.skill)
  BY <1>2
<1>6. Succeeds(s, t)
  BY <1>2, <1>4, <1>5, StackPut
<1> QED
  BY <1>6 DEF q

\* k is a new skill: not in the stack, of an app that has no skill in it.
IsNew(s, k) ==
    \A i \in 1 .. Len(s.stack) : s.stack[i] # k /\ s.skill[s.stack[i]].app # s.skill[k].app

LEMMA AppendedSecond ==
    ASSUME NEW S \in Seq(Nat), Len(S) = 1, NEW k \in Nat
    PROVE  /\ Append(S, k) \in Seq(Nat) /\ Len(Append(S, k)) = 2
           /\ Append(S, k)[1] = S[1] /\ Append(S, k)[2] = k
<1>1. /\ Append(S, k) \in Seq(Nat) /\ Len(Append(S, k)) = Len(S) + 1
      /\ \A i \in 1 .. Len(S) : Append(S, k)[i] = S[i]
      /\ Append(S, k)[Len(S) + 1] = k
  BY AppendProperties
<1>2. 1 + 1 = 2 /\ 1 \in 1 .. 1
  OBVIOUS
<1> QED
  BY <1>1, <1>2

LEMMA LastReplaced ==
    ASSUME NEW S \in Seq(Nat), NEW k \in Nat
    PROVE  LET q == [S EXCEPT ![Len(S)] = k]
           IN  /\ q \in Seq(Nat) /\ Len(q) = Len(S)
               /\ \A i \in 1 .. Len(q) : q[i] = IF i = Len(S) THEN k ELSE S[i]
<1> DEFINE q == [S EXCEPT ![Len(S)] = k]
<1>1. Len(S) \in Nat /\ DOMAIN S = 1 .. Len(S) /\ S \in [1 .. Len(S) -> Nat]
  BY LenProperties
<1>2. q \in [1 .. Len(S) -> Nat]
  BY <1>1
<1>3. \A i \in 1 .. Len(S) : q[i] = IF i = Len(S) THEN k ELSE S[i]
  BY <1>1
<1> HIDE DEF q
<1>4. q \in Seq(Nat) /\ Len(q) = Len(S)
  BY <1>1, <1>2, LenProperties
<1> QED
  BY <1>3, <1>4 DEF q

LEMMA PushedSound ==
    ASSUME NEW s, ClientSound(s), NEW k \in 1 .. Len(s.skill), IsNew(s, k), s.tick = 0
    PROVE  Succeeds(s, Pushed(s, k))
<1> DEFINE cur == CurrentSkill(s)
<1>1. s \in ClientStates /\ NamesSkills(s) /\ StackInShape(s)
  BY DEF ClientSound
<1>2. s.skill \in Seq(SkillRecord) /\ s.skill[k] \in SkillRecord /\ s.stack \in Seq(Nat)
  BY <1>1, SkillTyped DEF ClientStates
<1>3. s.skill[k].form \in {"cut", "scene"}
  BY <1>2 DEF SkillRecord
<1>4. /\ s.stack = <<>> <=> Len(s.stack) = 0
      /\ Len(s.stack) \in 0 .. 2
      /\ cur # 0 <=> s.stack # <<>>
      /\ s.stack # <<>> => /\ cur \in 1 .. Len(s.skill)
                           /\ cur = s.stack[Len(s.stack)]
  BY CurrentIs
<1>5. CASE s.skill[k].form = "scene"
  <2> DEFINE d == DestroyTwo(s)
  <2>1. Calmed(s, d)
    BY DestroyTwoCalm
  <2> HIDE DEF d
  <2>2. Succeeds(s, d) /\ ClientSound(d) /\ k \in 1 .. Len(d.skill)
    BY <2>1, CalmedSound DEF Succeeds, SucceedsInPlace
  <2>3. Pushed(s, k) = [d EXCEPT !.stack = <<k>>]
    BY <1>5 DEF Pushed, d
  <2>4. Succeeds(d, [d EXCEPT !.stack = <<k>>])
    BY <2>2, SingleInShape
  <2> QED
    BY <2>2, <2>3, <2>4, SucceedsTwice
<1>6. CASE s.skill[k].form = "cut" /\ cur = 0
  <2>1. Pushed(s, k) = [s EXCEPT !.stack = <<k>>]
    BY <1>6 DEF Pushed
  <2> QED
    BY <2>1, SingleInShape
<1>7. CASE s.skill[k].form = "cut" /\ cur # 0 /\ s.skill[cur].form = "scene"
  <2> DEFINE no == FALSE
             p == PauseSkill(s, cur, no)
             q == Append(s.stack, k)
             t == [p EXCEPT !.stack = q]
  <2>1. Len(s.stack) = 1 /\ s.stack[1] = cur
    BY <1>1, <1>4, <1>7 DEF StackInShape
  <2>2. no \in BOOLEAN
    OBVIOUS
  <2>3. Pushed(s, k) = [PauseSkill(s, cur, no) EXCEPT !.stack = Append(@, k)]
    BY <1>7 DEF Pushed
  <2> HIDE DEF no
  <2>4. Calmed(s, p) /\ p.skill[cur].paused
    BY <1>1, <1>4, <1>7, <2>2, PauseSkillCalm
  <2> HIDE DEF p
  <2>5. Succeeds(s, p) /\ ClientSound(p)
    BY <2>4, CalmedSound DEF Succeeds, SucceedsInPlace
  <2>6. Pushed(s, k) = t
    BY <2>3, <2>4 DEF p, Calmed
  <2>7. /\ q \in Seq(Nat) /\ Len(q) = 2 /\ q[1] = cur /\ q[2] = k
    <3>1. k \in Nat
      BY <1>1 DEF ClientStates
    <3> QED
      BY <1>2, <2>1, <3>1, AppendedSecond
  <2> HIDE DEF q
  <2>8. /\ t.skill = p.skill /\ t.stack = q /\ t.tick = 0
    BY <2>4, <2>5 DEF Calmed, ClientSound, ClientStates
  <2>9. /\ p.skill[cur].form = "scene" /\ p.skill[k].form = "cut"
        /\ p.skill[cur].app # p.skill[k].app
    BY <1>4, <1>7, <2>1, <2>4 DEF Calmed, IsNew
  <2>10. StackInShape(t)
    <3>1. cur # 0
      BY <1>7
    <3> HIDE DEF t, cur
    <3> QED
      BY <2>4, <2>7, <2>8, <2>9, <3>1, LengthFacts DEF StackInShape
  <2>11. \A i \in 1 .. Len(q) : q[i] \in 1 .. Len(p.skill)
    <3>1. Len(p.skill) = Len(s.skill)
      BY <2>4 DEF Calmed
    <3> QED
      BY <1>4, <1>7, <2>7, <3>1
  <2>12. Succeeds(p, t)
    BY <2>5, <2>7, <2>10, <2>11, StackPut
  <2> QED
    BY <2>5, <2>6, <2>12, SucceedsTwice
<1>8. CASE s.skill[k].form = "cut" /\ cur # 0 /\ s.skill[cur].form # "scene"
  <2> DEFINE q == [s.stack EXCEPT ![Len(s.stack)] = k]
             t == [s EXCEPT !.stack = q]
  <2>1. Pushed(s, k) = Destroy(t, cur)
    BY <1>1, <1>8 DEF Pushed, ClientStates
  <2>2. Len(s.stack) \in {1, 2}
    BY <1>4, <1>8
  <2>3. /\ q \in Seq(Nat) /\ Len(q) = Len(s.stack)
        /\ \A i \in 1 .. Len(q) : q[i] = IF i = Len(s.stack) THEN k ELSE s.stack[i]
    <3>1. k \in Nat
      BY <1>1 DEF ClientStates
    <3> QED
      BY <1>2, <3>1, LastReplaced
  <2> HIDE DEF q
  <2>4. /\ t.skill = s.skill /\ t.stack = q /\ t.tick = s.tick
    BY <1>1 DEF ClientStates
  <2>5. StackInShape(t)
    <3>1. CASE Len(s.stack) = 1
      <4> HIDE DEF t
      <4> QED
        BY <2>3, <2>4, <3>1, LengthFacts DEF StackInShape
    <3>2. CASE Len(s.stack) = 2
      <4>1. q[1] = s.stack[1] /\ q[2] = k /\ Len(q) = 2 /\ 1 \in 1 .. Len(s.stack)
        BY <2>3, <3>2
      <4> HIDE DEF t
      <4> QED
        BY <1>1, <1>8, <2>4, <3>2, <4>1 DEF StackInShape, IsNew
    <3> QED
      BY <2>2, <3>1, <3>2
  <2>6. \A i \in 1 .. Len(q) : q[i] \in 1 .. Len(s.skill)
    BY <1>1, <2>3 DEF NamesSkills
  <2>7. Succeeds(s, t)
    BY <2>3, <2>5, <2>6, StackPut
  <2> HIDE DEF t
  <2>8. ClientSound(t) /\ t \in ClientStates /\ cur \in 1 .. Len(t.skill)
    BY <1>4, <1>8, <2>7 DEF Succeeds, ClientSound
  <2>9. Calmed(t, Destroy(t, cur))
    BY <2>8, DestroyCalm
  <2>10. Succeeds(t, Destroy(t, cur))
    BY <2>8, <2>9, CalmedSound DEF SucceedsInPlace
  <2> QED
    BY <2>1, <2>7, <2>10, SucceedsTwice
<1> QED
  BY <1>3, <1>5, <1>6, <1>7, <1>8

LEMMA NewSkillTyped ==
    ASSUME NEW a \in SkillApps, NEW form \in {"cut", "scene"}, NEW list \in Seq(Steps),
           NEW ends \in BOOLEAN
    PROVE  LET r == NewSkill(a, form, list, ends)
           IN  r \in SkillRecord /\ r.app = a /\ r.form = form /\ r.task = 0
<1>1. HasMedia(list) \in BOOLEAN
  BY ListTyped
<1> QED
  BY <1>1 DEF NewSkill, SkillRecord

LEMMA ToNewSound ==
    ASSUME NEW s, ClientSound(s), NEW a \in SkillApps, NEW form \in {"cut", "scene"},
           NEW list \in Seq(Steps), NEW ends \in BOOLEAN,
           OfSkill(s, a) = {}, s.tick = 0, Len(s.skill) + 1 <= s.app.requests
    PROVE  ClientSound(ToNew(s, a, form, list, ends))
<1> DEFINE r == NewSkill(a, form, list, ends)
           q == Append(s.skill, r)
           t == [s EXCEPT !.skill = q]
           n == Len(s.skill) + 1
           p == Pushed(t, n)
           no == FALSE
<1>1. s \in ClientStates /\ NamesSkills(s) /\ StackInShape(s) /\ ChainsCounted(s)
  BY DEF ClientSound
<1>2. s.skill \in Seq(SkillRecord) /\ Len(s.skill) \in Nat /\ s.stack \in Seq(Nat)
  BY <1>1 DEF ClientStates
<1>3. r \in SkillRecord /\ r.app = a /\ r.form = form /\ r.task = 0
  BY NewSkillTyped
<1> HIDE DEF r
<1>4. /\ q \in Seq(SkillRecord) /\ Len(q) = n /\ q[n] = r
      /\ \A k \in 1 .. Len(s.skill) : q[k] = s.skill[k]
  BY <1>2, <1>3, AppendProperties
<1> HIDE DEF q
<1>5. t \in ClientStates /\ t.skill = q
  BY <1>1, <1>4 DEF ClientStates
<1>6. /\ t.chains = s.chains /\ t.stack = s.stack /\ t.tick = 0 /\ t.frontend = s.frontend
      /\ t.app = s.app
  BY <1>1 DEF ClientStates
<1>7. ToNew(s, a, form, list, ends) = ExecuteDirectives(Pushed(t, Len(t.skill)), Len(t.skill), no)
  BY DEF ToNew, q, r
<1>8. no \in BOOLEAN
  OBVIOUS
<1> HIDE DEF t, no
<1>9. n \in Nat /\ n \in 1 .. n /\ \A k \in 0 .. Len(s.skill) : k \in 0 .. n /\ k # n
  BY <1>2
<1>10. \A k \in 1 .. Len(s.skill) : k \in 1 .. n /\ k \in 0 .. Len(s.skill)
  BY <1>2
<1>11. NamesSkills(t)
  <2> HIDE DEF n
  <2>1. n <= s.app.requests
    BY DEF n
  <2> QED
    BY <1>1, <1>4, <1>5, <1>6, <1>9, <1>10, <2>1 DEF NamesSkills
<1>12. StackInShape(t)
  <2>1. Len(s.stack) = 2 => s.stack[1] \in 1 .. Len(s.skill) /\ s.stack[2] \in 1 .. Len(s.skill)
    BY <1>1 DEF NamesSkills
  <2> QED
    BY <1>1, <1>4, <1>5, <1>6, <2>1 DEF StackInShape
<1>13. ChainsCounted(t)
  <2> SUFFICES ASSUME NEW k \in 1 .. Len(t.skill)
               PROVE  Cardinality(ChainsOf(t, k)) <= t.skill[k].task
    BY DEF ChainsCounted
  <2>1. k \in 1 .. Len(s.skill) \/ k = n
    BY <1>2, <1>4, <1>5
  <2>2. ChainsOf(t, k) = ChainsOf(s, k)
    BY <1>6 DEF ChainsOf
  <2>3. CASE k \in 1 .. Len(s.skill)
    BY <1>1, <1>4, <1>5, <2>2, <2>3 DEF ChainsCounted
  <2>4. CASE k = n
    <3>1. \A c \in ChainIds : s.chains[c] # Unused => s.chains[c].skill # n
      BY <1>1, <1>9, <1>10 DEF NamesSkills
    <3>2. ChainsOf(t, k) = {}
      BY <2>2, <2>4, <3>1 DEF ChainsOf
    <3>3. Cardinality(ChainsOf(t, k)) = 0
      BY <3>2, FS_EmptySet
    <3> QED
      BY <1>3, <1>4, <1>5, <2>4, <3>3
  <2> QED
    BY <2>1, <2>3, <2>4
<1>14. ClientSound(t)
  BY <1>5, <1>11, <1>12, <1>13 DEF ClientSound
<1>15. IsNew(t, n)
  <2> SUFFICES ASSUME NEW i \in 1 .. Len(s.stack)
               PROVE  s.stack[i] # n /\ t.skill[s.stack[i]].app # t.skill[n].app
    BY <1>6 DEF IsNew
  <2>1. s.stack[i] \in 1 .. Len(s.skill)
    BY <1>1 DEF NamesSkills
  <2>2. s.stack[i] \in DOMAIN s.skill /\ InStack(s, s.stack[i])
    BY <1>2, <2>1 DEF InStack
  <2>3. s.skill[s.stack[i]].app # a
    BY <2>2 DEF OfSkill
  <2> QED
    BY <1>3, <1>4, <1>5, <1>9, <1>10, <2>1, <2>3
<1>16. n \in 1 .. Len(t.skill) /\ Len(t.skill) = n
  BY <1>4, <1>5, <1>9
<1> HIDE DEF n
<1>17. Succeeds(t, p)
  BY <1>6, <1>14, <1>15, <1>16, PushedSound
<1> HIDE DEF p
<1>18. ClientSound(p) /\ n \in 1 .. Len(p.skill)
  BY <1>16, <1>17 DEF Succeeds
<1>19. ClientSound(ExecuteDirectives(p, n, no))
  BY <1>8, <1>18, ExecuteSound DEF SucceedsInPlace, Succeeds
<1> QED
  BY <1>7, <1>16, <1>19 DEF p

LEMMA ExitSkillSound ==
    ASSUME NEW s, ClientSound(s), NEW k \in 1 .. Len(s.skill)
    PROVE  ClientSound(ExitSkill(s, k))
<1> DEFINE d == Destroy(s, k)
<1>1. Calmed(s, d)
  BY DestroyCalm DEF ClientSound
<1> HIDE DEF d
<1>2. ClientSound(d) /\ k \in 1 .. Len(d.skill)
  BY <1>1, CalmedSound DEF Calmed
<1>3. ClientSound(NextSkill(d, k))
  BY <1>2, NextSkillSound DEF Succeeds
<1> QED
  BY <1>3 DEF ExitSkill, d

\* The app's record with other flags.
LEMMA FlagsSound ==
    ASSUME NEW s, ClientSound(s), NEW flag \in BOOLEAN
    PROVE  /\ SucceedsInPlace(s, [s EXCEPT !.app.isAppActive = flag])
           /\ SucceedsInPlace(s, [s EXCEPT !.app.manualPause = flag])
           /\ SucceedsInPlace(s, [s EXCEPT !.app.needResume = flag])
           /\ SucceedsInPlace(s, [s EXCEPT !.app.taskTimer = flag])
           /\ [s EXCEPT !.app.isAppActive = flag].skill = s.skill
           /\ [s EXCEPT !.app.taskTimer = flag].skill = s.skill
<1>1. s \in ClientStates /\ s.app \in ClientApps
  BY DEF ClientSound, ClientStates
<1> DEFINE p == [s.app EXCEPT !.isAppActive = flag]
           q == [s.app EXCEPT !.manualPause = flag]
           r == [s.app EXCEPT !.needResume = flag]
           t == [s.app EXCEPT !.taskTimer = flag]
<1>2. /\ [s EXCEPT !.app.isAppActive = flag] = [s EXCEPT !.app = p]
      /\ [s EXCEPT !.app.manualPause = flag] = [s EXCEPT !.app = q]
      /\ [s EXCEPT !.app.needResume = flag] = [s EXCEPT !.app = r]
      /\ [s EXCEPT !.app.taskTimer = flag] = [s EXCEPT !.app = t]
  BY <1>1 DEF ClientStates
<1>3. p \in ClientApps /\ p.requests = s.app.requests
  BY <1>1 DEF ClientApps
<1>4. q \in ClientApps /\ q.requests = s.app.requests
  BY <1>1 DEF ClientApps
<1>5. r \in ClientApps /\ r.requests = s.app.requests
  BY <1>1 DEF ClientApps
<1>6. t \in ClientApps /\ t.requests = s.app.requests
  BY <1>1 DEF ClientApps
<1>7. [s EXCEPT !.app = p].skill = s.skill /\ [s EXCEPT !.app = t].skill = s.skill
  BY <1>1 DEF ClientStates
<1> HIDE DEF p, q, r, t
<1>8. SucceedsInPlace(s, [s EXCEPT !.app = p])
  BY <1>3, AppSound
<1>9. SucceedsInPlace(s, [s EXCEPT !.app = q])
  BY <1>4, AppSound
<1>10. SucceedsInPlace(s, [s EXCEPT !.app = r])
  BY <1>5, AppSound
<1>11. SucceedsInPlace(s, [s EXCEPT !.app = t])
  BY <1>6, AppSound
<1> QED
  BY <1>2, <1>7, <1>8, <1>9, <1>10, <1>11

LEMMA PauseManagerSound ==
    ASSUME NEW s, ClientSound(s) PROVE ClientSound(PauseManager(s))
<1> DEFINE off == FALSE
           yes == TRUE
           t == [s EXCEPT !.app.isAppActive = off]
           cur == CurrentSkill(s)
           p == PopSkill(t)
           d == Destroy(p, cur)
<1>1. off \in BOOLEAN /\ yes \in BOOLEAN
  OBVIOUS
<1>2. PauseManager(s) \in {t, PauseSkill(t, cur, yes), NextSkill(d, cur)}
      /\ (cur = 0 => PauseManager(s) = t)
  BY DEF PauseManager
<1> HIDE DEF off, yes
<1>3. ClientSound(t) /\ t.skill = s.skill
  BY <1>1, FlagsSound DEF SucceedsInPlace, Succeeds
<1> HIDE DEF t
<1>4. CASE cur = 0
  BY <1>2, <1>3, <1>4
<1>5. CASE cur # 0
  <2>1. cur \in 1 .. Len(t.skill)
    BY <1>3, <1>5, CurrentIs
  <2>2. ClientSound(p) /\ p.skill = t.skill
    BY <1>3, PopSkillSound DEF Succeeds
  <2> HIDE DEF p, cur
  <2>3. ClientSound(PauseSkill(t, cur, yes))
    <3>1. Calmed(t, PauseSkill(t, cur, yes))
      BY <1>1, <1>3, <2>1, PauseSkillCalm DEF ClientSound
    <3> QED
      BY <1>3, <3>1, CalmedSound
  <2>4. Calmed(p, d)
    BY <2>1, <2>2, DestroyCalm DEF ClientSound
  <2> HIDE DEF d
  <2>5. ClientSound(d) /\ cur \in 1 .. Len(d.skill)
    BY <2>1, <2>2, <2>4, CalmedSound DEF Calmed
  <2>6. ClientSound(NextSkill(d, cur))
    BY <2>5, NextSkillSound DEF Succeeds
  <2> QED
    BY <1>2, <1>3, <2>3, <2>6
<1> QED
  BY <1>4, <1>5

LEMMA CountedSound ==
    ASSUME NEW s, ClientSound(s), s.app.requests < MaxRequests
    PROVE  /\ ClientSound(Counted(s)) /\ Len(Counted(s).skill) + 1 <= Counted(s).app.requests
           /\ Counted(s).skill = s.skill /\ Counted(s).stack = s.stack
           /\ Counted(s).tick = s.tick
<1> DEFINE n == s.app.requests + 1
           r == [s.app EXCEPT !.requests = n]
           t == [s EXCEPT !.app = r]
<1>1. s \in ClientStates /\ NamesSkills(s) /\ StackInShape(s) /\ ChainsCounted(s)
  BY DEF ClientSound
<1>2. s.app \in ClientApps /\ s.app.requests \in Nat /\ MaxRequests \in Nat /\ Len(s.skill) \in Nat
  BY <1>1, ClientAssumption DEF ClientStates, ClientApps
<1>3. n \in 0 .. MaxRequests /\ Len(s.skill) + 1 <= n /\ Len(s.skill) <= n
  BY <1>1, <1>2 DEF NamesSkills
<1>4. Counted(s) = t
  BY <1>1 DEF Counted, ClientStates
<1> HIDE DEF n
<1>5. r \in ClientApps /\ r.requests = n
  BY <1>2, <1>3 DEF ClientApps
<1> HIDE DEF r
<1>6. t \in ClientStates /\ t.app = r
  BY <1>1, <1>5 DEF ClientStates
<1>7. /\ t.skill = s.skill /\ t.chains = s.chains /\ t.stack = s.stack
      /\ t.frontend = s.frontend /\ t.tick = s.tick
  BY <1>1 DEF ClientStates
<1> HIDE DEF t
<1>8. NamesSkills(t) /\ StackInShape(t)
  BY <1>1, <1>3, <1>5, <1>6, <1>7 DEF NamesSkills, StackInShape
<1>9. \A k : ChainsOf(t, k) = ChainsOf(s, k)
  BY <1>7 DEF ChainsOf
<1>10. ChainsCounted(t)
  BY <1>1, <1>7, <1>9 DEF ChainsCounted
<1> QED
  BY <1>3, <1>4, <1>5, <1>6, <1>7, <1>8, <1>10 DEF ClientSound

\* The flags the app sets before and after.
LEMMA ActivatedSound ==
    ASSUME NEW s, ClientSound(s)
    PROVE  /\ ClientSound(Activated(s)) /\ ClientSound(TimerCleared(s))
           /\ SucceedsInPlace(s, Activated(s)) /\ SucceedsInPlace(s, TimerCleared(s))
<1> DEFINE yes == TRUE
           no == FALSE
<1>1. yes \in BOOLEAN /\ no \in BOOLEAN
  OBVIOUS
<1>2. /\ Activated(s) = [s EXCEPT !.app.isAppActive = yes]
      /\ TimerCleared(s) = [s EXCEPT !.app.taskTimer = no]
  BY DEF Activated, TimerCleared
<1> HIDE DEF yes, no
<1>3. SucceedsInPlace(s, Activated(s)) /\ SucceedsInPlace(s, TimerCleared(s))
  BY <1>1, <1>2, FlagsSound
<1> QED
  BY <1>3 DEF SucceedsInPlace, Succeeds

\* The inductive invariant.
ClientIInv == ClientSound(client)

LEMMA StartSkillStep == ClientIInv /\ StartSkill => ClientIInv'
<1> SUFFICES ASSUME ClientSound(client), StartSkill PROVE ClientIInv'
  BY DEF ClientIInv
<1> DEFINE k == client.tick
           z == 0
           s == [client EXCEPT !.tick = z]
           r == [s.skill[k] EXCEPT !.paused = FALSE]
           p == PutSkill(s, k, r)
           no == FALSE
<1>1. client \in ClientStates /\ NamesSkills(client) /\ StackInShape(client)
  BY DEF ClientSound
<1>2. k \in 1 .. Len(client.skill) /\ ~IsUnder(client, k) /\ k \in Nat
  BY <1>1 DEF StartSkill, NamesSkills, StackInShape, IsUnder, ClientStates
<1>3. z \in 0 .. Len(client.skill) /\ ~IsUnder(client, z)
  BY <1>1 DEF NamesSkills, IsUnder, ClientStates
<1>4. client' = ExecuteDirectives(p, k, no)
  <2>1. [client EXCEPT !.tick = 0, !.skill[client.tick].paused = FALSE] = p
    BY <1>1 DEF PutSkill, ClientStates
  <2> QED
    BY <2>1 DEF StartSkill
<1>5. no \in BOOLEAN /\ s.skill = client.skill
  BY <1>1 DEF ClientStates
<1> HIDE DEF k, z, no
<1>6. ClientSound(s) /\ s.stack = client.stack
  BY <1>3, TickSound DEF Succeeds
<1> HIDE DEF s
<1>7. k \in 1 .. Len(s.skill) /\ ~IsUnder(s, k)
  BY <1>2, <1>5, <1>6 DEF IsUnder
<1>8. s.skill[k] \in SkillRecord /\ s.skill[k].task \in Nat
  BY <1>6, <1>7, SkillTyped DEF ClientSound
<1>9. /\ r \in SkillRecord /\ r.app = s.skill[k].app /\ r.form = s.skill[k].form
      /\ r.task = s.skill[k].task
  BY <1>8 DEF SkillRecord
<1> HIDE DEF r
<1>10. SucceedsInPlace(s, p)
  <2>1. r.task >= s.skill[k].task
    BY <1>8, <1>9
  <2> QED
    BY <1>6, <1>7, <1>9, <2>1, SkillPut
<1> HIDE DEF p
<1>11. ClientSound(p) /\ k \in 1 .. Len(p.skill)
  BY <1>7, <1>10 DEF SucceedsInPlace, Succeeds
<1>12. ClientSound(ExecuteDirectives(p, k, no))
  BY <1>5, <1>11, ExecuteSound DEF SucceedsInPlace, Succeeds
<1> QED
  BY <1>4, <1>12 DEF ClientIInv

LEMMA RequestStep ==
    ASSUME ClientSound(client), NEW a \in SkillApps, NEW form \in {"cut", "scene"},
           NEW list \in Scripts, NEW ends \in BOOLEAN, RequestArrives(a, form, list, ends)
    PROVE  ClientIInv'
<1> DEFINE n == Counted(client)
           t == TimerCleared(n)
           s == Activated(t)
<1>1. list \in Seq(Steps)
  BY ClientAssumption DEF Steps
<1>2. client.app.requests < MaxRequests /\ client.tick = 0
  BY DEF RequestArrives, MayAsk, Calm
<1>3. /\ ClientSound(n) /\ Len(n.skill) + 1 <= n.app.requests /\ n.tick = 0
  BY <1>2, CountedSound
<1>4. n \in ClientStates
  BY <1>3 DEF ClientSound
<1> HIDE DEF n
<1>5. ClientSound(t) /\ SucceedsInPlace(n, t) /\ t.app.requests = n.app.requests
  BY <1>3, <1>4, ActivatedSound DEF TimerCleared, ClientStates, ClientApps
<1>6. t \in ClientStates
  BY <1>5 DEF ClientSound
<1> HIDE DEF t
<1>7. ClientSound(s) /\ SucceedsInPlace(t, s) /\ s.app.requests = t.app.requests
  BY <1>5, <1>6, ActivatedSound DEF Activated, ClientStates, ClientApps
<1>8. \/ \E k \in OfSkill(client, a) : client' = ToKnown(s, k, list, ends)
      \/ OfSkill(client, a) = {} /\ client' = ToNew(s, a, form, list, ends)
  BY DEF RequestArrives, s, t, n
<1>9. OfSkill(s, a) = OfSkill(client, a)
  <2>1. client \in ClientStates
    BY DEF ClientSound
  <2>2. s.skill = client.skill /\ s.stack = client.stack
    BY <2>1, <1>4, <1>6 DEF s, t, n, Activated, TimerCleared, Counted, ClientStates
  <2> QED
    BY <2>2 DEF OfSkill, InStack
<1> HIDE DEF s
<1>10. s.tick = 0 /\ Len(s.skill) + 1 <= s.app.requests
  BY <1>3, <1>5, <1>7 DEF SucceedsInPlace, Succeeds
<1>11. CASE \E k \in OfSkill(client, a) : client' = ToKnown(s, k, list, ends)
  <2>1. PICK k \in OfSkill(s, a) : client' = ToKnown(s, k, list, ends)
    BY <1>9, <1>11
  <2> QED
    BY <1>1, <1>7, <2>1, ToKnownSound DEF ClientIInv
<1>12. CASE OfSkill(client, a) = {} /\ client' = ToNew(s, a, form, list, ends)
  <2>1. ClientSound(ToNew(s, a, form, list, ends))
    BY <1>1, <1>7, <1>9, <1>10, <1>12, ToNewSound
  <2> QED
    BY <1>12, <2>1 DEF ClientIInv
<1> QED
  BY <1>8, <1>11, <1>12

LEMMA OtherRequestsStep ==
    ASSUME ClientSound(client),
           EmptyRequest \/ ExitAll \/ (\E a \in SkillApps : ExitRequest(a))
    PROVE  ClientIInv'
<1> DEFINE n == Counted(client)
           cur == CurrentSkill(n)
<1>1. client.app.requests < MaxRequests
  BY DEF EmptyRequest, ExitAll, ExitRequest, MayAsk
<1>2. ClientSound(n)
  BY <1>1, CountedSound
<1>3. CASE EmptyRequest
  <2>1. client' \in {Empty(n), ResumeCurrent(Activated(n))}
    BY <1>3 DEF EmptyRequest
  <2> HIDE DEF n
  <2>2. ClientSound(Empty(n))
    BY <1>2, EmptySound DEF SucceedsInPlace, Succeeds
  <2>3. ClientSound(ResumeCurrent(Activated(n)))
    BY <1>2, ActivatedSound, ResumeCurrentSound DEF SucceedsInPlace, Succeeds
  <2> QED
    BY <2>1, <2>2, <2>3 DEF ClientIInv
<1>4. CASE ExitAll
  <2> DEFINE d == DestroyTwo(n)
             no == FALSE
             e == <<>>
             h == [a \in SkillApps |-> 0]
             u == [d EXCEPT !.stack = e]
             w == [u EXCEPT !.app.isAppActive = no]
             x == [w EXCEPT !.handle = h]
  <2>1. client' = [d EXCEPT !.stack = <<>>, !.app.isAppActive = FALSE, !.handle = h]
    BY <1>4 DEF ExitAll
  <2> HIDE DEF n
  <2>2. Calmed(n, d)
    BY <1>2, DestroyTwoCalm
  <2> HIDE DEF d
  <2>3. ClientSound(d) /\ d \in ClientStates
    BY <1>2, <2>2, CalmedSound DEF Calmed
  <2>4. e \in Seq(Nat) /\ Len(e) = 0
    OBVIOUS
  <2>5. client' = x
    BY <2>1, <2>3 DEF ClientStates
  <2>6. no \in BOOLEAN
    OBVIOUS
  <2> HIDE DEF e, no
  <2>7. u.stack = e /\ 0 <= 2 /\ 0 # 2
    BY <2>3 DEF ClientStates
  <2>8. StackInShape(u)
    <3> HIDE DEF u
    <3> QED
      BY <2>4, <2>7 DEF StackInShape
  <2>9. \A i \in 1 .. Len(e) : e[i] \in 1 .. Len(d.skill)
    BY <2>4
  <2>10. ClientSound(u)
    BY <2>3, <2>4, <2>8, <2>9, StackPut DEF Succeeds
  <2> HIDE DEF u
  <2>11. ClientSound(w)
    BY <2>6, <2>10, FlagsSound DEF SucceedsInPlace, Succeeds
  <2> HIDE DEF w
  <2>12. h \in [SkillApps -> {0} \cup ChainIds]
    OBVIOUS
  <2> HIDE DEF h
  <2>13. w \in ClientStates
    BY <2>11 DEF ClientSound
  <2>14. Calmed(w, x)
    BY <2>12, <2>13 DEF Calmed, ClientStates
  <2> HIDE DEF x
  <2>15. ClientSound(x)
    BY <2>11, <2>14, CalmedSound
  <2> QED
    BY <2>5, <2>15 DEF ClientIInv
<1>5. CASE \E a \in SkillApps : ExitRequest(a)
  <2>1. /\ client' \in {Empty(n), n, ExitSkill(n, cur)}
        /\ cur = 0 => client' = Empty(n)
    BY <1>5 DEF ExitRequest
  <2> HIDE DEF n
  <2>2. ClientSound(Empty(n))
    BY <1>2, EmptySound DEF SucceedsInPlace, Succeeds
  <2>3. cur # 0 => ClientSound(ExitSkill(n, cur))
    BY <1>2, CurrentIs, ExitSkillSound
  <2> HIDE DEF cur
  <2> QED
    BY <1>2, <2>1, <2>2, <2>3 DEF ClientIInv
<1> QED
  BY <1>3, <1>4, <1>5

LEMMA PausesStep ==
    ASSUME ClientSound(client),
           PauseClient \/ ResumeClient \/ TaskTimer \/ (\E flag \in BOOLEAN : Quiet(flag))
    PROVE  ClientIInv'
<1> DEFINE yes == TRUE
           no == FALSE
           on == [client EXCEPT !.app.needResume = yes]
           off == [client EXCEPT !.app.needResume = no]
<1>1. yes \in BOOLEAN /\ no \in BOOLEAN /\ client \in ClientStates
  BY DEF ClientSound
<1>2. CASE PauseClient
  <2>1. client' = PauseManager(on)
    BY <1>2 DEF PauseClient
  <2> HIDE DEF yes
  <2>2. ClientSound(on)
    BY <1>1, FlagsSound DEF SucceedsInPlace, Succeeds
  <2> HIDE DEF on
  <2> QED
    BY <2>1, <2>2, PauseManagerSound DEF ClientIInv
<1>3. CASE ResumeClient
  <2>1. client' = Activated(ResumeCurrent(TimerCleared(off)))
    BY <1>3 DEF ResumeClient
  <2> HIDE DEF no
  <2>2. ClientSound(off)
    BY <1>1, FlagsSound DEF SucceedsInPlace, Succeeds
  <2> HIDE DEF off
  <2>3. ClientSound(TimerCleared(off))
    BY <2>2, ActivatedSound
  <2>4. ClientSound(ResumeCurrent(TimerCleared(off)))
    BY <2>3, ResumeCurrentSound DEF SucceedsInPlace, Succeeds
  <2>5. ClientSound(Activated(ResumeCurrent(TimerCleared(off))))
    BY <2>4, ActivatedSound
  <2> QED
    BY <2>1, <2>5 DEF ClientIInv
<1>4. CASE TaskTimer
  <2> DEFINE t == TimerCleared(client)
             u == [t EXCEPT !.app.needResume = no]
  <2>1. client' = u
    BY <1>4 DEF TaskTimer
  <2>2. ClientSound(t)
    BY ActivatedSound
  <2> HIDE DEF t, no
  <2>3. ClientSound(u)
    BY <1>1, <2>2, FlagsSound DEF SucceedsInPlace, Succeeds
  <2> QED
    BY <2>1, <2>3 DEF ClientIInv
<1>5. CASE \E flag \in BOOLEAN : Quiet(flag)
  <2>1. PICK flag \in BOOLEAN : Quiet(flag)
    BY <1>5
  <2> DEFINE s == [client EXCEPT !.app.manualPause = flag]
  <2>2. client' \in {PauseManager(s), Activated(ResumeCurrent(s))}
    BY <2>1 DEF Quiet
  <2>3. ClientSound(s)
    BY FlagsSound DEF SucceedsInPlace, Succeeds
  <2> HIDE DEF s
  <2>4. ClientSound(ResumeCurrent(s))
    BY <2>3, ResumeCurrentSound DEF SucceedsInPlace, Succeeds
  <2>5. ClientSound(Activated(ResumeCurrent(s))) /\ ClientSound(PauseManager(s))
    BY <2>3, <2>4, ActivatedSound, PauseManagerSound
  <2> QED
    BY <2>2, <2>5 DEF ClientIInv
<1> QED
  BY <1>2, <1>3, <1>4, <1>5

LEMMA AskedSound ==
    ASSUME NEW s, ClientSound(s), NEW c \in ChainIds, s.chains[c] # Unused,
           NEW canceled \in BOOLEAN
    PROVE  ClientSound(SendEventRequest(s, c, canceled))
<1> DEFINE r == [s.chains[c] EXCEPT !.stage = "asked", !.canceled = canceled]
<1>1. s \in ClientStates /\ s.chains[c] \in ChainRecord
  BY ChainTyped DEF ClientSound, ClientStates
<1>2. r \in ChainRecord /\ r.skill = s.chains[c].skill
  BY <1>1 DEF ChainRecord
<1>3. SendEventRequest(s, c, canceled) = [s EXCEPT !.chains[c] = r]
  BY <1>1 DEF SendEventRequest, ClientStates
<1> HIDE DEF r
<1> QED
  BY <1>2, <1>3, ChainPut DEF SucceedsInPlace, Succeeds

LEMMA CanceledSound ==
    ASSUME NEW s, ClientSound(s), NEW c \in ChainIds, s.chains[c] # Unused,
           NEW canceled \in BOOLEAN
    PROVE  LET t == [s EXCEPT !.chains[c].canceled = canceled]
           IN  ClientSound(t) /\ t.chains[c] # Unused
<1> DEFINE r == [s.chains[c] EXCEPT !.canceled = canceled]
           t == [s EXCEPT !.chains[c].canceled = canceled]
<1>1. s \in ClientStates /\ s.chains[c] \in ChainRecord
  BY ChainTyped DEF ClientSound, ClientStates
<1>2. r \in ChainRecord /\ r.skill = s.chains[c].skill
  BY <1>1 DEF ChainRecord
<1>3. t = [s EXCEPT !.chains[c] = r]
  BY <1>1 DEF ClientStates
<1> HIDE DEF r
<1>4. ClientSound(t) /\ t.chains[c] # Unused
  <2> HIDE DEF t
  <2> QED
    BY <1>2, <1>3, ChainPut DEF SucceedsInPlace, Succeeds
<1> QED
  BY <1>4

LEMMA MediaResolvedStep ==
    ASSUME ClientSound(client), NEW c \in ChainIds, MediaResolved(c), client.chains[c] # Unused
    PROVE  ClientIInv'
<1> DEFINE a == client.skill[client.chains[c].skill].app
           s == StopPlayer(client, a)
           h == [s.handle EXCEPT ![a] = c]
           t == [s EXCEPT !.handle = h]
           r == [t.chains[c] EXCEPT !.stage = "media"]
           u == [t EXCEPT !.chains[c] = r]
<1>1. client \in ClientStates /\ NamesSkills(client)
  BY DEF ClientSound
<1>2. a \in SkillApps
  BY <1>1, SkillTyped DEF NamesSkills, SkillRecord
<1>3. client' = [s EXCEPT !.handle[a] = c, !.chains[c].stage = "media"]
  BY DEF MediaResolved
<1> HIDE DEF a
<1>4. Calmed(client, s)
  BY <1>1, <1>2, StopPlayerCalm
<1> HIDE DEF s
<1>5. ClientSound(s) /\ s \in ClientStates /\ s.chains[c] # Unused
  BY <1>4, CalmedSound DEF Calmed
<1>6. h \in [SkillApps -> {0} \cup ChainIds]
  BY <1>5 DEF ClientStates
<1>7. client' = [[s EXCEPT !.handle = h] EXCEPT !.chains[c].stage = "media"]
  BY <1>3, <1>5 DEF ClientStates
<1> HIDE DEF h
<1>8. t.chains = s.chains /\ Calmed(s, t)
  BY <1>5, <1>6 DEF Calmed, ClientStates
<1>9. client' = u
  BY <1>5, <1>7 DEF ClientStates
<1> HIDE DEF t
<1>10. ClientSound(t) /\ t \in ClientStates /\ t.chains[c] # Unused
  BY <1>5, <1>8, CalmedSound DEF Calmed
<1>11. t.chains[c] \in ChainRecord
  BY <1>10, ChainTyped DEF ClientStates
<1>12. r \in ChainRecord /\ r.skill = t.chains[c].skill
  BY <1>11 DEF ChainRecord
<1> HIDE DEF r
<1>13. ClientSound(u)
  BY <1>10, <1>12, ChainPut DEF SucceedsInPlace, Succeeds
<1> QED
  BY <1>9, <1>13 DEF ClientIInv

LEMMA ChainStepStep ==
    ASSUME ClientSound(client), NEW c \in ChainIds, ChainStep(c)
    PROVE  ClientIInv'
<1> DEFINE no == FALSE
           yes == TRUE
           r == client.chains[c]
<1>1. client \in ClientStates /\ no \in BOOLEAN /\ yes \in BOOLEAN
  BY DEF ClientSound
<1>2. r # Unused
  <2>1. r.stage \in {"tts", "opening", "media", "native", "asked"}
    BY DEF ChainStep, ChainAt, TtsEnds, TtsCanceled, TtsFails, MediaResolved, MediaFails,
           MediaEnds, NativeSettles, CloudAnswers, PlaysAlready
  <2> QED
    BY <2>1 DEF Unused
<1>3. r \in ChainRecord /\ r.told \in BOOLEAN /\ r.canceled \in BOOLEAN
  BY <1>1, <1>2, ChainTyped DEF ClientStates, ChainRecord
<1>4. CASE TtsEnds(c) \/ TtsFails(c) \/ MediaFails(c) \/ MediaEnds(c)
  <2>1. client' \in {SendEventRequest(client, c, no), SendEventRequest(client, c, yes),
                     SendEventRequest(client, c, r.told)}
    BY <1>4 DEF TtsEnds, TtsFails, MediaFails, MediaEnds
  <2> HIDE DEF no, yes, r
  <2>2. /\ ClientSound(SendEventRequest(client, c, no))
        /\ ClientSound(SendEventRequest(client, c, yes))
        /\ ClientSound(SendEventRequest(client, c, r.told))
    BY <1>1, <1>2, <1>3, AskedSound DEF r
  <2> QED
    BY <2>1, <2>2 DEF ClientIInv
<1>5. CASE TtsCanceled(c)
  <2> DEFINE s == [client EXCEPT !.chains[c].canceled = yes]
  <2>1. client' \in {Completed(s, c), SendEventRequest(client, c, yes)}
    BY <1>5 DEF TtsCanceled
  <2> HIDE DEF yes
  <2>2. ClientSound(s) /\ s.chains[c] # Unused
    BY <1>1, <1>2, CanceledSound
  <2> HIDE DEF s
  <2>3. ClientSound(Completed(s, c)) /\ ClientSound(SendEventRequest(client, c, yes))
    BY <1>1, <1>2, <2>2, CompletedSound, AskedSound
  <2> QED
    BY <2>1, <2>3 DEF ClientIInv
<1>6. CASE MediaResolved(c)
  BY <1>2, <1>6, MediaResolvedStep
<1>7. CASE NativeSettles(c) \/ PlaysAlready(c)
  <2>1. client' = Continue(client, c)
    BY <1>7 DEF NativeSettles, PlaysAlready
  <2> QED
    BY <1>2, <2>1, ContinueSound DEF ClientIInv
<1>8. CASE \E failed \in BOOLEAN : CloudAnswers(c, failed)
  <2>1. PICK failed \in BOOLEAN : CloudAnswers(c, failed)
    BY <1>8
  <2> DEFINE b == r.canceled \/ failed
             s == [client EXCEPT !.chains[c].canceled = b]
  <2>2. client' = Continue(s, c)
    BY <1>1, <2>1 DEF CloudAnswers, ClientStates
  <2>3. b \in BOOLEAN
    OBVIOUS
  <2> HIDE DEF b
  <2>4. ClientSound(s) /\ s.chains[c] # Unused
    BY <1>2, <2>3, CanceledSound
  <2> HIDE DEF s
  <2> QED
    BY <2>2, <2>4, ContinueSound DEF ClientIInv
<1> QED
  BY <1>4, <1>5, <1>6, <1>7, <1>8 DEF ChainStep

LEMMA CloudRespondsStep ==
    ASSUME ClientSound(client), NEW c \in ChainIds, NEW list \in Scripts, NEW ends \in BOOLEAN,
           CloudResponds(c, list, ends)
    PROVE  ClientIInv'
<1> DEFINE a == client.skill[client.chains[c].skill].app
           r == [client.app EXCEPT !.answers = @ + 1]
           s == [client EXCEPT !.app = r]
           yes == TRUE
<1>1. client \in ClientStates /\ client.app \in ClientApps /\ yes \in BOOLEAN /\ yes = TRUE
  BY DEF ClientSound, ClientStates
<1>2. list \in Seq(Steps)
  BY ClientAssumption DEF Steps
<1>3. client.chains[c] # Unused /\ client.app.answers < MaxAnswers
  BY DEF CloudResponds, ChainAt, Unused
<1>4. r \in ClientApps /\ r.requests = client.app.requests
  <2>1. client.app.answers + 1 \in 0 .. MaxAnswers
    BY <1>1, <1>3, ClientAssumption DEF ClientApps
  <2> QED
    BY <1>1, <2>1 DEF ClientApps
<1>5. s = [client EXCEPT !.app.answers = @ + 1]
  BY <1>1 DEF ClientStates
<1>6. \/ \E k \in OfSkill(client, a) : client' = Continue(OnRequest(s, k, list, ends, yes), c)
      \/ client' = Continue(s, c)
  BY <1>5 DEF CloudResponds
<1> HIDE DEF r, yes
<1>7. s.skill = client.skill /\ s.chains = client.chains
  BY <1>1 DEF ClientStates
<1>8. ClientSound(s) /\ s.chains[c] # Unused
  BY <1>3, <1>4, <1>7, AppSound DEF SucceedsInPlace, Succeeds
<1> HIDE DEF s
<1>9. CASE \E k \in OfSkill(client, a) : client' = Continue(OnRequest(s, k, list, ends, yes), c)
  <2>1. PICK k \in OfSkill(client, a) : client' = Continue(OnRequest(s, k, list, ends, yes), c)
    BY <1>9
  <2>2. k \in 1 .. Len(s.skill)
    BY <1>1, <1>7 DEF OfSkill, ClientStates
  <2> DEFINE t == OnRequest(s, k, list, ends, yes)
  <2>3. Succeeds(s, t)
    BY <1>1, <1>2, <1>8, <2>2, OnRequestSound
  <2> HIDE DEF t
  <2>4. ClientSound(t) /\ t.chains[c] # Unused
    BY <1>8, <2>3 DEF Succeeds
  <2>5. client' = Continue(t, c)
    BY <2>1 DEF t
  <2> QED
    BY <2>4, <2>5, ContinueSound DEF ClientIInv
<1>10. CASE client' = Continue(s, c)
  BY <1>8, <1>10, ContinueSound DEF ClientIInv
<1> QED
  BY <1>6, <1>9, <1>10

LEMMA ClientInductive == ClientIInv /\ [ClientNext]_client => ClientIInv'
<1> SUFFICES ASSUME ClientIInv, [ClientNext]_client PROVE ClientIInv'
  OBVIOUS
<1>1. ClientSound(client)
  BY DEF ClientIInv
<1>2. CASE StartSkill
  BY <1>2, StartSkillStep
<1>3. CASE \E a \in SkillApps, form \in {"cut", "scene"}, list \in Scripts, ends \in BOOLEAN :
              RequestArrives(a, form, list, ends)
  BY <1>1, <1>3, RequestStep
<1>4. CASE EmptyRequest \/ ExitAll \/ (\E a \in SkillApps : ExitRequest(a))
  BY <1>1, <1>4, OtherRequestsStep
<1>5. CASE PauseClient \/ ResumeClient \/ TaskTimer \/ (\E flag \in BOOLEAN : Quiet(flag))
  BY <1>1, <1>5, PausesStep
<1>6. CASE \E c \in ChainIds : ChainStep(c)
  BY <1>1, <1>6, ChainStepStep
<1>7. CASE \E c \in ChainIds, list \in Scripts, ends \in BOOLEAN : CloudResponds(c, list, ends)
  BY <1>1, <1>7, CloudRespondsStep
<1>8. CASE UNCHANGED client
  BY <1>1, <1>8 DEF ClientIInv, ClientSound, NamesSkills, StackInShape, ChainsCounted, ChainsOf
<1> QED
  BY <1>2, <1>3, <1>4, <1>5, <1>6, <1>7, <1>8 DEF ClientNext

LEMMA ClientStarts == ClientInit => ClientIInv
<1> SUFFICES ASSUME ClientInit PROVE ClientSound(client)
  BY DEF ClientIInv
<1>1. /\ client.skill = <<>> /\ client.stack = <<>> /\ client.frontend = 0 /\ client.tick = 0
      /\ client.chains = [c \in ChainIds |-> Unused] /\ client.app.requests = 0
  BY DEF ClientInit
<1>2. client \in ClientStates
  <2>1. <<>> \in Seq(SkillRecord) /\ <<>> \in Seq(Nat) /\ 0 \in Nat
    OBVIOUS
  <2>2. [c \in ChainIds |-> Unused] \in [ChainIds -> ChainRecord \cup {Unused}]
    OBVIOUS
  <2>3. [a \in SkillApps |-> 0] \in [SkillApps -> {0} \cup ChainIds]
    OBVIOUS
  <2>4. client.app \in ClientApps
    BY ClientAssumption DEF ClientInit, ClientApps
  <2> QED
    BY <2>1, <2>2, <2>3, <2>4 DEF ClientInit, ClientStates
<1>3. NamesSkills(client) /\ StackInShape(client) /\ ChainsCounted(client)
  <2>1. Len(client.skill) = 0 /\ Len(client.stack) = 0 /\ 0 <= 2 /\ 0 # 2
    BY <1>1
  <2> QED
    BY <1>1, <2>1 DEF NamesSkills, StackInShape, ChainsCounted
<1> QED
  BY <1>2, <1>3 DEF ClientSound

LEMMA ClientIInvGives == ClientIInv => ClientInv
<1> SUFFICES ASSUME ClientSound(client) PROVE ClientInv
  BY DEF ClientIInv
<1>1. client \in ClientStates /\ NamesSkills(client) /\ StackInShape(client)
  BY DEF ClientSound
<1>2. /\ client.skill \in Seq(SkillRecord) /\ client.stack \in Seq(Nat) /\ client.app \in ClientApps
      /\ client.frontend \in Nat /\ client.tick \in Nat /\ Len(client.skill) \in Nat
  BY <1>1 DEF ClientStates
<1>3. Len(client.skill) <= MaxRequests
  BY <1>1, <1>2, ClientAssumption DEF NamesSkills, ClientApps
<1>4. 1 .. Len(client.skill) \subseteq SkillIds /\ 0 .. Len(client.skill) \subseteq {0} \cup SkillIds
  BY <1>2, <1>3, ClientAssumption DEF SkillIds
<1>5. client.stack \in Seq(SkillIds)
  <2>1. \A i \in 1 .. Len(client.stack) : client.stack[i] \in SkillIds
    BY <1>1, <1>4 DEF NamesSkills
  <2> QED
    BY <1>2, <2>1
<1>6. ClientTypeOK
  BY <1>1, <1>2, <1>3, <1>4, <1>5 DEF ClientTypeOK, ClientStates, ClientApps, NamesSkills
<1>7. SceneUnderCut /\ ScenePausedUnderCut
  BY <1>1 DEF StackInShape, SceneUnderCut, ScenePausedUnderCut
<1> QED
  BY <1>6, <1>7 DEF ClientInv

\* Whatever requests, answers, cancellations and ends come late: of the skills
\* in the stack at most two, the lower one is a scene, of another app, and
\* paused, as nothing starts it meanwhile (cloudappclient's manager and skill).
THEOREM SkillsStacked == ClientSpec => []ClientInv
<1>1. ClientInit => ClientIInv
  BY ClientStarts
<1>2. ClientIInv /\ [ClientNext]_client => ClientIInv'
  BY ClientInductive
<1>3. ClientIInv => ClientInv
  BY ClientIInvGives
<1> QED
  BY <1>1, <1>2, <1>3, PTL DEF ClientSpec
=============================================================================
