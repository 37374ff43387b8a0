---------------------------- MODULE TimesProofs -----------------------------
(***************************************************************************)
(* Proofs about the apps that wait for a time: alarms, the timer and the   *)
(* sleep that is timed, for any jobs, dates, commands and rings.           *)
(*                                                                         *)
(* Each holds for the timings of its assumption. Every one that is left    *)
(* out (AlarmOps, Weekends, Sundays, TimerOps, SleepOps) breaks it, as TLC *)
(* finds with that operation alone.                                        *)
(***************************************************************************)
EXTENDS TimedSleep, SequenceTheorems, TLAPS

-----------------------------------------------------------------------------
(***************************************************************************)
(* Proofs about the alarm app, for any jobs, reminders and dates and any   *)
(* number of commands, as long as no second moment comes while jobs wait   *)
(* to be in front, none is deleted then or while one rings that rings      *)
(* once, and none is repeated on a Sunday: of the jobs that are due at     *)
(* once one is left in the queue, the one that rings.                      *)
(***************************************************************************)

AlarmState ==
    [jobs : SUBSET Jobs, queue : SUBSET Jobs, active : Jobs \cup {NoJob},
     waiting : SUBSET (Jobs \X SUBSET Jobs), starting : Nat, tasks : Nat, stops : Nat,
     chains : [Chains -> Nat], media : {"off", "first", "ring"}, errors : Nat,
     startTts : BOOLEAN, down : BOOLEAN]

Write ==
    [at : {"read", "unlink", "write"}, id : Nat, data : SUBSET Jobs,
     adds : SUBSET Jobs, removes : SUBSET Jobs]

Typed(a) == a \in AlarmState

Filed ==
    /\ file \in (SUBSET Jobs) \cup {NoFile}
    /\ writes \subseteq Write
    /\ dues \in 0 .. MaxDue /\ ops \in 0 .. MaxOps

\* Those that wait were due at once and still exist; the one that rings was due
\* with them, exists as well, and is preferred to each of them.  One that rings
\* once exists even if none waits: its end destroys no other.
Awaited(jobs, active, waiting) ==
    /\ {active} \cap Single \subseteq jobs
    /\ \A w, x \in waiting : w[2] = x[2]
    /\ \A w \in waiting : w[1] \in w[2] /\ w[1] \in jobs
    /\ active # NoJob => \A w \in waiting : /\ active \in w[2] /\ active \in jobs
                                            /\ CompareTask(active, w[1])

AlarmIInv ==
    /\ Typed(alarm) /\ Filed
    /\ QueuedIsActive
    /\ Awaited(alarm.jobs, alarm.active, alarm.waiting)

-----------------------------------------------------------------------------
(* Which of two jobs gives way *)

LEMMA Asymmetric ==
    ASSUME NEW j \in Jobs, NEW k \in Jobs, CompareTask(j, k)
    PROVE  ~CompareTask(k, j) /\ j # k
BY AlarmAssumption DEF CompareTask

-----------------------------------------------------------------------------
(* What the operations make of the app *)

LEMMA ClearedTyped ==
    ASSUME NEW a, Typed(a)
    PROVE  /\ Typed(Cleared(a))
           /\ Cleared(a).jobs = Destroyed(a.jobs, ActiveSingle(a))
           /\ Cleared(a).queue = a.queue \ {a.active}
           /\ Cleared(a).active = NoJob
           /\ Cleared(a).waiting = a.waiting
<1>1. a \in AlarmState
  BY DEF Typed
<1> DEFINE c == [a.chains EXCEPT !["speak"] = 0]
           t == Less(a.tasks)
           s == Less(a.stops)
           q == a.queue \ {a.active}
           j == Destroyed(a.jobs, ActiveSingle(a))
<1>2. c \in [Chains -> Nat] /\ t \in Nat /\ s \in Nat /\ q \in SUBSET Jobs /\ j \in SUBSET Jobs
  BY <1>1 DEF AlarmState, Less, Chains, Destroyed
<1>3. Cleared(a) = [a EXCEPT !.queue = q, !.jobs = j, !.active = NoJob, !.media = "off",
                             !.chains = c, !.tasks = t, !.stops = s]
  BY <1>1 DEF Cleared, AlarmState
<1> HIDE DEF c, t, s, q, j
<1>4. Cleared(a) \in AlarmState
  BY <1>1, <1>2, <1>3 DEF AlarmState
<1>5. /\ Cleared(a).jobs = j /\ Cleared(a).queue = q /\ Cleared(a).active = NoJob
      /\ Cleared(a).waiting = a.waiting
  BY <1>1, <1>3 DEF AlarmState
<1> QED
  BY <1>4, <1>5 DEF Typed, q, j

LEMMA Written ==
    ASSUME Filed, dues' \in 0 .. MaxDue, ops' \in 0 .. MaxOps, UNCHANGED file,
           UNCHANGED writes \/ \E adds, removes \in SUBSET Jobs : SetConfig(adds, removes)
    PROVE  Filed'
<1>1. CASE UNCHANGED writes
  BY <1>1 DEF Filed
<1>2. ASSUME NEW adds \in SUBSET Jobs, NEW removes \in SUBSET Jobs, SetConfig(adds, removes)
      PROVE  Filed'
  <2> DEFINE n == ops + dues
  <2>1. n \in Nat
    BY AlarmAssumption DEF Filed
  <2>2. writes' = writes \cup {[at |-> "read", id |-> n, data |-> {}, adds |-> adds,
                                removes |-> removes]}
    BY <1>2 DEF SetConfig
  <2> HIDE DEF n
  <2>3. [at |-> "read", id |-> n, data |-> {}, adds |-> adds, removes |-> removes] \in Write
    BY <2>1 DEF Write
  <2> QED
    BY <2>2, <2>3 DEF Filed
<1> QED
  BY <1>1, <1>2

\* A step that concerns neither jobs nor the queue, however the chains go.
LEMMA RingGoes ==
    ASSUME AlarmIInv, Typed(alarm'), Filed',
           alarm'.jobs = alarm.jobs, alarm'.queue = alarm.queue,
           alarm'.active = alarm.active, alarm'.waiting = alarm.waiting
    PROVE  AlarmIInv'
BY DEF AlarmIInv, QueuedIsActive, Awaited

\* Whoever clears the app leaves those that wait.
LEMMA ClearKeeps ==
    ASSUME AlarmIInv
    PROVE  /\ alarm.queue \ {alarm.active} = {}
           /\ Destroyed(alarm.jobs, ActiveSingle(alarm)) = alarm.jobs \ ActiveSingle(alarm)
           /\ Awaited(alarm.jobs \ ActiveSingle(alarm), NoJob, alarm.waiting)
<1>1. alarm.queue \ {alarm.active} = {}
  BY DEF AlarmIInv, QueuedIsActive
<1>2. ASSUME NEW w \in alarm.waiting PROVE w[1] \notin ActiveSingle(alarm)
  <2>1. w[1] \in Jobs /\ alarm.active \in Jobs \cup {NoJob}
    BY DEF AlarmIInv, Typed, AlarmState
  <2>2. CASE alarm.active # NoJob
    BY <2>1, <2>2, Asymmetric DEF AlarmIInv, Awaited, ActiveSingle
  <2>3. CASE alarm.active = NoJob
    BY <2>1, <2>3, AlarmAssumption DEF ActiveSingle
  <2> QED
    BY <2>2, <2>3
<1>3. ActiveSingle(alarm) \subseteq alarm.jobs /\ {NoJob} \cap Single = {}
  BY AlarmAssumption DEF AlarmIInv, Awaited, ActiveSingle
<1> QED
  BY <1>1, <1>2, <1>3 DEF AlarmIInv, Awaited, Destroyed

-----------------------------------------------------------------------------
(* The actions *)

LEMMA RingSteps ==
    ASSUME AlarmIInv,
           \/ FirstStarted \/ SoundFails \/ OnMediaError
           \/ TaskTimeout \/ SpeechFails \/ LoopSet
           \/ \E from, to \in Chains, tts \in BOOLEAN : ChainGoes(from, to, tts)
           \/ \E w \in writes : WriteGoes(w)
    PROVE  AlarmIInv'
<1>1. alarm \in AlarmState /\ Filed
  BY DEF AlarmIInv, Typed
<1>2. CASE FirstStarted
  <2> DEFINE m == alarm.starting - 1
             n == alarm.tasks + 1
  <2>1. Filed'
    BY <1>1, <1>2 DEF FirstStarted, Filed
  <2>a. m \in Nat /\ n \in Nat
    BY <1>1, <1>2 DEF FirstStarted, AlarmState
  <2>b. \/ alarm' = [alarm EXCEPT !.starting = m, !.tasks = n]
        \/ alarm' = [alarm EXCEPT !.starting = m]
    BY <1>2 DEF FirstStarted
  <2> HIDE DEF m, n
  <2>2. /\ alarm' \in AlarmState
        /\ alarm'.jobs = alarm.jobs /\ alarm'.queue = alarm.queue
        /\ alarm'.active = alarm.active /\ alarm'.waiting = alarm.waiting
    BY <1>1, <2>a, <2>b DEF AlarmState
  <2> QED
    BY <2>1, <2>2, RingGoes DEF Typed
<1>3. CASE TaskTimeout
  <2> DEFINE c == [alarm.chains EXCEPT !["foreground"] = @ + 1]
             n == alarm.tasks - 1
  <2>1. Filed'
    BY <1>1, <1>3 DEF TaskTimeout, Filed
  <2>2. c \in [Chains -> Nat] /\ n \in Nat
    BY <1>1, <1>3 DEF TaskTimeout, AlarmState, Chains
  <2>3. \/ alarm' = [alarm EXCEPT !.tasks = n, !.down = TRUE]
        \/ \E tts \in BOOLEAN : alarm' = [alarm EXCEPT !.tasks = n, !.media = "off",
                                                      !.chains = c, !.startTts = tts]
    <3>1. (alarm.startTts \/ alarm.active \in Reminders) \in BOOLEAN
      OBVIOUS
    <3> QED
      BY <1>1, <1>3, <3>1 DEF TaskTimeout, AlarmState
  <2> HIDE DEF c, n
  <2>4. /\ alarm' \in AlarmState
        /\ alarm'.jobs = alarm.jobs /\ alarm'.queue = alarm.queue
        /\ alarm'.active = alarm.active /\ alarm'.waiting = alarm.waiting
    BY <1>1, <2>2, <2>3 DEF AlarmState
  <2> QED
    BY <2>1, <2>4, RingGoes DEF Typed
<1>4. CASE SpeechFails \/ LoopSet
  <2> DEFINE d == [alarm.chains EXCEPT !["speak"] = @ - 1]
             e == [alarm.chains EXCEPT !["loop"] = @ - 1]
             n == alarm.stops + 1
  <2>1. Filed'
    BY <1>1, <1>4 DEF SpeechFails, LoopSet, Filed
  <2> PICK c : /\ c \in [Chains -> Nat]
               /\ \/ alarm' = [alarm EXCEPT !.chains = c]
                  \/ alarm' = [alarm EXCEPT !.chains = c, !.stops = n]
    <3>1. CASE SpeechFails
      <4>1. d \in [Chains -> Nat]
        BY <1>1, <3>1 DEF SpeechFails, AlarmState, Chains
      <4>2. alarm' = [alarm EXCEPT !.chains = d]
        BY <1>1, <3>1 DEF SpeechFails, AlarmState
      <4> QED
        BY <4>1, <4>2
    <3>2. CASE LoopSet
      <4>1. e \in [Chains -> Nat]
        BY <1>1, <3>2 DEF LoopSet, AlarmState, Chains
      <4>2. alarm' = [alarm EXCEPT !.chains = e, !.stops = n]
        BY <1>1, <3>2 DEF LoopSet, AlarmState
      <4> QED
        BY <4>1, <4>2
    <3> QED
      BY <1>4, <3>1, <3>2
  <2>2. n \in Nat
    BY <1>1 DEF AlarmState
  <2> HIDE DEF d, e, n
  <2>3. /\ alarm' \in AlarmState
        /\ alarm'.jobs = alarm.jobs /\ alarm'.queue = alarm.queue
        /\ alarm'.active = alarm.active /\ alarm'.waiting = alarm.waiting
    BY <1>1, <2>2 DEF AlarmState
  <2> QED
    BY <2>1, <2>3, RingGoes DEF Typed
<1>5. ASSUME NEW from \in Chains, NEW to \in Chains, NEW tts \in BOOLEAN,
             ChainGoes(from, to, tts)
      PROVE  AlarmIInv'
  <2> DEFINE c == Moved(alarm.chains, from, to)
             m == IF to = "loop" THEN "ring" ELSE alarm.media
             s == alarm.startTts \/ tts
  <2>1. Filed'
    BY <1>1, <1>5 DEF ChainGoes, Filed
  <2>2. c \in [Chains -> Nat] /\ m \in {"off", "first", "ring"} /\ s \in BOOLEAN
    <3>1. alarm.chains \in [Chains -> Nat] /\ alarm.chains[from] > 0 /\ from # to
      BY <1>1, <1>5 DEF ChainGoes, AlarmState
    <3> QED
      BY <1>1, <3>1 DEF AlarmState, Moved
  <2>3. alarm' = [alarm EXCEPT !.chains = c, !.media = m, !.startTts = s]
    BY <1>1, <1>5 DEF ChainGoes, AlarmState
  <2> HIDE DEF c, m, s
  <2>4. /\ alarm' \in AlarmState
        /\ alarm'.jobs = alarm.jobs /\ alarm'.queue = alarm.queue
        /\ alarm'.active = alarm.active /\ alarm'.waiting = alarm.waiting
    BY <1>1, <2>2, <2>3 DEF AlarmState
  <2> QED
    BY <2>1, <2>4, RingGoes DEF Typed
<1>6. ASSUME NEW w \in writes, WriteGoes(w) PROVE AlarmIInv'
  <2>1. alarm' = alarm /\ dues' = dues /\ ops' = ops
    BY <1>6 DEF WriteGoes
  <2>2. w \in Write /\ writes \subseteq Write /\ file \in (SUBSET Jobs) \cup {NoFile}
    BY <1>1 DEF Filed
  <2> DEFINE d == (file \cup w.adds) \ w.removes
  <2>3. CASE /\ file # NoFile /\ UNCHANGED file
             /\ writes' = (writes \ {w}) \cup {[w EXCEPT !.at = "unlink", !.data = d]}
    <3>1. d \in SUBSET Jobs
      BY <2>2, <2>3 DEF Write
    <3> HIDE DEF d
    <3>2. [w EXCEPT !.at = "unlink", !.data = d] \in Write
      BY <2>2, <3>1 DEF Write
    <3> QED
      BY <1>1, <2>1, <2>2, <2>3, <3>2, RingGoes DEF Filed, AlarmIInv
  <2>4. CASE file' = NoFile /\ writes' = (writes \ {w}) \cup {[w EXCEPT !.at = "write"]}
    <3>1. [w EXCEPT !.at = "write"] \in Write
      BY <2>2 DEF Write
    <3> QED
      BY <1>1, <2>1, <2>2, <2>4, <3>1, RingGoes DEF Filed, AlarmIInv
  <2>5. CASE writes' = writes \ {w} /\ file' \in {file, w.data}
    BY <1>1, <2>1, <2>2, <2>5, RingGoes DEF Filed, AlarmIInv, Write
  <2> QED
    BY <1>6, <2>3, <2>4, <2>5 DEF WriteGoes
<1>7. CASE SoundFails \/ OnMediaError
  <2> DEFINE m == alarm.errors + 1
             n == alarm.errors - 1
             k == alarm.starting + 1
  <2>1. Filed'
    BY <1>1, <1>7, AlarmAssumption DEF SoundFails, OnMediaError, Filed
  <2>2. m \in Nat /\ k \in Nat /\ (OnMediaError => n \in Nat)
    BY <1>1 DEF OnMediaError, AlarmState
  <2>3. \/ alarm' = [alarm EXCEPT !.media = "off", !.errors = m]
        \/ /\ OnMediaError
           /\ \/ alarm' = [alarm EXCEPT !.errors = n]
              \/ alarm' = [alarm EXCEPT !.errors = n, !.down = TRUE]
              \/ alarm' = [alarm EXCEPT !.errors = n, !.media = "first", !.starting = k]
    BY <1>1, <1>7 DEF SoundFails, OnMediaError, PlayFirstMedia, AlarmState
  <2> HIDE DEF m, n, k
  <2>4. /\ alarm' \in AlarmState
        /\ alarm'.jobs = alarm.jobs /\ alarm'.queue = alarm.queue
        /\ alarm'.active = alarm.active /\ alarm'.waiting = alarm.waiting
    BY <1>1, <2>2, <2>3 DEF AlarmState
  <2> QED
    BY <2>1, <2>4, RingGoes DEF Typed
<1> QED
  BY <1>2, <1>3, <1>4, <1>5, <1>6, <1>7

LEMMA ClearSteps ==
    ASSUME AlarmIInv, UserStops \/ StopTimeout
    PROVE  AlarmIInv'
<1>1. alarm \in AlarmState /\ Filed
  BY DEF AlarmIInv, Typed
<1>2. Filed'
  <2>1. ActiveSingle(alarm) \in SUBSET Jobs
    BY AlarmAssumption DEF ActiveSingle
  <2> QED
    BY <1>1, <2>1, Written, AlarmAssumption DEF UserStops, ClearAll, StopTimeout, Filed
<1>3. PICK a : /\ Typed(a) /\ alarm' = Cleared(a)
               /\ a.jobs = alarm.jobs /\ a.queue = alarm.queue
               /\ a.active = alarm.active /\ a.waiting = alarm.waiting
  <2>1. CASE UserStops
    BY <1>1, <2>1 DEF UserStops, ClearAll, Typed
  <2>2. CASE StopTimeout
    <3> DEFINE b == [alarm EXCEPT !.stops = @ - 1]
    <3>1. b \in AlarmState /\ b.jobs = alarm.jobs /\ b.queue = alarm.queue
          /\ b.active = alarm.active /\ b.waiting = alarm.waiting
      BY <1>1, <2>2 DEF StopTimeout, AlarmState
    <3>2. alarm' = Cleared(b)
      BY <2>2 DEF StopTimeout
    <3> HIDE DEF b
    <3> QED
      BY <3>1, <3>2 DEF Typed
  <2> QED
    BY <2>1, <2>2
<1>4. Typed(alarm')
  BY <1>3, ClearedTyped
<1>5. /\ alarm'.jobs = alarm.jobs \ ActiveSingle(alarm) /\ alarm'.queue = {}
      /\ alarm'.active = NoJob /\ alarm'.waiting = alarm.waiting
  BY <1>3, ClearedTyped, ClearKeeps DEF ActiveSingle
<1> QED
  BY <1>2, <1>4, <1>5, ClearKeeps DEF AlarmIInv, QueuedIsActive

LEMMA DueSteps ==
    ASSUME AlarmIInv, "overlap" \notin AlarmOps, Weekends = {},
           NEW due \in SUBSET Jobs, JobsDue(due)
    PROVE  AlarmIInv'
<1>1. alarm \in AlarmState /\ Filed /\ alarm.waiting = {}
  BY DEF AlarmIInv, Typed, JobsDue
<1>2. Filed'
  <2>1. ActiveSingle(alarm) \in SUBSET Jobs
    BY AlarmAssumption DEF ActiveSingle
  <2> QED
    BY <1>1, <2>1, Written, AlarmAssumption DEF JobsDue, Filed
<1> DEFINE a == Cleared(alarm)
           ws == {<<job, due>> : job \in due}
<1>3. /\ a \in AlarmState /\ a.jobs = alarm.jobs \ ActiveSingle(alarm)
      /\ a.queue = {} /\ a.active = NoJob /\ a.waiting = {}
  BY <1>1, ClearedTyped, ClearKeeps DEF Typed
<1>4. ws \in SUBSET (Jobs \X SUBSET Jobs)
  OBVIOUS
<1>5. alarm' = [a EXCEPT !.waiting = @ \cup ws]
  <2>1. ActiveSingle(alarm) \subseteq alarm.jobs
    BY DEF AlarmIInv, Awaited, ActiveSingle
  <2>2. \A job \in due : \A s \in SUBSET (Jobs \ due) : DueWith(job, due, {}, s) = due
    BY DEF DueWith
  <2> DEFINE W(begun, lost, s) ==
               alarm' = [a EXCEPT !.waiting = @ \cup {<<job, DueWith(job, due, lost, s)>> : job \in begun}]
  <2>a. \E begun \in {due} : \E lost \in {{}, due \cap Weekends} : \E s \in SUBSET (Jobs \ due) :
           W(begun, lost, s)
    BY <2>1, Zenon DEF JobsDue
  <2> HIDE DEF W
  <2>b. \E s \in SUBSET (Jobs \ due) : W(due, {}, s)
    BY <2>a
  <2>3. PICK s \in SUBSET (Jobs \ due) : W(due, {}, s)
    BY <2>b
  <2>4. {<<job, DueWith(job, due, {}, s)>> : job \in due} = ws
    BY <2>2
  <2> QED
    BY <2>3, <2>4 DEF W
<1>6. due \cap ActiveSingle(alarm) = {} /\ due \subseteq alarm.jobs
  BY DEF JobsDue, ActiveSingle
<1>7. Awaited(alarm.jobs \ ActiveSingle(alarm), NoJob, ws)
  BY <1>6, AlarmAssumption DEF Awaited
<1> HIDE DEF a, ws
<1>8. /\ alarm' \in AlarmState /\ alarm'.jobs = alarm.jobs \ ActiveSingle(alarm)
      /\ alarm'.queue = {} /\ alarm'.active = NoJob /\ alarm'.waiting = ws
  BY <1>3, <1>4, <1>5 DEF AlarmState
<1> QED
  BY <1>2, <1>7, <1>8 DEF AlarmIInv, QueuedIsActive, Typed

\* The jobs that were due are compared one after another: who finds the one
\* that rings, or another it gives way to, leaves the queue.
LEMMA FrontSteps ==
    ASSUME AlarmIInv, Sundays = {}, NEW job \in Jobs, NEW due \in SUBSET Jobs,
           InFront(job, due)
    PROVE  AlarmIInv'
<1>a. ~Refused(job)
  BY DEF Refused
<1>1. /\ alarm \in AlarmState /\ Filed /\ <<job, due>> \in alarm.waiting
      /\ job \in due /\ job \in alarm.jobs
      /\ Awaited(alarm.jobs, alarm.active, alarm.waiting)
  BY DEF AlarmIInv, Typed, InFront, Awaited
<1>2. Filed'
  BY <1>1, Written, AlarmAssumption DEF InFront, Filed
<1> DEFINE ws == alarm.waiting \ {<<job, due>>}
           gone == {job} \cap Single
           began == [alarm EXCEPT !.waiting = ws, !.queue = @ \cup {job}]
<1>3. /\ ws \in SUBSET (Jobs \X SUBSET Jobs)
      /\ \A w \in ws : w[2] = due /\ w[1] # job /\ w[1] \in due /\ w[1] \in alarm.jobs
                       /\ w[1] \in Jobs
  <2>1. ASSUME NEW w \in ws
        PROVE  w[2] = due /\ w[1] # job /\ w[1] \in due /\ w[1] \in alarm.jobs /\ w[1] \in Jobs
    <3>1. w \in Jobs \X SUBSET Jobs /\ w[2] = due
      BY <1>1 DEF AlarmState, Awaited
    <3>2. w = <<w[1], w[2]>>
      BY <3>1
    <3> QED
      BY <1>1, <3>1, <3>2 DEF Awaited
  <2> QED
    BY <1>1, <2>1 DEF AlarmState
<1>4. /\ began \in AlarmState /\ began.jobs = alarm.jobs /\ began.queue = alarm.queue \cup {job}
      /\ began.active = alarm.active /\ began.waiting = ws
  BY <1>1, <1>3 DEF AlarmState
<1>5. CASE job \in alarm.queue
  <2>1. alarm' = [alarm EXCEPT !.waiting = ws]
    BY <1>5 DEF InFront
  <2> HIDE DEF ws, began, gone
  <2>2. /\ alarm' \in AlarmState /\ alarm'.jobs = alarm.jobs /\ alarm'.queue = alarm.queue
        /\ alarm'.active = alarm.active /\ alarm'.waiting = ws
    BY <1>1, <1>3, <2>1 DEF AlarmState
  <2>3. Awaited(alarm.jobs, alarm.active, ws)
    BY <1>1 DEF Awaited, ws
  <2> QED
    BY <1>2, <2>2, <2>3 DEF AlarmIInv, QueuedIsActive, Typed
<1>6. CASE job \notin alarm.queue /\ ~Runnable(job, due)
  <2>1. alarm' = [began EXCEPT !.queue = @ \ {job}, !.jobs = @ \ gone]
    BY <1>a, <1>1, <1>6 DEF InFront
  <2>2. alarm.active # job
    <3>1. alarm.active = NoJob \/ (alarm.active \in Jobs /\ CompareTask(alarm.active, job))
      BY <1>1 DEF Awaited, AlarmState
    <3> QED
      BY <3>1, Asymmetric, AlarmAssumption
  <2>3. Awaited(alarm.jobs \ gone, alarm.active, ws)
    BY <1>1, <1>3, <2>2 DEF Awaited
  <2> HIDE DEF ws, began, gone
  <2>4. /\ alarm' \in AlarmState /\ alarm'.jobs = alarm.jobs \ gone
        /\ alarm'.queue = (alarm.queue \cup {job}) \ {job}
        /\ alarm'.active = alarm.active /\ alarm'.waiting = ws
    BY <1>4, <2>1 DEF AlarmState
  <2>5. alarm'.queue \subseteq alarm.queue
    BY <2>4
  <2> QED
    BY <1>2, <2>3, <2>4, <2>5 DEF AlarmIInv, QueuedIsActive, Typed
<1>7. CASE job \notin alarm.queue /\ Runnable(job, due)
  <2> DEFINE n == alarm.starting + 1
  <2>1. alarm.active = NoJob
    <3>1. SUFFICES ASSUME alarm.active # NoJob PROVE FALSE
      OBVIOUS
    <3>2. /\ alarm.active \in Jobs /\ alarm.active \in due /\ alarm.active \in alarm.jobs
          /\ CompareTask(alarm.active, job)
      BY <1>1, <3>1 DEF Awaited, AlarmState
    <3>3. alarm.active # job /\ ~CompareTask(job, alarm.active)
      BY <3>2, Asymmetric
    <3> QED
      BY <1>7, <3>2, <3>3 DEF Runnable
  <2>2. alarm' = [[began EXCEPT !.active = job, !.startTts = FALSE]
                    EXCEPT !.media = "first", !.starting = n]
    BY <1>a, <1>1, <1>7 DEF InFront, PlayFirstMedia, AlarmState
  <2>3. Awaited(alarm.jobs, job, ws)
    BY <1>1, <1>3, <1>7 DEF Awaited, Runnable
  <2>4. n \in Nat
    BY <1>1 DEF AlarmState
  <2>5. alarm.queue = {}
    BY <1>1, <2>1, AlarmAssumption DEF AlarmIInv, QueuedIsActive, AlarmState
  <2> HIDE DEF ws, began, n
  <2>6. /\ alarm' \in AlarmState /\ alarm'.jobs = alarm.jobs
        /\ alarm'.queue = alarm.queue \cup {job}
        /\ alarm'.active = job /\ alarm'.waiting = ws
    BY <1>4, <2>2, <2>4 DEF AlarmState
  <2> QED
    BY <1>2, <2>3, <2>5, <2>6 DEF AlarmIInv, QueuedIsActive, Typed
<1> QED
  BY <1>5, <1>6, <1>7

LEMMA TaskSteps ==
    ASSUME AlarmIInv, "delete" \notin AlarmOps, NEW job \in Jobs, NEW mode \in {"add", "del"},
           DoTask(job, mode)
    PROVE  AlarmIInv'
<1>1. alarm \in AlarmState /\ Filed
  BY DEF AlarmIInv, Typed
<1>2. Filed'
  BY <1>1, Written, AlarmAssumption DEF DoTask, Filed
<1> DEFINE js == IF mode = "add" THEN alarm.jobs \cup {job} ELSE Destroyed(alarm.jobs, {job})
<1>3. js \in SUBSET Jobs /\ alarm' = [alarm EXCEPT !.jobs = js]
  BY <1>1 DEF DoTask, AlarmState, Destroyed
<1>4. Awaited(js, alarm.active, alarm.waiting)
  BY <1>1 DEF DoTask, AlarmIInv, Awaited, ActiveSingle
<1> HIDE DEF js
<1>5. /\ alarm' \in AlarmState /\ alarm'.jobs = js /\ alarm'.queue = alarm.queue
      /\ alarm'.active = alarm.active /\ alarm'.waiting = alarm.waiting
  BY <1>1, <1>3 DEF AlarmState
<1> QED
  BY <1>2, <1>4, <1>5 DEF AlarmIInv, QueuedIsActive, Typed

-----------------------------------------------------------------------------
LEMMA AlarmStarts == AlarmInit => AlarmIInv
<1> SUFFICES ASSUME AlarmInit PROVE AlarmIInv
  OBVIOUS
<1> PICK present \in SUBSET Jobs :
       /\ alarm = [jobs |-> present, queue |-> {}, active |-> NoJob, waiting |-> {},
                   starting |-> 0, tasks |-> 0, stops |-> 0,
                   chains |-> [c \in Chains |-> 0], media |-> "off", errors |-> 0,
                   startTts |-> FALSE, down |-> FALSE]
       /\ file = present /\ writes = {}
       /\ dues = 0 /\ ops = 0
  BY DEF AlarmInit
<1>1. alarm \in AlarmState
  BY DEF AlarmState
<1>2. Filed
  BY AlarmAssumption DEF Filed
<1> QED
  BY <1>1, <1>2, AlarmAssumption DEF AlarmIInv, Typed, QueuedIsActive, Awaited

LEMMA AlarmInductive ==
    ASSUME AlarmIInv, AlarmOps = {}, Weekends = {}, Sundays = {}, [AlarmNext]_alarmVars
    PROVE  AlarmIInv'
<1>1. CASE UNCHANGED alarmVars
  BY <1>1 DEF alarmVars, AlarmIInv, Filed, QueuedIsActive
<1>2. CASE AlarmNext
  BY <1>2, RingSteps, ClearSteps, DueSteps, FrontSteps, TaskSteps DEF AlarmNext
<1> QED
  BY <1>1, <1>2

LEMMA AlarmIInvGives == AlarmIInv => AlarmInv
BY DEF AlarmIInv, Typed, Write, AlarmState, Filed, AlarmTypeOK, AlarmInv

\* Of any number of jobs that are due in the same second, none of them repeated on
\* a Sunday (AlarmOps = {}: no second moment comes and no job is deleted while they
\* wait, or while one rings that rings once), in whatever order they come to the
\* front, whatever sounds fail, and whatever is stopped or added meanwhile, none stays
\* in jobQueue but the one that rings (AlarmInv), so that each can ring again.
THEOREM QueueIsEmptied ==
    ASSUME AlarmOps = {}, Weekends = {}, Sundays = {}
    PROVE  AlarmSpec => []AlarmInv
BY AlarmStarts, AlarmInductive, AlarmIInvGives, PTL DEF AlarmSpec

-----------------------------------------------------------------------------
(***************************************************************************)
(***************************************************************************)
(* Calls of an app that wait for the runtime *)

CallsIn(q) == {q[i] : i \in DOMAIN q}

LEMMA CallAppended ==
    ASSUME NEW S, NEW q \in Seq(S), NEW c \in S
    PROVE  /\ Append(q, c) \in Seq(S) /\ CallsIn(Append(q, c)) = CallsIn(q) \cup {c}
           /\ Append(q, c) # <<>>
<1> DEFINE r == Append(q, c)
<1>1. /\ r \in Seq(S) /\ Len(r) = Len(q) + 1 /\ Len(q) \in Nat /\ r[Len(r)] = c
      /\ \A i \in 1 .. Len(q) : r[i] = q[i]
  OBVIOUS
<1>2. DOMAIN r = 1 .. Len(r) /\ DOMAIN q = 1 .. Len(q)
  BY <1>1, LenProperties
<1> HIDE DEF r
<1>3. ASSUME NEW i \in DOMAIN r PROVE r[i] \in CallsIn(q) \cup {c}
  <2>1. CASE i = Len(r)
    BY <1>1, <2>1
  <2>2. CASE i # Len(r)
    BY <1>1, <1>2, <1>3, <2>2 DEF CallsIn
  <2> QED
    BY <2>1, <2>2
<1>4. c \in CallsIn(r)
  <2>1. Len(r) \in DOMAIN r
    BY <1>1, <1>2
  <2> QED
    BY <1>1, <2>1 DEF CallsIn
<1>5. CallsIn(q) \subseteq CallsIn(r)
  <2>1. DOMAIN q \subseteq DOMAIN r
    BY <1>1, <1>2
  <2> QED
    BY <1>1, <1>2, <2>1 DEF CallsIn
<1>6. CallsIn(r) \subseteq CallsIn(q) \cup {c}
  BY <1>3 DEF CallsIn
<1>7. r # <<>>
  BY <1>1
<1> QED
  BY <1>1, <1>4, <1>5, <1>6, <1>7 DEF r

LEMMA CallTaken ==
    ASSUME NEW S, NEW q \in Seq(S), q # <<>>
    PROVE  /\ Head(q) \in S /\ Head(q) \in CallsIn(q)
           /\ Tail(q) \in Seq(S) /\ CallsIn(Tail(q)) \subseteq CallsIn(q)
<1> DEFINE r == Tail(q)
<1>1. /\ r \in Seq(S) /\ Len(r) = Len(q) - 1 /\ Len(q) \in Nat \ {0} /\ Head(q) \in S
      /\ \A i \in 1 .. Len(r) : r[i] = q[i + 1]
  BY HeadTailProperties, EmptySeq
<1>2. DOMAIN r = 1 .. Len(r) /\ DOMAIN q = 1 .. Len(q) /\ Head(q) = q[1]
  BY <1>1, LenProperties
<1> HIDE DEF r
<1>3. Head(q) \in CallsIn(q)
  <2>1. 1 \in DOMAIN q
    BY <1>1, <1>2
  <2> QED
    BY <1>2, <2>1 DEF CallsIn
<1>4. ASSUME NEW i \in DOMAIN r PROVE r[i] \in CallsIn(q)
  <2>1. i + 1 \in DOMAIN q /\ r[i] = q[i + 1]
    BY <1>1, <1>2, <1>4
  <2> QED
    BY <2>1 DEF CallsIn
<1>5. CallsIn(r) \subseteq CallsIn(q)
  BY <1>4 DEF CallsIn
<1> QED
  BY <1>1, <1>3, <1>5 DEF r

LEMMA NoCalls == CallsIn(<<>>) = {}
BY DEF CallsIn

-----------------------------------------------------------------------------
(* The sleep that is timed *)

SleepCall == [what : {"front", "back", "exit", "idle"}, id : Nat]

SleepRec == [app : {"front", "back", "gone"}, timer : {"null", "runs", "fired"},
             asks : Seq(SleepCall), says : SUBSET Nat]

\* What is owed to the user is what is to be said or is being said; to exit is
\* asked when nothing is owed and no timer runs.
SleepKept(s, owed) ==
    /\ \A c \in CallsIn(s.asks) :
          /\ c.what = "exit" => s.timer # "runs" /\ owed = NoAnswer
          /\ c.what = "idle" => s.timer = "fired"
          /\ c.what = "front" => owed \in {NoAnswer, c.id}
    /\ \A id \in s.says : owed \in {NoAnswer, id}
    /\ s.app = "gone" => s.asks = <<>> /\ s.says = {} /\ s.timer = "null" /\ owed = NoAnswer

SleepIInv ==
    /\ sleep \in SleepRec /\ told \in [count : 0 .. MaxSleepCommands, owed : Nat]
    /\ SleepKept(sleep, told.owed)

LEMMA SleepIInvGives == SleepIInv => TimedSleepInv
<1> SUFFICES ASSUME SleepIInv PROVE TimedSleepInv
  OBVIOUS
<1>1. TimedSleepTypeOK
  BY DEF SleepIInv, SleepRec, SleepCall, TimedSleepTypeOK
<1>2. SleepNotForgotten
  BY DEF SleepIInv, SleepKept, CallsIn, SleepNotForgotten
<1>3. AnswerIsGiven
  BY DEF SleepIInv, SleepKept, AnswerIsGiven
<1> QED
  BY <1>1, <1>2, <1>3 DEF TimedSleepInv

\* A call more.
LEMMA SleepCalls ==
    ASSUME NEW s \in SleepRec, NEW owed, SleepKept(s, owed), s.app # "gone",
           NEW what \in {"front", "back", "exit", "idle"}, NEW id \in Nat,
           what = "exit" => s.timer # "runs" /\ owed = NoAnswer,
           what = "idle" => s.timer = "fired",
           what = "front" => owed \in {NoAnswer, id}
    PROVE  /\ Calls(s, what, id) \in SleepRec /\ SleepKept(Calls(s, what, id), owed)
           /\ Calls(s, what, id).app = s.app /\ Calls(s, what, id).timer = s.timer
<1> DEFINE c == [what |-> what, id |-> id]
           q == Append(s.asks, c)
           t == Calls(s, what, id)
<1>1. c \in SleepCall /\ s.asks \in Seq(SleepCall) /\ c.what = what /\ c.id = id
  BY DEF SleepCall, SleepRec
<1>2. t = [s EXCEPT !.asks = q]
  BY DEF Calls, SleepRec
<1> HIDE DEF c, t
<1>3. q \in Seq(SleepCall) /\ CallsIn(q) = CallsIn(s.asks) \cup {c}
  BY <1>1, CallAppended
<1> HIDE DEF q
<1>4. /\ t \in SleepRec /\ t.asks = q /\ t.app = s.app /\ t.timer = s.timer /\ t.says = s.says
  BY <1>2, <1>3 DEF SleepRec
<1>5. SleepKept(t, owed)
  BY <1>1, <1>3, <1>4 DEF SleepKept
<1> QED
  BY <1>4, <1>5 DEF t

\* Words that are over, or another call, take nothing away.
LEMMA SleepWords ==
    ASSUME NEW s \in SleepRec, NEW owed, SleepKept(s, owed), s.app # "gone",
           s.timer = "null" => owed = NoAnswer
    PROVE  /\ AfterSleepWords(s) \in SleepRec /\ SleepKept(AfterSleepWords(s), owed)
           /\ AfterSleepWords(s).app = s.app /\ AfterSleepWords(s).timer = s.timer
<1>1. CASE s.timer # "null"
  <2>1. AfterSleepWords(s) = Calls(s, "back", NoAnswer)
    BY <1>1 DEF AfterSleepWords
  <2> QED
    BY <2>1, SleepCalls DEF NoAnswer
<1>2. CASE s.timer = "null"
  <2>1. AfterSleepWords(s) = Calls(s, "exit", NoAnswer)
    BY <1>2 DEF AfterSleepWords
  <2> QED
    BY <1>2, <2>1, SleepCalls DEF NoAnswer
<1> QED
  BY <1>1, <1>2

LEMMA SleepInductive ==
    ASSUME SleepOps \subseteq {"fails"}
    PROVE  SleepIInv /\ [TimedSleepNext]_sleepVars => SleepIInv'
<1> SUFFICES ASSUME SleepIInv, [TimedSleepNext]_sleepVars PROVE SleepIInv'
  OBVIOUS
<1> DEFINE owed == told.owed
<1>1. /\ sleep \in SleepRec /\ SleepKept(sleep, owed) /\ owed \in Nat
      /\ told \in [count : 0 .. MaxSleepCommands, owed : Nat] /\ MaxSleepCommands \in Nat
      /\ NoAnswer \in Nat
  BY TimedSleepAssumption DEF SleepIInv, NoAnswer
<1>2. ASSUME NEW s \in SleepRec, NEW o \in Nat, NEW n \in 0 .. MaxSleepCommands, SleepKept(s, o),
             sleep' = s, told' = [count |-> n, owed |-> o]
      PROVE  SleepIInv'
  <2>1. told' \in [count : 0 .. MaxSleepCommands, owed : Nat] /\ told'.owed = o
    BY <1>2
  <2> QED
    BY <1>2, <2>1 DEF SleepIInv, SleepKept, CallsIn
<1>3. told = [count |-> told.count, owed |-> owed] /\ told.count \in 0 .. MaxSleepCommands
  BY <1>1
<1>4. CASE UNCHANGED sleepVars
  BY <1>1, <1>2, <1>3, <1>4 DEF sleepVars
<1>5. ASSUME NEW timer \in {"null", "runs", "fired"}, SleepCommand(timer),
             timer = sleep.timer \/ timer # "fired"
      PROVE  SleepIInv'
  <2> DEFINE n == told.count + 1
             s == [sleep EXCEPT !.app = "front", !.timer = timer]
  <2>1. /\ sleep.says = {} /\ sleep.asks = <<>> /\ n \in 0 .. MaxSleepCommands /\ n \in Nat
        /\ told' = [count |-> n, owed |-> n] /\ sleep' = Calls(s, "front", n)
    BY <1>1, <1>3, <1>5 DEF SleepCommand
  <2>2. /\ s \in SleepRec /\ s.app = "front" /\ s.asks = <<>> /\ s.says = {}
    BY <1>1, <2>1 DEF SleepRec
  <2> HIDE DEF s, n
  <2>3. SleepKept(s, n)
    BY <2>2, NoCalls DEF SleepKept
  <2>4. Calls(s, "front", n) \in SleepRec /\ SleepKept(Calls(s, "front", n), n)
    BY <2>1, <2>2, <2>3, SleepCalls
  <2> QED
    BY <1>2, <2>1, <2>4
<1>6. CASE SleepIn \/ SleepRefused \/ CancelTiming
  <2>1. sleep.timer \in {"null", "runs", "fired"}
    BY <1>1 DEF SleepRec
  <2> QED
    BY <1>5, <1>6, <2>1 DEF SleepIn, SleepRefused, CancelTiming
<1>7. CASE DoSleep
  <2> DEFINE s == [sleep EXCEPT !.timer = "fired"]
  <2>1. sleep.timer = "runs" /\ sleep' = Calls(s, "idle", NoAnswer) /\ told' = told
    BY <1>7 DEF DoSleep
  <2>2. /\ s \in SleepRec /\ s.timer = "fired" /\ s.app = sleep.app /\ s.asks = sleep.asks
        /\ s.says = sleep.says
    BY <1>1 DEF SleepRec
  <2>3. sleep.app # "gone"
    BY <1>1, <2>1 DEF SleepKept
  <2> HIDE DEF s
  <2>4. SleepKept(s, owed)
    BY <1>1, <2>1, <2>2, <2>3 DEF SleepKept
  <2>5. Calls(s, "idle", NoAnswer) \in SleepRec /\ SleepKept(Calls(s, "idle", NoAnswer), owed)
    BY <1>1, <2>2, <2>3, <2>4, SleepCalls
  <2> QED
    BY <1>1, <1>2, <1>3, <2>1, <2>5
<1>8. CASE SleepClick
  <2>1. /\ sleep.app = "front" /\ sleep.asks = <<>> /\ told.count + 1 \in 0 .. MaxSleepCommands
        /\ sleep' = Calls(sleep, "back", NoAnswer)
        /\ told' = [count |-> told.count + 1, owed |-> NoAnswer]
    BY <1>1, <1>3, <1>8 DEF SleepClick
  <2>2. SleepKept(sleep, NoAnswer)
    BY <1>1, <2>1, NoCalls DEF SleepKept
  <2>3. Calls(sleep, "back", NoAnswer) \in SleepRec
        /\ SleepKept(Calls(sleep, "back", NoAnswer), NoAnswer)
    BY <1>1, <2>1, <2>2, SleepCalls
  <2> QED
    BY <1>1, <1>2, <2>1, <2>3
<1>9. CASE SleepAnswered
  <2> DEFINE call == Head(sleep.asks)
             s == [sleep EXCEPT !.asks = Tail(@)]
  <2>1. sleep.asks # <<>> /\ sleep.asks \in Seq(SleepCall)
    BY <1>1, <1>9 DEF SleepAnswered, SleepRec
  <2>2. /\ call \in SleepCall /\ call \in CallsIn(sleep.asks) /\ Tail(sleep.asks) \in Seq(SleepCall)
        /\ CallsIn(Tail(sleep.asks)) \subseteq CallsIn(sleep.asks)
    BY <2>1, CallTaken
  <2>3. /\ call.what = "exit" => sleep.timer # "runs" /\ owed = NoAnswer
        /\ call.what = "idle" => sleep.timer = "fired"
        /\ call.what = "front" => owed \in {NoAnswer, call.id}
        /\ sleep.app # "gone" /\ call.what \in {"front", "back", "exit", "idle"} /\ call.id \in Nat
    BY <1>1, <2>1, <2>2 DEF SleepKept, SleepCall
  <2>4. /\ s \in SleepRec /\ s.timer = sleep.timer /\ s.app = sleep.app
        /\ s.asks = Tail(sleep.asks) /\ s.says = sleep.says
    BY <1>1, <2>2 DEF SleepRec
  <2>5. /\ call.what = "front" =>
              sleep' = [s EXCEPT !.app = "front", !.says = @ \cup {call.id}] /\ told' = told
        /\ call.what = "back" => sleep' = [s EXCEPT !.app = "back"] /\ told' = told
        /\ call.what = "exit" =>
              /\ sleep' = [s EXCEPT !.app = "gone", !.asks = <<>>, !.says = {}, !.timer = "null"]
              /\ told' = told
        /\ call.what = "idle" =>
              sleep' = Calls(s, "exit", NoAnswer) /\ told' = [told EXCEPT !.owed = NoAnswer]
    BY <1>9 DEF SleepAnswered
  <2> HIDE DEF call, s
  <2>6. SleepKept(s, owed)
    BY <1>1, <2>2, <2>3, <2>4 DEF SleepKept
  <2>7. CASE call.what = "front"
    <3> DEFINE t == [s EXCEPT !.app = "front", !.says = @ \cup {call.id}]
    <3>1. /\ t \in SleepRec /\ t.app = "front" /\ t.says = s.says \cup {call.id}
          /\ t.asks = s.asks /\ t.timer = s.timer
      BY <2>3, <2>4 DEF SleepRec
    <3>2. sleep' = t /\ told' = told
      BY <2>5, <2>7
    <3> HIDE DEF t
    <3>3. SleepKept(t, owed)
      BY <2>3, <2>6, <2>7, <3>1 DEF SleepKept
    <3> QED
      BY <1>1, <1>2, <1>3, <3>1, <3>2, <3>3
  <2>8. CASE call.what = "back"
    <3> DEFINE t == [s EXCEPT !.app = "back"]
    <3>1. /\ t \in SleepRec /\ t.app = "back" /\ t.says = s.says /\ t.asks = s.asks
          /\ t.timer = s.timer
      BY <2>4 DEF SleepRec
    <3>2. sleep' = t /\ told' = told
      BY <2>5, <2>8
    <3> HIDE DEF t
    <3>3. SleepKept(t, owed)
      BY <2>6, <3>1 DEF SleepKept
    <3> QED
      BY <1>1, <1>2, <1>3, <3>1, <3>2, <3>3
  <2>9. CASE call.what = "exit"
    <3> DEFINE t == [s EXCEPT !.app = "gone", !.asks = <<>>, !.says = {}, !.timer = "null"]
    <3>1. <<>> \in Seq(SleepCall)
      OBVIOUS
    <3>2. /\ t \in SleepRec /\ t.app = "gone" /\ t.says = {} /\ t.asks = <<>> /\ t.timer = "null"
      BY <2>4, <3>1 DEF SleepRec
    <3>3. sleep' = t /\ told' = told /\ owed = NoAnswer
      BY <2>3, <2>5, <2>9
    <3> HIDE DEF t
    <3>4. SleepKept(t, owed)
      BY <3>2, <3>3, NoCalls DEF SleepKept
    <3> QED
      BY <1>1, <1>2, <1>3, <3>2, <3>3, <3>4
  <2>10. CASE call.what = "idle"
    <3>1. SleepKept(s, NoAnswer)
      BY <2>3, <2>4, <2>6 DEF SleepKept
    <3>2. s.timer # "runs"
      BY <2>3, <2>4, <2>10
    <3>3. Calls(s, "exit", NoAnswer) \in SleepRec
          /\ SleepKept(Calls(s, "exit", NoAnswer), NoAnswer)
      BY <1>1, <2>3, <2>4, <3>1, <3>2, SleepCalls
    <3>4. told' = [count |-> told.count, owed |-> NoAnswer]
      BY <1>1, <2>5, <2>10
    <3> QED
      BY <1>1, <1>2, <1>3, <2>5, <2>10, <3>3, <3>4
  <2> QED
    BY <2>3, <2>7, <2>8, <2>9, <2>10
<1>10. ASSUME NEW id \in sleep.says, SleepWordsEnd(id) \/ SleepWordsFail(id)
       PROVE  SleepIInv'
  <2> DEFINE s == [sleep EXCEPT !.says = @ \ {id}]
             a == AfterSleepWords(s)
  <2>1. /\ sleep' = a \/ sleep' = AfterSleepWords(a)
        /\ told' = IF told.owed = id THEN [told EXCEPT !.owed = NoAnswer] ELSE told
    BY <1>10 DEF SleepWordsEnd, SleepWordsFail
  <2>2. told' = [count |-> told.count, owed |-> NoAnswer]
    <3>1. owed \in {NoAnswer, id}
      BY <1>1 DEF SleepKept
    <3> QED
      BY <1>1, <2>1, <3>1
  <2>3. sleep.app # "gone"
    BY <1>1 DEF SleepKept
  <2>4. /\ s \in SleepRec /\ s.app = sleep.app /\ s.asks = sleep.asks /\ s.timer = sleep.timer
        /\ s.says = sleep.says \ {id}
    BY <1>1 DEF SleepRec
  <2> HIDE DEF s
  <2>5. SleepKept(s, NoAnswer)
    BY <1>1, <2>3, <2>4 DEF SleepKept
  <2>6. a \in SleepRec /\ SleepKept(a, NoAnswer) /\ a.app # "gone"
    BY <1>1, <2>3, <2>4, <2>5, SleepWords
  <2> HIDE DEF a
  <2>7. AfterSleepWords(a) \in SleepRec /\ SleepKept(AfterSleepWords(a), NoAnswer)
    BY <2>6, SleepWords
  <2> QED
    BY <1>1, <1>2, <1>3, <2>1, <2>2, <2>6, <2>7
<1> QED
  BY <1>4, <1>6, <1>7, <1>8, <1>9, <1>10 DEF TimedSleepNext

LEMMA SleepStarts == TimedSleepInit => SleepIInv
<1> SUFFICES ASSUME TimedSleepInit PROVE SleepIInv
  OBVIOUS
<1>1. <<>> \in Seq(SleepCall) /\ 0 \in 0 .. MaxSleepCommands
  BY TimedSleepAssumption
<1> QED
  BY <1>1, NoCalls DEF TimedSleepInit, SleepIInv, SleepRec, SleepKept, NoAnswer

-----------------------------------------------------------------------------
(* The countdown.  Of the words that were registered last, the call for      *)
(* them, the call for a ring and the ring there is one at most.              *)

TimerCall == [what : {"front", "ring", "pickup", "back", "exit"}, id : Nat]

AnswerRec == [app : {"front", "back", "gone"}, asks : Seq(TimerCall), says : SUBSET Nat,
              id : Nat, ring : BOOLEAN, pickup : BOOLEAN, wait : Nat]

RingRec == [n : RingNumbers, at : {"sounds", "pauses"}, left : 1 .. RingTimes]

Latent(c, id) == c.what = "ring" \/ (c.what = "front" /\ c.id = id)

NoneLatent(q, id) == \A i \in DOMAIN q : ~Latent(q[i], id)

OneLatent(q, id) == \A i, j \in DOMAIN q : Latent(q[i], id) /\ Latent(q[j], id) => i = j

\* Whose words, calls and rings: a is the answer, rs the rings.
RingAlone(a, rs) ==
    /\ OneLatent(a.asks, a.id)
    /\ ~NoneLatent(a.asks, a.id) => rs = {} /\ a.id \notin a.says
    /\ rs # {} => a.id \notin a.says
    /\ \A r, s \in rs : r = s

\* A countdown has no ring before its time is up.
NoRingYet(c, a, rs) ==
    c # "off" => /\ rs = {} /\ \A k \in CallsIn(a.asks) : k.what # "ring"
                 /\ a.ring => a.id \notin a.says /\ NoneLatent(a.asks, a.id)

\* Nothing is asked or said but what was registered, and picking up never rings.
Known(a) ==
    /\ \A k \in CallsIn(a.asks) : /\ k.what \in {"front", "pickup"} => k.id <= a.id
                                  /\ k.what = "ring" => k.id \in 1 .. RingTimes
                                  /\ k.what = "pickup" /\ a.ring => k.id # a.id
    /\ \A id \in a.says : id <= a.id
    /\ a.wait <= a.id /\ (a.ring /\ a.wait # None => a.wait # a.id)

RingHeld(rs, tone) ==
    /\ rs \in SUBSET RingRec /\ tone \in [known : RingNumbers \cup {None}, sounds : BOOLEAN]
    /\ \A r \in rs : r.n = tone.known /\ (r.at = "pauses" => r.left > 1)
    /\ tone.sounds => rs # {} /\ \A r \in rs : r.at = "sounds"

TimerKept(c, a, rs) == a \in AnswerRec /\ RingAlone(a, rs) /\ NoRingYet(c, a, rs) /\ Known(a)

TimerIInv ==
    /\ count \in {"off", "runs", "due", "paused"} /\ commands \in 0 .. MaxCommands
    /\ TimerKept(count, answer, rings) /\ RingHeld(rings, ringtone)

LEMMA TimerIInvGives == TimerIInv => TimerInv
<1> SUFFICES ASSUME TimerIInv PROVE TimerInv
  OBVIOUS
<1>1. TimerTypeOK
  BY DEF TimerIInv, TimerKept, RingHeld, AnswerRec, TimerCall, RingRec, TimerTypeOK
<1>2. RingIsKnown
  BY DEF TimerIInv, RingHeld, RingIsKnown
<1>3. RingsAlone
  BY DEF TimerIInv, TimerKept, RingAlone, RingHeld, RingsAlone
<1> QED
  BY <1>1, <1>2, <1>3 DEF TimerInv

LEMMA LatentAppended ==
    ASSUME NEW q \in Seq(TimerCall), NEW k \in TimerCall, NEW id \in Nat, OneLatent(q, id)
    PROVE  /\ ~Latent(k, id) => /\ OneLatent(Append(q, k), id)
                                /\ NoneLatent(q, id) <=> NoneLatent(Append(q, k), id)
           /\ NoneLatent(q, id) => OneLatent(Append(q, k), id)
<1> DEFINE r == Append(q, k)
<1>1. /\ r \in Seq(TimerCall) /\ Len(r) = Len(q) + 1 /\ Len(q) \in Nat /\ r[Len(r)] = k
      /\ \A i \in 1 .. Len(q) : r[i] = q[i]
  OBVIOUS
<1>2. DOMAIN r = 1 .. Len(r) /\ DOMAIN q = 1 .. Len(q)
  BY <1>1, LenProperties
<1> HIDE DEF r
<1>3. ASSUME NEW i \in DOMAIN r, i # Len(r) PROVE i \in DOMAIN q /\ r[i] = q[i]
  BY <1>1, <1>2, <1>3
<1>4. \A i \in DOMAIN q : i \in DOMAIN r /\ r[i] = q[i]
  BY <1>1, <1>2
<1>5. ASSUME ~Latent(k, id)
      PROVE  OneLatent(r, id) /\ (NoneLatent(q, id) <=> NoneLatent(r, id))
  <2>1. \A i \in DOMAIN r : Latent(r[i], id) => i # Len(r)
    BY <1>1, <1>5
  <2>2. \A i \in DOMAIN r : Latent(r[i], id) => i \in DOMAIN q /\ r[i] = q[i]
    BY <1>3, <2>1
  <2> QED
    BY <1>4, <2>2 DEF OneLatent, NoneLatent
<1>6. ASSUME NoneLatent(q, id) PROVE OneLatent(r, id)
  <2>1. \A i \in DOMAIN r : Latent(r[i], id) => i = Len(r)
    BY <1>3, <1>6 DEF NoneLatent
  <2> QED
    BY <2>1 DEF OneLatent
<1> QED
  BY <1>5, <1>6 DEF r

LEMMA LatentTaken ==
    ASSUME NEW q \in Seq(TimerCall), q # <<>>, NEW id \in Nat, OneLatent(q, id)
    PROVE  /\ OneLatent(Tail(q), id)
           /\ Latent(Head(q), id) => NoneLatent(Tail(q), id) /\ ~NoneLatent(q, id)
           /\ NoneLatent(q, id) => NoneLatent(Tail(q), id)
<1> DEFINE r == Tail(q)
<1>1. /\ r \in Seq(TimerCall) /\ Len(r) = Len(q) - 1 /\ Len(q) \in Nat \ {0}
      /\ \A i \in 1 .. Len(r) : r[i] = q[i + 1]
  BY HeadTailProperties, EmptySeq
<1>2. DOMAIN r = 1 .. Len(r) /\ DOMAIN q = 1 .. Len(q) /\ Head(q) = q[1]
  BY <1>1, LenProperties
<1> HIDE DEF r
<1>3. ASSUME NEW i \in DOMAIN r
      PROVE  i \in Nat /\ i + 1 \in DOMAIN q /\ r[i] = q[i + 1] /\ i + 1 # 1
  BY <1>1, <1>2, <1>3
<1>4. 1 \in DOMAIN q
  BY <1>1, <1>2
<1>5. OneLatent(r, id)
  <2> SUFFICES ASSUME NEW i \in DOMAIN r, NEW j \in DOMAIN r, Latent(r[i], id), Latent(r[j], id)
               PROVE  i = j
    BY DEF OneLatent
  <2>1. i + 1 = j + 1
    BY <1>3 DEF OneLatent
  <2> QED
    BY <1>3, <2>1
<1>6. ASSUME Latent(Head(q), id) PROVE NoneLatent(r, id) /\ ~NoneLatent(q, id)
  BY <1>2, <1>3, <1>4, <1>6 DEF OneLatent, NoneLatent
<1>7. NoneLatent(q, id) => NoneLatent(r, id)
  BY <1>3 DEF NoneLatent
<1> QED
  BY <1>5, <1>6, <1>7 DEF r

LEMMA TwoCalls ==
    ASSUME NEW x, NEW y PROVE Append(<<>>, x) = <<x>> /\ Append(<<x>>, y) = <<x, y>>
<1>1. <<x>> \in Seq({x, y}) /\ Len(<<x>>) = 1 /\ <<>> \in Seq({x, y}) /\ Len(<<>>) = 0
  OBVIOUS
<1>2. Append(<<>>, x) = <<x>>
  BY <1>1
<1>3. Append(<<x>>, y) = <<x, y>>
  <2> DEFINE q == Append(<<x>>, y)
             r == <<x, y>>
  <2>1. q \in Seq({x, y}) /\ Len(q) = 2 /\ q[1] = x /\ q[2] = y
    BY <1>1
  <2>2. r \in Seq({x, y}) /\ Len(r) = 2 /\ r[1] = x /\ r[2] = y
    OBVIOUS
  <2> HIDE DEF q, r
  <2>3. \A i \in 1 .. Len(q) : q[i] = r[i]
    BY <2>1, <2>2
  <2>4. q = r
    BY <2>1, <2>2, <2>3, SeqEqual
  <2> QED
    BY <2>4 DEF q, r
<1> QED
  BY <1>2, <1>3

\* Calls that are neither for words nor for a ring.
LEMMA QuietCall ==
    ASSUME NEW c, NEW a, NEW rs, TimerKept(c, a, rs), NEW what \in {"back", "exit"}
    PROVE  /\ TimerKept(c, Asks(a, what, None), rs) /\ Asks(a, what, None).app = a.app
           /\ Asks(a, what, None).says = a.says
<1> DEFINE k == Call(what, None)
           q == Append(a.asks, k)
           t == Asks(a, what, None)
<1>1. a \in AnswerRec /\ a.asks \in Seq(TimerCall) /\ a.id \in Nat
  BY DEF TimerKept, AnswerRec
<1>2. k \in TimerCall /\ k.what \in {"back", "exit"} /\ ~Latent(k, a.id)
  BY DEF Call, None, TimerCall, Latent
<1>3. t = [a EXCEPT !.asks = q]
  BY <1>1 DEF Asks, AnswerRec
<1> HIDE DEF k, t
<1>4. q \in Seq(TimerCall) /\ CallsIn(q) = CallsIn(a.asks) \cup {k}
  BY <1>1, <1>2, CallAppended
<1>5. OneLatent(q, a.id) /\ (NoneLatent(q, a.id) <=> NoneLatent(a.asks, a.id))
  <2>1. OneLatent(a.asks, a.id)
    BY DEF TimerKept, RingAlone
  <2>2. ~Latent(k, a.id)
    BY <1>2
  <2>4. OneLatent(q, a.id)
    BY <1>1, <1>2, <2>1, <2>2, LatentAppended
  <2>3. NoneLatent(a.asks, a.id) <=> NoneLatent(q, a.id)
    BY <1>1, <1>2, <2>1, <2>2, LatentAppended
  <2> QED
    BY <2>3, <2>4
<1> HIDE DEF q
<1>6. /\ t \in AnswerRec /\ t.asks = q /\ t.app = a.app /\ t.says = a.says /\ t.id = a.id
      /\ t.ring = a.ring /\ t.wait = a.wait
  BY <1>1, <1>3, <1>4 DEF AnswerRec
<1>7. RingAlone(t, rs)
  BY <1>5, <1>6 DEF TimerKept, RingAlone
<1>8. NoRingYet(c, t, rs)
  BY <1>2, <1>4, <1>5, <1>6 DEF TimerKept, NoRingYet
<1>9. Known(t)
  BY <1>2, <1>4, <1>6 DEF TimerKept, Known
<1> QED
  BY <1>6, <1>7, <1>8, <1>9 DEF TimerKept, t

\* Words are registered when no ring is to come or only at its time.
LEMMA SaysGives ==
    ASSUME NEW c, NEW d, NEW a, NEW rs, TimerKept(c, a, rs), NEW ring \in BOOLEAN, NEW id \in Nat,
           id > a.id, rs = {}, \A k \in CallsIn(a.asks) : k.what # "ring", ring => d = "off"
    PROVE  TimerKept(d, Says(a, ring, id), {}) /\ Says(a, ring, id).app = a.app
<1> DEFINE k == Call("front", id)
           q == Append(a.asks, k)
           t == Says(a, ring, id)
<1>1. a \in AnswerRec /\ a.asks \in Seq(TimerCall) /\ a.id \in Nat /\ a.says \in SUBSET Nat
      /\ a.wait \in Nat
  BY DEF TimerKept, AnswerRec
<1>2. k \in TimerCall /\ k.what = "front" /\ k.id = id
  BY DEF Call, TimerCall
<1>3. t = [a EXCEPT !.ring = ring, !.id = id, !.asks = q]
  BY <1>1 DEF Says, Asks, Registered, AnswerRec
<1> HIDE DEF k, t
<1>4. q \in Seq(TimerCall) /\ CallsIn(q) = CallsIn(a.asks) \cup {k}
  BY <1>1, <1>2, CallAppended
<1>5. NoneLatent(a.asks, id)
  <2> SUFFICES ASSUME NEW i \in DOMAIN a.asks PROVE ~Latent(a.asks[i], id)
    BY DEF NoneLatent
  <2>1. a.asks[i] \in CallsIn(a.asks) /\ a.asks[i] \in TimerCall
    BY <1>1 DEF CallsIn
  <2>2. a.asks[i].what = "front" => a.asks[i].id <= a.id
    BY <2>1 DEF TimerKept, Known
  <2>3. a.asks[i].id \in Nat
    BY <2>1 DEF TimerCall
  <2> QED
    BY <1>1, <2>1, <2>2, <2>3 DEF Latent
<1>6. OneLatent(q, id)
  <2>1. OneLatent(a.asks, id)
    BY <1>5 DEF NoneLatent, OneLatent
  <2> QED
    BY <1>1, <1>2, <1>5, <2>1, LatentAppended
<1> HIDE DEF q
<1>7. /\ t \in AnswerRec /\ t.asks = q /\ t.app = a.app /\ t.says = a.says /\ t.id = id
      /\ t.ring = ring /\ t.wait = a.wait
  BY <1>1, <1>3, <1>4 DEF AnswerRec
<1>8. \A i \in a.says : i <= a.id /\ i \in Nat
  BY <1>1 DEF TimerKept, Known
<1>9. id \notin a.says
  BY <1>1, <1>8
<1>10. RingAlone(t, {})
  BY <1>6, <1>7, <1>9 DEF RingAlone
<1>11. NoRingYet(d, t, {})
  BY <1>2, <1>4, <1>7 DEF NoRingYet
<1>12. Known(t)
  <2>1. a.wait <= a.id
    BY DEF TimerKept, Known
  <2>2. a.wait <= id /\ a.wait # id
    BY <1>1, <2>1
  <2>3. \A i \in a.says : i <= id
    BY <1>1, <1>8
  <2>4. ASSUME NEW j \in CallsIn(a.asks)
        PROVE  /\ j.what \in {"front", "pickup"} => j.id <= id /\ j.id # id
               /\ j.what # "ring"
    <3>1. j.what \in {"front", "pickup"} => j.id <= a.id
      BY DEF TimerKept, Known
    <3>2. j.id \in Nat
      <4>1. PICK i \in DOMAIN a.asks : j = a.asks[i]
        BY DEF CallsIn
      <4>2. a.asks[i] \in TimerCall
        BY <1>1, <4>1
      <4> QED
        BY <4>1, <4>2 DEF TimerCall
    <3> QED
      BY <1>1, <3>1, <3>2
  <2> QED
    BY <1>2, <1>4, <1>7, <2>2, <2>3, <2>4 DEF Known
<1> QED
  BY <1>7, <1>10, <1>11, <1>12 DEF TimerKept, t

\* What the next action does: rings once, or goes.
LEMMA NextActionGives ==
    ASSUME NEW c, NEW a, NEW rs, TimerKept(c, a, rs), NEW id \in Nat,
           a.id = id /\ a.ring => c = "off" /\ rs = {} /\ id \notin a.says /\ NoneLatent(a.asks, id)
    PROVE  TimerKept(c, TriggerNextAction(a, id), rs)
<1>1. a \in AnswerRec /\ a.asks \in Seq(TimerCall) /\ a.id \in Nat /\ a.ring \in BOOLEAN
      /\ a.pickup \in BOOLEAN
  BY DEF TimerKept, AnswerRec
<1>2. CASE a.id # id
  BY <1>2 DEF TriggerNextAction
<1>3. CASE a.id = id /\ ~a.ring
  <2>1. TriggerNextAction(a, id) = DefaultNextAction(a)
    BY <1>3 DEF TriggerNextAction
  <2>2. \/ DefaultNextAction(a) = a
        \/ \E what \in {"back", "exit"} : DefaultNextAction(a) = Asks(a, what, None)
    BY DEF DefaultNextAction
  <2> QED
    BY <2>1, <2>2, QuietCall
<1>4. CASE a.id = id /\ a.ring
  <2> DEFINE k == Call("ring", RingTimes)
             q == Append(a.asks, k)
             t == TriggerNextAction(a, id)
  <2>1. t = [a EXCEPT !.asks = q]
    BY <1>1, <1>4 DEF TriggerNextAction, Asks, AnswerRec
  <2>2. k \in TimerCall /\ k.what = "ring" /\ k.id = RingTimes /\ RingTimes \in 1 .. RingTimes
    BY TimerAssumption DEF Call, TimerCall
  <2> HIDE DEF k, t
  <2>3. q \in Seq(TimerCall) /\ CallsIn(q) = CallsIn(a.asks) \cup {k}
    BY <1>1, <2>2, CallAppended
  <2>4. OneLatent(q, a.id)
    BY <1>1, <1>4, <2>2, LatentAppended DEF TimerKept, RingAlone
  <2> HIDE DEF q
  <2>5. /\ t \in AnswerRec /\ t.asks = q /\ t.says = a.says /\ t.id = a.id /\ t.ring = a.ring
        /\ t.wait = a.wait
    BY <1>1, <2>1, <2>3 DEF AnswerRec
  <2>6. RingAlone(t, rs)
    BY <1>4, <2>4, <2>5 DEF RingAlone
  <2>7. NoRingYet(c, t, rs)
    BY <1>4 DEF NoRingYet
  <2>8. Known(t)
    BY <2>2, <2>3, <2>5 DEF TimerKept, Known
  <2> QED
    BY <2>5, <2>6, <2>7, <2>8 DEF TimerKept, t
<1> QED
  BY <1>1, <1>2, <1>3, <1>4

\* Without rings less can go wrong; the place of the app does not matter.
LEMMA FewerRings ==
    ASSUME NEW c, NEW a, NEW rs, TimerKept(c, a, rs), NEW app \in {"front", "back", "gone"}
    PROVE  /\ TimerKept(c, [a EXCEPT !.app = app], rs)
           /\ TimerKept(c, [a EXCEPT !.app = app], {})
           /\ TimerKept(c, a, {}) /\ [a EXCEPT !.app = app].asks = a.asks
           /\ [a EXCEPT !.app = app].id = a.id /\ [a EXCEPT !.app = app].says = a.says
<1> DEFINE t == [a EXCEPT !.app = app]
<1>1. a \in AnswerRec
  BY DEF TimerKept
<1>2. /\ t \in AnswerRec /\ t.asks = a.asks /\ t.says = a.says /\ t.id = a.id /\ t.ring = a.ring
      /\ t.wait = a.wait
  BY <1>1 DEF AnswerRec
<1> HIDE DEF t
<1>3. /\ RingAlone(t, rs) /\ RingAlone(t, {}) /\ RingAlone(a, {})
  BY <1>2 DEF TimerKept, RingAlone
<1>4. NoRingYet(c, t, rs) /\ NoRingYet(c, t, {}) /\ NoRingYet(c, a, {})
  BY <1>2 DEF TimerKept, NoRingYet
<1>5. Known(t) /\ Known(a)
  BY <1>2 DEF TimerKept, Known
<1> QED
  BY <1>1, <1>2, <1>3, <1>4, <1>5 DEF TimerKept, t

\* The app that is gone asks and says nothing.
LEMMA GoneGives ==
    ASSUME NEW c, NEW a, NEW rs, TimerKept(c, a, rs)
    PROVE  TimerKept("off", [a EXCEPT !.app = "gone", !.asks = <<>>, !.says = {},
                                      !.pickup = FALSE, !.wait = None], {})
<1> DEFINE t == [a EXCEPT !.app = "gone", !.asks = <<>>, !.says = {}, !.pickup = FALSE,
                          !.wait = None]
<1>1. a \in AnswerRec /\ <<>> \in Seq(TimerCall) /\ None \in Nat /\ a.id \in Nat
  BY DEF TimerKept, AnswerRec, None
<1>2. /\ t \in AnswerRec /\ t.asks = <<>> /\ t.says = {} /\ t.wait = None /\ t.id = a.id
  BY <1>1 DEF AnswerRec
<1> HIDE DEF t
<1>3. RingAlone(t, {}) /\ NoRingYet("off", t, {})
  BY <1>2 DEF RingAlone, OneLatent, NoneLatent, NoRingYet
<1>4. Known(t)
  BY <1>1, <1>2, NoCalls DEF Known, None
<1> QED
  BY <1>2, <1>3, <1>4 DEF TimerKept, t

-----------------------------------------------------------------------------
(* The steps of the timer app, without commands while a call is under way     *)

LEMMA TimerFacts ==
    ASSUME TimerIInv
    PROVE  /\ TimerKept(count, answer, rings) /\ RingHeld(rings, ringtone)
           /\ answer \in AnswerRec /\ answer.asks \in Seq(TimerCall) /\ answer.id \in Nat
           /\ answer.says \in SUBSET Nat /\ answer.app \in {"front", "back", "gone"}
           /\ RingAlone(answer, rings) /\ NoRingYet(count, answer, rings) /\ Known(answer)
BY DEF TimerIInv, TimerKept, AnswerRec

LEMMA Silent == RingHeld({}, [known |-> None, sounds |-> FALSE])
BY DEF RingHeld

LEMMA ShutupGives ==
    ASSUME TimerIInv, Shutup
    PROVE  rings' = {} /\ RingHeld(rings', ringtone')
<1>1. rings' = {} /\ ringtone' = [known |-> None, sounds |-> FALSE]
  BY TimerFacts DEF Shutup, StopRingtone, RingHeld
<1> QED
  BY <1>1, Silent

LEMMA CommandGives ==
    ASSUME TimerIInv, TimerOps \subseteq {"follow", "slow"}, Command
    PROVE  /\ rings' = {} /\ RingHeld(rings', ringtone') /\ commands' \in 0 .. MaxCommands
           /\ answer.asks = <<>> /\ CallsIn(answer.asks) = {} /\ answer.app # "gone"
<1>1. answer.asks = <<>> /\ Shutup /\ answer.app # "gone" /\ commands' = commands + 1
      /\ commands < MaxCommands
  BY DEF Command
<1> QED
  BY <1>1, ShutupGives, NoCalls, TimerAssumption DEF TimerIInv

LEMMA CommandSteps ==
    ASSUME TimerIInv, TimerOps \subseteq {"follow", "slow"},
           \/ \E restart \in BOOLEAN : TimerStart(restart)
           \/ TimerTold \/ TimerClose \/ TimerPause \/ TimerKeepon \/ HowToUse \/ OtherIntent \/ Click
    PROVE  TimerIInv'
<1>1. Command
  BY DEF TimerStart, TimerTold, TimerClose, TimerPause, TimerKeepon, HowToUse, OtherIntent, Click
<1>2. /\ rings' = {} /\ RingHeld(rings', ringtone') /\ commands' \in 0 .. MaxCommands
      /\ answer.asks = <<>> /\ CallsIn(answer.asks) = {}
  BY <1>1, CommandGives
<1>3. /\ TimerKept(count, Latest, {}) /\ Latest.id = answer.id /\ Latest.asks = answer.asks
      /\ Latest.says = answer.says /\ TimerKept(count, answer, {}) /\ answer.id \in Nat
      /\ Latest \in AnswerRec
  <2>1. TimerKept(count, Latest, {})
    BY FewerRings, TimerFacts DEF Latest
  <2> QED
    BY <2>1, FewerRings, TimerFacts DEF Latest, TimerKept
<1>4. count \in {"off", "runs", "due", "paused"}
  BY DEF TimerIInv
<1>5. ASSUME count' \in {"off", "runs", "due", "paused"},
             TimerKept(count', answer', {})
      PROVE  TimerIInv'
  <2>1. TimerKept(count', answer', rings')
    BY <1>2, <1>5
  <2> QED
    BY <1>2, <1>5, <2>1 DEF TimerIInv, TimerKept, RingHeld, RingAlone, NoRingYet, Known, OneLatent,
                            NoneLatent, Latent, CallsIn
<1>6. ASSUME count' \in {"off", "runs", "due", "paused"},
             answer' = Says(Latest, FALSE, answer.id + 1)
      PROVE  TimerIInv'
  <2>1. answer.id + 1 \in Nat /\ answer.id + 1 > Latest.id
        /\ \A k \in CallsIn(Latest.asks) : k.what # "ring"
    BY <1>2, <1>3
  <2>2. TimerKept(count', Says(Latest, FALSE, answer.id + 1), {})
    BY <1>3, <2>1, SaysGives
  <2> QED
    BY <1>5, <1>6, <2>2
<1>7. ASSUME UNCHANGED count, NEW a, TimerKept(count, a, {}), NEW what \in {"back", "exit"},
             answer' = Asks(a, what, None)
      PROVE  TimerIInv'
  <2>1. TimerKept(count, Asks(a, what, None), {})
    BY <1>7, QuietCall
  <2>2. TimerKept(count', answer', {})
    BY <1>7, <2>1
  <2> QED
    BY <1>4, <1>5, <1>7, <2>2
<1>8. CASE HowToUse
  <2>1. PICK id \in {answer.id + 1, answer.id + 2} :
           answer' = Says(PicksUp(Latest, answer.id + 1), FALSE, id)
    BY <1>8 DEF HowToUse
  <2>2. id \in Nat /\ id > answer.id /\ answer.id + 1 \in Nat /\ count' = count
        /\ id >= answer.id + 1
    BY <1>3, <1>8 DEF HowToUse
  <2>3. CASE Latest.pickup
    <3>1. answer' = Says(Latest, FALSE, id)
      BY <2>1, <2>3 DEF PicksUp
    <3>2. TimerKept(count, Says(Latest, FALSE, id), {})
      BY <1>2, <1>3, <2>2, SaysGives
    <3> QED
      BY <1>4, <1>5, <2>2, <3>1, <3>2
  <2>4. CASE ~Latest.pickup
    <3> DEFINE n == answer.id + 1
               k == Call("pickup", n)
               f == Call("front", id)
               a == answer'
    <3>1. a = [Latest EXCEPT !.ring = FALSE, !.id = id, !.asks = <<k, f>>]
      <4>1. Append(<<>>, k) = <<k>> /\ Append(<<k>>, f) = <<k, f>>
        BY TwoCalls
      <4>2. a = Says([Latest EXCEPT !.ring = FALSE, !.id = n, !.asks = <<k>>], FALSE, id)
        BY <1>2, <1>3, <2>1, <2>4, <4>1 DEF PicksUp, Asks, Registered, AnswerRec
      <4> QED
        BY <1>3, <4>1, <4>2 DEF Says, Asks, Registered, AnswerRec
    <3>2. /\ k \in TimerCall /\ k.what = "pickup" /\ k.id = n /\ ~Latent(k, id)
          /\ f \in TimerCall /\ f.what = "front" /\ f.id = id
      BY <2>2 DEF Call, TimerCall, Latent
    <3> DEFINE q == <<k, f>>
    <3> HIDE DEF k, f
    <3>3. /\ q \in Seq(TimerCall) /\ DOMAIN q = {1, 2} /\ q[1] = k /\ q[2] = f
          /\ CallsIn(q) = {k, f}
      BY <3>2 DEF CallsIn
    <3> HIDE DEF q
    <3>4. /\ a \in AnswerRec /\ a.asks = q /\ a.id = id /\ a.ring = FALSE
          /\ a.says = answer.says /\ a.wait = Latest.wait
      BY <1>3, <2>2, <3>1, <3>3 DEF AnswerRec, q
    <3> HIDE DEF a
    <3>5. /\ \A i \in answer.says : i \in Nat /\ i <= answer.id
          /\ Latest.wait <= answer.id /\ Latest.wait \in Nat
      BY <1>3, TimerFacts DEF TimerKept, Known, AnswerRec
    <3>6. id \notin answer.says /\ Latest.wait <= id /\ \A i \in answer.says : i <= id
      BY <1>3, <2>2, <3>5
    <3>7. RingAlone(a, {})
      BY <3>2, <3>3, <3>4, <3>6 DEF RingAlone, OneLatent
    <3>8. NoRingYet(count, a, {})
      BY <3>2, <3>3, <3>4 DEF NoRingYet
    <3>9. id <= id
      BY <2>2
    <3>10. Known(a)
      BY <2>2, <3>2, <3>3, <3>4, <3>6, <3>9 DEF Known
    <3>11. TimerKept(count, a, {})
      BY <3>4, <3>7, <3>8, <3>10 DEF TimerKept
    <3> QED
      BY <1>4, <1>5, <2>2, <3>11 DEF a
  <2> QED
    BY <2>3, <2>4
<1>9. CASE OtherIntent
  BY <1>3, <1>7, <1>9 DEF OtherIntent
<1>10. CASE Click
  BY <1>3, <1>7, <1>10 DEF Click
<1>11. CASE TimerTold \/ TimerClose \/ TimerPause \/ TimerKeepon
            \/ \E restart \in BOOLEAN : TimerStart(restart)
  BY <1>4, <1>6, <1>11 DEF TimerTold, TimerClose, TimerPause, TimerKeepon, TimerStart
<1> QED
  BY <1>8, <1>9, <1>10, <1>11

LEMMA TimeSteps ==
    ASSUME TimerIInv, Elapse \/ TimeupHandler \/ PickupTimeout
    PROVE  TimerIInv'
<1>1. UNCHANGED <<rings, ringtone, commands>>
  BY DEF Elapse, TimeupHandler, PickupTimeout
<1>2. ASSUME count' \in {"off", "runs", "due", "paused"}, TimerKept(count', answer', rings)
      PROVE  TimerIInv'
  <2>1. TimerKept(count', answer', rings') /\ RingHeld(rings', ringtone')
        /\ commands' \in 0 .. MaxCommands
    BY <1>1, <1>2 DEF TimerIInv
  <2> QED
    BY <1>2, <2>1 DEF TimerIInv, TimerKept, RingHeld, RingAlone, NoRingYet, Known, OneLatent,
                      NoneLatent, Latent, CallsIn
<1>3. CASE Elapse
  <2>1. count = "runs" /\ count' = "due" /\ answer' = answer
    BY <1>3 DEF Elapse
  <2>2. NoRingYet("due", answer, rings)
    BY <2>1, TimerFacts DEF NoRingYet
  <2>3. TimerKept("due", answer, rings)
    BY <2>2, TimerFacts DEF TimerKept
  <2> QED
    BY <1>2, <2>1, <2>3
<1>4. CASE TimeupHandler
  <2>1. count = "due" /\ count' = "off" /\ answer' = Says(answer, TRUE, answer.id + 1)
    BY <1>4 DEF TimeupHandler
  <2>2. rings = {} /\ \A k \in CallsIn(answer.asks) : k.what # "ring"
    BY <2>1, TimerFacts DEF NoRingYet
  <2>3. answer.id + 1 \in Nat /\ answer.id + 1 > answer.id
    BY TimerFacts
  <2>4. TimerKept("off", Says(answer, TRUE, answer.id + 1), {})
    BY <2>2, <2>3, TimerFacts, SaysGives
  <2> QED
    BY <1>2, <2>1, <2>2, <2>4
<1>5. CASE PickupTimeout
  <2> DEFINE a == [answer EXCEPT !.pickup = FALSE, !.wait = None]
  <2>1. answer.wait # None /\ answer' = TriggerNextAction(a, answer.wait) /\ count' = count
    BY <1>5 DEF PickupTimeout
  <2>2. None \in Nat /\ answer.wait \in Nat
    BY TimerFacts DEF None, AnswerRec
  <2>3. /\ a \in AnswerRec /\ a.asks = answer.asks /\ a.says = answer.says /\ a.id = answer.id
        /\ a.ring = answer.ring /\ a.wait = None
    BY <2>2, TimerFacts DEF AnswerRec
  <2> HIDE DEF a
  <2>4. RingAlone(a, rings) /\ NoRingYet(count, a, rings)
    BY <2>3, TimerFacts DEF RingAlone, NoRingYet
  <2>5. None <= answer.id
    BY TimerFacts DEF None
  <2>6. Known(a)
    BY <2>3, <2>5, TimerFacts DEF Known
  <2>7. TimerKept(count, a, rings)
    BY <2>3, <2>4, <2>6 DEF TimerKept
  <2>8. ~(a.id = answer.wait /\ a.ring)
    BY <2>1, <2>3, TimerFacts DEF Known
  <2>9. TimerKept(count, TriggerNextAction(a, answer.wait), rings)
    BY <2>2, <2>7, <2>8, NextActionGives
  <2> QED
    BY <1>2, <2>1, <2>9 DEF TimerIInv
<1> QED
  BY <1>3, <1>4, <1>5

LEMMA TimerRebuilt ==
    ASSUME count' \in {"off", "runs", "due", "paused"}, commands' \in 0 .. MaxCommands,
           NEW a, NEW rs, NEW tone, answer' = a, rings' = rs, ringtone' = tone,
           TimerKept(count', a, rs), RingHeld(rs, tone)
    PROVE  TimerIInv'
BY DEF TimerIInv, TimerKept, RingHeld, RingAlone, NoRingYet, Known, OneLatent, NoneLatent, Latent,
       CallsIn

LEMMA BackgroundGives ==
    ASSUME TimerIInv, NEW a, TimerKept(count, a, rings), Background(a),
           commands' \in 0 .. MaxCommands
    PROVE  TimerIInv'
<1> DEFINE b == [a EXCEPT !.app = "back"]
<1>1. /\ rings' = {} /\ RingHeld(rings', ringtone') /\ count' = count
      /\ count \in {"off", "runs", "due", "paused"}
  BY ShutupGives DEF Background, TimerIInv
<1>2. TimerKept(count, b, {})
  BY FewerRings
<1>3. TimerKept(count, Asks(b, "exit", None), {})
  BY <1>2, QuietCall
<1>4. answer' = IF IsTimerExist(count) THEN b ELSE Asks(b, "exit", None)
  BY DEF Background
<1>5. TimerKept(count', answer', rings')
  BY <1>1, <1>2, <1>3, <1>4
<1> QED
  BY <1>1, <1>5, TimerRebuilt

LEMMA TonesSteps ==
    ASSUME TimerIInv, NEW r \in rings, RingSounded(r) \/ RingPaused(r)
    PROVE  TimerIInv'
<1>1. /\ count' = count /\ commands' = commands /\ count \in {"off", "runs", "due", "paused"}
      /\ commands \in 0 .. MaxCommands
  BY DEF RingSounded, RingPaused, TimerIInv
<1>2. /\ rings = {r} /\ r \in RingRec /\ r.n = ringtone.known /\ (r.at = "pauses" => r.left > 1)
      /\ count = "off" /\ r.n \in RingNumbers /\ r.left \in 1 .. RingTimes
      /\ ringtone \in [known : RingNumbers \cup {None}, sounds : BOOLEAN]
      /\ answer.id \notin answer.says /\ NoneLatent(answer.asks, answer.id)
  BY TimerFacts DEF RingHeld, RingAlone, RingRec, NoRingYet
<1>3. CASE RingSounded(r) /\ r.left > 1
  <2> DEFINE p == [r EXCEPT !.at = "pauses"]
  <2>1. /\ p \in RingRec /\ p.n = r.n /\ p.left > 1
    BY <1>2, <1>3 DEF RingRec
  <2> HIDE DEF p
  <2>2. rings' = {p} /\ ringtone' = [known |-> r.n, sounds |-> FALSE] /\ answer' = answer
    BY <1>2, <1>3 DEF RingSounded, p
  <2>3. RingHeld({p}, [known |-> r.n, sounds |-> FALSE])
    BY <1>2, <2>1 DEF RingHeld
  <2>4. RingAlone(answer, {p})
    BY <1>2, TimerFacts DEF RingAlone
  <2>5. NoRingYet(count, answer, {p})
    BY <1>2 DEF NoRingYet
  <2>6. TimerKept(count, answer, {p})
    BY <2>4, <2>5, TimerFacts DEF TimerKept
  <2>7. TimerKept(count', answer, {p})
    BY <1>1, <2>6
  <2> QED
    BY <1>1, <2>2, <2>3, <2>7, TimerRebuilt
<1>4. CASE RingSounded(r) /\ ~(r.left > 1)
  <2> DEFINE tone == [ringtone EXCEPT !.sounds = FALSE]
  <2>1. rings' = {} /\ ringtone' = tone /\ answer' = Asks(answer, "exit", None)
    BY <1>2, <1>4 DEF RingSounded
  <2>2. RingHeld({}, tone)
    BY <1>2 DEF RingHeld
  <2> HIDE DEF tone
  <2>3. TimerKept(count, answer, {})
    BY FewerRings, TimerFacts
  <2>4. TimerKept(count', Asks(answer, "exit", None), {})
    BY <1>1, <2>3, QuietCall
  <2> QED
    BY <1>1, <2>1, <2>2, <2>4, TimerRebuilt
<1>5. CASE RingPaused(r)
  <2> DEFINE k == Call("ring", r.left - 1)
             q == Append(answer.asks, k)
             a == Asks(answer, "ring", r.left - 1)
  <2>1. r.left > 1 /\ r.left - 1 \in Nat /\ r.left - 1 \in 1 .. RingTimes
    <3>1. r.left > 1
      BY <1>2, <1>5 DEF RingPaused
    <3> QED
      BY <1>2, <3>1, TimerAssumption
  <2>2. k \in TimerCall /\ k.what = "ring" /\ k.id \in 1 .. RingTimes
    BY <2>1 DEF Call, TimerCall
  <2>3. rings' = {} /\ ringtone' = ringtone /\ answer' = a
    BY <1>2, <1>5 DEF RingPaused
  <2>4. a = [answer EXCEPT !.asks = q]
    BY TimerFacts DEF Asks, AnswerRec
  <2>5. ringtone.sounds => r.at = "sounds"
    BY <1>2, TimerFacts DEF RingHeld
  <2> HIDE DEF k, a
  <2>6. q \in Seq(TimerCall) /\ CallsIn(q) = CallsIn(answer.asks) \cup {k}
    BY <2>2, TimerFacts, CallAppended
  <2>7. OneLatent(q, answer.id)
    BY <1>2, <2>2, TimerFacts, LatentAppended DEF RingAlone
  <2> HIDE DEF q
  <2>8. /\ a \in AnswerRec /\ a.asks = q /\ a.says = answer.says /\ a.id = answer.id
        /\ a.ring = answer.ring /\ a.wait = answer.wait
    BY <2>4, <2>6, TimerFacts DEF AnswerRec
  <2>9. RingAlone(a, {}) /\ NoRingYet(count, a, {})
    BY <1>2, <2>7, <2>8 DEF RingAlone, NoRingYet
  <2>10. Known(a)
    BY <2>2, <2>6, <2>8, TimerFacts DEF Known
  <2>11. TimerKept(count', a, {})
    BY <1>1, <2>8, <2>9, <2>10 DEF TimerKept
  <2>12. RingHeld({}, ringtone)
    BY <1>2, <1>5, <2>5 DEF RingHeld, RingPaused
  <2> QED
    BY <1>1, <2>3, <2>11, <2>12, TimerRebuilt
<1> QED
  BY <1>3, <1>4, <1>5

LEMMA WordsSteps ==
    ASSUME TimerIInv, NEW id \in answer.says, WordsEnd(id)
    PROVE  TimerIInv'
<1> DEFINE a == [answer EXCEPT !.says = @ \ {id}]
<1>1. /\ count' = count /\ commands' = commands /\ count \in {"off", "runs", "due", "paused"}
      /\ commands \in 0 .. MaxCommands /\ rings' = rings /\ ringtone' = ringtone
      /\ answer' = TriggerNextAction(a, id)
  BY DEF WordsEnd, TimerIInv
<1>2. id \in Nat
  BY TimerFacts
<1>3. /\ a \in AnswerRec /\ a.asks = answer.asks /\ a.says = answer.says \ {id}
      /\ a.id = answer.id /\ a.ring = answer.ring /\ a.wait = answer.wait
  BY TimerFacts DEF AnswerRec
<1> HIDE DEF a
<1>4. RingAlone(a, rings) /\ NoRingYet(count, a, rings)
  BY <1>3, TimerFacts DEF RingAlone, NoRingYet
<1>5. Known(a)
  BY <1>3, TimerFacts DEF Known
<1>6. TimerKept(count, a, rings)
  BY <1>3, <1>4, <1>5 DEF TimerKept
<1>7. ASSUME a.id = id, a.ring
      PROVE  count = "off" /\ rings = {} /\ id \notin a.says /\ NoneLatent(a.asks, id)
  <2>1. answer.id \in answer.says /\ answer.ring
    BY <1>3, <1>7
  <2>2. count = "off" /\ rings = {} /\ NoneLatent(answer.asks, answer.id)
    BY <2>1, TimerFacts DEF RingAlone, NoRingYet, TimerIInv
  <2> QED
    BY <1>3, <1>7, <2>2
<1>8. TimerKept(count', TriggerNextAction(a, id), rings)
  BY <1>1, <1>2, <1>6, <1>7, NextActionGives
<1>9. RingHeld(rings, ringtone)
  BY TimerFacts
<1> QED
  BY <1>1, <1>8, <1>9, TimerRebuilt

LEMMA CallSteps ==
    ASSUME TimerIInv, CallAnswered
    PROVE  TimerIInv'
<1> DEFINE q == Tail(answer.asks)
           call == Head(answer.asks)
           a == [answer EXCEPT !.asks = q]
<1>1. /\ answer.asks # <<>> /\ commands' = commands /\ commands \in 0 .. MaxCommands
      /\ count \in {"off", "runs", "due", "paused"}
  BY DEF CallAnswered, TimerIInv
<1>2. /\ call \in TimerCall /\ call \in CallsIn(answer.asks) /\ q \in Seq(TimerCall)
      /\ CallsIn(q) \subseteq CallsIn(answer.asks)
  BY <1>1, TimerFacts, CallTaken
<1>3. OneLatent(answer.asks, answer.id)
  BY TimerFacts DEF RingAlone
<1>4. /\ OneLatent(q, answer.id)
      /\ Latent(call, answer.id) => NoneLatent(q, answer.id)
                                    /\ ~NoneLatent(answer.asks, answer.id)
      /\ NoneLatent(answer.asks, answer.id) => NoneLatent(q, answer.id)
  BY <1>1, <1>3, TimerFacts, LatentTaken
<1>5. /\ call.what = "front" =>
            /\ answer' = [a EXCEPT !.app = "front", !.says = @ \cup {call.id}]
            /\ UNCHANGED <<count, rings, ringtone>>
      /\ call.what = "pickup" =>
            /\ answer' = [a EXCEPT !.pickup = TRUE, !.wait = call.id]
            /\ UNCHANGED <<count, rings, ringtone>>
      /\ call.what = "back" => Background(a)
      /\ call.what = "exit" => Gone
  BY DEF CallAnswered
<1>6. call.what = "ring" =>
         LET n == CHOOSE k \in RingNumbers : \A r \in rings : r.n # k
         IN /\ answer' = [a EXCEPT !.app = "front"]
            /\ rings' = rings \cup {[n |-> n, at |-> "sounds", left |-> call.id]}
            /\ ringtone' = [known |-> n, sounds |-> TRUE]
            /\ UNCHANGED count
  BY DEF CallAnswered
<1>7. /\ a \in AnswerRec /\ a.asks = q /\ a.says = answer.says /\ a.id = answer.id
      /\ a.ring = answer.ring /\ a.wait = answer.wait
  BY <1>2, TimerFacts DEF AnswerRec
<1>8. call.id \in Nat /\ call.what \in {"front", "ring", "pickup", "back", "exit"}
  BY <1>2 DEF TimerCall
<1> HIDE DEF q, call, a
<1>9. RingAlone(a, rings) /\ NoRingYet(count, a, rings) /\ Known(a)
  <2>1. RingAlone(a, rings)
    BY <1>4, <1>7, TimerFacts DEF RingAlone
  <2>2. NoRingYet(count, a, rings)
    BY <1>2, <1>4, <1>7, TimerFacts DEF NoRingYet
  <2>3. Known(a)
    BY <1>2, <1>7, TimerFacts DEF Known
  <2> QED
    BY <2>1, <2>2, <2>3
<1>10. TimerKept(count, a, rings)
  BY <1>7, <1>9 DEF TimerKept
<1>11. RingHeld(rings, ringtone)
  BY TimerFacts
<1>12. CASE call.what = "front"
  <2> DEFINE t == [a EXCEPT !.app = "front", !.says = @ \cup {call.id}]
  <2>1. answer' = t /\ count' = count /\ rings' = rings /\ ringtone' = ringtone
    BY <1>5, <1>12
  <2>2. /\ t \in AnswerRec /\ t.asks = q /\ t.id = answer.id /\ t.ring = answer.ring
        /\ t.wait = answer.wait /\ t.says = answer.says \cup {call.id}
    BY <1>7, <1>8 DEF AnswerRec
  <2> HIDE DEF t
  <2>3. call.id = answer.id => Latent(call, answer.id)
    BY <1>12 DEF Latent
  <2>4. RingAlone(t, rings)
    BY <1>4, <1>9, <2>2, <2>3, TimerFacts DEF RingAlone
  <2>5. NoRingYet(count, t, rings)
    BY <1>2, <1>4, <1>9, <1>7, <2>2, <2>3, TimerFacts DEF NoRingYet
  <2>6. call.id <= answer.id
    BY <1>2, <1>12, TimerFacts DEF Known
  <2>7. Known(t)
    BY <1>7, <1>9, <2>2, <2>6 DEF Known
  <2>8. TimerKept(count', t, rings)
    BY <2>1, <2>2, <2>4, <2>5, <2>7 DEF TimerKept
  <2> QED
    BY <1>1, <1>11, <2>1, <2>8, TimerRebuilt
<1>13. CASE call.what = "ring"
  <2> DEFINE n == CHOOSE k \in RingNumbers : \A r \in rings : r.n # k
             ring == [n |-> n, at |-> "sounds", left |-> call.id]
             t == [a EXCEPT !.app = "front"]
  <2>1. Latent(call, answer.id)
    BY <1>13 DEF Latent
  <2>2. rings = {} /\ NoneLatent(q, answer.id) /\ answer.id \notin answer.says
    BY <1>4, <2>1, TimerFacts DEF RingAlone
  <2>3. count = "off"
    BY <1>2, <1>13, TimerFacts DEF NoRingYet
  <2>4. n \in RingNumbers
    <3>1. \E k \in RingNumbers : \A r \in rings : r.n # k
      BY <2>2 DEF RingNumbers
    <3> QED
      BY <3>1
  <2>5. answer' = t /\ rings' = {ring} /\ ringtone' = [known |-> n, sounds |-> TRUE]
        /\ count' = count
    BY <1>6, <1>13, <2>2
  <2>6. call.id \in 1 .. RingTimes
    BY <1>2, <1>13, TimerFacts DEF Known
  <2> HIDE DEF n
  <2>7. ring \in RingRec /\ ring.n = n /\ ring.at = "sounds"
    BY <2>4, <2>6 DEF RingRec
  <2>8. /\ t \in AnswerRec /\ t.asks = q /\ t.says = answer.says /\ t.id = answer.id
        /\ t.ring = answer.ring /\ t.wait = answer.wait
    BY <1>7 DEF AnswerRec
  <2> HIDE DEF ring, t
  <2>9. RingHeld({ring}, [known |-> n, sounds |-> TRUE])
    BY <2>4, <2>7 DEF RingHeld
  <2>10. RingAlone(t, {ring}) /\ NoRingYet(count, t, {ring})
    BY <1>4, <2>2, <2>3, <2>8 DEF RingAlone, NoRingYet
  <2>11. Known(t)
    BY <1>7, <1>9, <2>8 DEF Known
  <2>12. TimerKept(count', t, {ring})
    BY <2>5, <2>8, <2>10, <2>11 DEF TimerKept
  <2> QED
    BY <1>1, <2>5, <2>9, <2>12, TimerRebuilt
<1>14. CASE call.what = "pickup"
  <2> DEFINE t == [a EXCEPT !.pickup = TRUE, !.wait = call.id]
  <2>1. answer' = t /\ count' = count /\ rings' = rings /\ ringtone' = ringtone
    BY <1>5, <1>14
  <2>2. /\ t \in AnswerRec /\ t.asks = q /\ t.id = answer.id /\ t.ring = answer.ring
        /\ t.wait = call.id /\ t.says = answer.says
    BY <1>7, <1>8 DEF AnswerRec
  <2> HIDE DEF t
  <2>3. RingAlone(t, rings) /\ NoRingYet(count, t, rings)
    BY <1>7, <1>9, <2>2 DEF RingAlone, NoRingYet
  <2>4. call.id <= answer.id /\ (answer.ring => call.id # answer.id)
    BY <1>2, <1>14, TimerFacts DEF Known
  <2>5. Known(t)
    BY <1>7, <1>9, <2>2, <2>4 DEF Known
  <2>6. TimerKept(count', t, rings)
    BY <2>1, <2>2, <2>3, <2>5 DEF TimerKept
  <2> QED
    BY <1>1, <1>11, <2>1, <2>6, TimerRebuilt
<1>15. CASE call.what = "back"
  BY <1>1, <1>5, <1>10, <1>15, BackgroundGives
<1>16. CASE call.what = "exit"
  <2> DEFINE t == [answer EXCEPT !.app = "gone", !.asks = <<>>, !.says = {},
                                 !.pickup = FALSE, !.wait = None]
             tone == [known |-> None, sounds |-> FALSE]
  <2>1. answer' = t /\ rings' = {} /\ ringtone' = tone /\ count' = "off"
    BY <1>5, <1>16 DEF Gone
  <2>2. TimerKept("off", t, {})
    BY TimerFacts, GoneGives
  <2>3. RingHeld({}, tone)
    BY Silent
  <2> HIDE DEF t, tone
  <2>4. TimerKept(count', t, {})
    BY <2>1, <2>2
  <2> QED
    BY <1>1, <2>1, <2>3, <2>4, TimerRebuilt
<1> QED
  BY <1>8, <1>12, <1>13, <1>14, <1>15, <1>16

LEMMA PreemptedSteps ==
    ASSUME TimerIInv, Preempted
    PROVE  TimerIInv'
<1>1. commands' \in 0 .. MaxCommands
  BY TimerAssumption DEF Preempted, TimerIInv
<1> QED
  BY <1>1, TimerFacts, BackgroundGives DEF Preempted

LEMMA TimerInductive ==
    ASSUME TimerIInv, TimerOps \subseteq {"follow", "slow"}, [TimerNext]_timerVars
    PROVE  TimerIInv'
<1>1. CASE UNCHANGED timerVars
  <2>1. /\ answer' = answer /\ rings' = rings /\ ringtone' = ringtone /\ count' = count
        /\ commands' = commands
    BY <1>1 DEF timerVars
  <2>2. count' \in {"off", "runs", "due", "paused"} /\ commands' \in 0 .. MaxCommands
        /\ TimerKept(count', answer, rings)
    BY <2>1, TimerFacts DEF TimerIInv
  <2> QED
    BY <2>1, <2>2, TimerFacts, TimerRebuilt
<1>2. CASE \E id \in answer.says : WordsEnd(id) \/ WordsFail(id)
  <2>1. PICK id \in answer.says : WordsEnd(id) \/ WordsFail(id)
    BY <1>2
  <2>2. ~WordsFail(id)
    BY DEF WordsFail
  <2> QED
    BY <2>1, <2>2, WordsSteps
<1>3. CASE \E r \in rings : RingSounded(r) \/ RingPaused(r)
  <2>1. PICK r \in rings : RingSounded(r) \/ RingPaused(r)
    BY <1>3
  <2> QED
    BY <2>1, TonesSteps
<1>4. CASE \/ \E restart \in BOOLEAN : TimerStart(restart)
           \/ TimerTold \/ TimerClose \/ TimerPause \/ TimerKeepon \/ HowToUse \/ OtherIntent
           \/ Click
  BY <1>4, CommandSteps
<1>5. CASE Elapse \/ TimeupHandler \/ PickupTimeout
  BY <1>5, TimeSteps
<1>6. CASE CallAnswered \/ Preempted
  BY <1>6, CallSteps, PreemptedSteps
<1> QED
  BY <1>1, <1>2, <1>3, <1>4, <1>5, <1>6 DEF TimerNext

LEMMA TimerStarts == TimerInit => TimerIInv
<1> SUFFICES ASSUME TimerInit PROVE TimerIInv
  OBVIOUS
<1>1. <<>> \in Seq(TimerCall) /\ 0 \in 0 .. MaxCommands
  BY TimerAssumption
<1>2. RingHeld(rings, ringtone)
  BY Silent DEF TimerInit
<1>3. answer \in AnswerRec
  BY <1>1 DEF TimerInit, AnswerRec, None
<1>4. RingAlone(answer, rings) /\ NoRingYet(count, answer, rings) /\ Known(answer)
  BY NoCalls DEF TimerInit, RingAlone, OneLatent, NoneLatent, NoRingYet, Known, None
<1> QED
  BY <1>1, <1>2, <1>3, <1>4 DEF TimerInit, TimerIInv, TimerKept

-----------------------------------------------------------------------------
\* Alarms, the countdown and the timed sleep, at any number of alarms, commands
\* and rings: what is due is not kept from ringing, what rings can be stopped and
\* is silent while the app answers, the app sleeps when it was told to and leaves
\* no answer unsaid (AlarmCore and the app.js of timer and timed-sleep).  Due times
\* and commands do not cross one another's calls, no alarm is repeated on a Sunday,
\* and words are spoken but for those of the timed sleep.
THEOREM TimesKept ==
    ASSUME AlarmOps = {}, Weekends = {}, Sundays = {},
           TimerOps \subseteq {"follow", "slow"}, SleepOps \subseteq {"fails"}
    PROVE  AlarmSpec /\ TimerSpec /\ TimedSleepSpec => []TimesInv
<1>1. AlarmIInv /\ TimerIInv /\ SleepIInv => TimesInv
  BY AlarmIInvGives, TimerIInvGives, SleepIInvGives DEF TimesInv
<1>2. AlarmSpec => []AlarmIInv
  BY AlarmStarts, AlarmInductive, PTL DEF AlarmSpec
<1>3. TimerSpec => []TimerIInv
  BY TimerStarts, TimerInductive, PTL DEF TimerSpec
<1>4. TimedSleepSpec => []SleepIInv
  BY SleepStarts, SleepInductive, PTL DEF TimedSleepSpec
<1> QED
  BY <1>1, <1>2, <1>3, <1>4, PTL

=============================================================================
