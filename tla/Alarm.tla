------------------------------- MODULE Alarm -------------------------------
(***************************************************************************)
(* The alarm app (apps/alarm): jobs that become due, alone or several in   *)
(* the same second, the one that rings, the chain of promises from its     *)
(* first sound through its words to the ring, and the file of the jobs.    *)
(*                                                                         *)
(* When a job is due is a matter of CronSchedule; volume, cards, the words *)
(* of reminders that are combined and the exit of the app when a file      *)
(* without jobs has been written are left out.  A rejected or cancelled    *)
(* speech leaves its chain standing still.                                 *)
(***************************************************************************)
EXTENDS Naturals, FiniteSets

CONSTANTS
    Jobs,       \* ids of alarms and reminders
    Reminders,  \* those that are reminders
    Single,     \* those that ring once
    Created,    \* the creation times of jobs
    Weekends,   \* those repeated on '6,0', which the comparison of jobs reads as '6'
    Sundays,    \* those repeated on '7', which it refuses
    MaxDue,     \* bound: moments at which jobs are due
    MaxOps,     \* bound: commands, and sounds that fail
    AlarmOps    \* overlap: jobs due while others begin; delete: jobs deleted
                \* while others begin, or while one rings that rings once

NoJob == "no job"
NoFile == {NoJob}

ASSUME AlarmAssumption ==
    /\ NoJob \notin Jobs
    /\ Reminders \subseteq Jobs /\ Single \subseteq Jobs
    /\ Created \in [Jobs -> Nat]
    /\ Weekends \subseteq Jobs /\ Sundays \subseteq Jobs
    /\ MaxDue \in Nat /\ MaxOps \in Nat
    /\ AlarmOps \subseteq {"overlap", "delete"}

VARIABLES
    alarm,    \* AlarmCore: jobs, jobQueue, activeOption, timers and chains
    file,     \* config.json: the jobs that are in it
    writes,   \* _setConfig under way
    dues, ops

alarmVars == <<alarm, file, writes, dues, ops>>

Chains == {"foreground", "speak", "ring", "loop"}

AlarmTypeOK ==
    /\ alarm \in [jobs : SUBSET Jobs, queue : SUBSET Jobs,
                  active : Jobs \cup {NoJob},
                  waiting : SUBSET (Jobs \X SUBSET Jobs),  \* to be in front, with what is found due at once
                  starting : Nat,                       \* media.start in playFirstMedia
                  tasks : Nat, stops : Nat,             \* taskTimeout, stopTimeout
                  chains : [Chains -> Nat],             \* of _taskCallback
                  media : {"off", "first", "ring"},
                  errors : Nat,                         \* of media, on their way to the app
                  startTts : BOOLEAN,
                  down : BOOLEAN]                       \* a timer or a listener has thrown
    /\ file \in (SUBSET Jobs) \cup {NoFile}
    /\ writes \subseteq [at : {"read", "unlink", "write"}, id : Nat, data : SUBSET Jobs,
                         adds : SUBSET Jobs, removes : SUBSET Jobs]
    /\ dues \in 0 .. MaxDue /\ ops \in 0 .. MaxOps

AlarmInit ==
    \E present \in SUBSET Jobs :
       /\ alarm = [jobs |-> present, queue |-> {}, active |-> NoJob, waiting |-> {},
                   starting |-> 0, tasks |-> 0, stops |-> 0,
                   chains |-> [c \in Chains |-> 0], media |-> "off", errors |-> 0,
                   startTts |-> FALSE, down |-> FALSE]
       /\ file = present /\ writes = {}
       /\ dues = 0 /\ ops = 0

-----------------------------------------------------------------------------
(* AlarmCore *)

Less(n) == IF n > 0 THEN n - 1 ELSE 0

\* _setConfig is called.
SetConfig(adds, removes) ==
    writes' = writes \cup {[at |-> "read", id |-> ops + dues, data |-> {}, adds |-> adds,
                            removes |-> removes]}

ActiveSingle(a) == {a.active} \cap Single

\* clear: told of a job that is not there, the schedule destroys every job.
Destroyed(jobs, gone) == IF gone \subseteq jobs THEN jobs \ gone ELSE {}

\* (slip: the job that rings stays in jobQueue)
ClearedButQueued(a) ==
    [a EXCEPT !.jobs = Destroyed(@, ActiveSingle(a)), !.active = NoJob,
              !.media = "off", !.chains["speak"] = 0, !.tasks = Less(@), !.stops = Less(@)]

\* clearAll, its _clearTask included: sounds and words are stopped, of the
\* timers the one that was set last is cleared.
Cleared(a) ==
    [a EXCEPT !.queue = @ \ {a.active}, !.jobs = Destroyed(@, ActiveSingle(a)), !.active = NoJob,
              !.media = "off", !.chains["speak"] = 0, !.tasks = Less(@), !.stops = Less(@)]

ClearAll ==
    /\ alarm' = Cleared(alarm)
    /\ IF ActiveSingle(alarm) # {} THEN SetConfig({}, ActiveSingle(alarm)) ELSE UNCHANGED writes

\* The first sound of the job.
PlayFirstMedia(a) == [a EXCEPT !.media = "first", !.starting = @ + 1]

\* (slip: jobs of different types are not told apart)
CompareSameType(job, other) ==
    (job \in Reminders) = (other \in Reminders) /\ Created[job] > Created[other]

\* compareTask: true if the job rings although the other is due as well.
CompareTask(job, other) ==
    \/ job \in Reminders /\ other \notin Reminders
    \/ (job \in Reminders) = (other \in Reminders) /\ Created[job] > Created[other]

\* Comparing the job with another throws, unless it has given way before.
Refused(job) ==
    \E other \in alarm.jobs \ {job} : job \in Sundays \/ other \in Sundays

Runnable(job, due) == \A other \in (alarm.jobs \cap due) \ {job} : CompareTask(job, other)

-----------------------------------------------------------------------------
(* Jobs *)

Up == ~alarm.down

\* What the comparison finds due at the same time as the job: on a Sunday the jobs
\* of lost are taken for due on Saturday, with each other and with those of saturday.
DueWith(job, due, lost, saturday) == IF job \in lost THEN lost \cup saturday ELSE due \ lost

\* The jobs of due are due in the same second; each clears what there is.  When
\* the first destroys every job, the others do not begin.
JobsDue(due) ==
    /\ Up /\ dues < MaxDue /\ dues' = dues + 1
    /\ due # {} /\ due \subseteq alarm.jobs
    /\ alarm.active \notin due \cap Single  \* which has no other date
    /\ alarm.waiting # {} => "overlap" \in AlarmOps
    /\ \E begun \in IF ActiveSingle(alarm) \subseteq alarm.jobs THEN {due}
                     ELSE {{job} : job \in due} :
         \E lost \in {{}, due \cap Weekends} : \E saturday \in SUBSET (Jobs \ due) :
            alarm' = [Cleared(alarm) EXCEPT
                        !.waiting = @ \cup {<<job, DueWith(job, due, lost, saturday)>> : job \in begun}]
    /\ IF ActiveSingle(alarm) # {} THEN SetConfig({}, ActiveSingle(alarm)) ELSE UNCHANGED writes
    /\ UNCHANGED <<file, ops>>

\* _onTaskActive goes on when the app is in front.
InFront(job, due) ==
    LET began == [alarm EXCEPT !.waiting = @ \ {<<job, due>>}, !.queue = @ \cup {job}]
        gone == {job} \cap Single
    IN  /\ Up /\ <<job, due>> \in alarm.waiting
        /\ \/ /\ job \in alarm.queue
              /\ alarm' = [alarm EXCEPT !.waiting = @ \ {<<job, due>>}]
              /\ UNCHANGED writes
           \/ /\ job \notin alarm.queue
              /\ job \notin alarm.jobs \/ Refused(job)  \* getJobConfig throws
              /\ alarm' = began
              /\ UNCHANGED writes
           \/ /\ job \notin alarm.queue /\ job \in alarm.jobs \ Sundays
              /\ ~Runnable(job, due)
              /\ alarm' = [began EXCEPT !.queue = @ \ {job}, !.jobs = @ \ gone]
              /\ IF gone # {} THEN SetConfig({}, gone) ELSE UNCHANGED writes
           \/ /\ job \notin alarm.queue /\ job \in alarm.jobs /\ ~Refused(job)
              /\ Runnable(job, due)
              /\ alarm' = PlayFirstMedia([began EXCEPT !.active = job, !.startTts = FALSE])
              /\ UNCHANGED writes
        /\ UNCHANGED <<file, dues, ops>>

\* media.start resolves as soon as there is a player, or rejects.
FirstStarted ==
    /\ Up /\ alarm.starting > 0
    /\ \/ alarm' = [alarm EXCEPT !.starting = @ - 1, !.tasks = @ + 1]
       \/ alarm' = [alarm EXCEPT !.starting = @ - 1]
    /\ UNCHANGED <<file, writes, dues, ops>>

\* A sound of the app fails.
SoundFails ==
    /\ Up /\ ops < MaxOps /\ ops' = ops + 1
    /\ alarm.media # "off"
    /\ alarm' = [alarm EXCEPT !.media = "off", !.errors = @ + 1]
    /\ UNCHANGED <<file, writes, dues>>

\* 'error': before the words the first sound is played again, its taskTimeout
\* set or not; without an active job playFirstMedia throws, and the app ends.
OnMediaError ==
    /\ Up /\ alarm.errors > 0
    /\ LET heard == [alarm EXCEPT !.errors = @ - 1]
       IN  alarm' = IF alarm.startTts THEN heard
                    ELSE IF alarm.active = NoJob THEN [heard EXCEPT !.down = TRUE]
                    ELSE PlayFirstMedia(heard)
    /\ UNCHANGED <<file, writes, dues, ops>>

\* taskTimeout: without an active job _taskCallback throws, and the app ends.
TaskTimeout ==
    /\ Up /\ alarm.tasks > 0
    /\ alarm' = IF alarm.active = NoJob THEN [alarm EXCEPT !.tasks = @ - 1, !.down = TRUE]
                ELSE [alarm EXCEPT !.tasks = @ - 1, !.media = "off", !.chains["foreground"] = @ + 1,
                                   !.startTts = @ \/ alarm.active \in Reminders]
    /\ UNCHANGED <<file, writes, dues, ops>>

Moved(chains, from, to) == [chains EXCEPT ![from] = @ - 1, ![to] = @ + 1]

\* The chain of _taskCallback goes on; without a network nothing is spoken.  That
\* of an alarm sets startTts when it is in front, one of a reminder did before.
ChainGoes(from, to, tts) ==
    /\ tts => from = "foreground"
    /\ Up /\ alarm.chains[from] > 0
    /\ \/ from = "foreground" /\ to \in {"speak", "ring"}
       \/ from = "speak" /\ to = "ring"
       \/ from = "ring" /\ to = "loop"
    /\ alarm' = [alarm EXCEPT !.chains = Moved(@, from, to),
                              !.media = IF to = "loop" THEN "ring" ELSE @,
                              !.startTts = @ \/ tts]
    /\ UNCHANGED <<file, writes, dues, ops>>

\* Speech fails, and the chain is given up.
SpeechFails ==
    /\ Up /\ alarm.chains["speak"] > 0
    /\ alarm' = [alarm EXCEPT !.chains["speak"] = @ - 1]
    /\ UNCHANGED <<file, writes, dues, ops>>

LoopSet ==
    /\ Up /\ alarm.chains["loop"] > 0
    /\ alarm' = [alarm EXCEPT !.chains["loop"] = @ - 1, !.stops = @ + 1]
    /\ UNCHANGED <<file, writes, dues, ops>>

\* After five minutes.
StopTimeout ==
    /\ Up /\ alarm.stops > 0
    /\ alarm' = Cleared([alarm EXCEPT !.stops = @ - 1])
    /\ IF ActiveSingle(alarm) # {} THEN SetConfig({}, ActiveSingle(alarm)) ELSE UNCHANGED writes
    /\ UNCHANGED <<file, dues, ops>>

\* A key, or the voice that pauses the media.
UserStops ==
    /\ Up /\ ops < MaxOps /\ ops' = ops + 1
    /\ ClearAll
    /\ UNCHANGED <<file, dues>>

\* doTask: a job is added or edited, or deleted.
DoTask(job, mode) ==
    /\ Up /\ ops < MaxOps /\ ops' = ops + 1
    /\ mode = "del" /\ (alarm.waiting # {} \/ ActiveSingle(alarm) # {}) => "delete" \in AlarmOps
    /\ alarm' = [alarm EXCEPT !.jobs = IF mode = "add" THEN @ \cup {job} ELSE Destroyed(@, {job})]
    /\ IF mode = "add" THEN SetConfig({job}, {}) ELSE SetConfig({}, {job})
    /\ UNCHANGED <<file, dues>>

-----------------------------------------------------------------------------
(* The file *)

\* _setConfig reads, unlinks and writes; an error ends it.
WriteGoes(w) ==
    /\ w \in writes
    /\ UNCHANGED <<alarm, dues, ops>>
    /\ \/ w.at = "read" /\ file # NoFile /\ UNCHANGED file
          /\ writes' = (writes \ {w}) \cup
                       {[w EXCEPT !.at = "unlink", !.data = (file \cup w.adds) \ w.removes]}
       \/ w.at = "unlink" /\ file # NoFile /\ file' = NoFile
          /\ writes' = (writes \ {w}) \cup {[w EXCEPT !.at = "write"]}
       \/ w.at # "write" /\ file = NoFile /\ UNCHANGED file /\ writes' = writes \ {w}
       \/ w.at = "write" /\ file' = w.data /\ writes' = writes \ {w}

AlarmNext ==
    \/ \E due \in SUBSET Jobs : JobsDue(due)
    \/ \E job \in Jobs :
         \/ \E due \in SUBSET Jobs : InFront(job, due)
         \/ \E mode \in {"add", "del"} : DoTask(job, mode)
    \/ FirstStarted \/ SoundFails \/ OnMediaError
    \/ TaskTimeout \/ SpeechFails \/ LoopSet \/ StopTimeout \/ UserStops
    \/ \E from, to \in Chains, tts \in BOOLEAN : ChainGoes(from, to, tts)
    \/ \E w \in writes : WriteGoes(w)

AlarmSpec == AlarmInit /\ [][AlarmNext]_alarmVars

\* The promises of the runtime settle, and timers fire.
AlarmFairness ==
    /\ \A job \in Jobs, due \in SUBSET Jobs : WF_alarmVars(InFront(job, due))
    /\ WF_alarmVars(FirstStarted) /\ WF_alarmVars(OnMediaError) /\ WF_alarmVars(TaskTimeout)
    /\ WF_alarmVars(LoopSet) /\ WF_alarmVars(StopTimeout)
    /\ \A from, to \in Chains : WF_alarmVars(\E tts \in BOOLEAN : ChainGoes(from, to, tts))

-----------------------------------------------------------------------------
(* Properties *)

\* A job whose id is in jobQueue is not started again: there is none but the
\* one that rings, or a repeated alarm would stay silent from then on.
QueuedIsActive == alarm.queue \subseteq {alarm.active}

\* Of jobs due in the same second one rings: they do not all give way.
SomeoneRings ==
    /\ dues = MaxDue /\ ops = MaxOps
    /\ \E w \in alarm.waiting : w[2] \subseteq alarm.jobs /\ w[2] \X {w[2]} \subseteq alarm.waiting
    ~> alarm.active # NoJob \/ alarm.down

\* "run the last setting clock": a job does not take the place of one that
\* rings, however many are due in the same second.
OneRuns ==
    [][alarm.active # NoJob /\ alarm'.active # NoJob => alarm'.active = alarm.active]_alarmVars

\* What rings, rings for five minutes at most, whether or not its job has been
\* stopped before its ring began.
RingEnds == alarm.media = "ring" ~> alarm.media # "ring" \/ alarm.down

\* "stop alarm when device was wakeuped": nothing rings without an active job.
RingsForActive == alarm.media = "ring" => alarm.active # NoJob

\* A timer that fires finds the job it was set for.
TimerFindsJob == ~alarm.down

\* When all writes are done the file tells of the jobs there are, so that a
\* restart without a network finds them.
FileAgrees == writes = {} => file = alarm.jobs

\* No job is kept from ringing again by what is left of its last ring.
AlarmInv == AlarmTypeOK /\ QueuedIsActive
=============================================================================
