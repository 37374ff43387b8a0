------------------------------- MODULE ExtApp -------------------------------
(***************************************************************************)
(* The process of an app (runtime/lib/app/ext-app.js with client/          *)
(* ext-helper.js and translator-ipc.js at its other end): forked, handed   *)
(* its descriptor, asked to be ready in 15 s, watched by its pings,        *)
(* destructed and killed.  Messages are lists in both directions; a        *)
(* process may hang, exit at any point and report an error.  Time goes by  *)
(* in units of 5 s, the interval of pings, in which what was sent is       *)
(* received.  Acknowledged events, which no descriptor of the runtime has, *)
(* and the exit of all apps with the runtime are left out.                 *)
(***************************************************************************)
EXTENDS Naturals, Sequences

CONSTANTS
    MaxForks,  \* bound: processes forked for the app
    AppFaults  \* what a process may do: "hang", "error", "exit"

ASSUME ExtAppAssumption == MaxForks \in Nat /\ AppFaults \subseteq {"hang", "error", "exit"}

VARIABLES
    procs,     \* per process both ends of its channel
    scheduler  \* what the scheduler knows of the app

extVars == <<procs, scheduler>>

Forks == 1 .. MaxForks
Off == 0
FifteenSeconds == 4   \* a timer is due at 1
DueTick == 1

ToVuid == {"initiating", "subscribe", "ready", "error", "ping", "invoke"}
ToApp == {"descriptor", "create", "promise"}

\* Of the process: how far it is, whether it hangs, whether it listens to
\* 'create' and does so from its launch, and how often it heard it.  Of the
\* runtime: the two timers, the kill that is due 1 s after a destruct or was
\* done, its listeners, and how often the start was settled.
Process ==
    [child : {"none", "loading", "asking", "up", "broken", "dead"},
     hangs : {"never", "now", "over"},
     early : BOOLEAN, listens : BOOLEAN, heard : 0 .. 2,
     call : {"none", "asked", "working", "answered", "returned"},
     toVuid : Seq(ToVuid), toApp : Seq(ToApp),
     startTimer : 0 .. FifteenSeconds, pingTimer : 0 .. FifteenSeconds,
     dying : BOOLEAN, killed : BOOLEAN,
     receives : BOOLEAN, waits : BOOLEAN, subscribed : BOOLEAN, exited : BOOLEAN,
     outcome : {"pending", "ready", "failed"}, settled : 0 .. 2]

ExtAppTypeOK ==
    /\ procs \in [Forks -> Process]
    /\ \A i \in Forks : Len(procs[i].toVuid) <= 4 /\ Len(procs[i].toApp) <= 2
    /\ scheduler \in [status : {"exited", "creating", "running", "destructing"},
                      app : 0 .. MaxForks]

Unborn ==
    [child |-> "none", hangs |-> "never", early |-> FALSE, listens |-> FALSE,
     heard |-> 0, call |-> "none", toVuid |-> <<>>, toApp |-> <<>>, startTimer |-> Off,
     pingTimer |-> Off, dying |-> FALSE, killed |-> FALSE, receives |-> FALSE, waits |-> FALSE,
     subscribed |-> FALSE, exited |-> FALSE, outcome |-> "pending", settled |-> 0]

ExtAppInit ==
    /\ procs = [i \in Forks |-> Unborn]
    /\ scheduler = [status |-> "exited", app |-> 0]

Become(i, p) == procs' = [procs EXCEPT ![i] = p]
Alive(p) == p.child \notin {"none", "dead"}
Works(p) == Alive(p) /\ p.hangs # "now"

Reports(p, m) == [p EXCEPT !.toVuid = @ \o m]
\* Nothing is sent to a process that was killed; to a dead one it is lost.
Send(p, m) == IF p.killed \/ ~Alive(p) THEN p ELSE [p EXCEPT !.toApp = Append(@, m)]

-----------------------------------------------------------------------------
(* The process *)

\* main loads the app and asks for the descriptor; pings begin.
LoadApp(i) ==
    /\ procs[i].child = "loading" /\ Works(procs[i])
    /\ Become(i, Reports([procs[i] EXCEPT !.child = "asking"], <<"initiating">>))
    /\ UNCHANGED scheduler

\* The app's function runs: what it listens to by its end is subscribed first.
Launched(p) ==
    Reports([p EXCEPT !.child = "up", !.listens = p.early],
            IF p.early THEN <<"subscribe", "ready">> ELSE <<"ready">>)

Read(i) ==
    LET p == [procs[i] EXCEPT !.toApp = Tail(@)]
    IN  /\ Works(procs[i]) /\ procs[i].toApp # <<>>
        /\ \/ /\ Head(procs[i].toApp) = "descriptor"
              /\ \/ Become(i, Launched(p))
                 \/ /\ "error" \in AppFaults
                    /\ Become(i, Reports([p EXCEPT !.child = "broken"], <<"error">>))
           \/ /\ Head(procs[i].toApp) = "create"
              /\ Become(i, [p EXCEPT !.heard = @ + 1])
           \/ /\ Head(procs[i].toApp) = "promise"
              /\ Become(i, [p EXCEPT !.call = "returned"])
        /\ UNCHANGED scheduler

\* An app that listens later; a second listener is not subscribed again.
Listen(i) ==
    /\ procs[i].child = "up" /\ Works(procs[i]) /\ ~procs[i].listens
    /\ Become(i, Reports([procs[i] EXCEPT !.listens = TRUE], <<"subscribe">>))
    /\ UNCHANGED scheduler

Invoke(i) ==
    /\ procs[i].child = "up" /\ Works(procs[i]) /\ procs[i].call = "none"
    /\ Become(i, Reports([procs[i] EXCEPT !.call = "asked"], <<"invoke">>))
    /\ UNCHANGED scheduler

Hang(i) ==
    /\ "hang" \in AppFaults /\ Alive(procs[i]) /\ procs[i].hangs = "never"
    /\ Become(i, [procs[i] EXCEPT !.hangs = "now"])
    /\ UNCHANGED scheduler

GoOn(i) ==
    /\ Alive(procs[i]) /\ procs[i].hangs = "now"
    /\ Become(i, [procs[i] EXCEPT !.hangs = "over"])
    /\ UNCHANGED scheduler

\* By itself, or as it was killed; a hanging process dies as well.
ProcessDies(i) ==
    /\ Alive(procs[i]) /\ (procs[i].killed \/ "exit" \in AppFaults)
    /\ Become(i, [procs[i] EXCEPT !.child = "dead", !.toApp = <<>>])
    /\ UNCHANGED scheduler

-----------------------------------------------------------------------------
(* The runtime *)

ForkApp(i) ==
    /\ scheduler.status = "exited" /\ procs[i].child = "none"
    /\ \A j \in Forks : j < i => procs[j].child # "none"
    /\ scheduler' = [status |-> "creating", app |-> 0]
    /\ \E early \in BOOLEAN :
          Become(i, [Unborn EXCEPT !.child = "loading", !.early = early, !.receives = TRUE,
                                   !.waits = TRUE, !.startTimer = FifteenSeconds])

\* (slip: the timer of the start is left)
CleanupKeepsTimer(p, outcome) ==
    [p EXCEPT !.waits = FALSE, !.outcome = outcome,
              !.settled = IF @ < 2 THEN @ + 1 ELSE @]

\* cleanup, and the promise of createExtApp.
Settle(p, outcome) ==
    [p EXCEPT !.waits = FALSE, !.startTimer = Off, !.outcome = outcome,
              !.settled = IF @ < 2 THEN @ + 1 ELSE @]

Ping(p) == [p EXCEPT !.pingTimer = FifteenSeconds]

Exited == [status |-> "exited", app |-> 0]

\* The scheduler's handleAppCreate emits 'create' on the descriptor.
TellCreated(p) == IF p.subscribed THEN Send(p, "create") ELSE p

OnStatus(i, p, m) ==
    CASE m = "initiating" -> Become(i, Send(p, "descriptor")) /\ UNCHANGED scheduler
      [] m = "ready" /\ p.waits ->
            /\ Become(i, TellCreated(Ping(Settle(p, "ready"))))
            /\ scheduler' = [status |-> "running", app |-> i]
      [] m = "error" /\ p.waits ->
            Become(i, Settle(p, "failed")) /\ scheduler' = Exited
      [] OTHER -> Become(i, p) /\ UNCHANGED scheduler

OnMessage(i) ==
    LET m == Head(procs[i].toVuid)
        p == [procs[i] EXCEPT !.toVuid = Tail(@)]
    IN  /\ procs[i].toVuid # <<>>
        /\ \/ ~p.receives /\ Become(i, p) /\ UNCHANGED scheduler
           \/ p.receives /\ m \in {"initiating", "ready", "error"} /\ OnStatus(i, p, m)
           \/ /\ p.receives /\ m = "ping"
              /\ Become(i, Ping(p)) /\ UNCHANGED scheduler
           \/ /\ p.receives /\ m = "subscribe"
              /\ Become(i, [p EXCEPT !.subscribed = TRUE]) /\ UNCHANGED scheduler
           \/ /\ p.receives /\ m = "invoke"
              /\ Become(i, [p EXCEPT !.call = "working"]) /\ UNCHANGED scheduler

\* The promise of the method that was invoked.
Answer(i) ==
    /\ procs[i].call = "working"
    /\ Become(i, Send([procs[i] EXCEPT !.call = "answered"], "promise"))
    /\ UNCHANGED scheduler

StartTimerFires(i) ==
    /\ procs[i].startTimer = DueTick
    /\ Become(i, [Settle(procs[i], "failed") EXCEPT !.receives = FALSE, !.killed = TRUE])
    /\ scheduler' = Exited

\* (slip: a process that hangs is not killed)
HangIgnored(i) ==
    /\ procs[i].pingTimer = DueTick
    /\ Become(i, [procs[i] EXCEPT !.pingTimer = Off])
    /\ UNCHANGED scheduler

\* 'application-not-responding', heard once and not after the exit.
NotResponding(i) ==
    /\ procs[i].pingTimer = DueTick
    /\ Become(i, [procs[i] EXCEPT !.pingTimer = Off, !.killed = @ \/ ~procs[i].exited])
    /\ UNCHANGED scheduler

\* The scheduler suspends the app: the process is told nothing, and has 1 s.
DestructApp ==
    /\ scheduler.status = "running"
    /\ scheduler' = [scheduler EXCEPT !.status = "destructing"]
    /\ Become(scheduler.app, [procs[scheduler.app] EXCEPT !.dying = ~procs[scheduler.app].exited])

KillTimerFires(i) ==
    /\ procs[i].dying
    /\ Become(i, [procs[i] EXCEPT !.dying = FALSE, !.killed = TRUE])
    /\ UNCHANGED scheduler

\* The exit is heard; messages sent before it may still be on their way.
HandleExit(i) ==
    LET p == [procs[i] EXCEPT !.exited = TRUE]
    IN  /\ p.child = "dead" /\ ~procs[i].exited
        /\ Become(i, IF p.waits THEN Settle(p, "failed") ELSE p)
        /\ scheduler' = IF p.waits \/ scheduler.app = i THEN Exited ELSE scheduler

-----------------------------------------------------------------------------
Later(t) == IF t > DueTick THEN t - 1 ELSE t

TimePasses ==
    /\ \A i \in Forks :
          LET p == procs[i]
          IN  /\ p.toVuid = <<>> /\ ~p.dying /\ p.startTimer # DueTick /\ p.pingTimer # DueTick
              /\ Alive(p) => ~p.killed
              /\ p.child = "dead" => p.exited
    /\ procs' =
          [i \in Forks |->
             LET p == [procs[i] EXCEPT !.startTimer = Later(@), !.pingTimer = Later(@)]
             IN  IF Works(p) /\ p.child # "loading" THEN Reports(p, <<"ping">>) ELSE p]
    /\ UNCHANGED scheduler

RuntimeSteps(i) ==
    \/ OnMessage(i) \/ StartTimerFires(i) \/ NotResponding(i)
    \/ KillTimerFires(i) \/ HandleExit(i)

ExtAppNext ==
    \/ \E i \in Forks :
          \/ LoadApp(i) \/ Read(i) \/ Listen(i) \/ Invoke(i) \/ Hang(i) \/ GoOn(i)
          \/ ProcessDies(i) \/ ForkApp(i) \/ RuntimeSteps(i) \/ Answer(i)
    \/ DestructApp \/ TimePasses

ExtAppSpec == ExtAppInit /\ [][ExtAppNext]_extVars

\* Time goes by, the runtime does what is due, methods settle, signals kill; a process
\* that does not hang reads its messages, but need not become ready.
ExtAppFairness ==
    /\ WF_extVars(TimePasses)
    /\ \A i \in Forks :
          /\ WF_extVars(RuntimeSteps(i)) /\ WF_extVars(Answer(i)) /\ WF_extVars(Read(i))
          /\ WF_extVars(procs[i].killed /\ ProcessDies(i))

-----------------------------------------------------------------------------
(* Properties *)

\* "promise shall not be resolved/rejected multiple times", while the report of
\* the app, its exit and the timer of the start come in any order.
SettledOnce == \A i \in Forks : procs[i].settled <= 1

\* No process is forgotten: one that lives and is not being started is the one
\* the scheduler knows, or is to die; except for one that has reported an
\* error, which the runtime leaves running.
NoneForgotten ==
    \A i \in Forks :
        LET p == procs[i]
        IN  Alive(p) /\ ~p.waits /\ p.child # "broken"
                => p.killed \/ p.dying \/ scheduler.app = i

\* An app that listens to 'create' when it is launched hears it, and whoever
\* hears it hears it once.
CreateIsHeard ==
    \A i \in Forks :
        LET p == procs[i]
        IN  /\ p.heard <= 1
            /\ p.child = "up" /\ p.early /\ p.outcome = "ready" /\ p.toApp = <<>> /\ ~p.killed
                  => p.heard = 1

\* Nobody is taken for not responding who never hung: each ping gives the
\* process three more intervals, those before it was ready included.
RespondingSurvives ==
    \A i \in Forks :
        Alive(procs[i]) /\ ~procs[i].killed /\ procs[i].pingTimer = DueTick
            => procs[i].hangs # "never"

\* A start is settled, whatever the process does or does not.
StartSettles == \A i \in Forks : procs[i].waits ~> ~procs[i].waits

\* A call to the runtime returns unless the process is gone.
CallReturns ==
    \A i \in Forks : procs[i].call = "asked" ~> procs[i].call = "returned" \/ ~Alive(procs[i])

\* A start of a process is settled once and by what became of the process, and
\* whoever answers is left alone, whichever of messages and timers is first.
ExtAppInv ==
    /\ ExtAppTypeOK
    /\ SettledOnce /\ NoneForgotten /\ CreateIsHeard /\ RespondingSurvives
=============================================================================
