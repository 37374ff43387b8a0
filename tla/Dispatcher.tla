----------------------------- MODULE Dispatcher -----------------------------
(***************************************************************************)
(* How events and notifications reach apps (runtime/lib/component/         *)
(* dispatcher.js and dispatchNotification of app-runtime.js).  Each call   *)
(* is a chain of promises; calls overlap, and what they waited for may     *)
(* have changed when they go on.                                           *)
(*                                                                         *)
(* The scheduler and the lifetime are cut down to what the dispatcher      *)
(* depends on: the status of an app, the app on top of the stack and the   *)
(* monopolist; AppScheduler and LaVieEnPile have them in full.             *)
(***************************************************************************)
EXTENDS Integers, Sequences, FiniteSetsExt

CONSTANTS
    Targets,      \* apps events are dispatched to
    LightTargets, \* those that run in the process of the runtime
    Dispatches,   \* bound: calls made
    Channels      \* of notifications: the apps that subscribed, in order

NoTarget == "no app"

ASSUME DispatcherAssumption ==
    /\ LightTargets \subseteq Targets /\ NoTarget \notin Targets
    /\ Dispatches \subseteq Nat
    /\ Channels \subseteq Seq(Targets)

VARIABLES
    status,     \* of each app, as the scheduler keeps it
    top,        \* the app on top of the stack
    monopolist,
    stackOwner, \* the app whose skill the cloud stack was last updated to
    disabled,   \* runtime.hasBeenDisabled()
    calls       \* per call, how far it is

appVars == <<status, top, monopolist, stackOwner>>
dispatcherVars == <<appVars, disabled, calls>>

NoDispatch == [kind |-> "none"]
CallStages == {"create", "failed", "created", "activated", "emit", "done"}

CallRecord ==
    [kind : {"event", "notification"}, apps : Seq(Targets), left : SUBSET Nat,
     preemptive : BOOLEAN, creates : BOOLEAN, stage : CallStages, taken : BOOLEAN,
     to : SUBSET Targets, heard : SUBSET Targets, failed : SUBSET Targets]

\* The app a call has turned to, of those its list leaves.
Turned(call) == call.apps[Min(call.left)]
Others(call) == call.left \ {Min(call.left)}

DispatcherTypeOK ==
    /\ status \in [Targets -> {"none", "creating", "running", "destructing"}]
    /\ {top, monopolist, stackOwner} \subseteq Targets \cup {NoTarget}
    /\ disabled \in BOOLEAN
    /\ calls \in [Dispatches -> CallRecord \cup {NoDispatch}]

DispatcherInit ==
    /\ status = [a \in Targets |-> "none"]
    /\ top = NoTarget /\ monopolist = NoTarget /\ stackOwner = NoTarget
    /\ disabled \in BOOLEAN
    /\ calls = [c \in Dispatches |-> NoDispatch]

-----------------------------------------------------------------------------
(* The scheduler and the lifetime, as the dispatcher meets them *)

\* The stage at which a call waits that asks for the creation of app a.
StageOfCreation(st, a) ==
    CASE st[a] = "running" -> "created"
      [] st[a] = "none" -> "create"
      [] st[a] = "creating" -> IF a \in LightTargets THEN "failed" ELSE "create"
      [] st[a] = "destructing" -> "failed"

Asked(st, a) == [st EXCEPT ![a] = IF @ = "none" THEN "creating" ELSE @]

IsMonopolized == monopolist # NoTarget /\ top = monopolist /\ status[monopolist] = "running"
Oppressed(a) == IsMonopolized /\ a # monopolist

Waits(c, a) == calls[c] # NoDispatch /\ calls[c].stage = "create" /\ Turned(calls[c]) = a

CreationSettles(a, ok) ==
    /\ status[a] = "creating"
    /\ status' = [status EXCEPT ![a] = IF ok THEN "running" ELSE "none"]
    /\ calls' = [c \in Dispatches |->
                   IF Waits(c, a)
                   THEN [calls[c] EXCEPT !.stage = IF ok THEN "created" ELSE "failed"]
                   ELSE calls[c]]
    /\ UNCHANGED <<top, monopolist, stackOwner, disabled>>

\* A process ends, by itself or as it was told.
AppEnds(a) ==
    /\ status[a] \in {"running", "destructing"}
    /\ status' = [status EXCEPT ![a] = "none"]
    /\ top' = IF top = a THEN NoTarget ELSE top
    /\ UNCHANGED <<monopolist, stackOwner, disabled, calls>>

Monologue(a) ==
    /\ top = a
    /\ monopolist' \in {a, NoTarget} \ {monopolist}
    /\ UNCHANGED <<status, top, stackOwner, disabled, calls>>

\* The runtime is disabled, by hibernation with every app destroyed.
SetDisabled(on) ==
    /\ disabled # on
    /\ disabled' = on
    /\ top' = IF on THEN NoTarget ELSE top
    /\ status' = [a \in Targets |-> IF on /\ status[a] = "running" THEN "destructing"
                                    ELSE status[a]]
    /\ UNCHANGED <<monopolist, stackOwner, calls>>

-----------------------------------------------------------------------------
(* dispatchAppEvent and dispatchNotification *)

Free(c) == calls[c] = NoDispatch /\ \A d \in Dispatches : d < c => calls[d] # NoDispatch
PutCall(c, call) == calls' = [calls EXCEPT ![c] = call]
AtStage(c, kind, stage) == calls[c] # NoDispatch /\ calls[c].kind = kind /\ calls[c].stage = stage

NewCall(kind, apps, left, preemptive, creates) ==
    [kind |-> kind, apps |-> apps, left |-> left, preemptive |-> preemptive,
     creates |-> creates, stage |-> "done", taken |-> FALSE,
     to |-> {apps[i] : i \in left}, heard |-> {}, failed |-> {}]

DispatchAppEvent(c, a, preemptive) ==
    LET call == NewCall("event", <<a>>, {1}, preemptive, TRUE)
    IN  /\ Free(c)
        /\ \/ /\ disabled
              /\ PutCall(c, call)
              /\ UNCHANGED status
           \/ /\ ~disabled /\ preemptive /\ Oppressed(a)
              /\ PutCall(c, [call EXCEPT !.taken = TRUE, !.heard = {monopolist}])
              /\ UNCHANGED status
           \/ /\ ~disabled /\ ~(preemptive /\ Oppressed(a))
              /\ PutCall(c, [call EXCEPT !.stage = StageOfCreation(status, a)])
              /\ status' = Asked(status, a)
        /\ UNCHANGED <<top, monopolist, stackOwner, disabled>>

\* A notification turns to the next of its apps: it asks for its creation, or
\* sends right away if it creates none.  st is the status of apps by then.
TurnTo(c, call, st) ==
    IF call.left = {}
    THEN PutCall(c, [call EXCEPT !.stage = "done"]) /\ status' = st
    ELSE IF call.creates
    THEN /\ PutCall(c, [call EXCEPT !.stage = StageOfCreation(st, Turned(call))])
         /\ status' = Asked(st, Turned(call))
    ELSE PutCall(c, [call EXCEPT !.stage = "created"]) /\ status' = st

Running(a) == status[a] = "running"

DispatchNotification(c, S, creates) ==
    /\ Free(c)
    /\ LET left == {i \in DOMAIN S : creates \/ Running(S[i])}
       IN  TurnTo(c, NewCall("notification", S, left, FALSE, creates), status)
    /\ UNCHANGED <<top, monopolist, stackOwner, disabled>>

\* destroyAppById by force; then an event fails, a notification goes on.
CreationFailed(c) ==
    LET a == Turned(calls[c])
        st == [status EXCEPT ![a] = IF @ = "running" THEN "destructing" ELSE @]
        call == [calls[c] EXCEPT !.failed = @ \cup {a}]
    IN  /\ calls[c] # NoDispatch /\ calls[c].stage = "failed"
        /\ top' = IF top = a THEN NoTarget ELSE top
        /\ \/ call.kind = "event" /\ PutCall(c, [call EXCEPT !.stage = "done"]) /\ status' = st
           \/ call.kind = "notification" /\ TurnTo(c, [call EXCEPT !.left = Others(call)], st)
        /\ UNCHANGED <<monopolist, stackOwner, disabled>>

\* activateAppById rejects an app that does not run any more or is oppressed
\* by now.  Whether the runtime is disabled by now is not asked.
ActivateFor(c) ==
    LET a == Turned(calls[c])
        may == Running(a) /\ ~Oppressed(a)
        call == calls[c]
    IN  /\ AtStage(c, "event", "created")
        /\ PutCall(c, [call EXCEPT !.stage = IF ~call.preemptive THEN "emit"
                                         ELSE IF may THEN "activated" ELSE "done"])
        /\ top' = IF call.preemptive /\ may THEN a ELSE top
        /\ UNCHANGED <<status, monopolist, stackOwner, disabled>>

\* updateCloudStack, when the apps that were on top have been settled.
UpdateCloudStack(c) ==
    /\ AtStage(c, "event", "activated")
    /\ stackOwner' = Turned(calls[c])
    /\ PutCall(c, [calls[c] EXCEPT !.stage = "emit"])
    /\ UNCHANGED <<status, top, monopolist, disabled>>

\* onLifeCycle rejects if there is no descriptor of the app.
HasDescriptor(a) == status[a] \in {"running", "destructing"}
Heard(call, a) == IF HasDescriptor(a) THEN [call EXCEPT !.heard = @ \cup {a}]
                                      ELSE [call EXCEPT !.failed = @ \cup {a}]

\* (slip: an event that was rejected counts as taken)
EmitAnyway(c) ==
    LET a == Turned(calls[c])
    IN  /\ AtStage(c, "event", "emit")
        /\ PutCall(c, [Heard(calls[c], a) EXCEPT !.stage = "done", !.taken = TRUE])
        /\ UNCHANGED <<appVars, disabled>>

EmitEvent(c) ==
    LET a == Turned(calls[c])
    IN  /\ AtStage(c, "event", "emit")
        /\ PutCall(c, [Heard(calls[c], a) EXCEPT !.stage = "done", !.taken = HasDescriptor(a)])
        /\ UNCHANGED <<appVars, disabled>>

EmitNotification(c) ==
    LET a == Turned(calls[c])
    IN  /\ AtStage(c, "notification", "created")
        /\ TurnTo(c, [Heard(calls[c], a) EXCEPT !.left = Others(calls[c])], status)
        /\ UNCHANGED <<top, monopolist, stackOwner, disabled>>

-----------------------------------------------------------------------------
DispatchStep ==
    \E c \in Dispatches :
        \/ CreationFailed(c) \/ ActivateFor(c) \/ UpdateCloudStack(c)
        \/ EmitEvent(c) \/ EmitNotification(c)

DispatcherNext ==
    \/ \E c \in Dispatches :
          \/ \E a \in Targets, preemptive \in BOOLEAN : DispatchAppEvent(c, a, preemptive)
          \/ \E S \in Channels, creates \in BOOLEAN : DispatchNotification(c, S, creates)
    \/ DispatchStep
    \/ \E a \in Targets :
          AppEnds(a) \/ Monologue(a) \/ \E ok \in BOOLEAN : CreationSettles(a, ok)
    \/ \E on \in BOOLEAN : SetDisabled(on)

DispatcherSpec == DispatcherInit /\ [][DispatcherNext]_dispatcherVars

\* Creations settle, and promises do; apps need not end.
DispatcherFairness ==
    /\ WF_dispatcherVars(DispatchStep)
    /\ WF_dispatcherVars(\E a \in Targets, ok \in BOOLEAN : CreationSettles(a, ok))
    /\ WF_dispatcherVars(\E a \in Targets : status[a] = "destructing" /\ AppEnds(a))

-----------------------------------------------------------------------------
(* Properties *)

\* Turen does not let speech and media go on when an event was taken: then the
\* app of the event has heard it, or the monopolist has, although the app may
\* have died, been destroyed or failed to start while the dispatch waited.
TakenMeansHeard ==
    \A c \in Dispatches :
        calls[c] # NoDispatch /\ calls[c].kind = "event" /\ calls[c].stage = "done"
            => calls[c].taken = (calls[c].heard # {})

\* A notification passes over nobody: when it is done each app of its channel
\* has heard it or could not be reached, also where an app before it failed.
NotificationComplete ==
    \A c \in Dispatches :
        calls[c] # NoDispatch /\ calls[c].kind = "notification" /\ calls[c].stage = "done"
            => calls[c].heard \cup calls[c].failed = calls[c].to

\* Each call is settled: no dispatch waits for a creation that nobody is going
\* to report, and turen, which waits for the dispatch, is told.
DispatchSettles ==
    \A c \in Dispatches :
       (calls[c] # NoDispatch) ~> (calls[c] # NoDispatch /\ calls[c].stage = "done")

\* "Application could not be opened through dispatching", as long as the
\* runtime is disabled.
DisabledOpensNothing ==
    [][disabled /\ top' # top => top' = NoTarget]_dispatcherVars

\* The stack the cloud is told is headed by the skill of the app on top.
CloudStackAgrees ==
    (\A c \in Dispatches : calls[c] = NoDispatch \/ calls[c].stage = "done") /\ top # NoTarget
        => stackOwner = top

\* What a dispatch reports is what became of it, although apps come and go while
\* it waits.
DispatcherInv == DispatcherTypeOK /\ TakenMeansHeard /\ NotificationComplete
=============================================================================
