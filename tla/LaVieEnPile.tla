----------------------------- MODULE LaVieEnPile -----------------------------
(***************************************************************************)
(* App life cycles (runtime/lib/component/lifetime.js) over the process    *)
(* table of AppScheduler, with the collection of exited apps that joins    *)
(* the two (AppRuntime#appGC).                                             *)
(*                                                                         *)
(* Every call runs to its first promise at once and leaves the rest as a   *)
(* chain of continuations.  A chain is a sequence of steps, run from its   *)
(* head; calls made before it has drained start chains of their own, and   *)
(* the steps of different chains interleave.  How many promise ticks lie   *)
(* between two steps is the engine's business, so every interleaving is    *)
(* allowed.  The bound on chains in flight is Calls.                       *)
(***************************************************************************)
EXTENDS AppScheduler, Naturals, Sequences

CONSTANTS
    Null,           \* no app
    Calls,          \* chains that can be in flight at once: 1..n
    Carriers,       \* apps that are permitted to bring up others
    KeepAliveApps,  \* apps that ask to be kept alive, setContextOptions
    ReloadedApps,   \* apps that may be destroyed by name while they run
    RecoverOptions  \* what the voice session says to resumeLifetime

ASSUME LifetimeAssumption ==
    /\ Null \notin Apps
    /\ Calls \subseteq Nat
    /\ Carriers \subseteq Apps
    /\ KeepAliveApps \subseteq Apps
    /\ ReloadedApps \subseteq Apps
    /\ RecoverOptions \subseteq BOOLEAN

VARIABLES
    life,    \* the fields of LaVieEnPile and what its apps were told last
    chains   \* continuations of the calls in flight

vars == <<appStatus, restarts, life, chains>>

AppOrNull == Apps \cup {Null}
Forms == {"cut", "scene"}
Events == {"none", "create", "active", "pause", "resume", "background", "destroy"}

LifeType ==
    [cut : AppOrNull,              \* activeSlots
     scene : AppOrNull,
     form : [Apps -> Forms \cup {"none"}],  \* contextOptionsMap: form,
     kept : SUBSET Apps,                    \*   and keepAlive
     background : SUBSET Apps,     \* backgroundAppIds
     carrierId : AppOrNull,
     lastSubordinate : AppOrNull,
     monopolist : AppOrNull,
     onPause : AppOrNull,          \* appIdOnPause
     told : [Apps -> Events]]      \* last life cycle event each app received

Ops == {"suspend", "deactivate", "destroy", "active", "pause", "resumeTop", "reactivate"}
Step == [op : Ops, apps : SUBSET Apps, force : BOOLEAN]

TypeOK ==
    /\ SchedulerTypeOK
    /\ life \in LifeType
    /\ chains \in [Calls -> Seq(Step)]

-----------------------------------------------------------------------------
\* Getters

Stack(L) == {L.cut, L.scene} \ {Null}
Current(L) == IF L.cut # Null THEN L.cut ELSE L.scene

\* isMonopolized reads and revokes: the record is kept only while it is valid.
IsMonopolized(L, st) ==
    L.monopolist # Null /\ L.monopolist \in Stack(L) /\ IsAppRunning(st, L.monopolist)
\* (slip: the record is never revoked)
MonopolistForGood(L, st) == L.monopolist
Monopolist(L, st) == IF IsMonopolized(L, st) THEN L.monopolist ELSE Null

\* (slip: any cut app passes)
OppressedScenesOnly(L, st, a, form) ==
    IsMonopolized(L, st) /\ a # L.monopolist /\ form # "cut"

\* guardMonopolization: a cut app may cover a scene that monopolizes.
Oppressed(L, st, a, form) ==
    /\ IsMonopolized(L, st)
    /\ a # L.monopolist
    /\ ~(form = "cut" /\ L.scene = L.monopolist)

-----------------------------------------------------------------------------
\* Chains: an operation returns the next fields, the continuations it leaves,
\* and whether its promise is going to be fulfilled.

Outcome(L, todo, ok) == [life |-> L, todo |-> todo, ok |-> ok]
Do(op, S, force) == [op |-> op, apps |-> S, force |-> force]
\* a continuation for every app there is one for
DoIfAny(op, S, force) == IF S = {} THEN <<>> ELSE <<Do(op, S, force)>>

-----------------------------------------------------------------------------
\* Operations on a set of apps: Promise.all over the calls for its members,
\* which run one after the other in the same turn.

Listeners(st, S) == {a \in S : HasDescriptor(st, a)}

\* onLifeCycle: emitted to the apps that have a descriptor, rejected otherwise.
Tell(L, st, S, event) ==
    [L EXCEPT !.told = [a \in Apps |-> IF a \in Listeners(st, S) THEN event ELSE L.told[a]]]

\* AppSlots#removeApp, and the context options that go with the app.
LeaveSlots(L, S) ==
    [L EXCEPT !.cut = IF @ \in S THEN Null ELSE @,
              !.scene = IF @ \in S THEN Null ELSE @]

Forget(L, S) ==
    [LeaveSlots(L, S) EXCEPT
        !.form = [a \in Apps |-> IF a \in S THEN "none" ELSE L.form[a]],
        !.kept = @ \ S]

\* recoverIfPossibleAfter
Recover(L, st, S, recover) ==
    LET mine == L.lastSubordinate \in S
        carrier == IF mine THEN L.carrierId ELSE Null
        next == IF mine THEN [L EXCEPT !.lastSubordinate = Null, !.carrierId = Null] ELSE L
        todo == IF ~recover \/ L.onPause # Null THEN <<>>
                ELSE IF carrier # Null /\ IsAppRunning(st, carrier)
                THEN <<Do("reactivate", {carrier}, FALSE)>>
                ELSE <<Do("resumeTop", {}, FALSE)>>
    IN  Outcome(next, todo, TRUE)

\* (slip: the app keeps its slot)
DestroyKeepsSlot(L, st, S, force) ==
    LET running == {a \in S : IsAppRunning(st, a)}
    IN  Outcome(Tell(L, st, running, "destroy"), DoIfAny("suspend", running, force), TRUE)

\* (slip: the context options outlive the app)
DestroyKeepsContext(L, st, S, force) ==
    LET running == {a \in S : IsAppRunning(st, a)}
    IN  Outcome(Tell(LeaveSlots(L, S), st, running, "destroy"),
                DoIfAny("suspend", running, force), TRUE)

\* destroyAppById.  The app stays in backgroundAppIds: the test that guards
\* its removal compares the array, not the index, with zero, and an array of
\* app ids passes it only when it is empty.
Destroy(L, st, S, force) ==
    LET running == {a \in S : IsAppRunning(st, a)}
        gone == Forget(L, S)
    IN  Outcome(Tell(gone, st, running, "destroy"), DoIfAny("suspend", running, force), TRUE)

\* (slip: the app is registered and stays in its slot)
SetBackgroundKeepsSlot(L, st, S, recover) ==
    Outcome(Tell([L EXCEPT !.background = @ \cup S], st, S, "background"), <<>>, TRUE)

\* (slip: the app is not told)
SetBackgroundSilently(L, st, S, recover) ==
    LET removed == S \cap Stack(L)
    IN  Recover([Forget(L, removed) EXCEPT !.background = @ \cup S], st, S,
                recover /\ removed # {})

\* setBackgroundById.  An app that is registered and in no slot is left alone.
SetBackground(L, st, S, recover) ==
    LET removed == S \cap Stack(L)
        entering == removed \cup (S \ L.background)
        moved == [Forget(L, removed) EXCEPT !.background = @ \cup S]
        ok == entering \subseteq Listeners(st, entering)
        rec == Recover(Tell(moved, st, entering, "background"), st, entering,
                       recover /\ removed # {})
    IN  Outcome(rec.life, IF ok THEN rec.todo ELSE <<>>, ok)

\* (slip: the top of the stack is read after the app has left it)
DeactivateReadsTopLate(L, st, S, recover) ==
    LET d == Destroy(Forget(L, S), st, S, FALSE)
        rec == Recover(d.life, st, S, recover /\ Current(d.life) \in S)
    IN  Outcome(rec.life, d.todo \o rec.todo, TRUE)

\* deactivateAppById, past its test that the app is in a slot or force is set.
Deactivate(L, st, S, recover) ==
    LET free == [Forget(L, S) EXCEPT !.monopolist = IF @ \in S THEN Null ELSE @]
        b == SetBackground(free, st, S \cap L.kept, FALSE)
        d == Destroy(b.life, st, S \ L.kept, FALSE)
        rec == Recover(d.life, st, S, recover /\ Current(L) \in S)
    IN  Outcome(rec.life, d.todo \o (IF b.ok THEN rec.todo ELSE <<>>), b.ok)

\* (slip: a scene leaves the cut slot as it is)
AddAppOver(L, a, isScene) ==
    IF isScene THEN [L EXCEPT !.scene = a] ELSE [L EXCEPT !.cut = a]

\* AppSlots#addApp
AddApp(L, a, isScene) ==
    IF isScene THEN [L EXCEPT !.cut = Null, !.scene = a] ELSE [L EXCEPT !.cut = a]

\* An app that is a scene stays one, whatever form it is activated with.
BecomesScene(L, a, form) == L.form[a] = "scene" \/ form = "scene"

\* What activateAppById notes before it looks at the stack.
Note(L, st, a, form, carrierId) ==
    [L EXCEPT !.form = [@ EXCEPT ![a] = IF BecomesScene(L, a, form) THEN "scene" ELSE "cut"],
              !.monopolist = Monopolist(L, st),
              !.carrierId = carrierId,
              !.lastSubordinate = IF carrierId # Null THEN a ELSE @]

\* The app is the top of the stack, in the slot it is to take.
AlreadyOnTop(L, a, form) ==
    /\ a = Current(L)
    /\ a = IF BecomesScene(L, a, form) THEN L.scene ELSE L.cut

\* The carrier of the app on top, if it is neither the app that comes in nor
\* the one that brings it.
PreviousCarrier(L, st, a, carrierId) ==
    {c \in Apps \ {a, carrierId} : c = L.carrierId /\ IsAppRunning(st, c)}

\* activateAppById, past its two rejections.
Activate(L, st, a, form, carrierId) ==
    LET last == Current(L)
        noted == Note(L, st, a, form, carrierId)
        pushed == [AddApp(noted, a, BecomesScene(L, a, form)) EXCEPT !.background = @ \ {a}]
        first == DoIfAny("destroy", PreviousCarrier(L, st, a, carrierId), FALSE)
        active == <<Do("active", {a}, FALSE)>>
    IN  IF AlreadyOnTop(L, a, form)
        THEN Outcome(AddApp(noted, a, BecomesScene(L, a, form)), first, TRUE)
        ELSE IF form = "scene"
        THEN Outcome(pushed,
                     first \o DoIfAny("deactivate", Stack(L) \ {a}, FALSE) \o active, TRUE)
        ELSE IF last = Null \/ noted.form[last] = "none"
        THEN Outcome(Tell(pushed, st, {a}, "active"), first, TRUE)
        ELSE IF noted.form[last] = "scene"
        THEN Outcome(pushed, first \o <<Do("pause", {last}, FALSE)>> \o active, TRUE)
        ELSE Outcome(pushed, first \o <<Do("deactivate", {last}, FALSE)>> \o active, TRUE)

\* (slip: an app that was once created passes)
CanActivateCreated(L, st, a, form) == st[a] # "not running" /\ ~Oppressed(L, st, a, form)
CanActivate(L, st, a, form) == IsAppRunning(st, a) /\ ~Oppressed(L, st, a, form)

-----------------------------------------------------------------------------
\* A call takes the first free chain.
FreeChain(c) == chains[c] = <<>> /\ \A d \in Calls : d < c => chains[d] # <<>>

Issue(r) ==
    \E c \in Calls :
        /\ FreeChain(c)
        /\ life' = r.life
        /\ chains' = [chains EXCEPT ![c] = r.todo]

Call(r) == Issue(r) /\ UNCHANGED schedulerVars

\* A call that is over when it returns.
Quick(L) == life' = L /\ UNCHANGED <<appStatus, restarts, chains>>

ActivateAppById(a, form, carrierId) ==
    /\ CanActivate(life, appStatus, a, form)
    /\ Call(Activate(life, appStatus, a, form, carrierId))

SetBackgroundById(a) ==
    /\ HasDescriptor(appStatus, a)
    /\ Call(SetBackground(life, appStatus, {a}, TRUE))

\* AppRuntime#exitAppById: its option ignoreKeptAlive reaches deactivateAppById
\* as force, which only opens the door to apps outside the stack.
ExitAppById(a, ignoreKeptAlive) ==
    /\ HasDescriptor(appStatus, a)
    /\ \/ /\ a \in Stack(life) \/ ignoreKeptAlive
          /\ Call(Deactivate(life, appStatus, {a}, TRUE))
       \/ /\ ~(a \in Stack(life) \/ ignoreKeptAlive)
          /\ a = life.monopolist
          /\ Quick([life EXCEPT !.monopolist = Null])

\* The voice session closes the cut app it was started from.
DeactivateCutApp ==
    /\ life.cut # Null
    /\ life.cut # life.monopolist
    /\ Call(Deactivate(life, appStatus, {life.cut}, TRUE))

\* AppRuntime#idle
DeactivateAppsInStack ==
    /\ Stack(life) # {}
    /\ Call(Deactivate(life, appStatus, Stack(life), FALSE))

\* By force: the dispatcher after a creation that was rejected, and the dbus
\* method Reload for an app in whatever state it is.
DestroyAppById(a) ==
    /\ a \in ReloadedApps \/ ~IsAppRunning(appStatus, a)
    /\ Call(Destroy(life, appStatus, {a}, TRUE))

\* destroyAll: the records of apps are cleared, carrier, monopolist and pause
\* are not; then suspendAllApps for whoever is in appMap by that time.
DestroyAll(force) ==
    LET running == {a \in Apps : IsAppRunning(appStatus, a)}
        cleared == [Forget(life, Apps) EXCEPT !.background = {}]
    IN  Call(Outcome(Tell(cleared, appStatus, running, "destroy"),
                     <<Do("suspend", Apps, force)>>, TRUE))

PauseLifetime ==
    /\ life.onPause = Null
    /\ Current(life) # Null
    /\ Quick([life EXCEPT !.onPause = Current(life)])

\* (slip: the scene is resumed, whatever is above it)
ResumeLifetimeScene(recover) ==
    /\ life.onPause # Null
    /\ Quick(Tell([life EXCEPT !.onPause = Null], appStatus, {life.scene} \ {Null}, "resume"))

ResumeLifetime(recover) ==
    LET awake == [life EXCEPT !.onPause = Null]
        top == {Current(life)} \ {Null, life.onPause}
    IN  /\ life.onPause # Null
        /\ Quick(IF recover THEN Tell(awake, appStatus, top, "resume") ELSE awake)

StartMonologue(a) == a = Current(life) /\ Quick([life EXCEPT !.monopolist = a])
StopMonologue(a) == a = life.monopolist /\ Quick([life EXCEPT !.monopolist = Null])

\* isMonopolized on behalf of a caller that does not preempt.
CheckMonopoly ==
    /\ Monopolist(life, appStatus) # life.monopolist
    /\ Quick([life EXCEPT !.monopolist = Null])

SetKeepAlive(a, keepAlive) ==
    /\ a \in KeepAliveApps
    /\ HasDescriptor(appStatus, a)
    /\ Quick([life EXCEPT !.kept = IF keepAlive THEN @ \cup {a} ELSE @ \ {a}])

-----------------------------------------------------------------------------
\* Continuations

\* The rest of chain c after its head gave r: a rejection drops what follows.
Continue(c, r) ==
    /\ life' = r.life
    /\ chains' = [chains EXCEPT ![c] = r.todo \o (IF r.ok THEN Tail(@) ELSE <<>>)]
    /\ UNCHANGED schedulerVars

Head1(c, op) == chains[c] # <<>> /\ Head(chains[c]).op = op
Arg(c) == Head(chains[c]).apps

RunSuspend(c) ==
    /\ Head1(c, "suspend")
    /\ SuspendApps(Arg(c), Head(chains[c]).force)
    /\ chains' = [chains EXCEPT ![c] = Tail(@)]
    /\ UNCHANGED life

RunDestroy(c) ==
    /\ Head1(c, "destroy")
    /\ Continue(c, Destroy(life, appStatus, Arg(c), FALSE))

RunDeactivate(c) ==
    /\ Head1(c, "deactivate")
    /\ Continue(c, Deactivate(life, appStatus, Arg(c), FALSE))

RunActive(c) ==
    /\ Head1(c, "active")
    /\ Continue(c, Outcome(Tell(life, appStatus, Arg(c), "active"), <<>>, TRUE))

\* Errors of pause and resume are caught and logged.
RunPause(c) ==
    /\ Head1(c, "pause")
    /\ Continue(c, Outcome(Tell(life, appStatus, Arg(c), "pause"), <<>>, TRUE))

RunResumeTop(c) ==
    /\ Head1(c, "resumeTop")
    /\ Continue(c, Outcome(Tell(life, appStatus, {Current(life)} \ {Null}, "resume"), <<>>, TRUE))

\* The carrier of the app that left is activated as a cut app.
RunReactivate(c) ==
    /\ Head1(c, "reactivate")
    /\ \E a \in Arg(c) :
           Continue(c, IF CanActivate(life, appStatus, a, "cut")
                       THEN Activate(life, appStatus, a, "cut", Null)
                       ELSE Outcome(life, <<>>, FALSE))

Run(c) ==
    \/ RunSuspend(c) \/ RunDestroy(c) \/ RunDeactivate(c) \/ RunActive(c)
    \/ RunPause(c) \/ RunResumeTop(c) \/ RunReactivate(c)

-----------------------------------------------------------------------------
\* Processes come and go

Create(a) == CreateApp(a) /\ UNCHANGED <<life, chains>>

\* handleAppCreate emits 'ready' and 'create' to the descriptor it just set.
Created(a) ==
    /\ HandleAppCreate(a)
    /\ life' = [life EXCEPT !.told[a] = "create"]
    /\ UNCHANGED chains

\* (slip: only background registrations are collected)
AppGCBackgroundOnly(a) ==
    LET dead == [appStatus EXCEPT ![a] = "exited"]
        L == [life EXCEPT !.told[a] = "none"]
    IN  Issue(IF a \in L.background THEN Destroy(L, dead, {a}, FALSE)
              ELSE Outcome(L, <<>>, TRUE))

\* AppRuntime#appGC, from handleAppExit: the descriptor and the status are gone.
AppGC(a) ==
    LET dead == [appStatus EXCEPT ![a] = "exited"]
        L == [life EXCEPT !.told[a] = "none"]
    IN  Issue(IF a \in Stack(L) THEN Deactivate(L, dead, {a}, TRUE)
              ELSE IF a \in L.background THEN Destroy(L, dead, {a}, FALSE)
              ELSE Outcome(L, <<>>, TRUE))

FailToStart(a) == StartFails(a) /\ AppGC(a)
Exit(a, coded) == ProcessExits(a, coded) /\ AppGC(a)
EndOfLife(a, coded) == DestructedExits(a, coded) /\ AppGC(a)

Restart(a) == RestartTimer(a) /\ UNCHANGED <<life, chains>>

-----------------------------------------------------------------------------
Init ==
    /\ SchedulerInit
    /\ life = [cut |-> Null, scene |-> Null,
               form |-> [a \in Apps |-> "none"], kept |-> {}, background |-> {},
               carrierId |-> Null, lastSubordinate |-> Null, monopolist |-> Null,
               onPause |-> Null, told |-> [a \in Apps |-> "none"]]
    /\ chains = [c \in Calls |-> <<>>]

\* What callers may ask of LaVieEnPile, in any order.
Request ==
    \/ \E a \in Apps, form \in Forms, carrierId \in Carriers \cup {Null} :
           ActivateAppById(a, form, carrierId)
    \/ \E a \in Apps :
          \/ SetBackgroundById(a) \/ DestroyAppById(a)
          \/ StartMonologue(a) \/ StopMonologue(a)
          \/ \E b \in BOOLEAN : ExitAppById(a, b) \/ SetKeepAlive(a, b)
    \/ DeactivateCutApp \/ DeactivateAppsInStack
    \/ PauseLifetime \/ CheckMonopoly
    \/ \E b \in BOOLEAN : DestroyAll(b)
    \/ \E b \in RecoverOptions : ResumeLifetime(b)

Process ==
    \E a \in Apps :
        \/ Create(a) \/ Created(a) \/ FailToStart(a) \/ Restart(a)
        \/ \E coded \in BOOLEAN : Exit(a, coded) \/ EndOfLife(a, coded)

Next == Request \/ Process \/ \E c \in Calls : Run(c)

\* Promise jobs are always run; a destructed process is killed after a second.
\* Its exit waits for nothing in the code; in the model it needs a free chain,
\* hence strong fairness: the chains it waits for always drain.
Fairness ==
    /\ \A c \in Calls : WF_vars(Run(c))
    /\ \A a \in Apps : SF_vars(EndOfLife(a, FALSE))

Spec == Init /\ [][Next]_vars
LiveSpec == Spec /\ Fairness
-----------------------------------------------------------------------------
\* Properties

\* No call is half done.
Quiet == \A c \in Calls : chains[c] = <<>>

\* The apps that heard last that they are on top.
Foreground == {a \in Apps : HasDescriptor(appStatus, a) /\ life.told[a] \in {"active", "resume"}}

\* The context options of an app in a slot say which slot it is, whatever calls
\* overlap: activateAppById branches on the form of the last app to decide
\* whether it is paused or deactivated.
SlotsAgreeWithForms ==
    /\ life.cut # Null => life.form[life.cut] = "cut" /\ life.cut # life.scene
    /\ life.scene # Null => life.form[life.scene] = "scene"

\* An app is in the stack or in the background, never both: isAppInactive and
\* appGC read the two registers as alternatives.
StackNotBackground == Stack(life) \cap life.background = {}

\* Whoever is in the stack has a descriptor to send events to: an exit takes
\* the app off the stack in the same turn (handleAppExit calls appGC).
StackHasProcesses == Stack(life) \subseteq Listeners(appStatus, Apps)

\* When calls do not overlap, a call that has ended leaves no app in the stack
\* whose process it has told to end.
StackRunning == Quiet => \A a \in Stack(life) : IsAppRunning(appStatus, a)

\* ... and no app outside the stack with a form: a scene that was dropped
\* without being deactivated would keep one and come back as a scene.
NoStrayForm == Quiet => \A a \in Apps : life.form[a] # "none" => a \in Stack(life)

\* ... and nobody but the top of the stack believes it is in front.
OneForeground == Quiet => Foreground \subseteq {Current(life)}

\* ... and a scene under a cut app was told to pause.
SceneBeneathPaused ==
    Quiet /\ life.cut # Null /\ life.scene # Null => life.told[life.scene] = "pause"

\* ... and the top of the stack was told that it is on top: whichever way the
\* app above it left, nobody stays paused in front of the user.
ForegroundTold ==
    Quiet /\ life.onPause = Null /\ Current(life) # Null => Current(life) \in Foreground

\* While an app monopolizes the stack nobody pushes it out: an app enters the
\* stack only if the monopolist stays in it.
MonopolyHolds ==
    [][IsMonopolized(life, appStatus) /\ ~(Stack(life') \subseteq Stack(life))
       => life.monopolist \in Stack(life')]_vars

\* A monopoly that has lapsed does not come back unless it is started again:
\* the record of a monopolist that left the stack is dropped lazily, but always
\* before the app can return to the stack.
MonopolyRevoked ==
    [][IsMonopolized(life', appStatus') /\ ~IsMonopolized(life, appStatus)
       => StartMonologue(life'.monopolist)]_vars

\* An app whose process was told to end leaves the stack, even if an overlapping
\* call put it back between the two steps of its destruction.
DyingLeavesStack ==
    \A a \in Apps :
        appStatus[a] = "destructing" /\ a \in Stack(life) ~> a \notin Stack(life)

\* The stack, its processes and the calls in flight, seen as AppStack.
Promise ==
    INSTANCE AppStack WITH App <- Apps, NoApp <- Null, cut <- life.cut,
                           scene <- life.scene, alive <- Listeners(appStatus, Apps)

\* Every step of the code is a step of AppStack.
ImplementsAppStack == Promise!Spec

-----------------------------------------------------------------------------
\* What comments, docs and tests of the repository say and the code does not do

\* Background registrations are cleared when an app is destroyed or collected:
\* a quiet system has no dead app in its background register.
BackgroundIsAlive == Quiet => life.background \subseteq Listeners(appStatus, Apps)

\* exitAppById with ignoreKeptAlive does not leave the app in the background.
KeepAliveIgnored ==
    [][\A a \in Apps : ExitAppById(a, TRUE) /\ a \in Stack(life)
                       => a \notin life'.background]_vars

\* When the app a carrier has brought up leaves, the carrier is activated again:
\* it hears of it in this turn or in one that is left to run.
CarrierReactivated ==
    [][\A c \in Calls, a \in Carriers :
           RunReactivate(c) /\ a \in Arg(c) /\ CanActivate(life, appStatus, a, "cut")
           => life'.told[a] = "active" \/ chains'[c] # <<>>]_vars

\* A carrier is recalled when its subordinate leaves the top of the stack.
CarrierRecalled ==
    [][\A a \in Apps, b \in BOOLEAN :
           /\ ExitAppById(a, b)
           /\ a = Current(life) /\ a = life.lastSubordinate
           /\ life.onPause = Null /\ life.carrierId \notin {Null, a}
           /\ IsAppRunning(appStatus, life.carrierId)
           => \E c \in Calls : \E i \in DOMAIN chains'[c] : chains'[c][i].op = "reactivate"]_vars

\* A carrier is destroyed for the app it has brought up, which is the one that
\* is being preempted.
CarrierOfPreviousApp ==
    [][(\E c \in Calls : chains[c] = <<>> /\ chains'[c] # <<>> /\ Head(chains'[c]).op = "destroy")
       => life.lastSubordinate \in Stack(life)]_vars
=============================================================================
