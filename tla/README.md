# The YodaOS runtime in TLA+

This directory is a verification project for yodart, the JavaScript runtime of
YodaOS: the process `vuid` that runs the voice interface of a device, starts
and stops apps and decides which of them is in front, the service processes it
talks to, and the apps that come with it and have a protocol of their own. The
modules are translated from the source; every definition that models code is
listed in `PROJECT.json` under `map` with the lines it stands for. A definition
that no action uses (`EnableWholly`, `CleanupKeepsTimer`, ...) is the one beside
it with a slip in it: `mutants` puts it in place of that one, and the
property must notice.

Contents: the system; how the components interact; the modules; the runs; the
fairness assumed; what the code does not keep; the proofs; what is only
model-checked; what is not modelled.

## The system

`AppRuntime` (runtime/lib/app-runtime.js) owns the components; they call each
other directly, in one thread. Concurrency comes from promises (a call returns
after its first synchronous stretch and leaves continuations), from timers,
from app processes that exit when they like, and from the messages of the
service processes.

| component | state it keeps | operations | hard behaviour | what makes it correct | module |
|---|---|---|---|---|---|
| LaVieEnPile (lifetime.js) | two slots (scene, cut above it), form and keepAlive per app, background register, carrier and its subordinate, monopolist, app on pause | activate, deactivate, set background, destroy one or all, pause and resume | continuations of overlapping calls; records that outlive the call that set them | slots, forms, registers and processes agree; one app believes it is in front, and it is the one on top; a monopoly holds while it is valid | `LaVieEnPile`, `AppStack` |
| AppScheduler (app-scheduler.js) | status and descriptor per app, creation futures, restart timers | create, suspend, handle exit | exits at any time, restart timers racing dispatches | one process per app, resources collected on exit | `AppScheduler`, `Dispatcher` |
| app processes (ext-app.js, ext-helper.js, translator-ipc.js) | timer of the start, ping timer, listeners | fork, handshake, ping, call, destruct, kill | early exit, late answer, hanging | a start is settled once, nobody who answers is killed, no process is forgotten | `ExtApp` |
| AppLoader (app-loader.js) | manifests, owners of skills, hosts, notification channels | load, reload, register over dbus | reads that end after the next reload has begun, a load that fails midway | what is loaded is reachable, what may be loaded is | `AppLoader` |
| Dispatcher (dispatcher.js) | none | dispatch an event or a notification: create, activate, notify | three waits, in each of which the app may die and the runtime be disabled | an event is reported taken exactly when somebody heard it; a notification passes over nobody | `Dispatcher` |
| AppRuntime | reasons for disabling, hibernated, log-in lock, whether to welcome | start, welcome, disable and enable, hibernate and wake, log in, reset the network | reasons that overlap, start and welcome that share one | disabled for sleep exactly while asleep, enabled in the end, one welcome for each reason | `AppRuntime` |
| Turen (turen.js, flora.js, turen-descriptor.js) | awaken, state of the recognizer, pickup, mute, two timers, what is paused | voice events, results and errors, pickup, mute | results that race timers and the wait for the delegation | what a session paused is let go, no timer outlives it, the engine is not left off | `Turen` |
| Custodian and the network app | connection and log-in, the setup with its timers | report, prepare, bind, give up | attempts that outlive each other, a setup that is left | access points are enabled again, a setup ends | `Network` |
| CloudStore, MqttClient, Wormhole | client, connection, backoff, log-in lock | log in and out, connect, reconnect, suspend | reconnection racing suspension; every step may fail | who is logged in may connect, a flag that holds connections back has a cause, the cloud is reached again | `Cloud` |
| ttsd | requests, per-app memo, playing and paused request | speak, stop, pause, resume, reset, awake | events of requests that were replaced, paused or resumed under another id | each request heard of by its app, in order, once | `Ttsd` |
| multimediad | players of each app, what voice paused | prepare, start, pause, resume, stop, reset | ends of players that were stopped or replaced | no player plays that its app cannot stop, its end is told | `Multimedia` |
| lightd | layers of system and apps, current light, its callback, timer | play, stop, reset | a light that ends late, fails to load, refuses | nothing higher waits, each request is answered once | `Lightd` |
| otad, @yoda/ota, the ota app | info and images on disk, process lock, command for recovery | check, download, verify, reset, install | crash between two steps, two processes, power loss | what is recorded of an image is true of the file | `Ota` |
| Keyboard | current key, flag that prevents what follows, guards | press, release, gestures | long presses in parts, debouncing | an action happens once for a press, the flag ends with its press | `Keyboard` |
| Battery, its app | last level, marks, danger; tasks and timer | report, wake-up, announce | reports that skip marks | low power is announced | `Battery` |
| DndMode | switch, hours, saved volume, status | timer, options, use, restart | the machine restarts for many reasons, its own volume changes come back as events | the mode follows the hours, the volume is given back | `DndMode` |
| bluetooth app, a2dp, hfp | skill in front, state of the call, last reports | reports, intents, background | the phone, the user and the runtime at once | a call gives back what it took, the app follows the phone | `Bluetooth` |
| cloudappclient | stack of skills, lists of directives, players | request, answer, pause, exit | late ends of replaced skills | the stack keeps its shape, a cut skill leaves | `CloudAppClient` |
| alarm app | jobs, queue, active job, chains, file | due, in front, ring, stop | several jobs in a second; chains that are not told of a stop | a job is not kept from ringing, one of several rings, a ring ends | `Alarm`, `CronSchedule` |
| timer and timed sleep | countdown, next action, rings | start, pause, resume, ring; sleep | words, rings and commands in each other's way | a ring can be stopped, the sleep is not forgotten | `Timer`, `TimedSleep` |
| volume app, sound component | level, mute, contexts, timer of the key | change, mute, speak and mute again | words of a muted device | muted as the user wants | `Volume` |
| custom-config, light, permission, dbus-registry; vuid; guidance, playercontrol; packages | tables, forwarding | | | | not modelled |

### How the components interact

Voice: the speech service tells Turen of a voice; Turen asks the delegation
(a call into the apps that asked for it), pauses ttsd, multimediad and the
lifetime, and, when the recognizer has a result, has the runtime dispatch it.
The dispatcher asks the scheduler for the app (a process of its own, in the
runtime's process or on the bus), the lifetime for a place in the stack, and
emits the event. The lifetime tells apps of their place, recovers the one
beneath on departures and is told of exits by the scheduler. `AppRuntime`'s
reasons switch Turen's engine; a sleep, a start, a welcome and the battery each
have one. Custodian tells the runtime of the network, which logs in, which
starts the MQTT client, which the wormhole suspends on log-out. lightd,
multimediad and ttsd are processes of their own: calls and answers cross the
bus in order, but their engines post events that arrive late.

A component is modelled with as much of its neighbours as it depends on:
`Dispatcher` with the status of an app and the stack cut down to its top,
`Turen` with the lifetime's pause as a flag, `AppRuntime` with all of `Turen`
(it extends it), `LaVieEnPile` with all of `AppScheduler`, `Network` with the
log-in, `Cloud` with the wormhole, `Ota` with the runtime's offer of an upgrade,
`Bluetooth` with the adapters and the place of the app.

## The modules

### AppScheduler

The process table. `appStatus` is the field of that name, with "not running"
for an app without entry; `restarts` is the set of daemons whose 5 s timer is
armed (several timers of one app are idempotent: the second `createApp` finds
the app creating or running). `appMap` is not a variable: an entry is there
exactly while the status is running or destructing (`HasDescriptor`). Light apps
and dbus apps have no process and never exit. A daemon that is killed by a
signal has no code and is not started again; nothing in the sources says whether
it should be.

### LaVieEnPile, AppStack, MCLaVieEnPile

`life` is a record of the fields of `LaVieEnPile`, plus `told`: the last life
cycle event each app received, which is what the apps' own behaviour depends on.
`chains` holds the continuations of the calls in flight, one sequence of steps
for each call. An operation of the code is an operator on `life` that returns
the new fields, the continuations it leaves and whether its promise will be
fulfilled; `Activate`, `Deactivate`, `SetBackground`, `Destroy` and `Recover`
are `activateAppById`, `deactivateAppById`, `setBackgroundById`,
`destroyAppById` and `recoverIfPossibleAfter` without their callers, so that the
same operator serves the call made by a client, by a continuation (`Run...`) and
by `appGC`. Operations on a set of apps are the `Promise.all` over the set.
The steps of different chains interleave freely. That is more than the promise
queue of one engine does, and what the iotjs event loop leaves open (several
I/O callbacks may run before the jobs they queued). Left out: the events
eviction, preemption, idle and stack-reset, emitted on the next tick to
listeners that play lights or update the cloud stack; the parameters of life
cycle events; the other halves of `appGC` and `exitAppById`.

`AppStack` is what the stack promises to everybody else: two slots held by
different living apps, and how they may change in one step. `LaVieEnPile`
implements it (`ImplementsAppStack`), with `appStatus` deciding who lives.
`MCLaVieEnPile` adds a history variable for `LastActivationWins` and the reduced
next-state relation of the liveness run.

### Ttsd

`service.js` with the handlers of `flora.js` that call it. `requestMemo`,
`appRequestMemo`, `playingReqId` and `pausedReqIdOnAwaken` are the fields of
these names, an app's entry being reduced to its request id; `playingState` is
what AudioManager was told; `told` is what each app heard of each of its
requests. The synthesizer is external: `engine` speaks the requests in the order
of their ids, cancels those it is asked to, may fail, and numbers the requests
of each connection from 0 as the mock in test/services/ttsd/mock.js does. Its
events do not reach the service at once: the native client posts them to the
event loop (`posted`, a queue), and everything else may happen before they are
handled. That delay, which the mock does not have, is behind most of what the
code does not keep. A termination waits until 2 s after the start of its
request, so those of started requests come in the order of the starts, and one
whose request never started comes at any time. Left out: texts, lights, the 1 s
time-out that gives up waiting for the light service, the answers to the remote
calls, and `clearMemo`, which `speak` calls only when the native client throws.

### Turen, AppRuntime

`turen` is the record of Turen's fields with its timers (`solitary`, `noVoice`)
and what it controls (`held`: the lifetime is paused; `interrupted`: speech and
media are; `enabled`: the wake-up engine). `waiting` counts the promises it
waits for: delegations, dispatches, and the lag after a rejection. `engine` is
the speech service: a voice that was heard owes a result, an error, a rejection
or a fake, or stays silent until the timer ends it. Each handler is an action
(`VoiceComing`, `AsrProgress`, `AsrReject`, `AsrFake`, `StartOrEndVoice`,
`EngineAnswers`, ...); the continuations are `Settles`, the timers `TurenTimers`;
`Destruct` and `SetEnabled` are turen-descriptor.js.

`AppRuntime` extends it with the start (`AppsLoaded`, `InitDelegated`,
`FirstBootSound`, `BootSound`, `BootEnds`), the welcome (`OnLoggedIn`,
`LoginDelegated`, `WelcomeSoundEnds`), log-ins, `Hibernate` and `Wakeup`,
`ResetNetwork` and the keys. A runtime that starts is disabled for "initiating"
and for "welcoming" until a sound has been played or refused. Source facts seen
on the way and not stated as properties: a first boot whose sound fails skips
`prepareNetwork` (app-runtime.js:157); the lock of the log-in rejects a second
call, which nobody repeats (_.js:143); `unBindDevice` calls `this.onLogout`,
which does not exist (app-runtime.js:1060).

### Dispatcher

`calls` is one record for each dispatch in flight with the stage it waits in and
the places of the list of apps that are `left` to be turned to,
`status` and `top` what it asks of scheduler and lifetime, `disabled` the
runtime, which it asks before its first wait only. `CreationSettles` is the
future of the scheduler; for a light app there is none, so a second dispatch
during the first creation fails and destroys the app (app-scheduler.js:59).
`stackOwner` is what the cloud is told the stack is headed by.

### AppLoader

`disk` is what packages declare, `loader` the maps, `loading` the reads under
way (`ListPath`, `LoadHome`), `walk` a notification on its way over the array of
its channel. `Populated` is `__loadApp`: the three lists in turn, each up to the
first declaration that throws, and what came before that stays (`TakeSkills`,
`TakeHosts`, `TakeNotes`). The loops are written as what they leave behind: a skill
is taken if nobody has it yet, an earlier declaration of the same manifest
included (`SkillsFree`), so that the loop ends where `Upto` says. `asked` records
which packages changed since all were loaded, once, again, and since they were
last asked for. That dbus apps and packages have names of their own, and no package
declares the name of a dbus app as a skill, is assumed (`LoaderAssumption`).

### ExtApp

`procs` holds, for each process forked for an app, both ends of its channel with
the messages in between, the timer of its start, its ping timer and the kill
that follows a destruct by 1 s; `scheduler` is who the scheduler thinks runs.
Time passes in units of the ping interval (5 s) and does not pass a timer that
is due; what was sent is received within a unit, unless the process hangs.
A process that reports an error is left running (ext-app.js:98, the pings keep
it alive), so `NoneForgotten` excepts it. translator-in-process.js:78 adds a
listener for each `activity.on` of a light app; that is not modelled.

### Network, Cloud

`Network`: `wifi` is wpa_supplicant (what is saved, whether it joins by itself),
`cust` custodian, `net` the network app with its two timers of `intoSleep`,
`conn` the attempts to join with their polls and timeouts by number, `auth` the
log-in that holds the lock. Urls reach the app at once while it is in front.
`Troubles`: "again", a setup asked for in the second in which it leaves; "crash".

`Cloud`: `mqttClient` is the client's fields and what it waits for, `links` the
connections that still call back, `session` custodian's and the wormhole's view
and the lock. The cloud and the MQTT library are external: a connection that is
being opened opens or fails, an open one may go offline. `CloudOps`: "again", a
log-in of who is logged in; "relogin", the method Relogin on the bus.

### Multimedia, Lightd

`Multimedia`: `player` is each MediaPlayer with its native half and what the
descriptor in the runtime listens for; `handle` the Manager's players of each app,
`pending` events queued by the engine's threads, `bus` what is on its way to the
runtime. Players are numbered as they are created, which is their order in the
Manager's list; `stop` splices the list it iterates over, as service.js:62 does:
every second player is passed over and stays in the table (`Reached`).

`Lightd`: `light` has the layers, what is shown, its callback, the timer that
resumes, and how often each request was answered. `Loadfile`, `StopFile`,
`ResetLights` are the remote methods, `LightEnds` and `CalledBack` the end of a
light, which is handled by a `setTimeout` of 0 and finds whatever callback is
there by then. `RemoveLayerByUri` looks layers of apps up by the index the loop
over the system's ended with, as service.js:248 does. `setAwake`, `setDegree`
and `setHide` call methods the service does not have and are left out.

### Ota

`otaDisk` is what survives: info.json, the images, the command for recovery.
`otad` is where each process is in its run, with the info it has in memory,
`procLock` the lock, which its holder's death releases and which is refused to
others. `runInCurrentContext` replaces the error of a refusal by one without a
code (index.js:371), so `main` does not know it from a failure and resets
(otad/index.js:81): the command for recovery is taken back at once, info and
images go if the lock is free by then (`RefusedKeepsTheImage`).
Each action is one write or one answer; `Killed` and `PowerLoss` come between
any two. node-flock is not in the repository: if it
waited instead of refusing, the reset that a run does while it holds the lock
(index.js:413) would wait for itself.

### Keyboard, Battery, DndMode

`Keyboard`: time is counted in halves of the long press window; `Longpress(k, dt)`
is a report of the driver after an interval, rounded to the window as the code
does; `fired` is the history of what was executed.
`Battery`: `battery` is the component, `batApp` the app with the tasks it is
telling, `notices` a history of what the user was told. `DndMode`: `kept`
survives a restart, `fsm` does not; `Run` is the machine's run to its next wait.
A saved volume that was never set is `NaN`, as `parseInt` of `''` is. The runtime
sets the volume again when it starts and at each log-in, which the mode takes for
a change by the user (`Initiate`). `around.forgotten` is a history of the two ways
in which the volume of the user is lost: this one, and a mode that ends with
nothing saved. `VolumeGivenBack` speaks of all other behaviours; for each
of the two a property shows it (`VolumeComesBack`, `VolumeIsNumber`).

### Bluetooth, CloudAppClient

`Bluetooth`: `phone`, `air` (reports on their way), `bt` (last reports: a table
turns a report into an event by the one before it), `btApp`, `btCalls` (calls to
the runtime and its answers) and `btShown` (place, monologue, power key, lights,
ringtone). The statemaps of a2dp and hfp name `protocol.RADIO_STATE.OPEN_FAILED`,
which protocol.json does not have. `CloudAppClient`: `client` is the manager's
stack of skills, the executor's list and the chains under way, each with the
directive it took off the list beforehand; requests of the user and answers of
the cloud append or replace, and a url that plays already is left playing
(`PlaysAlready`; the model may see so later than the code, which looks when the
directive is performed). In `Bluetooth` whether a ring needs a ringtone, which
the report of the ring says (hfp.js:126-127), is chosen when it is handled.

### Alarm, CronSchedule, Timer, TimedSleep, Volume

`Alarm`: `alarm` is AlarmCore (jobs, `jobQueue`, `activeOption`, timers, the
chains of promises from the first sound to the ring, which a sound that fails
begins again), `writes` the writes of config.json under way. `CronSchedule`: the
loop of expression.js, a step for each pass, with the arithmetic of `Date`, whose
setters carry; `fields` is the pattern as task.js reads it, `Sequence` what the
parser of the loop makes of its weekdays. `Timer` and
`TimedSleep`: the app's calls to the runtime as a queue, what it says by the id
of the next action it registered; a countdown elapses only while nothing is
said, asked or rung. `Volume`: requests under way as tasks, contexts of
ContextManager, the timer of the key for less; `wanted` is what the user wants.
`Volume` and `TimedSleep` also hold the bundles of what is about one thing to the
user, `VolumesInv` and `TimesInv`.

### MCComponents

The component modules side by side. They share no variable (but for
`AppRuntime`, which contains `Turen`), so the steps of one say nothing about
another: `part` names the one a behaviour is about, the others stay as they
began, and one run checks many parts at the sum of their states instead of the
product. Where components do interact the module of one contains what it needs
of the other, as said above.

## The runs

A component's properties are bundled in one invariant named after it, a
conjunction of named parts (`NetworkInv == NetworkTypeOK /\ NotLeftDisabled /\
SetupEnds`), so that a counterexample of a bundle is read off its parts.

### The stack of apps

Three apps where the question needs a scene, a cut app above it and a third that
comes in; two where calls overlap (the slots are two, and what two overlapping
calls can do to each other shows with two apps). `Calls` bounds the calls in
flight: {1} means that a call is made, and a process exits, only when the
previous call has drained; {1, 2} lets two overlap at every step. Sequences of
continuations stay short (each call leaves at most five), so nothing else is
bounded.

| run | constants | shows |
|---|---|---|
| MCSerialCalls | 3 apps, one a carrier, one that asks to be kept alive, one that may be reloaded while it runs; one call at a time; voice sessions that do and do not recover | `TypeOK`; after a call nobody in the stack is being destructed (`StackRunning`), nobody outside has a form left (`NoStrayForm`), at most the app on top believes it is in front (`OneForeground`), the scene under a cut app was told to pause (`SceneBeneathPaused`); no app pushes out a monopolist (`MonopolyHolds`) |
| MCForeground | 3 apps, a daemon, a light app and an ordinary one; no keepAlive, carriers, reloads or voice sessions | `ForegroundTold`: the app on top knows it, whichever way the one above it left. The things left out are those for which it fails, each on its own, see below and under the proofs |
| MCOverlappingCalls | 2 apps, one kept alive, one a daemon, two calls at once | the invariants that do not depend on calls being over: `SlotsAgreeWithForms`, `StackNotBackground`, `StackHasProcesses`, `MonopolyRevoked`; and the refinement `ImplementsAppStack` |
| MCLive | 2 apps, two calls at once, activation, exit, creation | `DyingLeavesStack` |

### The speech service

Two apps, because what one app's request does to another's is what the service
has to get right, and requests of a third app would only add to it; three
requests, so that one is spoken, one waits and one is resumed or replaces
another. Apps do not have to speak and requests are bounded, so the system may
stop.

| run | constants | shows |
|---|---|---|
| MCTtsd | 2 apps, 3 requests, pauses by voice and by the system, resets | `TypeOK`; whatever is spoken can be stopped by its app (`NoOrphanSpeech`); the service's idea of what plays is late by the events on their way and by no more (`PlayingAgrees`); no app hears the start of a request after its end (`StartFirst`) |
| MCTtsdLive | 2 apps, 3 requests, speak and stop only | `Answered`: every request is terminated for its app |

### The components

| run | parts | distinct states |
|---|---|---|
| MCDevice | runtime, loader, process, keys, dnd, battery, network, cloud, ota, volume | 1,247,000 |
| MCVoice | session, dispatch, client, bluetooth, media, light, cron, alarm, timer, sleep | 792,000 |
| MCProgress | the parts with a liveness property, on smaller bounds | 99,000 |

CHECK_DEADLOCK is FALSE because a part stops when what its bounds allow has been
done. The bounds, and why they are enough:

| part | bounds | what they make happen |
|---|---|---|
| runtime | 2 log-ins, 1 sleep, 1 reset, 1 wake-up; pickups, mutes, delegations | a log-in that ends during the sleep, a second one that must not welcome again, start and welcome at once |
| session | 1 wake-up by voice or pickup, 1 app in front, 1 that uses the turen descriptor, 3 reasons; closing, muting, disabling during it | every order of result, error, timer and pickup of a session; that a session does not spoil the next is the invariant, and is proved for any number |
| dispatch | 2 calls, 2 apps, one light, a channel of both | two dispatches to the app that is being created, a notification past an app that fails |
| loader | 2 packages and a dbus app, 3 manifests (a shared skill, a host, a malformed one), 2 changes, 2 reloads | reads of one reload that end after the next has begun, a load that fails midway, a package that changes after such a load |
| process | 2 forks, errors | a second fork while the first is being destructed or starts; hanging and exits in MCProgress |
| keys | 2 keys, one at a time, presses of 6 half windows in reports of 2 | two lengths of one press, of which one prevents what follows, a fallback shared by keys |
| dnd | a day of 5 hours, two windows within a day and one across midnight, 2 volumes around the mode's, a saved volume that was or was never set | each order of timer, options, use, restart, log-in and the user's volume |
| battery | 6 levels around the marks 8, 10, 20; 3 tasks | marks that are crossed two at a time and back |
| network | 3 changes of the connection, 2 access points sent, 1 account | a second attempt during the first, a connection that comes and goes in a setup |
| cloud | 3 log-ins, 3 connections, backoff up to 2 | an old connection that calls back after a new one; the backoff passes its maximum |
| ota | 2 processes, 2 versions, 3 starts, 1 crash | a version that replaces one being downloaded, a reset that races a run |
| client | 2 apps, 2 requests, 1 answer, 3 chains, scripts of speech and media | an answer for the scene under a cut skill, late ends of both |
| bluetooth | 3 reports or calls on their way | a phone that goes while the app is told of a call and covered by another app |
| media | 2 apps, 2 players | replacement, and several players of one app |
| light | 2 apps, 4 lights (one of the system, one that calls back, one missing), 3 requests | a refusal between two layers |
| cron | a year of 3 months of 4, 2 and 3 days, weeks of 3, single weekdays and '1-5' (for '6,0' see `NothingSkipped` below), days of 2 hours of 2 minutes of 3 seconds; a loop that begins on the second day, which every month has and which is not the first (for the others see `NothingSkipped` below) | every pattern, every first instant, carries through all fields |
| alarm | 2 jobs, one a reminder that rings once, 2 moments, 1 command or sound that fails | both due in one second, a job due while another rings |
| timer, sleep, volume | 4 commands, 2 rings; 4 commands; 3 levels, 4 requests | a command in each stage of the one before |

MCProgress has the time-outs that MCDevice leaves out (processes that hang,
exit or fail), pause and resumption of the cloud client, and otherwise the same
constants made smaller, because liveness is checked on the whole graph.

## Fairness

LaVieEnPile: promise jobs are always run (`WF(Run(c))`), and a destructed
process is killed after a second (ext-app.js). The exit is strongly fair because
in the model, not in the code, it has to wait for a free chain. Ttsd: the
synthesizer goes on as long as it has something to speak or to cancel, posted
events are handled and timers fire; nothing is assumed of apps.

In MCProgress each component's fairness is the premise of its property
(`NetworkFairness => SetupLeaves`), because only one part moves:

- Turen: the engine answers a voice it has heard, promises settle, timers fire.
- Dispatcher: creations settle one way or the other (ext-app.js sees to it in
  15 s, which `AppsAnswer` checks), promises are run, a destructed app exits.
- AppRuntime: apps get loaded, delegations and sounds settle one way or the
  other.
- ExtApp: time passes, what has arrived is read and handled, a killed process
  dies. A process that hangs is not assumed to go on.
- Network: the timers of the app fire; nothing is assumed of phone or network.
- Cloud: the timer of a reconnection fires; a token that is asked for again and
  again arrives at last, and so does a connection (strong fairness: these fail
  any number of times in between, and a device for which they always fail is
  not going to be on line).
- CloudAppClient: what is begun in speech, media or the cloud ends or fails.
- Battery, Bluetooth, Lightd, Alarm, Timer, TimedSleep, Volume: queued calls and
  reports are handled, words and sounds end or fail, timers fire. CronSchedule:
  the loop runs.

Nothing is assumed of users, phones or apps.

## What the code does not keep

Three statements of a test or a comment are refuted by a run of their own;
`findings` in `PROJECT.json` quotes them.

| run | statement | what the code does |
|---|---|---|
| VLastActivationWins | the last of overlapping activations wins | a deferred forced deactivation may remove it |
| VStoppedSpeaksOn | stop stops the current task | a paused request that is stopped is resumed when the voice session ends |
| VNobodySkipped | a notification goes to the apps registered for the channel | the walk goes by index over an array from which a reload takes an entry out: the app behind it is passed over |

The other statements below were written down while modelling, too. They are
definitions of the modules that no listed run checks, and TLC finds each
violated in the configuration named. Whether each is a fault of the code or more
than anybody promised is for its maintainers to say.

### LaVieEnPile and Ttsd (configurations beside this file)

All but the first find a violation.

| configuration | statement | what the code does |
|---|---|---|
| MCTtsdRelogin | `NoOrphanSpeech` over two connections, whose requests have the same numbers | holds (and is proved) |
| VBackgroundIsAlive | destroyed apps leave the records | the guard compares the array with 0, the app stays registered in the background |
| VCarrierOfPreviousApp | the carrier of the previous app is destroyed | after destroyAll, the carrier of a much earlier one is |
| VCrashRecovers (`ForegroundTold`) | a crash recovers the paused app | not when the app that crashed was kept alive |
| the same with KeepAliveApps = {}, RecoverOptions = {TRUE} | nobody preempts during a voice session (lifetime.js:796) | somebody may, and the scene beneath stays paused |
| VKeepAliveIgnored | `ignoreKeptAlive` ignores keepAlive (app-runtime.js:938) | it is passed on as `force` (app-runtime.js:952) |
| VCarrierReactivated | the carrier is activated again (lifetime.js:492) | a scene carrier on top is skipped and never told (lifetime.js:336) |
| VCarrierRecalled | the same | keepAlive subordinates lose it in setBackgroundById (lifetime.js:466) |
| VResumedTooEarly | a request paused by voice is resumed | not when the session ends before the synthesizer has confirmed the pause (`InterruptedSpeaksOn`) |
| VTerminatedTwice | a cancelled request is cancelled (tts-descriptor.js:80) | a request that ended is told cancelled as well when its app speaks or stops next (service.js:52) |
| VOtherRequestPaused | voice_coming remembers what it pauses (pause-on-awaken.test.js:49) | it remembers what plays and pauses what the app asked for last (flora.js:46) |
| VPausedForgotten (`NoForgottenRequest`) | a new request while a paused one exists cancels that (index.test.js:182) | not before the synthesizer has confirmed the pause (service.js:42) |
| the same with Controls = {"reset"} | speak resolves on end of speech (tts-descriptor.js:113) | not after reset, which drops the memos (service.js:165) |
| VSilentWhilePlaying | playing state is true while playing (@yoda/audio/index.js:283) | the cancel of a request that waits sets it to false (service.js:196) |

### The components

"As they are" are the constants of the run that has the part (MCVoice or MCDevice,
MCProgress for what must eventually happen) with Parts reduced to that part.

| module | statement | constants | what the code does |
|---|---|---|---|
| Turen | `DisabledIsDeaf`: "Turen wake up engine would be disabled" | as they are | an app's descriptor, or the end of a pickup, enables the engine of a disabled runtime |
| Turen | `ClosesTheAppSpokenTo`: a pickup "should not close cut app on speech error" | MaxWakes = 2 | whether an app is closed is decided at the error, which one when its lag settles: a pickup in between has no app of its own, and the app in front is closed, whoever that is by then |
| Turen | `SessionSettles` | Operations = {"close"}, or the part runtime | a pickup that is closed discards the next result, so that of a later session; a sleep in the session leaves what it paused |
| Dispatcher | `DisabledOpensNothing` | as they are | the runtime is asked before the creation is awaited (dispatcher.js:123) |
| Dispatcher | `CloudStackAgrees` | as they are | an app is activated and the cloud stack is updated a turn later: of two dispatches the one whose app was activated first may update the stack last |
| AppLoader | `OwnersAreLoaded` | as they are | what an app that fails to load had declared by then stays (app-loader.js:331) |
| AppLoader | `ToldOnce` | as they are | a package whose list of notifications is malformed after a channel stays in that channel (app-loader.js:373); once it is loaded after a change it is in it twice, and told twice |
| AppLoader | `ChangedIsLoaded` | as they are | of a package that changed twice: an unload removes the skills of the manifest it has; what a read that then failed had declared stays registered, and the app itself is refused when a later manifest of it declares that skill again |
| Network | `ConnectionNoticed` | as they are | a connection reported while the one before is being checked is dropped (custodian.js:37); if that one was reported gone in between, the device takes itself for disconnected |
| Network | `TimeoutOfItsOwn` | as they are | the variable of the timer is overwritten by a second attempt, which the first one's timer ends (network/app.js:261) |
| Network | `NotLeftDisabled` | Troubles = {"crash"}, or {"again"} | the access points stay disabled |
| Cloud | `OneConnection`: "the previous connection is still going, just skip" | as they are | the timer of a reconnection is never cleared: it fires after suspend and a forced start (client.js:185) |
| Cloud | `BackoffWithinMaximum` | as they are | the backoff is doubled while it is not above the maximum, so it passes it once (client.js:179) |
| Cloud | `LoggedInMayConnect` | CloudOps = {"relogin"} | Relogin logs out while a log-in synchronizes: the client is suspended, and the log-in then counts (dbus-registry.js:304) |
| Multimedia | `OneEnd`: "only one event can be emit" | as they are | an end that was queued when the player was stopped comes after the cancellation (mediaplayer.js:210) |
| Lightd | `NotCutByPredecessor` | as they are | the timer of a light that calls back calls whatever callback is there by then: the successor is stopped (service.js:187) |
| Lightd | `UpdatedLayersByUri` | as they are | layers of apps are looked up with the index the other loop ended with (service.js:248) |
| Lightd | `NothingHigherWaits`, `LightAnsweredOnce`, `DarkOnlyIfEmpty` | FaultyLights = {"loading"} | a light that throws leaves nothing shown, its callback in place and the layers below without a timer (service.js:185) |
| Ota | `RefusedKeepsTheImage`: "not errored for locking, shall retry in a short sleep" (otad/index.js:80) | as they are | the error of a refusal loses its code (index.js:371), so otad goes on to resetOta: when the other run has just unlocked, the update it has stored is removed |
| Ota | `PreparedIsValid`: "check file validity" | as they are | the image is recorded as downloaded before its hash has been compared (index.js:317); a restart in between, or a user who asks in time, has it installed |
| Keyboard | `InterceptsAll`: "Intercepts all events for key code" | as they are | the press and the release still do what the configuration says (keyboard-descriptor.js:89) |
| Keyboard | `PreventsOwnPress`, `NothingAfterPrevented` | KeysAtOnce = 2 | the flag is one for all keys, and cleared with the current key |
| Keyboard | `NonRepeatingOnce` | Intervals = {1, 2, 3} | two reports of one press are rounded to the same time |
| Battery | `ClosedForNotice` | as they are | the microphone is closed before it is known whether there is something to announce (battery.js:196) |
| Battery | `PollsWhileUnsafe`: "if not safe will notifyLight again" | as they are | the name of the timer is kept when it is cleared, so only the first danger is polled (battery/app.js:165) |
| Battery | `LeavesWhenDone` | as they are | every task ends the app, whatever else it is telling (battery/app.js:94) |
| DndMode | `WaitsForTheEnd` | Windows <- MCNightWindows or MCWindows | in hours that cross midnight the timer is set to a whole day when the mode is turned on after midnight (dnd-mode.js:124, against :101, "if result >= 0, it's the millisecond to end time"); within a day, too: a device in use when the hours end is looked at again only an hour later; when the next hours begin before that, the mode is on and its timer is not the one for their end |
| DndMode | `ModeFollowsHours` without its `kept.window[1] < kept.window[2]` | as they are | hours that cross midnight, as the default ones (23:00 to 7:00) do on a device in the time zone they are written for: a mode turned on after midnight is not turned off when they end |
| DndMode | `VolumeComesBack`: "sound exit dnd mode" with the volume of before (dnd-mode.test.js:265) | UserVolumes = {3} | the runtime sets the volume again as it is when it starts and when the device logs in (app-runtime.js:206, 1223), which is taken for a change by the user: the volume of the mode is saved in place of the user's |
| DndMode | `VolumeIsNumber`: "vol must be a number" (@yoda/audio/index.js:144) | as they are | when none was ever saved and the volume was not above the mode's, disable sets what parseInt makes of '' (dnd-mode.js:58) |
| DndMode | `VolumeGivenBack` | DndEvents with "late" | its own change is told from the user's by one flag, and events may come late |
| DndMode | `LightFollowsMode` | as they are | after a restart in the hours the status is on already, and the light is not dimmed (dnd-mode.js:442) |
| Bluetooth | `CallIsKnown`, `CallGivesBack` | BtOps with "alerting" | an alerting call erases the outgoing one from the last state (hfp.js:110): it cannot be hung up, and its end is no event |
| Bluetooth | `AppFollowsPhone` | BtOps with "source" | events of the mode that was left are passed over |
| Bluetooth | `CallGivesBack`, `NoRingtoneInCall` | BtOps with "slow" | monologue and power key are taken when the front is given, which may be after the call ended (bluetooth/app.js:620) |
| CloudAppClient | `TaskCounts` | Scripts = {<<"tts">>, <<"tts", "media">>} | a chain takes its directive off the list beforehand, the start on the next tick finds none left, and its task is counted for ever (directive.js:60) |
| CloudAppClient | `CurrentGoesOn` | as they are | a chain that ends while its scene is paused leaves it with nothing to do when it is resumed (skill.js:83) |
| Alarm | `RingsForActive`: "stop alarm when device was wakeuped" | as they are | the chain of promises is not told of the stop (alarm-core.js:256); it rings, for five minutes at most |
| Alarm | `TimerFindsJob` | as they are | `clearAll` before the first sound has started finds no timer to clear, which later finds no job and throws (alarm-core.js:330) |
| Alarm | `FileAgrees` | as they are | the file is read, unlinked and written without order among writers (alarm-core.js:137) |
| Alarm | `QueuedIsActive` | AlarmOps = {"overlap"}, or {"delete"} | jobs due at a second moment, or deleted, while others wait stay in the queue; one that is deleted while it rings is not there when its end clears it, and `clear` then destroys every job, those included that have begun in that second (node-cron.js:112) |
| Alarm | `QueuedIsActive`, `SomeoneRings` | Weekends = {"j2"} | on a Sunday an alarm of '6,0' is compared with the jobs of Saturday: two ring, or it gives way to one that is not due |
| Alarm | `QueuedIsActive` | Sundays = {"j2"} | the pattern of 'D7' ends in '7', which the comparison of any two jobs refuses (expression.js:64): it throws, and the job that began stays in the queue |
| Alarm | `OneRuns`: "only reminders can be run" (node-cron.js:23) | Jobs, Reminders and Single as they are, MaxDue = 1, Weekends = {"j2"} | on a Sunday an alarm of '6,0' and a reminder due in one second do not give way to each other, and the one in front last takes the place of the other, which stays in jobQueue |
| CronSchedule | `NothingSkipped`: "Find next matching schedule date" (expression.js:304) | Repeats = {"WEEKDAY"} | the weekdays '6,0' (alarm-core.js:82) are read as '6', because a value of a list that is not greater than the one before is dropped (expression.js:177): on a Sunday, when the alarm is due, the next Saturday is found |
| CronSchedule | `NothingSkipped` | StartDays with 1, or a day not every month has | from the last days of a month, where the loop also begins on the first of the next at midnight, a month is added before the day is set, and the carry skips a shorter month (expression.js:351) |
| Timer | `RingsAlone` | TimerOps = {"race"} or {"fails"} | a stop between the call for the front and its answer (timer/app.js:337); words that fail trigger the next action twice (271) |
| Timer | `RingIsKnown` | TimerOps = {"fails"} | two rings, of which one is known |
| Timer | `TimerLeaves` | TimerOps = {"slow"}, {"follow"} or {"race"} | a pickup and words register different next actions (232, 268); a command within the pickup leaves the app in front (240) |
| Timer | `PausedIsKept` | as they are | pausing a countdown that is due loses it (146) |
| TimedSleep | `AnswerIsGiven` | SleepOps = {"talk"} or {"race"} | the end of words that were stopped makes the app exit (70) |
| TimedSleep | `SleepNotForgotten` | SleepOps = {"race"} | a command that crosses the exit is lost with its timer |
| Volume | `MutedAsWanted` | VolumeOps = {"overlap"}, or {"fails", "silent"} | whether the device was muted is read before words and used after them (volume/app.js:23) |
| Volume | `VolumeLeaves` | VolumeOps = {"top"} or {"fails"} | volumemax at the top never ends its context (311) |
| Volume | `ReleasedIsHarmless` | VolumeOps = {"repeat"} | keyboard.json repeats the long press; each overwrites the timer that mutes, and one is never cleared (136) |

## Proofs

Thirty-three theorems are listed in `PROJECT.json`; each holds for every value of
the constants, under the assumptions named in the modules and those said here.
Type correctness of each of these components is a conjunct of the invariant that
is proved. Each inductive invariant was first checked by TLC, as an invariant of
the run of its component. Where a theorem assumes something about a constant
(`OneCall`, `Troubles = {}`, `MaxSessions = 1`, ...) the property fails without
it, and TLC shows how: see "What the code does not keep" and what is said here.

### LaVieEnPileProofs

For any sets of apps and kinds and any number of overlapping calls, from
`AppKindsAssumption` and `LifetimeAssumption` only:

- `TypeCorrect`, `SlotsAgree`, `NotBackground`, `HasProcesses`:
  `Spec => []TypeOK` and so on for the invariants of MCOverlappingCalls;
- `Refinement`: `Spec => ImplementsAppStack`;
- `MonopolyLapses`: `Spec => MonopolyRevoked`.

The inductive invariant is `IInv == TypeOK /\ Shaped(life) /\ StackHasProcesses`,
where `Shaped(L)` says of a record of fields that it is typed, that slots and
forms agree and that the stack is disjoint from the background. The conjuncts need
each other: that a cut app which comes in leaves the scene's slot valid depends
on the form recorded for it, and which app a departure takes off depends on the
slots being held by different apps.

The argument has two layers. First, each operation, as an operator on any
shaped record, returns a shaped record and typed continuations, and changes the
slots in one of two ways: apps of a set leave (`Vacated`) or one comes in
(`Pushed`). Nothing about the state or other calls is needed for that, which is
why overlapping does not matter. Second, each action only combines these
lemmas, so that a step is one of four moves (`Comes`, `Goes`, `Born`, `Dies`),
and these are the steps of AppStack. `MonopolyLapses` adds that only
`startMonologue` sets a monopolist, that an app that comes in was looked at by
`guardMonopolization`, and that a destructed process does not run again before
it has exited.

For calls that do not overlap (`OneCall`), still with any apps, any kinds of
apps, processes that start and are restarted between any two steps, and processes
that die between any two calls (what an exit sets off is a call, and waits for the
one before to drain):

- `StackKeptRunning`, `FormsForgotten`, `NobodyElseInFront`, `SceneKeptPaused`:
  the four invariants of MCSerialCalls about quiet states;
- `MonopolyKept`: `Spec => MonopolyHolds`;
- `TopKeptInFront`: `Spec => []ForegroundTold`, from `Plain` besides: no
  carriers, no app that asks to be kept alive, none that is reloaded while it
  runs, no resumption by the voice session. With any one of the four the run
  MCForeground has a counterexample.

These are properties of states in which nothing is left to do, so what has to be
found is what holds while something is. `Settled(L, st, D, P)` is the conjunction
of the properties for all apps but those of `D`, which are going to be
deactivated, and of `P`, which are going to be paused. `Rest(t, L, st)` lists what
may be left of a call once no process is to be ended (nothing, the top to be
resumed, a carrier to be activated, an app to be told that it is on top, after
another was deactivated or paused), each with the `D` and `P` that go with it, and
`Awaits` adds the two things a call may have to do before: suspend apps that
neither are in the stack nor believe they are in front, and destroy a carrier that
is not on top. The invariant is `SIInv`: `IInv`, and `Awaits` of the one chain.

Again each operation is looked at on its own: apps that leave settle whoever
remains (`LeftSettles`), what a departure leaves to do is a recovery
(`DeactivateAwaits`), an app that comes in leaves a `Rest` (`ActivateAwaits`, with
a case for each branch of activateAppById). A continuation takes the head off a
`Rest` and restores one (`RunSerial`). Processes that come and go beside a call
only change what no `Rest` asks about (`Carries`): an app that starts was neither
in the stack nor in front; one that dies is collected by a call of its own, which
starts from a settled stack. `ForegroundTold` is the clause `Heeded`: with `Plain`,
the call that is over has told whoever is on top (`Minds` says which departures
need a recovery for that). `MonopolyKept` needs that no app outside the stack
has a form left: such an app, let in as a cut app, would turn out to be a scene
and push the monopolist out.

### TtsdProofs

For any apps, any bounds and any of the controls, from `TtsdAssumption` and
`NoMemoAssumption` (no value stands for two things): `TtsdTypeCorrect`,
`Spec => []TypeOK`, and `NoOrphans`, `Spec => []NoOrphanSpeech`.

The inductive invariant is `IInv == TypeOK /\ NoOrphanSpeech /\ Numbered`.
`NoOrphanSpeech` is almost inductive: a new request takes the app's entry and
the request it had there was stopped, or was over. What is missing is
`Numbered`: a request the synthesizer knows, or has posted an event of, has a
number smaller than the next one it gives out, and a termination that is on its
way is not of a request that still goes on. Without the first the memo of a new
request could overwrite that of one that is still spoken, without the second a
late event could delete it.

From `MaxSessions = 1` (one connection to the native client; a second log-in
starts the numbers again and the properties fail, see above):
`PlayingLagsByEvents`, `Spec => []PlayingAgrees`, and `StartsFirst`,
`Spec => []StartFirst`. For the first the order of the events is what matters
(`StartsOrdered`): a start that is posted is followed by its termination unless
its request is being spoken, and the start of what is being spoken is the last
start posted, or was handled. For the second, `HeardFirst` says of each request
an app still hears of that nothing of it was told as ended, is held back by a
timer, or goes by its id in the memo of another request; `KnownOnly` that no
number is in use before it is given out.

### AppRuntimeProofs

`SessionLeavesNothing`: `TurenSpec => []TurenInv`, for any apps, reasons,
operations and number of wake-ups, from no assumption but `TurenAssumption`.
Two of the three parts of `TurenInv` that are not about types, `LifetimeHeld`
and `SolitaryInSession`, are inductive as a statement about the record `turen` alone
(`Sound`): each handler ends in `ResetAwaken` or leaves awaken as it was.
`NeverDeaf` is inductive once the reasons, and who is to restore the engine, are
typed (`Outside`). The hard part is the type: that the counters of promises stay
within `Count`, i.e. that a wake-up cannot leave an unbounded number of
continuations. `Ends` is the argument: a session has two ends at most, one by its
timer and one by the engine, and every promise is what has become of one of them, so
that timers, promises and answers owed are at most twice the wake-ups.

`RuntimeAgrees`: `RuntimeSpec => []RuntimeInv`. The actions of `AppRuntime`
that touch Turen's record are compositions of operators the first module has
lemmas about, so that its invariant carries over (`TurenIInv` is a conjunct), and
Turen's own steps leave the runtime's variables alone. `AsleepIsDisabled` is
inductive with the type; `WelcomedOnce` counts `shouldWelcome` as a debt that is
granted by a sleep, a reset or the start, and paid by a welcome.

`LoadedAndReachable`: `LoaderSpec => []LoaderInv`, for any packages and lists of
declarations and any number of changes and reloads, from `LoaderAssumption` only.
`LoaderInv` says nothing of what is not loaded, and that is where it could break:
what a failed load has left may be in the way of the next. `LoaderIInv` says what
may be left, of each app on its own:

- `Agrees`: what is loaded has what it declares, and a host leads to a skill that
  is somebody's. It holds of all apps whatever they do.
- `UnchangedAreKept`: an app whose package has not changed has nothing registered
  that its package does not declare, and is in the channel as often as it asked to
  be if it is loaded, and not at all if it is not and its list can be read.
- `ChangedAreFree`: of a package that has changed once, nothing that the new
  manifest declares would stay if it were unloaded now, since all it has is of the
  manifest that is loaded. After a second change this is lost, and the package may
  be refused by what it left itself (`ChangedIsLoaded`, above).
- `AloneReturns`: a package without rivals that alone has changed is loaded as it
  is, or finds nothing of its own taken and is still to be read.

A load is first shown to take what was free, all of it or up to a failure
(`PopulatedIs`), and an unload to give back what the manifest names
(`UnloadedIs`); that neither touches another app (`LoadOthers`, `UnloadOthers`)
leaves the one app of the step. `FindsNothing` is the heart of it: whoever a skill
of the package could belong to declares it too, and so is a rival. What a number of
splices leaves of the channel (`SplicedTimesIs`) is counted, and the recursive
function that splices shown to exist, by the smallest number of which it would fail
(`SmallestNumber`).

### ExtAppProofs

`ProcessesKept`: `ExtAppSpec => []ExtAppInv`, for any number of processes one
after the other, from no assumption but those of the module. A process and what
the runtime keeps of it satisfy `Kept`, which follows the handshake: what may be
under way between them at each stage (`BeforeLaunch`, `Launch`), each message at
most once and in which order; that the start is settled once and its timer runs
until then (`StartKept`); and that a process that never hung has a ping under way
when the interval ends (`PingsArrive`), so that it is not killed for being
silent. `SchedulerKept` ties the processes together: only one is being started, and
one that is not left to die is the one the scheduler has. Each action is
shown as an operator on one process; what it changes of the channel is a lemma
about lists (append, take the head), since the queue is a list of any length.

### ConnectionProofs

`NetworkSound`: from `Troubles = {}` (no crash, and no setup asked for in the
second in which it leaves; with either the property fails, see above),
`NetworkSpec => []NetworkInv`, for any accounts and any number of changes and
attempts. Strengthenings: `UpHasCause` (a connection that is up was joined for the setup, or
is one the device joins by itself) and `Sound`, which ties the places where access
points are switched: a setup that has settled is about to leave and has enabled
them; one that is closed is neither; what is saved is enabled unless a setup is
open; an open setup has a timer. The third is the property, and it rests on the
first: a setup that ends after it has settled does not enable anything again, so
what it did when it settled must have lasted until then.

`LoggedInIsConnectable`: from `IsFiniteSet(Handles)` and `"relogin" \notin
CloudOps` (with it the property fails, see above), `CloudSpec => []CloudInv`.
`LoggedInMayConnect` needs that the log-in which is synchronizing has already
started the client (`SyncingMayConnect`). `ConnectingHasCause` takes a case for each
way an attempt may end. The type is bounded by `OneEachLogin`: each log-in is the
cause of one thing that is under way, its request, a token, a connection that calls
back or a timer, so that these are at most as many as the log-ins; that is counted
with the cardinality of a set of connections, which is where finiteness is used.

`CallsGiveBack`: from `PlainBluetooth` (`BtOps` without "alerting", "source" and
"slow", with each of which a property fails, see above), `BluetoothSpec =>
[]BluetoothInv`, for any `MaxAir`. The property speaks of states in which
nothing is on its way, so the inductive invariant, `BtSound`, says in what way what
is on its way leads there, of the two sides of the app:

- `Follows`: there is a history of the phone that begins with one the adapters know
  (`Knows`: the last report of each is of this phone) and ends with the phone as it
  is, and each report on its way is one step of it (`Moves`). A report that is sent
  makes the history longer (`Reported`), one that is received takes its first step
  (`Received`); a lagging adapter therefore never takes a report for something that
  did not happen after what it knows, and with no report left it knows the phone.
- `StillToDo`: the queues of calls to the runtime and of its answers are one of a
  few combinations, each with what holds while it lasts. `CallIsKept` holds in all
  of them: the state of the call is that of the last report, and the skill, the
  lights and the ringtone fit it. `MonologueIsKept` (the monologue and the key are
  taken exactly in a call) is left in four of them, from the call for the front
  until the monologue has started, and until it has ended.

One lemma for each action takes `BtSound` from a state to the next, and for the
receipt of a report, which runs most of the app's code, one for each state of the
call (`IdleHandled`, `IncomingHandled`, `OffhookHandled`) and one for what music
brings (`MusicHandled`); a helper of the app is first shown to change nothing but
its part (`AskIs`, `TimerIs`, `SkillIs`, `LightIs`).

### OtaProofs

`RecordedIsTrue`: `OtaSpec => []OtaInv`, for any number of processes, versions,
runs and crashes. The inductive invariant is `Committed /\ Truthful(otaDisk)` with
types. `Committed` says that whoever works on the disk holds the lock, and that
what the disk says goes with where the holder is in its run; `Truthful` is the
property of the disk alone. An action is then one of two kinds: a step of the
lock's holder (`HolderActs`), which may rely on the disk being as it left it, or
one of somebody without the lock (`FreeActs`), of which it has to be shown that
it changes nothing of the disk that a holder relies on. A crash drops a holder
and leaves a disk that is truthful at every point of the run: that is why
info.json has to be unlinked before the images are.

### TimesProofs

`QueueIsEmptied`: from `AlarmOps = {}` (no second moment at which jobs are due
while jobs wait to be in front, and no job deleted then or while one rings that
rings once) and no jobs in `Weekends` and `Sundays` (with any of these the property
fails, see above), `AlarmSpec => []AlarmInv`, for any jobs and dates. Nothing in
`alarm` alone tells that a job whose id is in the queue will take it out again.
The strengthening `Awaited` says what those that wait have in common: they were
due in the same second, they still exist, and the one that rings was due with
them and is preferred to each; one that rings once still exists, so that its end
destroys no other. The one that comes next to the front therefore
gives way, or takes the place of one that is not in the queue any more. The
order is asymmetric (`Asymmetric`), which is where two jobs could both give way.

`TimesKept`: `AlarmSpec /\ TimerSpec /\ TimedSleepSpec => []TimesInv`, from
`AlarmOps = {}`, no job repeated on a Sunday, and `TimerOps` and `SleepOps` without the operations of which
TLC shows that each breaks the property: commands that cross a call the app still
has under way, and words that fail or are stopped. For the countdown, at most one
call that is under way is to ring or to speak before it rings (`RingAlone`), none
of them before the time is up (`NoRingYet`), the ids of what is said are those
given out (`Known`), and all rings are the one that can be stopped (`RingHeld`).
For the timed sleep (`SleepKept`), who asks to exit owes nobody an answer and has
no timer that runs.

### ServicesProofs

Eight components that share no variable, one part of the module for each.

- `LowPowerTold` (`BatteryInv`), from the module's assumptions: the mark a
  report passes is the lowest above the level, which is found among any finite
  set of marks by a well-founded argument (`FS_StrictSubsetOrderingWellFounded`),
  since a proof by induction on the number of marks is out of reach.
- `LightsWorkedOff` (`LightInv`), from `FaultyLights = {}`: `LightSound` is that
  each request was answered once or is the one whose callback waits
  (`AnswersRight`), that the system's layers hold the system's lights
  (`SystemOwns`), and that what is lit is above every layer that waits, and
  nothing waits when it is dark (`Ordered`).
- `DispatchesReported` (`DispatcherInv`), for any number of dispatches: for an
  event, that it is taken only at its end and by who heard it; for a
  notification, that those who heard it, those who failed and those who are left
  are all it is for (`Accounted`).
- `VolumeAsWanted` (`VolumesInv`), from changes that are reported before anything
  else happens (`"late" \notin DndEvents`), and commands that wait for the words
  said on a muted device. Do-not-disturb: what is wanted is the volume, or the one
  that was saved, depending on whether the mode is on and on which change is under
  way (`Remembered`, as long as nothing is forgotten); that the runtime's setting of
  the volume after a run is either no change to that or marked as forgotten needs
  that a run only leaves a change on its way when it took the volume down
  (`OnlyDims`). For hours within a day (`ModeFollowsHours` is about no others) the
  machine that waits has the mode the hours ask for and does not wait past their next
  change
  (`HoursKept`; `HourIsOneLess` is the arithmetic around midnight). Volume: while a
  task is to mute the device again it is the only one and the user wants silence
  (`Balanced`).
- `PlayersAnswered` (`MediaInv`), from the module's assumption: an app has every
  player that is not stopped (`HadByApp`), hears the reply before anything else,
  and of what it has no more either heard the end or has it on the bus
  (`ToldToApp`). The passes of stop and reset over a list of players are
  sets: the lemmas speak of each player on its own.
- `KeysDoAsConfigured` (`KeyboardSafe`), from `OneKeyInTime`: one key at a time
  and reports that rounding keeps apart. The key that is held is the current one
  (`CurrentIsHeld`), what is prevented is its press and all of it
  (`PreventsPress`), a guard's timer is as old as the action (`Guarded`), and what
  has happened once has its time behind it (`HappenedBefore`).
- `SkillsStacked` (`ClientInv`), from the module's assumption, for any lists of
  directives, apps, requests and chains, whatever is cancelled, fails or is
  answered late: `ClientSound` adds to the shape of the stack that the upper skill
  is a cut one, that the skill which starts on the next tick is not the lower one
  (`StackInShape`), and that a skill's chains are no more than its count of tasks
  (`ChainsCounted`; the equality, `TaskCounts`, is what the code does not keep).
  Each helper of the manager, a skill and the executor leads from a sound state to
  a sound one (`Succeeds`), most of them by changing nothing these speak of
  (`Calmed`), so that an action is the chain of its helpers.

### What is only model-checked

Liveness, which is out of the prover's reach (`DyingLeavesStack`, `Answered`, and
the five properties of MCProgress): neither fairness nor ENABLED can be reasoned
about. What a fold or a recursive definition computes for every list would need
induction over data, which the installed provers cannot instantiate; where such a
proof was wanted the models use sets, or the proofs a smallest number or a minimal
element of a finite set. `CronSafe` is a property of such a definition: it counts
the days before a month by a recursive function, whose existence is such an
induction, and the years a search takes depend on the calendar; the run goes
through all instants and patterns of its small one.

## Not modelled

`components` in `PROJECT.json` says of each part whether it is modelled, partly
modelled or not, and what is left out. In short:

- custom-config, light, permission and dbus-registry forward requests or are
  tables. Of dbus-registry the method Relogin is an action of `Cloud`. Its
  listeners for media (dbus-registry.js:181) are removed on some of the ends of a
  player only, a leak that no protocol depends on.
- vuid and its watchdog are entry points; guidance, playercontrol and wakeup-effect
  are clients that speak or forward.
- Native bindings, the packages that wrap them, vendored headers, resources, tools,
  build files.
- Of AppRuntime: the media and volume helpers, `resetServices`, and the dbus handlers
  beyond the registration of an app. `registerDbusApp` (app-runtime.js:973) ignores
  'AppId exists', while the loader throws 'AppId conflicts'.
- Texts, frames of lights, sounds, cards and what is told to a phone.

What could be added: event acknowledgements of app processes once a descriptor
asks for them; a refinement of `AppScheduler` by `ExtApp`, whose promises (a start
is settled once, an exit is heard of once) are what `AppScheduler` assumes;
`Dispatcher` over the full `LaVieEnPile`.
