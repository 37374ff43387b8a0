---------------------------- MODULE MCComponents ----------------------------
(***************************************************************************)
(* The components besides the lifetime and ttsd on small instances.  They  *)
(* are modelled with what they depend on and share no variable (but for    *)
(* the runtime, which contains the voice session), so that the steps of    *)
(* one say nothing about another: a behaviour is one of one component, the *)
(* part, while the others stay as they began.  Parts are the components a  *)
(* run looks at.                                                           *)
(***************************************************************************)
EXTENDS AppRuntime, AppLoader, ExtApp, Dispatcher, Keyboard, DndMode, CloudAppClient,
        Network, Cloud, Ota, Battery, Bluetooth, Multimedia, Lightd, CronSchedule, Alarm,
        Timer, TimedSleep, Volume

CONSTANT Parts

VARIABLE part

-----------------------------------------------------------------------------
(* Constants *)

\* An app that serves a host, and two that share a skill, of which one is
\* malformed after what it has declared.
MCManifests ==
    {[skills |-> <<"s1">>, hosts |-> <<<<"h", "s1">>>>, notes |-> <<Channel>>],
     [skills |-> <<"s2">>, hosts |-> <<>>, notes |-> <<"unknown", Channel>>],
     [skills |-> <<"s2">>, hosts |-> <<>>, notes |-> <<Channel, Malformed>>]}

MCChannels == {<<"t1", "t2">>}

Descriptor(key, event, at, debounce) ==
    [key |-> key, event |-> event, at |-> at, timeDelta |-> at, repeat |-> FALSE,
     preventSubsequent |-> FALSE, debounce |-> debounce]

\* A key with presses of two lengths, the longer of which prevents what
\* follows, a key with a press and its keydown, and a fallback.
MCDescriptors ==
    {Descriptor("mic", "click", 0, 3), Descriptor("mic", "keyup", 0, 1),
     Descriptor("mic", "longpress", 2, 0),
     [Descriptor("mic", "longpress", 4, 0) EXCEPT !.preventSubsequent = TRUE],
     Descriptor("vol", "keydown", 0, 1),
     [Descriptor("vol", "longpress", 0, 0) EXCEPT !.timeDelta = 2],
     Descriptor("fallbacks", "click", 0, 2)}

MCWindows == {<<1, 3>>, <<0, 4>>, <<4, 2>>}
MCNightWindows == {<<4, 2>>}
MCScripts == {<<"tts", "media">>}
MCTtsScripts == {<<"tts">>}
MCSystemZ == [u \in {"speaking"} |-> 1]
MCMonthDays == <<4, 2, 3>>
MCCreated == [j \in Jobs |-> IF j = "j1" THEN 1 ELSE 2]

-----------------------------------------------------------------------------
PartNames ==
    {"runtime", "session", "loader", "process", "dispatch", "keys", "dnd", "client", "network",
     "cloud", "ota", "battery", "bluetooth", "media", "light", "cron", "alarm", "timer", "sleep",
     "volume"}

ASSUME PartsAssumption == Parts \subseteq PartNames

mcVars ==
    <<part, runtimeVars, loaderVars, extVars, dispatcherVars, keyVars, dndVars, client,
      networkVars, cloudVars, otaVars, batteryVars, btVars, mediaVars, light, cronVars, alarmVars,
      timerVars, sleepVars, volumeVars>>

\* A part that will not run starts in one of its initial states.
MCInit ==
    /\ part \in Parts
    /\ IF part = "session" THEN TurenInit /\ OwnInit ELSE RuntimeInit
    /\ part = "runtime" \/ runtime.shouldWelcome
    /\ LoaderInit
    /\ part = "loader" \/ \A p, q \in Packages : disk[p] = disk[q]
                          /\ disk[p] = CHOOSE m \in Manifests : TRUE
    /\ ExtAppInit
    /\ DispatcherInit
    /\ part = "dispatch" \/ ~disabled
    /\ KeyboardInit
    /\ part = "keys" \/ user.front = "none"
    /\ DndInit
    /\ part = "dnd" \/ /\ kept.switch /\ kept.window = CHOOSE w \in Windows : TRUE
                       /\ kept.savedVolume = 0
                       /\ around.clock = 0 /\ around.volume = CHOOSE v \in UserVolumes : TRUE
    /\ ClientInit
    /\ NetworkInit
    /\ part = "network" \/ wifi.saved
    /\ CloudInit /\ OtaInit /\ BatteryInit /\ BluetoothInit /\ MediaInit /\ LightInit
    /\ CronInit
    /\ part = "cron" \/ /\ fields = CHOOSE p \in AlarmPattern : Occurs(p)
                        /\ begin = CHOOSE t \in FirstInstants(fields) : TRUE
    /\ AlarmInit
    /\ part = "alarm" \/ alarm.jobs = {}
    /\ TimerInit /\ TimedSleepInit /\ VolumeInit
    /\ part = "volume" \/ audio.level = DefaultLevel

MCNext ==
    /\ part' = part
    /\ CASE part = "runtime" -> RuntimeNext
         [] part = "session" -> TurenNext /\ UNCHANGED own
         [] OTHER -> UNCHANGED runtimeVars
    /\ IF part = "loader" THEN LoaderNext ELSE UNCHANGED loaderVars
    /\ IF part = "process" THEN ExtAppNext ELSE UNCHANGED extVars
    /\ IF part = "dispatch" THEN DispatcherNext ELSE UNCHANGED dispatcherVars
    /\ IF part = "keys" THEN KeyboardNext ELSE UNCHANGED keyVars
    /\ IF part = "dnd" THEN DndNext ELSE UNCHANGED dndVars
    /\ IF part = "client" THEN ClientNext ELSE UNCHANGED client
    /\ IF part = "network" THEN NetworkNext ELSE UNCHANGED networkVars
    /\ IF part = "cloud" THEN CloudNext ELSE UNCHANGED cloudVars
    /\ IF part = "ota" THEN OtaNext ELSE UNCHANGED otaVars
    /\ IF part = "battery" THEN BatteryNext ELSE UNCHANGED batteryVars
    /\ IF part = "bluetooth" THEN BluetoothNext ELSE UNCHANGED btVars
    /\ IF part = "media" THEN MediaNext ELSE UNCHANGED mediaVars
    /\ IF part = "light" THEN LightNext ELSE UNCHANGED light
    /\ IF part = "cron" THEN CronNext ELSE UNCHANGED cronVars
    /\ IF part = "alarm" THEN AlarmNext ELSE UNCHANGED alarmVars
    /\ IF part = "timer" THEN TimerNext ELSE UNCHANGED timerVars
    /\ IF part = "sleep" THEN TimedSleepNext ELSE UNCHANGED sleepVars
    /\ IF part = "volume" THEN VolumeNext ELSE UNCHANGED volumeVars

MCSpec == MCInit /\ [][MCNext]_mcVars

-----------------------------------------------------------------------------
(* Properties *)

\* What the components promise to bring to an end, each under the fairness of
\* its component.  A voice session comes to its end and so does what it has
\* the dispatcher do.
VoiceIsAnswered ==
    /\ part = "session" /\ TurenFairness => SessionSettles
    /\ DispatcherFairness => DispatchSettles

\* Whoever waits for a process hears from it, or of its end: the start of an
\* app is settled, and so is each call of an app.
AppsAnswer ==
    /\ ExtAppFairness => StartSettles
    /\ ExtAppFairness => CallReturns

\* The device comes up by itself, whatever fails meanwhile: it is enabled after
\* its welcome, setups of the network end, the cloud is reached while the
\* device is logged in, and the app that tells of the battery leaves again.
DeviceComesUp ==
    /\ RuntimeFairness => WelcomingEnds
    /\ NetworkFairness => SetupLeaves
    /\ CloudFairness => ComesOnline
    /\ BatteryFairness => BatteryAppLeaves

\* What speaks, plays or shows something makes room for others when it is done:
\* a cut skill, a sentence about bluetooth, a light, the small apps.
OutputGivesWay ==
    /\ ClientFairness => CutSkillLeaves
    /\ BluetoothFairness => SentenceLeaves
    /\ LightFairness => EndedGivesWay
    /\ TimerFairness => TimerLeaves
    /\ TimedSleepFairness => SleepLeaves
    /\ VolumeFairness => VolumeLeaves

\* The next instant of a job is found, one of several jobs due at once rings,
\* no ring goes on for ever, and a countdown that is over rings.
AlarmsRing ==
    /\ CronFairness => LoopEnds
    /\ AlarmFairness => SomeoneRings
    /\ AlarmFairness => RingEnds
    /\ TimerFairness => TimeIsRung
=============================================================================
