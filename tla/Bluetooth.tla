----------------------------- MODULE Bluetooth -----------------------------
(***************************************************************************)
(* The bluetooth app (apps/bluetooth/app.js) and its two adapters, of      *)
(* music (packages/@yoda/bluetooth/a2dp.js) and of calls (hfp.js): what    *)
(* the service reports of the phone becomes events by a table, and the     *)
(* events move the app between "bluetooth", "bluetooth_music" and          *)
(* "bluetooth_call", of which the first belongs to the background.         *)
(*                                                                         *)
(* Reports, the app's calls to the runtime and the runtime's answers are   *)
(* queues of their own.  The service obeys at once; what is said and the   *)
(* phone's songs, volume and notifications are left out.                   *)
(***************************************************************************)
EXTENDS Naturals, Sequences, FiniteSets

CONSTANTS
    BtOps,     \* what happens: call (and alerting), music, cover, quiet, source;
               \* slow: the runtime is slower than the phone
    MaxAir     \* bound: reports and calls on their way

BluetoothIntents ==
    {"bluetooth_broadcast", "bluetooth_disconnect", "disconnect_devices"}
    \cup (IF "music" \in BtOps THEN {"bluetooth_start_bluetooth_music", "resume", "stop"} ELSE {})
    \cup (IF "call" \in BtOps THEN {"call_answer", "hang_up", "call_number"} ELSE {})
    \cup (IF "source" \in BtOps THEN {"connect_speaker"} ELSE {})

ASSUME BluetoothAssumption ==
    /\ BtOps \subseteq {"call", "alerting", "music", "cover", "quiet", "source", "slow"}
    /\ MaxAir \in Nat \ {0}

VARIABLES
    phone,  \* what the service and the phone are doing
    air,    \* reports on their way
    bt,     \* the adapters: last report of each, mode
    btApp,  \* the app
    btCalls,\* the app's calls to the runtime, and the runtime's answers
    btShown \* the app's place, monologue and key; lights and ringtone

btVars == <<phone, air, bt, btApp, btCalls, btShown>>

A2dpKinds == {"invalid", "opened", "closed", "connected", "disconnected", "played", "stopped"}
Setups == {"none", "incoming", "outgoing", "alerting", "active"}
CallStates == {"IDLE", "INCOMING", "OFFHOOK"}
BluetoothSkills == {"bluetooth", "bluetooth_music", "bluetooth_call"}
Derived == "derived_from_phone"
Modes == {"sink", "source"}

BluetoothTypeOK ==
    /\ phone \in [mode : Modes \cup {"off"}, conn : BOOLEAN, play : BOOLEAN, call : Setups]
    /\ air \in Seq([from : Modes \cup {"hfp"}, kind : A2dpKinds \cup Setups \cup {"ring"}])
    /\ bt \in [a2dp : A2dpKinds, mode : Modes, hfp : Setups]
    /\ btApp \in [skill : BluetoothSkills, callState : CallStates, needResume : BOOLEAN,
                  lastIntent : BluetoothIntents \cup {Derived, "implicit_disconnect"},
                  timer : {"none", "play", "connect"}]
    /\ btCalls.asked \in Seq({"music", "call", "back", "speak", "wait", "start", "end"})
    /\ btCalls.told \in Seq({"pause", "resume", "background", "called", "spoken"})
    /\ btShown \in [front : BOOLEAN, covered : BOOLEAN, monologue : BOOLEAN, key : BOOLEAN,
                    lights : SUBSET {"discovery", "INCOMING", "OFFHOOK"}, ringtone : BOOLEAN]

BluetoothInit ==
    /\ phone = [mode |-> "off", conn |-> FALSE, play |-> FALSE, call |-> "none"]
    /\ air = <<>>
    /\ bt = [a2dp |-> "invalid", mode |-> "sink", hfp |-> "none"]
    /\ btApp = [skill |-> "bluetooth", callState |-> "IDLE", needResume |-> FALSE,
                lastIntent |-> Derived, timer |-> "none"]
    /\ btCalls = [asked |-> <<>>, told |-> <<>>]
    /\ btShown = [front |-> FALSE, covered |-> FALSE, monologue |-> FALSE, key |-> FALSE,
                  lights |-> {}, ringtone |-> FALSE]

-----------------------------------------------------------------------------
(* What the adapters know, and what they send; w has all the variables. *)

Bluetooth == [phone |-> phone, air |-> air, bt |-> bt, app |-> btApp, calls |-> btCalls,
              shown |-> btShown]

Results(w) ==
    /\ phone' = w.phone /\ air' = w.air /\ bt' = w.bt
    /\ btApp' = w.app /\ btCalls' = w.calls /\ btShown' = w.shown

IsConnected(w) == w.bt.a2dp \in {"connected", "played", "stopped"}
IsPlaying(w) == w.bt.a2dp = "played"
IsDiscoverable(kind) == kind \in {"opened", "disconnected"}

GetCallState(w) ==
    CASE w.bt.hfp \in {"active", "outgoing"} -> "OFFHOOK"
      [] w.bt.hfp = "incoming" -> "INCOMING"
      [] OTHER -> "IDLE"

Report(w, from, kind) == [w EXCEPT !.air = Append(@, [from |-> from, kind |-> kind])]

\* The phone is gone, with its call and its music.
Lost(w) ==
    IF ~w.phone.conn THEN w
    ELSE LET called == IF w.phone.call = "none" THEN w ELSE Report(w, "hfp", "none")
         IN  [Report(called, w.phone.mode, "disconnected")
                 EXCEPT !.phone.conn = FALSE, !.phone.play = FALSE, !.phone.call = "none"]

Close(w) ==
    IF w.phone.mode = "off" THEN w
    ELSE [Report(Lost(w), w.phone.mode, "closed") EXCEPT !.phone.mode = "off"]

\* A mode excludes the other ("unique").
Open(w, mode) ==
    LET chosen == [w EXCEPT !.bt.mode = mode]
    IN  IF w.phone.mode = mode THEN chosen
        ELSE [Report(Close(chosen), mode, "opened") EXCEPT !.phone.mode = mode]

Disconnect(w) == Lost(w)

Playing(w, play) ==
    IF w.bt.mode # "sink" \/ ~w.phone.conn \/ w.phone.play = play THEN w
    ELSE [Report(w, w.phone.mode, IF play THEN "played" ELSE "stopped") EXCEPT !.phone.play = play]

Play(w) == Playing(w, TRUE)
PausePlayer(w) == Playing(w, FALSE)

AnswerCall(w) ==
    IF w.phone.call # "incoming" THEN w
    ELSE [Report(w, "hfp", "active") EXCEPT !.phone.call = "active"]

Hangup(w) ==
    IF w.phone.call = "none" THEN w
    ELSE [Report(w, "hfp", "none") EXCEPT !.phone.call = "none"]

Dial(w) ==
    IF ~w.phone.conn \/ w.phone.call # "none" THEN w
    ELSE [Report(w, "hfp", "outgoing") EXCEPT !.phone.call = "outgoing"]

-----------------------------------------------------------------------------
(* Helpers of the app *)

Ask(w, what) == [w EXCEPT !.calls.asked = Append(@, what)]

SetAppType(w, skill) ==
    [Ask(w, CASE skill = "bluetooth_music" -> "music"
              [] skill = "bluetooth_call" -> "call"
              [] OTHER -> "back") EXCEPT !.app.skill = skill]

Speak(w) == Ask(w, "speak")

\* Without afterSpeak.
SpeakOnly(w) == Ask(w, "wait")

SetTimer(w, timer) == [w EXCEPT !.app.timer = timer]
CancelTimer(w) == SetTimer(w, "none")

PauseMusic(w) == IF IsPlaying(w) THEN PausePlayer([w EXCEPT !.app.needResume = TRUE]) ELSE w
ResumeMusic(w) == IF w.app.needResume THEN Play([w EXCEPT !.app.needResume = FALSE]) ELSE w

Light(w, on, off) == [w EXCEPT !.shown.lights = (@ \cup on) \ off]

-----------------------------------------------------------------------------
(* Events of the adapters *)

\* (slip: what the call took is given back by its end only when it was taken)
IdleOfActive(w) ==
    IF w.app.callState # "OFFHOOK" THEN [w EXCEPT !.app.callState = "IDLE"]
    ELSE LET freed == SetAppType(Ask(w, "end"), "bluetooth")
         IN  Light([freed EXCEPT !.app.callState = "IDLE"], {}, {"OFFHOOK"})

OnIdle(w) ==
    IF w.app.callState = "IDLE" THEN w
    ELSE LET quiet == IF w.app.callState = "INCOMING"
                      THEN [w EXCEPT !.shown.ringtone = FALSE] ELSE w
             freed == SetAppType(Ask(quiet, "end"), "bluetooth")
         IN  Light([freed EXCEPT !.app.callState = "IDLE"], {}, {w.app.callState})

OnIncoming(w) ==
    LET begun == IF w.app.callState = "IDLE"
                 THEN Light(SetAppType(w, "bluetooth_call"), {"INCOMING"}, {}) ELSE w
    IN  [begun EXCEPT !.app.callState = "INCOMING"]

OnOffhook(w) ==
    LET begun == IF w.app.callState = "IDLE" THEN SetAppType(w, "bluetooth_call")
                 ELSE IF w.app.callState = "INCOMING" THEN [w EXCEPT !.shown.ringtone = FALSE]
                 ELSE w
    IN  Light([begun EXCEPT !.app.callState = "OFFHOOK"], {"OFFHOOK"},
              {w.app.callState} \ {"OFFHOOK"})

\* A phone that sends a sound of its own needs none.
OnRing(w, play) == IF play THEN [w EXCEPT !.shown.ringtone = TRUE] ELSE w

OnRadioState(w, kind) ==
    LET c == CancelTimer(w)
    IN  CASE kind = "opened" /\ w.bt.mode = "source" -> [Speak(c) EXCEPT !.app.lastIntent = Derived]
          [] kind = "opened" /\ w.bt.mode = "sink" ->
               (CASE w.app.lastIntent = "bluetooth_broadcast" ->
                        [Speak(c) EXCEPT !.app.lastIntent = Derived]
                  [] w.app.lastIntent = "bluetooth_start_bluetooth_music" -> SetTimer(c, "connect")
                  [] OTHER -> c)
          [] kind = "closed" /\ w.app.lastIntent = "bluetooth_disconnect" -> Speak(c)
          [] OTHER -> c

Silenced(w) == w.app.lastIntent \in {"implicit_disconnect", "bluetooth_disconnect"}

LeftByPhone(w) ==
    CASE w.app.skill = "bluetooth_call" -> OnIdle(w)
      [] w.app.skill = "bluetooth_music" -> SetAppType(w, "bluetooth")
      [] OTHER -> w

OnConnectionState(w, kind) ==
    LET c == CancelTimer(w)
        left == LeftByPhone(c)
    IN  CASE kind = "connected" /\ w.app.lastIntent = "bluetooth_start_bluetooth_music" ->
                 SpeakOnly(SetTimer(c, "play"))
          [] kind = "connected" /\ w.app.lastIntent # "bluetooth_start_bluetooth_music" ->
                 [Speak(c) EXCEPT !.app.lastIntent = Derived]
          [] kind = "disconnected" -> IF Silenced(w) THEN left ELSE Speak(left)
          [] OTHER -> w

\* The timer that follows only takes the mute away.
OnAudioState(w, kind) ==
    IF kind = "played"
    THEN [CancelTimer(SetAppType(w, "bluetooth_music")) EXCEPT !.app.lastIntent = Derived]
    ELSE w

OnDiscoveryState(w, on) ==
    IF ~on THEN Light(w, {}, {"discovery"})
    ELSE IF Silenced(w) THEN w ELSE Light(w, {"discovery"}, {})

\* stateFilters: the events of a report, in order.  Those of a mode that is
\* not the app's any more are passed over, but for the state of the radio.
HandleEvent(w, from, kind) ==
    LET known == [w EXCEPT !.bt.a2dp = kind]
        mine == from = w.bt.mode
        first == CASE ~mine /\ kind \in {"opened", "closed", "connected", "disconnected"} ->
                          CancelTimer(known)
                   [] mine /\ kind \in {"opened", "closed"} -> OnRadioState(known, kind)
                   [] mine /\ kind \in {"connected", "disconnected"} ->
                          OnConnectionState(known, kind)
                   [] kind \in {"played", "stopped"} /\ w.bt.mode = "sink" ->
                          OnAudioState(known, kind)
                   [] OTHER -> known
        was == IsDiscoverable(w.bt.a2dp)
    IN  IF mine /\ was # IsDiscoverable(kind)
        THEN OnDiscoveryState(first, IsDiscoverable(kind))
        ELSE first

\* An alerting call is forgotten until it is taken; the same state again is
\* no event.
OnEvent(w, kind, play) ==
    LET known == [w EXCEPT !.bt.hfp = kind]
    IN  CASE kind = "ring" -> OnRing(w, play)
          [] kind = "alerting" -> [w EXCEPT !.bt.hfp = "none"]
          [] kind = w.bt.hfp -> w
          [] kind # w.bt.hfp /\ kind = "none" -> OnIdle(known)
          [] kind # w.bt.hfp /\ kind = "incoming" -> OnIncoming(known)
          [] kind # w.bt.hfp /\ kind \in {"active", "outgoing"} -> OnOffhook(known)

\* The runtime and the app are done with what came before, unless slow.
Prompt == "slow" \in BtOps \/ (btCalls.asked = <<>> /\ btCalls.told = <<>>)
HasRoom == Prompt /\ Len(air) + Len(btCalls.asked) + Len(btCalls.told) < MaxAir

ReceiveMessage ==
    /\ air # <<>> /\ Prompt
    /\ LET w == [Bluetooth EXCEPT !.air = Tail(@)]
           msg == Head(air)
       IN  \E play \in BOOLEAN :
              Results(IF msg.from = "hfp" THEN OnEvent(w, msg.kind, play)
                      ELSE HandleEvent(w, msg.from, msg.kind))

-----------------------------------------------------------------------------
(* The user *)

StartMusic(w) ==
    IF w.bt.mode = "sink" /\ IsConnected(w) /\ ~IsPlaying(w)
    THEN Play(SpeakOnly(SetTimer(w, "play")))
    ELSE Open(w, "sink")

HandleIntent(w, intent) ==
    CASE intent = "bluetooth_broadcast" -> Open(w, "sink")
      [] intent = "connect_speaker" -> Open(w, "source")
      [] intent = "bluetooth_disconnect" -> Close(w)
      [] intent = "disconnect_devices" -> Disconnect(w)
      [] intent = "bluetooth_start_bluetooth_music" -> StartMusic(w)
      [] intent = "resume" -> Play(w)
      [] intent = "stop" -> PausePlayer(w)
      [] intent = "call_answer" -> IF GetCallState(w) = "INCOMING" THEN AnswerCall(w) ELSE w
      [] intent = "hang_up" -> Hangup(w)
      [] intent = "call_number" -> IF w.phone.conn THEN Dial(w) ELSE Speak(w)

\* onRequest, onUrl
BluetoothRequest(intent) ==
    /\ HasRoom /\ intent # btApp.lastIntent
    /\ Results(HandleIntent(CancelTimer([Bluetooth EXCEPT !.app.lastIntent = intent]), intent))

\* The power key, while it is the app's.
OnKeyEvent ==
    /\ HasRoom /\ btShown.key /\ btShown.front
    /\ GetCallState(Bluetooth) # "IDLE"
    /\ Results(IF GetCallState(Bluetooth) = "INCOMING"
               THEN AnswerCall([Bluetooth EXCEPT !.shown.ringtone = FALSE]) ELSE Hangup(Bluetooth))

OnQuiteBack ==
    /\ "quiet" \in BtOps /\ HasRoom /\ (IsPlaying(Bluetooth) \/ GetCallState(Bluetooth) # "IDLE")
    /\ Results(PauseMusic(IF GetCallState(Bluetooth) # "IDLE" THEN Hangup(Bluetooth)
                          ELSE Bluetooth))

OnQuiteFront ==
    /\ "quiet" \in BtOps /\ HasRoom /\ btApp.needResume
    /\ Results(ResumeMusic(Bluetooth))

TimerOver ==
    /\ HasRoom /\ btApp.timer # "none"
    /\ LET w == CancelTimer(Bluetooth)
       IN  Results(CASE btApp.timer = "play" /\ IsConnected(w) /\ ~IsPlaying(w) -> Speak(w)
                     [] btApp.timer = "connect" /\ ~IsConnected(w) -> Speak(w)
                     [] OTHER -> w)

-----------------------------------------------------------------------------
(* The runtime *)

\* setForeground, setBackground, startMonologue and preventDefaults,
\* restoreDefaults and stopMonologue
RuntimeAnswers ==
    /\ btCalls.asked # <<>>
    /\ LET what == Head(btCalls.asked)
           w == [Bluetooth EXCEPT !.calls.asked = Tail(@)]
           shown == [w EXCEPT !.shown.front = TRUE, !.shown.covered = FALSE]
           told(x, event) == [x EXCEPT !.calls.told = Append(@, event)]
       IN  Results(CASE what \in {"music", "wait"} -> shown
                     [] what = "call" -> told(shown, "called")
                     [] what = "speak" -> told(shown, "spoken")
                     [] what = "back" /\ btShown.front ->
                            told([w EXCEPT !.shown.front = FALSE, !.shown.covered = FALSE,
                                           !.shown.monologue = FALSE], "background")
                     [] what = "back" /\ ~btShown.front -> w
                     [] what = "start" ->
                            [w EXCEPT !.shown.monologue = btShown.front, !.shown.key = TRUE]
                     [] what = "end" -> [w EXCEPT !.shown.monologue = FALSE, !.shown.key = FALSE])

\* Another app gets over this one, or leaves again.
Covers ==
    /\ "cover" \in BtOps /\ HasRoom /\ btShown.front /\ ~btShown.monologue
    /\ LET event == IF btShown.covered THEN "resume" ELSE "pause"
       IN  Results([Bluetooth EXCEPT !.shown.covered = ~@, !.calls.told = Append(@, event)])

\* A scene takes its place.
Evicts ==
    /\ "cover" \in BtOps /\ HasRoom /\ btShown.front /\ ~btShown.monologue
    /\ Results([Bluetooth EXCEPT !.shown.front = FALSE, !.shown.covered = FALSE,
                                 !.calls.told = Append(@, "background")])

OnBackground(w) ==
    IF w.app.skill = "bluetooth" THEN w
    ELSE LET gone == IF IsConnected(w)
                     THEN Disconnect([w EXCEPT !.app.lastIntent = "implicit_disconnect"]) ELSE w
         IN  [SetAppType(gone, "bluetooth") EXCEPT !.app.callState = "IDLE"]

AfterSpeak(w) == IF w.app.skill = "bluetooth" THEN Ask(w, "back") ELSE w

AppIsTold ==
    /\ btCalls.told # <<>>
    /\ LET w == [Bluetooth EXCEPT !.calls.told = Tail(@)]
           what == Head(btCalls.told)
           music == btApp.skill = "bluetooth_music"
       IN  Results(CASE what = "pause" -> IF music THEN PauseMusic(w) ELSE w
                     [] what = "resume" -> IF music THEN ResumeMusic(w) ELSE w
                     [] what = "background" -> OnBackground(w)
                     [] what = "called" -> Ask(w, "start")
                     [] what = "spoken" -> AfterSpeak(w))

-----------------------------------------------------------------------------
(* The phone *)

PhoneConnects ==
    /\ HasRoom /\ phone.mode # "off" /\ ~phone.conn
    /\ Results([Report(Bluetooth, phone.mode, "connected") EXCEPT !.phone.conn = TRUE])

PhoneLeaves == HasRoom /\ phone.conn /\ Results(Lost(Bluetooth))

PhonePlays(play) ==
    /\ "music" \in BtOps /\ HasRoom /\ phone.mode = "sink" /\ phone.conn /\ phone.play # play
    /\ phone.call = "none"
    /\ Results([Report(Bluetooth, "sink", IF play THEN "played" ELSE "stopped")
                   EXCEPT !.phone.play = play])

Calling == "call" \in BtOps /\ HasRoom /\ phone.mode = "sink" /\ phone.conn

PhoneCalls(next) ==
    /\ Calling
    /\ next = "alerting" => "alerting" \in BtOps
    /\ <<phone.call, next>> \in {<<"none", "incoming">>, <<"none", "outgoing">>,
                                 <<"incoming", "active">>, <<"outgoing", "alerting">>,
                                 <<"alerting", "active">>, <<"incoming", "none">>,
                                 <<"outgoing", "active">>, <<"outgoing", "none">>,
                                 <<"alerting", "none">>, <<"active", "none">>}
    /\ Results([Report(Bluetooth, "hfp", next) EXCEPT !.phone.call = next])

PhoneRings ==
    /\ Calling /\ phone.call = "incoming" /\ ~btShown.ringtone
    /\ Results(Report(Bluetooth, "hfp", "ring"))

BluetoothNext ==
    \/ ReceiveMessage \/ RuntimeAnswers \/ AppIsTold \/ TimerOver
    \/ \E intent \in BluetoothIntents : BluetoothRequest(intent)
    \/ OnKeyEvent \/ OnQuiteBack \/ OnQuiteFront \/ Covers \/ Evicts
    \/ PhoneConnects \/ PhoneLeaves \/ PhoneRings
    \/ \E play \in BOOLEAN : PhonePlays(play)
    \/ \E next \in Setups : PhoneCalls(next)

BluetoothSpec == BluetoothInit /\ [][BluetoothNext]_btVars

BluetoothFairness ==
    /\ WF_btVars(ReceiveMessage) /\ WF_btVars(RuntimeAnswers)
    /\ WF_btVars(AppIsTold) /\ WF_btVars(TimerOver)

-----------------------------------------------------------------------------
(* Properties *)

BtSettled == air = <<>> /\ btCalls.asked = <<>> /\ btCalls.told = <<>>

\* When a call is over, however it ended (by either side, with the phone, by
\* another app), the device is as before: the power key is nobody's, other
\* apps get through, no ringtone, no light of a call.
CallGivesBack ==
    BtSettled /\ btApp.callState = "IDLE"
        => /\ ~btShown.key /\ ~btShown.monologue /\ ~btShown.ringtone
           /\ btShown.lights \subseteq {"discovery"}

\* The app never believes in a call, or in music, of a phone that is gone.
AppFollowsPhone ==
    BtSettled /\ ~phone.conn => btApp.callState = "IDLE" /\ btApp.skill = "bluetooth"

\* A call is not dropped from the app while it goes on.
CallIsShown == BtSettled /\ phone.call # "none" => btApp.callState # "IDLE"

\* The app knows that a call is on when it is asked to end it.
CallIsKnown == BtSettled /\ btApp.callState = "OFFHOOK" => GetCallState(Bluetooth) = "OFFHOOK"

\* The ringtone is not played into a call.
NoRingtoneInCall == BtSettled /\ btShown.ringtone => btApp.callState = "INCOMING"

\* The light of an open radio says that it may be found.
LightMeansDiscoverable ==
    BtSettled /\ "discovery" \in btShown.lights => phone.mode # "off" /\ ~phone.conn

\* What had nothing to say but a sentence leaves the front when it was said.
SentenceLeaves == [](btShown.front /\ btApp.skill = "bluetooth" /\ btApp.timer = "none"
                        /\ "speak" \in {btCalls.asked[i] : i \in DOMAIN btCalls.asked}
                        => <>(~btShown.front \/ btApp.skill # "bluetooth"))

\* Calls, music and what is shown of them follow the phone, and what a call
\* interrupts is given back.
BluetoothInv ==
    /\ BluetoothTypeOK
    /\ CallIsShown /\ LightMeansDiscoverable
    /\ CallGivesBack /\ AppFollowsPhone /\ NoRingtoneInCall
=============================================================================
