-------------------------------- MODULE Ttsd --------------------------------
(***************************************************************************)
(* The speech service (runtime/services/ttsd): the requests of apps, their *)
(* pause and resumption when the device is spoken to, and the events the   *)
(* apps hear.  The synthesizer (packages/@yoda/tts and its native client)  *)
(* is external: it speaks requests in the order of their ids, cancels what *)
(* it is asked to, and posts its events to the loop of the service, which  *)
(* handles them one by one later.                                          *)
(*                                                                         *)
(* A resumed request is a new one for the synthesizer, which masquerades   *)
(* the id its app knows.  The text of a request is left out.               *)
(***************************************************************************)
EXTENDS Naturals, Sequences

CONSTANTS
    Apps,
    Nobody,       \* the empty app id turen sends when no app is in front
    MaxRequests,  \* bound: requests to one connection of the synthesizer
    MaxSessions,  \* bound: connections, one for each change of credentials
    Controls,     \* who drives the service besides apps
    NoReq,        \* undefined or null request id
    NoMemo        \* undefined memo

ASSUME TtsdAssumption ==
    /\ Nobody \notin Apps
    /\ MaxRequests \in Nat /\ MaxSessions \in Nat
    /\ Controls \subseteq {"voice", "os", "reset"}
    /\ NoReq \notin Nat

VARIABLES
    requestMemo,          \* per request id, as the synthesizer numbers them
    appRequestMemo,       \* per app, the id of its request
    playingReqId,
    pausedReqIdOnAwaken,
    playingState,         \* AudioManager's playing state of tts
    engine,               \* the synthesizer
    posted,               \* its events on their way to the service
    delayed,              \* terminations held back by their timers
    told                  \* what the service told each app of each request

vars == <<requestMemo, appRequestMemo, playingReqId, pausedReqIdOnAwaken,
          playingState, engine, posted, delayed, told>>

Ids == 0 .. MaxRequests - 1
IdOrNone == Ids \cup {NoReq}
Terminations == {"end", "cancel", "error"}

Memo == [app : Apps,
         session : 1 .. MaxSessions,  \* the connection req belongs to
         started : BOOLEAN,           \* staredAt
         eventMasked : BOOLEAN,
         masqueradeId : IdOrNone]

ASSUME NoMemoAssumption == NoMemo \notin Memo

Engine == [session : 0 .. MaxSessions,   \* 0: nativeWrap is undefined
           next : 0 .. MaxRequests,
           waiting : SUBSET Ids,
           speaking : IdOrNone,
           stopping : SUBSET Ids]        \* asked to cancel

Posted == [event : {"start"} \cup Terminations, id : Ids]

Termination == [event : Terminations, app : Apps, name : Ids,
                id : Ids, session : 0 .. MaxSessions, started : BOOLEAN]

TypeOK ==
    /\ requestMemo \in [Ids -> Memo \cup {NoMemo}]
    /\ appRequestMemo \in [Apps -> IdOrNone]
    /\ playingReqId \in IdOrNone
    /\ pausedReqIdOnAwaken \in IdOrNone
    /\ playingState \in BOOLEAN
    /\ engine \in Engine
    /\ posted \in Seq(Posted)
    /\ delayed \subseteq Termination
    /\ told \in [Apps -> [Ids -> SUBSET ({"asked", "start"} \cup Terminations)]]

Init ==
    /\ requestMemo = [id \in Ids |-> NoMemo]
    /\ appRequestMemo = [a \in Apps |-> NoReq]
    /\ playingReqId = NoReq
    /\ pausedReqIdOnAwaken = NoReq
    /\ playingState = FALSE
    /\ engine = [session |-> 0, next |-> 0, waiting |-> {},
                 speaking |-> NoReq, stopping |-> {}]
    /\ posted = <<>>
    /\ delayed = {}
    /\ told = [a \in Apps |-> [id \in Ids |-> {}]]

-----------------------------------------------------------------------------
(* The synthesizer *)

Unfinished == engine.waiting \cup ({engine.speaking} \ {NoReq})

Post(event, id) == posted' = Append(posted, [event |-> event, id |-> id])

ServiceVars == <<requestMemo, appRequestMemo, playingReqId,
                 pausedReqIdOnAwaken, playingState, delayed, told>>

EngineStarts(id) ==
    /\ engine.speaking = NoReq
    /\ id \in engine.waiting
    /\ \A other \in engine.waiting : id <= other
    /\ engine' = [engine EXCEPT !.waiting = @ \ {id}, !.speaking = id]
    /\ Post("start", id)
    /\ UNCHANGED ServiceVars

Removed(id) ==
    [engine EXCEPT !.waiting = @ \ {id},
                   !.speaking = IF @ = id THEN NoReq ELSE @,
                   !.stopping = @ \ {id}]

\* What was spoken ends, what is spoken or next may fail, what was asked to
\* stop is cancelled unless it ends or fails first.
EngineFinishes(id, event) ==
    /\ id \in Unfinished
    /\ \/ event = "end" /\ id = engine.speaking
       \/ event = "error" /\ engine.speaking \in {id, NoReq}
       \/ event = "cancel" /\ id \in engine.stopping
    /\ engine' = Removed(id)
    /\ Post(event, id)
    /\ UNCHANGED ServiceVars

EngineNext == \E id \in Ids : \/ EngineStarts(id)
                              \/ \E event \in Terminations : EngineFinishes(id, event)

-----------------------------------------------------------------------------
(* Operations.  Each is what one method does to the memos and the engine. *)

\* The request of app a that the service still follows.
LiveMemo(a) ==
    IF appRequestMemo[a] = NoReq THEN NoMemo ELSE requestMemo[appRequestMemo[a]]

\* req.stop() reaches the engine through the connection req was made on.
Stopped(ids) ==
    [engine EXCEPT !.stopping =
        @ \cup {id \in ids : /\ id \in Unfinished
                             /\ requestMemo[id].session = engine.session}]

Requested(e, id) ==
    [e EXCEPT !.next = @ + 1, !.waiting = @ \cup {id}]

CanRequest == engine.session > 0 /\ engine.next < MaxRequests

MemoFor(a, masqueradeId) ==
    [app |-> a, session |-> engine.session, started |-> FALSE,
     eventMasked |-> FALSE, masqueradeId |-> masqueradeId]

Tell(a, id, event) == [told EXCEPT ![a][id] = @ \cup {event}]

\* (slip: without waiting for the synthesizer)
CancelToldAtOnce(a) ==
    IF appRequestMemo[a] # NoReq THEN Tell(a, appRequestMemo[a], "cancel") ELSE told

\* What an app is told when it takes leave of a request that is over or paused.
CancelTold(a) ==
    IF appRequestMemo[a] # NoReq /\ LiveMemo(a) = NoMemo
    THEN Tell(a, appRequestMemo[a], "cancel")
    ELSE told

StoppedOf(a) == IF LiveMemo(a) = NoMemo THEN engine ELSE Stopped({appRequestMemo[a]})

Speak(a) ==
    LET id == engine.next
    IN  /\ CanRequest
        /\ engine' = Requested(StoppedOf(a), id)
        /\ requestMemo' = [requestMemo EXCEPT ![id] = MemoFor(a, NoReq)]
        /\ appRequestMemo' = [appRequestMemo EXCEPT ![a] = id]
        /\ told' = [CancelTold(a) EXCEPT ![a][id] = {"asked"}]
        /\ UNCHANGED <<playingReqId, pausedReqIdOnAwaken, playingState, posted, delayed>>

\* The entry of an app that is told of the cancel at once stays.
Stop(a) ==
    /\ appRequestMemo[a] # NoReq
    /\ engine' = StoppedOf(a)
    /\ appRequestMemo' = [appRequestMemo EXCEPT
                            ![a] = IF LiveMemo(a) = NoMemo THEN @ ELSE NoReq]
    /\ told' = CancelTold(a)
    /\ UNCHANGED <<requestMemo, playingReqId, pausedReqIdOnAwaken,
                   playingState, posted, delayed>>

\* (slip: also where there is no masquerade)
KnownAsMasqueraded(id) == requestMemo[id].masqueradeId

\* The id by which the app knows the request, the one it was first given.
KnownAs(id) ==
    IF requestMemo[id].masqueradeId # NoReq THEN requestMemo[id].masqueradeId ELSE id

Pause(a) ==
    IF LiveMemo(a) = NoMemo
    THEN UNCHANGED <<requestMemo, appRequestMemo, engine>>
    ELSE LET id == appRequestMemo[a]
         IN  /\ requestMemo' = [requestMemo EXCEPT ![id].eventMasked = TRUE]
             /\ appRequestMemo' = [appRequestMemo EXCEPT ![a] = KnownAs(id)]
             /\ engine' = Stopped({id})

Masquerade(a) ==
    LET id == engine.next
    IN  /\ CanRequest
        /\ requestMemo' = [requestMemo EXCEPT ![id] = MemoFor(a, appRequestMemo[a])]
        /\ appRequestMemo' = [appRequestMemo EXCEPT ![a] = id]
        /\ engine' = Requested(engine, id)

\* (slip: also while the app has an active request)
ResumeAnyway(a) ==
    IF appRequestMemo[a] = NoReq
    THEN UNCHANGED <<requestMemo, appRequestMemo, engine>>
    ELSE Masquerade(a)

Resume(a) ==
    IF appRequestMemo[a] = NoReq \/ LiveMemo(a) # NoMemo
    THEN UNCHANGED <<requestMemo, appRequestMemo, engine>>
    ELSE Masquerade(a)

PauseByOs(a) ==
    /\ "os" \in Controls
    /\ Pause(a)
    /\ UNCHANGED <<playingReqId, pausedReqIdOnAwaken, playingState, posted, delayed, told>>

ResumeByOs(a) ==
    /\ "os" \in Controls
    /\ Resume(a)
    /\ UNCHANGED <<playingReqId, pausedReqIdOnAwaken, playingState, posted, delayed, told>>

Reset ==
    /\ "reset" \in Controls
    /\ engine' = Stopped({id \in Ids : requestMemo[id] # NoMemo})
    /\ requestMemo' = [id \in Ids |-> NoMemo]
    /\ appRequestMemo' = [a \in Apps |-> NoReq]
    /\ UNCHANGED <<playingReqId, pausedReqIdOnAwaken, playingState, posted, delayed, told>>

\* The device is spoken to: what is playing is paused.
VoiceComing ==
    /\ "voice" \in Controls
    /\ playingReqId # NoReq \/ pausedReqIdOnAwaken = NoReq
    /\ pausedReqIdOnAwaken' = playingReqId
    /\ IF playingReqId = NoReq \/ requestMemo[playingReqId] = NoMemo
       THEN UNCHANGED <<requestMemo, appRequestMemo, engine>>
       ELSE Pause(requestMemo[playingReqId].app)
    /\ UNCHANGED <<playingReqId, playingState, posted, delayed, told>>

\* The session is over: app a is in front now and goes on if it is the one
\* that was interrupted.
Interrupted(a) ==
    /\ a \in Apps
    /\ appRequestMemo[a] # NoReq
    /\ appRequestMemo[a] = pausedReqIdOnAwaken

ResetAwaken(a) ==
    /\ "voice" \in Controls
    /\ pausedReqIdOnAwaken' = NoReq
    /\ IF Interrupted(a)
       THEN Resume(a)
       ELSE UNCHANGED <<requestMemo, appRequestMemo, engine>>
    /\ UNCHANGED <<playingReqId, playingState, posted, delayed, told>>

\* A log-in with other credentials; one with the same reconnects, which shows
\* in what the engine does next and nowhere else.  Requests of a new
\* connection are numbered from 0, events of the old one are lost.
Connect ==
    /\ engine.session < MaxSessions
    /\ engine' = [session |-> engine.session + 1, next |-> 0, waiting |-> {},
                  speaking |-> NoReq, stopping |-> {}]
    /\ posted' = <<>>
    /\ UNCHANGED ServiceVars

-----------------------------------------------------------------------------
(* Events of the synthesizer and timers *)

OnStart ==
    /\ posted # <<>> /\ Head(posted).event = "start"
    /\ LET id == Head(posted).id
           memo == requestMemo[id]
       IN  /\ playingReqId' = id
           /\ requestMemo' = IF memo = NoMemo
                             THEN requestMemo
                             ELSE [requestMemo EXCEPT ![id].started = TRUE]
           /\ told' = IF memo = NoMemo \/ memo.eventMasked \/ memo.masqueradeId # NoReq
                      THEN told
                      ELSE Tell(memo.app, id, "start")
    /\ playingState' = TRUE
    /\ posted' = Tail(posted)
    /\ UNCHANGED <<appRequestMemo, pausedReqIdOnAwaken, engine, delayed>>

\* (slip: whatever ended)
NothingPlays(id) == NoReq

PlayingWithout(id) == IF playingReqId = id THEN NoReq ELSE playingReqId

HeldOf(id, event) ==
    {[event |-> event, app |-> requestMemo[id].app, name |-> KnownAs(id), id |-> id,
      session |-> requestMemo[id].session, started |-> requestMemo[id].started]}

\* (slip: what never started is not reported)
HeldIfStarted(id, event) ==
    IF requestMemo[id] = NoMemo \/ requestMemo[id].eventMasked \/ ~requestMemo[id].started
    THEN {}
    ELSE HeldOf(id, event)

\* The event onTtsTermination leaves to a timer.
Held(id, event) ==
    IF requestMemo[id] = NoMemo \/ requestMemo[id].eventMasked
    THEN {}
    ELSE HeldOf(id, event)

OnTtsTermination ==
    /\ posted # <<>> /\ Head(posted).event \in Terminations
    /\ LET id == Head(posted).id
       IN  /\ playingReqId' = PlayingWithout(id)
           /\ requestMemo' = [requestMemo EXCEPT ![id] = NoMemo]
           /\ delayed' = delayed \cup Held(id, Head(posted).event)
    /\ playingState' = FALSE
    /\ posted' = Tail(posted)
    /\ UNCHANGED <<appRequestMemo, pausedReqIdOnAwaken, engine, told>>

\* A termination is held back until 2 s after the start of its request, so
\* those of requests that started come in the order of the starts.
DueAfter(t, u) == \/ u.session < t.session
                  \/ u.session = t.session /\ u.id < t.id

TimerFires(t) ==
    /\ t \in delayed
    /\ t.started => \A u \in delayed : u.started => ~DueAfter(t, u)
    /\ delayed' = delayed \ {t}
    /\ told' = Tell(t.app, t.name, t.event)
    /\ UNCHANGED <<requestMemo, appRequestMemo, playingReqId, pausedReqIdOnAwaken,
                   playingState, engine, posted>>

ServiceNext == OnStart \/ OnTtsTermination \/ \E t \in delayed : TimerFires(t)

Next ==
    \/ \E a \in Apps : Speak(a) \/ Stop(a) \/ PauseByOs(a) \/ ResumeByOs(a)
    \/ Reset
    \/ VoiceComing
    \/ \E a \in Apps \cup {Nobody} : ResetAwaken(a)
    \/ Connect
    \/ EngineNext
    \/ ServiceNext

Spec == Init /\ [][Next]_vars

\* The synthesizer works on, the event loop handles what is posted, timers
\* fire; apps and the voice session need not do anything.
LiveSpec ==
    /\ Spec
    /\ WF_vars(EngineNext)
    /\ WF_vars(OnStart) /\ WF_vars(OnTtsTermination)
    /\ WF_vars(\E t \in delayed : TimerFires(t))

-----------------------------------------------------------------------------
(* Properties *)

\* Whatever the synthesizer goes on speaking can still be stopped: a request
\* that was not told to stop is the one its app's entry leads to, on the
\* connection in use.  In particular an app has one voice: speak stops what
\* came before, resume makes no second request, reset leaves nothing behind.
NoOrphanSpeech ==
    \A id \in Unfinished \ engine.stopping :
        LET memo == requestMemo[id]
        IN  /\ memo # NoMemo
            /\ memo.session = engine.session
            /\ appRequestMemo[memo.app] = id

\* playingReqId, by which voice_coming finds what to pause, lags behind the
\* synthesizer by the posted events only: the cancel of a request that waits
\* does not take the one that is playing for over.
OnItsWay(id, events) ==
    \E i \in 1 .. Len(posted) : posted[i].id = id /\ posted[i].event \in events

PlayingAgrees ==
    /\ playingReqId # NoReq =>
          engine.speaking = playingReqId \/ OnItsWay(playingReqId, Terminations)
    /\ engine.speaking # NoReq =>
          playingReqId = engine.speaking \/ OnItsWay(engine.speaking, {"start"})

\* "delay to 2s to prevent event `end` been received before event `start`":
\* no app hears the start of a request it has heard the termination of.
StartFirst ==
    [][\A a \in Apps, id \in Ids :
          "start" \in told'[a][id] \ told[a][id]
              => told[a][id] \cap Terminations = {}]_vars

\* As long as nobody pauses or resets, every request gets its answer: the
\* promise of speak is settled.
Answered ==
    \A a \in Apps, id \in Ids :
        "asked" \in told[a][id] ~> told[a][id] \cap Terminations # {}

-----------------------------------------------------------------------------
(* What comments, docs and tests of the repository say and the code does   *)
(* not do                                                                  *)

\* A request that is resumed is one its app still waits for.
ResumedIsOpen ==
    \A id \in Unfinished \ engine.stopping :
        LET memo == requestMemo[id]
        IN  memo # NoMemo /\ memo.masqueradeId # NoReq
                => told[memo.app][memo.masqueradeId] \cap Terminations = {}

\* Every request is terminated for its app in one way.
TerminatedOneWay ==
    \A a \in Apps, id \in Ids :
        \A e, f \in told[a][id] \cap Terminations : e = f

\* A request its app was not told the end of is being spoken for it, or its
\* termination is on its way, or it is paused and the app's entry leads to it.
Followed(a, id) ==
    \E n \in Ids : /\ requestMemo[n] # NoMemo
                   /\ requestMemo[n].app = a
                   /\ ~requestMemo[n].eventMasked
                   /\ id = KnownAs(n)

NoForgottenRequest ==
    \A a \in Apps, id \in Ids :
        "asked" \in told[a][id] /\ told[a][id] \cap Terminations = {}
            => \/ Followed(a, id)
               \/ \E t \in delayed : t.app = a /\ t.name = id
               \/ appRequestMemo[a] = id

\* What voice_coming pauses is what resetAwaken will look for.
PausedIsRemembered ==
    [][VoiceComing =>
          \A id \in Ids :
              /\ requestMemo[id] # NoMemo /\ ~requestMemo[id].eventMasked
              /\ requestMemo'[id].eventMasked
              => appRequestMemo'[requestMemo[id].app] = pausedReqIdOnAwaken']_vars

\* When the session ends with the interrupted app in front, the app speaks on.
InterruptedSpeaksOn ==
    [][\A a \in Apps :
          ResetAwaken(a) /\ Interrupted(a)
              => ~requestMemo'[appRequestMemo'[a]].eventMasked]_vars

\* The system is told that speech is playing while it is.
PlayingStateTrue == playingReqId # NoReq => playingState
=============================================================================
