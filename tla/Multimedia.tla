----------------------------- MODULE Multimedia -----------------------------
(***************************************************************************)
(* multimediad (runtime/services/multimediad): the players of apps, from   *)
(* the call of an app through its descriptor                               *)
(* (runtime/lib/descriptor/multimedia-descriptor.js) to the event that     *)
(* ends the player there.  What the bus carries of a player arrives in     *)
(* order; a listener hears one player, so the order of several is left out.*)
(*                                                                         *)
(* The engine below MediaPlayer.cc is external: its threads queue events   *)
(* for the loop, so an event may be delivered to a player that was         *)
(* stopped after it was queued; a stopped engine neither starts nor        *)
(* resumes.  Positions, modes, speed and the sounds of a slow network are  *)
(* left out.                                                               *)
(***************************************************************************)
EXTENDS Naturals, Sequences, FiniteSets

CONSTANTS
    MediaApps,  \* apps that play
    MaxPlayers, \* bound: players created
    MediaOps    \* multiple, reset: options and calls that are considered

Nobody == "nobody"

ASSUME MediaAssumption ==
    /\ Nobody \notin MediaApps
    /\ MaxPlayers \in Nat
    /\ MediaOps \subseteq {"multiple", "reset"}

VARIABLES
    player,        \* the MediaPlayer, its native half and who awaits it
    handle,        \* the Manager's players of each app, in the order they were created
    pending,       \* events queued by the engine, by player
    bus,           \* from multimediad to the runtime, by player
    media          \* the playing state, and what the voice session has paused

mediaVars == <<player, handle, pending, bus, media>>

Players == 1 .. MaxPlayers
Ends == {"playbackcomplete", "cancel", "error"}

PlayerState ==
    [owner : MediaApps \cup {Nobody},
     status : {"idle", "preparing", "prepared"},
     engine : {"idle", "ready", "playing", "paused", "ended", "stopped"},
     starts : BOOLEAN, resumes : BOOLEAN,  \* once it is prepared
     ignoreCancel : BOOLEAN,
     listened : {"not yet", "yes", "no more"},  \* by the descriptor
     ends : 0 .. 2]      \* events of its end sent, 2 for more than one

MediaTypeOK ==
    /\ player \in [Players -> PlayerState]
    /\ handle \in [MediaApps -> SUBSET Players]
    /\ pending \in [Players -> Seq({"prepared", "playbackcomplete", "error"})]
    /\ bus \in [Players -> Seq(Ends \cup {"reply"})]
    /\ media \in [playing : BOOLEAN, pausedOnAwaken : MediaApps \cup {Nobody}]

NoPlayer ==
    [owner |-> Nobody, status |-> "idle", engine |-> "idle", starts |-> FALSE,
     resumes |-> FALSE, ignoreCancel |-> FALSE, listened |-> "not yet", ends |-> 0]

MediaInit ==
    /\ player = [p \in Players |-> NoPlayer]
    /\ handle = [a \in MediaApps |-> {}]
    /\ pending = [p \in Players |-> <<>>]
    /\ bus = [p \in Players |-> <<>>]
    /\ media = [playing |-> FALSE, pausedOnAwaken |-> Nobody]

-----------------------------------------------------------------------------
(* Players *)

OneMore(n) == IF n = 0 THEN 1 ELSE 2

\* (slip: a player that was not yet prepared is not told of its end)
CancelsOfPrepared(s) == {p \in s : player[p].status = "prepared"}

\* Of the players s that are stopped those that emit cancel.
Cancels(s) == {p \in s : ~player[p].ignoreCancel}

\* The players when those of s are stopped, and the signals of it.
StopAll(s) ==
    [p \in Players |->
        IF p \in s
        THEN [player[p] EXCEPT !.engine = "stopped", !.starts = FALSE, !.resumes = FALSE,
                !.ends = IF p \in Cancels(s) THEN OneMore(@) ELSE @]
        ELSE player[p]]

Signals(s) == [p \in Players |-> IF p \in Cancels(s) THEN Append(bus[p], "cancel") ELSE bus[p]]

StillPlaying(s) == media.playing /\ Cancels(s) = {}

NextPlayer ==
    {p \in Players : player[p].owner = Nobody /\ \A q \in 1 .. p - 1 : player[q].owner # Nobody}

CurrentlyPlaying == {a \in MediaApps : \E p \in handle[a] : player[p].engine = "playing"}

-----------------------------------------------------------------------------
(* Calls of apps *)

\* prepare, and start, which starts the player once it is prepared.
Prepare(a, multiple, start) ==
    LET old == IF multiple THEN {} ELSE handle[a]
    IN  \E p \in NextPlayer :
           /\ multiple => "multiple" \in MediaOps
           /\ player' = [StopAll(old) EXCEPT ![p] = [NoPlayer EXCEPT !.owner = a,
                                                       !.status = "preparing", !.starts = start]]
           /\ handle' = [handle EXCEPT ![a] = IF multiple THEN @ \cup {p} ELSE {p}]
           /\ bus' = [Signals(old) EXCEPT ![p] = Append(@, "reply")]
           /\ media' = [media EXCEPT !.playing = StillPlaying(old)]
           /\ UNCHANGED pending

\* The list is shortened while it is run through, so that every second player
\* is passed over.
Reached(s) == {p \in s : Cardinality({q \in s : q < p}) % 2 = 0}
PassedOver(s) == s \ Reached(s)

StopPlayers(a, s) ==
    /\ player' = StopAll(s)
    /\ handle' = [handle EXCEPT ![a] = @ \ s]
    /\ bus' = Signals(s)
    /\ media' = [media EXCEPT !.playing = StillPlaying(s)]
    /\ UNCHANGED pending

Stop(a) == handle[a] # {} /\ StopPlayers(a, Reached(handle[a]))

StopOne(a, p) == p \in handle[a] /\ StopPlayers(a, {p})

\* Native pause throws before the engine is prepared.
Pausable(p) == player[p].engine \notin {"idle"}

Paused(s) ==
    [p \in Players |->
        IF p \in s /\ player[p].engine = "playing"
        THEN [player[p] EXCEPT !.engine = "paused"] ELSE player[p]]

PausePlayers(s) ==
    /\ player' = Paused(s)
    /\ media' = [media EXCEPT !.playing = @ /\ \A p \in s : ~Pausable(p)]

Pause(a) ==
    /\ PausePlayers(handle[a])
    /\ UNCHANGED <<handle, pending, bus>>

PauseOne(a, p) ==
    /\ p \in handle[a]
    /\ PausePlayers({p})
    /\ UNCHANGED <<handle, pending, bus>>

\* One that is prepared and was not started is told to resume as well.
Resumed(s) ==
    [p \in Players |->
        IF p \notin s THEN player[p]
        ELSE IF player[p].status = "preparing" THEN [player[p] EXCEPT !.resumes = TRUE]
        ELSE IF player[p].engine \in {"ready", "paused"}
             THEN [player[p] EXCEPT !.engine = "playing"]
        ELSE player[p]]

ResumePlayers(s) ==
    /\ player' = Resumed(s)
    /\ media' = [media EXCEPT !.playing = @ \/ \E p \in s : player[p].engine # "playing"]

Resume(a) ==
    /\ handle[a] # {}
    /\ ResumePlayers(handle[a])
    /\ UNCHANGED <<handle, pending, bus>>

\* The players stay in the table.
ResetPlayers ==
    LET s == UNION {handle[a] : a \in MediaApps}
    IN  /\ "reset" \in MediaOps /\ \A p \in Players : bus[p] = <<>>  \* bound
        /\ player' = StopAll(s)
        /\ bus' = Signals(s)
        /\ media' = [media EXCEPT !.playing = FALSE]
        /\ UNCHANGED <<handle, pending>>

-----------------------------------------------------------------------------
(* The voice session *)

\* 'rokid.turen.voice_coming' with a network; of several apps one is paused.
VoicePauses ==
    /\ CurrentlyPlaying # {} \/ media.pausedOnAwaken = Nobody
    /\ IF CurrentlyPlaying = {}
       THEN media' = [media EXCEPT !.pausedOnAwaken = Nobody] /\ player' = player
       ELSE \E a \in CurrentlyPlaying :
              /\ player' = Paused(handle[a])
              /\ media' = [playing |-> FALSE, pausedOnAwaken |-> a]
    /\ UNCHANGED <<handle, pending, bus>>

\* resetAwaken is called for the app that is in front.
ResetAwakenMedia(a) ==
    /\ media.pausedOnAwaken # Nobody
    /\ LET s == IF a = media.pausedOnAwaken THEN handle[a] ELSE {}
       IN  /\ player' = Resumed(s)
           /\ media' = [playing |-> media.playing \/ \E p \in s : player[p].engine # "playing",
                        pausedOnAwaken |-> Nobody]
    /\ UNCHANGED <<handle, pending, bus>>

-----------------------------------------------------------------------------
(* Events *)

EngineEvent(p, event) ==
    LET e == player[p].engine
    IN  /\ \/ event = "prepared" /\ e = "idle" /\ player[p].status = "preparing"
           \/ event = "error" /\ (e \in {"ready", "playing", "paused"}
                                    \/ (e = "idle" /\ player[p].status = "preparing"))
           \/ event = "playbackcomplete" /\ e = "playing"
        /\ player' = [player EXCEPT ![p].engine = IF event = "prepared" THEN "ready" ELSE "ended"]
        /\ pending' = [pending EXCEPT ![p] = Append(@, event)]
        /\ UNCHANGED <<handle, bus, media>>

OnPrepared(p) ==
    /\ pending[p] # <<>> /\ Head(pending[p]) = "prepared"
    /\ pending' = [pending EXCEPT ![p] = Tail(@)]
    /\ player' = [player EXCEPT ![p].status = "prepared",
                    ![p].starts = FALSE, ![p].resumes = FALSE,
                    ![p].engine = IF @ = "ready" /\ (player[p].starts \/ player[p].resumes)
                                  THEN "playing" ELSE @]
    /\ media' = [media EXCEPT !.playing = TRUE]
    /\ UNCHANGED <<handle, bus>>

\* 'playbackcomplete', 'error'
OnEnd(p) ==
    /\ pending[p] # <<>> /\ Head(pending[p]) # "prepared"
    /\ pending' = [pending EXCEPT ![p] = Tail(@)]
    /\ player' = [player EXCEPT ![p].engine = "stopped", ![p].ignoreCancel = TRUE,
                                ![p].starts = FALSE, ![p].resumes = FALSE,
                                ![p].ends = OneMore(@)]
    /\ handle' = [handle EXCEPT ![player[p].owner] = @ \ {p}]
    /\ bus' = [bus EXCEPT ![p] = Append(@, Head(pending[p]))]
    /\ media' = [media EXCEPT !.playing = FALSE]

\* The descriptor listens from the reply to the first event of the end, when
\* it settles the promise of start.
Receive(p) ==
    /\ bus[p] # <<>>
    /\ bus' = [bus EXCEPT ![p] = Tail(@)]
    /\ player' = [player EXCEPT ![p].listened =
                    IF Head(bus[p]) = "reply" THEN "yes"
                    ELSE IF @ = "yes" THEN "no more" ELSE @]
    /\ UNCHANGED <<handle, pending, media>>

MediaNext ==
    \/ \E a \in MediaApps :
         \/ \E multiple, start \in BOOLEAN : Prepare(a, multiple, start)
         \/ Stop(a) \/ Pause(a) \/ Resume(a) \/ ResetAwakenMedia(a)
         \/ \E p \in Players : StopOne(a, p) \/ PauseOne(a, p)
    \/ ResetPlayers \/ VoicePauses
    \/ \E p \in Players :
         \/ OnPrepared(p) \/ OnEnd(p) \/ Receive(p)
         \/ \E event \in {"prepared", "playbackcomplete", "error"} : EngineEvent(p, event)

MediaSpec == MediaInit /\ [][MediaNext]_mediaVars

-----------------------------------------------------------------------------
(* Properties *)

\* Whatever plays can be stopped by its app: no player is replaced, deleted or
\* started late while its engine goes on.
NoOrphanPlayer ==
    \A p \in Players : player[p].engine = "playing" => p \in handle[player[p].owner]

\* A player that the service has let go of was told its end, and the app that
\* waits for it hears of it: its promise is settled, its listener removed.
LeftIsTold ==
    \A p \in Players :
       player[p].owner # Nobody /\ p \notin handle[player[p].owner] =>
         \/ player[p].listened = "no more"
         \/ \E n \in DOMAIN bus[p] : bus[p][n] \in Ends

\* "because only one event can be emit"
OneEnd == \A p \in Players : player[p].ends <= 1

\* Players are neither lost nor left silently when apps replace them.
MediaInv == MediaTypeOK /\ NoOrphanPlayer /\ LeftIsTold
=============================================================================
