--------------------------- MODULE CloudAppClient ---------------------------
(***************************************************************************)
(* The app that runs the skills of the cloud (apps/cloudappclient): a      *)
(* manager keeps a stack of skills, a skill has a list of directives, and  *)
(* one executor works off lists by chains of callbacks.  A chain takes the *)
(* directive after the one it waits for off the list beforehand, from      *)
(* whatever list the executor was given last.                              *)
(*                                                                         *)
(* Speech, media and the cloud are external: what was begun ends, what was *)
(* stopped is cancelled, questions are answered.  Directives that only     *)
(* pause, resume or stop a player and positions in media are left out.     *)
(***************************************************************************)
EXTENDS Naturals, Sequences, FiniteSets

CONSTANTS
    SkillApps,   \* ids of skills in the cloud
    Scripts,     \* the directives of a request, as transform has sorted them
    MaxRequests, \* bound: requests
    MaxAnswers,  \* bound: answers of the cloud that have directives
    MaxChains,   \* bound: executions at a time
    ClientOps    \* what else happens: exit, error,
                 \* pause, quiet (the device is turned over)

ASSUME ClientAssumption ==
    /\ Scripts \subseteq Seq({"tts", "media", "native"}) \ {<<>>}
    /\ {MaxRequests, MaxAnswers, MaxChains} \subseteq Nat
    /\ ClientOps \subseteq {"exit", "error", "pause", "quiet"}

VARIABLES
    client \* skills, stack, executor, chains, players, app

SkillIds == 1 .. MaxRequests
ChainIds == 1 .. MaxChains
Steps == {"tts", "media", "native"}

SkillRecord ==
    [app : SkillApps, form : {"cut", "scene"}, shouldEndSession : BOOLEAN,
     directives : Seq(Steps), paused : BOOLEAN, task : Nat, hasPlayer : BOOLEAN]

\* stage: what the chain waits for; asked: for the cloud to answer an event.
ChainRecord ==
    [skill : SkillIds, stage : {"tts", "opening", "media", "native", "asked"},
     next : Steps \cup {"exit"}, told : BOOLEAN, canceled : BOOLEAN,
     restarted : BOOLEAN,  \* the chain was begun by 'resume'
     mayResume : BOOLEAN]  \* media goes on after it

Unused == [stage |-> "none"]

ClientTypeOK ==
    /\ DOMAIN client.skill = 1 .. Len(client.skill) /\ Len(client.skill) <= MaxRequests
    /\ \A k \in DOMAIN client.skill : client.skill[k] \in SkillRecord
    /\ client.stack \in Seq(SkillIds)
    /\ client.frontend \in {0} \cup SkillIds
    /\ client.chains \in [ChainIds -> ChainRecord \cup {Unused}]
    /\ client.handle \in [SkillApps -> {0} \cup ChainIds]
    /\ client.tick \in {0} \cup SkillIds
    /\ client.app \in [isAppActive : BOOLEAN, manualPause : BOOLEAN, needResume : BOOLEAN,
                       taskTimer : BOOLEAN, requests : 0 .. MaxRequests,
                       answers : 0 .. MaxAnswers]

ClientInit ==
    client = [skill |-> <<>>, stack |-> <<>>,
              frontend |-> 0,                     \* whose list the executor has
              chains |-> [c \in ChainIds |-> Unused],
              handle |-> [a \in SkillApps |-> 0], \* players, named by their chain
              tick |-> 0,                         \* a skill to be started on the next tick
              app |-> [isAppActive |-> TRUE, manualPause |-> FALSE, needResume |-> FALSE,
                       taskTimer |-> FALSE, requests |-> 0, answers |-> 0]]

-----------------------------------------------------------------------------
(* What becomes of the state s; c is a chain and k a skill. *)

InStack(s, k) == \E i \in DOMAIN s.stack : s.stack[i] = k
CurrentSkill(s) == IF s.stack = <<>> THEN 0 ELSE s.stack[Len(s.stack)]
PopSkill(s) == [s EXCEPT !.stack = IF @ = <<>> THEN @ ELSE SubSeq(@, 1, Len(@) - 1)]
PutSkill(s, k, r) == [s EXCEPT !.skill[k] = r]

OfSkill(s, a) == {k \in DOMAIN s.skill : InStack(s, k) /\ s.skill[k].app = a}

\* A new text replaces the one that is spoken; tts.stop stops it.
Hushed(s) ==
    [s EXCEPT !.chains = [c \in ChainIds |->
        IF s.chains[c].stage = "tts" THEN [s.chains[c] EXCEPT !.told = TRUE] ELSE s.chains[c]]]

Perform(s, c, step) ==
    CASE step = "tts" -> [Hushed(s) EXCEPT !.chains[c].stage = "tts", !.chains[c].told = FALSE]
      [] step = "media" -> [s EXCEPT !.chains[c].stage = "opening", !.chains[c].told = FALSE]
      [] step = "native" -> [s EXCEPT !.chains[c].stage = "native"]

IsFree(s, c) == s.chains[c] = Unused /\ \A a \in SkillApps : s.handle[a] # c
FreeChains(s) == {c \in ChainIds : IsFree(s, c)}

\* this[type].shift(): what is taken off a list beforehand, and what remains.
Ahead(list) == IF list = <<>> THEN "exit" ELSE Head(list)
Remain(list) == IF list = <<>> THEN <<>> ELSE Tail(list)

HasMedia(list) == \E i \in DOMAIN list : list[i] = "media"

\* An empty list has no chain and no end, but its task is counted.
ExecuteDirectives(s, k, restarted) ==
    LET list == s.skill[k].directives
        c == CHOOSE d \in FreeChains(s) : \A e \in FreeChains(s) : d <= e
        chain == [skill |-> k, stage |-> "asked", next |-> Ahead(Tail(list)), told |-> FALSE,
                  canceled |-> FALSE, restarted |-> restarted,
                  mayResume |-> ~HasMedia(list)]
        t == [s EXCEPT !.skill[k].task = @ + 1, !.frontend = k]
    IN  IF list = <<>> THEN t
        ELSE Perform([t EXCEPT !.skill[k].directives = Remain(Tail(list)), !.chains[c] = chain],
                     c, Head(list))

\* Lists of the skill's own making are worked off at once.
ExecuteOwn(s) == [s EXCEPT !.frontend = 0]

StopPlayer(s, a) ==
    LET p == s.handle[a]
    IN  IF p = 0 THEN s
        ELSE [s EXCEPT !.handle[a] = 0,
                       !.chains[p] = IF @.stage = "media" THEN [@ EXCEPT !.told = TRUE] ELSE @]

Destroy(s, k) ==
    LET t == ExecuteOwn(Hushed(s))
    IN  IF s.skill[k].hasPlayer THEN StopPlayer(t, s.skill[k].app) ELSE t

PauseSkill(s, k, isAppPause) ==
    LET t == [s EXCEPT !.skill[k].paused = TRUE]
    IN  CASE isAppPause -> ExecuteOwn(Hushed(t))
          [] ~isAppPause /\ s.skill[k].hasPlayer -> ExecuteOwn(t)
          [] OTHER -> t

ResumeSkill(s, k) ==
    LET t == ExecuteOwn([s EXCEPT !.skill[k].paused = FALSE])
    IN  IF t.skill[k].directives = <<>> THEN t ELSE ExecuteDirectives(t, k, TRUE)

ResumeCurrent(s) == IF CurrentSkill(s) = 0 THEN s ELSE ResumeSkill(s, CurrentSkill(s))

Empty(s) == [s EXCEPT !.app.taskTimer = TRUE]

\* Manager.next, on 'exit' of a skill.
NextSkill(s, k) ==
    LET t == StopPlayer(s, s.skill[k].app)
        cur == CurrentSkill(t)
        u == [PopSkill(t) EXCEPT !.app.isAppActive = @ /\ Len(t.stack) > 1]
    IN  CASE t.app.manualPause -> t
          [] ~t.app.manualPause /\ cur # 0 /\ t.skill[cur].app # t.skill[k].app -> t
          [] OTHER -> IF u.stack = <<>> THEN Empty(u) ELSE ResumeCurrent(u)

\* The callback of start or resume, when the chain c has come to its end.
Completed(s, c) ==
    LET k == s.chains[c].skill
        t == [s EXCEPT !.chains[c] = Unused, !.skill[k].task = @ - 1]
        r == t.skill[k]
        media == ~s.chains[c].restarted /\ s.chains[c].mayResume /\ r.hasPlayer
    IN  CASE r.paused -> t
          [] ~r.paused /\ r.shouldEndSession -> NextSkill(t, k)
          [] ~r.paused /\ ~r.shouldEndSession /\ r.task > 0 ->
                IF media THEN ExecuteOwn(t) ELSE t
          [] OTHER -> IF r.directives = <<>> THEN NextSkill(t, k) ELSE t

\* next(canceled)
Continue(s, c) ==
    LET step == s.chains[c].next
        list == IF s.frontend = 0 THEN <<>> ELSE s.skill[s.frontend].directives
        t == [s EXCEPT !.chains[c].next = Ahead(list)]
        u == IF s.frontend = 0 THEN t ELSE [t EXCEPT !.skill[s.frontend].directives = Remain(list)]
    IN  IF step = "exit" \/ s.chains[c].canceled THEN Completed(s, c) ELSE Perform(u, c, step)

\* The list by kinds: what is native first, then what is said, then media.
Sorted(list) ==
    LET ofKind(d) == Cardinality({i \in DOMAIN list : list[i] = d})
    IN  [n \in DOMAIN list |->
            IF n <= ofKind("native") THEN "native"
            ELSE IF n <= ofKind("native") + ofKind("tts") THEN "tts" ELSE "media"]

\* (slip: an answer starts a skill that is paused)
OnRequestStarts(s, k, list, ends, append) ==
    LET r == s.skill[k]
        q == [r EXCEPT !.shouldEndSession = ends, !.paused = FALSE,
                       !.directives = IF append THEN Sorted(@ \o list) ELSE list,
                       !.hasPlayer = @ \/ HasMedia(list)]
    IN  IF r.shouldEndSession THEN NextSkill(s, k) ELSE [PutSkill(s, k, q) EXCEPT !.tick = k]

\* Skill.onrequest, with an answer of the cloud appended or a request.
OnRequest(s, k, list, ends, append) ==
    LET r == s.skill[k]
        q == [r EXCEPT !.shouldEndSession = ends, !.paused = @ /\ append,
                       !.directives = IF append THEN Sorted(@ \o list) ELSE list,
                       !.hasPlayer = @ \/ HasMedia(list)]
    IN  IF r.shouldEndSession THEN NextSkill(s, k)
        ELSE [PutSkill(s, k, q) EXCEPT !.tick = IF q.paused THEN @ ELSE k]

TimerCleared(s) == [s EXCEPT !.app.taskTimer = FALSE]

\* Manager.onrequest for an app that has a skill.
ToKnown(s, k, list, ends) ==
    LET prev == CurrentSkill(s)
        t == IF s.skill[prev].app = s.skill[k].app THEN s
             ELSE ResumeSkill(Destroy(PopSkill(s), prev), k)
    IN  OnRequest(t, k, list, ends, FALSE)

NewSkill(a, form, list, ends) ==
    [app |-> a, form |-> form, shouldEndSession |-> ends, directives |-> list,
     paused |-> FALSE, task |-> 0, hasPlayer |-> HasMedia(list)]

DestroyTwo(s) ==
    IF Len(s.stack) = 2 THEN Destroy(Destroy(s, s.stack[1]), s.stack[2])
    ELSE IF Len(s.stack) = 1 THEN Destroy(s, s.stack[1]) ELSE s

Pushed(s, k) ==
    LET cur == CurrentSkill(s)
    IN  CASE s.skill[k].form = "scene" -> [DestroyTwo(s) EXCEPT !.stack = <<k>>]
          [] s.skill[k].form = "cut" /\ cur = 0 -> [s EXCEPT !.stack = <<k>>]
          [] s.skill[k].form = "cut" /\ cur # 0 /\ s.skill[cur].form = "scene" ->
                [PauseSkill(s, cur, FALSE) EXCEPT !.stack = Append(@, k)]
          [] OTHER -> Destroy([s EXCEPT !.stack[Len(s.stack)] = k], cur)

ToNew(s, a, form, list, ends) ==
    LET t == [s EXCEPT !.skill = Append(@, NewSkill(a, form, list, ends))]
    IN  ExecuteDirectives(Pushed(t, Len(t.skill)), Len(t.skill), FALSE)

-----------------------------------------------------------------------------
(* Steps.  A start on the next tick comes before anything else. *)

Calm == client.tick = 0
Room == FreeChains(client) # {}

\* 'start'
StartSkill ==
    /\ client.tick # 0 /\ Room
    /\ client' = ExecuteDirectives([client EXCEPT !.tick = 0, !.skill[client.tick].paused = FALSE],
                         client.tick, FALSE)

MayAsk == Calm /\ Room /\ client.app.requests < MaxRequests
Counted(s) == [s EXCEPT !.app.requests = @ + 1]
Activated(s) == [s EXCEPT !.app.isAppActive = TRUE]

RequestArrives(a, form, list, ends) ==
    /\ MayAsk
    /\ LET s == Activated(TimerCleared(Counted(client)))
       IN  \/ \E k \in OfSkill(client, a) : form = "cut" /\ client' = ToKnown(s, k, list, ends)
           \/ OfSkill(client, a) = {} /\ client' = ToNew(s, a, form, list, ends)

\* A request without directives, or none of its type.
EmptyRequest ==
    /\ MayAsk
    /\ LET s == Counted(client)
       IN  client' = IF s.stack = <<>> THEN Empty(s) ELSE ResumeCurrent(Activated(s))

ExitSkill(s, k) == NextSkill(Destroy(s, k), k)

ExitRequest(a) ==
    /\ "exit" \in ClientOps /\ MayAsk
    /\ LET s == Counted(client)
           cur == CurrentSkill(s)
       IN  client' = IF cur = 0 THEN Empty(s)
                     ELSE IF s.skill[cur].app # a THEN s ELSE ExitSkill(s, cur)

\* Also the life cycle's 'destroy'.
ExitAll ==
    /\ "exit" \in ClientOps /\ MayAsk
    /\ client' = [DestroyTwo(Counted(client)) EXCEPT
                    !.stack = <<>>, !.app.isAppActive = FALSE,
                    !.handle = [a \in SkillApps |-> 0]]

PauseManager(s) ==
    LET t == [s EXCEPT !.app.isAppActive = FALSE]
        cur == CurrentSkill(s)
    IN  IF cur = 0 THEN t
        ELSE IF s.skill[cur].form = "scene" THEN PauseSkill(t, cur, TRUE)
        ELSE NextSkill(Destroy(PopSkill(t), cur), cur)

PauseClient ==
    /\ "pause" \in ClientOps /\ Calm /\ Room
    /\ client' = PauseManager([client EXCEPT !.app.needResume = TRUE])

\* 'resume', or 'active' when a voice session is over.
ResumeClient ==
    /\ Calm /\ Room /\ client.app.needResume
    /\ client' = Activated(ResumeCurrent(
                    TimerCleared([client EXCEPT !.app.needResume = FALSE])))

Quiet(flag) ==
    /\ "quiet" \in ClientOps /\ Calm /\ Room
    /\ client.app.manualPause # flag
    /\ LET s == [client EXCEPT !.app.manualPause = flag]
       IN  client' = IF flag THEN PauseManager(s) ELSE Activated(ResumeCurrent(s))

TaskTimer ==
    /\ Calm /\ client.app.taskTimer
    /\ client' = [TimerCleared(client) EXCEPT !.app.needResume = FALSE]

ChainAt(c, stage) == Calm /\ Room /\ client.chains[c].stage = stage

\* sendEventRequest tells the cloud, but for a text the current skill replaced.
SendEventRequest(s, c, canceled) ==
    [s EXCEPT !.chains[c].stage = "asked", !.chains[c].canceled = canceled]

TtsEnds(c) ==
    /\ ChainAt(c, "tts")
    /\ client' = SendEventRequest(client, c, FALSE)

TtsCanceled(c) ==
    LET cur == CurrentSkill(client)
        s == [client EXCEPT !.chains[c].canceled = TRUE]
    IN  /\ ChainAt(c, "tts") /\ client.chains[c].told
        /\ client' = IF client.app.isAppActive /\ cur # 0
                          /\ client.skill[cur].app = client.skill[client.chains[c].skill].app
                     THEN Completed(s, c)
                     ELSE SendEventRequest(client, c, TRUE)

TtsFails(c) ==
    /\ "error" \in ClientOps /\ ChainAt(c, "tts")
    /\ client' = SendEventRequest(client, c, TRUE)

\* The url is that of a player of the client: it is left playing, and the next
\* directive is performed at once.
PlaysAlready(c) ==
    /\ Room /\ client.chains[c].stage = "opening"
    /\ \E d \in ChainIds : client.chains[d].stage = "media"
    /\ client' = Continue(client, c)

\* The player has an id from now on; one its app had before is stopped.
MediaResolved(c) ==
    LET a == client.skill[client.chains[c].skill].app
    IN  /\ ChainAt(c, "opening")
        /\ client' = [StopPlayer(client, a) EXCEPT !.handle[a] = c, !.chains[c].stage = "media"]

MediaFails(c) ==
    /\ "error" \in ClientOps /\ ChainAt(c, "opening")
    /\ client' = SendEventRequest(client, c, TRUE)

MediaEnds(c) ==
    /\ ChainAt(c, "media")
    /\ client' = SendEventRequest(client, c, client.chains[c].told)

NativeSettles(c) ==
    /\ ChainAt(c, "native")
    /\ client' = Continue(client, c)

CloudAnswers(c, failed) ==
    /\ ChainAt(c, "asked")
    /\ failed => "error" \in ClientOps
    /\ client' = Continue([client EXCEPT !.chains[c].canceled = @ \/ failed], c)

\* Manager.append: the answer has directives for the skill of the event.
CloudResponds(c, list, ends) ==
    LET a == client.skill[client.chains[c].skill].app
        s == [client EXCEPT !.app.answers = @ + 1]
    IN  /\ ChainAt(c, "asked") /\ client.app.answers < MaxAnswers
        /\ Cardinality(FreeChains(client)) > 1
        /\ \/ \E k \in OfSkill(client, a) : client' = Continue(OnRequest(s, k, list, ends, TRUE), c)
           \/ OfSkill(client, a) = {} /\ client' = Continue(s, c)

-----------------------------------------------------------------------------
ChainStep(c) ==
    \/ TtsEnds(c) \/ TtsCanceled(c) \/ TtsFails(c)
    \/ PlaysAlready(c) \/ MediaResolved(c) \/ MediaFails(c) \/ MediaEnds(c)
    \/ NativeSettles(c)
    \/ \E failed \in BOOLEAN : CloudAnswers(c, failed)

ClientNext ==
    \/ StartSkill \/ TaskTimer
    \/ \E a \in SkillApps, form \in {"cut", "scene"}, list \in Scripts, ends \in BOOLEAN :
          RequestArrives(a, form, list, ends)
    \/ EmptyRequest \/ ExitAll \/ \E a \in SkillApps : ExitRequest(a)
    \/ PauseClient \/ ResumeClient \/ \E flag \in BOOLEAN : Quiet(flag)
    \/ \E c \in ChainIds :
          \/ ChainStep(c)
          \/ \E list \in Scripts, ends \in BOOLEAN : CloudResponds(c, list, ends)

ClientSpec == ClientInit /\ [][ClientNext]_client

\* Speech and media end, the cloud answers, ticks and timers come.
ClientFairness ==
    /\ WF_client(StartSkill) /\ WF_client(TaskTimer)
    /\ \A c \in ChainIds : WF_client(ChainStep(c))

-----------------------------------------------------------------------------
(* Properties *)

\* Whatever skills come, exit late or are destroyed, at most two are in the
\* stack, of different apps, and the lower one is a scene.
SceneUnderCut ==
    LET S == client.stack
    IN  /\ Len(S) <= 2
        /\ Len(S) = 2 => /\ client.skill[S[1]].form = "scene"
                         /\ client.skill[S[1]].app # client.skill[S[2]].app

\* The scene under a cut skill is paused: neither an answer of the cloud for
\* it nor a chain of its own that ends starts it meanwhile.
ScenePausedUnderCut ==
    Len(client.stack) = 2 => client.skill[client.stack[1]].paused

\* A skill's count of tasks is the number of its chains.
TaskCounts ==
    \A k \in DOMAIN client.skill :
        client.skill[k].task = Cardinality({c \in ChainIds :
            client.chains[c] # Unused /\ client.chains[c].skill = k})

\* A cut skill leaves: when its directives are done, replaced, or cancelled.
CutSkillLeaves ==
    \A k \in SkillIds :
        (k \in DOMAIN client.skill /\ InStack(client, k) /\ client.skill[k].form = "cut")
            ~> ~InStack(client, k)

\* "exit self. nothing to do": the current skill of an active app goes on.
CurrentGoesOn ==
    CurrentSkill(client) # 0 /\ client.tick = 0 /\ ~client.skill[CurrentSkill(client)].paused
        => client.skill[CurrentSkill(client)].task > 0

\* The stack of skills has a shape the client can go back along, whichever of
\* requests, answers, cancellations and ends come late.
ClientInv == ClientTypeOK /\ SceneUnderCut /\ ScenePausedUnderCut
=============================================================================
