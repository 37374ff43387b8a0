------------------------------- MODULE Lightd -------------------------------
(***************************************************************************)
(* lightd (runtime/services/lightd): which of the lights that apps and the *)
(* voice session ask for is shown, and which comes back when it ends.      *)
(*                                                                         *)
(* A light is a script that draws until it is stopped; it may call back    *)
(* when it ends, some call back when they are stopped as well.  System     *)
(* lights have layers of their own, above those of apps.  What is drawn,   *)
(* the frames of transitions and the brightness are left out.              *)
(***************************************************************************)
EXTENDS Naturals, Functions, FiniteSetsExt

CONSTANTS
    LightApps,       \* who asks for lights
    Lights,          \* the URIs of lights
    SystemZ,         \* /opt/light/config.json: the layers of system lights
    CallsBack,       \* lights that call back when they are stopped
    MissingLights,   \* lights that cannot be loaded
    FaultyLights,    \* lights that throw
    MaxPlays         \* bound: requests

Dark == "dark"

ASSUME LightAssumption ==
    /\ Dark \notin Lights \cup LightApps
    /\ DOMAIN SystemZ \subseteq Lights /\ IsFiniteSet(DOMAIN SystemZ)
    /\ SystemZ \in [DOMAIN SystemZ -> Nat]
    /\ CallsBack \cup MissingLights \cup FaultyLights \subseteq Lights
    /\ MaxPlays \in Nat

VARIABLE light  \* Light: the layers, the light that is shown, timers, replies

SystemLights == DOMAIN SystemZ
UserLayers == 0 .. 2
\* helper.getMaxLayer
SystemLayers == 0 .. Max({0} \cup Range(SystemZ))
Plays == 1 .. MaxPlays
Layer == [app : LightApps, uri : Lights]
NoLayer == [app |-> Dark, uri |-> Dark]
NoPrev == [app |-> Dark, uri |-> Dark, z |-> 0, play |-> 0]
NoCallback == [kind |-> "none", play |-> 0]

LightTypeOK ==
    /\ light.system \in [SystemLayers -> Layer \cup {NoLayer}]
    /\ light.user \in [UserLayers -> Layer \cup {NoLayer}]
    /\ light.prev \in {NoPrev} \cup [app : LightApps, uri : Lights,
                                     z : SystemLayers \cup UserLayers, play : 0 .. MaxPlays]
    /\ light.callback \in [kind : {"none", "noop", "fresh", "called"}, play : 0 .. MaxPlays]
    /\ light.timer \in BOOLEAN
    /\ light.dones \subseteq Plays  \* have called back, to a setTimeout of 0
    /\ light.answers \in [Plays -> 0 .. 2]
    /\ light.plays \in 0 .. MaxPlays

LightInit ==
    light = [system |-> [z \in SystemLayers |-> NoLayer],
             user |-> [z \in UserLayers |-> NoLayer],
             prev |-> NoPrev, callback |-> NoCallback, timer |-> FALSE, dones |-> {},
             answers |-> [n \in Plays |-> 0], plays |-> 0]

-----------------------------------------------------------------------------
(* What the operations are made of *)

Answered(l, n) == [l EXCEPT !.answers[n] = IF @ < 2 THEN @ + 1 ELSE 2]

\* prevCallback: once, it arms nextResumeTimer and replies.
CallPrev(l) ==
    IF l.callback.kind = "fresh"
    THEN [Answered(l, l.callback.play) EXCEPT !.timer = TRUE, !.callback.kind = "called"]
    ELSE l

\* stopPrev: a light that was resumed calls back into the void.
StopPrev(l) ==
    [CallPrev(l) EXCEPT
        !.callback = NoCallback, !.prev = NoPrev,
        !.dones = IF l.prev.uri \in CallsBack THEN @ \cup ({l.prev.play} \ {0}) ELSE @]

\* The loop over the layers of apps looks at one index only.
RemoveLayerByUri(l, u) ==
    LET inSystem == {z \in SystemLayers : l.system[z].uri = u}
        i == Cardinality(SystemLayers)
    IN  IF inSystem # {} THEN [l EXCEPT !.system[Min(inSystem)] = NoLayer]
        ELSE IF i \in UserLayers /\ l.user[i].uri = u THEN [l EXCEPT !.user[i] = NoLayer]
        ELSE l

\* (slip: a light of an app need not be above the one that is shown)
CanRenderAny(l, u, z) == l.prev.uri \in SystemLights => u \in SystemLights

CanRender(l, u, z) ==
    \/ l.prev.uri = Dark
    \/ u \in SystemLights /\ l.prev.uri \notin SystemLights
    \/ u \in SystemLights /\ l.prev.uri \in SystemLights /\ z <= l.prev.z
    \/ u \notin SystemLights /\ l.prev.uri \notin SystemLights /\ z >= l.prev.z

SetResume(l, a, u, z) ==
    IF u \in MissingLights THEN l
    ELSE IF u \in SystemLights THEN [l EXCEPT !.system[z] = [app |-> a, uri |-> u]]
    ELSE [l EXCEPT !.user[z] = [app |-> a, uri |-> u]]

\* resume: the light of the highest layer, if there is one.
ResumeLayer(l) ==
    LET s == {z \in SystemLayers : l.system[z] # NoLayer}
        w == {z \in UserLayers : l.user[z] # NoLayer}
        z == IF s # {} THEN Min(s) ELSE Max(w)
        layer == IF s # {} THEN l.system[z] ELSE l.user[z]
        kept == [StopPrev(l) EXCEPT !.callback = [kind |-> "noop", play |-> 0]]
        lost == IF s # {} THEN [kept EXCEPT !.system[z] = NoLayer]
                          ELSE [kept EXCEPT !.user[z] = NoLayer]
    IN  IF s = {} /\ w = {} THEN StopPrev(l)
        ELSE IF layer.uri \in FaultyLights THEN lost
        ELSE [kept EXCEPT !.prev = [app |-> layer.app, uri |-> layer.uri, z |-> z, play |-> 0]]

-----------------------------------------------------------------------------
(* Operations *)

\* The light is drawn, from the place where the one before has been stopped.
Render(l, n, a, u, z, resume) ==
    LET stopped == [StopPrev(l) EXCEPT !.timer = FALSE]
        stored == IF resume
                  THEN LET silent == [stopped EXCEPT !.callback = [kind |-> "noop", play |-> 0]]
                       IN  Answered(SetResume(silent, a, u, z), n)
                  ELSE [stopped EXCEPT !.callback = [kind |-> "fresh", play |-> n]]
    IN  IF u \in FaultyLights THEN Answered(stored, n)
        ELSE [stored EXCEPT !.prev = [app |-> a, uri |-> u, z |-> z, play |-> n]]

\* (slip: what waits to be resumed is given up before the request is refused)
LoadfileGivesUp(a, u, zIndex, resume) ==
    LET n == light.plays + 1
        z == IF u \in SystemLights THEN SystemZ[u] ELSE zIndex
        l == [(IF resume THEN light ELSE RemoveLayerByUri(light, u)) EXCEPT !.plays = n,
                                                                            !.timer = FALSE]
    IN  /\ light.plays < MaxPlays
        /\ light' = CASE ~CanRender(l, u, z) ->
                           Answered(IF resume THEN SetResume(l, a, u, z) ELSE l, n)
                      [] CanRender(l, u, z) /\ u \in MissingLights -> Answered(l, n)
                      [] OTHER -> Render(l, n, a, u, z, resume)

\* loadfile
Loadfile(a, u, zIndex, resume) ==
    LET n == light.plays + 1
        z == IF u \in SystemLights THEN SystemZ[u] ELSE zIndex
        l == [(IF resume THEN light ELSE RemoveLayerByUri(light, u)) EXCEPT !.plays = n]
    IN  /\ light.plays < MaxPlays
        /\ light' = CASE ~CanRender(l, u, z) ->
                           Answered(IF resume THEN SetResume(l, a, u, z) ELSE l, n)
                      [] CanRender(l, u, z) /\ u \in MissingLights -> Answered(l, n)
                      [] OTHER -> Render(l, n, a, u, z, resume)

\* The layers of the app, and of these the ones of a URI.
Owned(layers, a, u) == {z \in DOMAIN layers : layers[z].app = a /\ u \in {Dark, layers[z].uri}}
Without(layers, gone) == [z \in DOMAIN layers |-> IF z \in gone THEN NoLayer ELSE layers[z]]

\* stopFile; no URI, Dark, for all lights of the app, a URI for the first that
\* is found: from below in the system's, and if none is there from above in
\* those of apps.
StopFile(a, u) ==
    LET system == Owned(light.system, a, u)
        user == Owned(light.user, a, u)
        one == u # Dark
        cleared == [light EXCEPT
                      !.system = Without(@, IF one /\ system # {} THEN {Min(system)} ELSE system),
                      !.user = IF system # {} THEN @
                               ELSE Without(@, IF one /\ user # {} THEN {Max(user)} ELSE user)]
        shown == light.prev.uri # Dark /\ light.prev.app = a /\ u \in {Dark, light.prev.uri}
    IN  light' = IF shown THEN ResumeLayer(cleared) ELSE cleared

ResetLights ==
    light' = StopPrev([light EXCEPT !.system = [z \in SystemLayers |-> NoLayer],
                                    !.user = [z \in UserLayers |-> NoLayer]])

-----------------------------------------------------------------------------
(* Timers *)

\* The light that is shown calls back at its end, by way of a timer.
LightEnds ==
    /\ light.prev.play # 0
    /\ light' = [light EXCEPT !.dones = @ \cup {light.prev.play}]

\* The timer calls prevCallback, whosever it is by then.
CalledBack ==
    \E n \in light.dones : light' = [CallPrev(light) EXCEPT !.dones = @ \ {n}]

ResumeTimer ==
    /\ light.timer
    /\ light' = ResumeLayer([light EXCEPT !.timer = FALSE])

LightNext ==
    \/ \E a \in LightApps, u \in Lights :
         \/ \E z \in UserLayers, resume \in BOOLEAN : Loadfile(a, u, z, resume)
         \/ StopFile(a, u)
    \/ \E a \in LightApps : StopFile(a, Dark)
    \/ ResetLights \/ LightEnds \/ CalledBack \/ ResumeTimer

LightSpec == LightInit /\ [][LightNext]_light

\* Timers fire.
LightFairness == WF_light(CalledBack) /\ WF_light(ResumeTimer)

-----------------------------------------------------------------------------
(* Properties *)

\* No light is shown while a layer above it waits: not after a refused
\* request, a stop, or an end that is noticed late.
NothingHigherWaits ==
    LET p == light.prev
    IN  p.uri # Dark =>
         /\ \A z \in SystemLayers : light.system[z] # NoLayer => p.uri \in SystemLights /\ p.z <= z
         /\ \A z \in UserLayers : light.user[z] # NoLayer => p.uri \in SystemLights \/ p.z >= z

\* Each request is answered once: at once, or when the light that it has
\* started ends, is stopped or replaced.
LightAnsweredOnce ==
    \A n \in 1 .. light.plays :
       light.answers[n] = IF light.callback = [kind |-> "fresh", play |-> n] THEN 0 ELSE 1

\* When nothing is shown no layer is left that could be, unless the timer
\* that brings it back is running.
DarkOnlyIfEmpty ==
    light.prev.uri = Dark /\ ~light.timer =>
       /\ \A z \in SystemLayers : light.system[z] = NoLayer
       /\ \A z \in UserLayers : light.user[z] = NoLayer

\* A light that has ended gives way, to the layer below or to darkness.
EndedGivesWay == light.callback.kind = "called" ~> light.callback.kind # "called"

\* "resume the light after no light request": a light that was just asked for
\* is not ended by the callback of the one before it.
NotCutByPredecessor ==
    [][\A n \in light.dones \ light'.dones :
         light.callback.kind = "fresh" => light.callback.play = n]_light

\* "update layers by uri": a light that is asked for to be shown once is no
\* longer among those that come back.
UpdatedLayersByUri ==
    \A u \in Lights :
       light.callback.kind = "fresh" /\ light.prev.uri = u =>
          \A z \in UserLayers : light.user[z].uri # u

\* The layers of lights are worked off from the top, and each asker is answered
\* once, however effects are stopped, fail to load or end.
LightInv == LightTypeOK /\ NothingHigherWaits /\ LightAnsweredOnce /\ DarkOnlyIfEmpty
=============================================================================
