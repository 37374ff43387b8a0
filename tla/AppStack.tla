------------------------------ MODULE AppStack ------------------------------
(***************************************************************************)
(* What LaVieEnPile promises of its stack, whatever calls overlap: two     *)
(* slots, a scene and a cut app above it, held by different apps that are  *)
(* alive.  A cut app that comes in leaves the scene alone, a scene clears  *)
(* the stack, an app that leaves takes nobody else with it but those that  *)
(* leave in the same call, and the stack never outlives a process.         *)
(***************************************************************************)
CONSTANTS
    App,     \* the apps there are
    NoApp    \* an empty slot

VARIABLES
    cut,     \* the app in the upper slot
    scene,   \* the app in the lower slot
    alive    \* apps that have a process

stackVars == <<cut, scene, alive>>

Init == cut = NoApp /\ scene = NoApp /\ alive = {}

Start(a) == alive' = alive \cup {a} /\ UNCHANGED <<cut, scene>>

PreemptByCut(a) ==
    /\ a \in alive
    /\ a # scene
    /\ cut' = a
    /\ UNCHANGED <<scene, alive>>

PreemptByScene(a) ==
    /\ a \in alive
    /\ cut' = NoApp
    /\ scene' = a
    /\ UNCHANGED alive

Without(S) ==
    /\ cut' = IF cut \in S THEN NoApp ELSE cut
    /\ scene' = IF scene \in S THEN NoApp ELSE scene

Leave(S) == Without(S) /\ UNCHANGED alive

Die(a) == Without({a}) /\ alive' = alive \ {a}

Next ==
    \/ \E a \in App : Start(a) \/ PreemptByCut(a) \/ PreemptByScene(a) \/ Die(a)
    \/ \E S \in SUBSET App : Leave(S)

Spec == Init /\ [][Next]_stackVars
=============================================================================
