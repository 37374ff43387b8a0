------------------------------ MODULE Keyboard ------------------------------
(***************************************************************************)
(* The keys of the device (runtime/lib/component/keyboard.js) and what an  *)
(* app may ask about them (runtime/lib/descriptor/keyboard-descriptor.js). *)
(*                                                                         *)
(* Nobody is configured for keyboardWillRespond, so the delegation of each *)
(* event resolves with false and the handlers run in the order of the      *)
(* events.  Time is counted in halves of the long press window.            *)
(***************************************************************************)
EXTENDS Naturals, FiniteSets

CONSTANTS
    Keys,
    KeyApps,       \* apps that may be at the front
    Descriptors,   \* what the configuration says, a set of records
    Intervals,     \* time between the long press events of the driver
    MaxHeld,       \* bound: how long a key is held
    KeysAtOnce     \* bound: keys held at once

\* The long press window in units of time; and the key of the fallbacks.
Window == 2
Fallback == "fallbacks"
Interests == {"click", "dbclick", "longpress"}
Gestures == {"click", "dbclick"}
KeyEvents == Gestures \cup {"keydown", "keyup", "longpress"}

\* A descriptor is looked up by its key and the name of the event; at is the
\* number of the name longpress-<timeDelta>, and 0 in longpress.
ASSUME KeyboardAssumption ==
    /\ Descriptors \subseteq
          [key : Keys \cup {Fallback}, event : KeyEvents, at : Nat, timeDelta : Nat,
           repeat : BOOLEAN, preventSubsequent : BOOLEAN, debounce : Nat]
    /\ Intervals \subseteq Nat \ {0} /\ MaxHeld \in Nat /\ KeysAtOnce \in Nat
    /\ Fallback \notin Keys
    /\ \A d \in Descriptors : d.event = "longpress" => d.debounce = 0 /\ d.key \in Keys

VARIABLES
    keyboard, \* the handler and the guards of the descriptors
    interests, \* of the apps' keyboards
    user,     \* the app at the front, the keys held and since when
    fired     \* what the last event executed, how often that was in the
              \* present press, and how long it is not to happen again

keyVars == <<keyboard, interests, user, fired>>

NoKey == "none"
\* Long press actions that are not to repeat.
Once == {d \in Descriptors : d.event = "longpress" /\ ~d.repeat}
Held == {k \in Keys : user.held[k] > 0}

KeyboardTypeOK ==
    /\ keyboard \in [currentKeyCode : Keys \cup {NoKey}, pressed : 0 .. MaxHeld + 1,
                     preventSubsequent : BOOLEAN,
                     guard : [Descriptors -> Nat]]
    /\ interests \in [KeyApps -> SUBSET (Keys \X Interests)]
    /\ user \in [front : KeyApps \cup {"none"}, held : [Keys -> 0 .. MaxHeld + 1],
                 prevents : SUBSET Keys]
    /\ fired.last \subseteq Descriptors /\ fired.key \in Keys \cup {NoKey}
    /\ fired.times \in [Once -> 0 .. 2] /\ fired.wait \in [Descriptors -> Nat]

KeyboardInit ==
    /\ keyboard = [currentKeyCode |-> NoKey, pressed |-> 0, preventSubsequent |-> FALSE,
                   guard |-> [d \in Descriptors |-> 0]]
    /\ interests = [a \in KeyApps |-> {}]
    /\ user \in [front : KeyApps \cup {"none"}, held : {[k \in Keys |-> 0]}, prevents : {{}}]
    /\ fired = [last |-> {}, key |-> NoKey, times |-> [d \in Once |-> 0],
                wait |-> [d \in Descriptors |-> 0]]

-----------------------------------------------------------------------------
(* Looking up and executing *)

DescriptorsAt(key, event, n) == {d \in Descriptors : d.key = key /\ d.event = event /\ d.at = n}

\* handleAppListener
AppListens(event, k) ==
    user.front \in KeyApps /\ <<k, event>> \in interests[user.front]

\* dt units of time pass before the event.
CountDown(count, dt) == [d \in Descriptors |-> IF count[d] > dt THEN count[d] - dt ELSE 0]

\* A key that was not held begins a new press.
Times == [x \in Once |-> IF user.held[x.key] = 0 THEN 0 ELSE fired.times[x]]

Silent(k, dt) ==
    fired' = [last |-> {}, key |-> k, times |-> Times, wait |-> CountDown(fired.wait, dt)]

ExecuteDescriptor(d, k, dt) ==
    fired' = [last |-> {d}, key |-> k,
              wait |-> [CountDown(fired.wait, dt) EXCEPT ![d] = d.debounce],
              times |-> [x \in Once |-> IF x = d /\ Times[x] < 2 THEN Times[x] + 1 ELSE Times[x]]]

\* At most one descriptor is found; kb is what the handler did before.
Debounced(ds, k, kb) ==
    IF ds = {} THEN keyboard' = kb /\ Silent(k, 0)
    ELSE LET d == CHOOSE x \in ds : TRUE
         IN  IF d.debounce > 0 /\ kb.guard[d] > 0 THEN keyboard' = kb /\ Silent(k, 0)
             ELSE keyboard' = [kb EXCEPT !.guard[d] = d.debounce] /\ ExecuteDescriptor(d, k, 0)

Handle(event, k, kb) ==
    IF AppListens(event, k) THEN keyboard' = kb /\ Silent(k, 0)
    ELSE Debounced(DescriptorsAt(k, event, 0), k, kb)

-----------------------------------------------------------------------------
(* The events *)

Keydown(k) ==
    /\ user.held[k] = 0 /\ Cardinality(Held) < KeysAtOnce
    /\ user' = [user EXCEPT !.held[k] = 1, !.prevents = @ \ {k}]
    /\ Handle("keydown", k, [keyboard EXCEPT !.currentKeyCode = k, !.pressed = 1])
    /\ UNCHANGED interests

\* (slip: the flag is left as it is)
KeyupKeepsFlag(k) ==
    /\ user.held[k] > 0
    /\ user' = [user EXCEPT !.held[k] = 0]
    /\ LET kb == [keyboard EXCEPT !.pressed = IF keyboard.currentKeyCode = k THEN 0 ELSE @]
       IN  IF keyboard.currentKeyCode = k /\ keyboard.preventSubsequent
           THEN keyboard' = kb /\ Silent(k, 0)
           ELSE Handle("keyup", k, kb)
    /\ UNCHANGED interests

Keyup(k) ==
    /\ user.held[k] > 0
    /\ user' = [user EXCEPT !.held[k] = 0]
    /\ LET current == keyboard.currentKeyCode = k
           kb == [keyboard EXCEPT !.pressed = IF current THEN 0 ELSE @,
                                  !.preventSubsequent = @ /\ ~current]
       IN  IF current /\ keyboard.preventSubsequent
           THEN keyboard' = kb /\ Silent(k, 0)
           ELSE Handle("keyup", k, kb)
    /\ UNCHANGED interests

\* Math.round(timeDelta / longpressWindow) * longpressWindow
Rounded(t) == ((t + Window \div 2) \div Window) * Window

LongpressDescriptor(k, timeDelta) ==
    IF DescriptorsAt(k, "longpress", 0) # {} THEN DescriptorsAt(k, "longpress", 0)
    ELSE IF timeDelta = 0 THEN {} ELSE DescriptorsAt(k, "longpress", timeDelta)

Applies(d, timeDelta) ==
    (d.repeat \/ timeDelta <= d.timeDelta) /\ timeDelta >= d.timeDelta

\* The driver reports that k is still held, dt after the last time it did.
Longpress(k, dt) ==
    /\ user.held[k] > 0 /\ user.held[k] + dt <= MaxHeld + 1
    /\ LET timeDelta == Rounded(keyboard.pressed + dt - 1)
           found == {d \in LongpressDescriptor(k, timeDelta) : Applies(d, timeDelta)}
           ignored == \/ keyboard.currentKeyCode # k
                      \/ keyboard.preventSubsequent
                      \/ AppListens("longpress", k)
                      \/ found = {}
           d == CHOOSE x \in found : TRUE
           prevents == ~ignored /\ d.preventSubsequent
           kb == [keyboard EXCEPT !.pressed = IF keyboard.currentKeyCode = k THEN @ + dt ELSE @,
                                  !.guard = CountDown(@, dt)]
       IN  /\ keyboard' = [kb EXCEPT !.preventSubsequent = @ \/ prevents]
           /\ IF ignored THEN Silent(k, dt) ELSE ExecuteDescriptor(d, k, dt)
           /\ user' = [user EXCEPT !.held[k] = @ + dt,
                                   !.prevents = IF prevents THEN @ \cup {k} ELSE @]
    /\ UNCHANGED interests

\* Gestures are reported when the key has been let go.
Gesture(g, k) ==
    /\ user.held[k] = 0
    /\ IF AppListens(g, k) THEN Silent(k, 0) /\ UNCHANGED keyboard
       ELSE Debounced(IF DescriptorsAt(k, g, 0) # {} THEN DescriptorsAt(k, g, 0)
                      ELSE DescriptorsAt(Fallback, g, 0), k, keyboard)
    /\ UNCHANGED <<interests, user>>

\* Time in which no key is held; the guards' timers run out.
Wait ==
    /\ Held = {} /\ \E d \in Descriptors : keyboard.guard[d] > 0
    /\ keyboard' = [keyboard EXCEPT !.guard = CountDown(@, 1)]
    /\ Silent(NoKey, 1)
    /\ UNCHANGED <<interests, user>>

-----------------------------------------------------------------------------
(* The keyboard of an app *)

PreventDefaults(a, k, events) ==
    /\ interests' = [interests EXCEPT ![a] = @ \cup ({k} \X events)]
    /\ interests' # interests /\ Silent(NoKey, 0)
    /\ UNCHANGED <<keyboard, user>>

RestoreDefaults(a, k, events) ==
    /\ interests' = [interests EXCEPT ![a] = @ \ ({k} \X events)]
    /\ interests' # interests /\ Silent(NoKey, 0)
    /\ UNCHANGED <<keyboard, user>>

RestoreAll(a) ==
    /\ interests[a] # {}
    /\ interests' = [interests EXCEPT ![a] = {}] /\ Silent(NoKey, 0)
    /\ UNCHANGED <<keyboard, user>>

FrontAppChanges(a) ==
    /\ a # user.front
    /\ user' = [user EXCEPT !.front = a] /\ Silent(NoKey, 0)
    /\ UNCHANGED <<keyboard, interests>>

KeyboardNext ==
    \/ \E k \in Keys : Keydown(k) \/ Keyup(k)
    \/ \E k \in Keys, dt \in Intervals : Longpress(k, dt)
    \/ \E k \in Keys, g \in Gestures : Gesture(g, k)
    \/ Wait
    \/ \E a \in KeyApps, k \in Keys, events \in {Interests, {"longpress"}} :
          PreventDefaults(a, k, events) \/ RestoreDefaults(a, k, events)
    \/ \E a \in KeyApps : RestoreAll(a)
    \/ \E a \in KeyApps \cup {"none"} : FrontAppChanges(a)

KeyboardSpec == KeyboardInit /\ [][KeyboardNext]_keyVars

-----------------------------------------------------------------------------
(* Properties *)

\* A long press that prevents what follows prevents it for its own press: as
\* soon as the key is let go nothing is swallowed any more.  It may not leave
\* the device with a key that is ignored once.
PreventsOwnPress ==
    keyboard.preventSubsequent => keyboard.currentKeyCode \in Held \cap user.prevents

\* After it the same press does nothing, whatever the driver still reports.
NothingAfterPrevented ==
    [][\A k \in user.prevents :
          user.held[k] > 0 /\ fired'.key = k => fired'.last = {}]_keyVars

\* A long press action that is not to repeat happens once in a press, while
\* times are rounded to the window on their way.
NonRepeatingOnce ==
    \A d \in Once : fired.times[d] <= 1

\* A debounced action is not done again before its time is over, whether it
\* is found for the key or shared by all keys as a fallback.
Debounces ==
    [][\A d \in Descriptors : fired.wait[d] > 0 => d \notin fired'.last]_keyVars

\* "Intercepts all events for key code until restores default behavior".
InterceptsAll ==
    \A k \in Keys : user.front \in KeyApps /\ {k} \X Interests \subseteq interests[user.front]
        /\ fired.key = k => fired.last = {}

\* One press at a time does what its descriptors say and nothing else: what a
\* long press prevents, what is to happen once, and what is debounced.
KeyboardSafe ==
    /\ [](KeyboardTypeOK /\ PreventsOwnPress /\ NonRepeatingOnce)
    /\ NothingAfterPrevented /\ Debounces
=============================================================================
