-------------------------------- MODULE Cloud --------------------------------
(***************************************************************************)
(* The connection to the cloud: the log-in of the runtime                  *)
(* (runtime/lib/app-runtime.js), the cloud store that asks for it          *)
(* (runtime/lib/cloudapi/index.js), the MQTT client it starts              *)
(* (runtime/lib/cloudapi/mqtt/client.js), and the wormhole that suspends   *)
(* the client with each log-out (runtime/lib/component/wormhole.js).       *)
(*                                                                         *)
(* The cloud and the MQTT library are external: a connection that is being *)
(* opened opens or fails, one that is open may go offline, and one that    *)
(* has failed or gone says no more.  Messages are left out.                *)
(***************************************************************************)
EXTENDS Naturals, FiniteSets

CONSTANTS
    Handles,      \* bound: connections at a time
    MaxAttempts,  \* bound: log-ins
    MaxBackoff,   \* MAXIMUM_BACKOFF_TIME
    CloudOps      \* again, a log-in of who is logged in, for another account;
                  \* relogin, the method Relogin on the bus

NoHandle == "no handle"

ASSUME CloudAssumption ==
    /\ NoHandle \notin Handles
    /\ MaxAttempts \in Nat /\ MaxBackoff \in Nat \ {0}
    /\ CloudOps \subseteq {"again", "relogin"}

VARIABLES
    mqttClient,   \* fields of the MqttClient, and what it waits for
    links,    \* the connections that still call back
    session   \* custodian's _loggedIn, the wormhole's client, the lock of login

cloudVars == <<mqttClient, links, session>>

ClientState ==
    [reject : BOOLEAN, connecting : BOOLEAN, online : BOOLEAN, fresh : BOOLEAN,
     handle : Handles \cup {NoHandle},
     backoff : 1 .. 2 * MaxBackoff,
     fetches : 0 .. 2 * MaxAttempts, timers : 0 .. 2 * MaxAttempts]

CloudTypeOK ==
    /\ mqttClient \in ClientState
    /\ links \in [Handles -> {"none", "opening", "open"}]
    /\ session \in [loggedIn : BOOLEAN, attached : BOOLEAN, attempts : 0 .. MaxAttempts,
                    login : {"none", "asking", "syncing"}]

CloudInit ==
    /\ mqttClient = [reject |-> FALSE, connecting |-> FALSE, online |-> FALSE, fresh |-> FALSE,
                 handle |-> NoHandle, backoff |-> 1, fetches |-> 0, timers |-> 0]
    /\ links = [h \in Handles |-> "none"]
    /\ session = [loggedIn |-> FALSE, attached |-> FALSE, attempts |-> 0, login |-> "none"]

-----------------------------------------------------------------------------
(* The MQTT client *)

\* The handle is overwritten, whatever it held.
Connect(c) ==
    \E h \in {h \in Handles : links[h] = "none"} :
       /\ mqttClient' = [c EXCEPT !.handle = h, !.connecting = TRUE]
       /\ links' = [links EXCEPT ![h] = "opening"]

\* (slip: a start that is forced does not take the refusal back)
StartRefused(c, force, refresh) ==
    CASE c.reject /\ ~force -> mqttClient' = c /\ UNCHANGED links
      [] (~c.reject \/ force) /\ (refresh \/ ~c.fresh) ->
           mqttClient' = [c EXCEPT !.fetches = @ + 1] /\ UNCHANGED links
      [] OTHER -> Connect(c)

Start(c, force, refresh) ==
    LET d == [c EXCEPT !.reject = @ /\ ~force]
    IN  CASE d.reject -> mqttClient' = d /\ UNCHANGED links
          [] ~d.reject /\ (refresh \/ ~d.fresh) ->
               mqttClient' = [d EXCEPT !.fetches = @ + 1] /\ UNCHANGED links
          [] OTHER -> Connect(d)

Reconnect(c) ==
    IF c.connecting THEN c
    ELSE [c EXCEPT !.online = FALSE, !.connecting = TRUE, !.timers = @ + 1,
                   !.backoff = IF @ <= MaxBackoff THEN 2 * @ ELSE @]

\* Neither the timer nor a token that was asked for is given up.
Suspend ==
    IF mqttClient.handle = NoHandle THEN UNCHANGED <<mqttClient, links>>
    ELSE /\ mqttClient' = [mqttClient EXCEPT !.reject = TRUE, !.handle = NoHandle, !.backoff = 1]
         /\ links' = [links EXCEPT ![mqttClient.handle] = "none"]

TokenArrives ==
    /\ mqttClient.fetches > 0
    /\ Connect([mqttClient EXCEPT !.fetches = @ - 1, !.fresh = TRUE])
    /\ UNCHANGED session

TokenFails ==
    /\ mqttClient.fetches > 0
    /\ mqttClient' = Reconnect([mqttClient EXCEPT !.fetches = @ - 1, !.connecting = FALSE])
    /\ UNCHANGED <<links, session>>

TokenExpires ==
    /\ mqttClient.fresh
    /\ mqttClient' = [mqttClient EXCEPT !.fresh = FALSE]
    /\ UNCHANGED <<links, session>>

\* 'connect'
Connected(h) ==
    /\ links[h] = "opening"
    /\ links' = [links EXCEPT ![h] = "open"]
    /\ mqttClient' = [mqttClient EXCEPT !.backoff = 1, !.reject = FALSE, !.connecting = FALSE,
                                !.online = TRUE]
    /\ UNCHANGED session

\* (slip: the flag is left to the next attempt)
ErrorKeepsConnecting(h) ==
    /\ links[h] # "none"
    /\ links' = [links EXCEPT ![h] = "none"]
    /\ mqttClient' = Reconnect(mqttClient)
    /\ UNCHANGED session

\* 'error'
ConnectionError(h) ==
    /\ links[h] # "none"
    /\ links' = [links EXCEPT ![h] = "none"]
    /\ mqttClient' = Reconnect([mqttClient EXCEPT !.connecting = FALSE])
    /\ UNCHANGED session

\* 'offline'
Offline(h) ==
    /\ links[h] = "open"
    /\ links' = [links EXCEPT ![h] = "none"]
    /\ mqttClient' = Reconnect(mqttClient)
    /\ UNCHANGED session

ReconnectTimer ==
    /\ mqttClient.timers > 0
    /\ Start([mqttClient EXCEPT !.timers = @ - 1], FALSE, TRUE)
    /\ UNCHANGED session

-----------------------------------------------------------------------------
(* The log-in *)

\* custodian.onLogout, and wormhole.setOffline once the wormhole has a client.
OnLogout(login) ==
    /\ session' = [session EXCEPT !.loggedIn = FALSE, !.login = login,
                                  !.attempts = @ + (IF login = session.login THEN 0 ELSE 1)]
    /\ IF session.attached THEN Suspend ELSE UNCHANGED <<mqttClient, links>>

Login(another) ==
    /\ session.attempts < MaxAttempts
    /\ session.login = "none"
    /\ another => "again" \in CloudOps
    /\ ~session.loggedIn \/ another
    /\ OnLogout("asking")

\* Logs out although a log-in is on, which then rejects another.
Relogin ==
    /\ "relogin" \in CloudOps /\ session.attempts < MaxAttempts
    /\ OnLogout(IF session.login = "none" THEN "asking" ELSE session.login)

\* handleResponse starts the client and synchronizes the date.
LoginAnswered ==
    /\ session.login = "asking"
    /\ Start(mqttClient, TRUE, FALSE)
    /\ session' = [session EXCEPT !.login = "syncing"]

LoginFails ==
    /\ session.login = "asking"
    /\ session' = [session EXCEPT !.login = "none"]
    /\ UNCHANGED <<mqttClient, links>>

\* The date was synchronized or not; onLoggedIn.
LoggedIn ==
    /\ session.login = "syncing"
    /\ session' = [session EXCEPT !.login = "none", !.loggedIn = TRUE, !.attached = TRUE]
    /\ UNCHANGED <<mqttClient, links>>

CloudNext ==
    \/ TokenArrives \/ TokenFails \/ TokenExpires
    \/ \E h \in Handles : Connected(h) \/ ConnectionError(h) \/ Offline(h)
    \/ ReconnectTimer
    \/ (\E another \in BOOLEAN : Login(another)) \/ Relogin
    \/ LoginAnswered \/ LoginFails \/ LoggedIn

CloudSpec == CloudInit /\ [][CloudNext]_cloudVars

\* Timers fire; a server that is asked again and again answers in the end.
CloudFairness ==
    /\ WF_cloudVars(ReconnectTimer)
    /\ SF_cloudVars(TokenArrives)
    /\ SF_cloudVars(mqttClient.handle # NoHandle /\ Connected(mqttClient.handle))

-----------------------------------------------------------------------------
(* Properties *)

\* Who is logged in has a client that may connect: each log-out that suspends
\* the client is followed by a log-in that starts it before it is through.
LoggedInMayConnect == session.loggedIn => ~mqttClient.reject

\* "the previous connection is still going, just skip": the flag that holds
\* reconnections back stands for an attempt that is under way, unless the
\* client is suspended.
ConnectingHasCause ==
    mqttClient.connecting =>
      \/ mqttClient.reject \/ mqttClient.fetches > 0 \/ mqttClient.timers > 0
      \/ \E h \in Handles : links[h] = "opening"

\* Whatever fails, a device that stays logged in is on line again.
ComesOnline ==
    session.loggedIn ~> \/ ~session.loggedIn
                        \/ mqttClient.handle # NoHandle /\ links[mqttClient.handle] = "open"

\* "the previous connection is still going, just skip": one connection.
OneConnection == Cardinality({h \in Handles : links[h] # "none"}) <= 1

\* "The maximum backoff time before giving up, in seconds."
BackoffWithinMaximum == mqttClient.backoff <= MaxBackoff

\* The connection to the cloud does not get stuck in a state whose cause is gone.
CloudInv == CloudTypeOK /\ LoggedInMayConnect /\ ConnectingHasCause
=============================================================================
