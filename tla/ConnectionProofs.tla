-------------------------- MODULE ConnectionProofs --------------------------
(***************************************************************************)
(* Proofs about the three components that connect the device: the network  *)
(* and its setup, the cloud API with its MQTT clients, and the bluetooth   *)
(* app with its adapters. They share no state; each has an invariant of    *)
(* its own.                                                                *)
(***************************************************************************)
EXTENDS Network, Cloud, Bluetooth, FiniteSetTheorems, SequenceTheorems, TLAPS

-----------------------------------------------------------------------------
(***************************************************************************)
(* Proofs about Network: however many access points a phone sends and      *)
(* however often the connection changes, the device is never left with its *)
(* access points disabled, and no setup is left without its timer, as long *)
(* as the app of the setup does not crash and nobody asks for a setup in   *)
(* the second in which one leaves (Troubles = {}).                         *)
(***************************************************************************)

WifiType == [up : BOOLEAN, told : BOOLEAN, changes : 0 .. MaxChanges,
             saved : BOOLEAN, joined : BOOLEAN, enabled : BOOLEAN]
CustType == [connected : {"unknown", "yes", "no"}, checking : BOOLEAN,
             loggedIn : BOOLEAN, prompting : BOOLEAN]
NetType == [open : BOOLEAN, ble : {"closed", "opening", "open", "connected"},
            connecting : BOOLEAN, master : Masters \cup {NoMaster},
            sleep : BOOLEAN, leaving : BOOLEAN, settled : BOOLEAN]
ConnType == [begun : 0 .. MaxBinds, polls : SUBSET Binds, timeouts : SUBSET Binds]
AuthType == [busy : BOOLEAN, master : Masters \cup {NoMaster}]

\* A connection that is up was joined for the setup, or is one the device joins
\* by itself: after DisableAll none is up.
UpHasCause(w) == w.up => w.joined \/ (w.saved /\ w.enabled)

\* A setup that has settled is about to leave, and has put back what was saved;
\* when the app has ended with its process nothing of a setup is left.
Sound(w, n) ==
    /\ n.settled => n.leaving /\ w.enabled
    /\ ~n.open => ~n.settled /\ ~n.leaving /\ n.ble = "closed"
    /\ w.saved /\ ~n.open => w.enabled
    /\ n.open => n.sleep \/ n.leaving

NetworkIInv ==
    /\ wifi \in WifiType /\ cust \in CustType /\ net \in NetType
    /\ conn \in ConnType /\ auth \in AuthType
    /\ UpHasCause(wifi) /\ Sound(wifi, net)

-----------------------------------------------------------------------------
(* What the helpers make of a good state *)

LEMMA WifiHelpers ==
    ASSUME NEW w \in WifiType, UpHasCause(w)
    PROVE  /\ Unjoined(w) \in WifiType /\ UpHasCause(Unjoined(w))
           /\ ScanPassively(w) \in WifiType /\ UpHasCause(ScanPassively(w))
           /\ ScanPassively(Unjoined(w)) \in WifiType /\ UpHasCause(ScanPassively(Unjoined(w)))
           /\ DisableAll(w) \in WifiType /\ UpHasCause(DisableAll(w))
           /\ RemoveAll(w) \in WifiType
           /\ DisableAll(RemoveAll(w)) \in WifiType /\ UpHasCause(DisableAll(RemoveAll(w)))
<1>1. Unjoined(w) \in WifiType /\ UpHasCause(Unjoined(w))
  BY DEF WifiType, UpHasCause, Unjoined
<1>2. ASSUME NEW v \in WifiType, UpHasCause(v)
      PROVE  ScanPassively(v) \in WifiType /\ UpHasCause(ScanPassively(v))
  BY <1>2 DEF WifiType, UpHasCause, ScanPassively
<1>3. ASSUME NEW v \in WifiType
      PROVE  DisableAll(v) \in WifiType /\ UpHasCause(DisableAll(v))
  BY <1>3 DEF WifiType, UpHasCause, DisableAll
<1>4. RemoveAll(w) \in WifiType
  BY DEF WifiType, DisableAll, RemoveAll
<1> QED
  BY <1>1, <1>2, <1>3, <1>4

LEMMA WifiFields ==
    ASSUME NEW w \in WifiType
    PROVE  /\ Unjoined(w).saved = w.saved /\ Unjoined(w).enabled = w.enabled
           /\ ScanPassively(w).enabled
BY DEF WifiType, Unjoined, ScanPassively

LEMMA ClosedIsSound ==
    ASSUME NEW w \in WifiType, w.saved => w.enabled
    PROVE  Closed \in NetType /\ Sound(w, Closed)
BY NetworkAssumption DEF Closed, NetType, Sound

LEMMA SetupIsSound ==
    ASSUME NEW w \in WifiType, net \in NetType, ~net.settled, SetupNetworkByBle(w)
    PROVE  /\ net' \in NetType /\ wifi' \in WifiType
           /\ UpHasCause(wifi') /\ Sound(wifi', net')
<1>1. wifi' \in WifiType /\ UpHasCause(wifi')
  BY DEF SetupNetworkByBle, DisableAll, WifiType, UpHasCause
<1>2. net' \in NetType /\ net'.open /\ net'.sleep /\ ~net'.settled
  BY DEF SetupNetworkByBle, NetType
<1> QED
  BY <1>1, <1>2 DEF Sound

-----------------------------------------------------------------------------
LEMMA NetworkStarts == NetworkInit => NetworkIInv
BY NetworkAssumption DEF NetworkInit, NetworkIInv, UpHasCause, Sound, Closed,
   WifiType, CustType, NetType, ConnType, AuthType

LEMMA StopKeeps ==
    ASSUME NetworkIInv, NEW ended, StopConnect(ended)
    PROVE  NetworkIInv'
<1>1. wifi' \in WifiType /\ UpHasCause(wifi')
      /\ wifi'.saved = wifi.saved /\ wifi'.enabled = wifi.enabled
  BY WifiHelpers, WifiFields DEF NetworkIInv, StopConnect
<1>2. net' \in NetType /\ Sound(wifi', net')
  BY <1>1 DEF NetworkIInv, StopConnect, NetType, Sound
<1>3. conn' \in ConnType
  BY DEF NetworkIInv, StopConnect, ConnType
<1> QED
  BY <1>1, <1>2, <1>3 DEF NetworkIInv, StopConnect

LEMMA IntoSleepKeeps ==
    ASSUME NetworkIInv, IntoSleep, UNCHANGED <<cust, auth>>
    PROVE  NetworkIInv'
<1>1. wifi' \in WifiType /\ UpHasCause(wifi') /\ (wifi'.saved => wifi'.enabled)
  <2>1. CASE net.settled
    BY <2>1 DEF NetworkIInv, IntoSleep, Sound
  <2>2. CASE ~net.settled
    BY <2>2, WifiHelpers, WifiFields DEF NetworkIInv, IntoSleep
  <2> QED
    BY <2>1, <2>2
<1>2. net' \in NetType /\ Sound(wifi', net')
  BY <1>1, ClosedIsSound DEF IntoSleep
<1>3. conn' \in ConnType
  BY DEF NetworkIInv, IntoSleep, ConnType
<1> QED
  BY <1>1, <1>2, <1>3 DEF NetworkIInv

\* The network app, whatever reaches it.
LEMMA AppSteps ==
    ASSUME NetworkIInv, Troubles = {},
           \/ \E ok \in BOOLEAN : StreamStarts(ok)
           \/ Handshaked \/ Disconnected \/ WifiStatus
           \/ \E m \in Masters : Bind(m)
           \/ \E n \in Binds : PollConnects(n) \/ ConnectTimeout(n)
           \/ AppTimer \/ AppDestroyed \/ AppCrashes
    PROVE  NetworkIInv'
<1>1. ASSUME NEW ok \in BOOLEAN, StreamStarts(ok)
      PROVE  NetworkIInv'
  BY <1>1 DEF NetworkIInv, StreamStarts, NetType, Sound
<1>2. CASE Handshaked
  BY <1>2 DEF NetworkIInv, Handshaked, NetType, Sound
<1>3. CASE Disconnected
  BY <1>3 DEF NetworkIInv, Disconnected, NetType, Sound
<1>4. CASE WifiStatus
  BY <1>4, StopKeeps DEF WifiStatus
<1>5. ASSUME NEW m \in Masters, Bind(m)
      PROVE  NetworkIInv'
  <2>1. wifi' \in WifiType /\ UpHasCause(wifi')
        /\ wifi'.saved = wifi.saved /\ wifi'.enabled = wifi.enabled
    BY <1>5 DEF NetworkIInv, Bind, WifiType, UpHasCause
  <2>2. net' \in NetType
    BY <1>5 DEF NetworkIInv, Bind, NetType
  <2>3. Sound(wifi', net')
    BY <1>5, <2>1 DEF NetworkIInv, Bind, NetType, Sound
  <2>4. conn' \in ConnType
    <3> DEFINE n == conn.begun + 1
    <3>1. n \in Binds
      BY <1>5 DEF Bind
    <3>2. n \in 0 .. MaxBinds
      BY <3>1, NetworkAssumption DEF Binds
    <3>3. conn' = [begun |-> n, polls |-> conn.polls \cup {n},
                   timeouts |-> conn.timeouts \cup {n}]
      BY <1>5 DEF Bind
    <3> HIDE DEF n
    <3> QED
      BY <3>1, <3>2, <3>3 DEF NetworkIInv, ConnType
  <2> QED
    BY <1>5, <2>1, <2>2, <2>3, <2>4 DEF NetworkIInv, Bind
<1>6. ASSUME NEW n \in Binds, PollConnects(n)
      PROVE  NetworkIInv'
  <2>1. net' \in NetType /\ Sound(wifi', net')
    BY <1>6 DEF NetworkIInv, PollConnects, NetType, Sound
  <2>2. conn' \in ConnType
    BY <1>6 DEF NetworkIInv, PollConnects, ConnType
  <2> QED
    BY <1>6, <2>1, <2>2 DEF NetworkIInv, PollConnects
<1>7. ASSUME NEW n \in Binds, ConnectTimeout(n)
      PROVE  NetworkIInv'
  BY <1>7, StopKeeps DEF ConnectTimeout
<1>8. CASE AppTimer
  BY <1>8, IntoSleepKeeps DEF AppTimer
<1>9. CASE AppDestroyed
  BY <1>9, IntoSleepKeeps DEF AppDestroyed
<1>10. CASE AppCrashes
  BY <1>10 DEF AppCrashes
<1> QED
  BY <1>1, <1>2, <1>3, <1>4, <1>5, <1>6, <1>7, <1>8, <1>9, <1>10

-----------------------------------------------------------------------------
(* Custodian and the log-in *)

LEMMA LoginTyped ==
    ASSUME NEW master \in Masters \cup {NoMaster}, NEW c \in CustType, auth \in AuthType,
           LoginAs(master, c)
    PROVE  cust' \in CustType /\ auth' \in AuthType
<1>1. [c EXCEPT !.loggedIn = FALSE] \in CustType
  BY DEF CustType
<1>2. [busy |-> TRUE, master |-> master] \in AuthType
  BY DEF AuthType
<1> QED
  BY <1>1, <1>2 DEF LoginAs

LEMMA ResetKeeps ==
    ASSUME NetworkIInv, ~net.settled, NEW c \in CustType, NEW w \in WifiType,
           NEW removeAll \in BOOLEAN, UpHasCause(w),
           ResetByCustodian(c, w, removeAll), UNCHANGED <<conn, auth>>
    PROVE  NetworkIInv'
<1>1. cust' \in CustType
  BY DEF ResetByCustodian, CustType
<1>2. (IF removeAll THEN RemoveAll(w) ELSE w) \in WifiType
  BY WifiHelpers
<1>3. /\ net' \in NetType /\ wifi' \in WifiType
      /\ UpHasCause(wifi') /\ Sound(wifi', net')
  BY <1>2, SetupIsSound DEF ResetByCustodian, NetworkIInv
<1> QED
  BY <1>1, <1>3 DEF NetworkIInv

LEMMA DisconnectKeeps ==
    ASSUME NetworkIInv, NEW c \in CustType, NEW w \in WifiType, UpHasCause(w),
           w.saved = wifi.saved, w.enabled = wifi.enabled,
           OnNetworkDisconnect(c, w), UNCHANGED <<conn, auth>>
    PROVE  NetworkIInv'
<1> DEFINE gone == [c EXCEPT !.connected = "no"]
<1>1. gone \in CustType
  BY DEF CustType
<1> HIDE DEF gone
<1>2. CASE c.connected = "no" \/ net.open
  BY <1>1, <1>2 DEF OnNetworkDisconnect, NetworkIInv, Sound, gone
<1>3. CASE ~(c.connected = "no" \/ net.open) /\ History(w)
  <2>1. wifi' = ScanPassively(w) /\ net' = net /\ cust' = gone
    BY <1>3 DEF OnNetworkDisconnect, gone
  <2>2. wifi' \in WifiType /\ UpHasCause(wifi') /\ wifi'.enabled
    BY <2>1, WifiHelpers, WifiFields
  <2> QED
    BY <1>1, <2>1, <2>2 DEF NetworkIInv, Sound
<1>4. CASE ~(c.connected = "no" \/ net.open) /\ ~History(w)
  <2>1. ResetByCustodian(gone, w, TRUE)
    BY <1>4 DEF OnNetworkDisconnect, gone
  <2>2. ~net.settled
    BY <1>4 DEF NetworkIInv, Sound
  <2> QED
    BY <1>1, <2>1, <2>2, ResetKeeps
<1> QED
  BY <1>2, <1>3, <1>4

LEMMA ConnectTyped ==
    ASSUME NEW c \in CustType, OnNetworkConnect(c)
    PROVE  cust' \in CustType
BY DEF OnNetworkConnect, CustType

LEMMA ReconnectKeeps ==
    ASSUME NetworkIInv, NEW c \in CustType, ReconnectCloud(c), UNCHANGED <<wifi, conn>>
    PROVE  NetworkIInv'
<1>1. net.master \in Masters \cup {NoMaster}
  BY DEF NetworkIInv, NetType
<1>2. cust' \in CustType /\ auth' \in AuthType
  BY <1>1, LoginTyped DEF NetworkIInv, ReconnectCloud
<1>3. net' \in NetType /\ Sound(wifi', net')
  BY DEF NetworkIInv, ReconnectCloud, NetType, Sound
<1> QED
  BY <1>2, <1>3 DEF NetworkIInv

\* What happens to the device, and what custodian makes of it.
LEMMA CustodianSteps ==
    ASSUME NetworkIInv, Troubles = {},
           \/ ConnectionChanges
           \/ \E yes \in BOOLEAN :
                ReportSysStatus(yes) \/ NetworkChecked(yes) \/ CustodianPrepares(yes)
                \/ ResetNetworkByUser(yes) \/ CloudLoginFails(yes)
           \/ PromptTimer \/ CustodianLoggedIn \/ CloudRelogin \/ TurenDidWakeUp
    PROVE  NetworkIInv'
<1>1. CASE ConnectionChanges
  <2>1. wifi.changes' \in 0 .. MaxChanges
    BY <1>1, NetworkAssumption DEF NetworkIInv, ConnectionChanges, WifiType
  <2>2. wifi' \in WifiType /\ UpHasCause(wifi')
        /\ wifi'.saved = wifi.saved /\ wifi'.enabled = wifi.enabled
    BY <1>1, <2>1 DEF NetworkIInv, ConnectionChanges, WifiType, UpHasCause
  <2> QED
    BY <1>1, <2>2 DEF NetworkIInv, ConnectionChanges, Sound
<1>2. ASSUME NEW yes \in BOOLEAN, ReportSysStatus(yes)
      PROVE  NetworkIInv'
  <2> DEFINE told == [wifi EXCEPT !.told = wifi.up]
  <2>1. /\ told \in WifiType /\ UpHasCause(told)
        /\ told.saved = wifi.saved /\ told.enabled = wifi.enabled
    BY DEF NetworkIInv, WifiType, UpHasCause
  <2> HIDE DEF told
  <2>2. CASE ~yes /\ ~wifi.up
    <3>1. OnNetworkDisconnect(cust, told) /\ UNCHANGED <<conn, auth>>
      BY <1>2, <2>2 DEF ReportSysStatus, told
    <3> QED
      BY <2>1, <3>1, DisconnectKeeps DEF NetworkIInv
  <2>3. CASE ~(~yes /\ ~wifi.up)
    <3>1. cust' \in CustType
      BY <1>2, <2>3, ConnectTyped DEF ReportSysStatus, NetworkIInv
    <3>2. wifi' = told /\ UNCHANGED <<net, conn, auth>>
      BY <1>2, <2>3 DEF ReportSysStatus, told
    <3> QED
      BY <2>1, <3>1, <3>2 DEF NetworkIInv, Sound
  <2> QED
    BY <2>2, <2>3
<1>3. ASSUME NEW yes \in BOOLEAN, NetworkChecked(yes)
      PROVE  NetworkIInv'
  <2> DEFINE c == [cust EXCEPT !.checking = FALSE]
  <2>1. c \in CustType
    BY DEF NetworkIInv, CustType
  <2> HIDE DEF c
  <2>2. CASE yes
    <3>1. ReconnectCloud(c) /\ UNCHANGED <<wifi, conn>>
      BY <1>3, <2>2 DEF NetworkChecked, c
    <3> QED
      BY <2>1, <3>1, ReconnectKeeps
  <2>3. CASE ~yes
    <3>1. OnNetworkDisconnect(c, wifi) /\ UNCHANGED <<conn, auth>>
      BY <1>3, <2>3 DEF NetworkChecked, c
    <3> QED
      BY <2>1, <3>1, DisconnectKeeps DEF NetworkIInv
  <2> QED
    BY <2>2, <2>3
<1>4. ASSUME NEW yes \in BOOLEAN, CustodianPrepares(yes)
      PROVE  NetworkIInv'
  <2> DEFINE c == IF yes THEN [cust EXCEPT !.connected = "unknown"] ELSE cust
  <2>1. c \in CustType
    BY DEF NetworkIInv, CustType
  <2>2. PrepareNetwork(c) /\ UNCHANGED <<conn, auth>>
    BY <1>4 DEF CustodianPrepares
  <2> HIDE DEF c
  <2>3. CASE wifi.up
    BY <2>1, <2>2, <2>3, ConnectTyped DEF PrepareNetwork, NetworkIInv
  <2>4. CASE ~wifi.up /\ History(wifi)
    <3>1. cust' \in CustType
      BY <2>1, <2>2, <2>4 DEF PrepareNetwork, CustType
    <3> QED
      BY <2>2, <2>4, <3>1 DEF PrepareNetwork, NetworkIInv
  <2>5. CASE ~wifi.up /\ ~History(wifi)
    BY <2>1, <2>2, <2>5, DisconnectKeeps DEF PrepareNetwork, NetworkIInv
  <2> QED
    BY <2>3, <2>4, <2>5
<1>5. ASSUME NEW yes \in BOOLEAN, ResetNetworkByUser(yes)
      PROVE  NetworkIInv'
  <2>1. ~net.settled
    BY <1>5 DEF ResetNetworkByUser, NetworkIInv, Sound
  <2> QED
    BY <1>5, <2>1, ResetKeeps DEF ResetNetworkByUser, NetworkIInv
<1>6. ASSUME NEW yes \in BOOLEAN, CloudLoginFails(yes)
      PROVE  NetworkIInv'
  <2>1. auth' \in AuthType
    BY <1>6, NetworkAssumption DEF CloudLoginFails, AuthType
  <2>2. CASE yes
    <3>1. ~net.settled
      BY <1>6, <2>2 DEF CloudLoginFails, NetworkIInv, Sound
    <3>2. cust' \in CustType
      BY <1>6, <2>2 DEF CloudLoginFails, ResetByCustodian, NetworkIInv, CustType
    <3>3. /\ net' \in NetType /\ wifi' \in WifiType
          /\ UpHasCause(wifi') /\ Sound(wifi', net')
      BY <1>6, <2>2, <3>1, SetupIsSound DEF CloudLoginFails, ResetByCustodian, NetworkIInv
    <3> QED
      BY <1>6, <2>1, <3>2, <3>3 DEF CloudLoginFails, NetworkIInv
  <2>3. CASE ~yes
    <3>1. wifi' \in WifiType /\ UpHasCause(wifi')
          /\ wifi'.saved = wifi.saved /\ wifi'.enabled = wifi.enabled
      BY <1>6, <2>3, WifiHelpers, WifiFields DEF CloudLoginFails, NetworkIInv
    <3> QED
      BY <1>6, <2>1, <2>3, <3>1 DEF CloudLoginFails, NetworkIInv, Sound
  <2> QED
    BY <2>2, <2>3
<1>7. CASE PromptTimer
  <2>1. cust' \in CustType
    BY <1>7 DEF PromptTimer, NetworkIInv, CustType
  <2> QED
    BY <1>7, <2>1 DEF PromptTimer, NetworkIInv
<1>8. CASE CustodianLoggedIn
  <2>1. auth' \in AuthType /\ cust' \in CustType
    BY <1>8, NetworkAssumption DEF CustodianLoggedIn, NetworkIInv, AuthType, CustType
  <2>2. wifi' \in WifiType /\ UpHasCause(wifi')
    BY <1>8 DEF CustodianLoggedIn, NetworkIInv, WifiType, UpHasCause, History
  <2>3. wifi'.enabled = (wifi.enabled \/ wifi.joined)
        /\ wifi'.saved = (wifi.saved \/ wifi.joined)
    BY <1>8 DEF CustodianLoggedIn, NetworkIInv, WifiType, History
  <2>4. wifi'.enabled
    BY <1>8, <2>3 DEF CustodianLoggedIn, NetworkIInv, UpHasCause
  <2>5. net' \in NetType
    BY <1>8 DEF CustodianLoggedIn, NetworkIInv, NetType
  <2>6. Sound(wifi', net')
    BY <1>8, <2>4 DEF CustodianLoggedIn, NetworkIInv, NetType, Sound
  <2> QED
    BY <1>8, <2>1, <2>2, <2>5, <2>6 DEF CustodianLoggedIn, NetworkIInv
<1>9. CASE CloudRelogin
  <2>1. [cust EXCEPT !.loggedIn = FALSE] \in CustType
    BY DEF NetworkIInv, CustType
  <2> QED
    BY <1>9, <2>1, ReconnectKeeps DEF CloudRelogin
<1>10. CASE TurenDidWakeUp
  <2>1. CASE net.open /\ net.ble = "connected"
    <3>1. net' \in NetType /\ Sound(wifi', net')
      BY <1>10, <2>1 DEF TurenDidWakeUp, Renew, NetworkIInv, NetType, Sound
    <3> QED
      BY <1>10, <2>1, <3>1 DEF TurenDidWakeUp, Renew, NetworkIInv
  <2>2. CASE net.open /\ net.ble # "connected"
    <3>1. ~net.settled /\ SetupNetworkByBle(wifi)
      BY <1>10, <2>2 DEF TurenDidWakeUp, Renew, NetworkIInv, Sound
    <3> QED
      BY <1>10, <3>1, SetupIsSound DEF TurenDidWakeUp, NetworkIInv
  <2>3. CASE ~net.open
    <3>1. wifi' \in WifiType /\ UpHasCause(wifi') /\ (wifi'.enabled \/ wifi' = wifi)
      BY <1>10, <2>3, WifiHelpers, WifiFields DEF TurenDidWakeUp, NetworkIInv
    <3> QED
      BY <1>10, <2>3, <3>1 DEF TurenDidWakeUp, NetworkIInv, Sound
  <2> QED
    BY <2>1, <2>2, <2>3
<1> QED
  BY <1>1, <1>2, <1>3, <1>4, <1>5, <1>6, <1>7, <1>8, <1>9, <1>10

LEMMA NetworkInductive ==
    ASSUME NetworkIInv, Troubles = {}, [NetworkNext]_networkVars
    PROVE  NetworkIInv'
<1>1. CASE UNCHANGED networkVars
  BY <1>1 DEF networkVars, NetworkIInv
<1> QED
  BY <1>1, AppSteps, CustodianSteps DEF NetworkNext

\* However a setup ends, the access points the device knows are enabled again,
\* and no setup is left without a timer that ends it (NetworkInv), for any
\* accounts, any number of access points sent and any changes of the connection.
THEOREM NetworkSound ==
    ASSUME Troubles = {}
    PROVE  NetworkSpec => []NetworkInv
<1>1. NetworkIInv => NetworkInv
  BY DEF NetworkIInv, NetworkInv, NetworkTypeOK, NotLeftDisabled, SetupEnds, Sound,
         WifiType, CustType, NetType, ConnType, AuthType
<1>2. NetworkIInv /\ [NetworkNext]_networkVars => NetworkIInv'
  BY NetworkInductive
<1> QED
  BY <1>1, <1>2, NetworkStarts, PTL DEF NetworkSpec

-----------------------------------------------------------------------------
(***************************************************************************)
(* Proofs about Cloud, for any connections, log-ins and backoff: whoever   *)
(* is logged in has a client that may connect, and the flag that holds     *)
(* reconnections back has a cause, however log-ins, tokens, errors and     *)
(* timers follow upon one another. Relogin, a method on the bus that logs  *)
(* out while a log-in is on, is left out: it breaks the first of these.    *)
(***************************************************************************)

ClientType ==
    [reject : BOOLEAN, connecting : BOOLEAN, online : BOOLEAN, fresh : BOOLEAN,
     handle : Handles \cup {NoHandle},
     backoff : 1 .. 2 * MaxBackoff, fetches : Nat, timers : Nat]

LinkType == [Handles -> {"none", "opening", "open"}]

SessionType ==
    [loggedIn : BOOLEAN, attached : BOOLEAN, attempts : 0 .. MaxAttempts,
     login : {"none", "asking", "syncing"}]

CloudTyped == mqttClient \in ClientType /\ links \in LinkType /\ session \in SessionType

Callers(l) == {h \in Handles : l[h] # "none"}

\* A client that a log-out has suspended is started again before the log-in is
\* through.
SyncingMayConnect == session.login = "syncing" => ~mqttClient.reject

\* Each log-in is the cause of one thing that is under way, its request, a
\* token, a connection or a timer, and of nothing else.
OneEachLogin ==
    mqttClient.fetches + mqttClient.timers + Cardinality(Callers(links))
      + (IF session.login = "asking" THEN 1 ELSE 0) <= session.attempts

CloudIInv ==
    /\ CloudTyped /\ SyncingMayConnect /\ OneEachLogin
    /\ LoggedInMayConnect /\ ConnectingHasCause

-----------------------------------------------------------------------------
(* Connections that call back *)

LEMMA CallersFinite ==
    ASSUME IsFiniteSet(Handles), NEW l
    PROVE  IsFiniteSet(Callers(l)) /\ Cardinality(Callers(l)) \in Nat
<1>1. Callers(l) \subseteq Handles
  BY DEF Callers
<1> QED
  BY <1>1, FS_Subset, FS_CardinalityType

LEMMA CallerComes ==
    ASSUME IsFiniteSet(Handles), NEW l \in LinkType, NEW h \in Handles, l[h] = "none"
    PROVE  /\ [l EXCEPT ![h] = "opening"] \in LinkType
           /\ Cardinality(Callers([l EXCEPT ![h] = "opening"])) = Cardinality(Callers(l)) + 1
<1>1. Callers([l EXCEPT ![h] = "opening"]) = Callers(l) \cup {h}
  BY DEF Callers, LinkType
<1>2. h \notin Callers(l)
  BY DEF Callers
<1> QED
  BY <1>1, <1>2, CallersFinite, FS_AddElement DEF LinkType

LEMMA CallerGoes ==
    ASSUME IsFiniteSet(Handles), NEW l \in LinkType, NEW h \in Handles
    PROVE  /\ [l EXCEPT ![h] = "none"] \in LinkType
           /\ Cardinality(Callers([l EXCEPT ![h] = "none"]))
                = Cardinality(Callers(l)) - (IF l[h] # "none" THEN 1 ELSE 0)
<1>1. Callers([l EXCEPT ![h] = "none"]) = Callers(l) \ {h}
  BY DEF Callers, LinkType
<1>2. CASE l[h] # "none"
  <2>1. h \in Callers(l)
    BY <1>2 DEF Callers
  <2> QED
    BY <1>1, <1>2, <2>1, CallersFinite, FS_RemoveElement DEF LinkType
<1>3. CASE l[h] = "none"
  <2>1. Callers([l EXCEPT ![h] = "none"]) = Callers(l)
    BY <1>1, <1>3 DEF Callers
  <2> QED
    BY <1>3, <2>1, CallersFinite DEF LinkType
<1> QED
  BY <1>2, <1>3

LEMMA CallerStays ==
    ASSUME NEW l \in LinkType, NEW h \in Handles, l[h] = "opening"
    PROVE  /\ [l EXCEPT ![h] = "open"] \in LinkType
           /\ Callers([l EXCEPT ![h] = "open"]) = Callers(l)
BY DEF LinkType, Callers

-----------------------------------------------------------------------------
(* What the operations make of the client c *)

\* Connecting takes the handle, sets the flag and opens one connection.
LEMMA ConnectFacts ==
    ASSUME IsFiniteSet(Handles), links \in LinkType, NEW c \in ClientType, Connect(c)
    PROVE  /\ mqttClient' \in ClientType /\ links' \in LinkType
           /\ mqttClient'.reject = c.reject
           /\ mqttClient'.fetches = c.fetches /\ mqttClient'.timers = c.timers
           /\ Cardinality(Callers(links')) = Cardinality(Callers(links)) + 1
           /\ \E h \in Handles : links'[h] = "opening"
<1>1. PICK h \in Handles : /\ links[h] = "none"
                           /\ mqttClient' = [c EXCEPT !.handle = h, !.connecting = TRUE]
                           /\ links' = [links EXCEPT ![h] = "opening"]
  BY DEF Connect
<1>2. /\ mqttClient' \in ClientType
      /\ mqttClient'.reject = c.reject
      /\ mqttClient'.fetches = c.fetches /\ mqttClient'.timers = c.timers
  BY <1>1 DEF ClientType
<1>3. links'[h] = "opening"
  BY <1>1 DEF LinkType
<1> QED
  BY <1>1, <1>2, <1>3, CallerComes

LEMMA ReconnectFacts ==
    ASSUME NEW c \in ClientType
    PROVE  /\ Reconnect(c) \in ClientType
           /\ Reconnect(c).reject = c.reject /\ Reconnect(c).fetches = c.fetches
           /\ c.connecting => Reconnect(c) = c
           /\ ~c.connecting => Reconnect(c).timers = c.timers + 1
<1>1. CASE c.connecting
  BY <1>1 DEF Reconnect
<1>2. CASE ~c.connecting
  <2> DEFINE b == IF c.backoff <= MaxBackoff THEN 2 * c.backoff ELSE c.backoff
             n == c.timers + 1
  <2>1. b \in 1 .. 2 * MaxBackoff /\ n \in Nat
    BY CloudAssumption DEF ClientType
  <2>2. Reconnect(c) = [c EXCEPT !.online = FALSE, !.connecting = TRUE, !.timers = n,
                                 !.backoff = b]
    BY <1>2 DEF Reconnect
  <2> HIDE DEF b, n
  <2>3. /\ Reconnect(c) \in ClientType
        /\ Reconnect(c).reject = c.reject /\ Reconnect(c).fetches = c.fetches
        /\ Reconnect(c).timers = n
    BY <2>1, <2>2 DEF ClientType
  <2> QED
    BY <1>2, <2>3 DEF n
<1> QED
  BY <1>1, <1>2

\* A suspended client is refused until it is started, and its connection says
\* no more.
LEMMA SuspendFacts ==
    ASSUME IsFiniteSet(Handles), CloudTyped, ConnectingHasCause,
           Suspend \/ UNCHANGED <<mqttClient, links>>
    PROVE  /\ mqttClient' \in ClientType /\ links' \in LinkType
           /\ mqttClient'.fetches = mqttClient.fetches
           /\ mqttClient'.timers = mqttClient.timers
           /\ Cardinality(Callers(links')) <= Cardinality(Callers(links))
           /\ ConnectingHasCause'
<1> USE DEF CloudTyped
<1>1. CASE UNCHANGED <<mqttClient, links>>
  <2>1. ConnectingHasCause'
    BY <1>1 DEF ConnectingHasCause
  <2> QED
    BY <1>1, <2>1, CallersFinite
<1>2. CASE Suspend /\ ~UNCHANGED <<mqttClient, links>>
  <2>1. /\ mqttClient.handle \in Handles
        /\ mqttClient' = [mqttClient EXCEPT !.reject = TRUE, !.handle = NoHandle, !.backoff = 1]
        /\ links' = [links EXCEPT ![mqttClient.handle] = "none"]
    <3>1. mqttClient.handle # NoHandle
      BY <1>2 DEF Suspend
    <3>2. mqttClient.handle \in Handles
      BY <3>1 DEF ClientType
    <3> QED
      BY <1>2, <3>1, <3>2 DEF Suspend
  <2>2. 1 \in 1 .. 2 * MaxBackoff
    BY CloudAssumption
  <2>3. mqttClient' \in ClientType
    BY <2>1, <2>2 DEF ClientType
  <2>4. /\ mqttClient'.reject
        /\ mqttClient'.fetches = mqttClient.fetches
        /\ mqttClient'.timers = mqttClient.timers
    BY <2>1 DEF ClientType
  <2>5. /\ links' \in LinkType
        /\ Cardinality(Callers(links')) <= Cardinality(Callers(links))
    <3> DEFINE h == mqttClient.handle
    <3>1. h \in Handles /\ links' = [links EXCEPT ![h] = "none"]
      BY <2>1
    <3> HIDE DEF h
    <3>2. Cardinality(Callers(links)) \in Nat
      BY CallersFinite
    <3>3. /\ [links EXCEPT ![h] = "none"] \in LinkType
          /\ Cardinality(Callers([links EXCEPT ![h] = "none"]))
               = Cardinality(Callers(links)) - (IF links[h] # "none" THEN 1 ELSE 0)
      BY <3>1, CallerGoes
    <3>4. (IF links[h] # "none" THEN 1 ELSE 0) \in {0, 1}
      OBVIOUS
    <3> QED
      BY <3>1, <3>2, <3>3, <3>4
  <2> QED
    BY <2>3, <2>4, <2>5 DEF ConnectingHasCause
<1> QED
  BY <1>1, <1>2

\* A client that is started and may connect asks for a token or connects.
LEMMA StartFacts ==
    ASSUME IsFiniteSet(Handles), links \in LinkType, NEW c \in ClientType,
           NEW refresh \in BOOLEAN,
           IF refresh \/ ~c.fresh
           THEN mqttClient' = [c EXCEPT !.fetches = @ + 1] /\ UNCHANGED links
           ELSE Connect(c)
    PROVE  /\ mqttClient' \in ClientType /\ links' \in LinkType
           /\ mqttClient'.reject = c.reject
           /\ mqttClient'.fetches + mqttClient'.timers + Cardinality(Callers(links'))
                = c.fetches + c.timers + Cardinality(Callers(links)) + 1
           /\ ConnectingHasCause'
<1>1. CASE refresh \/ ~c.fresh
  <2>1. /\ mqttClient' \in ClientType /\ mqttClient'.reject = c.reject
        /\ mqttClient'.fetches = c.fetches + 1 /\ mqttClient'.timers = c.timers
    BY <1>1 DEF ClientType
  <2>2. c.fetches \in Nat /\ c.timers \in Nat /\ mqttClient'.fetches > 0
    BY <2>1 DEF ClientType
  <2>3. UNCHANGED links
    BY <1>1
  <2> QED
    BY <2>1, <2>2, <2>3, CallersFinite DEF ConnectingHasCause
<1>2. CASE ~(refresh \/ ~c.fresh)
  <2>1. c.fetches \in Nat /\ c.timers \in Nat
    BY DEF ClientType
  <2> QED
    BY <1>2, <2>1, ConnectFacts, CallersFinite DEF ConnectingHasCause
<1> QED
  BY <1>1, <1>2

-----------------------------------------------------------------------------
LEMMA CloudStarts == IsFiniteSet(Handles) /\ CloudInit => CloudIInv
<1> SUFFICES ASSUME IsFiniteSet(Handles), CloudInit PROVE CloudIInv
  OBVIOUS
<1>1. CloudTyped
  BY CloudAssumption DEF CloudInit, CloudTyped, ClientType, LinkType, SessionType
<1>2. Callers(links) = {}
  BY DEF CloudInit, Callers
<1>3. OneEachLogin
  BY <1>2, FS_EmptySet DEF CloudInit, OneEachLogin
<1> QED
  BY <1>1, <1>3 DEF CloudInit, CloudIInv, SyncingMayConnect, LoggedInMayConnect,
     ConnectingHasCause

\* Tokens, connections and timers: the session is as it was.
LEMMA ClientSteps ==
    ASSUME IsFiniteSet(Handles), CloudIInv,
           \/ TokenArrives \/ TokenFails \/ TokenExpires \/ ReconnectTimer
           \/ \E h \in Handles : Connected(h) \/ ConnectionError(h) \/ Offline(h)
    PROVE  CloudIInv'
<1> USE DEF CloudIInv, CloudTyped
<1>1. ASSUME session' = session, mqttClient' \in ClientType, links' \in LinkType,
             mqttClient'.reject => mqttClient.reject,
             mqttClient'.fetches + mqttClient'.timers + Cardinality(Callers(links'))
               <= mqttClient.fetches + mqttClient.timers + Cardinality(Callers(links)),
             ConnectingHasCause'
      PROVE  CloudIInv'
  <2>1. /\ mqttClient.fetches \in Nat /\ mqttClient.timers \in Nat
        /\ mqttClient'.fetches \in Nat /\ mqttClient'.timers \in Nat
        /\ session.attempts \in Nat
    BY <1>1, CloudAssumption DEF ClientType, SessionType
  <2>2. OneEachLogin'
    BY <1>1, <2>1, CallersFinite DEF OneEachLogin
  <2> QED
    BY <1>1, <2>2 DEF SyncingMayConnect, LoggedInMayConnect
<1>2. CASE TokenArrives
  <2> DEFINE n == mqttClient.fetches - 1
             c == [mqttClient EXCEPT !.fetches = n, !.fresh = TRUE]
  <2>1. n \in Nat
    BY <1>2 DEF TokenArrives, ClientType
  <2> HIDE DEF n
  <2>2. /\ c \in ClientType /\ c.reject = mqttClient.reject
        /\ c.fetches = n /\ c.timers = mqttClient.timers
    BY <2>1 DEF ClientType
  <2>3. Connect(c) /\ session' = session
    BY <1>2 DEF TokenArrives, n
  <2> HIDE DEF c
  <2>4. mqttClient.fetches \in Nat /\ mqttClient.timers \in Nat /\ n = mqttClient.fetches - 1
    BY DEF ClientType, n
  <2> QED
    BY <1>1, <2>1, <2>2, <2>3, <2>4, ConnectFacts, CallersFinite DEF ConnectingHasCause
<1>3. CASE TokenFails
  <2> DEFINE n == mqttClient.fetches - 1
             c == [mqttClient EXCEPT !.fetches = n, !.connecting = FALSE]
  <2>1. n \in Nat
    BY <1>3 DEF TokenFails, ClientType
  <2> HIDE DEF n
  <2>2. /\ c \in ClientType /\ c.reject = mqttClient.reject /\ ~c.connecting
        /\ c.fetches = n /\ c.timers = mqttClient.timers
    BY <2>1 DEF ClientType
  <2>3. mqttClient' = Reconnect(c) /\ UNCHANGED <<links, session>>
    BY <1>3 DEF TokenFails, n
  <2> HIDE DEF c
  <2>4. /\ mqttClient.fetches \in Nat /\ mqttClient.timers \in Nat
        /\ n = mqttClient.fetches - 1
    BY DEF ClientType, n
  <2>5. /\ mqttClient' \in ClientType /\ mqttClient'.reject = mqttClient.reject
        /\ mqttClient'.fetches = n /\ mqttClient'.timers = mqttClient.timers + 1
    BY <2>2, <2>3, ReconnectFacts
  <2> QED
    BY <1>1, <2>3, <2>4, <2>5, CallersFinite DEF ConnectingHasCause
<1>4. CASE TokenExpires
  <2>1. /\ mqttClient' \in ClientType /\ mqttClient'.reject = mqttClient.reject
        /\ mqttClient'.fetches = mqttClient.fetches
        /\ mqttClient'.timers = mqttClient.timers
        /\ mqttClient'.connecting = mqttClient.connecting
    BY <1>4 DEF TokenExpires, ClientType
  <2>2. UNCHANGED <<links, session>>
    BY <1>4 DEF TokenExpires
  <2>3. mqttClient.fetches \in Nat /\ mqttClient.timers \in Nat
    BY DEF ClientType
  <2> QED
    BY <1>1, <2>1, <2>2, <2>3, CallersFinite DEF ConnectingHasCause
<1>5. CASE ReconnectTimer
  <2> DEFINE n == mqttClient.timers - 1
             c == [mqttClient EXCEPT !.timers = n]
             d == [c EXCEPT !.reject = @ /\ ~FALSE]
  <2>1. n \in Nat
    BY <1>5 DEF ReconnectTimer, ClientType
  <2> HIDE DEF n
  <2>2. d = c
    BY DEF ClientType
  <2>3. /\ c \in ClientType /\ c.reject = mqttClient.reject
        /\ c.fetches = mqttClient.fetches /\ c.timers = n
    BY <2>1 DEF ClientType
  <2>4. Start(c, FALSE, TRUE) /\ session' = session
    BY <1>5 DEF ReconnectTimer, n
  <2>5. /\ mqttClient.fetches \in Nat /\ mqttClient.timers \in Nat
        /\ n = mqttClient.timers - 1
    BY DEF ClientType, n
  <2>6. CASE c.reject
    <3>1. mqttClient' = c /\ UNCHANGED links
      BY <2>2, <2>4, <2>6 DEF Start
    <3> HIDE DEF c, d
    <3>2. ConnectingHasCause'
      BY <2>6, <3>1 DEF ConnectingHasCause
    <3> QED
      BY <1>1, <2>1, <2>3, <2>4, <2>5, <3>1, <3>2, CallersFinite
  <2>7. CASE ~c.reject
    <3>1. mqttClient' = [c EXCEPT !.fetches = @ + 1] /\ UNCHANGED links
      BY <2>2, <2>4, <2>7 DEF Start
    <3> HIDE DEF c, d
    <3>2. /\ mqttClient' \in ClientType /\ links' \in LinkType
          /\ mqttClient'.reject = c.reject
          /\ mqttClient'.fetches + mqttClient'.timers + Cardinality(Callers(links'))
               = c.fetches + c.timers + Cardinality(Callers(links)) + 1
          /\ ConnectingHasCause'
      BY <2>3, <3>1, StartFacts
    <3> QED
      BY <1>1, <2>1, <2>3, <2>4, <2>5, <3>2, CallersFinite
  <2> QED
    BY <2>6, <2>7
<1>6. ASSUME NEW h \in Handles, Connected(h)
      PROVE  CloudIInv'
  <2>0. 1 \in 1 .. 2 * MaxBackoff
    BY CloudAssumption
  <2>1. /\ mqttClient' \in ClientType /\ ~mqttClient'.reject /\ ~mqttClient'.connecting
        /\ mqttClient'.fetches = mqttClient.fetches
        /\ mqttClient'.timers = mqttClient.timers
    BY <1>6, <2>0 DEF Connected, ClientType
  <2>2. links' \in LinkType /\ Callers(links') = Callers(links)
    BY <1>6, CallerStays DEF Connected
  <2>3. session' = session
    BY <1>6 DEF Connected
  <2>4. mqttClient.fetches \in Nat /\ mqttClient.timers \in Nat
    BY DEF ClientType
  <2> QED
    BY <1>1, <2>1, <2>2, <2>3, <2>4, CallersFinite DEF ConnectingHasCause
<1>7. ASSUME NEW h \in Handles, ConnectionError(h)
      PROVE  CloudIInv'
  <2> DEFINE c == [mqttClient EXCEPT !.connecting = FALSE]
  <2>1. /\ c \in ClientType /\ c.reject = mqttClient.reject /\ ~c.connecting
        /\ c.fetches = mqttClient.fetches /\ c.timers = mqttClient.timers
    BY DEF ClientType
  <2>2. mqttClient' = Reconnect(c) /\ session' = session
    BY <1>7 DEF ConnectionError
  <2> HIDE DEF c
  <2>3. /\ mqttClient' \in ClientType /\ mqttClient'.reject = mqttClient.reject
        /\ mqttClient'.fetches = mqttClient.fetches
        /\ mqttClient'.timers = mqttClient.timers + 1
    BY <2>1, <2>2, ReconnectFacts
  <2>4. /\ links' \in LinkType
        /\ Cardinality(Callers(links')) = Cardinality(Callers(links)) - 1
    BY <1>7, CallerGoes DEF ConnectionError
  <2>5. mqttClient.fetches \in Nat /\ mqttClient.timers \in Nat
    BY DEF ClientType
  <2> QED
    BY <1>1, <2>2, <2>3, <2>4, <2>5, CallersFinite DEF ConnectingHasCause
<1>8. ASSUME NEW h \in Handles, Offline(h)
      PROVE  CloudIInv'
  <2>1. mqttClient' = Reconnect(mqttClient) /\ session' = session
    BY <1>8 DEF Offline
  <2>2. /\ links' = [links EXCEPT ![h] = "none"] /\ links[h] = "open"
        /\ links' \in LinkType
        /\ Cardinality(Callers(links')) = Cardinality(Callers(links)) - 1
    BY <1>8, CallerGoes DEF Offline
  <2>3. /\ mqttClient' \in ClientType /\ mqttClient'.reject = mqttClient.reject
        /\ mqttClient'.fetches = mqttClient.fetches
    BY <2>1, ReconnectFacts
  <2>4. mqttClient.fetches \in Nat /\ mqttClient.timers \in Nat
    BY DEF ClientType
  <2>5. CASE mqttClient.connecting
    <3>1. mqttClient' = mqttClient
      BY <2>1, <2>5, ReconnectFacts
    <3>2. \A g \in Handles : links[g] = "opening" => links'[g] = "opening"
      BY <2>2 DEF LinkType
    <3>3. ConnectingHasCause'
      BY <3>1, <3>2 DEF ConnectingHasCause
    <3> QED
      BY <1>1, <2>1, <2>2, <2>4, <3>1, <3>3, CallersFinite
  <2>6. CASE ~mqttClient.connecting
    <3>1. mqttClient'.timers = mqttClient.timers + 1
      BY <2>1, <2>6, ReconnectFacts
    <3> QED
      BY <1>1, <2>1, <2>2, <2>3, <2>4, <3>1, CallersFinite DEF ConnectingHasCause
  <2> QED
    BY <2>5, <2>6
<1> QED
  BY <1>2, <1>3, <1>4, <1>5, <1>6, <1>7, <1>8

\* The log-in.
LEMMA LoginSteps ==
    ASSUME IsFiniteSet(Handles), "relogin" \notin CloudOps, CloudIInv,
           \/ \E another \in BOOLEAN : Login(another)
           \/ Relogin \/ LoginAnswered \/ LoginFails \/ LoggedIn
    PROVE  CloudIInv'
<1> USE DEF CloudIInv, CloudTyped
<1>1. /\ mqttClient.fetches \in Nat /\ mqttClient.timers \in Nat
      /\ session.attempts \in Nat
  BY CloudAssumption DEF ClientType, SessionType
<1>2. ASSUME NEW another \in BOOLEAN, Login(another)
      PROVE  CloudIInv'
  <2> DEFINE n == session.attempts + 1
  <2>1. n \in 0 .. MaxAttempts
    BY <1>1, <1>2, CloudAssumption DEF Login
  <2>2. session.login = "none"
    BY <1>2 DEF Login
  <2>3. session' = [session EXCEPT !.loggedIn = FALSE, !.login = "asking", !.attempts = n]
    BY <1>2, <2>2 DEF Login, OnLogout
  <2> HIDE DEF n
  <2>4. /\ session' \in SessionType /\ ~session'.loggedIn
        /\ session'.login = "asking" /\ session'.attempts = n
    BY <2>1, <2>3 DEF SessionType
  <2>5. Suspend \/ UNCHANGED <<mqttClient, links>>
    BY <1>2 DEF Login, OnLogout
  <2>6. /\ mqttClient' \in ClientType /\ links' \in LinkType
        /\ mqttClient'.fetches = mqttClient.fetches
        /\ mqttClient'.timers = mqttClient.timers
        /\ Cardinality(Callers(links')) <= Cardinality(Callers(links))
        /\ ConnectingHasCause'
    BY <2>5, SuspendFacts
  <2>7. OneEachLogin'
    BY <1>1, <2>2, <2>4, <2>6, CallersFinite DEF OneEachLogin, n
  <2> QED
    BY <2>4, <2>6, <2>7 DEF SyncingMayConnect, LoggedInMayConnect
<1>3. CASE Relogin
  BY <1>3 DEF Relogin
<1>4. CASE LoginAnswered
  <2> DEFINE c == [mqttClient EXCEPT !.reject = FALSE]
             d == [mqttClient EXCEPT !.reject = @ /\ ~TRUE]
  <2>1. d = c
    BY DEF ClientType
  <2>2. /\ c \in ClientType /\ ~c.reject /\ c.fresh = mqttClient.fresh
        /\ c.fetches = mqttClient.fetches /\ c.timers = mqttClient.timers
    BY DEF ClientType
  <2>3. IF FALSE \/ ~c.fresh
        THEN mqttClient' = [c EXCEPT !.fetches = @ + 1] /\ UNCHANGED links
        ELSE Connect(c)
    BY <1>4, <2>1, <2>2 DEF LoginAnswered, Start
  <2> HIDE DEF c, d
  <2>4. /\ mqttClient' \in ClientType /\ links' \in LinkType
        /\ mqttClient'.reject = c.reject
        /\ mqttClient'.fetches + mqttClient'.timers + Cardinality(Callers(links'))
             = c.fetches + c.timers + Cardinality(Callers(links)) + 1
        /\ ConnectingHasCause'
    BY <2>2, <2>3, StartFacts
  <2>5. /\ session' \in SessionType /\ session'.loggedIn = session.loggedIn
        /\ session'.login = "syncing" /\ session'.attempts = session.attempts
    BY <1>4 DEF LoginAnswered, SessionType
  <2>6. mqttClient'.fetches \in Nat /\ mqttClient'.timers \in Nat /\ session.login = "asking"
    BY <1>4, <2>4 DEF LoginAnswered, ClientType
  <2>7. OneEachLogin'
    BY <1>1, <2>2, <2>4, <2>5, <2>6, CallersFinite DEF OneEachLogin
  <2> QED
    BY <2>2, <2>4, <2>5, <2>7 DEF SyncingMayConnect, LoggedInMayConnect
<1>5. CASE LoginFails
  <2>1. /\ session' \in SessionType /\ session'.loggedIn = session.loggedIn
        /\ session'.login = "none" /\ session'.attempts = session.attempts
        /\ UNCHANGED <<mqttClient, links>>
    BY <1>5 DEF LoginFails, SessionType
  <2>2. OneEachLogin'
    BY <1>1, <2>1, CallersFinite DEF OneEachLogin
  <2> QED
    BY <2>1, <2>2 DEF SyncingMayConnect, LoggedInMayConnect, ConnectingHasCause
<1>6. CASE LoggedIn
  <2>1. /\ session' \in SessionType /\ session.login = "syncing"
        /\ session'.login = "none" /\ session'.attempts = session.attempts
        /\ UNCHANGED <<mqttClient, links>>
    BY <1>6 DEF LoggedIn, SessionType
  <2>2. OneEachLogin'
    BY <1>1, <2>1, CallersFinite DEF OneEachLogin
  <2> QED
    BY <2>1, <2>2 DEF SyncingMayConnect, LoggedInMayConnect, ConnectingHasCause
<1> QED
  BY <1>2, <1>3, <1>4, <1>5, <1>6

LEMMA CloudInductive ==
    ASSUME IsFiniteSet(Handles), "relogin" \notin CloudOps, CloudIInv,
           [CloudNext]_cloudVars
    PROVE  CloudIInv'
<1>1. CASE UNCHANGED cloudVars
  BY <1>1 DEF cloudVars, CloudIInv, CloudTyped, SyncingMayConnect, OneEachLogin,
     LoggedInMayConnect, ConnectingHasCause
<1> QED
  BY <1>1, ClientSteps, LoginSteps DEF CloudNext

\* The bounds of the types are those of the log-ins.
LEMMA InvHolds == IsFiniteSet(Handles) /\ CloudIInv => CloudInv
<1> SUFFICES ASSUME IsFiniteSet(Handles), CloudIInv PROVE CloudInv
  OBVIOUS
<1> USE DEF CloudIInv, CloudTyped
<1>1. /\ mqttClient.fetches \in Nat /\ mqttClient.timers \in Nat
      /\ session.attempts \in 0 .. MaxAttempts
  BY DEF ClientType, SessionType
<1>2. mqttClient.fetches \in 0 .. 2 * MaxAttempts /\ mqttClient.timers \in 0 .. 2 * MaxAttempts
  BY <1>1, CallersFinite, CloudAssumption DEF OneEachLogin
<1>3. mqttClient \in ClientState
  BY <1>2 DEF ClientType, ClientState
<1> QED
  BY <1>3 DEF CloudInv, CloudTypeOK, LinkType, SessionType

\* Whoever is logged in has a client that may connect, and the flag connecting
\* has a cause or the client is suspended (CloudInv): no order of log-ins,
\* tokens, errors and timers leaves the device cut off from the cloud.
THEOREM LoggedInIsConnectable ==
    ASSUME IsFiniteSet(Handles), "relogin" \notin CloudOps
    PROVE  CloudSpec => []CloudInv
<1>1. CloudInit => CloudIInv
  BY CloudStarts
<1>2. CloudIInv /\ [CloudNext]_cloudVars => CloudIInv'
  BY CloudInductive
<1>3. CloudIInv => CloudInv
  BY InvHolds
<1> QED
  BY <1>1, <1>2, <1>3, PTL DEF CloudSpec

-----------------------------------------------------------------------------
(***************************************************************************)
(* Proofs about Bluetooth: whatever the phone does and however its reports *)
(* lag behind it, once nothing is on its way the app is in the call and in *)
(* the place the phone is in, and what a call took has been given back.    *)
(***************************************************************************)

\* What the properties hold for: no alerting call, no second mode and a
\* runtime that is not slower than the phone (each of them breaks one).
PlainBluetooth == BtOps \subseteq {"call", "music", "cover", "quiet"}

Calls == {"none", "incoming", "outgoing", "active"}
BtAsks == {"music", "call", "back", "speak", "wait", "start", "end"}
BtTells == {"pause", "resume", "background", "called", "spoken"}
BtReports == [from : Modes \cup {"hfp"}, kind : A2dpKinds \cup Setups \cup {"ring"}]

\* A phone calls and plays while it is connected, to a radio that is open.
Phones ==
    {p \in [mode : {"sink", "off"}, conn : BOOLEAN, play : BOOLEAN, call : Calls] :
        /\ p.call # "none" \/ p.play => p.conn
        /\ p.conn => p.mode = "sink"}

AppStates ==
    [skill : BluetoothSkills, callState : CallStates, needResume : BOOLEAN,
     lastIntent : BluetoothIntents \cup {Derived, "implicit_disconnect"},
     timer : {"none", "play", "connect"}]
ShownStates ==
    [front : BOOLEAN, covered : BOOLEAN, monologue : BOOLEAN, key : BOOLEAN,
     lights : SUBSET {"discovery", "INCOMING", "OFFHOOK"}, ringtone : BOOLEAN]
CallQueues == [asked : Seq(BtAsks), told : Seq(BtTells)]

BtWorlds ==
    [phone : Phones, air : Seq(BtReports),
     bt : [a2dp : A2dpKinds, mode : Modes, hfp : Setups],
     app : AppStates,
     calls : CallQueues,
     shown : ShownStates]

\* The report msg is what becomes of the phone p, q.
HfpMoves(p, kind, q) ==
    /\ <<p.call, kind>> \in {<<"none", "incoming">>, <<"none", "outgoing">>,
                             <<"incoming", "active">>, <<"outgoing", "active">>,
                             <<"incoming", "none">>, <<"outgoing", "none">>, <<"active", "none">>}
    /\ q = [p EXCEPT !.call = kind]

RadioMoves(p, kind, q) ==
    \/ kind = "opened" /\ p.mode = "off" /\ q = [p EXCEPT !.mode = "sink"]
    \/ kind = "closed" /\ ~p.conn /\ q = [p EXCEPT !.mode = "off"]
    \/ kind = "connected" /\ ~p.conn /\ q = [p EXCEPT !.conn = TRUE]
    \/ kind = "disconnected" /\ p.conn /\ p.call = "none"
       /\ q = [p EXCEPT !.conn = FALSE, !.play = FALSE]
    \/ kind = "played" /\ p.conn /\ q = [p EXCEPT !.play = TRUE]
    \/ kind = "stopped" /\ p.conn /\ q = [p EXCEPT !.play = FALSE]

Moves(p, msg, q) ==
    \/ msg.from = "hfp" /\ msg.kind = "ring" /\ p.call = "incoming" /\ q = p
    \/ msg.from = "hfp" /\ msg.kind # "ring" /\ HfpMoves(p, msg.kind, q)
    \/ msg.from = "sink" /\ RadioMoves(p, msg.kind, q)

\* The adapters have b as the last reports of the phone p.
Knows(b, p) ==
    /\ b.mode = "sink" /\ b.hfp = p.call
    /\ b.a2dp \in {"connected", "played", "stopped"} <=> p.conn
    /\ b.a2dp \in {"opened", "disconnected"} <=> p.mode = "sink" /\ ~p.conn

\* What is on its way leads from what the adapters know to the phone.
Follows(reports, b, last) ==
    \E h \in [0 .. Len(reports) -> Phones] :
        /\ Knows(b, h[0]) /\ h[Len(reports)] = last
        /\ \A i \in 1 .. Len(reports) : Moves(h[i - 1], reports[i], h[i])

InCall(w) == w.bt.hfp # "none"

\* The app is in the call it was told of, its light and ringtone are those of
\* the call, and it is not in front for a phone that is gone.
CallIsKept(w) ==
    /\ w.app.callState = GetCallState(w)
    /\ w.app.skill = "bluetooth" => ~InCall(w)
    /\ w.app.skill = "bluetooth_call" => InCall(w)
    /\ w.app.skill = "bluetooth_music" => IsConnected(w)
    /\ w.shown.lights \subseteq {"discovery", w.app.callState}
    /\ w.shown.ringtone => w.app.callState = "INCOMING"
    /\ "discovery" \in w.shown.lights => IsDiscoverable(w.bt.a2dp)

\* and the monologue and the key are taken exactly in a call.
MonologueIsKept(w) == (w.shown.monologue <=> InCall(w)) /\ (w.shown.key <=> InCall(w))

AllKept(w) == CallIsKept(w) /\ MonologueIsKept(w)
IsBack(w) == w.app.skill = "bluetooth"

None(q) == Len(q) = 0
One(q, x) == Len(q) = 1 /\ q[1] = x
Two(q, x, y) == Len(q) = 2 /\ q[1] = x /\ q[2] = y

\* What the app and the runtime are still to do of one event.
StillToDo(w) ==
    LET q == w.calls.asked
        t == w.calls.told
    IN  \/ None(q) /\ None(t) /\ AllKept(w)
        \/ (One(q, "wait") \/ One(q, "music") \/ One(q, "speak")) /\ None(t) /\ AllKept(w)
        \/ None(q) /\ One(t, "spoken") /\ AllKept(w)
        \/ None(q) /\ (One(t, "pause") \/ One(t, "resume") \/ One(t, "background"))
           /\ AllKept(w) /\ ~InCall(w)
        \/ (One(q, "back") \/ Two(q, "back", "speak")) /\ None(t) /\ AllKept(w) /\ IsBack(w)
        \/ One(q, "speak") /\ One(t, "background") /\ AllKept(w) /\ IsBack(w)
        \/ None(q) /\ Two(t, "background", "spoken") /\ AllKept(w) /\ IsBack(w)
        \/ One(q, "call") /\ None(t) /\ CallIsKept(w) /\ InCall(w)
        \/ None(q) /\ One(t, "called") /\ CallIsKept(w) /\ InCall(w) /\ w.shown.front
        \/ One(q, "start") /\ None(t) /\ CallIsKept(w) /\ InCall(w) /\ w.shown.front
        \/ Two(q, "end", "back") /\ None(t) /\ CallIsKept(w) /\ IsBack(w)

\* The inductive invariant, of a state of the app and what is around it.
BtSound(w) == w \in BtWorlds /\ Follows(w.air, w.bt, w.phone) /\ StillToDo(w)

-----------------------------------------------------------------------------
\* What the helpers make of a state, part by part.
LEMMA AskIs ==
    ASSUME NEW w \in BtWorlds, NEW x \in BtAsks
    PROVE  /\ Ask(w, x) \in BtWorlds
           /\ Ask(w, x).phone = w.phone /\ Ask(w, x).air = w.air /\ Ask(w, x).bt = w.bt
           /\ Ask(w, x).app = w.app /\ Ask(w, x).shown = w.shown
           /\ Ask(w, x).calls.told = w.calls.told
           /\ Ask(w, x).calls.asked = Append(w.calls.asked, x)
<1> DEFINE c == [w.calls EXCEPT !.asked = Append(@, x)]
<1>1. w.calls \in CallQueues
  BY DEF BtWorlds
<1>2. Append(w.calls.asked, x) \in Seq(BtAsks)
  BY <1>1, AppendProperties DEF CallQueues
<1>3. c \in CallQueues /\ c.told = w.calls.told
      /\ c.asked = Append(w.calls.asked, x)
  BY <1>1, <1>2 DEF CallQueues
<1>4. Ask(w, x) = [w EXCEPT !.calls = c]
  BY DEF Ask, BtWorlds
<1> HIDE DEF c
<1>5. QED
  BY <1>3, <1>4 DEF BtWorlds

LEMMA TimerIs ==
    ASSUME NEW w \in BtWorlds, NEW t \in {"none", "play", "connect"}
    PROVE  /\ SetTimer(w, t) \in BtWorlds
           /\ SetTimer(w, t).phone = w.phone /\ SetTimer(w, t).air = w.air
           /\ SetTimer(w, t).bt = w.bt /\ SetTimer(w, t).calls = w.calls
           /\ SetTimer(w, t).shown = w.shown
           /\ SetTimer(w, t).app = [w.app EXCEPT !.timer = t]
BY DEF SetTimer, BtWorlds, AppStates

LEMMA SkillIs ==
    ASSUME NEW w \in BtWorlds, NEW skill \in BluetoothSkills
    PROVE  LET v == SetAppType(w, skill)
           IN  /\ v \in BtWorlds
               /\ v.phone = w.phone /\ v.air = w.air /\ v.bt = w.bt /\ v.shown = w.shown
               /\ v.app = [w.app EXCEPT !.skill = skill]
               /\ v.calls.told = w.calls.told
               /\ skill = "bluetooth_music" => v.calls.asked = Append(w.calls.asked, "music")
               /\ skill = "bluetooth_call" => v.calls.asked = Append(w.calls.asked, "call")
               /\ skill = "bluetooth" => v.calls.asked = Append(w.calls.asked, "back")
<1> DEFINE x == CASE skill = "bluetooth_music" -> "music"
                  [] skill = "bluetooth_call" -> "call" [] OTHER -> "back"
           u == Ask(w, x)
<1>1. x \in BtAsks
  BY DEF BtAsks
<1>2. SetAppType(w, skill) = [u EXCEPT !.app = [u.app EXCEPT !.skill = skill]]
  BY DEF SetAppType
<1>3. /\ skill = "bluetooth_music" => x = "music"
      /\ skill = "bluetooth_call" => x = "call"
      /\ skill = "bluetooth" => x = "back"
  OBVIOUS
<1> HIDE DEF x
<1>4. /\ u \in BtWorlds /\ u.phone = w.phone /\ u.air = w.air /\ u.bt = w.bt /\ u.app = w.app
      /\ u.shown = w.shown /\ u.calls.told = w.calls.told
      /\ u.calls.asked = Append(w.calls.asked, x)
  BY <1>1, AskIs
<1> HIDE DEF u
<1>5. [u.app EXCEPT !.skill = skill] \in AppStates
  BY <1>4 DEF BtWorlds, AppStates
<1>6. QED
  BY <1>2, <1>3, <1>4, <1>5 DEF BtWorlds

LEMMA LightIs ==
    ASSUME NEW w \in BtWorlds, NEW on \in SUBSET {"discovery", "INCOMING", "OFFHOOK"}, NEW off
    PROVE  LET v == Light(w, on, off)
           IN  /\ v \in BtWorlds
               /\ v.phone = w.phone /\ v.air = w.air /\ v.bt = w.bt /\ v.app = w.app
               /\ v.calls = w.calls
               /\ v.shown = [w.shown EXCEPT !.lights = (@ \cup on) \ off]
<1>1. Light(w, on, off) = [w EXCEPT !.shown = [w.shown EXCEPT !.lights = (@ \cup on) \ off]]
  BY DEF Light
<1>2. [w.shown EXCEPT !.lights = (@ \cup on) \ off] \in
        ShownStates
  <2>1. w.shown \in ShownStates
    BY DEF BtWorlds
  <2>2. (w.shown.lights \cup on) \ off \in SUBSET {"discovery", "INCOMING", "OFFHOOK"}
    BY <2>1 DEF ShownStates
  <2>3. QED
    BY <2>1, <2>2 DEF ShownStates
<1>3. QED
  BY <1>1, <1>2 DEF BtWorlds

-----------------------------------------------------------------------------
\* A report that is sent when the phone changes accounts for the change.
LEMMA Reported ==
    ASSUME NEW reports \in Seq(BtReports), NEW b, NEW p \in Phones, NEW q \in Phones,
           NEW msg \in BtReports, Follows(reports, b, p), Moves(p, msg, q)
    PROVE  Append(reports, msg) \in Seq(BtReports) /\ Follows(Append(reports, msg), b, q)
<1> DEFINE n == Len(reports)
           longer == Append(reports, msg)
<1>1. /\ n \in Nat /\ longer \in Seq(BtReports) /\ Len(longer) = n + 1
      /\ \A i \in 1 .. n : longer[i] = reports[i]
      /\ longer[n + 1] = msg
  BY AppendProperties, LenProperties
<1>2. PICK h \in [0 .. n -> Phones] :
        /\ Knows(b, h[0]) /\ h[n] = p
        /\ \A i \in 1 .. n : Moves(h[i - 1], reports[i], h[i])
  BY DEF Follows
<1> DEFINE g == [i \in 0 .. n + 1 |-> IF i = n + 1 THEN q ELSE h[i]]
<1> HIDE DEF n, longer
<1>3. g \in [0 .. n + 1 -> Phones] /\ g[0] = h[0] /\ g[n + 1] = q
      /\ \A i \in 0 .. n : g[i] = h[i]
  BY <1>1
<1>4. \A i \in 1 .. n + 1 : Moves(g[i - 1], longer[i], g[i])
  <2> TAKE i \in 1 .. n + 1
  <2>1. CASE i = n + 1
    <3>1. i - 1 = n /\ n \in 0 .. n
      BY <2>1, <1>1
    <3>2. g[i - 1] = p /\ g[i] = q /\ longer[i] = msg
      BY <3>1, <2>1, <1>1, <1>2, <1>3
    <3>3. QED
      BY <3>2
  <2>2. CASE i \in 1 .. n
    <3>1. i - 1 \in 0 .. n /\ i \in 0 .. n
      BY <2>2, <1>1
    <3>2. g[i - 1] = h[i - 1] /\ g[i] = h[i] /\ longer[i] = reports[i]
      BY <3>1, <2>2, <1>1, <1>3
    <3>3. QED
      BY <3>2, <2>2, <1>2
  <2>3. QED
    BY <2>1, <2>2, <1>1
<1> HIDE DEF g
<1>5. Follows(longer, b, q)
  BY <1>1, <1>2, <1>3, <1>4 DEF Follows
<1>6. QED
  BY <1>1, <1>5 DEF longer

\* The first report is what became of the phone the adapters know, and the
\* others lead on from there.
LEMMA Received ==
    ASSUME NEW reports \in Seq(BtReports), NEW b, NEW last,
           Follows(reports, b, last), reports # <<>>
    PROVE  /\ Tail(reports) \in Seq(BtReports) /\ Head(reports) \in BtReports
           /\ \E p, q \in Phones :
                 /\ Knows(b, p) /\ Moves(p, Head(reports), q)
                 /\ \A c : Knows(c, q) => Follows(Tail(reports), c, last)
<1> DEFINE n == Len(reports)
           rest == Tail(reports)
<1>1. /\ n \in Nat /\ n > 0 /\ rest \in Seq(BtReports) /\ Len(rest) = n - 1
      /\ \A i \in 1 .. n - 1 : rest[i] = reports[i + 1]
      /\ Head(reports) \in BtReports /\ Head(reports) = reports[1]
  BY HeadTailProperties, LenProperties, EmptySeq
<1>2. PICK h \in [0 .. n -> Phones] :
        /\ Knows(b, h[0]) /\ h[n] = last
        /\ \A i \in 1 .. n : Moves(h[i - 1], reports[i], h[i])
  BY DEF Follows
<1> DEFINE g == [i \in 0 .. n - 1 |-> h[i + 1]]
<1> HIDE DEF n, rest
<1>3. g \in [0 .. n - 1 -> Phones] /\ g[0] = h[1] /\ g[n - 1] = last
      /\ \A i \in 0 .. n - 1 : g[i] = h[i + 1]
  BY <1>1, <1>2
<1>4. \A i \in 1 .. n - 1 : Moves(g[i - 1], rest[i], g[i])
  <2> TAKE i \in 1 .. n - 1
  <2>1. i - 1 \in 0 .. n - 1 /\ i \in 0 .. n - 1 /\ i + 1 \in 1 .. n
        /\ (i - 1) + 1 = i /\ (i + 1) - 1 = i
    BY <1>1
  <2>2. g[i - 1] = h[i] /\ g[i] = h[i + 1] /\ rest[i] = reports[i + 1]
    BY <2>1, <1>1, <1>3
  <2>3. Moves(h[(i + 1) - 1], reports[i + 1], h[i + 1])
    BY <2>1, <1>2
  <2>4. QED
    BY <2>1, <2>2, <2>3
<1> HIDE DEF g
<1>5. ASSUME NEW c, Knows(c, h[1]) PROVE Follows(rest, c, last)
  <2>1. Knows(c, g[0])
    BY <1>3, <1>5
  <2>2. QED
    BY <2>1, <1>1, <1>3, <1>4 DEF Follows
<1>6. h[0] \in Phones /\ h[1] \in Phones /\ Moves(h[0], reports[1], h[1])
  <2>1. 0 \in 0 .. n /\ 1 \in 1 .. n /\ 1 \in 0 .. n /\ 1 - 1 = 0
    BY <1>1
  <2>2. Moves(h[1 - 1], reports[1], h[1])
    BY <2>1, <1>2
  <2>3. QED
    BY <2>1, <2>2, <1>2
<1>7. Tail(reports) = rest
  BY DEF rest
<1>8. QED
  BY <1>1, <1>2, <1>5, <1>6, <1>7

\* The adapters know some phone, and nothing on its way means: this one.
LEMMA SomethingKnown ==
    ASSUME NEW reports \in Seq(BtReports), NEW b, NEW last, Follows(reports, b, last)
    PROVE  /\ \E p \in Phones : Knows(b, p)
           /\ reports = <<>> => last \in Phones /\ Knows(b, last)
<1>1. PICK h \in [0 .. Len(reports) -> Phones] : Knows(b, h[0]) /\ h[Len(reports)] = last
  BY DEF Follows
<1>2. Len(reports) \in Nat /\ 0 \in 0 .. Len(reports)
  BY LenProperties
<1>3. reports = <<>> => Len(reports) = 0
  BY EmptySeq
<1>4. QED
  BY <1>1, <1>2, <1>3

LEMMA NothingReported ==
    ASSUME NEW b, NEW p \in Phones, Knows(b, p)
    PROVE  Follows(<<>>, b, p)
<1> DEFINE h == [i \in {0} |-> p]
<1>1. Len(<<>>) = 0 /\ 0 .. 0 = {0} /\ 1 .. 0 = {}
  BY EmptySeq
<1>2. h \in [0 .. 0 -> Phones] /\ h[0] = p
  BY <1>1
<1> HIDE DEF h
<1>3. QED
  BY <1>1, <1>2 DEF Follows
-----------------------------------------------------------------------------
\* A state whose reports account for its phone; one that follows another
\* state in nothing but the phone and the reports; the phone and the report
\* of its change.
Fits(w) == w \in BtWorlds /\ Follows(w.air, w.bt, w.phone)
Still(w, v) ==
    /\ Fits(v)
    /\ v.bt = w.bt /\ v.app = w.app /\ v.calls = w.calls /\ v.shown = w.shown
Told(w, msg, q) == [w EXCEPT !.air = Append(@, msg), !.phone = q]

LEMMA Telling ==
    ASSUME NEW w, Fits(w), NEW msg \in BtReports, NEW q \in Phones, Moves(w.phone, msg, q)
    PROVE  Still(w, Told(w, msg, q)) /\ Told(w, msg, q).phone = q
           /\ Told(w, msg, q).air = Append(w.air, msg)
<1>1. w.air \in Seq(BtReports) /\ w.phone \in Phones /\ w \in BtWorlds
  BY DEF Fits, BtWorlds
<1>2. Append(w.air, msg) \in Seq(BtReports) /\ Follows(Append(w.air, msg), w.bt, q)
  BY <1>1, Reported DEF Fits
<1> DEFINE v == Told(w, msg, q)
<1>3. v \in BtWorlds /\ v.phone = q /\ v.air = Append(w.air, msg)
      /\ v.bt = w.bt /\ v.app = w.app /\ v.calls = w.calls /\ v.shown = w.shown
  BY <1>1, <1>2 DEF BtWorlds, Told
<1> HIDE DEF v
<1>4. QED
  BY <1>2, <1>3 DEF Still, Fits, v

LEMMA StillItself ==
    ASSUME NEW w, Fits(w) PROVE Still(w, w)
BY DEF Still

\* What the adapters know: the mode, and a connection when there is a call.
LEMMA FitsSomePhone ==
    ASSUME NEW w, Fits(w)
    PROVE  /\ w \in BtWorlds /\ w.phone \in Phones /\ w.bt.mode = "sink" /\ w.bt.hfp \in Calls
           /\ InCall(w) => IsConnected(w)
           /\ \E p \in Phones : Knows(w.bt, p)
<1>1. w \in BtWorlds /\ w.phone \in Phones
  BY DEF Fits, BtWorlds
<1>2. PICK p \in Phones : Knows(w.bt, p)
  BY SomethingKnown, <1>1 DEF Fits, BtWorlds
<1>3. w.bt.mode = "sink" /\ w.bt.hfp = p.call /\ p.call \in Calls
      /\ (p.conn <=> IsConnected(w)) /\ (p.call # "none" => p.conn)
  BY <1>2 DEF Knows, Phones, IsConnected
<1>4. QED
  BY <1>1, <1>2, <1>3 DEF InCall

LEMMA HangupTells ==
    ASSUME NEW w, Fits(w)
    PROVE  Still(w, Hangup(w))
<1>1. CASE w.phone.call = "none"
  BY <1>1, StillItself DEF Hangup
<1>2. CASE w.phone.call # "none"
  <2> DEFINE msg == [from |-> "hfp", kind |-> "none"]
             q == [w.phone EXCEPT !.call = "none"]
  <2>1. w \in BtWorlds /\ w.phone \in Phones
    BY FitsSomePhone
  <2>2. msg \in BtReports
    BY DEF BtReports, Setups
  <2>3. q \in Phones /\ q.conn = w.phone.conn
    BY <2>1 DEF Phones, Calls
  <2>4. Moves(w.phone, msg, q)
    BY <2>1, <1>2 DEF Moves, HfpMoves, Phones, Calls
  <2>5. Hangup(w) = Told(w, msg, q)
    BY <1>2, <2>1 DEF Hangup, Told, Report, BtWorlds
  <2> HIDE DEF msg, q
  <2>6. QED
    BY <2>2, <2>3, <2>4, <2>5, Telling
<1>3. QED
  BY <1>1, <1>2
LEMMA AnswerTells ==
    ASSUME NEW w, Fits(w)
    PROVE  Still(w, AnswerCall(w))
<1>1. CASE w.phone.call # "incoming"
  BY <1>1, StillItself DEF AnswerCall
<1>2. CASE w.phone.call = "incoming"
  <2> DEFINE msg == [from |-> "hfp", kind |-> "active"]
             q == [w.phone EXCEPT !.call = "active"]
  <2>1. w \in BtWorlds /\ w.phone \in Phones
    BY FitsSomePhone
  <2>2. msg \in BtReports
    BY DEF BtReports, Setups
  <2>3. q \in Phones
    BY <2>1, <1>2 DEF Phones, Calls
  <2>4. Moves(w.phone, msg, q)
    BY <2>1, <1>2 DEF Moves, HfpMoves, Phones, Calls
  <2>5. AnswerCall(w) = Told(w, msg, q)
    BY <1>2, <2>1 DEF AnswerCall, Told, Report, BtWorlds
  <2> HIDE DEF msg, q
  <2>6. QED
    BY <2>2, <2>3, <2>4, <2>5, Telling
<1>3. QED
  BY <1>1, <1>2

LEMMA DialTells ==
    ASSUME NEW w, Fits(w)
    PROVE  Still(w, Dial(w))
<1>1. CASE ~w.phone.conn \/ w.phone.call # "none"
  BY <1>1, StillItself DEF Dial
<1>2. CASE w.phone.conn /\ w.phone.call = "none"
  <2> DEFINE msg == [from |-> "hfp", kind |-> "outgoing"]
             q == [w.phone EXCEPT !.call = "outgoing"]
  <2>1. w \in BtWorlds /\ w.phone \in Phones
    BY FitsSomePhone
  <2>2. msg \in BtReports
    BY DEF BtReports, Setups
  <2>3. q \in Phones
    BY <2>1, <1>2 DEF Phones, Calls
  <2>4. Moves(w.phone, msg, q)
    BY <2>1, <1>2 DEF Moves, HfpMoves, Phones, Calls
  <2>5. Dial(w) = Told(w, msg, q)
    BY <1>2, <2>1 DEF Dial, Told, Report, BtWorlds
  <2> HIDE DEF msg, q
  <2>6. QED
    BY <2>2, <2>3, <2>4, <2>5, Telling
<1>3. QED
  BY <1>1, <1>2

LEMMA PlayingTells ==
    ASSUME NEW w, Fits(w), NEW play \in BOOLEAN
    PROVE  Still(w, Playing(w, play))
<1>1. CASE ~w.phone.conn \/ w.phone.play = play
  BY <1>1, StillItself DEF Playing
<1>2. CASE w.phone.conn /\ w.phone.play # play
  <2> DEFINE kind == IF play THEN "played" ELSE "stopped"
             msg == [from |-> w.phone.mode, kind |-> kind]
             q == [w.phone EXCEPT !.play = play]
  <2>1. w \in BtWorlds /\ w.phone \in Phones /\ w.bt.mode = "sink"
    BY FitsSomePhone
  <2>2. w.phone.mode = "sink" /\ kind \in {"played", "stopped"}
    BY <2>1, <1>2 DEF Phones
  <2>3. msg \in BtReports
    BY <2>2 DEF BtReports, Modes, A2dpKinds
  <2>4. q \in Phones
    BY <2>1, <1>2 DEF Phones
  <2>5. Moves(w.phone, msg, q)
    <3>1. RadioMoves(w.phone, kind, q)
      BY <2>1, <1>2 DEF RadioMoves, Phones
    <3>2. msg.from = "sink" /\ msg.kind = kind
      BY <2>2
    <3>3. QED
      BY <3>1, <3>2 DEF Moves
  <2>6. Playing(w, play) = Told(w, msg, q)
    BY <1>2, <2>1, <2>2 DEF Playing, Told, Report, BtWorlds
  <2> HIDE DEF msg, q, kind
  <2>7. QED
    BY <2>3, <2>4, <2>5, <2>6, Telling
<1>3. QED
  BY <1>1, <1>2

\* A phone that goes ends its call first.
LEMMA LostTells ==
    ASSUME NEW w, Fits(w)
    PROVE  Still(w, Lost(w)) /\ ~Lost(w).phone.conn /\ Lost(w).phone.mode = w.phone.mode
<1>1. CASE ~w.phone.conn
  BY <1>1, StillItself DEF Lost
<1>2. CASE w.phone.conn
  <2> DEFINE u == Hangup(w)
             msg == [from |-> "sink", kind |-> "disconnected"]
             q == [u.phone EXCEPT !.conn = FALSE, !.play = FALSE]
  <2>1. w \in BtWorlds /\ w.phone \in Phones /\ w.phone.mode = "sink"
    BY FitsSomePhone, <1>2 DEF Phones
  <2>2. Still(w, u) /\ Fits(u) /\ u \in BtWorlds /\ u.phone \in Phones
    BY HangupTells, FitsSomePhone DEF Still
  <2>3. u.phone = [w.phone EXCEPT !.call = "none"]
        /\ u.air = IF w.phone.call = "none" THEN w.air
                   ELSE Append(w.air, [from |-> "hfp", kind |-> "none"])
    BY <2>1 DEF Hangup, Report, BtWorlds, Phones
  <2>4. msg \in BtReports
    BY DEF BtReports, Modes, A2dpKinds
  <2>5. q \in Phones
    BY <2>2, <2>3, <2>1 DEF Phones, Calls
  <2>6. Moves(u.phone, msg, q)
    <3>1. u.phone.call = "none" /\ u.phone.conn
      BY <2>1, <2>3, <1>2 DEF Phones
    <3>2. QED
      BY <3>1 DEF Moves, RadioMoves
  <2>7. Lost(w) = Told(u, msg, q)
    <3>1. w.phone \in [mode : {"sink", "off"}, conn : BOOLEAN, play : BOOLEAN, call : Calls]
      BY <2>1 DEF Phones
    <3>2. CASE w.phone.call = "none"
      <4>1. u = w
        BY <3>2 DEF Hangup
      <4>2. [w.phone EXCEPT !.conn = FALSE, !.play = FALSE, !.call = "none"] = q
        BY <4>1, <3>1, <3>2
      <4>3. Lost(w) = [Report(w, "sink", "disconnected")
                          EXCEPT !.phone = [w.phone EXCEPT !.conn = FALSE, !.play = FALSE,
                                                           !.call = "none"]]
        BY <2>1, <1>2, <3>2 DEF Lost, Report, BtWorlds
      <4>4. QED
        BY <4>1, <4>2, <4>3, <2>1 DEF Told, Report, BtWorlds
    <3>3. CASE w.phone.call # "none"
      <4> DEFINE called == Report(w, "hfp", "none")
      <4>1. u = [called EXCEPT !.phone.call = "none"]
        BY <3>3 DEF Hangup
      <4>2. [w.phone EXCEPT !.conn = FALSE, !.play = FALSE, !.call = "none"] = q
        BY <2>3, <3>1
      <4>3. called \in BtWorlds /\ called.phone = w.phone
        BY <2>1, <2>2, <2>3, <3>3 DEF Report, BtWorlds
      <4>4. Lost(w) = [Report(called, "sink", "disconnected")
                          EXCEPT !.phone = [w.phone EXCEPT !.conn = FALSE, !.play = FALSE,
                                                           !.call = "none"]]
        BY <2>1, <1>2, <3>3, <4>3 DEF Lost, Report, BtWorlds
      <4> HIDE DEF called
      <4>5. u.air = called.air /\ u.bt = called.bt /\ u.app = called.app
            /\ u.calls = called.calls /\ u.shown = called.shown
        BY <4>1, <4>3 DEF BtWorlds
      <4> HIDE DEF q, u
      <4>6. Lost(w) = [Report(called, "sink", "disconnected") EXCEPT !.phone = q]
        BY <4>2, <4>4
      <4>7. Report(called, "sink", "disconnected")
              = [called EXCEPT !.air = Append(called.air, msg)]
        BY <4>3 DEF Report, BtWorlds
      <4> HIDE DEF msg
      <4>8. [[called EXCEPT !.air = Append(called.air, msg)] EXCEPT !.phone = q]
              = [u EXCEPT !.air = Append(u.air, msg), !.phone = q]
        BY <4>3, <4>5, <2>2 DEF BtWorlds
      <4>9. QED
        BY <4>6, <4>7, <4>8 DEF Told
    <3>4. QED
      BY <3>2, <3>3
  <2>8. ~q.conn /\ q.mode = w.phone.mode
    BY <2>3, <2>1, <2>2 DEF Phones
  <2> HIDE DEF msg, q, u
  <2>9. Still(u, Lost(w)) /\ Lost(w).phone = q
    BY <2>2, <2>4, <2>5, <2>6, <2>7, Telling
  <2>10. QED
    BY <2>2, <2>8, <2>9 DEF Still
<1>3. QED
  BY <1>1, <1>2

LEMMA CloseTells ==
    ASSUME NEW w, Fits(w)
    PROVE  Still(w, Close(w))
<1>1. CASE w.phone.mode = "off"
  BY <1>1, StillItself DEF Close
<1>2. CASE w.phone.mode # "off"
  <2> DEFINE u == Lost(w)
             msg == [from |-> "sink", kind |-> "closed"]
             q == [u.phone EXCEPT !.mode = "off"]
  <2>1. w \in BtWorlds /\ w.phone \in Phones /\ w.phone.mode = "sink"
    BY FitsSomePhone, <1>2 DEF Phones
  <2>2. Still(w, u) /\ Fits(u) /\ u \in BtWorlds /\ u.phone \in Phones /\ ~u.phone.conn
        /\ u.phone.mode = "sink"
    BY <2>1, LostTells, FitsSomePhone DEF Still
  <2>3. msg \in BtReports
    BY DEF BtReports, Modes, A2dpKinds
  <2>4. q \in Phones
    BY <2>2 DEF Phones
  <2>5. Moves(u.phone, msg, q)
    BY <2>2 DEF Moves, RadioMoves
  <2>6. Close(w) = Told(u, msg, q)
    BY <2>1, <2>2 DEF Close, Told, Report, BtWorlds
  <2> HIDE DEF msg, q, u
  <2>7. Still(u, Close(w))
    BY <2>2, <2>3, <2>4, <2>5, <2>6, Telling
  <2>8. QED
    BY <2>2, <2>7 DEF Still
<1>3. QED
  BY <1>1, <1>2

LEMMA OpenTells ==
    ASSUME NEW w, Fits(w)
    PROVE  Still(w, Open(w, "sink"))
<1>1. w \in BtWorlds /\ w.phone \in Phones /\ w.bt.mode = "sink"
  BY FitsSomePhone
<1>2. [w EXCEPT !.bt.mode = "sink"] = w
  BY <1>1 DEF BtWorlds
<1>3. CASE w.phone.mode = "sink"
  BY <1>2, <1>3, StillItself DEF Open
<1>4. CASE w.phone.mode # "sink"
  <2> DEFINE msg == [from |-> "sink", kind |-> "opened"]
             q == [w.phone EXCEPT !.mode = "sink"]
  <2>1. w.phone.mode = "off"
    BY <1>1, <1>4 DEF Phones
  <2>2. Close(w) = w
    BY <2>1 DEF Close
  <2>3. msg \in BtReports
    BY DEF BtReports, Modes, A2dpKinds
  <2>4. q \in Phones
    BY <1>1 DEF Phones
  <2>5. Moves(w.phone, msg, q)
    BY <2>1 DEF Moves, RadioMoves
  <2>6. Open(w, "sink") = Told(w, msg, q)
    BY <1>1, <1>2, <1>4, <2>2 DEF Open, Told, Report, BtWorlds
  <2> HIDE DEF msg, q
  <2>7. QED
    BY <2>3, <2>4, <2>5, <2>6, Telling
<1>5. QED
  BY <1>3, <1>4
-----------------------------------------------------------------------------
\* The queues hold at most two, which these tell apart.
LEMMA QueueGrows ==
    ASSUME NEW S, NEW q \in Seq(S), NEW x \in S
    PROVE  /\ None(q) => One(Append(q, x), x)
           /\ \A y : One(q, y) => Two(Append(q, x), y, x)
<1>1. /\ Len(q) \in Nat /\ Len(Append(q, x)) = Len(q) + 1
      /\ \A i \in 1 .. Len(q) : Append(q, x)[i] = q[i]
      /\ Append(q, x)[Len(q) + 1] = x
  BY AppendProperties, LenProperties
<1>2. ASSUME None(q) PROVE One(Append(q, x), x)
  BY <1>1, <1>2 DEF None, One
<1>3. ASSUME NEW y, One(q, y) PROVE Two(Append(q, x), y, x)
  <2>1. Len(q) = 1 /\ 1 \in 1 .. 1
    BY <1>3 DEF One
  <2>2. QED
    BY <2>1, <1>1, <1>3 DEF One, Two
<1>4. QED
  BY <1>2, <1>3

LEMMA QueueShrinks ==
    ASSUME NEW S, NEW q \in Seq(S)
    PROVE  /\ None(q) <=> q = <<>>
           /\ \A x : One(q, x) => q # <<>> /\ Head(q) = x /\ None(Tail(q))
           /\ \A x, y : Two(q, x, y) => q # <<>> /\ Head(q) = x /\ One(Tail(q), y)
<1>1. None(q) <=> q = <<>>
  BY EmptySeq, LenProperties DEF None
<1>2. q # <<>> => /\ Head(q) = q[1] /\ Len(Tail(q)) = Len(q) - 1
                  /\ \A i \in 1 .. Len(q) - 1 : Tail(q)[i] = q[i + 1]
  BY HeadTailProperties
<1>3. ASSUME NEW x, One(q, x) PROVE q # <<>> /\ Head(q) = x /\ None(Tail(q))
  <2>1. Len(q) = 1 /\ Len(q) # 0 /\ q[1] = x
    BY <1>3 DEF One
  <2>2. q # <<>>
    BY <2>1, <1>1 DEF None
  <2>3. QED
    BY <2>1, <2>2, <1>2 DEF None
<1>4. ASSUME NEW x, NEW y, Two(q, x, y) PROVE q # <<>> /\ Head(q) = x /\ One(Tail(q), y)
  <2>1. Len(q) = 2 /\ Len(q) # 0 /\ q[1] = x /\ q[2] = y
    BY <1>4 DEF Two
  <2>2. q # <<>>
    BY <2>1, <1>1 DEF None
  <2>3. Len(Tail(q)) = 1 /\ 1 \in 1 .. 1 /\ 1 \in 1 .. Len(q) - 1 /\ Tail(q)[1] = q[1 + 1]
    BY <2>1, <2>2, <1>2
  <2>4. QED
    BY <2>1, <2>2, <2>3, <1>2 DEF One
<1>5. QED
  BY <1>1, <1>3, <1>4

\* What the properties look at is the same, but a ringtone may have ended.
Same(w, v) ==
    /\ v.bt = w.bt /\ v.calls = w.calls
    /\ v.app.skill = w.app.skill /\ v.app.callState = w.app.callState
    /\ v.shown.front = w.shown.front /\ v.shown.lights = w.shown.lights
    /\ v.shown.monologue = w.shown.monologue /\ v.shown.key = w.shown.key
    /\ v.shown.ringtone => w.shown.ringtone

\* Nothing is to be done.
Idle(w) == w.calls.asked = <<>> /\ w.calls.told = <<>>
AtRest(w) == Fits(w) /\ AllKept(w) /\ Idle(w)

LEMMA SameSound ==
    ASSUME NEW w, NEW v, Fits(v), Same(w, v)
    PROVE  /\ AllKept(w) => AllKept(v)
           /\ BtSound(w) => BtSound(v)
           /\ AtRest(w) => AtRest(v)
<1>1. (InCall(w) <=> InCall(v)) /\ (IsBack(w) <=> IsBack(v))
  BY DEF Same, InCall, IsBack
<1>2. CallIsKept(w) => CallIsKept(v)
  BY DEF Same, CallIsKept, InCall, GetCallState, IsConnected
<1>3. MonologueIsKept(w) => MonologueIsKept(v)
  BY DEF Same, MonologueIsKept, InCall
<1>4. AllKept(w) => AllKept(v)
  BY <1>2, <1>3 DEF AllKept
<1>5. v.calls = w.calls /\ v.shown.front = w.shown.front
  BY DEF Same
<1>6. StillToDo(w) => StillToDo(v)
  BY <1>1, <1>2, <1>4, <1>5 DEF StillToDo
<1>7. QED
  BY <1>4, <1>5, <1>6 DEF BtSound, AtRest, Idle, Fits

LEMMA StillSame ==
    ASSUME NEW w, NEW v, Still(w, v) PROVE Same(w, v) /\ Fits(v)
BY DEF Still, Same

LEMMA RestSound ==
    ASSUME NEW w, AtRest(w) PROVE BtSound(w)
<1>1. None(w.calls.asked) /\ None(w.calls.told)
  BY EmptySeq DEF None, AtRest, Idle
<1>2. QED
  BY <1>1 DEF AtRest, BtSound, Fits, StillToDo

LEMMA SoundRests ==
    ASSUME NEW w, BtSound(w), Idle(w) PROVE AtRest(w)
<1>1. Len(w.calls.asked) = 0 /\ Len(w.calls.told) = 0
  BY EmptySeq DEF Idle
<1>2. AllKept(w)
  BY <1>1 DEF BtSound, StillToDo, None, One, Two
<1>3. QED
  BY <1>2 DEF BtSound, AtRest, Fits

LEMMA SaysOnly ==
    ASSUME NEW w, AtRest(w), NEW x \in {"speak", "wait", "music"}
    PROVE  BtSound(Ask(w, x))
<1> DEFINE v == Ask(w, x)
<1>1. x \in BtAsks /\ w \in BtWorlds /\ w.calls.asked \in Seq(BtAsks)
  BY DEF BtAsks, AtRest, Fits, BtWorlds, CallQueues
<1>2. /\ v \in BtWorlds /\ v.phone = w.phone /\ v.air = w.air /\ v.bt = w.bt
      /\ v.app = w.app /\ v.shown = w.shown
      /\ v.calls.told = w.calls.told /\ v.calls.asked = Append(w.calls.asked, x)
  BY <1>1, AskIs
<1> HIDE DEF v
<1>3. None(w.calls.asked) /\ None(w.calls.told)
  BY EmptySeq DEF None, AtRest, Idle
<1>4. One(v.calls.asked, x) /\ None(v.calls.told)
  BY <1>1, <1>2, <1>3, QueueGrows
<1>5. AllKept(v)
  BY <1>2 DEF AtRest, AllKept, CallIsKept, MonologueIsKept, InCall, GetCallState, IsConnected
<1>6. QED
  BY <1>2, <1>4, <1>5 DEF BtSound, StillToDo, AtRest, Fits, v
-----------------------------------------------------------------------------
(* Steps *)

LEMMA ResultsSound ==
    ASSUME NEW v, BtSound(v), Results(v)
    PROVE  BtSound(Bluetooth)'
<1>1. v = [phone |-> v.phone, air |-> v.air, bt |-> v.bt, app |-> v.app,
           calls |-> v.calls, shown |-> v.shown]
  BY DEF BtSound, BtWorlds
<1>2. Bluetooth' = v
  BY <1>1 DEF Results, Bluetooth
<1>3. QED
  BY <1>2

\* A runtime that is not slow leaves nothing to do when something happens.
LEMMA RoomRests ==
    ASSUME PlainBluetooth, BtSound(Bluetooth), Prompt
    PROVE  AtRest(Bluetooth)
<1>1. btCalls.asked = <<>> /\ btCalls.told = <<>>
  BY DEF PlainBluetooth, Prompt
<1>2. Idle(Bluetooth)
  BY <1>1 DEF Idle, Bluetooth
<1>3. QED
  BY <1>2, SoundRests

LEMMA PhoneMoves ==
    ASSUME BtSound(Bluetooth), NEW msg \in BtReports, NEW q \in Phones, Moves(phone, msg, q),
           Results(Told(Bluetooth, msg, q))
    PROVE  BtSound(Bluetooth)'
<1> DEFINE w == Bluetooth
<1>1. Fits(w) /\ w.phone = phone /\ BtSound(w)
  BY DEF BtSound, Fits, Bluetooth
<1> HIDE DEF w
<1>2. BtSound(Told(w, msg, q))
  BY <1>1, Telling, StillSame, SameSound
<1>3. QED
  BY <1>2, ResultsSound DEF w

LEMMA PhoneSteps ==
    ASSUME PlainBluetooth, BtSound(Bluetooth),
           PhoneConnects \/ PhoneLeaves \/ PhoneRings
             \/ (\E play \in BOOLEAN : PhonePlays(play))
             \/ (\E next \in Setups : PhoneCalls(next))
    PROVE  BtSound(Bluetooth)'
<1>1. phone \in Phones /\ Bluetooth \in BtWorlds /\ Fits(Bluetooth) /\ Bluetooth.phone = phone
  BY DEF BtSound, BtWorlds, Fits, Bluetooth
<1>2. ASSUME PhoneConnects PROVE BtSound(Bluetooth)'
  <2> DEFINE msg == [from |-> "sink", kind |-> "connected"]
             q == [phone EXCEPT !.conn = TRUE]
  <2>1. phone.mode = "sink" /\ ~phone.conn
    BY <1>1, <1>2 DEF PhoneConnects, Phones
  <2>2. msg \in BtReports /\ q \in Phones
    BY <1>1, <2>1 DEF BtReports, Modes, A2dpKinds, Phones
  <2>3. Moves(phone, msg, q)
    BY <2>1 DEF Moves, RadioMoves
  <2>4. Results([Report(Bluetooth, "sink", "connected") EXCEPT !.phone.conn = TRUE])
    BY <1>2, <2>1 DEF PhoneConnects
  <2>5. [Report(Bluetooth, "sink", "connected") EXCEPT !.phone.conn = TRUE]
          = Told(Bluetooth, msg, q)
    BY <1>1 DEF Told, Report, BtWorlds
  <2> HIDE DEF msg, q
  <2>6. QED
    BY <2>2, <2>3, <2>4, <2>5, PhoneMoves
<1>3. ASSUME PhoneLeaves PROVE BtSound(Bluetooth)'
  <2>1. BtSound(Lost(Bluetooth))
    BY <1>1, LostTells, StillSame, SameSound
  <2>2. QED
    BY <1>3, <2>1, ResultsSound DEF PhoneLeaves
<1>4. ASSUME PhoneRings PROVE BtSound(Bluetooth)'
  <2> DEFINE msg == [from |-> "hfp", kind |-> "ring"]
  <2>1. msg \in BtReports /\ Moves(phone, msg, phone)
    BY <1>4 DEF BtReports, Moves, PhoneRings
  <2>2. Report(Bluetooth, "hfp", "ring") = Told(Bluetooth, msg, phone)
    BY <1>1 DEF Told, Report, BtWorlds
  <2> HIDE DEF msg
  <2>3. Results(Told(Bluetooth, msg, phone))
    BY <1>4, <2>2 DEF PhoneRings
  <2>4. QED
    BY <2>1, <2>3, <1>1, PhoneMoves
<1>5. ASSUME NEW play \in BOOLEAN, PhonePlays(play) PROVE BtSound(Bluetooth)'
  <2> DEFINE kind == IF play THEN "played" ELSE "stopped"
             msg == [from |-> "sink", kind |-> kind]
             q == [phone EXCEPT !.play = play]
  <2>1. phone.mode = "sink" /\ phone.conn
    BY <1>5 DEF PhonePlays
  <2>2. msg \in BtReports /\ q \in Phones
    BY <1>1, <2>1 DEF BtReports, Modes, A2dpKinds, Phones
  <2>3. Moves(phone, msg, q)
    <3>1. RadioMoves(phone, kind, q)
      BY <2>1 DEF RadioMoves
    <3>2. QED
      BY <3>1 DEF Moves
  <2>4. Results([Report(Bluetooth, "sink", kind) EXCEPT !.phone.play = play])
    BY <1>5 DEF PhonePlays
  <2>5. [Report(Bluetooth, "sink", kind) EXCEPT !.phone.play = play] = Told(Bluetooth, msg, q)
    BY <1>1 DEF Told, Report, BtWorlds
  <2> HIDE DEF msg, q, kind
  <2>6. QED
    BY <2>2, <2>3, <2>4, <2>5, PhoneMoves
<1>6. ASSUME NEW next \in Setups, PhoneCalls(next) PROVE BtSound(Bluetooth)'
  <2> DEFINE msg == [from |-> "hfp", kind |-> next]
             q == [phone EXCEPT !.call = next]
  <2>1. phone.conn /\ phone.mode = "sink" /\ next # "alerting" /\ next # "ring"
    BY <1>6 DEF PhoneCalls, Calling, PlainBluetooth, Setups
  <2>2. msg \in BtReports /\ q \in Phones
    BY <1>1, <2>1, <1>6 DEF BtReports, Phones, Setups, Calls
  <2>3. Moves(phone, msg, q)
    <3>1. HfpMoves(phone, next, q)
      BY <1>6, <1>1, <2>1 DEF PhoneCalls, HfpMoves, Phones, Calls
    <3>2. QED
      BY <3>1, <2>1 DEF Moves
  <2>4. Results([Report(Bluetooth, "hfp", next) EXCEPT !.phone.call = next])
    BY <1>6 DEF PhoneCalls
  <2>5. [Report(Bluetooth, "hfp", next) EXCEPT !.phone.call = next] = Told(Bluetooth, msg, q)
    BY <1>1 DEF Told, Report, BtWorlds
  <2> HIDE DEF msg, q
  <2>6. QED
    BY <2>2, <2>3, <2>4, <2>5, PhoneMoves
<1>7. QED
  BY <1>2, <1>3, <1>4, <1>5, <1>6
\* Changes of the app that nothing depends on.
LEMMA TimerSame ==
    ASSUME NEW w, Fits(w), NEW t \in {"none", "play", "connect"}
    PROVE  /\ Same(w, SetTimer(w, t)) /\ Fits(SetTimer(w, t))
           /\ SetTimer(w, t).app = [w.app EXCEPT !.timer = t]
           /\ SetTimer(w, t).shown = w.shown
<1>1. w \in BtWorlds
  BY DEF Fits
<1>2. w.app \in AppStates
  BY <1>1 DEF BtWorlds
<1> DEFINE a == [w.app EXCEPT !.timer = t]
           v == SetTimer(w, t)
<1>3. a.skill = w.app.skill /\ a.callState = w.app.callState
  BY <1>2
<1> HIDE DEF a
<1>4. v \in BtWorlds /\ v.phone = w.phone /\ v.air = w.air /\ v.bt = w.bt
      /\ v.calls = w.calls /\ v.shown = w.shown /\ v.app = a
  BY <1>1, TimerIs DEF a
<1> HIDE DEF v
<1>5. Same(w, v) /\ Fits(v)
  BY <1>3, <1>4 DEF Fits, Same
<1>6. QED
  BY <1>4, <1>5 DEF a, v

LEMMA IntentSame ==
    ASSUME NEW w, Fits(w), NEW i \in BluetoothIntents \cup {Derived, "implicit_disconnect"}
    PROVE  LET v == [w EXCEPT !.app.lastIntent = i]
           IN  /\ Same(w, v) /\ Fits(v)
               /\ v.app = [w.app EXCEPT !.lastIntent = i]
               /\ v.shown = w.shown
<1>1. w \in BtWorlds
  BY DEF Fits
<1>2. w.app \in AppStates
  BY <1>1 DEF BtWorlds
<1> DEFINE a == [w.app EXCEPT !.lastIntent = i]
           v == [w EXCEPT !.app = a]
<1>3. a \in AppStates
      /\ a.skill = w.app.skill /\ a.callState = w.app.callState
  BY <1>2 DEF AppStates
<1> HIDE DEF a
<1>4. v \in BtWorlds /\ v.phone = w.phone /\ v.air = w.air /\ v.bt = w.bt /\ v.app = a
      /\ v.calls = w.calls /\ v.shown = w.shown
  BY <1>1, <1>3 DEF BtWorlds
<1> HIDE DEF v
<1>5. Same(w, v) /\ Fits(v)
  BY <1>3, <1>4 DEF Fits, Same
<1>6. QED
  BY <1>4, <1>5 DEF a, v

LEMMA ResumeSame ==
    ASSUME NEW w, Fits(w), NEW b \in BOOLEAN
    PROVE  LET v == [w EXCEPT !.app.needResume = b]
           IN  Same(w, v) /\ Fits(v)
<1>1. w \in BtWorlds
  BY DEF Fits
<1>2. w.app \in AppStates
  BY <1>1 DEF BtWorlds
<1> DEFINE a == [w.app EXCEPT !.needResume = b]
           v == [w EXCEPT !.app = a]
<1>3. a \in AppStates
      /\ a.skill = w.app.skill /\ a.callState = w.app.callState
  BY <1>2 DEF AppStates
<1> HIDE DEF a
<1>4. v \in BtWorlds /\ v.phone = w.phone /\ v.air = w.air /\ v.bt = w.bt /\ v.app = a
      /\ v.calls = w.calls /\ v.shown = w.shown
  BY <1>1, <1>3 DEF BtWorlds
<1> HIDE DEF v
<1>5. Same(w, v) /\ Fits(v)
  BY <1>3, <1>4 DEF Fits, Same
<1>6. QED
  BY <1>5 DEF a, v

LEMMA SilentSame ==
    ASSUME NEW w, Fits(w)
    PROVE  LET v == [w EXCEPT !.shown.ringtone = FALSE]
           IN  Same(w, v) /\ Fits(v) /\ v.app = w.app /\ ~v.shown.ringtone
<1>1. w \in BtWorlds
  BY DEF Fits
<1>2. w.shown \in ShownStates
  BY <1>1 DEF BtWorlds
<1> DEFINE s == [w.shown EXCEPT !.ringtone = FALSE]
           v == [w EXCEPT !.shown = s]
<1>3. s \in ShownStates
      /\ s.front = w.shown.front /\ s.lights = w.shown.lights
      /\ s.monologue = w.shown.monologue /\ s.key = w.shown.key /\ ~s.ringtone
  BY <1>2 DEF ShownStates
<1> HIDE DEF s
<1>4. v \in BtWorlds /\ v.phone = w.phone /\ v.air = w.air /\ v.bt = w.bt /\ v.app = w.app
      /\ v.calls = w.calls /\ v.shown = s
  BY <1>1, <1>3 DEF BtWorlds
<1> HIDE DEF v
<1>5. Same(w, v) /\ Fits(v)
  BY <1>3, <1>4 DEF Fits, Same
<1>6. QED
  BY <1>3, <1>4, <1>5 DEF s, v

LEMMA SameTransitive ==
    ASSUME NEW u, NEW v, NEW w, Same(u, v), Same(v, w)
    PROVE  Same(u, w)
BY DEF Same

LEMMA PauseSame ==
    ASSUME NEW w, Fits(w)
    PROVE  Same(w, PauseMusic(w)) /\ Fits(PauseMusic(w))
<1> DEFINE v == [w EXCEPT !.app.needResume = TRUE]
<1>1. Same(w, w)
  BY DEF Same
<1>2. Same(w, v) /\ Fits(v)
  BY ResumeSame
<1> HIDE DEF v
<1>3. Same(v, Playing(v, FALSE)) /\ Fits(Playing(v, FALSE))
  BY <1>2, PlayingTells, StillSame
<1>4. Same(w, Playing(v, FALSE))
  BY <1>2, <1>3, SameTransitive
<1>5. QED
  BY <1>1, <1>3, <1>4 DEF PauseMusic, PausePlayer, v

LEMMA ResumesSame ==
    ASSUME NEW w, Fits(w)
    PROVE  Same(w, ResumeMusic(w)) /\ Fits(ResumeMusic(w))
<1> DEFINE v == [w EXCEPT !.app.needResume = FALSE]
<1>1. Same(w, w)
  BY DEF Same
<1>2. Same(w, v) /\ Fits(v)
  BY ResumeSame
<1> HIDE DEF v
<1>3. Same(v, Playing(v, TRUE)) /\ Fits(Playing(v, TRUE))
  BY <1>2, PlayingTells, StillSame
<1>4. Same(w, Playing(v, TRUE))
  BY <1>2, <1>3, SameTransitive
<1>5. QED
  BY <1>1, <1>3, <1>4 DEF ResumeMusic, Play, v
LEMMA TimerOverSound ==
    ASSUME PlainBluetooth, BtSound(Bluetooth), TimerOver
    PROVE  BtSound(Bluetooth)'
<1> DEFINE w == CancelTimer(Bluetooth)
<1>1. AtRest(Bluetooth) /\ Fits(Bluetooth)
  BY RoomRests DEF TimerOver, HasRoom, AtRest
<1>2. Same(Bluetooth, w) /\ Fits(w)
  BY <1>1, TimerSame DEF CancelTimer
<1> HIDE DEF w
<1>3. AtRest(w) /\ BtSound(w)
  BY <1>1, <1>2, SameSound, RestSound
<1>4. BtSound(Speak(w))
  BY <1>3, SaysOnly DEF Speak
<1>5. Results(w) \/ Results(Speak(w))
  BY DEF TimerOver, w
<1>6. QED
  BY <1>3, <1>4, <1>5, ResultsSound

LEMMA RequestSound ==
    ASSUME PlainBluetooth, BtSound(Bluetooth), NEW intent \in BluetoothIntents,
           BluetoothRequest(intent)
    PROVE  BtSound(Bluetooth)'
<1> DEFINE u == [Bluetooth EXCEPT !.app.lastIntent = intent]
           w == CancelTimer(u)
<1>1. AtRest(Bluetooth) /\ Fits(Bluetooth)
  BY RoomRests DEF BluetoothRequest, HasRoom, AtRest
<1>2. Same(Bluetooth, u) /\ Fits(u)
  BY <1>1, IntentSame
<1>3. Results(HandleIntent(w, intent))
  BY DEF BluetoothRequest
<1> HIDE DEF u
<1>4. Same(u, w) /\ Fits(w)
  BY <1>2, TimerSame DEF CancelTimer
<1> HIDE DEF w
<1>5. AtRest(w) /\ BtSound(w)
  BY <1>1, <1>2, <1>4, SameSound, RestSound
<1>6. /\ BtSound(Open(w, "sink")) /\ BtSound(Close(w)) /\ BtSound(Disconnect(w))
      /\ BtSound(Play(w)) /\ BtSound(PausePlayer(w)) /\ BtSound(AnswerCall(w))
      /\ BtSound(Hangup(w)) /\ BtSound(Dial(w))
  <2>1. \A v : Still(w, v) => BtSound(v)
    BY <1>5, StillSame, SameSound
  <2>2. Still(w, Open(w, "sink")) /\ Still(w, Close(w)) /\ Still(w, Lost(w))
    BY <1>4, OpenTells, CloseTells, LostTells
  <2>3. Still(w, Playing(w, TRUE)) /\ Still(w, Playing(w, FALSE))
    BY <1>4, PlayingTells
  <2>4. Still(w, AnswerCall(w)) /\ Still(w, Hangup(w)) /\ Still(w, Dial(w))
    BY <1>4, AnswerTells, HangupTells, DialTells
  <2>5. QED
    BY <2>1, <2>2, <2>3, <2>4 DEF Disconnect, Play, PausePlayer
<1>7. BtSound(Speak(w))
  BY <1>5, SaysOnly DEF Speak
<1>8. BtSound(StartMusic(w))
  <2> DEFINE t == SetTimer(w, "play")
             v == SpeakOnly(t)
  <2>1. AtRest(t)
    BY <1>4, <1>5, TimerSame, SameSound
  <2> HIDE DEF t
  <2>2. BtSound(v)
    BY <2>1, SaysOnly DEF SpeakOnly
  <2> HIDE DEF v
  <2>3. Fits(v)
    BY <2>2 DEF BtSound, Fits
  <2>4. BtSound(Playing(v, TRUE))
    BY <2>2, <2>3, PlayingTells, StillSame, SameSound
  <2>5. StartMusic(w) = Play(v) \/ StartMusic(w) = Open(w, "sink")
    BY DEF StartMusic, v, t
  <2>6. QED
    BY <2>4, <2>5, <1>6 DEF Play
<1>9. intent # "connect_speaker"
  BY DEF PlainBluetooth, BluetoothIntents
<1>10. BtSound(HandleIntent(w, intent))
  <2>1. intent \in {"bluetooth_broadcast", "bluetooth_disconnect", "disconnect_devices",
                    "bluetooth_start_bluetooth_music", "resume", "stop", "call_answer",
                    "hang_up", "call_number"}
    BY <1>9 DEF BluetoothIntents
  <2>2. HandleIntent(w, intent) \in
          {Open(w, "sink"), Close(w), Disconnect(w), StartMusic(w), Play(w), PausePlayer(w),
           AnswerCall(w), Hangup(w), Dial(w), Speak(w), w}
    BY <2>1 DEF HandleIntent
  <2>3. QED
    BY <2>2, <1>5, <1>6, <1>7, <1>8
<1>11. QED
  BY <1>3, <1>10, ResultsSound

LEMMA KeySound ==
    ASSUME PlainBluetooth, BtSound(Bluetooth), OnKeyEvent
    PROVE  BtSound(Bluetooth)'
<1> DEFINE w == [Bluetooth EXCEPT !.shown.ringtone = FALSE]
<1>1. Fits(Bluetooth)
  BY DEF BtSound, Fits
<1>2. Same(Bluetooth, w) /\ Fits(w)
  BY <1>1, SilentSame
<1>3. Results(AnswerCall(w)) \/ Results(Hangup(Bluetooth))
  BY DEF OnKeyEvent
<1> HIDE DEF w
<1>4. BtSound(w)
  BY <1>2, SameSound
<1>5. BtSound(AnswerCall(w)) /\ BtSound(Hangup(Bluetooth))
  BY <1>1, <1>2, <1>4, AnswerTells, HangupTells, StillSame, SameSound
<1>6. QED
  BY <1>3, <1>5, ResultsSound

LEMMA QuietSound ==
    ASSUME PlainBluetooth, BtSound(Bluetooth), OnQuiteBack \/ OnQuiteFront
    PROVE  BtSound(Bluetooth)'
<1>1. Fits(Bluetooth)
  BY DEF BtSound, Fits
<1>2. BtSound(Hangup(Bluetooth)) /\ Fits(Hangup(Bluetooth))
  BY <1>1, HangupTells, StillSame, SameSound
<1>3. BtSound(PauseMusic(Hangup(Bluetooth))) /\ BtSound(PauseMusic(Bluetooth))
      /\ BtSound(ResumeMusic(Bluetooth))
  BY <1>1, <1>2, PauseSame, ResumesSame, SameSound
<1>4. Results(PauseMusic(Hangup(Bluetooth))) \/ Results(PauseMusic(Bluetooth))
        \/ Results(ResumeMusic(Bluetooth))
  BY DEF OnQuiteBack, OnQuiteFront
<1>5. QED
  BY <1>3, <1>4, ResultsSound
\* The place on the screen and the queues change; the first of the app's calls
\* is taken, without an answer or with the answer e.
Placed(w, s, c) == [w EXCEPT !.shown = s, !.calls = c]
Taken(w) == [w EXCEPT !.calls.asked = Tail(@)]
Quietly(w) == [w.calls EXCEPT !.asked = Tail(@)]
Loudly(w, e) == [w.calls EXCEPT !.asked = Tail(@), !.told = Append(@, e)]
Heard(w, e) == [w EXCEPT !.calls.told = Append(@, e)]

LEMMA PlacedIs ==
    ASSUME NEW w, Fits(w), NEW s \in ShownStates, NEW c \in CallQueues
    PROVE  LET v == Placed(w, s, c)
           IN  /\ Fits(v) /\ v.bt = w.bt /\ v.app = w.app /\ v.shown = s /\ v.calls = c
               /\ (InCall(v) <=> InCall(w)) /\ (IsBack(v) <=> IsBack(w))
               /\ s.lights = w.shown.lights /\ s.ringtone = w.shown.ringtone
                    => (CallIsKept(v) <=> CallIsKept(w))
               /\ s.monologue = w.shown.monologue /\ s.key = w.shown.key
                    => (MonologueIsKept(v) <=> MonologueIsKept(w))
<1> DEFINE v == Placed(w, s, c)
<1>1. v \in BtWorlds /\ v.phone = w.phone /\ v.air = w.air /\ v.bt = w.bt /\ v.app = w.app
      /\ v.shown = s /\ v.calls = c
  BY DEF Fits, BtWorlds, Placed
<1> HIDE DEF v
<1>2. Fits(v) /\ (InCall(v) <=> InCall(w)) /\ (IsBack(v) <=> IsBack(w))
  BY <1>1 DEF Fits, InCall, IsBack
<1>3. GetCallState(v) = GetCallState(w) /\ (IsConnected(v) <=> IsConnected(w))
  BY <1>1 DEF GetCallState, IsConnected
<1>4. s.lights = w.shown.lights /\ s.ringtone = w.shown.ringtone
        => (CallIsKept(v) <=> CallIsKept(w))
  BY <1>1, <1>2, <1>3 DEF CallIsKept
<1>5. s.monologue = w.shown.monologue /\ s.key = w.shown.key
        => (MonologueIsKept(v) <=> MonologueIsKept(w))
  BY <1>1, <1>2 DEF MonologueIsKept
<1>6. QED
  BY <1>1, <1>2, <1>4, <1>5 DEF v

\* Another app comes in front while there is nothing to do, and no call.
LEMMA CoveredSound ==
    ASSUME PlainBluetooth, BtSound(Bluetooth), Covers \/ Evicts
    PROVE  BtSound(Bluetooth)'
<1> DEFINE w == Bluetooth
<1>1. AtRest(w) /\ Fits(w) /\ AllKept(w) /\ Idle(w)
  BY RoomRests DEF Covers, Evicts, HasRoom, AtRest
<1>2. ~InCall(w)
  BY <1>1 DEF AllKept, MonologueIsKept, Covers, Evicts, Bluetooth
<1>3. w.shown \in ShownStates /\ w.calls \in CallQueues /\ w \in BtWorlds
      /\ w.calls.told \in Seq(BtTells)
  BY <1>1 DEF Fits, BtWorlds, CallQueues
<1>4. ASSUME NEW event \in {"pause", "resume", "background"}, NEW s \in ShownStates,
             s.lights = w.shown.lights, s.ringtone = w.shown.ringtone,
             s.monologue = w.shown.monologue, s.key = w.shown.key
      PROVE  LET c == [w.calls EXCEPT !.told = Append(@, event)]
             IN  BtSound(Placed(w, s, c))
  <2> DEFINE c == [w.calls EXCEPT !.told = Append(@, event)]
             v == Placed(w, s, c)
  <2>1. event \in BtTells
    BY DEF BtTells
  <2>2. Append(w.calls.told, event) \in Seq(BtTells)
    BY <1>3, <2>1, AppendProperties
  <2>3. c \in CallQueues /\ c.asked = w.calls.asked /\ c.told = Append(w.calls.told, event)
    BY <1>3, <2>2 DEF CallQueues
  <2> HIDE DEF c
  <2>4. None(w.calls.asked) /\ None(w.calls.told)
    BY <1>1, EmptySeq DEF None, Idle
  <2>5. None(c.asked) /\ One(c.told, event)
    BY <1>3, <2>1, <2>3, <2>4, QueueGrows
  <2> HIDE DEF w
  <2>6. Fits(v) /\ v.calls = c /\ CallIsKept(v) /\ MonologueIsKept(v) /\ ~InCall(v)
    BY <1>1, <1>2, <1>4, <2>3, PlacedIs DEF AllKept
  <2> HIDE DEF v
  <2>7. BtSound(v)
    BY <2>5, <2>6 DEF BtSound, Fits, StillToDo, AllKept
  <2>8. QED
    BY <2>7 DEF v, c
<1>5. ASSUME Covers PROVE BtSound(Bluetooth)'
  <2> DEFINE event == IF btShown.covered THEN "resume" ELSE "pause"
             s == [w.shown EXCEPT !.covered = ~@]
             c == [w.calls EXCEPT !.told = Append(@, event)]
  <2>1. s \in ShownStates /\ s.lights = w.shown.lights /\ s.ringtone = w.shown.ringtone
        /\ s.monologue = w.shown.monologue /\ s.key = w.shown.key
    BY <1>3 DEF ShownStates
  <2>2. Results([w EXCEPT !.shown.covered = ~@, !.calls.told = Append(@, event)])
    BY <1>5 DEF Covers
  <2>3. event \in {"pause", "resume", "background"}
    OBVIOUS
  <2> HIDE DEF event
  <2>4. [w EXCEPT !.shown.covered = ~@, !.calls.told = Append(@, event)]
          = Placed(w, s, c)
    BY <1>3 DEF BtWorlds, Placed
  <2> HIDE DEF s, w
  <2>5. BtSound(Placed(w, s, c))
    BY <1>4, <2>1, <2>3
  <2>6. QED
    BY <2>2, <2>4, <2>5, ResultsSound
<1>6. ASSUME Evicts PROVE BtSound(Bluetooth)'
  <2> DEFINE s == [w.shown EXCEPT !.front = FALSE, !.covered = FALSE]
             c == [w.calls EXCEPT !.told = Append(@, "background")]
  <2>1. s \in ShownStates /\ s.lights = w.shown.lights /\ s.ringtone = w.shown.ringtone
        /\ s.monologue = w.shown.monologue /\ s.key = w.shown.key
    BY <1>3 DEF ShownStates
  <2>2. Results([w EXCEPT !.shown.front = FALSE, !.shown.covered = FALSE,
                          !.calls.told = Append(@, "background")])
    BY <1>6 DEF Evicts
  <2>3. [w EXCEPT !.shown.front = FALSE, !.shown.covered = FALSE,
                  !.calls.told = Append(@, "background")]
          = Placed(w, s, c)
    BY <1>3 DEF BtWorlds, Placed
  <2> HIDE DEF s, w
  <2>4. BtSound(Placed(w, s, c))
    BY <1>4, <2>1
  <2>5. QED
    BY <2>2, <2>3, <2>4, ResultsSound
<1>7. QED
  BY <1>5, <1>6
LEMMA AnsweredIs ==
    ASSUME NEW w \in BtWorlds, w.calls.asked # <<>>, NEW s \in ShownStates, NEW e \in BtTells
    PROVE  /\ Quietly(w) \in CallQueues /\ Quietly(w).asked = Tail(w.calls.asked)
           /\ Quietly(w).told = w.calls.told
           /\ Loudly(w, e) \in CallQueues /\ Loudly(w, e).asked = Tail(w.calls.asked)
           /\ Loudly(w, e).told = Append(w.calls.told, e)
           /\ [Taken(w) EXCEPT !.shown = s] = Placed(w, s, Quietly(w))
           /\ Heard([Taken(w) EXCEPT !.shown = s], e) = Placed(w, s, Loudly(w, e))
           /\ Taken(w) = Placed(w, w.shown, Quietly(w))
           /\ Taken(w).shown = w.shown
<1> DEFINE quiet == Quietly(w)
           loud == Loudly(w, e)
           taken == Taken(w)
<1>1. w.calls \in CallQueues /\ w.calls.asked \in Seq(BtAsks) /\ w.calls.told \in Seq(BtTells)
  BY DEF BtWorlds, CallQueues
<1>2. Tail(w.calls.asked) \in Seq(BtAsks) /\ Append(w.calls.told, e) \in Seq(BtTells)
  BY <1>1, HeadTailProperties, AppendProperties
<1>3. /\ quiet \in CallQueues /\ quiet.asked = Tail(w.calls.asked) /\ quiet.told = w.calls.told
      /\ loud \in CallQueues /\ loud.asked = Tail(w.calls.asked)
      /\ loud.told = Append(w.calls.told, e)
  BY <1>1, <1>2 DEF CallQueues, Quietly, Loudly
<1>4. loud = [quiet EXCEPT !.told = Append(@, e)]
  BY <1>1 DEF CallQueues, Quietly, Loudly
<1>5. taken = [w EXCEPT !.calls = quiet]
  BY DEF BtWorlds, Taken, Quietly
<1> HIDE DEF quiet, loud, taken
<1>6. taken \in BtWorlds /\ taken.calls = quiet /\ taken.shown = w.shown
  BY <1>3, <1>5 DEF BtWorlds
<1>7. taken = Placed(w, w.shown, quiet)
  BY <1>5 DEF BtWorlds, Placed
<1>8. [taken EXCEPT !.shown = s] = Placed(w, s, quiet)
  BY <1>5 DEF BtWorlds, Placed
<1>9. Heard([taken EXCEPT !.shown = s], e) = Placed(w, s, loud)
  <2> DEFINE v == Placed(w, s, quiet)
  <2>1. v.calls = quiet
    BY DEF BtWorlds, Placed
  <2>2. Heard(v, e) = [v EXCEPT !.calls = loud]
    BY <2>1, <1>4 DEF Heard
  <2>3. [v EXCEPT !.calls = loud] = Placed(w, s, loud)
    BY DEF BtWorlds, Placed
  <2>4. QED
    BY <2>2, <2>3, <1>8
<1>10. QED
  BY <1>3, <1>6, <1>7, <1>8, <1>9 DEF quiet, loud, taken

LEMMA FirstAsked ==
    ASSUME NEW w, BtSound(w), w.calls.asked # <<>>
    PROVE  LET what == Head(w.calls.asked)
               rest == Tail(w.calls.asked)
               t == w.calls.told
           IN  \/ what \in {"music", "wait"} /\ None(rest) /\ None(t) /\ AllKept(w)
               \/ what = "speak" /\ None(rest) /\ None(t) /\ AllKept(w)
               \/ what = "speak" /\ None(rest) /\ One(t, "background") /\ AllKept(w) /\ IsBack(w)
               \/ what = "back" /\ None(rest) /\ None(t) /\ AllKept(w) /\ IsBack(w)
               \/ what = "back" /\ One(rest, "speak") /\ None(t) /\ AllKept(w) /\ IsBack(w)
               \/ what = "call" /\ None(rest) /\ None(t) /\ CallIsKept(w) /\ InCall(w)
               \/ what = "start" /\ None(rest) /\ None(t) /\ CallIsKept(w) /\ InCall(w)
                    /\ w.shown.front
               \/ what = "end" /\ One(rest, "back") /\ None(t) /\ CallIsKept(w) /\ IsBack(w)
<1> DEFINE q == w.calls.asked
<1>1. q \in Seq(BtAsks)
  BY DEF BtSound, BtWorlds, CallQueues
<1> HIDE DEF q
<1>2. q = w.calls.asked
  BY DEF q
<1>3. /\ None(q) <=> q = <<>>
      /\ \A x : One(q, x) => Head(q) = x /\ None(Tail(q))
      /\ \A x, y : Two(q, x, y) => Head(q) = x /\ One(Tail(q), y)
  BY <1>1, QueueShrinks
<1>4. StillToDo(w)
  BY DEF BtSound
<1>5. QED
  BY <1>2, <1>3, <1>4 DEF StillToDo

LEMMA AnswersSound ==
    ASSUME BtSound(Bluetooth), RuntimeAnswers
    PROVE  BtSound(Bluetooth)'
<1> DEFINE w == Bluetooth
           what == Head(w.calls.asked)
           rest == Tail(w.calls.asked)
           t == w.calls.told
           V(s, c) == Placed(w, s, c)
           quiet == Quietly(w)
           Loud(e) == Loudly(w, e)
           taken == Taken(w)
           up == [w.shown EXCEPT !.front = TRUE, !.covered = FALSE]
           down == [w.shown EXCEPT !.front = FALSE, !.covered = FALSE, !.monologue = FALSE]
           begun == [w.shown EXCEPT !.monologue = w.shown.front, !.key = TRUE]
           ended == [w.shown EXCEPT !.monologue = FALSE, !.key = FALSE]
<1>1. w \in BtWorlds /\ Fits(w) /\ w.shown \in ShownStates /\ t \in Seq(BtTells)
      /\ w.calls \in CallQueues
  BY DEF BtSound, Fits, BtWorlds, CallQueues
<1>2. w.calls = btCalls /\ w.shown = btShown /\ w.calls.asked # <<>>
  BY DEF RuntimeAnswers, Bluetooth
<1>3. /\ up \in ShownStates /\ up.front /\ up.lights = w.shown.lights
      /\ up.ringtone = w.shown.ringtone /\ up.monologue = w.shown.monologue
      /\ up.key = w.shown.key
      /\ down \in ShownStates /\ down.lights = w.shown.lights
      /\ down.ringtone = w.shown.ringtone /\ ~down.monologue /\ down.key = w.shown.key
      /\ begun \in ShownStates /\ begun.lights = w.shown.lights
      /\ begun.ringtone = w.shown.ringtone /\ begun.monologue = w.shown.front /\ begun.key
      /\ ended \in ShownStates /\ ended.lights = w.shown.lights
      /\ ended.ringtone = w.shown.ringtone /\ ~ended.monologue /\ ~ended.key
  BY <1>1 DEF ShownStates
<1>4. {"called", "spoken", "background"} \subseteq BtTells
  BY DEF BtTells
<1>5. /\ quiet \in CallQueues /\ quiet.asked = rest /\ quiet.told = t
      /\ taken = V(w.shown, quiet) /\ taken.shown = w.shown
  BY <1>1, <1>2, <1>4, AnsweredIs
<1>6. \A e \in BtTells : Loud(e) \in CallQueues /\ Loud(e).asked = rest
                         /\ Loud(e).told = Append(t, e)
  BY <1>1, <1>2, AnsweredIs
<1>7. \A s \in ShownStates : [taken EXCEPT !.shown = s] = V(s, quiet)
  BY <1>1, <1>2, <1>4, AnsweredIs
<1>8. \A s \in ShownStates, e \in BtTells :
        Heard([taken EXCEPT !.shown = s], e) = V(s, Loud(e))
  <2> TAKE s \in ShownStates, e \in BtTells
  <2> HIDE DEF w
  <2>1. QED
    BY <1>1, <1>2, AnsweredIs
<1>9. /\ what \in {"music", "wait"} => Results([taken EXCEPT !.shown = up])
      /\ what = "call" => Results(Heard([taken EXCEPT !.shown = up], "called"))
      /\ what = "speak" => Results(Heard([taken EXCEPT !.shown = up], "spoken"))
      /\ what = "back" /\ w.shown.front
           => Results(Heard([taken EXCEPT !.shown = down], "background"))
      /\ what = "back" /\ ~w.shown.front => Results(taken)
      /\ what = "start" => Results([taken EXCEPT !.shown = begun])
      /\ what = "end" => Results([taken EXCEPT !.shown = ended])
  <2>1. /\ [taken EXCEPT !.shown.front = TRUE, !.shown.covered = FALSE]
             = [taken EXCEPT !.shown = up]
        /\ [taken EXCEPT !.shown.front = FALSE, !.shown.covered = FALSE, !.shown.monologue = FALSE]
             = [taken EXCEPT !.shown = down]
        /\ [taken EXCEPT !.shown.monologue = btShown.front, !.shown.key = TRUE]
             = [taken EXCEPT !.shown = begun]
        /\ [taken EXCEPT !.shown.monologue = FALSE, !.shown.key = FALSE]
             = [taken EXCEPT !.shown = ended]
    BY <1>5, <1>2 DEF Taken
  <2>2. QED
    BY <2>1, <1>2 DEF RuntimeAnswers, Heard, Taken
<1> HIDE DEF quiet, Loud, up, down, begun, ended, taken
<1>placed. ASSUME NEW s \in ShownStates, NEW c \in CallQueues
      PROVE  /\ Fits(V(s, c)) /\ V(s, c).shown = s /\ V(s, c).calls = c
             /\ (InCall(V(s, c)) <=> InCall(w)) /\ (IsBack(V(s, c)) <=> IsBack(w))
             /\ s.lights = w.shown.lights /\ s.ringtone = w.shown.ringtone
                  => (CallIsKept(V(s, c)) <=> CallIsKept(w))
             /\ s.monologue = w.shown.monologue /\ s.key = w.shown.key
                  => (MonologueIsKept(V(s, c)) <=> MonologueIsKept(w))
  <2> HIDE DEF w
  <2>1. QED
    BY <1>1, PlacedIs
<1> HIDE DEF V
<1>10. \A e \in BtTells : (None(t) => One(Append(t, e), e))
                          /\ (One(t, "background") => Two(Append(t, e), "background", e))
  BY <1>1, QueueGrows
<1> DEFINE Good(v) == BtSound(v) /\ Results(v)
<1>11. ASSUME what \in {"music", "wait"}, None(rest), None(t), AllKept(w)
       PROVE  \E v : Good(v)
  <2>1. /\ Fits(V(up, quiet)) /\ V(up, quiet).calls = quiet
        /\ CallIsKept(V(up, quiet)) /\ MonologueIsKept(V(up, quiet))
    BY <1>1, <1>3, <1>5, <1>11, <1>placed DEF AllKept
  <2>2. Results(V(up, quiet))
    BY <1>3, <1>7, <1>9, <1>11
  <2>3. QED
    BY <2>1, <2>2, <1>5, <1>11 DEF BtSound, Fits, StillToDo, AllKept
<1>12. ASSUME what = "speak", None(rest), AllKept(w),
              None(t) \/ (One(t, "background") /\ IsBack(w))
       PROVE  \E v : Good(v)
  <2> DEFINE v == V(up, Loud("spoken"))
  <2>1. /\ Fits(v) /\ v.calls = Loud("spoken") /\ CallIsKept(v) /\ MonologueIsKept(v)
        /\ (IsBack(v) <=> IsBack(w))
    BY <1>1, <1>3, <1>4, <1>6, <1>12, <1>placed DEF AllKept
  <2>2. Results(v)
    BY <1>3, <1>4, <1>8, <1>9, <1>12
  <2>3. None(v.calls.asked) /\ v.calls.told = Append(t, "spoken")
    BY <2>1, <1>4, <1>6, <1>12
  <2> HIDE DEF v
  <2>4. QED
    BY <2>1, <2>2, <2>3, <1>4, <1>10, <1>12 DEF BtSound, Fits, StillToDo, AllKept
<1>13. ASSUME what = "back", None(t), AllKept(w), IsBack(w), None(rest) \/ One(rest, "speak")
       PROVE  \E v : Good(v)
  <2>0. ~InCall(w) /\ ~w.shown.monologue
    BY <1>13 DEF IsBack, AllKept, CallIsKept, MonologueIsKept
  <2>1. CASE w.shown.front
    <3> DEFINE v == V(down, Loud("background"))
    <3>1. ~down.monologue /\ down.monologue = w.shown.monologue
      BY <2>0, <1>3, <1>1 DEF ShownStates
    <3>2. /\ Fits(v) /\ v.calls = Loud("background") /\ CallIsKept(v) /\ MonologueIsKept(v)
          /\ IsBack(v) /\ ~InCall(v)
      BY <3>1, <2>0, <1>1, <1>3, <1>4, <1>6, <1>13, <1>placed DEF AllKept
    <3>3. Results(v)
      BY <2>1, <1>3, <1>4, <1>8, <1>9, <1>13
    <3>4. v.calls.asked = rest /\ One(v.calls.told, "background")
      BY <3>2, <1>4, <1>6, <1>10, <1>13
    <3> HIDE DEF v
    <3>5. QED
      BY <3>2, <3>3, <3>4, <1>13 DEF BtSound, Fits, StillToDo, AllKept
  <2>2. CASE ~w.shown.front
    <3> DEFINE v == V(w.shown, quiet)
    <3>1. /\ Fits(v) /\ v.calls = quiet /\ CallIsKept(v) /\ MonologueIsKept(v)
      BY <1>1, <1>5, <1>13, <1>placed DEF AllKept
    <3>2. Results(v)
      BY <2>2, <1>5, <1>9, <1>13
    <3> HIDE DEF v
    <3>3. QED
      BY <3>1, <3>2, <1>5, <1>13 DEF BtSound, Fits, StillToDo, AllKept
  <2>3. QED
    BY <2>1, <2>2
<1>14. ASSUME what = "call", None(rest), None(t), CallIsKept(w), InCall(w)
       PROVE  \E v : Good(v)
  <2> DEFINE v == V(up, Loud("called"))
  <2>1. /\ Fits(v) /\ v.calls = Loud("called") /\ CallIsKept(v) /\ InCall(v)
        /\ v.shown = up
    BY <1>1, <1>3, <1>4, <1>6, <1>14, <1>placed
  <2>2. Results(v)
    BY <1>3, <1>4, <1>8, <1>9, <1>14
  <2>3. None(v.calls.asked) /\ One(v.calls.told, "called")
    BY <2>1, <1>4, <1>6, <1>10, <1>14
  <2> HIDE DEF v
  <2>4. QED
    BY <2>1, <2>2, <2>3, <1>3 DEF BtSound, Fits, StillToDo
<1>15. ASSUME what = "start", None(rest), None(t), CallIsKept(w), InCall(w), w.shown.front
       PROVE  \E v : Good(v)
  <2> DEFINE v == V(begun, quiet)
  <2>1. /\ Fits(v) /\ v.calls = quiet /\ CallIsKept(v) /\ InCall(v) /\ v.shown = begun
    BY <1>1, <1>3, <1>5, <1>15, <1>placed
  <2>2. Results(v)
    BY <1>3, <1>7, <1>9, <1>15
  <2> HIDE DEF v
  <2>3. MonologueIsKept(v)
    BY <2>1, <1>3, <1>15 DEF MonologueIsKept
  <2>4. QED
    BY <2>1, <2>2, <2>3, <1>5, <1>15 DEF BtSound, Fits, StillToDo, AllKept
<1>16. ASSUME what = "end", One(rest, "back"), None(t), CallIsKept(w), IsBack(w)
       PROVE  \E v : Good(v)
  <2> DEFINE v == V(ended, quiet)
  <2>0. ~InCall(w)
    BY <1>16 DEF IsBack, CallIsKept
  <2>1. /\ Fits(v) /\ v.calls = quiet /\ CallIsKept(v) /\ IsBack(v) /\ ~InCall(v)
        /\ v.shown = ended
    BY <2>0, <1>1, <1>3, <1>5, <1>16, <1>placed
  <2>2. Results(v)
    BY <1>3, <1>7, <1>9, <1>16
  <2> HIDE DEF v
  <2>3. MonologueIsKept(v)
    BY <2>1, <1>3 DEF MonologueIsKept
  <2>4. QED
    BY <2>1, <2>2, <2>3, <1>5, <1>16 DEF BtSound, Fits, StillToDo, AllKept
<1>17. \E v : Good(v)
  <2> HIDE DEF Good
  <2>1. \/ what \in {"music", "wait"} /\ None(rest) /\ None(t) /\ AllKept(w)
        \/ what = "speak" /\ None(rest) /\ None(t) /\ AllKept(w)
        \/ what = "speak" /\ None(rest) /\ One(t, "background") /\ AllKept(w) /\ IsBack(w)
        \/ what = "back" /\ None(rest) /\ None(t) /\ AllKept(w) /\ IsBack(w)
        \/ what = "back" /\ One(rest, "speak") /\ None(t) /\ AllKept(w) /\ IsBack(w)
        \/ what = "call" /\ None(rest) /\ None(t) /\ CallIsKept(w) /\ InCall(w)
        \/ what = "start" /\ None(rest) /\ None(t) /\ CallIsKept(w) /\ InCall(w) /\ w.shown.front
        \/ what = "end" /\ One(rest, "back") /\ None(t) /\ CallIsKept(w) /\ IsBack(w)
    BY <1>2, FirstAsked
  <2>2. QED
    BY <2>1, <1>11, <1>12, <1>13, <1>14, <1>15, <1>16
<1>18. QED
  BY <1>17, ResultsSound
\* The first answer is taken.
Heeded(w) == [w EXCEPT !.calls.told = Tail(@)]

LEMMA HeededIs ==
    ASSUME NEW w, Fits(w), w.calls.told # <<>>
    PROVE  LET v == Heeded(w)
           IN  /\ Fits(v) /\ v.bt = w.bt /\ v.app = w.app /\ v.shown = w.shown
               /\ v.calls.asked = w.calls.asked /\ v.calls.told = Tail(w.calls.told)
               /\ (CallIsKept(v) <=> CallIsKept(w)) /\ (MonologueIsKept(v) <=> MonologueIsKept(w))
               /\ (InCall(v) <=> InCall(w)) /\ (IsBack(v) <=> IsBack(w))
<1> DEFINE c == [w.calls EXCEPT !.told = Tail(@)]
           v == Heeded(w)
<1>1. w \in BtWorlds /\ w.calls \in CallQueues /\ w.calls.told \in Seq(BtTells)
      /\ w.shown \in ShownStates
  BY DEF Fits, BtWorlds, CallQueues
<1>2. Tail(w.calls.told) \in Seq(BtTells)
  BY <1>1, HeadTailProperties
<1>3. c \in CallQueues /\ c.asked = w.calls.asked /\ c.told = Tail(w.calls.told)
  BY <1>1, <1>2 DEF CallQueues
<1>4. v = Placed(w, w.shown, c)
  BY <1>1 DEF BtWorlds, Placed, Heeded
<1> HIDE DEF c, v
<1>5. QED
  BY <1>1, <1>3, <1>4, PlacedIs DEF v

LEMMA FirstTold ==
    ASSUME NEW w, BtSound(w), w.calls.told # <<>>
    PROVE  LET q == w.calls.asked
               what == Head(w.calls.told)
               rest == Tail(w.calls.told)
           IN  \/ what = "spoken" /\ None(q) /\ None(rest) /\ AllKept(w)
               \/ what \in {"pause", "resume", "background"} /\ None(q) /\ None(rest)
                    /\ AllKept(w) /\ ~InCall(w)
               \/ what = "background" /\ One(q, "speak") /\ None(rest) /\ AllKept(w) /\ IsBack(w)
               \/ what = "background" /\ None(q) /\ One(rest, "spoken") /\ AllKept(w) /\ IsBack(w)
               \/ what = "called" /\ None(q) /\ None(rest) /\ CallIsKept(w) /\ InCall(w)
                    /\ w.shown.front
<1> DEFINE t == w.calls.told
<1>1. t \in Seq(BtTells)
  BY DEF BtSound, BtWorlds, CallQueues
<1> HIDE DEF t
<1>2. t = w.calls.told
  BY DEF t
<1>3. /\ None(t) <=> t = <<>>
      /\ \A x : One(t, x) => Head(t) = x /\ None(Tail(t))
      /\ \A x, y : Two(t, x, y) => Head(t) = x /\ One(Tail(t), y)
  BY <1>1, QueueShrinks
<1>4. StillToDo(w)
  BY DEF BtSound
<1>5. QED
  BY <1>2, <1>3, <1>4 DEF StillToDo

LEMMA NothingLeft ==
    ASSUME NEW w, Fits(w), AllKept(w), None(w.calls.asked), None(w.calls.told)
    PROVE  AtRest(w)
<1>1. w.calls.asked \in Seq(BtAsks) /\ w.calls.told \in Seq(BtTells)
  BY DEF Fits, BtWorlds, CallQueues
<1>2. QED
  BY <1>1, QueueShrinks DEF AtRest, Idle

\* Back in the background, when there is no call, and this told to the runtime.
LEMMA GoesBack ==
    ASSUME NEW w, AtRest(w), ~InCall(w)
    PROVE  LET v == [SetAppType(w, "bluetooth") EXCEPT !.app.callState = "IDLE"]
           IN  BtSound(v)
<1> DEFINE u == SetAppType(w, "bluetooth")
           a == [u.app EXCEPT !.callState = "IDLE"]
           v == [u EXCEPT !.app = a]
<1>1. w \in BtWorlds /\ Fits(w) /\ AllKept(w) /\ Idle(w) /\ w.app \in AppStates
      /\ w.calls.asked \in Seq(BtAsks)
  BY DEF AtRest, Fits, BtWorlds, CallQueues
<1>2. /\ u \in BtWorlds /\ u.phone = w.phone /\ u.air = w.air /\ u.bt = w.bt
      /\ u.shown = w.shown /\ u.app = [w.app EXCEPT !.skill = "bluetooth"]
      /\ u.calls.told = w.calls.told /\ u.calls.asked = Append(w.calls.asked, "back")
  BY <1>1, SkillIs DEF BluetoothSkills
<1> HIDE DEF u
<1>3. a \in AppStates /\ a.skill = "bluetooth" /\ a.callState = "IDLE"
  BY <1>1, <1>2 DEF AppStates, CallStates, BluetoothSkills
<1> HIDE DEF a
<1>4. /\ v \in BtWorlds /\ v.phone = w.phone /\ v.air = w.air /\ v.bt = w.bt
      /\ v.shown = w.shown /\ v.app = a
      /\ v.calls.told = w.calls.told /\ v.calls.asked = Append(w.calls.asked, "back")
  BY <1>2, <1>3 DEF BtWorlds
<1> HIDE DEF v
<1>5. w.app.callState = "IDLE"
  BY <1>1 DEF AllKept, CallIsKept, GetCallState, InCall
<1>6. CallIsKept(v) /\ IsBack(v)
  BY <1>1, <1>3, <1>4, <1>5 DEF AllKept, CallIsKept, GetCallState, InCall, IsConnected, IsBack
<1>7. MonologueIsKept(v)
  BY <1>1, <1>4 DEF AllKept, MonologueIsKept, InCall
<1>8. None(w.calls.asked) /\ None(w.calls.told)
  BY <1>1, EmptySeq DEF None, Idle
<1>9. "back" \in BtAsks
  BY DEF BtAsks
<1>10. One(v.calls.asked, "back") /\ None(v.calls.told)
  BY <1>1, <1>4, <1>8, <1>9, QueueGrows
<1>11. BtSound(v)
  BY <1>1, <1>4, <1>6, <1>7, <1>10 DEF BtSound, Fits, StillToDo, AllKept
<1>12. QED
  BY <1>11 DEF v, a, u

LEMMA BackgroundSound ==
    ASSUME NEW w, AtRest(w), ~InCall(w)
    PROVE  BtSound(OnBackground(w))
<1> DEFINE u == [w EXCEPT !.app.lastIntent = "implicit_disconnect"]
           gone == IF IsConnected(w) THEN Disconnect(u) ELSE w
<1>1. Fits(w) /\ BtSound(w)
  BY RestSound DEF AtRest
<1>2. Same(w, u) /\ Fits(u)
  BY <1>1, IntentSame
<1>3. AtRest(u) /\ AtRest(Lost(u))
  <2> HIDE DEF u
  <2>1. AtRest(u)
    BY <1>2, SameSound
  <2>2. QED
    BY <2>1, <1>2, LostTells, StillSame, SameSound
<1>4. u.bt = w.bt /\ Lost(u).bt = w.bt
  <2>1. u.bt = w.bt
    BY <1>2 DEF Same
  <2> HIDE DEF u
  <2>2. QED
    BY <2>1, <1>2, LostTells DEF Still
<1> HIDE DEF u
<1>5. AtRest(gone) /\ ~InCall(gone)
  BY <1>3, <1>4 DEF InCall, Disconnect
<1>6. OnBackground(w) = w
        \/ OnBackground(w) = [SetAppType(gone, "bluetooth") EXCEPT !.app.callState = "IDLE"]
  BY DEF OnBackground, u
<1> HIDE DEF gone
<1>7. BtSound([SetAppType(gone, "bluetooth") EXCEPT !.app.callState = "IDLE"])
  BY <1>5, GoesBack
<1>8. QED
  BY <1>1, <1>6, <1>7

LEMMA ToldSound ==
    ASSUME BtSound(Bluetooth), AppIsTold
    PROVE  BtSound(Bluetooth)'
<1> DEFINE b == Bluetooth
           w == Heeded(b)
           what == Head(b.calls.told)
           music == btApp.skill = "bluetooth_music"
           v == CASE what = "pause" -> IF music THEN PauseMusic(w) ELSE w
                  [] what = "resume" -> IF music THEN ResumeMusic(w) ELSE w
                  [] what = "background" -> OnBackground(w)
                  [] what = "called" -> Ask(w, "start")
                  [] what = "spoken" -> AfterSpeak(w)
<1>1. b.calls = btCalls /\ b.calls.told # <<>> /\ Results(v)
  BY DEF AppIsTold, Heeded, Bluetooth
<1>2. Fits(b) /\ BtSound(b)
  BY DEF BtSound, Fits
<1>3. /\ Fits(w) /\ w.bt = b.bt /\ w.app = b.app /\ w.shown = b.shown
      /\ w.calls.asked = b.calls.asked /\ w.calls.told = Tail(b.calls.told)
      /\ (CallIsKept(w) <=> CallIsKept(b)) /\ (MonologueIsKept(w) <=> MonologueIsKept(b))
      /\ (InCall(w) <=> InCall(b)) /\ (IsBack(w) <=> IsBack(b))
  BY <1>1, <1>2, HeededIs
<1>4. \/ what = "spoken" /\ None(w.calls.asked) /\ None(w.calls.told) /\ AllKept(w)
      \/ what \in {"pause", "resume", "background"} /\ None(w.calls.asked)
           /\ None(w.calls.told) /\ AllKept(w) /\ ~InCall(w)
      \/ what = "background" /\ One(w.calls.asked, "speak") /\ None(w.calls.told)
           /\ AllKept(w) /\ IsBack(w)
      \/ what = "background" /\ None(w.calls.asked) /\ One(w.calls.told, "spoken")
           /\ AllKept(w) /\ IsBack(w)
      \/ what = "called" /\ None(w.calls.asked) /\ None(w.calls.told) /\ CallIsKept(w)
           /\ InCall(w) /\ w.shown.front
  BY <1>1, <1>2, <1>3, FirstTold DEF AllKept
<1>5. w \in BtWorlds /\ w.calls.asked \in Seq(BtAsks) /\ {"start", "back"} \subseteq BtAsks
  BY <1>3 DEF Fits, BtWorlds, CallQueues, BtAsks
<1>6. /\ what = "pause" => v = PauseMusic(w) \/ v = w
      /\ what = "resume" => v = ResumeMusic(w) \/ v = w
      /\ what = "background" => v = OnBackground(w)
      /\ what = "called" => v = Ask(w, "start")
      /\ what = "spoken" => v = AfterSpeak(w)
  <2> HIDE DEF w, what, music
  <2>1. QED
    OBVIOUS
<1> HIDE DEF w, what, b, v
<1>7. ASSUME NEW x \in BtAsks
      PROVE  /\ Fits(Ask(w, x)) /\ Ask(w, x).calls.asked = Append(w.calls.asked, x)
             /\ Ask(w, x).calls.told = w.calls.told /\ Ask(w, x).shown = w.shown
             /\ (CallIsKept(Ask(w, x)) <=> CallIsKept(w))
             /\ (MonologueIsKept(Ask(w, x)) <=> MonologueIsKept(w))
             /\ (InCall(Ask(w, x)) <=> InCall(w)) /\ (IsBack(Ask(w, x)) <=> IsBack(w))
             /\ None(w.calls.asked) => One(Ask(w, x).calls.asked, x)
  <2> DEFINE r == Ask(w, x)
  <2>1. /\ r \in BtWorlds /\ r.phone = w.phone /\ r.air = w.air /\ r.bt = w.bt
        /\ r.app = w.app /\ r.shown = w.shown /\ r.calls.told = w.calls.told
        /\ r.calls.asked = Append(w.calls.asked, x)
    BY <1>5, AskIs
  <2> HIDE DEF r
  <2>2. Fits(r) /\ (InCall(r) <=> InCall(w)) /\ (IsBack(r) <=> IsBack(w))
    BY <2>1, <1>3 DEF Fits, InCall, IsBack
  <2>3. (CallIsKept(r) <=> CallIsKept(w)) /\ (MonologueIsKept(r) <=> MonologueIsKept(w))
    BY <2>1 DEF CallIsKept, MonologueIsKept, InCall, GetCallState, IsConnected
  <2>4. None(w.calls.asked) => One(r.calls.asked, x)
    BY <2>1, <1>5, QueueGrows
  <2>5. QED
    BY <2>1, <2>2, <2>3, <2>4 DEF r
<1>8. ASSUME None(w.calls.asked), None(w.calls.told), AllKept(w)
      PROVE  /\ AtRest(w) /\ BtSound(w) /\ BtSound(PauseMusic(w)) /\ BtSound(ResumeMusic(w))
             /\ BtSound(AfterSpeak(w))
  <2>1. AtRest(w) /\ BtSound(w)
    BY <1>3, <1>8, NothingLeft, RestSound
  <2>2. BtSound(PauseMusic(w)) /\ BtSound(ResumeMusic(w))
    BY <2>1, <1>3, PauseSame, ResumesSame, SameSound
  <2>3. IsBack(w) => BtSound(Ask(w, "back"))
    BY <1>5, <1>7, <1>8 DEF BtSound, Fits, StillToDo, AllKept
  <2>4. BtSound(AfterSpeak(w))
    BY <2>1, <2>3 DEF AfterSpeak, IsBack
  <2>5. QED
    BY <2>1, <2>2, <2>4
<1>9. ASSUME IsBack(w) PROVE OnBackground(w) = w
  BY <1>9 DEF OnBackground, IsBack
<1>10. ASSUME AllKept(w), IsBack(w),
              \/ One(w.calls.asked, "speak") /\ None(w.calls.told)
              \/ None(w.calls.asked) /\ One(w.calls.told, "spoken")
       PROVE  BtSound(OnBackground(w))
  BY <1>3, <1>9, <1>10 DEF BtSound, Fits, StillToDo
<1>11. ASSUME None(w.calls.asked), None(w.calls.told), CallIsKept(w), InCall(w), w.shown.front
       PROVE  BtSound(Ask(w, "start"))
  BY <1>5, <1>7, <1>11 DEF BtSound, Fits, StillToDo
<1>12. BtSound(v)
  BY <1>4, <1>6, <1>8, <1>10, <1>11, BackgroundSound
<1>13. QED
  BY <1>1, <1>12, ResultsSound
-----------------------------------------------------------------------------
(* Events of the adapters *)

\* What an event makes of u: the app and its place, and what is asked of the
\* runtime.
Handled(u, v) ==
    /\ v \in BtWorlds /\ v.phone = u.phone /\ v.air = u.air /\ v.bt = u.bt
    /\ StillToDo(v)

LEMMA CallKnown ==
    ASSUME NEW w \in BtWorlds, NEW kind \in Setups
    PROVE  LET k == [w EXCEPT !.bt.hfp = kind]
           IN  /\ k \in BtWorlds /\ k.phone = w.phone /\ k.air = w.air /\ k.app = w.app
               /\ k.calls = w.calls /\ k.shown = w.shown
               /\ k.bt = [w.bt EXCEPT !.hfp = kind]
BY DEF BtWorlds

LEMMA MusicKnown ==
    ASSUME NEW w \in BtWorlds, NEW kind \in A2dpKinds
    PROVE  LET k == [w EXCEPT !.bt.a2dp = kind]
           IN  /\ k \in BtWorlds /\ k.phone = w.phone /\ k.air = w.air /\ k.app = w.app
               /\ k.calls = w.calls /\ k.shown = w.shown
               /\ k.bt = [w.bt EXCEPT !.a2dp = kind]
BY DEF BtWorlds

LEMMA CallStateIs ==
    ASSUME NEW w \in BtWorlds, NEW state \in CallStates
    PROVE  LET v == [w EXCEPT !.app.callState = state]
           IN  /\ v \in BtWorlds /\ v.phone = w.phone /\ v.air = w.air /\ v.bt = w.bt
               /\ v.calls = w.calls /\ v.shown = w.shown
               /\ v.app = [w.app EXCEPT !.callState = state]
               /\ v.app.callState = state /\ v.app.skill = w.app.skill
<1> DEFINE a == [w.app EXCEPT !.callState = state]
           v == [w EXCEPT !.app = a]
<1>1. a \in AppStates /\ a.callState = state /\ a.skill = w.app.skill
  BY DEF BtWorlds, AppStates
<1> HIDE DEF a
<1>2. /\ v \in BtWorlds /\ v.phone = w.phone /\ v.air = w.air /\ v.bt = w.bt
      /\ v.calls = w.calls /\ v.shown = w.shown /\ v.app = a
  BY <1>1 DEF BtWorlds
<1>3. QED
  BY <1>1, <1>2 DEF a

LEMMA RingtoneIs ==
    ASSUME NEW w \in BtWorlds, NEW b \in BOOLEAN
    PROVE  LET v == [w EXCEPT !.shown.ringtone = b]
           IN  /\ v \in BtWorlds /\ v.phone = w.phone /\ v.air = w.air /\ v.bt = w.bt
               /\ v.calls = w.calls /\ v.app = w.app
               /\ v.shown = [w.shown EXCEPT !.ringtone = b]
<1> DEFINE s == [w.shown EXCEPT !.ringtone = b]
<1>1. s \in ShownStates
  BY DEF BtWorlds, ShownStates
<1> HIDE DEF s
<1>2. LET v == [w EXCEPT !.shown = s]
      IN  /\ v \in BtWorlds /\ v.phone = w.phone /\ v.air = w.air /\ v.bt = w.bt
          /\ v.calls = w.calls /\ v.app = w.app /\ v.shown = s
  BY <1>1 DEF BtWorlds
<1>3. QED
  BY <1>2 DEF s

\* A call is over: what it took is given back.
LEMMA IdleHandled ==
    ASSUME NEW w \in BtWorlds, AllKept(w), Idle(w), InCall(w), w.bt.hfp \in Calls
    PROVE  LET k == [w EXCEPT !.bt.hfp = "none"]
           IN  Handled(k, OnIdle(k))
<1> DEFINE k == [w EXCEPT !.bt.hfp = "none"]
           state == k.app.callState
           silent == [k EXCEPT !.shown.ringtone = FALSE]
           quiet == IF state = "INCOMING" THEN silent ELSE k
           asked == Ask(quiet, "end")
           freed == SetAppType(asked, "bluetooth")
           idle == [freed EXCEPT !.app.callState = "IDLE"]
           v == Light(idle, {}, {state})
<1>1. /\ k \in BtWorlds /\ k.phone = w.phone /\ k.air = w.air /\ k.app = w.app
      /\ k.calls = w.calls /\ k.shown = w.shown /\ k.bt = [w.bt EXCEPT !.hfp = "none"]
  BY CallKnown DEF Setups
<1>2. k.bt.hfp = "none" /\ k.bt.a2dp = w.bt.a2dp /\ k.shown \in ShownStates
      /\ k.app \in AppStates
  BY <1>1 DEF BtWorlds
<1>3. state # "IDLE" /\ state \in {"INCOMING", "OFFHOOK"}
      /\ k.shown.lights \subseteq {"discovery", state} /\ (k.shown.ringtone => state = "INCOMING")
      /\ ("discovery" \in k.shown.lights => IsDiscoverable(k.bt.a2dp))
  <2>1. w.bt.hfp \in Setups /\ w.app.callState \in CallStates
    BY DEF BtWorlds, AppStates
  <2>2. w.bt.hfp \in {"incoming", "outgoing", "active"}
    BY DEF InCall, Calls
  <2>3. QED
    BY <1>1, <1>2, <2>1, <2>2
       DEF AllKept, CallIsKept, GetCallState, InCall, Setups, CallStates
<1>4. OnIdle(k) = v
  BY <1>3 DEF OnIdle
<1>5. /\ quiet \in BtWorlds /\ quiet.phone = k.phone /\ quiet.air = k.air /\ quiet.bt = k.bt
      /\ quiet.app = k.app /\ quiet.calls = k.calls
      /\ quiet.shown.lights = k.shown.lights /\ ~quiet.shown.ringtone
  <2>1. silent \in BtWorlds /\ silent.phone = k.phone /\ silent.air = k.air
        /\ silent.bt = k.bt /\ silent.app = k.app /\ silent.calls = k.calls
        /\ silent.shown = [k.shown EXCEPT !.ringtone = FALSE]
    BY <1>1, RingtoneIs
  <2> HIDE DEF silent, k
  <2>2. silent.shown.lights = k.shown.lights /\ ~silent.shown.ringtone
    BY <2>1, <1>2 DEF ShownStates
  <2>3. k.shown.ringtone \in BOOLEAN
    BY <1>2 DEF ShownStates
  <2>4. QED
    BY <2>1, <2>2, <2>3, <1>1, <1>3
<1> HIDE DEF quiet
<1>6. quiet.calls.asked \in Seq(BtAsks) /\ None(quiet.calls.asked) /\ None(quiet.calls.told)
  BY <1>1, <1>5, EmptySeq DEF BtWorlds, CallQueues, None, Idle
<1>7. "end" \in BtAsks /\ "back" \in BtAsks
  BY DEF BtAsks
<1>8. /\ asked \in BtWorlds /\ asked.phone = k.phone /\ asked.air = k.air /\ asked.bt = k.bt
      /\ asked.app = k.app /\ asked.shown = quiet.shown
      /\ One(asked.calls.asked, "end") /\ None(asked.calls.told)
  BY <1>5, <1>6, <1>7, AskIs, QueueGrows
<1> HIDE DEF asked
<1>9. asked.calls.asked \in Seq(BtAsks) /\ asked.app \in AppStates
  BY <1>8 DEF BtWorlds, CallQueues
<1>10. /\ freed \in BtWorlds /\ freed.phone = k.phone /\ freed.air = k.air /\ freed.bt = k.bt
       /\ freed.app.skill = "bluetooth" /\ freed.shown = quiet.shown
       /\ Two(freed.calls.asked, "end", "back") /\ None(freed.calls.told)
  <2>1. /\ freed \in BtWorlds /\ freed.phone = asked.phone /\ freed.air = asked.air
        /\ freed.bt = asked.bt /\ freed.shown = asked.shown
        /\ freed.app = [asked.app EXCEPT !.skill = "bluetooth"]
        /\ freed.calls.told = asked.calls.told
        /\ freed.calls.asked = Append(asked.calls.asked, "back")
    BY <1>8, SkillIs DEF BluetoothSkills
  <2>2. freed.app.skill = "bluetooth"
    BY <2>1, <1>9 DEF AppStates
  <2> HIDE DEF freed
  <2>3. Two(freed.calls.asked, "end", "back")
    BY <2>1, <1>7, <1>8, <1>9, QueueGrows
  <2>4. QED
    BY <2>1, <2>2, <2>3, <1>8
<1> HIDE DEF freed
<1>11. /\ idle \in BtWorlds /\ idle.phone = k.phone /\ idle.air = k.air /\ idle.bt = k.bt
       /\ idle.app.skill = "bluetooth" /\ idle.app.callState = "IDLE"
       /\ idle.shown = quiet.shown /\ idle.calls = freed.calls
  BY <1>10, CallStateIs DEF CallStates
<1> HIDE DEF idle
<1>12. /\ v \in BtWorlds /\ v.phone = k.phone /\ v.air = k.air /\ v.bt = k.bt
       /\ v.app = idle.app /\ v.calls = freed.calls
       /\ v.shown = [idle.shown EXCEPT !.lights = (@ \cup {}) \ {state}]
  BY <1>11, LightIs
<1> HIDE DEF v
<1>13. v.shown.lights = k.shown.lights \ {state} /\ ~v.shown.ringtone
  <2>1. idle.shown \in ShownStates
    BY <1>11 DEF BtWorlds
  <2>2. v.shown.lights = (idle.shown.lights \cup {}) \ {state}
        /\ v.shown.ringtone = idle.shown.ringtone
    BY <2>1, <1>12 DEF ShownStates
  <2>3. QED
    BY <2>2, <1>5, <1>11
<1>14. ~InCall(v) /\ IsBack(v)
  BY <1>2, <1>11, <1>12 DEF InCall, IsBack
<1>15. CallIsKept(v)
  <2>1. v.app.callState = "IDLE" /\ GetCallState(v) = "IDLE" /\ v.app.skill = "bluetooth"
    BY <1>2, <1>11, <1>12 DEF GetCallState
  <2>2. v.shown.lights \subseteq {"discovery", "IDLE"}
        /\ ("discovery" \in v.shown.lights => IsDiscoverable(v.bt.a2dp))
    BY <1>3, <1>12, <1>13
  <2>3. QED
    BY <2>1, <2>2, <1>13, <1>14 DEF CallIsKept
<1>16. StillToDo(v)
  BY <1>10, <1>12, <1>14, <1>15 DEF StillToDo
<1>17. QED
  BY <1>4, <1>12, <1>16 DEF Handled
\* A call begins: the app is to be in front, before it takes anything.
LEMMA IncomingHandled ==
    ASSUME NEW w \in BtWorlds, AllKept(w), Idle(w), ~InCall(w)
    PROVE  LET k == [w EXCEPT !.bt.hfp = "incoming"]
           IN  Handled(k, OnIncoming(k))
<1> DEFINE k == [w EXCEPT !.bt.hfp = "incoming"]
           calling == SetAppType(k, "bluetooth_call")
           lit == Light(calling, {"INCOMING"}, {})
           v == [lit EXCEPT !.app.callState = "INCOMING"]
<1>1. /\ k \in BtWorlds /\ k.phone = w.phone /\ k.air = w.air /\ k.app = w.app
      /\ k.calls = w.calls /\ k.shown = w.shown /\ k.bt = [w.bt EXCEPT !.hfp = "incoming"]
  BY CallKnown DEF Setups
<1>2. k.bt.hfp = "incoming" /\ k.bt.a2dp = w.bt.a2dp /\ k.shown \in ShownStates
      /\ k.app \in AppStates /\ k.calls.asked \in Seq(BtAsks)
  BY <1>1 DEF BtWorlds, CallQueues
<1>3. k.app.callState = "IDLE" /\ k.shown.lights \subseteq {"discovery", "IDLE"}
      /\ ~k.shown.ringtone /\ ("discovery" \in k.shown.lights => IsDiscoverable(k.bt.a2dp))
  BY <1>1, <1>2 DEF AllKept, CallIsKept, GetCallState, InCall
<1>4. OnIncoming(k) = v
  BY <1>3 DEF OnIncoming
<1>5. None(k.calls.asked) /\ None(k.calls.told) /\ "call" \in BtAsks
  BY <1>1, EmptySeq DEF None, Idle, BtAsks
<1> HIDE DEF k
<1>6. /\ calling \in BtWorlds /\ calling.phone = k.phone /\ calling.air = k.air
      /\ calling.bt = k.bt /\ calling.app.skill = "bluetooth_call" /\ calling.shown = k.shown
      /\ One(calling.calls.asked, "call") /\ None(calling.calls.told)
  <2>1. /\ calling \in BtWorlds /\ calling.phone = k.phone /\ calling.air = k.air
        /\ calling.bt = k.bt /\ calling.shown = k.shown
        /\ calling.app = [k.app EXCEPT !.skill = "bluetooth_call"]
        /\ calling.calls.told = k.calls.told
        /\ calling.calls.asked = Append(k.calls.asked, "call")
    BY <1>1, SkillIs DEF BluetoothSkills
  <2> HIDE DEF calling
  <2>2. calling.app.skill = "bluetooth_call"
    BY <2>1, <1>2 DEF AppStates
  <2>3. One(calling.calls.asked, "call")
    BY <2>1, <1>2, <1>5, QueueGrows
  <2>4. QED
    BY <2>1, <2>2, <2>3, <1>5
<1> HIDE DEF calling
<1>7. /\ lit \in BtWorlds /\ lit.phone = k.phone /\ lit.air = k.air /\ lit.bt = k.bt
      /\ lit.app = calling.app /\ lit.calls = calling.calls
      /\ lit.shown = [k.shown EXCEPT !.lights = (@ \cup {"INCOMING"}) \ {}]
  BY <1>6, LightIs
<1> HIDE DEF lit
<1>8. lit.shown.lights = k.shown.lights \cup {"INCOMING"} /\ ~lit.shown.ringtone
  BY <1>2, <1>3, <1>7 DEF ShownStates
<1>9. /\ v \in BtWorlds /\ v.phone = k.phone /\ v.air = k.air /\ v.bt = k.bt
      /\ v.app.skill = "bluetooth_call" /\ v.app.callState = "INCOMING"
      /\ v.shown = lit.shown /\ v.calls = calling.calls
  <2>1. /\ v \in BtWorlds /\ v.phone = lit.phone /\ v.air = lit.air /\ v.bt = lit.bt
        /\ v.calls = lit.calls /\ v.shown = lit.shown
        /\ v.app.callState = "INCOMING" /\ v.app.skill = lit.app.skill
    BY <1>7, CallStateIs DEF CallStates
  <2> HIDE DEF v
  <2>2. QED
    BY <2>1, <1>6, <1>7
<1> HIDE DEF v
<1>10. InCall(v) /\ GetCallState(v) = "INCOMING"
  BY <1>2, <1>9 DEF InCall, GetCallState
<1>11. CallIsKept(v)
  <2>1. k.shown.lights \subseteq {"discovery"}
    BY <1>2, <1>3 DEF ShownStates
  <2>2. v.shown.lights \subseteq {"discovery", "INCOMING"}
        /\ ("discovery" \in v.shown.lights => IsDiscoverable(v.bt.a2dp))
    BY <2>1, <1>3, <1>8, <1>9
  <2>3. QED
    BY <2>2, <1>8, <1>9, <1>10 DEF CallIsKept
<1>12. StillToDo(v)
  BY <1>6, <1>9, <1>10, <1>11 DEF StillToDo
<1>13. QED
  BY <1>4, <1>9, <1>12 DEF Handled, k

\* A call is taken or made: one that rang is only answered.
LEMMA OffhookHandled ==
    ASSUME NEW w \in BtWorlds, AllKept(w), Idle(w), w.bt.hfp \in Calls,
           NEW kind \in {"active", "outgoing"}
    PROVE  LET k == [w EXCEPT !.bt.hfp = kind]
           IN  Handled(k, OnOffhook(k))
<1> DEFINE k == [w EXCEPT !.bt.hfp = kind]
           state == k.app.callState
           calling == SetAppType(k, "bluetooth_call")
           silent == [k EXCEPT !.shown.ringtone = FALSE]
           begun == IF state = "IDLE" THEN calling
                    ELSE IF state = "INCOMING" THEN silent ELSE k
           off == {state} \ {"OFFHOOK"}
           taken == [begun EXCEPT !.app.callState = "OFFHOOK"]
           v == Light(taken, {"OFFHOOK"}, off)
<1>1. /\ k \in BtWorlds /\ k.phone = w.phone /\ k.air = w.air /\ k.app = w.app
      /\ k.calls = w.calls /\ k.shown = w.shown /\ k.bt = [w.bt EXCEPT !.hfp = kind]
  BY CallKnown DEF Setups
<1>2. k.bt.hfp = kind /\ k.bt.a2dp = w.bt.a2dp /\ k.shown \in ShownStates
      /\ k.app \in AppStates /\ k.calls.asked \in Seq(BtAsks)
  BY <1>1 DEF BtWorlds, CallQueues
<1>3. k.shown.lights \subseteq {"discovery", state} /\ (k.shown.ringtone => state = "INCOMING")
      /\ ("discovery" \in k.shown.lights => IsDiscoverable(k.bt.a2dp))
      /\ state \in CallStates
  BY <1>1, <1>2 DEF AllKept, CallIsKept, AppStates
<1>4. OnOffhook(k) = v
  BY DEF OnOffhook
<1>5. None(k.calls.asked) /\ None(k.calls.told) /\ "call" \in BtAsks
  BY <1>1, EmptySeq DEF None, Idle, BtAsks
<1>6. state = "IDLE" <=> ~InCall(w)
  BY <1>1 DEF AllKept, CallIsKept, GetCallState, InCall, Calls
<1>7. k.app.skill = "bluetooth" => ~InCall(w)
  BY <1>1 DEF AllKept, CallIsKept
<1>8. k.app.skill = "bluetooth_music" => IsConnected(k)
  BY <1>1, <1>2 DEF AllKept, CallIsKept, IsConnected
<1>9. (k.shown.monologue <=> InCall(w)) /\ (k.shown.key <=> InCall(w))
  BY <1>1 DEF AllKept, MonologueIsKept
<1> HIDE DEF k
<1>10. /\ calling \in BtWorlds /\ calling.phone = k.phone /\ calling.air = k.air
       /\ calling.bt = k.bt /\ calling.app.skill = "bluetooth_call" /\ calling.shown = k.shown
       /\ One(calling.calls.asked, "call") /\ None(calling.calls.told)
  <2>1. /\ calling \in BtWorlds /\ calling.phone = k.phone /\ calling.air = k.air
        /\ calling.bt = k.bt /\ calling.shown = k.shown
        /\ calling.app = [k.app EXCEPT !.skill = "bluetooth_call"]
        /\ calling.calls.told = k.calls.told
        /\ calling.calls.asked = Append(k.calls.asked, "call")
    BY <1>1, SkillIs DEF BluetoothSkills
  <2> HIDE DEF calling
  <2>2. calling.app.skill = "bluetooth_call"
    BY <2>1, <1>2 DEF AppStates
  <2>3. One(calling.calls.asked, "call")
    BY <2>1, <1>2, <1>5, QueueGrows
  <2>4. QED
    BY <2>1, <2>2, <2>3, <1>5
<1> HIDE DEF calling
<1>11. /\ silent \in BtWorlds /\ silent.phone = k.phone /\ silent.air = k.air
       /\ silent.bt = k.bt /\ silent.app = k.app /\ silent.calls = k.calls
       /\ silent.shown = [k.shown EXCEPT !.ringtone = FALSE]
  BY <1>1, RingtoneIs
<1> HIDE DEF silent
<1>12. /\ silent.shown.lights = k.shown.lights /\ ~silent.shown.ringtone
       /\ silent.shown.monologue = k.shown.monologue /\ silent.shown.key = k.shown.key
  BY <1>2, <1>11 DEF ShownStates
<1>13. k.shown.ringtone \in BOOLEAN
  BY <1>2 DEF ShownStates
<1>14. /\ begun \in BtWorlds /\ begun.phone = k.phone /\ begun.air = k.air /\ begun.bt = k.bt
       /\ begun.shown.lights = k.shown.lights /\ ~begun.shown.ringtone
       /\ begun.shown.monologue = k.shown.monologue /\ begun.shown.key = k.shown.key
       /\ state = "IDLE" => begun = calling
       /\ state # "IDLE" => begun.app = k.app /\ begun.calls = k.calls
  <2> HIDE DEF state
  <2>1. CASE state = "IDLE"
    <3>1. ~k.shown.ringtone
      BY <2>1, <1>3, <1>13
    <3>2. begun = calling
      BY <2>1
    <3> HIDE DEF begun
    <3>3. QED
      BY <2>1, <3>1, <3>2, <1>10
  <2>2. CASE state = "INCOMING"
    <3>1. begun = silent
      BY <2>2
    <3> HIDE DEF begun
    <3>2. QED
      BY <2>2, <3>1, <1>11, <1>12
  <2>3. CASE state = "OFFHOOK"
    <3>1. ~k.shown.ringtone
      BY <2>3, <1>3, <1>13
    <3>2. begun = k
      BY <2>3
    <3> HIDE DEF begun
    <3>3. QED
      BY <2>3, <3>1, <3>2, <1>1
  <2>4. QED
    BY <2>1, <2>2, <2>3, <1>3 DEF CallStates
<1> HIDE DEF begun
<1>15. /\ taken \in BtWorlds /\ taken.phone = k.phone /\ taken.air = k.air /\ taken.bt = k.bt
       /\ taken.app.skill = begun.app.skill /\ taken.app.callState = "OFFHOOK"
       /\ taken.shown = begun.shown /\ taken.calls = begun.calls
  BY <1>14, CallStateIs DEF CallStates
<1> HIDE DEF taken
<1>16. /\ v \in BtWorlds /\ v.phone = k.phone /\ v.air = k.air /\ v.bt = k.bt
       /\ v.app = taken.app /\ v.calls = begun.calls
       /\ v.shown = [begun.shown EXCEPT !.lights = (@ \cup {"OFFHOOK"}) \ off]
  BY <1>15, LightIs
<1> HIDE DEF v
<1>17. /\ v.shown.lights \subseteq {"discovery", "OFFHOOK"}
       /\ ("discovery" \in v.shown.lights => IsDiscoverable(v.bt.a2dp))
       /\ ~v.shown.ringtone /\ v.shown.monologue = k.shown.monologue /\ v.shown.key = k.shown.key
  <2>1. begun.shown \in ShownStates
    BY <1>14 DEF BtWorlds
  <2>2. /\ v.shown.lights = (k.shown.lights \cup {"OFFHOOK"}) \ off
        /\ v.shown.ringtone = begun.shown.ringtone
        /\ v.shown.monologue = begun.shown.monologue /\ v.shown.key = begun.shown.key
    BY <2>1, <1>14, <1>16 DEF ShownStates
  <2>3. QED
    BY <2>2, <1>3, <1>14, <1>16
<1>18. InCall(v) /\ GetCallState(v) = "OFFHOOK" /\ v.app.callState = "OFFHOOK"
  BY <1>2, <1>15, <1>16 DEF InCall, GetCallState
<1>19. /\ state = "IDLE" => v.app.skill = "bluetooth_call" /\ v.calls = calling.calls
       /\ state # "IDLE" => v.app.skill = k.app.skill /\ v.calls = k.calls
  BY <1>10, <1>14, <1>15, <1>16
<1>20. CallIsKept(v)
  <2>1. v.app.skill # "bluetooth"
    BY <1>6, <1>7, <1>19
  <2>2. v.app.skill = "bluetooth_music" => IsConnected(v)
    BY <1>8, <1>16, <1>19 DEF IsConnected
  <2>3. QED
    BY <2>1, <2>2, <1>17, <1>18 DEF CallIsKept
<1>21. StillToDo(v)
  <2>1. CASE state = "IDLE"
    BY <2>1, <1>10, <1>18, <1>19, <1>20 DEF StillToDo
  <2>2. CASE state # "IDLE"
    <3>1. MonologueIsKept(v)
      BY <2>2, <1>6, <1>9, <1>17, <1>18 DEF MonologueIsKept
    <3>2. QED
      BY <2>2, <3>1, <1>5, <1>19, <1>20 DEF StillToDo, AllKept
  <2>3. QED
    BY <2>1, <2>2
<1>22. QED
  BY <1>4, <1>16, <1>21 DEF Handled, k
\* What an event of the music makes of k: a sentence, another place, both or
\* nothing.
Places(k, v) ==
    /\ v \in BtWorlds /\ v.phone = k.phone /\ v.air = k.air /\ v.bt = k.bt
    /\ v.shown = k.shown /\ v.app.callState = k.app.callState /\ None(v.calls.told)

Plain(k, v) == Places(k, v) /\ v.app.skill = k.app.skill /\ None(v.calls.asked)

Heading(k, v) ==
    /\ Places(k, v)
    /\ LET q == v.calls.asked
       IN  \/ v.app.skill = k.app.skill /\ (None(q) \/ One(q, "wait") \/ One(q, "speak"))
           \/ v.app.skill = "bluetooth_music" /\ IsConnected(k) /\ One(q, "music")
           \/ v.app.skill = "bluetooth" /\ ~InCall(k) /\ (One(q, "back") \/ Two(q, "back", "speak"))

LEMMA TimerHeads ==
    ASSUME NEW k, NEW v, NEW t \in {"none", "play", "connect"}
    PROVE  /\ Plain(k, v) => Plain(k, SetTimer(v, t))
           /\ Heading(k, v) => Heading(k, SetTimer(v, t))
<1> DEFINE u == SetTimer(v, t)
<1>1. ASSUME Places(k, v)
      PROVE  Places(k, u) /\ u.calls = v.calls /\ u.app.skill = v.app.skill
  <2>1. v \in BtWorlds /\ v.app \in AppStates
    BY <1>1 DEF Places, BtWorlds
  <2>2. /\ u \in BtWorlds /\ u.phone = v.phone /\ u.air = v.air /\ u.bt = v.bt
        /\ u.calls = v.calls /\ u.shown = v.shown /\ u.app = [v.app EXCEPT !.timer = t]
    BY <2>1, TimerIs
  <2> HIDE DEF u
  <2>3. u.app.skill = v.app.skill /\ u.app.callState = v.app.callState
    BY <2>1, <2>2 DEF AppStates
  <2>4. QED
    BY <1>1, <2>2, <2>3 DEF Places
<1> HIDE DEF u
<1>2. Plain(k, v) => Plain(k, u)
  BY <1>1 DEF Plain
<1>3. Heading(k, v) => Heading(k, u)
  BY <1>1 DEF Heading
<1>4. QED
  BY <1>2, <1>3 DEF u

LEMMA IntentHeads ==
    ASSUME NEW k, NEW v, Heading(k, v)
    PROVE  Heading(k, [v EXCEPT !.app.lastIntent = Derived])
<1> DEFINE a == [v.app EXCEPT !.lastIntent = Derived]
           u == [v EXCEPT !.app = a]
<1>1. v \in BtWorlds /\ v.app \in AppStates
  BY DEF Heading, Places, BtWorlds
<1>2. a \in AppStates /\ a.skill = v.app.skill /\ a.callState = v.app.callState
  BY <1>1 DEF AppStates
<1> HIDE DEF a
<1>3. /\ u \in BtWorlds /\ u.phone = v.phone /\ u.air = v.air /\ u.bt = v.bt
      /\ u.calls = v.calls /\ u.shown = v.shown /\ u.app = a
  BY <1>1, <1>2 DEF BtWorlds
<1> HIDE DEF u
<1>4. Places(k, u)
  BY <1>2, <1>3 DEF Heading, Places
<1>5. Heading(k, u)
  BY <1>2, <1>3, <1>4 DEF Heading
<1>6. QED
  BY <1>5 DEF u, a

LEMMA AskHeads ==
    ASSUME NEW k, NEW v, NEW x \in {"speak", "wait"}
    PROVE  /\ Plain(k, v) => Heading(k, Ask(v, x))
           /\ Places(k, v) /\ v.app.skill = "bluetooth" /\ ~InCall(k) /\ One(v.calls.asked, "back")
                => Heading(k, Ask(v, "speak"))
<1>1. {"speak", "wait"} \subseteq BtAsks
  BY DEF BtAsks
<1>2. ASSUME Places(k, v), NEW y \in BtAsks
      PROVE  /\ Places(k, Ask(v, y)) /\ Ask(v, y).app = v.app
             /\ None(v.calls.asked) => One(Ask(v, y).calls.asked, y)
             /\ One(v.calls.asked, "back") => Two(Ask(v, y).calls.asked, "back", y)
  <2> DEFINE u == Ask(v, y)
  <2>1. v \in BtWorlds /\ v.calls.asked \in Seq(BtAsks)
    BY <1>2 DEF Places, BtWorlds, CallQueues
  <2>2. /\ u \in BtWorlds /\ u.phone = v.phone /\ u.air = v.air /\ u.bt = v.bt
        /\ u.app = v.app /\ u.shown = v.shown /\ u.calls.told = v.calls.told
        /\ u.calls.asked = Append(v.calls.asked, y)
    BY <2>1, AskIs
  <2> HIDE DEF u
  <2>3. Places(k, u)
    BY <1>2, <2>2 DEF Places
  <2>4. /\ None(v.calls.asked) => One(u.calls.asked, y)
        /\ One(v.calls.asked, "back") => Two(u.calls.asked, "back", y)
    BY <2>1, <2>2, QueueGrows
  <2>5. QED
    BY <2>2, <2>3, <2>4 DEF u
<1>3. QED
  BY <1>1, <1>2 DEF Plain, Heading

LEMMA TypeHeads ==
    ASSUME NEW k, NEW v, Plain(k, v)
    PROVE  /\ IsConnected(k) => Heading(k, SetAppType(v, "bluetooth_music"))
           /\ ~InCall(k) => LET u == SetAppType(v, "bluetooth")
                            IN  /\ Heading(k, u) /\ Places(k, u) /\ u.app.skill = "bluetooth"
                                /\ One(u.calls.asked, "back")
<1>1. v \in BtWorlds /\ v.calls.asked \in Seq(BtAsks) /\ v.app \in AppStates
      /\ {"music", "back"} \subseteq BtAsks
  BY DEF Plain, Places, BtWorlds, CallQueues, BtAsks
<1>2. None(v.calls.asked) /\ Places(k, v)
  BY DEF Plain
<1>3. Places(k, SetAppType(v, "bluetooth_music"))
      /\ SetAppType(v, "bluetooth_music").app.skill = "bluetooth_music"
      /\ One(SetAppType(v, "bluetooth_music").calls.asked, "music")
  <2> DEFINE u == SetAppType(v, "bluetooth_music")
  <2>1. /\ u \in BtWorlds /\ u.phone = v.phone /\ u.air = v.air /\ u.bt = v.bt
        /\ u.shown = v.shown /\ u.app = [v.app EXCEPT !.skill = "bluetooth_music"]
        /\ u.calls.told = v.calls.told /\ u.calls.asked = Append(v.calls.asked, "music")
    BY <1>1, SkillIs DEF BluetoothSkills
  <2> HIDE DEF u
  <2>2. u.app.skill = "bluetooth_music" /\ u.app.callState = v.app.callState
    BY <1>1, <2>1 DEF AppStates
  <2>3. One(u.calls.asked, "music")
    BY <1>1, <1>2, <2>1, QueueGrows
  <2>4. Places(k, u)
    BY <1>2, <2>1, <2>2 DEF Places
  <2>5. QED
    BY <2>2, <2>3, <2>4 DEF u
<1>4. Places(k, SetAppType(v, "bluetooth"))
      /\ SetAppType(v, "bluetooth").app.skill = "bluetooth"
      /\ One(SetAppType(v, "bluetooth").calls.asked, "back")
  <2> DEFINE u == SetAppType(v, "bluetooth")
  <2>1. /\ u \in BtWorlds /\ u.phone = v.phone /\ u.air = v.air /\ u.bt = v.bt
        /\ u.shown = v.shown /\ u.app = [v.app EXCEPT !.skill = "bluetooth"]
        /\ u.calls.told = v.calls.told /\ u.calls.asked = Append(v.calls.asked, "back")
    BY <1>1, SkillIs DEF BluetoothSkills
  <2> HIDE DEF u
  <2>2. u.app.skill = "bluetooth" /\ u.app.callState = v.app.callState
    BY <1>1, <2>1 DEF AppStates
  <2>3. One(u.calls.asked, "back")
    BY <1>1, <1>2, <2>1, QueueGrows
  <2>4. Places(k, u)
    BY <1>2, <2>1, <2>2 DEF Places
  <2>5. QED
    BY <2>2, <2>3, <2>4 DEF u
<1>5. QED
  BY <1>3, <1>4 DEF Heading

\* The light of an open radio goes by what was reported; with it the app is
\* as it should be.
LEMMA LightsHandled ==
    ASSUME NEW k \in BtWorlds, NEW v, Heading(k, v),
           k.app.callState = GetCallState(k),
           k.app.skill = "bluetooth" => ~InCall(k),
           k.app.skill = "bluetooth_call" => InCall(k),
           v.app.skill = "bluetooth_music" => IsConnected(k),
           k.shown.lights \subseteq {"discovery", k.app.callState},
           k.shown.ringtone => k.app.callState = "INCOMING",
           MonologueIsKept(k),
           NEW r \in BtWorlds, r.phone = v.phone, r.air = v.air, r.bt = v.bt, r.app = v.app,
           r.calls = v.calls,
           NEW lights \in SUBSET (k.shown.lights \cup {"discovery"}),
           "discovery" \in lights => IsDiscoverable(k.bt.a2dp),
           r.shown = [v.shown EXCEPT !.lights = lights]
    PROVE  Handled(k, r)
<1>1. v.shown \in ShownStates /\ v.shown = k.shown /\ v.bt = k.bt
      /\ v.app.callState = k.app.callState
  BY DEF Heading, Places, BtWorlds
<1>2. /\ r.shown.lights = lights /\ r.shown.ringtone = k.shown.ringtone
      /\ r.shown.monologue = k.shown.monologue /\ r.shown.key = k.shown.key
  BY <1>1 DEF ShownStates
<1>3. (InCall(r) <=> InCall(k)) /\ GetCallState(r) = GetCallState(k)
      /\ (IsConnected(r) <=> IsConnected(k))
  BY <1>1 DEF InCall, GetCallState, IsConnected
<1>4. MonologueIsKept(r)
  BY <1>2, <1>3 DEF MonologueIsKept
<1>5. /\ v.app.skill = "bluetooth" => ~InCall(k)
      /\ v.app.skill = "bluetooth_call" => InCall(k)
  BY DEF Heading
<1>6. CallIsKept(r)
  <2>1. lights \subseteq {"discovery", k.app.callState}
    OBVIOUS
  <2>2. QED
    BY <2>1, <1>1, <1>2, <1>3, <1>5 DEF CallIsKept
<1>7. StillToDo(r)
  BY <1>1, <1>4, <1>6 DEF Heading, Places, StillToDo, AllKept, IsBack
<1>8. QED
  BY <1>7 DEF Handled, Heading, Places
LEMMA MusicHandled ==
    ASSUME NEW w \in BtWorlds, AllKept(w), Idle(w), w.bt.mode = "sink",
           NEW kind \in {"opened", "closed", "connected", "disconnected", "played", "stopped"},
           kind \in {"opened", "closed", "connected"} => ~IsConnected(w),
           kind = "disconnected" => ~InCall(w)
    PROVE  LET k == [w EXCEPT !.bt.a2dp = kind]
           IN  Handled(k, HandleEvent(w, "sink", kind))
<1> DEFINE k == [w EXCEPT !.bt.a2dp = kind]
           c == CancelTimer(k)
           left == LeftByPhone(c)
           back == SetAppType(c, "bluetooth")
           first == CASE kind \in {"opened", "closed"} -> OnRadioState(k, kind)
                      [] kind \in {"connected", "disconnected"} -> OnConnectionState(k, kind)
                      [] OTHER -> OnAudioState(k, kind)
           on == IsDiscoverable(kind)
           r == IF IsDiscoverable(w.bt.a2dp) # on THEN OnDiscoveryState(first, on) ELSE first
<1>1. /\ k \in BtWorlds /\ k.phone = w.phone /\ k.air = w.air /\ k.app = w.app
      /\ k.calls = w.calls /\ k.shown = w.shown /\ k.bt = [w.bt EXCEPT !.a2dp = kind]
  <2>1. kind \in A2dpKinds
    BY DEF A2dpKinds
  <2>2. QED
    BY <2>1, MusicKnown
<1>2. k.bt.a2dp = kind /\ k.bt.hfp = w.bt.hfp /\ k.bt.mode = "sink"
      /\ k.app \in AppStates /\ k.shown \in ShownStates
  BY <1>1 DEF BtWorlds
<1>3. HandleEvent(w, "sink", kind) = r
  BY <1>1, <1>2 DEF HandleEvent
<1>4. /\ k.app.callState = GetCallState(k)
      /\ k.app.skill = "bluetooth" => ~InCall(k)
      /\ k.app.skill = "bluetooth_call" => InCall(k)
      /\ k.shown.lights \subseteq {"discovery", k.app.callState}
      /\ k.shown.ringtone => k.app.callState = "INCOMING"
      /\ MonologueIsKept(k)
      /\ "discovery" \in k.shown.lights => IsDiscoverable(w.bt.a2dp)
      /\ k.app.skill = "bluetooth_music" => IsConnected(w)
      /\ kind = "disconnected" => ~InCall(k) /\ k.app.skill # "bluetooth_call"
  BY <1>1, <1>2 DEF AllKept, CallIsKept, MonologueIsKept, InCall, GetCallState
<1>5. kind \in {"connected", "played", "stopped"} => IsConnected(k)
  BY <1>2 DEF IsConnected
<1>6. IsDiscoverable(k.bt.a2dp) <=> on
  BY <1>2
<1>7. Plain(k, k)
  BY <1>1, EmptySeq DEF Plain, Places, None, Idle
<1> HIDE DEF k
<1>8. Plain(k, c)
  BY <1>7, TimerHeads DEF CancelTimer
<1> DEFINE Silent(v) == [v EXCEPT !.app.lastIntent = Derived]
<1>9. /\ Heading(k, c) /\ Heading(k, k) /\ Heading(k, Speak(c)) /\ Heading(k, Silent(Speak(c)))
      /\ Heading(k, SetTimer(c, "connect")) /\ Heading(k, SpeakOnly(SetTimer(c, "play")))
  <2>1. Heading(k, c) /\ Heading(k, k) /\ Plain(k, SetTimer(c, "play"))
        /\ Plain(k, SetTimer(c, "connect"))
    BY <1>7, <1>8, TimerHeads DEF Plain, Heading
  <2>2. Heading(k, Speak(c)) /\ Heading(k, SpeakOnly(SetTimer(c, "play")))
        /\ Heading(k, SetTimer(c, "connect"))
    BY <2>1, <1>8, AskHeads DEF Speak, SpeakOnly, Plain, Heading
  <2>3. Heading(k, Silent(Speak(c)))
    BY <2>2, IntentHeads
  <2>4. QED
    BY <2>1, <2>2, <2>3
<1>10. ~InCall(k) => Heading(k, back) /\ Heading(k, Speak(back)) /\ back.app.skill = "bluetooth"
                     /\ Speak(back).app.skill = "bluetooth"
  <2>1. ~InCall(k) => Heading(k, back) /\ Places(k, back) /\ back.app.skill = "bluetooth"
                      /\ One(back.calls.asked, "back")
    BY <1>8, TypeHeads
  <2>2. ~InCall(k) => Heading(k, Speak(back))
    BY <2>1, AskHeads DEF Speak
  <2>3. ~InCall(k) => Speak(back).app = back.app
    BY <2>1, AskIs DEF Speak, Places, BtAsks
  <2>4. QED
    BY <2>1, <2>2, <2>3
<1>11. c.app.skill = k.app.skill /\ Speak(c).app = c.app
  <2>1. c.app.skill = k.app.skill /\ c \in BtWorlds
    BY <1>8 DEF Plain, Places
  <2>2. QED
    BY <2>1, AskIs DEF Speak, BtAsks
<1> DEFINE Fine(v) == Heading(k, v) /\ (v.app.skill = "bluetooth_music" => IsConnected(k))
<1>12. Fine(first)
  <2>1. \A v : Heading(k, v) /\ (k.app.skill # "bluetooth_music" \/ IsConnected(k)) => Fine(v)
    BY DEF Heading
  <2>2. CASE kind \in {"opened", "closed"}
    <3>1. k.app.skill # "bluetooth_music"
      BY <2>2, <1>4
    <3>2. first = OnRadioState(k, kind)
      BY <2>2
    <3>3. first \in {c, Speak(c), Silent(Speak(c)), SetTimer(c, "connect")}
      BY <3>2, <2>2, <1>2 DEF OnRadioState
    <3> HIDE DEF first, Fine, Silent, c
    <3>4. Heading(k, first)
      BY <3>3, <1>9
    <3>5. QED
      BY <2>1, <3>1, <3>4
  <2>3. CASE kind = "connected"
    <3>1. first = OnConnectionState(k, kind)
      BY <2>3
    <3>2. first \in {SpeakOnly(SetTimer(c, "play")), Silent(Speak(c))}
      BY <3>1, <2>3 DEF OnConnectionState
    <3> HIDE DEF first, Fine, Silent, c
    <3>3. Heading(k, first)
      BY <3>2, <1>9
    <3>4. QED
      BY <2>1, <2>3, <3>3, <1>5
  <2>4. CASE kind = "disconnected"
    <3>1. first = OnConnectionState(k, kind)
      BY <2>4
    <3>2. first \in {left, Speak(left)}
      BY <3>1, <2>4 DEF OnConnectionState
    <3>3. ~InCall(k) /\ k.app.skill # "bluetooth_call" /\ k.app.skill \in BluetoothSkills
      BY <2>4, <1>2, <1>4 DEF AppStates
    <3>4. CASE k.app.skill = "bluetooth_music"
      <4>1. left = back
        BY <3>4, <1>11 DEF LeftByPhone
      <4> HIDE DEF first, left, back
      <4>2. QED
        BY <4>1, <3>2, <3>3, <1>10
    <3>5. CASE k.app.skill = "bluetooth"
      <4>1. left = c
        BY <3>5, <1>11 DEF LeftByPhone
      <4> HIDE DEF first, left, c, Fine
      <4>2. Heading(k, first)
        BY <4>1, <3>2, <1>9
      <4>3. QED
        BY <4>2, <2>1, <3>5
    <3>6. QED
      BY <3>3, <3>4, <3>5 DEF BluetoothSkills
  <2>5. CASE kind = "played"
    <3> DEFINE music == SetAppType(k, "bluetooth_music")
    <3>1. first = OnAudioState(k, kind)
      BY <2>5
    <3>2. first = Silent(CancelTimer(music))
      BY <3>1, <2>5 DEF OnAudioState
    <3>3. Heading(k, music)
      BY <2>5, <1>5, <1>7, TypeHeads
    <3> HIDE DEF first, Fine, music
    <3>4. Heading(k, CancelTimer(music))
      BY <3>3, TimerHeads DEF CancelTimer
    <3>5. Heading(k, first)
      BY <3>2, <3>4, IntentHeads
    <3>6. QED
      BY <2>1, <2>5, <3>5, <1>5
  <2>6. CASE kind = "stopped"
    <3>1. first = OnAudioState(k, kind)
      BY <2>6
    <3>2. first = k
      BY <3>1, <2>6 DEF OnAudioState
    <3> HIDE DEF first, Fine
    <3>3. QED
      BY <3>2, <2>1, <2>6, <1>5, <1>9
  <2>7. QED
    BY <2>2, <2>3, <2>4, <2>5, <2>6
<1> HIDE DEF first
<1>13. first \in BtWorlds /\ first.shown = k.shown /\ first.shown \in ShownStates
  BY <1>12 DEF Heading, Places, BtWorlds
<1>14. \E lights \in SUBSET (k.shown.lights \cup {"discovery"}) :
         /\ r \in BtWorlds /\ r.phone = first.phone /\ r.air = first.air /\ r.bt = first.bt
         /\ r.app = first.app /\ r.calls = first.calls
         /\ r.shown = [first.shown EXCEPT !.lights = lights]
         /\ "discovery" \in lights => IsDiscoverable(k.bt.a2dp)
  <2>1. \/ r = first /\ ("discovery" \in k.shown.lights => on)
        \/ r = Light(first, {}, {"discovery"})
        \/ r = Light(first, {"discovery"}, {}) /\ on
    BY <1>4 DEF OnDiscoveryState
  <2>2. CASE r = first /\ ("discovery" \in k.shown.lights => on)
    <3>1. first.shown = [first.shown EXCEPT !.lights = k.shown.lights]
      BY <1>13 DEF ShownStates
    <3>2. QED
      BY <2>2, <3>1, <1>6, <1>13
  <2>3. CASE r = Light(first, {}, {"discovery"})
    <3> HIDE DEF r
    <3>1. LET lights == (k.shown.lights \cup {}) \ {"discovery"}
          IN  /\ r \in BtWorlds /\ r.phone = first.phone /\ r.air = first.air /\ r.bt = first.bt
              /\ r.app = first.app /\ r.calls = first.calls
              /\ r.shown = [first.shown EXCEPT !.lights = lights]
      BY <2>3, <1>13, LightIs
    <3> DEFINE lights == (k.shown.lights \cup {}) \ {"discovery"}
    <3>2. lights \in SUBSET (k.shown.lights \cup {"discovery"}) /\ "discovery" \notin lights
      OBVIOUS
    <3>3. QED
      BY <3>1, <3>2
  <2>4. CASE r = Light(first, {"discovery"}, {}) /\ on
    <3> HIDE DEF r
    <3>1. LET lights == (k.shown.lights \cup {"discovery"}) \ {}
          IN  /\ r \in BtWorlds /\ r.phone = first.phone /\ r.air = first.air /\ r.bt = first.bt
              /\ r.app = first.app /\ r.calls = first.calls
              /\ r.shown = [first.shown EXCEPT !.lights = lights]
      BY <2>4, <1>13, LightIs
    <3>2. QED
      BY <2>4, <3>1, <1>6
  <2>5. QED
    BY <2>1, <2>2, <2>3, <2>4
<1> HIDE DEF r
<1>15. Handled(k, r)
  <2>1. PICK lights \in SUBSET (k.shown.lights \cup {"discovery"}) :
         /\ r \in BtWorlds /\ r.phone = first.phone /\ r.air = first.air /\ r.bt = first.bt
         /\ r.app = first.app /\ r.calls = first.calls
         /\ r.shown = [first.shown EXCEPT !.lights = lights]
         /\ "discovery" \in lights => IsDiscoverable(k.bt.a2dp)
    BY <1>14
  <2>2. k \in BtWorlds /\ Heading(k, first)
        /\ (first.app.skill = "bluetooth_music" => IsConnected(k))
    BY <1>1, <1>12
  <2>3. QED
    BY <2>1, <2>2, <1>4, LightsHandled
<1>16. QED
  BY <1>3, <1>15 DEF k

LEMMA RingHandled ==
    ASSUME NEW w \in BtWorlds, AllKept(w), Idle(w), w.bt.hfp = "incoming", NEW play \in BOOLEAN
    PROVE  Handled(w, OnRing(w, play))
<1> DEFINE v == OnRing(w, play)
<1>1. /\ v \in BtWorlds /\ v.phone = w.phone /\ v.air = w.air /\ v.bt = w.bt
      /\ v.calls = w.calls /\ v.app = w.app
      /\ v.shown = w.shown \/ v.shown = [w.shown EXCEPT !.ringtone = TRUE]
  BY RingtoneIs DEF OnRing
<1> HIDE DEF v
<1>2. v.shown.lights = w.shown.lights /\ v.shown.monologue = w.shown.monologue
      /\ v.shown.key = w.shown.key
  BY <1>1 DEF BtWorlds, ShownStates
<1>3. w.app.callState = "INCOMING"
  BY DEF AllKept, CallIsKept, GetCallState
<1>4. CallIsKept(v)
  BY <1>1, <1>2, <1>3 DEF AllKept, CallIsKept, InCall, GetCallState, IsConnected
<1>5. MonologueIsKept(v)
  BY <1>1, <1>2 DEF AllKept, MonologueIsKept, InCall
<1>6. None(v.calls.asked) /\ None(v.calls.told)
  BY <1>1, EmptySeq DEF None, Idle
<1>7. QED
  BY <1>1, <1>4, <1>5, <1>6 DEF v, Handled, StillToDo, AllKept

\* A report makes the adapters know the phone it is about.
LEMMA NowKnown ==
    ASSUME NEW w \in BtWorlds, NEW p \in Phones, NEW q \in Phones, NEW msg \in BtReports,
           Knows(w.bt, p), Moves(p, msg, q)
    PROVE  /\ msg.from = "hfp" /\ msg.kind = "ring" => Knows(w.bt, q)
           /\ msg.from = "hfp" /\ msg.kind # "ring" => Knows([w.bt EXCEPT !.hfp = msg.kind], q)
           /\ msg.from # "hfp" => Knows([w.bt EXCEPT !.a2dp = msg.kind], q)
<1>1. w.bt \in [a2dp : A2dpKinds, mode : Modes, hfp : Setups]
  BY DEF BtWorlds
<1>2. p.mode \in {"sink", "off"} /\ p.conn \in BOOLEAN /\ (p.conn => p.mode = "sink")
      /\ q.mode \in {"sink", "off"} /\ q.conn \in BOOLEAN /\ (q.conn => q.mode = "sink")
  BY DEF Phones
<1>3. ASSUME msg.from = "hfp", msg.kind = "ring" PROVE Knows(w.bt, q)
  BY <1>3 DEF Moves
<1>4. ASSUME msg.from = "hfp", msg.kind # "ring"
      PROVE  Knows([w.bt EXCEPT !.hfp = msg.kind], q)
  <2> DEFINE b == [w.bt EXCEPT !.hfp = msg.kind]
  <2>1. q = [p EXCEPT !.call = msg.kind]
    BY <1>4 DEF Moves, HfpMoves
  <2>2. q.call = msg.kind /\ q.conn = p.conn /\ q.mode = p.mode
    BY <2>1 DEF Phones
  <2>3. b.hfp = msg.kind /\ b.a2dp = w.bt.a2dp /\ b.mode = w.bt.mode
    BY <1>1
  <2> HIDE DEF b
  <2>4. Knows(b, q)
    BY <2>2, <2>3 DEF Knows
  <2>5. QED
    BY <2>4 DEF b
<1>5. ASSUME msg.from # "hfp" PROVE Knows([w.bt EXCEPT !.a2dp = msg.kind], q)
  <2> DEFINE b == [w.bt EXCEPT !.a2dp = msg.kind]
  <2>1. RadioMoves(p, msg.kind, q)
    BY <1>5 DEF Moves
  <2>2. b.a2dp = msg.kind /\ b.hfp = w.bt.hfp /\ b.mode = w.bt.mode
    BY <1>1
  <2>3. q.call = p.call
    BY <2>1 DEF RadioMoves, Phones
  <2>4. \/ msg.kind = "opened" /\ q.mode = "sink" /\ ~q.conn
        \/ msg.kind = "closed" /\ q.mode = "off" /\ ~q.conn
        \/ msg.kind \in {"connected", "played", "stopped"} /\ q.conn
        \/ msg.kind = "disconnected" /\ q.mode = "sink" /\ ~q.conn
    BY <2>1, <1>2 DEF RadioMoves, Phones
  <2> HIDE DEF b
  <2>5. Knows(b, q)
    BY <2>2, <2>3, <2>4 DEF Knows
  <2>6. QED
    BY <2>5 DEF b
<1>6. QED
  BY <1>3, <1>4, <1>5

\* The handler of a report, for the phone it is about.
LEMMA ReportHandled ==
    ASSUME NEW w \in BtWorlds, AllKept(w), Idle(w), NEW p \in Phones, NEW q \in Phones,
           NEW msg \in BtReports, Knows(w.bt, p), Moves(p, msg, q), NEW play \in BOOLEAN
    PROVE  LET v == IF msg.from = "hfp" THEN OnEvent(w, msg.kind, play)
                    ELSE HandleEvent(w, msg.from, msg.kind)
           IN  /\ v \in BtWorlds /\ v.phone = w.phone /\ v.air = w.air /\ Knows(v.bt, q)
               /\ StillToDo(v)
<1> DEFINE kind == msg.kind
           v == IF msg.from = "hfp" THEN OnEvent(w, kind, play)
                ELSE HandleEvent(w, msg.from, kind)
           called == [w EXCEPT !.bt.hfp = kind]
           played == [w EXCEPT !.bt.a2dp = kind]
<1>1. w.bt.mode = "sink" /\ w.bt.hfp = p.call /\ w.bt.hfp \in Calls
      /\ (IsConnected(w) <=> p.conn) /\ (InCall(w) <=> p.call # "none")
  BY DEF Knows, Phones, IsConnected, InCall
<1>2. CASE msg.from = "hfp" /\ kind = "ring"
  <2>1. p.call = "incoming"
    BY <1>2 DEF Moves
  <2>2. v = OnRing(w, play)
    BY <1>1, <1>2 DEF OnEvent, Calls
  <2> HIDE DEF v
  <2>3. Handled(w, v)
    BY <2>1, <2>2, <1>1, RingHandled
  <2>4. Knows(w.bt, q)
    BY <1>2, NowKnown
  <2>5. QED
    BY <2>3, <2>4 DEF Handled, v
<1>3. CASE msg.from = "hfp" /\ kind # "ring"
  <2>1. <<p.call, kind>> \in {<<"none", "incoming">>, <<"none", "outgoing">>,
                              <<"incoming", "active">>, <<"outgoing", "active">>,
                              <<"incoming", "none">>, <<"outgoing", "none">>,
                              <<"active", "none">>}
    BY <1>3 DEF Moves, HfpMoves
  <2>2. /\ kind # w.bt.hfp /\ kind \in {"none", "incoming", "active", "outgoing"}
        /\ kind = "none" => InCall(w)
        /\ kind = "incoming" => ~InCall(w)
    BY <2>1, <1>1
  <2>3. kind \in Setups
    BY <2>2 DEF Setups
  <2>4. called.phone = w.phone /\ called.air = w.air /\ called.bt = [w.bt EXCEPT !.hfp = kind]
    BY <2>3, CallKnown
  <2>5. Handled(called, v)
    <3>1. CASE kind = "none"
      <4>1. v = OnIdle(called)
        BY <1>3, <2>2, <3>1 DEF OnEvent
      <4>2. QED
        BY <4>1, <3>1, <2>2, <1>1, IdleHandled
    <3>2. CASE kind = "incoming"
      <4>1. v = OnIncoming(called)
        BY <1>3, <2>2, <3>2 DEF OnEvent
      <4>2. QED
        BY <4>1, <3>2, <2>2, IncomingHandled
    <3>3. CASE kind \in {"active", "outgoing"}
      <4>1. v = OnOffhook(called)
        BY <1>3, <2>2, <3>3 DEF OnEvent
      <4>2. QED
        BY <4>1, <3>3, <1>1, OffhookHandled
    <3>4. QED
      BY <3>1, <3>2, <3>3, <2>2
  <2> HIDE DEF v, called
  <2>6. Knows(called.bt, q)
    <3>1. Knows([w.bt EXCEPT !.hfp = msg.kind], q)
      BY <1>3, NowKnown
    <3>2. QED
      BY <2>4, <3>1
  <2>7. QED
    BY <2>4, <2>5, <2>6 DEF Handled, v
<1>4. CASE msg.from # "hfp"
  <2>1. msg.from = "sink" /\ RadioMoves(p, kind, q)
    BY <1>4 DEF Moves
  <2>2. /\ kind \in {"opened", "closed", "connected", "disconnected", "played", "stopped"}
        /\ kind \in {"opened", "closed", "connected"} => ~p.conn
        /\ kind = "disconnected" => p.call = "none"
    BY <2>1 DEF RadioMoves, Phones
  <2>3. kind \in A2dpKinds
    BY <2>2 DEF A2dpKinds
  <2>4. played.phone = w.phone /\ played.air = w.air /\ played.bt = [w.bt EXCEPT !.a2dp = kind]
    BY <2>3, MusicKnown
  <2>5. v = HandleEvent(w, "sink", kind)
    BY <2>1
  <2> HIDE DEF v, kind
  <2>6. Handled(played, v)
    BY <2>2, <2>5, <1>1, MusicHandled
  <2> HIDE DEF played
  <2>7. Knows(played.bt, q)
    <3>1. Knows([w.bt EXCEPT !.a2dp = msg.kind], q)
      BY <1>4, NowKnown
    <3>2. QED
      BY <2>4, <3>1 DEF kind
  <2>8. QED
    BY <2>4, <2>6, <2>7 DEF Handled, v, kind
<1>5. QED
  BY <1>2, <1>3, <1>4

LEMMA ReceiveSound ==
    ASSUME PlainBluetooth, BtSound(Bluetooth), ReceiveMessage
    PROVE  BtSound(Bluetooth)'
<1> DEFINE b == Bluetooth
           w == [Bluetooth EXCEPT !.air = Tail(@)]
           msg == Head(air)
           Answer(play) == IF msg.from = "hfp" THEN OnEvent(w, msg.kind, play)
                          ELSE HandleEvent(w, msg.from, msg.kind)
<1>1. AtRest(b) /\ b \in BtWorlds /\ AllKept(b) /\ Idle(b)
  BY RoomRests DEF ReceiveMessage, AtRest, Fits
<1>2. b.air = air /\ air \in Seq(BtReports) /\ air # <<>> /\ Follows(air, b.bt, b.phone)
  BY <1>1 DEF ReceiveMessage, Bluetooth, BtWorlds, AtRest, Fits
<1>3. PICK play \in BOOLEAN : Results(Answer(play))
  BY DEF ReceiveMessage
<1> DEFINE v == Answer(play)
<1>4. Results(v)
  BY <1>3
<1>5. /\ Tail(air) \in Seq(BtReports) /\ msg \in BtReports
      /\ \E p, q \in Phones :
            /\ Knows(b.bt, p) /\ Moves(p, msg, q)
            /\ \A c : Knows(c, q) => Follows(Tail(air), c, b.phone)
  BY <1>2, Received
<1>6. PICK p \in Phones, q \in Phones :
        /\ Knows(b.bt, p) /\ Moves(p, msg, q)
        /\ \A c : Knows(c, q) => Follows(Tail(air), c, b.phone)
  BY <1>5
<1>7. /\ w \in BtWorlds /\ w.phone = b.phone /\ w.air = Tail(air) /\ w.bt = b.bt
      /\ w.app = b.app /\ w.calls = b.calls /\ w.shown = b.shown
  BY <1>1, <1>2, <1>5 DEF BtWorlds
<1> HIDE DEF b, w, msg
<1>8. AllKept(w) /\ Idle(w)
  BY <1>1, <1>7 DEF AllKept, Idle, CallIsKept, MonologueIsKept, InCall, GetCallState, IsConnected
<1>9. v \in BtWorlds /\ v.phone = w.phone /\ v.air = w.air /\ Knows(v.bt, q) /\ StillToDo(v)
  BY <1>5, <1>6, <1>7, <1>8, ReportHandled
<1> HIDE DEF v
<1>10. BtSound(v)
  BY <1>6, <1>7, <1>9 DEF BtSound
<1>11. QED
  BY <1>4, <1>10, ResultsSound

LEMMA BtStep ==
    ASSUME PlainBluetooth, BtSound(Bluetooth), [BluetoothNext]_btVars
    PROVE  BtSound(Bluetooth)'
<1>1. CASE UNCHANGED btVars
  <2>1. Bluetooth' = Bluetooth
    BY <1>1 DEF btVars, Bluetooth
  <2>2. QED
    BY <2>1
<1>2. CASE BluetoothNext
  <2>1. CASE ReceiveMessage
    BY <2>1, ReceiveSound
  <2>2. CASE RuntimeAnswers
    BY <2>2, AnswersSound
  <2>3. CASE AppIsTold
    BY <2>3, ToldSound
  <2>4. CASE TimerOver
    BY <2>4, TimerOverSound
  <2>5. ASSUME NEW intent \in BluetoothIntents, BluetoothRequest(intent)
        PROVE  BtSound(Bluetooth)'
    BY <2>5, RequestSound
  <2>6. CASE OnKeyEvent
    BY <2>6, KeySound
  <2>7. CASE OnQuiteBack \/ OnQuiteFront
    BY <2>7, QuietSound
  <2>8. CASE Covers \/ Evicts
    BY <2>8, CoveredSound
  <2>9. CASE PhoneConnects \/ PhoneLeaves \/ PhoneRings
               \/ (\E play \in BOOLEAN : PhonePlays(play))
               \/ (\E next \in Setups : PhoneCalls(next))
    BY <2>9, PhoneSteps
  <2>10. QED
    BY <1>2, <2>1, <2>2, <2>3, <2>4, <2>5, <2>6, <2>7, <2>8, <2>9 DEF BluetoothNext
<1>3. QED
  BY <1>1, <1>2

LEMMA BtStart ==
    ASSUME BluetoothInit
    PROVE  BtSound(Bluetooth)
<1> DEFINE w == Bluetooth
<1>1. phone \in Phones /\ Knows(bt, phone)
  BY DEF BluetoothInit, Phones, Calls, Knows
<1>2. <<>> \in Seq(BtReports) /\ <<>> \in Seq(BtAsks) /\ <<>> \in Seq(BtTells)
  BY EmptySeq
<1>3. btApp \in AppStates /\ btShown \in ShownStates /\ btCalls \in CallQueues
      /\ bt \in [a2dp : A2dpKinds, mode : Modes, hfp : Setups]
  BY <1>2 DEF BluetoothInit, AppStates, ShownStates, CallQueues, BluetoothSkills, CallStates,
              A2dpKinds, Modes, Setups
<1>4. w \in BtWorlds /\ w.phone = phone /\ w.air = <<>> /\ w.bt = bt /\ w.app = btApp
      /\ w.calls = btCalls /\ w.shown = btShown
  BY <1>1, <1>2, <1>3 DEF BluetoothInit, Bluetooth, BtWorlds
<1> HIDE DEF w
<1>5. Follows(w.air, w.bt, w.phone)
  BY <1>1, <1>4, NothingReported
<1>6. None(w.calls.asked) /\ None(w.calls.told)
  BY <1>4, EmptySeq DEF BluetoothInit, None
<1>7. AllKept(w)
  BY <1>4 DEF BluetoothInit, AllKept, CallIsKept, MonologueIsKept, GetCallState, InCall
<1>8. QED
  BY <1>4, <1>5, <1>6, <1>7 DEF BtSound, StillToDo, w

LEMMA BtSafe ==
    ASSUME BtSound(Bluetooth)
    PROVE  BluetoothInv
<1> DEFINE w == Bluetooth
<1>1. /\ w.phone = phone /\ w.air = air /\ w.bt = bt /\ w.app = btApp /\ w.calls = btCalls
      /\ w.shown = btShown /\ w \in BtWorlds /\ Follows(air, bt, phone)
  BY DEF Bluetooth, BtSound
<1>2. BluetoothTypeOK
  <2>1. /\ phone \in Phones /\ btCalls \in CallQueues /\ air \in Seq(BtReports)
        /\ bt \in [a2dp : A2dpKinds, mode : Modes, hfp : Setups]
        /\ btApp \in AppStates /\ btShown \in ShownStates
    BY <1>1 DEF BtWorlds
  <2>2. phone \in [mode : Modes \cup {"off"}, conn : BOOLEAN, play : BOOLEAN, call : Setups]
    BY <2>1 DEF Phones, Calls, Modes, Setups
  <2>3. QED
    BY <2>1, <2>2 DEF BluetoothTypeOK, CallQueues, BtAsks, BtTells, BtReports, AppStates,
                      ShownStates
<1>3. ASSUME BtSettled
      PROVE  /\ phone.call # "none" => btApp.callState # "IDLE"
             /\ "discovery" \in btShown.lights => phone.mode # "off" /\ ~phone.conn
             /\ btApp.callState = "IDLE"
                   => /\ ~btShown.key /\ ~btShown.monologue /\ ~btShown.ringtone
                      /\ btShown.lights \subseteq {"discovery"}
             /\ ~phone.conn => btApp.callState = "IDLE" /\ btApp.skill = "bluetooth"
             /\ btShown.ringtone => btApp.callState = "INCOMING"
  <2>1. AllKept(w)
    <3>1. Idle(w)
      BY <1>1, <1>3 DEF BtSettled, Idle
    <3>2. QED
      BY <3>1, SoundRests DEF AtRest
  <2>2. phone \in Phones /\ Knows(bt, phone)
    BY <1>1, <1>3, SomethingKnown DEF BtSettled, BtWorlds
  <2>3. /\ (InCall(w) <=> phone.call # "none") /\ (IsConnected(w) <=> phone.conn)
        /\ (IsDiscoverable(bt.a2dp) <=> phone.mode = "sink" /\ ~phone.conn)
        /\ (phone.call # "none" => phone.conn) /\ bt.hfp \in Calls
    BY <1>1, <2>2 DEF Knows, Phones, InCall, IsConnected, IsDiscoverable
  <2>4. btApp.skill \in BluetoothSkills /\ btShown \in ShownStates
        /\ btShown.lights \in SUBSET {"discovery", "INCOMING", "OFFHOOK"}
    BY <1>1 DEF BtWorlds, AppStates, ShownStates
  <2> HIDE DEF w
  <2>5. btApp.callState = "IDLE" <=> ~InCall(w)
    BY <1>1, <2>1, <2>3 DEF AllKept, CallIsKept, GetCallState, InCall, Calls
  <2>6. /\ btApp.skill = "bluetooth_call" => InCall(w)
        /\ btApp.skill = "bluetooth_music" => IsConnected(w)
        /\ btShown.lights \subseteq {"discovery", btApp.callState}
        /\ btShown.ringtone => btApp.callState = "INCOMING"
        /\ "discovery" \in btShown.lights => IsDiscoverable(bt.a2dp)
        /\ (btShown.monologue <=> InCall(w)) /\ (btShown.key <=> InCall(w))
    BY <1>1, <2>1 DEF AllKept, CallIsKept, MonologueIsKept
  <2>7. QED
    BY <2>3, <2>4, <2>5, <2>6 DEF BluetoothSkills
<1>4. QED
  BY <1>2, <1>3 DEF BluetoothInv, CallIsShown, LightMeansDiscoverable, CallGivesBack,
                    AppFollowsPhone, NoRingtoneInCall

\* For any number of reports and calls on their way, without alerting calls,
\* a second mode and a runtime that is slower than the phone: when nothing is
\* on its way the app is in the call and in the place that the phone is in,
\* and what a call took has been given back (apps/bluetooth/app.js).
THEOREM CallsGiveBack ==
    ASSUME PlainBluetooth
    PROVE  BluetoothSpec => []BluetoothInv
<1>1. BluetoothInit => BtSound(Bluetooth)
  BY BtStart
<1>2. BtSound(Bluetooth) /\ [BluetoothNext]_btVars => BtSound(Bluetooth)'
  BY BtStep
<1>3. BtSound(Bluetooth) => BluetoothInv
  BY BtSafe
<1>4. QED
  BY <1>1, <1>2, <1>3, PTL DEF BluetoothSpec
=============================================================================
