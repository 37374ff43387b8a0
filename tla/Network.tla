------------------------------- MODULE Network -------------------------------
(***************************************************************************)
(* How the device gets on the network: custodian                           *)
(* (runtime/lib/component/custodian.js), the log-in it starts, and the     *)
(* network app (apps/network/app.js), which takes an account and an access *)
(* point from a phone over bluetooth.  wpa_supplicant and the bluetooth    *)
(* stream are external.  Urls reach the app at once while it is in front;  *)
(* lights, sounds and the list of access points are left out.              *)
(***************************************************************************)
EXTENDS Naturals

CONSTANTS
    Masters,     \* accounts that a phone can bind the device to
    MaxChanges,  \* bound: changes of the connection
    MaxBinds,    \* bound: access points that phones send
    Troubles     \* what is considered: again, a setup asked for in the second
                 \* in which it leaves; crash, its end without notice

NoMaster == "no master"

ASSUME NetworkAssumption ==
    /\ NoMaster \notin Masters
    /\ MaxChanges \in Nat /\ MaxBinds \in Nat
    /\ Troubles \subseteq {"again", "crash"}

VARIABLES
    wifi,  \* wpa_supplicant
    cust,  \* fields of custodian
    net,   \* fields of the network app
    conn,  \* its timers: those of connections begun, by number
    auth   \* the log-in that holds the lock of the singleton

networkVars == <<wifi, cust, net, conn, auth>>

Binds == 1 .. MaxBinds

NetworkTypeOK ==
    /\ wifi \in [up : BOOLEAN, told : BOOLEAN, changes : 0 .. MaxChanges,
                 saved : BOOLEAN, joined : BOOLEAN,  \* getNumOfHistory counts both
                 enabled : BOOLEAN]                  \* joins what is saved by itself
    /\ cust \in [connected : {"unknown", "yes", "no"}, checking : BOOLEAN,
                 loggedIn : BOOLEAN, prompting : BOOLEAN]
    /\ net \in [open : BOOLEAN, ble : {"closed", "opening", "open", "connected"},
                connecting : BOOLEAN,            \* netStatus
                master : Masters \cup {NoMaster},
                sleep : BOOLEAN, leaving : BOOLEAN,  \* timers of intoSleep
                settled : BOOLEAN]               \* NET_DISABLE_RECONNECT
    /\ conn \in [begun : 0 .. MaxBinds, polls : SUBSET Binds, timeouts : SUBSET Binds]
    /\ auth \in [busy : BOOLEAN, master : Masters \cup {NoMaster}]

Closed ==
    [open |-> FALSE, ble |-> "closed", connecting |-> FALSE, master |-> NoMaster,
     sleep |-> FALSE, leaving |-> FALSE, settled |-> FALSE]

NetworkInit ==
    /\ \E known \in BOOLEAN :
         wifi = [up |-> FALSE, told |-> FALSE, changes |-> 0,
                 saved |-> known, joined |-> FALSE, enabled |-> TRUE]
    /\ cust = [connected |-> "unknown", checking |-> FALSE, loggedIn |-> FALSE,
               prompting |-> FALSE]
    /\ net = Closed
    /\ conn = [begun |-> 0, polls |-> {}, timeouts |-> {}]
    /\ auth = [busy |-> FALSE, master |-> NoMaster]

History(w) == w.saved \/ w.joined

\* Nothing is left to keep the connection.
Unjoined(w) == [w EXCEPT !.joined = FALSE, !.up = @ /\ w.saved /\ w.enabled]
ScanPassively(w) == [w EXCEPT !.enabled = TRUE]
DisableAll(w) == [w EXCEPT !.enabled = FALSE, !.joined = FALSE, !.up = FALSE]
RemoveAll(w) == [DisableAll(w) EXCEPT !.saved = FALSE]

-----------------------------------------------------------------------------
(* The network app *)

\* setupNetworkByBle
SetupNetworkByBle(w) ==
    /\ net' = [net EXCEPT !.open = TRUE, !.ble = "opening", !.sleep = TRUE]
    /\ wifi' = DisableAll(w)

\* (slip: whoever has bound the device once needs no scan)
SleepUnlessBound ==
    /\ wifi' = IF net.settled \/ net.master # NoMaster THEN wifi
               ELSE ScanPassively(Unjoined(wifi))
    /\ net' = Closed
    /\ conn' = [conn EXCEPT !.polls = {}, !.timeouts = {}]

\* Its process ends with the app, and its timers with it.
IntoSleep ==
    /\ wifi' = IF net.settled THEN wifi ELSE ScanPassively(Unjoined(wifi))
    /\ net' = Closed
    /\ conn' = [conn EXCEPT !.polls = {}, !.timeouts = {}]

StreamStarts(ok) ==
    /\ net.open /\ net.ble = "opening"
    /\ net' = [net EXCEPT !.ble = IF ok THEN "open" ELSE "closed"]
    /\ UNCHANGED <<wifi, cust, conn, auth>>

Handshaked ==
    /\ net.open /\ net.ble = "open"
    /\ net' = [net EXCEPT !.ble = "connected", !.sleep = TRUE]
    /\ UNCHANGED <<wifi, cust, conn, auth>>

Disconnected ==
    /\ net.ble = "connected"
    /\ net' = [net EXCEPT !.ble = "open"]
    /\ UNCHANGED <<wifi, cust, conn, auth>>

\* connectWIFI; the variables of the timers hold those of the last connection.
Bind(m) ==
    LET n == conn.begun + 1
    IN  /\ net.ble = "connected" /\ n \in Binds
        /\ wifi' = [wifi EXCEPT !.joined = TRUE]
        /\ net' = [net EXCEPT !.connecting = TRUE, !.master = m, !.sleep = TRUE]
        /\ conn' = [begun |-> n, polls |-> conn.polls \cup {n},
                    timeouts |-> conn.timeouts \cup {n}]
        /\ UNCHANGED <<cust, auth>>

\* stopConnectWIFI clears the timers of the last connection.
StopConnect(ended) ==
    /\ wifi' = Unjoined(wifi)
    /\ net' = [net EXCEPT !.connecting = FALSE]
    /\ conn' = [conn EXCEPT !.polls = @ \ {conn.begun},
                            !.timeouts = @ \ ({conn.begun} \cup ended)]
    /\ UNCHANGED <<cust, auth>>

\* getWIFIState
PollConnects(n) ==
    /\ n \in conn.polls /\ wifi.up
    /\ net' = [net EXCEPT !.connecting = FALSE]
    /\ conn' = [conn EXCEPT !.polls = @ \ {n}, !.timeouts = @ \ {conn.begun}]
    /\ UNCHANGED <<wifi, cust, auth>>

ConnectTimeout(n) == n \in conn.timeouts /\ StopConnect({n})

\* '/wifi_status', for a password that is wrong or a network not found
WifiStatus == net.connecting /\ StopConnect({})

\* '/renew'; a setup that is on starts its timer again
Renew ==
    IF net.ble = "connected" THEN net' = [net EXCEPT !.sleep = TRUE] /\ UNCHANGED wifi
                             ELSE SetupNetworkByBle(wifi)

AppTimer ==
    /\ net.sleep \/ net.leaving
    /\ IntoSleep
    /\ UNCHANGED <<cust, auth>>

\* Another app is opened over it, or apps are destroyed.
AppDestroyed ==
    /\ net.open
    /\ IntoSleep
    /\ UNCHANGED <<cust, auth>>

AppCrashes ==
    /\ "crash" \in Troubles /\ net.open
    /\ net' = Closed
    /\ conn' = [conn EXCEPT !.polls = {}, !.timeouts = {}]
    /\ UNCHANGED <<wifi, cust, auth>>

-----------------------------------------------------------------------------
(* Custodian, and the log-in *)

\* A call while another is on is rejected, and skipped by the app.
LoginAs(master, c) ==
    IF auth.busy \/ (~net.open /\ master = NoMaster /\ c.loggedIn)
    THEN cust' = c /\ UNCHANGED auth
    ELSE /\ cust' = [c EXCEPT !.loggedIn = FALSE]
         /\ auth' = [busy |-> TRUE, master |-> master]

ReconnectCloud(c) ==
    IF net.open
    THEN /\ LoginAs(net.master, c)  \* '/connected'
         /\ net' = [net EXCEPT !.master = NoMaster]
    ELSE /\ net' = net
         /\ IF c.connected = "yes" THEN LoginAs(NoMaster, c) ELSE cust' = c /\ UNCHANGED auth

ResetByCustodian(c, w, removeAll) ==
    /\ cust' = [c EXCEPT !.connected = "no"]
    /\ SetupNetworkByBle(IF removeAll THEN RemoveAll(w) ELSE w)

OnNetworkDisconnect(c, w) ==
    LET gone == [c EXCEPT !.connected = "no"]
    IN  IF c.connected = "no" \/ net.open
        THEN cust' = gone /\ wifi' = w /\ net' = net
        ELSE IF History(w)
        THEN cust' = gone /\ wifi' = ScanPassively(w) /\ net' = net
        ELSE ResetByCustodian(gone, w, TRUE)

OnNetworkConnect(c) ==
    cust' = IF c.connected = "yes" \/ c.checking THEN c
            ELSE [c EXCEPT !.connected = "yes", !.checking = TRUE, !.prompting = FALSE]

ConnectionChanges ==
    /\ wifi.changes < MaxChanges
    /\ wifi.up \/ wifi.joined \/ (wifi.saved /\ wifi.enabled)
    /\ wifi' = [wifi EXCEPT !.up = ~@, !.changes = @ + 1]
    /\ UNCHANGED <<cust, net, conn, auth>>

\* A report to a runtime that is disabled is lost.
ReportSysStatus(hasBeenDisabled) ==
    LET told == [wifi EXCEPT !.told = wifi.up]
    IN  /\ wifi.told # wifi.up
        /\ IF ~hasBeenDisabled /\ ~wifi.up
           THEN OnNetworkDisconnect(cust, told)
           ELSE /\ IF hasBeenDisabled THEN cust' = cust ELSE OnNetworkConnect(cust)
                /\ wifi' = told /\ net' = net
        /\ UNCHANGED <<conn, auth>>

\* wifi.checkNetwork calls back, within ten seconds.
NetworkChecked(ok) ==
    LET c == [cust EXCEPT !.checking = FALSE]
    IN  /\ cust.checking /\ (ok => wifi.up)
        /\ IF ok THEN ReconnectCloud(c) /\ wifi' = wifi
                 ELSE OnNetworkDisconnect(c, wifi) /\ auth' = auth
        /\ UNCHANGED conn

PrepareNetwork(c) ==
    IF wifi.up THEN OnNetworkConnect(c) /\ UNCHANGED <<wifi, net>>
    ELSE IF History(wifi) THEN cust' = [c EXCEPT !.prompting = TRUE] /\ UNCHANGED <<wifi, net>>
    ELSE OnNetworkDisconnect(c, wifi)

\* At the end of the start, and when the device wakes up (resetState before).
CustodianPrepares(wakeup) ==
    /\ PrepareNetwork(IF wakeup THEN [cust EXCEPT !.connected = "unknown"] ELSE cust)
    /\ UNCHANGED <<conn, auth>>

PromptTimer ==
    /\ cust.prompting
    /\ cust' = [cust EXCEPT !.prompting = FALSE]
    /\ UNCHANGED <<wifi, net, conn, auth>>

\* runtime.resetNetwork by a key or a phone; while the app is in front nothing.
ResetNetworkByUser(removeAll) ==
    /\ ~net.open \/ ("again" \in Troubles /\ net.leaving)
    /\ ResetByCustodian(cust, wifi, removeAll)
    /\ UNCHANGED <<conn, auth>>

\* The account is answered over the connection, and the app is told (201) by
\* handleCloudEvent before custodian is logged in.
CustodianLoggedIn ==
    /\ auth.busy /\ wifi.up
    /\ auth' = [busy |-> FALSE, master |-> NoMaster]
    /\ net' = IF net.open /\ cust.connected = "yes"
              THEN [net EXCEPT !.settled = TRUE, !.leaving = TRUE] ELSE net
    /\ cust' = [cust EXCEPT !.loggedIn = TRUE]
    /\ wifi' = [wifi EXCEPT !.saved = History(wifi), !.enabled = @ \/ wifi.joined]
    /\ UNCHANGED conn

\* BIND_MASTER_REQUIRED lets custodian reset; other failures are told the app.
CloudLoginFails(bindRequired) ==
    /\ auth.busy
    /\ auth' = [busy |-> FALSE, master |-> NoMaster]
    /\ UNCHANGED conn
    /\ bindRequired /\ net.leaving => "again" \in Troubles
    /\ IF bindRequired THEN ResetByCustodian(cust, wifi, FALSE)
       ELSE /\ UNCHANGED <<cust, net>>
            /\ wifi' = IF net.open /\ cust.connected = "yes" THEN Unjoined(wifi) ELSE wifi

\* Relogin
CloudRelogin ==
    /\ ReconnectCloud([cust EXCEPT !.loggedIn = FALSE])
    /\ UNCHANGED <<wifi, conn>>

\* The device is spoken to while it is not prepared.
TurenDidWakeUp ==
    /\ cust.connected # "yes" \/ ~cust.loggedIn
    /\ net.leaving => "again" \in Troubles
    /\ IF net.open THEN Renew
       ELSE net' = net /\ wifi' = IF History(wifi) THEN ScanPassively(wifi) ELSE wifi
    /\ UNCHANGED <<cust, conn, auth>>

NetworkNext ==
    \/ ConnectionChanges
    \/ \E yes \in BOOLEAN :
         ReportSysStatus(yes) \/ NetworkChecked(yes) \/ CustodianPrepares(yes)
         \/ ResetNetworkByUser(yes) \/ CloudLoginFails(yes) \/ StreamStarts(yes)
    \/ PromptTimer \/ CustodianLoggedIn \/ CloudRelogin \/ TurenDidWakeUp
    \/ Handshaked \/ Disconnected \/ WifiStatus
    \/ \E m \in Masters : Bind(m)
    \/ \E n \in Binds : PollConnects(n) \/ ConnectTimeout(n)
    \/ AppTimer \/ AppDestroyed \/ AppCrashes

NetworkSpec == NetworkInit /\ [][NetworkNext]_networkVars

\* Timers fire.
NetworkFairness == WF_networkVars(AppTimer)

-----------------------------------------------------------------------------
(* Properties *)

\* A setup takes all access points off; whoever ends it puts them back or has
\* found another one, so a device that knows a network is looking for one
\* whenever nobody sets it up.
NotLeftDisabled == wifi.saved /\ ~net.open => wifi.enabled

\* The setup is never left to itself: without a phone it is given up, and
\* its end is not put off by what else happens to the device.
SetupEnds == net.open => net.sleep \/ net.leaving

\* "skip if current is at network app", and every setup ends: the device does
\* not stay in it.
SetupLeaves == net.open ~> ~net.open

\* The device knows of a connection that it was told of and that lasts.
ConnectionNoticed ==
    (wifi.up /\ wifi.told) ~> (~wifi.up \/ ~wifi.told \/ cust.connected = "yes")

\* A timeout ends the connection it was set for, and no later one.
TimeoutOfItsOwn ==
    [][\A n \in Binds : n \in conn.timeouts /\ n < conn.begun =>
         ~(n \notin conn'.timeouts /\ wifi.joined /\ ~wifi'.joined /\ net'.open)]_networkVars

\* However a setup ends, the device may come back to the network it had, and no
\* setup is left that nothing would end.
NetworkInv == NetworkTypeOK /\ NotLeftDisabled /\ SetupEnds
=============================================================================
