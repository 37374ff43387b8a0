---------------------------- MODULE AppScheduler ----------------------------
(***************************************************************************)
(* The table of app processes (runtime/lib/component/app-scheduler.js).    *)
(*                                                                         *)
(* An app is created (a fork and a handshake for ext and exe apps, a       *)
(* `require` for light apps, nothing for dbus apps), runs, is suspended    *)
(* (its descriptor is destructed and its process killed a second later)    *)
(* and exits.  The actions here write the scheduler's own variables only;  *)
(* what the runtime does when an app exits (appGC) is in LaVieEnPile,      *)
(* which composes the two.                                                 *)
(***************************************************************************)
CONSTANTS
    Apps,        \* app ids
    LightApps,   \* apps loaded into this process, getTypeOfApp = 'light'
    DbusApps,    \* apps that own a dbus name, getTypeOfApp = 'dbus'
    DaemonApps   \* apps whose manifest says daemon

ASSUME AppKindsAssumption ==
    /\ LightApps \subseteq Apps
    /\ DbusApps \subseteq Apps
    /\ DaemonApps \subseteq Apps
    /\ LightApps \cap DbusApps = {}

VARIABLES
    appStatus,   \* AppScheduler#appStatus, with "not running" for no entry
    restarts     \* daemon apps whose 5s restart timer is armed

schedulerVars == <<appStatus, restarts>>

Status == {"not running", "creating", "running", "destructing", "exited"}

\* A process of their own: the only apps that emit 'exit'.
ProcessApps == Apps \ (LightApps \cup DbusApps)

SchedulerTypeOK ==
    /\ appStatus \in [Apps -> Status]
    /\ restarts \subseteq DaemonApps

SchedulerInit ==
    /\ appStatus = [a \in Apps |-> "not running"]
    /\ restarts = {}

-----------------------------------------------------------------------------
\* Readings of a status table

IsAppRunning(st, a) == st[a] = "running"

\* appMap[a] is set by handleAppCreate and deleted by handleAppExit: it is
\* there while the app runs and while it is destructing.
HasDescriptor(st, a) == st[a] \in {"running", "destructing"}

\* suspendApp is a no-op for in-process and dbus apps, and for a daemon
\* unless it is forced.
CanSuspend(a, force) == a \in ProcessApps /\ (force \/ a \notin DaemonApps)

\* The table after suspendApp was called for every app of S.
Suspended(st, S, force) ==
    [a \in Apps |-> IF a \in S /\ HasDescriptor(st, a) /\ CanSuspend(a, force)
                    THEN "destructing" ELSE st[a]]

-----------------------------------------------------------------------------
\* createApp: a running app is returned as it is, a call during creation
\* shares the pending future, a call on a destructing app is rejected.
CreateApp(a) ==
    /\ appStatus[a] \in {"not running", "exited"}
    /\ appStatus' = [appStatus EXCEPT ![a] = IF a \in DbusApps THEN "running"
                                                               ELSE "creating"]
    /\ UNCHANGED restarts

HandleAppCreate(a) ==
    /\ appStatus[a] = "creating"
    /\ appStatus' = [appStatus EXCEPT ![a] = "running"]
    /\ UNCHANGED restarts

\* (slip: every app is restarted)
HandleAppExitRestartsAll(a, coded) ==
    /\ appStatus' = [appStatus EXCEPT ![a] = "exited"]
    /\ restarts' = IF coded THEN restarts \cup {a} ELSE restarts

\* handleAppExit: "coded" is code != null, an exit the process chose; a killed
\* process and a failed start have no code.
HandleAppExit(a, coded) ==
    /\ appStatus' = [appStatus EXCEPT ![a] = "exited"]
    /\ restarts' = IF coded /\ a \in DaemonApps THEN restarts \cup {a}
                                                ELSE restarts

\* The start is rejected: handshake timeout, error report, early exit, a light
\* app that throws.
StartFails(a) == appStatus[a] = "creating" /\ HandleAppExit(a, FALSE)

\* A running process dies by itself or is killed.
ProcessExits(a, coded) ==
    /\ a \in ProcessApps
    /\ appStatus[a] = "running"
    /\ HandleAppExit(a, coded)

\* A destructed process ends: by the kill, or with a code before it.
DestructedExits(a, coded) ==
    /\ appStatus[a] = "destructing"
    /\ HandleAppExit(a, coded)

\* The restart timer fires: createApp, whatever state the app is in by now.
RestartTimer(a) ==
    /\ a \in restarts
    /\ restarts' = restarts \ {a}
    /\ appStatus' = IF appStatus[a] \in {"not running", "exited"}
                    THEN [appStatus EXCEPT ![a] = IF a \in DbusApps THEN "running"
                                                                    ELSE "creating"]
                    ELSE appStatus

SuspendApps(S, force) ==
    /\ appStatus' = Suspended(appStatus, S, force)
    /\ UNCHANGED restarts
=============================================================================
