SPECIFICATION Spec
CONSTANTS
    Apps = {a1, a2, a3}
    LightApps = {}
    DbusApps = {}
    DaemonApps = {}
    Null = Null
    Calls = {1}
    Carriers = {a2}
    KeepAliveApps = {a3}
    ReloadedApps = {a1}
    RecoverOptions = {TRUE, FALSE}
INVARIANT TypeOK
INVARIANT StackRunning
INVARIANT NoStrayForm
INVARIANT OneForeground
INVARIANT SceneBeneathPaused
PROPERTY MonopolyHolds
