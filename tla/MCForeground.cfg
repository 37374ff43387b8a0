SPECIFICATION Spec
CONSTANTS
    Apps = {a1, a2, a3}
    LightApps = {a2}
    DbusApps = {}
    DaemonApps = {a1}
    Null = Null
    Calls = {1}
    Carriers = {}
    KeepAliveApps = {}
    ReloadedApps = {}
    RecoverOptions = {}
INVARIANT ForegroundTold
