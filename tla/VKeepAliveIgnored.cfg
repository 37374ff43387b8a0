SPECIFICATION Spec
CONSTANTS
    Apps = {a1, a2}
    LightApps = {}
    DbusApps = {}
    DaemonApps = {}
    Null = Null
    Calls = {1}
    Carriers = {}
    KeepAliveApps = {a1}
    ReloadedApps = {}
    RecoverOptions = {}
PROPERTY KeepAliveIgnored
