SPECIFICATION MCSpec
CONSTANTS
    Apps = {a1, a2}
    LightApps = {}
    DbusApps = {}
    DaemonApps = {}
    Null = Null
    Calls = {1, 2}
    Carriers = {}
    KeepAliveApps = {}
    ReloadedApps = {}
    RecoverOptions = {}
INVARIANT LastActivationWins
