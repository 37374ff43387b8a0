SPECIFICATION Spec
CONSTANTS
    Apps = {a1, a2, a3}
    LightApps = {}
    DbusApps = {}
    DaemonApps = {a1}
    Null = Null
    Calls = {1}
    Carriers = {a1}
    KeepAliveApps = {}
    ReloadedApps = {}
    RecoverOptions = {}
PROPERTY CarrierOfPreviousApp
