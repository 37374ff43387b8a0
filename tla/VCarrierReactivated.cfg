SPECIFICATION Spec
CONSTANTS
    Apps = {a1, a2}
    LightApps = {}
    DbusApps = {}
    DaemonApps = {}
    Null = Null
    Calls = {1}
    Carriers = {a1}
    KeepAliveApps = {}
    ReloadedApps = {}
    RecoverOptions = {}
PROPERTY CarrierReactivated
