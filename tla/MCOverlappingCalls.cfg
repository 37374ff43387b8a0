SPECIFICATION Spec
CONSTANTS
    Apps = {a1, a2}
    LightApps = {}
    DbusApps = {}
    DaemonApps = {a2}
    Null = Null
    Calls = {1, 2}
    Carriers = {}
    KeepAliveApps = {a1}
    ReloadedApps = {}
    RecoverOptions = {}
INVARIANT SlotsAgreeWithForms
INVARIANT StackNotBackground
INVARIANT StackHasProcesses
PROPERTY ImplementsAppStack
PROPERTY MonopolyRevoked
