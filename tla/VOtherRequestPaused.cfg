SPECIFICATION Spec
CONSTANTS
    Apps = {a1, a2}
    Nobody = Nobody
    MaxRequests = 3
    MaxSessions = 1
    Controls = {"voice"}
    NoReq = NoReq
    NoMemo = NoMemo
PROPERTY PausedIsRemembered
CHECK_DEADLOCK FALSE
