SPECIFICATION Spec
CONSTANTS
    Apps = {a1, a2}
    Nobody = Nobody
    MaxRequests = 3
    MaxSessions = 1
    Controls = {"voice"}
    NoReq = NoReq
    NoMemo = NoMemo
PROPERTY InterruptedSpeaksOn
CHECK_DEADLOCK FALSE
