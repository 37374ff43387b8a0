SPECIFICATION Spec
CONSTANTS
    Apps = {a1, a2}
    Nobody = Nobody
    MaxRequests = 3
    MaxSessions = 1
    Controls = {}
    NoReq = NoReq
    NoMemo = NoMemo
INVARIANT TerminatedOneWay
CHECK_DEADLOCK FALSE
