SPECIFICATION LiveSpec
CONSTANTS
    Apps = {a1, a2}
    Nobody = Nobody
    MaxRequests = 3
    MaxSessions = 1
    Controls = {}
    NoReq = NoReq
    NoMemo = NoMemo
PROPERTY Answered
CHECK_DEADLOCK FALSE
