SPECIFICATION Spec
CONSTANTS
    Apps = {a1, a2}
    Nobody = Nobody
    MaxRequests = 2
    MaxSessions = 2
    Controls = {"reset"}
    NoReq = NoReq
    NoMemo = NoMemo
INVARIANT NoOrphanSpeech
CHECK_DEADLOCK FALSE
