SPECIFICATION Spec
CONSTANTS
    Apps = {a1, a2}
    Nobody = Nobody
    MaxRequests = 3
    MaxSessions = 1
    Controls = {"voice", "os", "reset"}
    NoReq = NoReq
    NoMemo = NoMemo
INVARIANT TypeOK
INVARIANT NoOrphanSpeech
INVARIANT PlayingAgrees
PROPERTY StartFirst
CHECK_DEADLOCK FALSE
