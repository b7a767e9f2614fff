CONSTANTS
    r1 = r1
    r2 = r2
    r3 = r3
    k1 = k1
    k2 = k2
    NoReq = NoReq
    Req <- MCReq
    Kid <- MCKid
    CacheExpiration = 2
    MaxTime = 1
    Docs <- MCDocsLive
SPECIFICATION LiveSpec
PROPERTIES
    RequestsComplete
