CONSTANTS
    r1 = r1
    r2 = r2
    k1 = k1
    k2 = k2
    Req <- MCReq
    Kid <- MCKid
    CacheExpiration = 2
    MaxTime = 3
    Docs <- MCDocs
SYMMETRY MCSymmetry
SPECIFICATION Spec
INVARIANT
    RevokedKeyRejected
