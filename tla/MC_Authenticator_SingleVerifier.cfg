CONSTANTS
    r1 = r1
    r2 = r2
    u1 = u1
    u2 = u2
    Req <- MCReq
    Users <- MCUsers
    Vals <- MCVals
    Tables <- MCTables
SYMMETRY MCSymmetry
SPECIFICATION Spec
INVARIANTS
    SingleVerifier
