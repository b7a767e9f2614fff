------------------------ MODULE MC_VerifierKeyCache ------------------------
(* Model-checking instance of VerifierKeyCache: two concurrent requests,   *)
(* two kids, a cache lifetime of two ticks and four ticks of time, and the *)
(* documents of MC_InfoKeyCache.                                           *)
EXTENDS VerifierKeyCache, TLC

CONSTANTS r1, r2, k1, k2

MCReq == {r1, r2}
MCKid == {k1, k2}
MCDocs == { {<<k1, "RSA">>}, {<<k2, "RSA">>}, {<<k1, "RSA">>, <<k2, "RSA">>},
            {<<k2, "EC">>} }
MCSymmetry == Permutations(MCReq)
=============================================================================
