-------------------------- MODULE MC_InfoKeyCache --------------------------
(* Model-checking instance of InfoKeyCache: two or three concurrent        *)
(* requests, two kids, a cache lifetime of two ticks and four ticks of     *)
(* time.  The endpoint serves one of four documents: k1 alone, k2 alone    *)
(* (a rotation), both, or k2 as a non-RSA key only, which yields no key.   *)
EXTENDS InfoKeyCache, TLC

CONSTANTS r1, r2, r3, k1, k2

MCReq == {r1, r2}
MCReq3 == {r1, r2, r3}
MCKid == {k1, k2}
MCDocs == { {<<k1, "RSA">>}, {<<k2, "RSA">>}, {<<k1, "RSA">>, <<k2, "RSA">>},
            {<<k2, "EC">>} }
MCDocsLive == { {<<k1, "RSA">>}, {<<k2, "RSA">>} }
MCSymmetry == Permutations(MCReq)
MCSymmetry3 == Permutations(MCReq3)
=============================================================================
