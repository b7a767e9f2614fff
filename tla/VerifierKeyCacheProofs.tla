----------------------- MODULE VerifierKeyCacheProofs -----------------------
(***************************************************************************)
(* Proofs about the SASL verifier's JWKS cache (VerifierKeyCache), for     *)
(* every value of the constants: type correctness, and that every cached  *)
(* key was published when the GET that returned the cached document ran,  *)
(* however the unlocked fetches of concurrent requests interleave.        *)
(***************************************************************************)
EXTENDS VerifierKeyCache, KeySourceProofs, TLAPS

(* The time stamp of the cache is never ahead of the clock.               *)
FetchedBeforeNow == lastFetch <= now

(* Every key a request's GET returned was still published at the tick the  *)
(* GET returned, until the request swaps it in.                            *)
FetchedSinceGet ==
    \A r \in Req : pc[r] = "swap" => \A k \in fetched[r] : lastPublished[k] >= fetchedAt[r]

IInv ==
    /\ TypeOK
    /\ KSInv
    /\ FetchedBeforeNow
    /\ FetchedSinceGet
    /\ CachedKeysPublishedAtFetch

(* Init satisfies the inductive invariant: the pre-fetch of               *)
(* NewTokenVerifier cached the document served at time 0.                  *)
LEMMA InitIInv == Init => IInv
<1> SUFFICES ASSUME Init PROVE IInv
    OBVIOUS
<1>1. KSInv
    BY KSInitInv DEF Init
<1>2. Usable(published) \subseteq Kid
    BY UsableKids DEF Init, ksInit
<1>3. (CHOOSE k \in Kid : TRUE) \in Kid
    BY KidAssumption
<1>4. 0 \in Time
    BY CacheExpirationAssumption, MaxTimeAssumption DEF Time, NotYet
<1>5. CachedKeysPublishedAtFetch
    BY <1>1 DEF Init, KSInv, PublishedNow, ksInit, CachedKeysPublishedAtFetch
<1>6. TypeOK
    <2>1. KSTypeOK
        BY <1>1 DEF KSInv
    <2>2. 0 \in 0..MaxTime
        BY MaxTimeAssumption
    <2>. QED
        BY <1>2, <1>3, <1>4, <2>1, <2>2 DEF Init, TypeOK, PC
<1>7. FetchedBeforeNow /\ FetchedSinceGet
    BY DEF Init, ksInit, FetchedBeforeNow, FetchedSinceGet
<1>. QED
    BY <1>1, <1>5, <1>6, <1>7 DEF IInv

(* Every step preserves the inductive invariant: one step per action.      *)
LEMMA NextIInv == IInv /\ [Next]_vars => IInv'
<1> SUFFICES ASSUME IInv, [Next]_vars PROVE IInv'
    OBVIOUS
<1>. USE DEF IInv, TypeOK, KSInv, FetchedBeforeNow, FetchedSinceGet, CachedKeysPublishedAtFetch,
             ksVars, cacheVars, reqVars
<1>0. UNCHANGED ksVars => KSInv'
    BY DEF KSInv, KSTypeOK, PublishedNow, PublishedPast, Usable
<1>1. ASSUME NEW r \in Req, NEW k \in Kid, Start(r, k) PROVE IInv'
    BY <1>1, <1>0 DEF Start, PC, KSTypeOK
<1>2. ASSUME NEW r \in Req, CheckAge(r) PROVE IInv'
    BY <1>2, <1>0 DEF CheckAge, PC
<1>3. ASSUME NEW r \in Req, FetchOk(r) PROVE IInv'
    <2>1. Usable(published) \subseteq Kid
        BY UsableKids DEF KSInv, KSTypeOK
    <2>2. \A k \in Usable(published) : lastPublished[k] >= now
        BY DEF KSInv, PublishedNow, KSTypeOK, Time, NotYet
    <2>3. KSInv'
        BY <1>3, <1>0 DEF FetchOk
    <2>4. FetchedSinceGet'
        BY <1>3, <2>2 DEF FetchOk, KSTypeOK, KSInv
    <2>. QED
        BY <1>3, <2>1, <2>3, <2>4 DEF FetchOk, PC, KSInv, KSTypeOK
<1>4. ASSUME NEW r \in Req, FetchFail(r) PROVE IInv'
    BY <1>4, <1>0 DEF FetchFail, PC
<1>5. ASSUME NEW r \in Req, Swap(r) PROVE IInv'
    <2>1. now \in Time
        BY CacheExpirationAssumption DEF KSInv, KSTypeOK, Time, NotYet
    <2>2. CachedKeysPublishedAtFetch'
        BY <1>5 DEF Swap
    <2>3. KSInv'
        BY <1>5, <1>0 DEF Swap
    <2>. QED
        BY <1>5, <2>1, <2>2, <2>3 DEF Swap, PC, KSInv, KSTypeOK
<1>6. ASSUME NEW r \in Req, Keyfunc(r) PROVE IInv'
    BY <1>6, <1>0 DEF Keyfunc, PC, Outcomes
<1>7. ASSUME NEW r \in Req, Finish(r) PROVE IInv'
    BY <1>7, <1>0 DEF Finish, PC
<1>8. CASE ClockTick
    <2>1. KSInv' /\ PublishedMonotone
        BY <1>8, TickKSInv DEF ClockTick
    <2>2. now < MaxTime /\ now' = now + 1
        BY <1>8 DEF ClockTick, Tick
    <2>3. lastFetch' <= now'
        BY <1>8, <2>2 DEF ClockTick, KSInv, KSTypeOK, Time, NotYet
    <2>4. \A k \in Kid : lastPublished[k] \in Int /\ lastPublished'[k] \in Int
        BY <2>1 DEF KSInv, KSTypeOK, Time, NotYet
    <2>5. jwksCache \subseteq Kid /\ \A r \in Req : fetched[r] \subseteq Kid
        OBVIOUS
    <2>. QED
        BY <1>8, <2>1, <2>3, <2>4, <2>5 DEF ClockTick, PublishedMonotone
<1>9. ASSUME NEW doc \in Docs, KeyRotation(doc) PROVE IInv'
    <2>1. KSInv' /\ PublishedMonotone
        BY <1>9, RotateKSInv DEF KeyRotation
    <2>2. \A k \in Kid : lastPublished[k] \in Int /\ lastPublished'[k] \in Int
        BY <2>1 DEF KSInv, KSTypeOK, Time, NotYet
    <2>3. jwksCache \subseteq Kid /\ \A r \in Req : fetched[r] \subseteq Kid
        OBVIOUS
    <2>. QED
        BY <1>9, <2>1, <2>2, <2>3 DEF KeyRotation, Rotate, PublishedMonotone
<1>10. CASE UNCHANGED vars
    BY <1>10, <1>0 DEF vars
<1>. QED
    BY <1>1, <1>2, <1>3, <1>4, <1>5, <1>6, <1>7, <1>8, <1>9, <1>10
       DEF Next, Request

(* The SASL verifier's cache is type-correct for every set of requests,    *)
(* kids and documents and every cache lifetime.                            *)
THEOREM TypeCorrect == Spec => []TypeOK
<1>1. IInv => TypeOK
    BY DEF IInv
<1>. QED
    BY InitIInv, NextIInv, <1>1, PTL DEF Spec

(* The verifier's real revocation bound, for every value of the           *)
(* constants: every cached key was still published when the GET that       *)
(* returned the cached document ran, however requests' unlocked fetches   *)
(* and swaps interleave with rotations.  It needs FetchedSinceGet: the     *)
(* keys a request holds between its GET and its swap were published at     *)
(* the GET, and a kid's last publication only moves forward.              *)
THEOREM CacheRevocationBound == Spec => []CachedKeysPublishedAtFetch
<1>1. IInv => CachedKeysPublishedAtFetch
    BY DEF IInv
<1>. QED
    BY InitIInv, NextIInv, <1>1, PTL DEF Spec
=============================================================================
