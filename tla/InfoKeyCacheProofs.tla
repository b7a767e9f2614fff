------------------------- MODULE InfoKeyCacheProofs -------------------------
(***************************************************************************)
(* Proofs about the token-info JWKS cache (InfoKeyCache), for every value  *)
(* of the constants: type correctness, and the revocation property         *)
(* RevokedKeyRejected and CachedKeysPublishedAtRefresh from an inductive  *)
(* strengthening, and ValidKeyAccepted from another.                      *)
(***************************************************************************)
EXTENDS InfoKeyCache, KeySourceProofs, TLAPS

(* Init is a type-correct state.                                           *)
LEMMA InitTypeOK == Init => TypeOK
<1> SUFFICES ASSUME Init PROVE TypeOK
    OBVIOUS
<1>1. Usable(published) \subseteq Kid
    BY UsableKids DEF Init, ksInit
<1>2. (CHOOSE k \in Kid : TRUE) \in Kid
    BY KidAssumption
<1>3. 0 \in Time /\ NotYet \in Time
    BY CacheExpirationAssumption, MaxTimeAssumption DEF Time, NotYet
<1>. QED
    BY <1>1, <1>2, <1>3, MaxTimeAssumption
       DEF Init, ksInit, TypeOK, KSTypeOK, PC

(* Every step keeps the state type-correct.                                *)
LEMMA NextTypeOK == TypeOK /\ [Next]_vars => TypeOK'
<1> SUFFICES ASSUME TypeOK, [Next]_vars PROVE TypeOK'
    OBVIOUS
<1>. USE DEF TypeOK, KSTypeOK, ksVars, cacheVars, reqVars
<1>1. ASSUME NEW r \in Req, NEW k \in Kid, Start(r, k) PROVE TypeOK'
    BY <1>1 DEF Start, PC
<1>2. ASSUME NEW r \in Req, GetPublicKey(r) PROVE TypeOK'
    <2>1. CASE kid[r] \in jwksCache /\ now - cacheTime < CacheExpiration
        BY <1>2, <2>1 DEF GetPublicKey, PC, Outcomes
    <2>2. CASE ~(kid[r] \in jwksCache /\ now - cacheTime < CacheExpiration)
        BY <1>2, <2>2 DEF GetPublicKey, PC
    <2>. QED
        BY <2>1, <2>2
<1>3. ASSUME NEW r \in Req, LockForRefresh(r) PROVE TypeOK'
    BY <1>3 DEF LockForRefresh, PC
<1>4. ASSUME NEW r \in Req, FetchFail(r) PROVE TypeOK'
    BY <1>4 DEF FetchFail, PC, Outcomes
<1>5. ASSUME NEW r \in Req, FetchOk(r) PROVE TypeOK'
    <2>1. Usable(published) \subseteq Kid
        BY UsableKids
    <2>2. now \in Time
        BY CacheExpirationAssumption DEF Time, NotYet
    <2>. QED
        BY <1>5, <2>1, <2>2 DEF FetchOk, PC
<1>6. ASSUME NEW r \in Req, Retry(r) PROVE TypeOK'
    BY <1>6 DEF Retry, PC, Outcomes
<1>7. ASSUME NEW r \in Req, Finish(r) PROVE TypeOK'
    BY <1>7 DEF Finish, PC
<1>8. CASE ClockTick
    <2>1. now < MaxTime
        BY <1>8 DEF ClockTick, Tick
    <2>2. now + 1 \in 0..MaxTime /\ now + 1 \in Time
        BY <2>1, CacheExpirationAssumption, MaxTimeAssumption DEF Time, NotYet
    <2>3. lastPublished' \in [Kid -> Time]
        BY <1>8, <2>2 DEF ClockTick, Tick
    <2>. QED
        BY <1>8, <2>2, <2>3 DEF ClockTick, Tick
<1>9. ASSUME NEW doc \in Docs, KeyRotation(doc) PROVE TypeOK'
    <2>1. now \in Time
        BY CacheExpirationAssumption DEF Time, NotYet
    <2>. QED
        BY <1>9, <2>1 DEF KeyRotation, Rotate
<1>10. CASE UNCHANGED vars
    BY <1>10 DEF vars, ksVars, cacheVars, reqVars
<1>. QED
    BY <1>1, <1>2, <1>3, <1>4, <1>5, <1>6, <1>7, <1>8, <1>9, <1>10
       DEF Next, Request

(* Type correctness of the token-info key cache.                           *)
THEOREM TypeCorrect == Spec => []TypeOK
BY InitTypeOK, NextTypeOK, PTL DEF Spec

-----------------------------------------------------------------------------
(***************************************************************************)
(* The inductive invariant behind RevokedKeyRejected.  A usable key's      *)
(* lastPublished is the current tick; every cached key was published at   *)
(* the last refresh or later; a request that re-reads after its refresh    *)
(* sees a cache refreshed no earlier than its start; and requests start    *)
(* no later than now.                                                      *)
(***************************************************************************)
RefreshBeforeNow == cacheTime <= now
StartedBeforeNow == \A r \in Req : startAt[r] <= now
RetrySeesOwnRefresh == \A r \in Req : pc[r] = "retry" => cacheTime >= startAt[r]

IInv ==
    /\ TypeOK
    /\ PublishedNow
    /\ PublishedPast
    /\ CachedKeysPublishedAtRefresh
    /\ RefreshBeforeNow
    /\ StartedBeforeNow
    /\ RetrySeesOwnRefresh
    /\ RevokedKeyRejected

(* Init satisfies the inductive invariant.                                 *)
LEMMA InitIInv == Init => IInv
<1> SUFFICES ASSUME Init PROVE IInv
    OBVIOUS
<1>1. TypeOK
    BY InitTypeOK
<1>2. Usable(published) \subseteq Kid
    BY UsableKids DEF Init, ksInit
<1>3. PublishedNow /\ PublishedPast
    BY <1>2, CacheExpirationAssumption DEF Init, ksInit, PublishedNow, PublishedPast, NotYet
<1>4. CachedKeysPublishedAtRefresh /\ RefreshBeforeNow /\ StartedBeforeNow
    BY CacheExpirationAssumption
       DEF Init, ksInit, CachedKeysPublishedAtRefresh, RefreshBeforeNow, StartedBeforeNow, NotYet
<1>5. RetrySeesOwnRefresh /\ RevokedKeyRejected
    BY DEF Init, RetrySeesOwnRefresh, RevokedKeyRejected
<1>. QED
    BY <1>1, <1>3, <1>4, <1>5 DEF IInv

(* Every step preserves the inductive invariant: one step per action.      *)
LEMMA NextIInv == IInv /\ [Next]_vars => IInv'
<1> SUFFICES ASSUME IInv, [Next]_vars PROVE IInv'
    OBVIOUS
<1>0. TypeOK'
    BY NextTypeOK DEF IInv
<1>. USE CacheExpirationAssumption, MaxTimeAssumption
<1>. USE DEF IInv, TypeOK, KSTypeOK, ksVars, cacheVars, reqVars, Time, NotYet
<1>. USE DEF PublishedNow, PublishedPast, CachedKeysPublishedAtRefresh, RefreshBeforeNow,
             StartedBeforeNow, RetrySeesOwnRefresh, RevokedKeyRejected
<1>1. ASSUME NEW r \in Req, NEW k \in Kid, Start(r, k) PROVE IInv'
    BY <1>0, <1>1 DEF Start
<1>2. ASSUME NEW r \in Req, GetPublicKey(r) PROVE IInv'
    <2>1. CASE kid[r] \in jwksCache /\ now - cacheTime < CacheExpiration
        <3>1. lastPublished[kid[r]] > startAt[r] - CacheExpiration
            BY <2>1
        <3>. QED
            BY <1>0, <1>2, <2>1, <3>1 DEF GetPublicKey
    <2>3. CASE ~(kid[r] \in jwksCache /\ now - cacheTime < CacheExpiration)
        BY <1>0, <1>2, <2>3 DEF GetPublicKey
    <2>. QED
        BY <2>1, <2>3
<1>3. ASSUME NEW r \in Req, LockForRefresh(r) PROVE IInv'
    BY <1>0, <1>3 DEF LockForRefresh
<1>4. ASSUME NEW r \in Req, FetchFail(r) PROVE IInv'
    BY <1>0, <1>4 DEF FetchFail
<1>5. ASSUME NEW r \in Req, FetchOk(r) PROVE IInv'
    <2>1. Usable(published) \subseteq Kid
        BY UsableKids
    <2>2. CachedKeysPublishedAtRefresh' /\ RefreshBeforeNow'
        BY <1>5, <2>1 DEF FetchOk
    <2>3. RetrySeesOwnRefresh'
        BY <1>5 DEF FetchOk
    <2>4. RevokedKeyRejected'
        BY <1>5 DEF FetchOk
    <2>5. PublishedNow' /\ PublishedPast' /\ StartedBeforeNow'
        BY <1>5 DEF FetchOk
    <2>. QED
        BY <1>0, <2>2, <2>3, <2>4, <2>5
<1>6. ASSUME NEW r \in Req, Retry(r) PROVE IInv'
    <2>1. CASE kid[r] \in jwksCache
        <3>1. lastPublished[kid[r]] > startAt[r] - CacheExpiration
            BY <1>6, <2>1 DEF Retry
        <3>. QED
            BY <1>0, <1>6, <2>1, <3>1 DEF Retry
    <2>3. CASE kid[r] \notin jwksCache
        BY <1>0, <1>6, <2>3 DEF Retry
    <2>. QED
        BY <2>1, <2>3
<1>7. ASSUME NEW r \in Req, Finish(r) PROVE IInv'
    BY <1>0, <1>7 DEF Finish
<1>8. CASE ClockTick
    <2>1. KSInv' /\ PublishedMonotone
        BY <1>8, TickKSInv DEF ClockTick, KSInv
    <2>. QED
        BY <1>0, <1>8, <2>1 DEF ClockTick, Tick, KSInv, PublishedMonotone
<1>9. ASSUME NEW doc \in Docs, KeyRotation(doc) PROVE IInv'
    <2>1. KSInv' /\ PublishedMonotone
        BY <1>9, RotateKSInv DEF KeyRotation, KSInv
    <2>. QED
        BY <1>0, <1>9, <2>1 DEF KeyRotation, Rotate, KSInv, PublishedMonotone
<1>10. CASE UNCHANGED vars
    BY <1>10 DEF vars
<1>. QED
    BY <1>1, <1>2, <1>3, <1>4, <1>5, <1>6, <1>7, <1>8, <1>9, <1>10
       DEF Next, Request

(* Revocation, for every value of the constants: the token-info verifier   *)
(* never accepts a token whose key the identity provider had withdrawn     *)
(* CacheExpiration ticks or more before the request started.               *)
THEOREM RevocationSafe == Spec => []RevokedKeyRejected
<1>1. IInv => RevokedKeyRejected
    BY DEF IInv
<1>. QED
    BY InitIInv, NextIInv, <1>1, PTL DEF Spec

(* Cache contents, for every value of the constants: refreshJWKS caches    *)
(* only kids the document it decoded lists as RSA keys, so every cached    *)
(* kid was published at the last successful refresh or later.              *)
THEOREM CacheFreshSinceRefresh == Spec => []CachedKeysPublishedAtRefresh
<1>1. IInv => CachedKeysPublishedAtRefresh
    BY DEF IInv
<1>. QED
    BY InitIInv, NextIInv, <1>1, PTL DEF Spec

-----------------------------------------------------------------------------
(***************************************************************************)
(* The inductive invariant behind ValidKeyAccepted.  A request whose kid   *)
(* has stayed published has it in the document served now; so every       *)
(* successful refresh caches it, and a request re-reading after a refresh *)
(* finds it.                                                               *)
(***************************************************************************)
StableUsable == \A r \in Req : stable[r] => kid[r] \in Usable(published)
RetryFindsStable == \A r \in Req : pc[r] = "retry" /\ stable[r] => kid[r] \in jwksCache

VInv == TypeOK /\ StableUsable /\ RetryFindsStable /\ ValidKeyAccepted

(* Init satisfies it.                                                      *)
LEMMA InitVInv == Init => VInv
BY InitTypeOK DEF Init, VInv, StableUsable, RetryFindsStable, ValidKeyAccepted

(* Every step preserves it: one step per action.                           *)
LEMMA NextVInv == VInv /\ [Next]_vars => VInv'
<1> SUFFICES ASSUME VInv, [Next]_vars PROVE VInv'
    OBVIOUS
<1>0. TypeOK'
    BY NextTypeOK DEF VInv
<1>. USE DEF VInv, TypeOK, KSTypeOK, ksVars, cacheVars, reqVars,
             StableUsable, RetryFindsStable, ValidKeyAccepted
<1>1. ASSUME NEW r \in Req, NEW k \in Kid, Start(r, k) PROVE VInv'
    BY <1>0, <1>1 DEF Start
<1>2. ASSUME NEW r \in Req, GetPublicKey(r) PROVE VInv'
    BY <1>0, <1>2 DEF GetPublicKey
<1>3. ASSUME NEW r \in Req, LockForRefresh(r) PROVE VInv'
    BY <1>0, <1>3 DEF LockForRefresh
<1>4. ASSUME NEW r \in Req, FetchFail(r) PROVE VInv'
    BY <1>0, <1>4 DEF FetchFail
<1>5. ASSUME NEW r \in Req, FetchOk(r) PROVE VInv'
    BY <1>0, <1>5 DEF FetchOk
<1>6. ASSUME NEW r \in Req, Retry(r) PROVE VInv'
    BY <1>0, <1>6 DEF Retry
<1>7. ASSUME NEW r \in Req, Finish(r) PROVE VInv'
    BY <1>0, <1>7 DEF Finish
<1>8. CASE ClockTick
    BY <1>0, <1>8 DEF ClockTick, Tick
<1>9. ASSUME NEW doc \in Docs, KeyRotation(doc) PROVE VInv'
    BY <1>0, <1>9 DEF KeyRotation, Rotate
<1>10. CASE UNCHANGED vars
    BY <1>10 DEF vars
<1>. QED
    BY <1>1, <1>2, <1>3, <1>4, <1>5, <1>6, <1>7, <1>8, <1>9, <1>10
       DEF Next, Request

(* Rotation, for every value of the constants: a token whose key the       *)
(* identity provider publishes throughout the request is never rejected   *)
(* by getPublicKey as "not found".                                         *)
THEOREM RotationSafe == Spec => []ValidKeyAccepted
<1>1. VInv => ValidKeyAccepted
    BY DEF VInv
<1>. QED
    BY InitVInv, NextVInv, <1>1, PTL DEF Spec
=============================================================================
