-------------------------- MODULE VerifierKeyCache --------------------------
(***************************************************************************)
(* The JWKS key cache of the SASL/PLAIN verifier plugin                    *)
(* (cmd/entra-token-verifier/verifier.go): TokenVerifier.VerifyToken and   *)
(* refreshJWKS, called by concurrent Authenticate requests.  Unlike the    *)
(* token-info cache, the age check reads lastFetch without the lock, the   *)
(* HTTP GET runs without the lock (http.Get, the default client, no        *)
(* timeout), and only the swap of the new map and lastFetch is done under  *)
(* cacheMux.Lock; a key missing from the cache is not refetched; a failed  *)
(* refresh is logged and verification goes on with the cached keys.        *)
(*                                                                         *)
(* Every locked section is one step, so the RWMutex needs no variable of   *)
(* its own.  The racy read of lastFetch (a time.Time written under the     *)
(* lock, read without it) sees the value before or after a concurrent      *)
(* swap: the monotonic reading of a torn read is one of the two.  Both     *)
(* outcomes are interleavings of the one-step read and the one-step swap.  *)
(***************************************************************************)
EXTENDS KeySource

CONSTANTS
    Req      \* concurrent Authenticate requests in JWT mode

ASSUME ReqAssumption == IsFiniteSet(Req)

VARIABLES
    jwksCache,  \* kids of the cached keys (TokenVerifier.jwksCache)
    lastFetch,  \* time of the last swap (TokenVerifier.lastFetch)
    pc,         \* where each request is
    kid,        \* the kid of each request's token header
    fetched,    \* the keys of the document each request's GET returned
    startAt,    \* history: the tick each request started at
    fetchedAt,  \* history: the tick each request's GET returned its document
    cachedAt    \* history: the tick the cached document was returned

cacheVars == <<jwksCache, lastFetch, cachedAt>>
reqVars == <<pc, kid, fetched, startAt, fetchedAt>>
vars == <<ksVars, cacheVars, reqVars>>

Outcomes == {"accepted", "keyNotFound"}
PC == {"idle", "checkAge", "fetching", "swap", "keyfunc"} \cup Outcomes

TypeOK ==
    /\ KSTypeOK
    /\ jwksCache \in SUBSET Kid
    /\ lastFetch \in Time
    /\ pc \in [Req -> PC]
    /\ kid \in [Req -> Kid]
    /\ fetched \in [Req -> SUBSET Kid]
    /\ startAt \in [Req -> 0..MaxTime]
    /\ fetchedAt \in [Req -> 0..MaxTime]
    /\ cachedAt \in 0..MaxTime

(* NewTokenVerifier succeeded: its pre-fetch cached the document served    *)
(* at time 0 (a failed pre-fetch leaves no verifier, see Authenticate).    *)
Init ==
    /\ ksInit
    /\ jwksCache = Usable(published)
    /\ lastFetch = 0
    /\ pc = [r \in Req |-> "idle"]
    /\ kid = [r \in Req |-> CHOOSE k \in Kid : TRUE]
    /\ fetched = [r \in Req |-> {}]
    /\ startAt = [r \in Req |-> 0]
    /\ fetchedAt = [r \in Req |-> 0]
    /\ cachedAt = 0

(* VerifyToken is called with a token whose header names an RSA algorithm *)
(* and kid k.                                                             *)
Start(r, k) ==
    /\ pc[r] = "idle"
    /\ pc' = [pc EXCEPT ![r] = "checkAge"]
    /\ kid' = [kid EXCEPT ![r] = k]
    /\ startAt' = [startAt EXCEPT ![r] = now]
    /\ UNCHANGED <<ksVars, cacheVars, fetched, fetchedAt>>

(* time.Since(v.lastFetch) > CacheExpiration, read without the lock:      *)
(* refresh, else parse the token with the cached keys.                    *)
CheckAge(r) ==
    /\ pc[r] = "checkAge"
    /\ pc' = [pc EXCEPT ![r] = IF now - lastFetch > CacheExpiration
                                 THEN "fetching" ELSE "keyfunc"]
    /\ UNCHANGED <<ksVars, cacheVars, kid, fetched, startAt, fetchedAt>>

(* http.Get returns 200 and a document that decodes: its RSA keys are     *)
(* converted into newCache, still without the lock.                       *)
FetchOk(r) ==
    /\ pc[r] = "fetching"
    /\ fetched' = [fetched EXCEPT ![r] = Usable(published)]
    /\ fetchedAt' = [fetchedAt EXCEPT ![r] = now]
    /\ pc' = [pc EXCEPT ![r] = "swap"]
    /\ UNCHANGED <<ksVars, cacheVars, kid, startAt>>

(* The GET fails, is not 200, or the body does not decode: VerifyToken     *)
(* logs the error and goes on with the cached keys.                       *)
FetchFail(r) ==
    /\ pc[r] = "fetching"
    /\ pc' = [pc EXCEPT ![r] = "keyfunc"]
    /\ UNCHANGED <<ksVars, cacheVars, kid, fetched, startAt, fetchedAt>>

(* Mutant: the new keys are written into the existing map, not a new one. *)
SwapMergesKeys(r) ==
    /\ pc[r] = "swap"
    /\ jwksCache' = jwksCache \cup fetched[r]
    /\ lastFetch' = now
    /\ cachedAt' = fetchedAt[r]
    /\ pc' = [pc EXCEPT ![r] = "keyfunc"]
    /\ UNCHANGED <<ksVars, kid, fetched, startAt, fetchedAt>>

(* Under cacheMux.Lock: jwksCache = newCache, lastFetch = time.Now().      *)
Swap(r) ==
    /\ pc[r] = "swap"
    /\ jwksCache' = fetched[r]
    /\ lastFetch' = now
    /\ cachedAt' = fetchedAt[r]
    /\ pc' = [pc EXCEPT ![r] = "keyfunc"]
    /\ UNCHANGED <<ksVars, kid, fetched, startAt, fetchedAt>>

(* The key function of jwt.Parse, under the read lock: the cached key or   *)
(* "key not found in JWKS"; no refresh on a miss.                         *)
Keyfunc(r) ==
    /\ pc[r] = "keyfunc"
    /\ pc' = [pc EXCEPT ![r] = IF kid[r] \in jwksCache THEN "accepted" ELSE "keyNotFound"]
    /\ UNCHANGED <<ksVars, cacheVars, kid, fetched, startAt, fetchedAt>>

Finish(r) ==
    /\ pc[r] \in Outcomes
    /\ pc' = [pc EXCEPT ![r] = "idle"]
    /\ UNCHANGED <<ksVars, cacheVars, kid, fetched, startAt, fetchedAt>>

ClockTick ==
    /\ Tick
    /\ UNCHANGED <<cacheVars, reqVars>>

KeyRotation(doc) ==
    /\ Rotate(doc)
    /\ UNCHANGED <<cacheVars, reqVars>>

Request(r) ==
    \/ \E k \in Kid : Start(r, k)
    \/ CheckAge(r)
    \/ FetchOk(r)
    \/ FetchFail(r)
    \/ Swap(r)
    \/ Keyfunc(r)
    \/ Finish(r)

Next ==
    \/ \E r \in Req : Request(r)
    \/ ClockTick
    \/ \E doc \in Docs : KeyRotation(doc)

Spec == Init /\ [][Next]_vars

-----------------------------------------------------------------------------
(* PROPERTIES: the token-info cache's revocation promise, what the cache  *)
(* holds, and the spec's stampede guard.                                   *)

(* Revocation: a token is accepted only with a key that the identity      *)
(* provider still published at most CacheExpiration ticks before the      *)
(* request started (spec 4.2: a failed refresh is reported to the caller, *)
(* which rejects).  The window includes its end, as the code's             *)
(* "> CacheExpiration" does: what violates this is not that boundary.     *)
RevokedKeyRejected ==
    \A r \in Req :
        pc[r] = "accepted" => lastPublished[kid[r]] >= startAt[r] - CacheExpiration

(* What the cache does keep: every key in it was still published when the *)
(* GET that returned the cached document ran.  So the verifier's           *)
(* revocation window runs from cachedAt, not from lastFetch: a slow GET    *)
(* swapped in after a newer one (no lock across http.Get, no timeout)      *)
(* stamps lastFetch = now over an older document, and a failed refresh     *)
(* keeps the old one.  A swap that kept the keys it replaces would break  *)
(* it in one request: a rotation withdraws a cached key, then a refresh    *)
(* merges the new document into the cache.  It does not bound how old     *)
(* the cached document is against lastFetch (verifier.go:291).            *)
CachedKeysPublishedAtFetch ==
    \A k \in jwksCache : lastPublished[k] >= cachedAt

(* Spec 5: at most one outbound key-set fetch at a time per verifier.      *)
AtMostOneFetch ==
    Cardinality({r \in Req : pc[r] \in {"fetching", "swap"}}) <= 1

=============================================================================
