---------------------------- MODULE InfoKeyCache ----------------------------
(***************************************************************************)
(* The JWKS key cache of the OAUTHBEARER token-info plugin                 *)
(* (cmd/entra-token-info/main.go): TokenVerifier.getPublicKey and          *)
(* refreshJWKS, called from the key function of VerifyToken by any number  *)
(* of concurrent requests.  The cache and its timestamp are guarded by     *)
(* cacheMutex, a sync.RWMutex: lookups take the read lock, a refresh holds *)
(* the write lock for the whole HTTP fetch.                                *)
(*                                                                         *)
(* A read-locked section (RLock ... RUnlock) writes nothing shared and is  *)
(* one step; the write-locked refresh is two steps, the lock acquisition   *)
(* and the fetch's outcome, because the fetch blocks while the lock is     *)
(* held.  The token's signature and claims checks are not part of this    *)
(* module: a request is accepted here when its key is resolved.           *)
(***************************************************************************)
EXTENDS KeySource

CONSTANTS
    Req,     \* concurrent verification requests (goroutines of the host)
    NoReq    \* no request holds the write lock

ASSUME ReqAssumption == IsFiniteSet(Req) /\ NoReq \notin Req

VARIABLES
    jwksCache,  \* kids of the cached keys (TokenVerifier.jwksCache)
    cacheTime,  \* time of the last successful refresh (TokenVerifier.cacheTime)
    writer,     \* the request holding cacheMutex for writing, or NoReq
    pc,         \* where each request is
    kid,        \* the kid of each request's token header
    startAt,    \* history: the tick each request started at
    stable,     \* history: its kid has been usable at every instant of it
    refreshed   \* history: a refresh succeeded since its last cache miss

cacheVars == <<jwksCache, cacheTime, writer>>
reqVars == <<pc, kid, startAt, stable, refreshed>>
vars == <<ksVars, cacheVars, reqVars>>

(* Outcomes of getPublicKey, as the key function reports them.            *)
Outcomes == {"accepted", "keyNotFound", "fetchFailed"}
PC == {"idle", "getPublicKey", "refreshJWKS", "fetching", "retry"} \cup Outcomes

InFlight == {r \in Req : pc[r] \notin {"idle"} \cup Outcomes}

TypeOK ==
    /\ KSTypeOK
    /\ jwksCache \in SUBSET Kid
    /\ cacheTime \in Time
    /\ writer \in Req \cup {NoReq}
    /\ pc \in [Req -> PC]
    /\ kid \in [Req -> Kid]
    /\ startAt \in [Req -> 0..MaxTime]
    /\ stable \in [Req -> BOOLEAN]
    /\ refreshed \in [Req -> BOOLEAN]

(* NewTokenVerifier: an empty cache and a zero cacheTime, no prefetch.    *)
Init ==
    /\ ksInit
    /\ jwksCache = {}
    /\ cacheTime = NotYet
    /\ writer = NoReq
    /\ pc = [r \in Req |-> "idle"]
    /\ kid = [r \in Req |-> CHOOSE k \in Kid : TRUE]
    /\ startAt = [r \in Req |-> 0]
    /\ stable = [r \in Req |-> FALSE]
    /\ refreshed = [r \in Req |-> FALSE]

(* VerifyToken is called with a token whose header names an RSA algorithm *)
(* and kid k; jwt.Parse calls the key function, which calls getPublicKey.  *)
Start(r, k) ==
    /\ pc[r] = "idle"
    /\ pc' = [pc EXCEPT ![r] = "getPublicKey"]
    /\ kid' = [kid EXCEPT ![r] = k]
    /\ startAt' = [startAt EXCEPT ![r] = now]
    /\ stable' = [stable EXCEPT ![r] = k \in Usable(published)]
    /\ UNCHANGED <<ksVars, cacheVars, refreshed>>

(* Mutant: the cache lifetime compared with <= instead of <.              *)
GetPublicKeyNonStrict(r) ==
    /\ pc[r] = "getPublicKey"
    /\ writer = NoReq
    /\ IF kid[r] \in jwksCache /\ now - cacheTime <= CacheExpiration
         THEN /\ pc' = [pc EXCEPT ![r] = "accepted"]
              /\ UNCHANGED refreshed
         ELSE /\ pc' = [pc EXCEPT ![r] = "refreshJWKS"]
              /\ refreshed' = [refreshed EXCEPT ![r] = FALSE]
    /\ UNCHANGED <<ksVars, cacheVars, kid, startAt, stable>>

(* Mutant: a miss is reported at once; only an expired hit refreshes.     *)
GetPublicKeyNoRefreshOnMiss(r) ==
    /\ pc[r] = "getPublicKey"
    /\ writer = NoReq
    /\ CASE kid[r] \in jwksCache /\ now - cacheTime < CacheExpiration ->
              /\ pc' = [pc EXCEPT ![r] = "accepted"]
              /\ UNCHANGED refreshed
         [] kid[r] \notin jwksCache ->
              /\ pc' = [pc EXCEPT ![r] = "keyNotFound"]
              /\ UNCHANGED refreshed
         [] OTHER ->
              /\ pc' = [pc EXCEPT ![r] = "refreshJWKS"]
              /\ refreshed' = [refreshed EXCEPT ![r] = FALSE]
    /\ UNCHANGED <<ksVars, cacheVars, kid, startAt, stable>>

(* Under the read lock: a cached key is returned while                    *)
(* time.Since(cacheTime) < CacheExpiration; otherwise, absent or expired,  *)
(* the request goes on to refresh.                                         *)
GetPublicKey(r) ==
    /\ pc[r] = "getPublicKey"
    /\ writer = NoReq
    /\ IF kid[r] \in jwksCache /\ now - cacheTime < CacheExpiration
         THEN /\ pc' = [pc EXCEPT ![r] = "accepted"]
              /\ UNCHANGED refreshed
         ELSE /\ pc' = [pc EXCEPT ![r] = "refreshJWKS"]
              /\ refreshed' = [refreshed EXCEPT ![r] = FALSE]
    /\ UNCHANGED <<ksVars, cacheVars, kid, startAt, stable>>

(* refreshJWKS: cacheMutex.Lock(), held until the function returns.        *)
LockForRefresh(r) ==
    /\ pc[r] = "refreshJWKS"
    /\ writer = NoReq
    /\ writer' = r
    /\ pc' = [pc EXCEPT ![r] = "fetching"]
    /\ UNCHANGED <<ksVars, jwksCache, cacheTime, kid, startAt, stable, refreshed>>

(* Mutant: the error path returns without releasing the write lock.       *)
FetchFailKeepsLock(r) ==
    /\ pc[r] = "fetching"
    /\ pc' = [pc EXCEPT ![r] = "fetchFailed"]
    /\ UNCHANGED <<ksVars, cacheVars, kid, startAt, stable, refreshed>>

(* The GET fails, times out, is not 200, or its body does not parse: the   *)
(* cache is left alone, the lock released, and getPublicKey returns the    *)
(* error.                                                                  *)
FetchFail(r) ==
    /\ pc[r] = "fetching"
    /\ writer' = NoReq
    /\ pc' = [pc EXCEPT ![r] = "fetchFailed"]
    /\ UNCHANGED <<ksVars, jwksCache, cacheTime, kid, startAt, stable, refreshed>>

(* Mutant: the kty == "RSA" filter of the decoding loop dropped, so a kid *)
(* the document lists only under another key type is cached too.          *)
FetchOkNoRSAFilter(r) ==
    /\ pc[r] = "fetching"
    /\ jwksCache' = {e[1] : e \in published}
    /\ cacheTime' = now
    /\ writer' = NoReq
    /\ pc' = [pc EXCEPT ![r] = "retry"]
    /\ refreshed' = [s \in Req |-> IF s \in InFlight THEN TRUE ELSE refreshed[s]]
    /\ UNCHANGED <<ksVars, kid, startAt, stable>>

(* The document served now is decoded: the old cache is cleared, its RSA   *)
(* keys are cached, cacheTime is set, and the lock released.               *)
FetchOk(r) ==
    /\ pc[r] = "fetching"
    /\ jwksCache' = Usable(published)
    /\ cacheTime' = now
    /\ writer' = NoReq
    /\ pc' = [pc EXCEPT ![r] = "retry"]
    /\ refreshed' = [s \in Req |-> IF s \in InFlight THEN TRUE ELSE refreshed[s]]
    /\ UNCHANGED <<ksVars, kid, startAt, stable>>

(* After a successful refresh, under the read lock: the key or "not found".*)
Retry(r) ==
    /\ pc[r] = "retry"
    /\ writer = NoReq
    /\ pc' = [pc EXCEPT ![r] = IF kid[r] \in jwksCache THEN "accepted" ELSE "keyNotFound"]
    /\ UNCHANGED <<ksVars, cacheVars, kid, startAt, stable, refreshed>>

(* The result is handed back to the host; the goroutine is free again.     *)
Finish(r) ==
    /\ pc[r] \in Outcomes
    /\ pc' = [pc EXCEPT ![r] = "idle"]
    /\ UNCHANGED <<ksVars, cacheVars, kid, startAt, stable, refreshed>>

(* The environment's steps leave the cache alone; a rotation ends the     *)
(* stability of every request whose kid it withdraws.                      *)
ClockTick ==
    /\ Tick
    /\ UNCHANGED <<cacheVars, reqVars>>

KeyRotation(doc) ==
    /\ Rotate(doc)
    /\ stable' = [r \in Req |-> stable[r] /\ kid[r] \in Usable(doc)]
    /\ UNCHANGED <<cacheVars, pc, kid, startAt, refreshed>>

Request(r) ==
    \/ \E k \in Kid : Start(r, k)
    \/ GetPublicKey(r)
    \/ LockForRefresh(r)
    \/ FetchFail(r)
    \/ FetchOk(r)
    \/ Retry(r)
    \/ Finish(r)

Next ==
    \/ \E r \in Req : Request(r)
    \/ ClockTick
    \/ \E doc \in Docs : KeyRotation(doc)

(* Goroutines are scheduled fairly; sync.RWMutex grants a waiting locker   *)
(* the lock eventually (starvation mode), so lock acquisitions, which are  *)
(* only intermittently enabled, are strongly fair; the fetch ends within   *)
(* the http.Client's 10 s Timeout, either way.  Arrivals, the clock and    *)
(* the identity provider get no fairness.                                  *)
Fairness ==
    \A r \in Req :
        /\ SF_vars(GetPublicKey(r))
        /\ SF_vars(LockForRefresh(r))
        /\ WF_vars(FetchFail(r) \/ FetchOk(r))
        /\ SF_vars(Retry(r))

Spec == Init /\ [][Next]_vars
LiveSpec == Spec /\ Fairness

-----------------------------------------------------------------------------
(* PROPERTIES *)

(* Cache contents: every kid in jwksCache is one the identity provider     *)
(* published as an RSA key at the last successful refresh or later.  The   *)
(* cache holds only what the refresh decoded, and a lookup that trusts     *)
(* cacheTime trusts every key in it; a refresh that kept keys of the old   *)
(* cache, or cached kids of non-RSA entries, would break it.               *)
CachedKeysPublishedAtRefresh ==
    \A k \in jwksCache : lastPublished[k] >= cacheTime

(* Revocation: a token is accepted only with a key that the identity      *)
(* provider still published less than CacheExpiration ticks before the     *)
(* request started.  It rests on the strict cacheTime comparison in        *)
(* getPublicKey and on the re-read after a refresh seeing only a document  *)
(* fetched during the request.                                             *)
RevokedKeyRejected ==
    \A r \in Req :
        pc[r] = "accepted" => lastPublished[kid[r]] > startAt[r] - CacheExpiration

(* Rotation: a token whose key the identity provider publishes throughout  *)
(* the request is never rejected as "not found": a miss triggers a refresh *)
(* and the re-read sees a document fetched after the miss.  Only a failed  *)
(* fetch of the request's own may reject it.                               *)
ValidKeyAccepted ==
    \A r \in Req : pc[r] = "keyNotFound" => ~stable[r]

(* Spec section 8: concurrent requests sharing one expired cache trigger   *)
(* exactly one outbound fetch: no request fetches after a refresh that     *)
(* succeeded since its own cache miss.                                     *)
NoRedundantFetch ==
    \A r \in Req : pc[r] = "fetching" => ~refreshed[r]

(* Every request that reaches getPublicKey returns: the locks are always   *)
(* released and the fetch is bounded by the client timeout.                *)
RequestsComplete ==
    \A r \in Req : (pc[r] = "getPublicKey") ~> (pc[r] \in Outcomes)

=============================================================================
