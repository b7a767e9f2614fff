# TLA+ models of the Kafka proxy authentication plugins

The Go code is in `src/plugins/kafka-proxy-auth/cmd/`. It has three plugins for kafka-proxy:

- `entra-token-info/main.go` is the **token-info** plugin (OAUTHBEARER). `EntraTokenInfo.VerifyToken` maps errors to status codes. The `TokenVerifier` it uses has a JWKS key cache: `getPublicKey` and `refreshJWKS` under one `sync.RWMutex`.
- `entra-token-verifier/` is the **SASL verifier** plugin (PLAIN). In `main.go`:
  - `EntraTokenVerifierFactory.Authenticate` creates an `EntraTokenVerifier` on first use.
  - `EntraTokenVerifier.Authenticate` sends a JWT-shaped password to a `TokenVerifier` (in `verifier.go`), which it also creates on first use. Any other password goes to the static user table.
  - The `TokenVerifier` refreshes its own key cache when the cache is older than the cache lifetime. Then it checks the issuer, the audiences and the scopes.
- `entra-token-provider/` is the **token provider**: one client-credentials POST per call.

The host calls every plugin from many goroutines at once. The shared state is:

- each key cache and its timestamp;
- the two lazily initialised pointer fields of the SASL verifier.

The identity provider changes in the background: it rotates keys, and its endpoint can fail.

## Modules

| Module | Models | Code |
|---|---|---|
| `KeySource` | The identity provider's key document, its rotation, and the clock in ticks. `Usable` is the RSA/kid filter that both `refreshJWKS` apply. | both `refreshJWKS` |
| `InfoKeyCache` | The token-info key cache. Actions: `Start` (the key function is called), `GetPublicKey` (the read-locked lookup), `LockForRefresh`, `FetchFail`/`FetchOk` (the whole write-locked `refreshJWKS`, including clearing and refilling the cache and setting `cacheTime`), `Retry` (the read-locked re-read), `Finish`. | `main.go` 112-292 |
| `VerifierKeyCache` | The SASL verifier's key cache. Actions: `CheckAge` (the unlocked read of `lastFetch`), `FetchOk`/`FetchFail` (the unlocked `http.Get` and decode), `Swap` (the locked store of the map and `lastFetch`), `Keyfunc` (the read-locked lookup, with no refresh on a miss). | `verifier.go` 56-128, 258-294 |
| `Policy` | The issuer, audience and scope checks of both verifiers as operators on strings, each beside the spec's definition. | `verifier.go` 150-186, 240-249, 336-369; info `main.go` 159-168, 324-351 |
| `Exponent` | RSA exponent decoding in both `jwkToRSAPublicKey`, with Go's `int` width as a constant. | `verifier.go` 301-334; info `main.go` 296-322 |
| `InfoStatus` | How `EntraTokenInfo.VerifyToken` maps errors to status codes (the `strings.Contains` cascade), for each stage where `TokenVerifier.VerifyToken` can fail. | info `main.go` 24-88 |
| `Authenticator` | Both lazy initialisations of the SASL verifier, as separate read, construct and write steps with no lock. Also the JWT/static dispatch and the static-table check. | verifier `main.go` 42-168, 302-316 |
| `SASLAuthenticator` | The contract of the SASL entry point (spec 4.4, `authenticate(username, secret)`). A call ends in one step. In JWT mode the verdict is the verifier's. In static-credential mode the call is accepted exactly when a non-empty table holds the pair. `Authenticator` implements it through `SASLPC`: every step between the factory's call and the verdict maps to "busy". The authenticator and verifier fields are hidden. | (abstract) |
| `MC_*` | Model values and bounds for TLC. | |
| `InfoKeyCacheProofs`, `VerifierKeyCacheProofs`, `AuthenticatorProofs`, `PolicyProofs`, `ExponentProofs` | TLAPS proofs. | |
| `KeySourceProofs` | Lemmas about `KeySource` that both key-cache proofs cite. | |
| `PrefixInduction` | The induction lemma `PrefixInduct` over the prefixes of a sequence, which the `Policy` and `Exponent` proofs use. | |

### How the key-cache models abstract the code

- **Locks.** A locked section that writes nothing shared (RLock … RUnlock) is one step. The token-info refresh holds the write lock across the HTTP fetch, so it is two steps: `LockForRefresh` takes the lock, and the fetch's outcome releases it. While `writer # NoReq` no reader can get in.
- **Racy reads.** The verifier reads `lastFetch` with no lock. The read sees either the value before a concurrent swap or the value after it. The interleavings of the one-step read and the one-step swap give both.
- **Keys and time.** Keys are kids. Time is a tick counter bounded by `MaxTime`. Go's zero `time.Time` is `NotYet`, far enough in the past that the first lookup misses.
- **History variables.** These record what the properties compare against:
  - `lastPublished[k]`: the last tick at which the provider served `k`;
  - `startAt`: the tick at which each request started;
  - `stable` (token-info only): whether the request's kid has been published throughout the request;
  - `refreshed`: whether a refresh succeeded since the request's own miss;
  - `fetchedAt` and `cachedAt` (verifier only): the tick at which a request's GET returned its document, and the tick at which the GET of the cached document returned. `Swap` copies the first into the second. `lastFetch` is the swap's own `time.Now()`, which can be later.
- **Outcome.** A request is "accepted" here when its key is resolved. The signature check belongs to golang-jwt.

### The pure modules

The pure modules use a harness: each input is an initial state of its own, and `Next` keeps it. TLC then evaluates the properties on every input.

- **Strings** are sequences of symbols. `ApiScheme` stands for "api://". `NotString` stands for an absent claim or one that is not a string.
- **Loops over slices and byte strings** are recursive functions over the prefix length: `AudiencePrefixes`, `FieldsScan`, `BigEndianPrefixes` and `InfoPrefixes`. Entry `i` is the loop's state after `i` iterations, and the result is the entry at the full length. The form keeps these modules free of `RECURSIVE` operators, so theorems can reach them.
- **Exponent widths** are scaled to fit TLC's integers: `ByteBits = 2`, `IntBits = 16`. This keeps Go's ratio of eight bytes to an `int`, so the wrap happens at the same byte count as in Go.

## Runs

| Run (cfg) | Expect | What it shows |
|---|---|---|
| `MC_InfoKeyCache.cfg` | pass | With 2 requests, 2 kids, four documents (k1, k2, both, k2 as a non-RSA key only), cache lifetime 2 and 4 ticks: every cached kid was published as an RSA key at the last refresh or later (`CachedKeysPublishedAtRefresh`; a refresh that dropped the `kty == "RSA"` filter of main.go 273 breaks it), no accepted key was withdrawn `CacheExpiration` or more before the request (`RevokedKeyRejected`), and a key published throughout a request is never "not found" (`ValidKeyAccepted`). About 1.8M states, 20 s. |
| `MC_InfoKeyCache_live.cfg` | pass | Under the fairness below, every lookup returns (`RequestsComplete`). |
| `MC_InfoKeyCache_stampede.cfg` | violation | `NoRedundantFetch`: two misses fetch twice, one after the other. |
| `MC_VerifierKeyCache.cfg` | pass | Every cached key was still published when the GET of the cached document returned (`CachedKeysPublishedAtFetch`). So the verifier's revocation window starts at `cachedAt`. A slow GET that is swapped in after a newer one makes `cachedAt` older than `lastFetch` (verifier.go 291), and a failed refresh keeps the old document; no passing property rules that out, because the code allows it. |
| `MC_VerifierKeyCache_RevokedKeyRejected.cfg` | violation | After a failed refresh the verifier accepts a key withdrawn long ago. |
| `MC_VerifierKeyCache_AtMostOneFetch.cfg` | violation | Two requests fetch at the same time. |
| `MC_Policy.cfg` | pass | For issuers up to 3 characters, audiences up to 2 symbols (strings and arrays of up to 2), scopes up to 4 characters and required sets up to 2 words: the SASL verifier's audience and scope checks equal the spec's. Its issuer check is not compared: on a non-empty list it is the spec's definition itself. |
| `MC_Policy_InfoPolicy.cfg` | violation | `InfoPolicyMatchesSpec`: token-info does not ignore a trailing slash on issuers. It misses "api://"+id, and any audience-array match that is not first. |
| `MC_Exponent.cfg` | pass | Every byte string of length 0..9 over {0,1,3}: both decoders are exact whenever the value fits a non-negative `int`. |
| `MC_Authenticator.cfg` | pass | With 2 concurrent calls, 2 users and three tables: `VerifyToken` is never reached through a nil verifier, and an accepted call was accepted by the mode its password's shape selects. The entry point implements the spec 4.4 contract (`ImplementsSASL`). |
| `MC_Authenticator_SingleVerifier.cfg` | violation | Two concurrent first JWT calls on one authenticator both see a nil verifier and create two TokenVerifiers. |
| `InfoStatus_StatusMatchesSpec.cfg` | violation | A bad algorithm, a missing kid or an unknown key is reported as an internal error, and the text a message echoes (the kid, the token's iss or aud, a fetch error) can change the status. |

The findings in `PROJECT.json` explain each violation with its source line.

Three more disagreements with the spec came up while modelling. Each is easy to show with a unit test, so none has a run of its own:

- **Rotation (verifier.go 110-121).** The SASL verifier never refreshes on a missing kid. A rotated-in key is rejected until the cache lifetime runs out. Spec 4.3 says RESOLVE_KEY refreshes on a miss.
- **Empty issuer list (verifier.go 337-345).** The list is empty when main is given neither `--tenant-id` nor `--allowed-issuer` (main.go 211-216). Then the verifier rejects every token, but spec 4.3 says an empty list accepts any issuer. On a non-empty list the code's comparison is the spec's definition, so no property compares the two.
- **Exponent width.** An exponent of more than eight bytes, or of eight bytes with the top bit set, is truncated by `big.Int.Int64` (verifier.go 324) or wraps in `int` (info main.go 315). Spec 4.1 says the exponent has arbitrary length. `DecodersExactWhenFits` checks that decoding is exact below that bound.

### Why the bounds are enough

- **Two requests** are enough for every race in the caches and the lazy initialisations, because each of these races is between two goroutines.
- **Two kids and four documents** (k1, k2, both, and k2 as a non-RSA key only) cover rotation in and out, a key kept across a rotation, and a kid listed under another key type.
- **A cache lifetime of 2 with 3-4 ticks** lets a cache expire and be refilled within one run, and puts a request on the lifetime boundary.
- **The `Policy` bounds** reach every trailing-slash, empty-string and api:// case, and a word that is a substring of another.
- **Nine exponent bytes** cross the eight-byte wrap.

Every pass run has at least one mutant in `PROJECT.json`. A mutant is a plausible bug in a mapped definition, and TLC finds it violating the property.

### Fairness

`InfoKeyCache!Fairness` assumes the following:

- **Weak fairness of the fetch's outcome.** The `http.Client` has a 10 s `Timeout` (main.go 228-229).
- **Strong fairness of the lock acquisitions and the read-locked steps.** Go's `RWMutex` grants waiters in turn: it goes into starvation mode, and a pending writer blocks new readers. These steps are enabled only now and then.

Arrivals, the clock and rotations get no fairness.

The verifier's fetch uses `http.Get` with no timeout (verifier.go 259). So there is no liveness run for it: completion would fail by construction.

## Proofs (TLAPS)

Every theorem below is proved for all values of the constants. Each one but the two key caches' `TypeCorrect` states a property that a pass run also checks on its small instance. The lemmas listed under `KeySourceProofs` and `PrefixInduction` are what several of these proofs rest on.

`InfoKeyCacheProofs`:

- `TypeCorrect` proves `Spec => []TypeOK`.
- `RevocationSafe` proves `Spec => []RevokedKeyRejected` for every `Req`, `Kid`, `Docs`, `CacheExpiration` and `MaxTime`.
  - `IInv` adds the clock facts `PublishedNow`, `PublishedPast`, `RefreshBeforeNow` and `StartedBeforeNow`.
  - It adds `CachedKeysPublishedAtRefresh`: every cached key was still published at `cacheTime`.
  - It adds `RetrySeesOwnRefresh`: a request at `Retry` finds `cacheTime` no earlier than its start.
  - The property is not inductive alone. A `GetPublicKey` hit must know the cached key's age, which the strict `<` and `CachedKeysPublishedAtRefresh` give. A `Retry` must know the refresh happened after the request began.
- `CacheFreshSinceRefresh` proves `Spec => []CachedKeysPublishedAtRefresh`, from the same `IInv`. `FetchOk` replaces the cache by the current document's RSA kids, which `PublishedNow` says were last published now, and `PublishedMonotone` keeps that as ticks and rotations go by.
- `RotationSafe` proves `Spec => []ValidKeyAccepted`.
  - `VInv` adds `StableUsable`: a request whose kid stayed published has it in the current document.
  - It adds `RetryFindsStable`: such a request, at `Retry`, finds the kid in the cache. This holds because every successful refresh caches the current document.

`VerifierKeyCacheProofs`:

- `TypeCorrect` proves `Spec => []TypeOK`.
- `CacheRevocationBound` proves `Spec => []CachedKeysPublishedAtFetch`.
  - `IInv` adds `FetchedSinceGet`: between a request's GET and its swap, every key it holds was published at `fetchedAt`. A GET returns the document served now, and every kid served now was last published now (`PublishedNow`).
  - It also uses `PublishedMonotone` (from `KeySourceProofs`): a tick or a rotation never moves a kid's last publication back. So a key that was published at the fetch stays so.

`AuthenticatorProofs`:

- `TypeCorrect` proves `Spec => []TypeOK`.
- `VerifierNeverNil` proves `Spec => []NoNilVerifier` for any finite number of calls.
  - `IInv` adds `AuthCount`: `authField = nAuth`, and `nAuth` plus the number of calls about to create an authenticator is at most `NReq`. So ids stay in `1..NReq`.
  - `IInv` also adds `DelegateHasAuth`.
  - The key step is that a verifier field is only ever written with `inits + 1 # 0`.
  - `FactoryCreate` needs `FS_RemoveElement` to show the count of creating calls drops by one.
- `ModeSafe` proves `Spec => []AcceptedByItsMode`.
  - `MInv` adds `JWTPath`: calls on the JWT path hold a JWT-shaped password.
  - It adds `StaticPath`: calls on the static path do not.
  - These hold because `Delegate` routes by `IsJWT` and no later step changes the call's password.
- `Refinement` proves `Spec => ImplementsSASL`, which is `SASLAuthenticator!Spec` under `SASLPC`.
  - `StaticCheck` is `DecideStatic`, whose guard comes from `StaticPath`.
  - `Verify` is `DecideJWT(r, ok)`, and `InitFail` is `DecideJWT(r, FALSE)`. Their guard comes from `JWTPath`.
  - `UnverifiedWhileBusy` states that a call in progress has `verified` FALSE, so a rejection changes `verified` exactly as the contract's does.
  - The factory check, the creation of the authenticator, the delegation, the verifier check and `InitOk` are stutters (lemma `InnerCallStep`).

`KeySourceProofs`:

- `UsableKids`: a served document yields kids.
- `KSInitInv`, `TickKSInv` and `RotateKSInv`: the kids served now were last published now, and no kid was last published in the future (`KSInv`). A tick or a rotation keeps `KSInv` and never moves a kid's last publication back. `InfoKeyCacheProofs` and `VerifierKeyCacheProofs` both cite these lemmas.

`PolicyProofs`:

- `TypeCorrect` proves `Spec => []TypeOK` of `Policy`.
- `AudienceMatchesSpec` proves `Spec => []VerifierAudienceMatchesSpec` for claims of every length.
  - Lemma `AudiencePrefixesDef` gives the recursive function's equation. It is obtained by proving that a function satisfying it exists on `0..n` for every `n`, by induction: a solution on `0..n` extends to one on `0..n+1`.
  - `AudiencesInvariant` states that prefix `i` lists exactly the string elements among the first `i` entries. `PrefixInduct` proves it for every `i`.
  - So the code's filtered slice and the spec's set of strings agree, and `hasValidAudience` and the spec's test give the same answer for every audience.
- `ScopesMatchSpec` proves `Spec => []VerifierScopesMatchSpec` for scope strings of every length.
  - `ScanInv` is the invariant of the `strings.Fields` loop after `n` characters. Every completed word is a maximal run of non-spaces. The current word is the run since the last space.
  - `ScanInvStep` covers the loop's three cases: a space ending an empty word, a space ending a word, and a non-space.
  - `FieldsAreWords` concludes that `w` is an element of `Fields(s)` exactly when `w` is a word of `s`. The spec's definition is stated in those terms.

`ExponentProofs`:

- `DecodersExact` proves `Spec => []DecodersExactWhenFits` for every width and every exponent length.
  - `PrefixValuesBounded`: every prefix value of the big-endian sum is a natural number and at most the full value. This holds because each step multiplies by `Radix` and adds a byte.
  - `InfoNeverWraps`: when the full value is below `2^(IntBits-1)`, no prefix wraps. So token-info's wrapping loop computes the exact value.
  - `ShortcutsBigEndian`: the verifier's three- and four-byte shortcuts equal the big-endian sum.

`PrefixInduction`:

- `PrefixInduct` is induction up to a bound over a set of indices, not over a predicate. The provers cannot instantiate the library's induction theorems, which take an operator parameter. This lemma is proved from `WFMin` and `NatLessThanWellFounded`: a least missing index would have its predecessor in the set.

The assumptions are the `ASSUME`s of `KeySource`, `InfoKeyCache` and `Authenticator`: finite, non-empty sets and natural-number bounds. There are also these:

- `PolicyAssumption` types the claim inputs as sequences of symbols.
- `PowersAssumption` in `Exponent` states `2^IntBits = 2 * 2^(IntBits-1)`. The provers treat `^` as uninterpreted, so this fact is assumed rather than derived. TLC checks every assumption on the runs of `MC_Policy` and `MC_Exponent`.

### What is only model-checked

- **Liveness** (`RequestsComplete`): TLAPS does not handle fairness or ENABLED.
- **The `violation` runs and `InfoPolicyMatchesSpec`:** these are disagreements, which TLC shows with a counterexample.

## Not modelled

- **The token provider** (`entra-token-provider`): `GetToken` makes one form POST per call, with a 30 s client timeout, and turns any error into `Success=false, Status=1`. It has no cache, no retry and no field written after startup. Nothing depends on an earlier call, so a model would be one branch, which a unit test covers.
- **Flag, environment and static-user parsing** is outside the core. Its results enter the models as constants (`Tables`, `AllowedSets`, `ClientIDs`).
- **The go-plugin handshake and serving.**
- **Debug logging.**
- **Claim copying** (`extractString`, `extractStringArray`).
- **RSA signature and expiry checks:** these are golang-jwt's. The models reduce them to outcomes.
- **Base64 and the modulus** (`big.Int.SetBytes` is exact).

## Plan for later sittings

1. Compose `Authenticator` with `VerifierKeyCache`, so that a delegated call runs the verifier's cache steps. With two verifiers created by the double initialisation, each has its own cache.
2. Model the remaining stages of the verifier's `VerifyToken` (verifier.go 144-254) as one pipeline, with their error results.
3. Prove `NoRedundantFetch`-style bounds where they hold. `RequestsComplete` is beyond TLAPS, so it stays with TLC.
4. Write an abstract specification of what the verifier cache promises: a lookup resolves against a document that was served at `cachedAt`. Then prove that `VerifierKeyCache` refines it, building on `CachedKeysPublishedAtFetch`.
