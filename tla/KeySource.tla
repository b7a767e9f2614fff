----------------------------- MODULE KeySource -----------------------------
(***************************************************************************)
(* The remote key-discovery endpoint (the identity provider's JWKS         *)
(* document) and the wall clock, as seen by both token verifiers of        *)
(* kafka-proxy-auth.  The identity provider is the environment: it may     *)
(* rotate its keys at any moment and time advances in ticks.  What the     *)
(* verifiers do with a fetched document (keep the RSA entries, index them  *)
(* by kid) is the operator Usable, taken from refreshJWKS.                 *)
(***************************************************************************)
EXTENDS Integers, FiniteSets

CONSTANTS
    Kid,              \* key identifiers the identity provider may publish
    CacheExpiration,  \* cache lifetime, in ticks (Config.CacheExpiration)
    MaxTime,          \* last tick the model explores
    Docs              \* the JWKS documents the endpoint may serve

ASSUME KidAssumption == IsFiniteSet(Kid) /\ Kid # {}
ASSUME CacheExpirationAssumption == CacheExpiration \in Nat \ {0}
ASSUME MaxTimeAssumption == MaxTime \in Nat

(* A JWKS entry is abstracted to its kid and its kty; modulus and exponent *)
(* are the key material a kid names.                                       *)
KeyTypes == {"RSA", "EC"}
Entries == Kid \X KeyTypes

ASSUME DocsAssumption == Docs \subseteq SUBSET Entries /\ Docs # {}

VARIABLES
    now,            \* current time, in ticks
    published,      \* the entries of the JWKS document the endpoint serves now
    lastPublished   \* per kid, the last tick at which it was a usable key

ksVars == <<now, published, lastPublished>>

(* The time before any key was published and before any fetch: older than *)
(* every cache lifetime, as Go's zero time.Time is.                        *)
NotYet == -(CacheExpiration + 1)
Time == NotYet..MaxTime

(* The keys a fetched document yields: entries whose kty is not "RSA" are  *)
(* skipped, the rest are indexed by kid (a repeated kid names one key).    *)
Usable(doc) == {e[1] : e \in {x \in doc : x[2] = "RSA"}}

KSTypeOK ==
    /\ now \in 0..MaxTime
    /\ published \in Docs
    /\ lastPublished \in [Kid -> Time]

ksInit ==
    /\ now = 0
    /\ published \in Docs
    /\ lastPublished = [k \in Kid |-> IF k \in Usable(published) THEN 0 ELSE NotYet]

(* One tick of the clock; the keys published now stay published.          *)
Tick ==
    /\ now < MaxTime
    /\ now' = now + 1
    /\ lastPublished' = [k \in Kid |-> IF k \in Usable(published) THEN now + 1
                                                              ELSE lastPublished[k]]
    /\ UNCHANGED published

(* The identity provider serves a new document (key rotation, a kid        *)
(* withdrawn, a non-RSA key added).                                        *)
Rotate(doc) ==
    /\ doc # published
    /\ published' = doc
    /\ lastPublished' = [k \in Kid |-> IF k \in Usable(doc) THEN now
                                                          ELSE lastPublished[k]]
    /\ UNCHANGED now

=============================================================================
