---------------------------- MODULE Authenticator ----------------------------
(***************************************************************************)
(* The SASL/PLAIN entry point of the verifier plugin                       *)
(* (cmd/entra-token-verifier/main.go): EntraTokenVerifierFactory           *)
(* .Authenticate, which creates the EntraTokenVerifier on first use, and    *)
(* EntraTokenVerifier.Authenticate, which routes a JWT-shaped password to  *)
(* a TokenVerifier it also creates on first use, and any other password   *)
(* to the static user table.  kafka-proxy serves each call on its own      *)
(* goroutine, so calls run concurrently.                                   *)
(*                                                                         *)
(* Both lazy initialisations are a read of a pointer field, a              *)
(* construction, and a write of the field, with no lock: each is modelled  *)
(* as separate steps, so that concurrent first calls interleave in         *)
(* between.  A racy read of a word-sized pointer sees the old or the new   *)
(* value, and the interleavings give both.  Authenticators and verifiers   *)
(* are numbered in the order they are created; 0 is nil.  What             *)
(* VerifyToken decides is the concern of VerifierKeyCache and Policy:      *)
(* here it accepts or rejects.                                             *)
(***************************************************************************)
EXTENDS Naturals, FiniteSets

CONSTANTS
    Req,      \* concurrent Authenticate calls
    Users,    \* usernames a client may present
    Vals,     \* what distinguishes two passwords of the same shape
    Tables    \* the static user tables main may build (--static-user)

(* A password, abstracted to what Authenticate looks at: whether it starts *)
(* with "eyJ", how many "." it contains, and the rest of its text.         *)
Secrets == [prefix : BOOLEAN, dots : 0..3, val : Vals]

ASSUME AuthenticatorAssumption ==
    /\ IsFiniteSet(Req) /\ Req # {}
    /\ Users # {} /\ Vals # {}
    /\ \A t \in Tables : t \subseteq Users \X Secrets
                         /\ \A p, q \in t : p[1] = q[1] => p = q

NReq == Cardinality(Req)
AuthIds == 1..NReq

VARIABLES
    staticUsers,  \* Config.StaticUsers, fixed at startup
    authField,    \* EntraTokenVerifierFactory.authenticator (0: nil)
    nAuth,        \* authenticators created so far
    verField,     \* per authenticator, its verifier field (0: nil)
    inits,        \* TokenVerifiers created so far (each pre-fetches the JWKS)
    pc,           \* where each call is
    user,         \* the username of each call
    secret,       \* the password of each call
    myAuth,       \* the authenticator each call was delegated to
    verified      \* history: VerifyToken returned claims for this call

vars == <<staticUsers, authField, nAuth, verField, inits,
          pc, user, secret, myAuth, verified>>

PC == {"idle", "factoryCheck", "factoryCreate", "delegate", "static",
       "checkVerifier", "init", "verify", "accepted", "rejected"}

(* Calls past Delegate, which hold their authenticator.                    *)
Delegated == {"static", "checkVerifier", "init", "verify"}

(* The variables have their types, and a delegated call holds a non-nil   *)
(* authenticator.                                                          *)
TypeOK ==
    /\ staticUsers \in Tables
    /\ authField \in 0..NReq /\ nAuth \in 0..NReq
    /\ verField \in [AuthIds -> Nat]
    /\ inits \in Nat
    /\ pc \in [Req -> PC]
    /\ user \in [Req -> Users]
    /\ secret \in [Req -> Secrets]
    /\ myAuth \in [Req -> 0..NReq]
    /\ \A r \in Req : pc[r] \in Delegated => myAuth[r] \in AuthIds
    /\ verified \in [Req -> BOOLEAN]

(* Mutant: any password that starts with "eyJ" is taken for a JWT.        *)
IsJWTPrefixOnly(s) == s.prefix

(* strings.HasPrefix(password, "eyJ") && strings.Count(password, ".") == 2 *)
IsJWT(s) == s.prefix /\ s.dots = 2

Init ==
    /\ staticUsers \in Tables
    /\ authField = 0 /\ nAuth = 0
    /\ verField = [a \in AuthIds |-> 0]
    /\ inits = 0
    /\ pc = [r \in Req |-> "idle"]
    /\ user = [r \in Req |-> CHOOSE u \in Users : TRUE]
    /\ secret = [r \in Req |-> CHOOSE s \in Secrets : TRUE]
    /\ myAuth = [r \in Req |-> 0]
    /\ verified = [r \in Req |-> FALSE]

(* kafka-proxy calls the factory's Authenticate(username, password).       *)
Start(r, u, s) ==
    /\ pc[r] = "idle"
    /\ pc' = [pc EXCEPT ![r] = "factoryCheck"]
    /\ user' = [user EXCEPT ![r] = u]
    /\ secret' = [secret EXCEPT ![r] = s]
    /\ myAuth' = [myAuth EXCEPT ![r] = 0]
    /\ verified' = [verified EXCEPT ![r] = FALSE]
    /\ UNCHANGED <<staticUsers, authField, nAuth, verField, inits>>

(* if f.authenticator == nil, read without a lock.                          *)
FactoryCheck(r) ==
    /\ pc[r] = "factoryCheck"
    /\ pc' = [pc EXCEPT ![r] = IF authField = 0 THEN "factoryCreate" ELSE "delegate"]
    /\ UNCHANGED <<staticUsers, authField, nAuth, verField, inits, user, secret, myAuth, verified>>

(* Mutant: the new authenticator is built but not stored in the field.     *)
FactoryCreateNoStore(r) ==
    /\ pc[r] = "factoryCreate"
    /\ nAuth' = nAuth + 1
    /\ pc' = [pc EXCEPT ![r] = "delegate"]
    /\ UNCHANGED <<staticUsers, authField, verField, inits, user, secret, myAuth, verified>>

(* f.authenticator = &EntraTokenVerifier{verifier: nil, ...}                *)
FactoryCreate(r) ==
    /\ pc[r] = "factoryCreate"
    /\ nAuth' = nAuth + 1
    /\ authField' = nAuth + 1
    /\ pc' = [pc EXCEPT ![r] = "delegate"]
    /\ UNCHANGED <<staticUsers, verField, inits, user, secret, myAuth, verified>>

(* return f.authenticator.Authenticate(...): the field is read again; the  *)
(* password's shape picks the mode.                                         *)
Delegate(r) ==
    /\ pc[r] = "delegate"
    /\ myAuth' = [myAuth EXCEPT ![r] = authField]
    /\ pc' = [pc EXCEPT ![r] = IF IsJWT(secret[r]) THEN "checkVerifier" ELSE "static"]
    /\ UNCHANGED <<staticUsers, authField, nAuth, verField, inits, user, secret, verified>>

(* Mutant: the username alone is looked up, the password not compared.     *)
StaticCheckUserOnly(r) ==
    /\ pc[r] = "static"
    /\ pc' = [pc EXCEPT ![r] = IF \E p \in staticUsers : p[1] = user[r]
                                 THEN "accepted" ELSE "rejected"]
    /\ UNCHANGED <<staticUsers, authField, nAuth, verField, inits, user, secret, myAuth, verified>>

(* MODE 2: no users configured, an unknown user or a wrong password are    *)
(* rejected; the exact pair is accepted.                                    *)
StaticCheck(r) ==
    /\ pc[r] = "static"
    /\ pc' = [pc EXCEPT ![r] = IF staticUsers # {} /\ <<user[r], secret[r]>> \in staticUsers
                                 THEN "accepted" ELSE "rejected"]
    /\ UNCHANGED <<staticUsers, authField, nAuth, verField, inits, user, secret, myAuth, verified>>

(* if v.verifier == nil, read without a lock.                               *)
CheckVerifier(r) ==
    /\ pc[r] = "checkVerifier"
    /\ pc' = [pc EXCEPT ![r] = IF verField[myAuth[r]] = 0 THEN "init" ELSE "verify"]
    /\ UNCHANGED <<staticUsers, authField, nAuth, verField, inits, user, secret, myAuth, verified>>

(* NewTokenVerifier's pre-fetch succeeds: v.verifier = verifier.            *)
InitOk(r) ==
    /\ pc[r] = "init"
    /\ inits' = inits + 1
    /\ verField' = [verField EXCEPT ![myAuth[r]] = inits + 1]
    /\ pc' = [pc EXCEPT ![r] = "verify"]
    /\ UNCHANGED <<staticUsers, authField, nAuth, user, secret, myAuth, verified>>

(* Mutant: the constructor's result is stored before its error is checked, *)
(* so a failed pre-fetch writes nil over the field.                         *)
InitFailStoresNil(r) ==
    /\ pc[r] = "init"
    /\ verField' = [verField EXCEPT ![myAuth[r]] = 0]
    /\ pc' = [pc EXCEPT ![r] = "rejected"]
    /\ UNCHANGED <<staticUsers, authField, nAuth, inits, user, secret, myAuth, verified>>

(* The pre-fetch fails: StatusInvalidToken, the field stays as it is, and  *)
(* the next JWT call tries again.                                           *)
InitFail(r) ==
    /\ pc[r] = "init"
    /\ pc' = [pc EXCEPT ![r] = "rejected"]
    /\ UNCHANGED <<staticUsers, authField, nAuth, verField, inits, user, secret, myAuth, verified>>

(* v.verifier.VerifyToken(ctx, password), the field read again.            *)
Verify(r) ==
    /\ pc[r] = "verify"
    /\ verField[myAuth[r]] # 0
    /\ \E ok \in BOOLEAN :
        /\ pc' = [pc EXCEPT ![r] = IF ok THEN "accepted" ELSE "rejected"]
        /\ verified' = [verified EXCEPT ![r] = ok]
    /\ UNCHANGED <<staticUsers, authField, nAuth, verField, inits, user, secret, myAuth>>

Finish(r) ==
    /\ pc[r] \in {"accepted", "rejected"}
    /\ pc' = [pc EXCEPT ![r] = "idle"]
    /\ UNCHANGED <<staticUsers, authField, nAuth, verField, inits, user, secret, myAuth, verified>>

Call(r) ==
    \/ \E u \in Users, s \in Secrets : Start(r, u, s)
    \/ FactoryCheck(r)
    \/ FactoryCreate(r)
    \/ Delegate(r)
    \/ StaticCheck(r)
    \/ CheckVerifier(r)
    \/ InitOk(r)
    \/ InitFail(r)
    \/ Verify(r)
    \/ Finish(r)

Next == \E r \in Req : Call(r)

Spec == Init /\ [][Next]_vars

-----------------------------------------------------------------------------
(* PROPERTIES *)

(* A call about to use its authenticator's verifier finds one there: a     *)
(* verifier field, once set, is never cleared by a concurrent call, so the *)
(* re-read of v.verifier after the nil check cannot see nil (a nil         *)
(* *TokenVerifier would panic in VerifyToken and bring the plugin down).   *)
NoNilVerifier ==
    \A r \in Req : pc[r] = "verify" => myAuth[r] # 0 /\ verField[myAuth[r]] # 0

(* Spec 4.4 and 8: a password with the JWT prefix and exactly two dots is  *)
(* accepted only if VerifyToken accepted it, and any other only as an      *)
(* exact user:password pair of a non-empty static table.                   *)
AcceptedByItsMode ==
    \A r \in Req :
        pc[r] = "accepted" =>
            IF secret[r].prefix /\ secret[r].dots = 2
              THEN verified[r]
              ELSE staticUsers # {} /\ <<user[r], secret[r]>> \in staticUsers

(* Refinement mapping: a call between the factory's Authenticate and its  *)
(* verdict is in progress, whichever lazy initialisation it is at; the     *)
(* authenticator and verifier fields and their counters are hidden.        *)
SASLPC ==
    [r \in Req |-> IF pc[r] \in {"idle", "accepted", "rejected"} THEN pc[r] ELSE "busy"]

SASL == INSTANCE SASLAuthenticator WITH pc <- SASLPC

(* Spec 4.4: the entry point implements the contract authenticate(user,   *)
(* secret): however concurrent first calls interleave their unlocked      *)
(* reads and writes of the two lazily created fields, every call ends in  *)
(* one verdict that the atomic dispatcher could give, the JWT verifier's  *)
(* in JWT mode and the exact table lookup otherwise.                       *)
ImplementsSASL == SASL!Spec

(* Spec 9: concurrent first calls do not double-initialise: at most one    *)
(* TokenVerifier (and its key-set pre-fetch) is ever created.              *)
SingleVerifier == inits <= 1

=============================================================================
