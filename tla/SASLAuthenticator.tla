-------------------------- MODULE SASLAuthenticator --------------------------
(***************************************************************************)
(* What the SASL entry point promises its host (spec 4.4, the contract     *)
(* authenticate(username, secret) -> accepted), with the lazy creation of  *)
(* the authenticator and of the JWT verifier abstracted away: a call ends  *)
(* in one step with                                                        *)
(*   - in JWT mode (the secret has the JWT header prefix and exactly two   *)
(*     delimiters), the verifier's verdict, whatever it is;                *)
(*   - in static-credential mode, acceptance exactly when the table is not *)
(*     empty and maps the username to this secret.                         *)
(* Secrets are those of Authenticator: a prefix flag, a delimiter count    *)
(* and the rest of the text.                                               *)
(***************************************************************************)
CONSTANTS Req, Users, Secrets, Tables

VARIABLES
    staticUsers,  \* the static credential table, fixed at startup
    pc,           \* "idle", "busy", or the call's outcome
    user,         \* the username of each call
    secret,       \* the secret of each call
    verified      \* the call was accepted by the JWT verifier

vars == <<staticUsers, pc, user, secret, verified>>

Outcomes == {"accepted", "rejected"}

(* The dispatch rule: JWT mode by the secret's shape alone.                *)
JWTMode(s) == s.prefix /\ s.dots = 2

(* Static-credential mode: an exact pair of a non-empty table.             *)
StaticAccepts(u, s) == staticUsers # {} /\ <<u, s>> \in staticUsers

Init ==
    /\ staticUsers \in Tables
    /\ pc = [r \in Req |-> "idle"]
    /\ user = [r \in Req |-> CHOOSE u \in Users : TRUE]
    /\ secret = [r \in Req |-> CHOOSE s \in Secrets : TRUE]
    /\ verified = [r \in Req |-> FALSE]

Start(r, u, s) ==
    /\ pc[r] = "idle"
    /\ pc' = [pc EXCEPT ![r] = "busy"]
    /\ user' = [user EXCEPT ![r] = u]
    /\ secret' = [secret EXCEPT ![r] = s]
    /\ verified' = [verified EXCEPT ![r] = FALSE]
    /\ UNCHANGED staticUsers

(* JWT mode: the verifier accepts (ok) or rejects the token.               *)
DecideJWT(r, ok) ==
    /\ pc[r] = "busy"
    /\ JWTMode(secret[r])
    /\ pc' = [pc EXCEPT ![r] = IF ok THEN "accepted" ELSE "rejected"]
    /\ verified' = [verified EXCEPT ![r] = ok]
    /\ UNCHANGED <<staticUsers, user, secret>>

(* Static-credential mode.                                                 *)
DecideStatic(r) ==
    /\ pc[r] = "busy"
    /\ ~JWTMode(secret[r])
    /\ pc' = [pc EXCEPT ![r] = IF StaticAccepts(user[r], secret[r])
                                 THEN "accepted" ELSE "rejected"]
    /\ UNCHANGED <<staticUsers, user, secret, verified>>

Finish(r) ==
    /\ pc[r] \in Outcomes
    /\ pc' = [pc EXCEPT ![r] = "idle"]
    /\ UNCHANGED <<staticUsers, user, secret, verified>>

Next ==
    \E r \in Req :
        \/ \E u \in Users, s \in Secrets : Start(r, u, s)
        \/ \E ok \in BOOLEAN : DecideJWT(r, ok)
        \/ DecideStatic(r)
        \/ Finish(r)

Spec == Init /\ [][Next]_vars

=============================================================================
