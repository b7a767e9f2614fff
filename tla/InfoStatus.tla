----------------------------- MODULE InfoStatus -----------------------------
(***************************************************************************)
(* The status the token-info plugin reports (cmd/entra-token-info/main.go, *)
(* EntraTokenInfo.VerifyToken): an empty token is StatusEmptyToken; any    *)
(* error of TokenVerifier.VerifyToken is classified by the words its text  *)
(* contains, "expired" first, then "invalid", then "unauthorized", and     *)
(* StatusInternalError otherwise.                                          *)
(*                                                                         *)
(* An error text is abstracted to the set of those three words it          *)
(* contains: the words of the stage's own message (the plugin's literals,  *)
(* wrapped by golang-jwt v5: "token is unverifiable: error while executing *)
(* keyfunc: ..." for key-function errors, "token signature is invalid",    *)
(* "token has invalid claims: token is expired"), and the words of the     *)
(* text the message echoes: the token's kid, chosen by whoever sends the   *)
(* token, its iss or aud claim, or the HTTP or JSON error of a failed      *)
(* key-set fetch.                                                          *)
(***************************************************************************)
EXTENDS FiniteSets

Keywords == {"expired", "invalid", "unauthorized"}

StatusOK == 0
StatusEmptyToken == 1
StatusInvalidToken == 2
StatusTokenExpired == 3
StatusUnauthorized == 4
StatusInternalError == 5

(* Where TokenVerifier.VerifyToken stops ("ok": it returns claims).        *)
Stages == {"ok", "badAlg", "noKid", "keyNotFound", "fetchFailed", "malformed",
           "badSignature", "expired", "notYetValid", "badIssuer", "badAudience"}

(* The keywords of each stage's own message.  golang-jwt's malformed-token *)
(* messages differ by cause, with "invalid" in some and not in others.     *)
OwnWords(stage) ==
    CASE stage \in {"badAlg", "noKid", "keyNotFound", "fetchFailed"} -> {{}}
      [] stage = "malformed" -> {{}, {"invalid"}}
      [] stage \in {"badSignature", "notYetValid"} -> {{"invalid"}}
      [] stage = "expired" -> {{"expired", "invalid"}}
      [] stage \in {"badIssuer", "badAudience"} -> {{"unauthorized"}}
      [] OTHER -> {{}}

(* The keywords the echoed text may add: "key ID %s not found in JWKS"     *)
(* echoes the kid; a fetch error echoes the transport's or decoder's text  *)
(* (a certificate that "has expired", an "invalid character");             *)
(* "unauthorized issuer: %s" echoes the token's iss, and "unauthorized     *)
(* audience: %s (expected: %s)" its audience.                              *)
EchoWords(stage) ==
    IF stage \in {"keyNotFound", "fetchFailed", "badIssuer", "badAudience"}
      THEN SUBSET Keywords ELSE {{}}

(* The strings.Contains cascade of EntraTokenInfo.VerifyToken.             *)
Classify(words) ==
    CASE "expired" \in words      -> StatusTokenExpired
      [] "invalid" \in words      -> StatusInvalidToken
      [] "unauthorized" \in words -> StatusUnauthorized
      [] OTHER                    -> StatusInternalError

(* EntraTokenInfo.VerifyToken: the response for a call.                    *)
Respond(empty, stage, words) ==
    CASE empty         -> [success |-> FALSE, status |-> StatusEmptyToken]
      [] stage = "ok"  -> [success |-> TRUE, status |-> StatusOK]
      [] OTHER         -> [success |-> FALSE, status |-> Classify(words)]

(* Spec 4.3 and 7: a missing key or a tampered, malformed or wrongly       *)
(* signed token is "invalid"; expiry is "expired"; a policy failure is     *)
(* "invalid" or "unauthorized"; an unreachable key source degrades to key  *)
(* not found (and may be reported as an internal failure).                *)
SpecStatuses(empty, stage) ==
    CASE empty -> {StatusEmptyToken}
      [] stage = "ok" -> {StatusOK}
      [] stage = "expired" -> {StatusTokenExpired}
      [] stage \in {"badIssuer", "badAudience"} -> {StatusInvalidToken, StatusUnauthorized}
      [] stage = "fetchFailed" -> {StatusInvalidToken, StatusInternalError}
      [] OTHER -> {StatusInvalidToken}

-----------------------------------------------------------------------------
(* Harness: each call is an initial state of its own, which Next keeps.    *)

VARIABLE call

Calls ==
    {c \in [empty : BOOLEAN, stage : Stages, words : SUBSET Keywords] :
        \E own \in OwnWords(c.stage), echo \in EchoWords(c.stage) :
            c.words = own \cup echo}

Init == call \in Calls
Next == UNCHANGED call
Spec == Init /\ [][Next]_call

(* The reported status is the one the spec gives the failing stage,        *)
(* whatever the token's kid or the fetch error says.                       *)
StatusMatchesSpec ==
    LET resp == Respond(call.empty, call.stage, call.words)
    IN  /\ resp.success <=> (~call.empty /\ call.stage = "ok")
        /\ resp.status \in SpecStatuses(call.empty, call.stage)

=============================================================================
