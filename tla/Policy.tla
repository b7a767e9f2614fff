------------------------------- MODULE Policy -------------------------------
(***************************************************************************)
(* The claims policy of the two token verifiers: issuer, audience and     *)
(* scope checks, as pure operators on strings, each next to the spec's    *)
(* definition (spec 4.3, CHECK_ISSUER, CHECK_AUDIENCE, CHECK_SCOPES).     *)
(*                                                                         *)
(* A string is a sequence of symbols.  Issuers and scope claims are       *)
(* sequences of characters; an audience is a sequence over symbols one of *)
(* which, ApiScheme, stands for the six characters "api://" (no other     *)
(* symbol sequence spells them, so equality is string equality).  A claim *)
(* that is absent or not a JSON string is NotString.                      *)
(*                                                                         *)
(* The harness at the end enumerates bounded inputs, one check at a time, *)
(* so that TLC compares every implementation with the spec on each.       *)
(*                                                                         *)
(* Go's loops over a slice or a string are written as recursive functions *)
(* over the prefixes of the input, so that the proofs of PolicyProofs can *)
(* reason about inputs of every length.                                    *)
(***************************************************************************)
EXTENDS Naturals, Sequences

CONSTANTS
    NotString,     \* a claim that is absent or not a string
    Slash,         \* the character "/"
    Space,         \* a whitespace character, as strings.Fields sees it
    ApiScheme,     \* the prefix "api://"
    Issuers,       \* issuer strings (iss claims and configured issuers)
    AllowedSets,   \* configured allowed-issuer lists, as sets
    AudStrings,    \* audience strings
    AudArrays,     \* JSON arrays an aud claim may hold
    ClientIDs,     \* configured client ids (expected audience)
    Scps,          \* scp claim strings
    RequiredSets   \* configured required-scope lists, as sets of words

ASSUME PolicyAssumption ==
    /\ NotString \notin UNION {Issuers, AudStrings, Scps}
    /\ AllowedSets \subseteq SUBSET Issuers
    /\ ClientIDs \subseteq AudStrings
    /\ AudArrays \subseteq Seq(AudStrings \cup {NotString})
    /\ \A scp \in Scps : scp \in Seq({scp[i] : i \in DOMAIN scp})

(* The value Go's claims[...].(string) assertion leaves: "" unless a string.*)
AsString(c) == IF c = NotString THEN <<>> ELSE c

(* The set of the elements of a sequence (a Go slice's values).          *)
SeqElems(s) == {s[i] : i \in DOMAIN s}

(* strings.TrimSuffix(s, "/") *)
TrimSlash(s) == IF s # <<>> /\ s[Len(s)] = Slash THEN SubSeq(s, 1, Len(s) - 1) ELSE s

---------------------------------------------------------------------------
(* Issuer *)

(* verifier.go isAllowedIssuer: some configured issuer equals the token's *)
(* after one trailing "/" is trimmed from each; an empty list allows none.*)
VerifierIsAllowedIssuer(iss, allowed) ==
    \E a \in allowed : TrimSlash(iss) = TrimSlash(a)

(* token-info isAllowedIssuer: an empty list allows every issuer; else   *)
(* exact equality.                                                        *)
InfoIsAllowedIssuer(iss, allowed) ==
    allowed = {} \/ iss \in allowed

(* Spec: an empty list accepts any issuer; otherwise equality after       *)
(* trimming a single trailing slash from both sides.                      *)
SpecIssuerOK(iss, allowed) ==
    allowed = {} \/ \E a \in allowed : TrimSlash(iss) = TrimSlash(a)

---------------------------------------------------------------------------
(* Audience *)

AudClaims ==
    [kind : {"string"}, v : AudStrings] \cup [kind : {"array"}, v : AudArrays]
        \cup {[kind |-> "other"]}

(* Mutant: the array's elements are kept without the .(string) assertion.  *)
VerifierAudiencesUnfiltered(aud) ==
    CASE aud.kind = "string" -> <<aud.v>>
      [] aud.kind = "array"  -> aud.v
      [] OTHER               -> <<>>

(* verifier.go's loop over an array aud claim: after the first i elements *)
(* the audiences slice holds the strings among them, in order.             *)
AudiencePrefixes(arr) ==
    LET auds[i \in 0..Len(arr)] ==
            IF i = 0 THEN <<>>
            ELSE IF arr[i] # NotString THEN Append(auds[i - 1], arr[i])
            ELSE auds[i - 1]
    IN  auds

(* verifier.go: aud normalised to the list of its string values.           *)
VerifierAudiences(aud) ==
    CASE aud.kind = "string" -> <<aud.v>>
      [] aud.kind = "array"  -> AudiencePrefixes(aud.v)[Len(aud.v)]
      [] OTHER               -> <<>>

(* Mutant: only the first audience is compared.                           *)
VerifierHasValidAudienceFirstOnly(auds, clientID) ==
    auds # <<>> /\ (auds[1] = clientID \/ auds[1] = <<ApiScheme>> \o clientID)

(* verifier.go hasValidAudience *)
VerifierHasValidAudience(auds, clientID) ==
    \E i \in DOMAIN auds :
        auds[i] = clientID \/ auds[i] = <<ApiScheme>> \o clientID

(* token-info extractAudience: the string, or the first element of an      *)
(* array when it is a string, else "".                                     *)
InfoExtractAudience(aud) ==
    CASE aud.kind = "string" -> aud.v
      [] aud.kind = "array" /\ Len(aud.v) > 0 /\ aud.v[1] # NotString -> aud.v[1]
      [] OTHER -> <<>>

(* Spec: the normalised list contains the client id or "api://" + it.      *)
SpecAudienceOK(aud, clientID) ==
    LET auds == CASE aud.kind = "string" -> {aud.v}
                  [] aud.kind = "array"  -> SeqElems(aud.v) \ {NotString}
                  [] OTHER               -> {}
    IN  clientID \in auds \/ <<ApiScheme>> \o clientID \in auds

---------------------------------------------------------------------------
(* Scopes *)

(* strings.Fields, one character: a space ends the word being read (if    *)
(* any), any other character extends it.                                   *)
FieldsStep(acc, c) ==
    IF c = Space
      THEN IF acc.cur = <<>> THEN acc
           ELSE [words |-> Append(acc.words, acc.cur), cur |-> <<>>]
      ELSE [acc EXCEPT !.cur = Append(@, c)]

(* The words read and the word being read after each prefix of s.         *)
FieldsScan(s) ==
    LET scan[i \in 0..Len(s)] ==
            IF i = 0 THEN [words |-> <<>>, cur |-> <<>>] ELSE FieldsStep(scan[i - 1], s[i])
    IN  scan

(* strings.Fields: the maximal runs of non-space characters, in order.    *)
Fields(s) ==
    LET end == FieldsScan(s)[Len(s)]
    IN  IF end.cur = <<>> THEN end.words ELSE Append(end.words, end.cur)

(* verifier.go: Scopes from a string scp claim, and hasRequiredScopes      *)
(* behind the len(RequiredScopes) > 0 guard.                               *)
VerifierScopes(scp) == IF scp = NotString THEN <<>> ELSE Fields(scp)

(* Mutant: one required scope present is taken as enough.                 *)
VerifierScopesOKAny(scp, required) ==
    required = {} \/ \E w \in required : w \in SeqElems(VerifierScopes(scp))

VerifierScopesOK(scp, required) ==
    required = {} \/ \A w \in required : w \in SeqElems(VerifierScopes(scp))

(* Spec: scp split at spaces; every required scope appears in it; no       *)
(* required scopes, no check.  The split is written out: a word is a       *)
(* non-empty infix of scp with a space or an end of scp on both sides.     *)
IsWordOf(w, s) ==
    /\ w # <<>>
    /\ \A i \in DOMAIN w : w[i] # Space
    /\ \E i \in 0..(Len(s) - Len(w)) :
        /\ SubSeq(s, i + 1, i + Len(w)) = w
        /\ i = 0 \/ s[i] = Space
        /\ i + Len(w) = Len(s) \/ s[i + Len(w) + 1] = Space

SpecScopesOK(scp, required) ==
    required = {} \/ (scp # NotString /\ \A w \in required : IsWordOf(w, scp))

---------------------------------------------------------------------------
(* Harness: each check and its input is an initial state, which Next     *)
(* keeps.                                                                  *)

VARIABLE input

IssuerCases == [check : {"issuer"}, iss : Issuers \cup {NotString}, allowed : AllowedSets]
AudienceCases == [check : {"audience"}, aud : AudClaims, clientID : ClientIDs]
ScopeCases == [check : {"scopes"}, scp : Scps \cup {NotString}, required : RequiredSets]
Cases == IssuerCases \cup AudienceCases \cup ScopeCases

Init == input \in Cases
Next == UNCHANGED input
Spec == Init /\ [][Next]_input

(* The input is one of the cases, and the audience list the SASL verifier  *)
(* hands to hasValidAudience holds strings only.                           *)
TypeOK ==
    /\ input \in Cases
    /\ input.check = "audience" => VerifierAudiences(input.aud) \in Seq(AudStrings)

(* The SASL verifier's audience check is the spec's: a string or an array  *)
(* of them, matched against the client id and its api:// form.             *)
VerifierAudienceMatchesSpec ==
    input.check = "audience" =>
        (VerifierHasValidAudience(VerifierAudiences(input.aud), input.clientID)
            <=> SpecAudienceOK(input.aud, input.clientID))

(* The token-info plugin's claims policy is the spec's: its issuer check  *)
(* (isAllowedIssuer) and its audience check (extractAudience compared     *)
(* with the client id) decide every issuer and every aud claim as the     *)
(* spec's CHECK_ISSUER and CHECK_AUDIENCE do.                              *)
InfoPolicyMatchesSpec ==
    /\ input.check = "issuer" =>
        (InfoIsAllowedIssuer(AsString(input.iss), input.allowed)
            <=> SpecIssuerOK(AsString(input.iss), input.allowed))
    /\ input.check = "audience" =>
        ((InfoExtractAudience(input.aud) = input.clientID)
            <=> SpecAudienceOK(input.aud, input.clientID))

(* The SASL verifier's scope check (strings.Fields, then every required    *)
(* scope present) is the spec's for every scp string.                      *)
VerifierScopesMatchSpec ==
    input.check = "scopes" =>
        (VerifierScopesOK(input.scp, input.required)
            <=> SpecScopesOK(input.scp, input.required))

=============================================================================
