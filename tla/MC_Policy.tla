------------------------------ MODULE MC_Policy ------------------------------
(***************************************************************************)
(* Bounded inputs for the claims checks: issuers of up to three characters *)
(* over "x" and "/", so that one and two trailing slashes occur on either  *)
(* side; audiences of up to two symbols, arrays of up to two elements with *)
(* non-strings among them; scp strings of up to four characters with       *)
(* leading, trailing and repeated spaces; required scopes including the   *)
(* empty word and a word containing a space (pflag lists allow both).     *)
(***************************************************************************)
EXTENDS Policy, FiniteSets, SequencesExt

MCIssuers == BoundedSeq({"x", Slash}, 3)

MCAllowedNonEmpty == {A \in SUBSET MCIssuers : Cardinality(A) \in 1..2}
MCAllowedAll == MCAllowedNonEmpty \cup {{}}

MCAudStrings == BoundedSeq({"c", ApiScheme}, 2)
MCAudArrays == BoundedSeq(MCAudStrings \cup {NotString}, 2)
MCClientIDs == {<<>>, <<"c">>, <<"c", "c">>}

(* token-info main exits unless --client-id is given. *)
MCClientIDsNonEmpty == MCClientIDs \ {<<>>}

MCScps == BoundedSeq({"a", "b", Space}, 4)
MCWords == {<<>>, <<"a">>, <<"b">>, <<"a", "b">>, <<"a", Space, "b">>}
MCRequiredSets == {R \in SUBSET MCWords : Cardinality(R) <= 2}

=============================================================================
