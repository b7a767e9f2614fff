------------------------------ MODULE MC_Exponent ------------------------------
(***************************************************************************)
(* Bytes of 2 bits and an int of 16, so that an int holds eight bytes as   *)
(* Go's 64-bit int does; byte strings of up to nine bytes over 0, 1 and    *)
(* the all-ones byte, so that the sign bit, the 3- and 4-byte shortcuts,   *)
(* leading zeros and the ninth byte all occur.                             *)
(***************************************************************************)
EXTENDS Exponent, SequencesExt

MCInputs == BoundedSeq({0, 1, 3}, 9)

=============================================================================
