------------------------------ MODULE Exponent ------------------------------
(***************************************************************************)
(* Decoding of an RSA public exponent from the big-endian bytes of a JWK's *)
(* "e" (after base64url decoding), as the two verifiers do it in           *)
(* jwkToRSAPublicKey, next to the spec's definition (4.1: big-endian       *)
(* accumulation over any number of bytes).                                 *)
(*                                                                         *)
(* Go's int has IntBits bits (64) and wraps in two's complement; a byte    *)
(* has ByteBits bits (8).  Both are constants so that a run can keep their *)
(* ratio (eight bytes to an int) at widths TLC's integers can hold.        *)
(*                                                                         *)
(* The loops over the bytes are recursive functions over the prefixes of  *)
(* eBytes, so that ExponentProofs can reason about every length.          *)
(***************************************************************************)
EXTENDS Naturals, Integers, Sequences

CONSTANTS
    ByteBits,    \* bits per byte (8)
    IntBits,     \* bits of Go's int (64)
    Inputs       \* the decoded exponent byte strings to try

ASSUME ExponentAssumption ==
    /\ ByteBits \in Nat \ {0}
    /\ IntBits \in Nat \ {0}
    /\ Inputs \subseteq Seq(0..(2^ByteBits - 1))

Radix == 2^ByteBits

(* Powers of two as the proofs use them: a byte's radix is positive, and   *)
(* Go's int range is the two halves of 2^IntBits.                          *)
ASSUME PowersAssumption ==
    /\ Radix \in Nat \ {0}
    /\ 2^(IntBits - 1) \in Nat \ {0}
    /\ 2^IntBits = 2 * 2^(IntBits - 1)

(* An integer as Go's int holds it: reduced modulo 2^IntBits into           *)
(* -2^(IntBits-1) .. 2^(IntBits-1) - 1.                                     *)
WrapInt(x) ==
    LET m == x % 2^IntBits
    IN  IF m >= 2^(IntBits - 1) THEN m - 2^IntBits ELSE m

(* Spec 4.1: the exponent is the big-endian value of all its bytes; the    *)
(* value of each prefix of them.                                           *)
BigEndianPrefixes(bs) ==
    LET v[i \in 0..Len(bs)] == IF i = 0 THEN 0 ELSE v[i - 1] * Radix + bs[i]
    IN  v

BigEndian(bs) == BigEndianPrefixes(bs)[Len(bs)]

(* token-info: for _, b := range eBytes { e = e*256 + int(b) }, in int;    *)
(* e after each prefix of the bytes.                                       *)
InfoPrefixes(bs) ==
    LET e[i \in 0..Len(bs)] == IF i = 0 THEN 0 ELSE WrapInt(e[i - 1] * Radix + bs[i])
    IN  e

(* Mutant: the bytes are accumulated last to first.                        *)
InfoDecodeLittleEndian(bs) ==
    InfoPrefixes([i \in 1..Len(bs) |-> bs[Len(bs) + 1 - i]])[Len(bs)]

InfoDecode(bs) == InfoPrefixes(bs)[Len(bs)]

(* Mutant: the four-byte case shifts as if it had three bytes.             *)
VerifierDecodeShortShift(bs) ==
    CASE Len(bs) = 3 -> bs[1] * Radix * Radix + bs[2] * Radix + bs[3]
      [] Len(bs) = 4 -> bs[1] * Radix * Radix + bs[2] * Radix * Radix + bs[3] * Radix + bs[4]
      [] OTHER       -> WrapInt(BigEndian(bs))

(* verifier.go: three and four bytes by shifts and ors (a shift by one    *)
(* byte multiplies by Radix; the bytes occupy disjoint bits, so | is +);   *)
(* any other length through big.Int, whose Int64 keeps the low 64 bits.    *)
VerifierDecode(bs) ==
    CASE Len(bs) = 3 -> bs[1] * Radix * Radix + bs[2] * Radix + bs[3]
      [] Len(bs) = 4 ->
            bs[1] * Radix * Radix * Radix + bs[2] * Radix * Radix + bs[3] * Radix + bs[4]
      [] OTHER       -> WrapInt(BigEndian(bs))

-----------------------------------------------------------------------------
(* Harness: each input is an initial state of its own, which Next keeps.  *)

VARIABLE eBytes

Init == eBytes \in Inputs
Next == UNCHANGED eBytes
Spec == Init /\ [][Next]_eBytes

(* Whenever the exponent's value fits a non-negative int, both verifiers   *)
(* decode it exactly, whatever the number of bytes (leading zero bytes     *)
(* included): the three- and four-byte shortcuts, the big.Int path and the *)
(* int accumulation all agree with big-endian accumulation.                *)
DecodersExactWhenFits ==
    BigEndian(eBytes) < 2^(IntBits - 1) =>
        /\ InfoDecode(eBytes) = BigEndian(eBytes)
        /\ VerifierDecode(eBytes) = BigEndian(eBytes)

=============================================================================
