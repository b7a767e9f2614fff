---------------------------- MODULE ExponentProofs ----------------------------
(***************************************************************************)
(* Proof that both verifiers decode an RSA exponent exactly whenever its  *)
(* value fits a non-negative int, for every byte width, every int width   *)
(* and byte strings of every length (the run checks up to nine bytes).    *)
(*                                                                         *)
(* The argument: the big-endian values of the prefixes of the bytes are   *)
(* natural numbers that never decrease, so each is at most the whole      *)
(* value; when that is below 2^(IntBits-1), token-info's int accumulation *)
(* never wraps and equals the big-endian one prefix by prefix, and the    *)
(* verifier's shortcuts are the big-endian sums of three and four bytes.  *)
(***************************************************************************)
EXTENDS Exponent, PrefixInduction, TLAPS

Half == 2^(IntBits - 1)
Bytes == 0..(Radix - 1)

(* One step of each loop, given the values g at the smaller indices.       *)
BEStep(bs, g, i) == IF i = 0 THEN 0 ELSE g[i - 1] * Radix + bs[i]
InfoStep(bs, g, i) == IF i = 0 THEN 0 ELSE WrapInt(g[i - 1] * Radix + bs[i])

BELoop(bs, g, n) == g = [i \in 0..n |-> BEStep(bs, g, i)]
InfoLoop(bs, g, n) == g = [i \in 0..n |-> InfoStep(bs, g, i)]

(* A value below Half is kept by Go's int conversion.                      *)
LEMMA WrapSmall ==
    ASSUME NEW x \in 0..(Half - 1)
    PROVE  WrapInt(x) = x
<1>1. Half \in Nat \ {0} /\ 2^IntBits = 2 * Half
    BY PowersAssumption DEF Half
<1>2. x % 2^IntBits = x
    BY <1>1
<1>. QED
    BY <1>1, <1>2 DEF WrapInt, Half

(* The big-endian loop's recursive function is well defined.               *)
LEMMA BigEndianDef ==
    ASSUME NEW bs \in Seq(Bytes)
    PROVE  BELoop(bs, BigEndianPrefixes(bs), Len(bs))
<1> DEFINE Solvable == {n \in Nat : n <= Len(bs) => \E g : BELoop(bs, g, n)}
<1>1. 0 \in Solvable
    <2>1. BELoop(bs, [i \in 0..0 |-> 0], 0)
        BY DEF BELoop, BEStep
    <2>. QED
        BY <2>1
<1>2. ASSUME NEW n \in 0..(Len(bs) - 1), n \in Solvable PROVE n + 1 \in Solvable
    <2>1. PICK g : BELoop(bs, g, n)
        BY <1>2
    <2> DEFINE h == [i \in 0..(n + 1) |-> IF i <= n THEN g[i] ELSE BEStep(bs, g, n + 1)]
    <2>2. \A i \in 0..(n + 1) : BEStep(bs, h, i) = IF i <= n THEN BEStep(bs, g, i) ELSE BEStep(bs, g, n + 1)
        BY DEF BEStep
    <2>3. BELoop(bs, h, n + 1)
        BY <2>1, <2>2 DEF BELoop
    <2>. QED
        BY <2>3
<1>3. 0..Len(bs) \subseteq Solvable
    <2>1. Len(bs) \in Nat /\ Solvable \in SUBSET Nat
        OBVIOUS
    <2>. QED
        BY <1>1, <1>2, <2>1, PrefixInduct
<1>4. \E g : g = [i \in 0..Len(bs) |-> BEStep(bs, g, i)]
    BY <1>3 DEF BELoop
<1>. QED
    BY <1>4 DEF BigEndianPrefixes, BELoop, BEStep

(* token-info's loop's recursive function is well defined.                 *)
LEMMA InfoDef ==
    ASSUME NEW bs \in Seq(Bytes)
    PROVE  InfoLoop(bs, InfoPrefixes(bs), Len(bs))
<1> DEFINE Solvable == {n \in Nat : n <= Len(bs) => \E g : InfoLoop(bs, g, n)}
<1>1. 0 \in Solvable
    <2>1. InfoLoop(bs, [i \in 0..0 |-> 0], 0)
        BY DEF InfoLoop, InfoStep
    <2>. QED
        BY <2>1
<1>2. ASSUME NEW n \in 0..(Len(bs) - 1), n \in Solvable PROVE n + 1 \in Solvable
    <2>1. PICK g : InfoLoop(bs, g, n)
        BY <1>2
    <2> DEFINE h == [i \in 0..(n + 1) |-> IF i <= n THEN g[i] ELSE InfoStep(bs, g, n + 1)]
    <2>2. \A i \in 0..(n + 1) : InfoStep(bs, h, i) = IF i <= n THEN InfoStep(bs, g, i) ELSE InfoStep(bs, g, n + 1)
        BY DEF InfoStep
    <2>3. InfoLoop(bs, h, n + 1)
        BY <2>1, <2>2 DEF InfoLoop
    <2>. QED
        BY <2>3
<1>3. 0..Len(bs) \subseteq Solvable
    <2>1. Len(bs) \in Nat /\ Solvable \in SUBSET Nat
        OBVIOUS
    <2>. QED
        BY <1>1, <1>2, <2>1, PrefixInduct
<1>4. \E g : g = [i \in 0..Len(bs) |-> InfoStep(bs, g, i)]
    BY <1>3 DEF InfoLoop
<1>. QED
    BY <1>4 DEF InfoPrefixes, InfoLoop, InfoStep

(* The big-endian values of the prefixes are natural numbers, none above   *)
(* the value of the whole string.                                          *)
LEMMA PrefixValuesBounded ==
    ASSUME NEW bs \in Seq(Bytes)
    PROVE  \A i \in 0..Len(bs) : /\ BigEndianPrefixes(bs)[i] \in Nat
                                /\ BigEndianPrefixes(bs)[i] <= BigEndian(bs)
<1> DEFINE V == BigEndianPrefixes(bs)
           L == Len(bs)
<1>0. L \in Nat /\ Radix \in Nat \ {0} /\ \A j \in 1..L : bs[j] \in Nat
    BY PowersAssumption DEF Bytes
<1>1. ASSUME NEW i \in 0..L PROVE V[i] = BEStep(bs, V, i)
    BY BigEndianDef DEF BELoop
<1>2. \A i \in 0..L : V[i] \in Nat
    <2> DEFINE Natural == {n \in Nat : n <= L => V[n] \in Nat}
    <2>1. 0 \in Natural
        BY <1>1 DEF BEStep
    <2>2. ASSUME NEW n \in 0..(L - 1), n \in Natural PROVE n + 1 \in Natural
        <3>1. V[n + 1] = V[n] * Radix + bs[n + 1]
            BY <1>1 DEF BEStep
        <3>. QED
            BY <2>2, <3>1, <1>0
    <2>3. 0..L \subseteq Natural
        BY <2>1, <2>2, <1>0, PrefixInduct
    <2>. QED
        BY <2>3
<1>3. ASSUME NEW i \in 0..(L - 1) PROVE V[i] <= V[i + 1]
    <3>1. V[i + 1] = V[i] * Radix + bs[i + 1]
        BY <1>1 DEF BEStep
    <3>2. V[i] \in Nat /\ bs[i + 1] \in Nat
        BY <1>0, <1>2
    <3>3. V[i] * (Radix - 1) \in Nat
        BY <3>2, <1>0
    <3>4. V[i] * Radix = V[i] * (Radix - 1) + V[i]
        BY <3>2, <1>0
    <3>. QED
        BY <3>1, <3>2, <3>3, <3>4
<1>4. \A k \in 0..L : V[L - k] <= V[L]
    <2> DEFINE Below == {k \in Nat : k <= L => V[L - k] <= V[L]}
    <2>1. 0 \in Below
        BY <1>0, <1>2
    <2>2. ASSUME NEW k \in 0..(L - 1), k \in Below PROVE k + 1 \in Below
        <3>1. V[L - (k + 1)] <= V[L - k]
            BY <1>3
        <3>2. V[L - (k + 1)] \in Nat /\ V[L - k] \in Nat /\ V[L] \in Nat
            BY <1>2, <1>0
        <3>. QED
            BY <2>2, <3>1, <3>2
    <2>3. 0..L \subseteq Below
        BY <2>1, <2>2, <1>0, PrefixInduct
    <2>. QED
        BY <2>3
<1>5. ASSUME NEW i \in 0..L PROVE V[i] <= V[L]
    <2>1. L - i \in 0..L /\ L - (L - i) = i
        BY <1>0
    <2>. QED
        BY <1>4, <2>1
<1>. QED
    BY <1>2, <1>5 DEF BigEndian

(* While the whole value fits, token-info's int accumulation never wraps:  *)
(* it equals the big-endian value after every prefix.                      *)
LEMMA InfoNeverWraps ==
    ASSUME NEW bs \in Seq(Bytes), BigEndian(bs) < Half
    PROVE  \A i \in 0..Len(bs) : InfoPrefixes(bs)[i] = BigEndianPrefixes(bs)[i]
<1> DEFINE V == BigEndianPrefixes(bs)
           E == InfoPrefixes(bs)
           L == Len(bs)
<1>0. L \in Nat /\ Radix \in Nat \ {0} /\ \A j \in 1..L : bs[j] \in Nat
    BY PowersAssumption DEF Bytes
<1>1. ASSUME NEW i \in 0..L PROVE V[i] = BEStep(bs, V, i)
    BY BigEndianDef DEF BELoop
<1>2. ASSUME NEW i \in 0..L PROVE E[i] = InfoStep(bs, E, i)
    BY InfoDef DEF InfoLoop
<1> DEFINE Same == {n \in Nat : n <= L => E[n] = V[n]}
<1>3. 0 \in Same
    BY <1>1, <1>2 DEF BEStep, InfoStep
<1>4. ASSUME NEW n \in 0..(L - 1), n \in Same PROVE n + 1 \in Same
    <2>1. E[n + 1] = WrapInt(V[n] * Radix + bs[n + 1])
        BY <1>2, <1>4 DEF InfoStep
    <2>2. V[n + 1] = V[n] * Radix + bs[n + 1]
        BY <1>1 DEF BEStep
    <2>3. V[n + 1] \in 0..(Half - 1)
        <3>1. V[n + 1] \in Nat /\ V[n + 1] <= BigEndian(bs)
            BY PrefixValuesBounded
        <3>2. Half \in Nat
            BY PowersAssumption DEF Half
        <3>3. BigEndian(bs) \in Nat
            BY PrefixValuesBounded, <1>0 DEF BigEndian
        <3>. QED
            BY <3>1, <3>2, <3>3
    <2>4. WrapInt(V[n + 1]) = V[n + 1]
        BY <2>3, WrapSmall
    <2>. QED
        BY <2>1, <2>2, <2>4
<1>5. 0..L \subseteq Same
    BY <1>0, <1>3, <1>4, PrefixInduct
<1>. QED
    BY <1>5

(* The verifier's shortcuts are the big-endian sums of three and four      *)
(* bytes.                                                                  *)
LEMMA ShortcutsBigEndian ==
    ASSUME NEW bs \in Seq(Bytes), Len(bs) \in {3, 4}
    PROVE  VerifierDecode(bs) = BigEndian(bs)
<1> DEFINE V == BigEndianPrefixes(bs)
<1>0. Radix \in Nat /\ \A j \in 1..Len(bs) : bs[j] \in Nat
    BY PowersAssumption DEF Bytes
<1>1. ASSUME NEW i \in 1..Len(bs) PROVE V[i] = V[i - 1] * Radix + bs[i]
    BY BigEndianDef DEF BELoop, BEStep
<1>2. V[0] = 0
    BY BigEndianDef DEF BELoop, BEStep
<1>3. V[3] = bs[1] * Radix * Radix + bs[2] * Radix + bs[3]
    <2>1. V[1] = bs[1] /\ V[2] = bs[1] * Radix + bs[2]
        BY <1>0, <1>1, <1>2
    <2>. QED
        BY <1>0, <1>1, <2>1
<1>4. CASE Len(bs) = 3
    BY <1>3, <1>4 DEF VerifierDecode, BigEndian
<1>5. CASE Len(bs) = 4
    <2>1. V[4] = bs[1] * Radix * Radix * Radix + bs[2] * Radix * Radix + bs[3] * Radix + bs[4]
        BY <1>0, <1>1, <1>3, <1>5
    <2>. QED
        BY <2>1, <1>5 DEF VerifierDecode, BigEndian
<1>. QED
    BY <1>4, <1>5

(* An exponent whose value fits a non-negative int is decoded exactly by   *)
(* both verifiers.                                                         *)
LEMMA DecodeExact ==
    ASSUME NEW bs \in Seq(Bytes), BigEndian(bs) < Half
    PROVE  /\ InfoDecode(bs) = BigEndian(bs)
           /\ VerifierDecode(bs) = BigEndian(bs)
<1>1. InfoDecode(bs) = BigEndian(bs)
    BY InfoNeverWraps DEF InfoDecode, BigEndian
<1>2. CASE Len(bs) \in {3, 4}
    BY <1>1, <1>2, ShortcutsBigEndian
<1>3. CASE Len(bs) \notin {3, 4}
    <2>1. BigEndian(bs) \in 0..(Half - 1)
        <3>1. BigEndian(bs) \in Nat
            BY PrefixValuesBounded DEF BigEndian
        <3>2. Half \in Nat
            BY PowersAssumption DEF Half
        <3>. QED
            BY <3>1, <3>2
    <2>2. WrapInt(BigEndian(bs)) = BigEndian(bs)
        BY <2>1, WrapSmall
    <2>. QED
        BY <1>1, <1>3, <2>2 DEF VerifierDecode
<1>. QED
    BY <1>1, <1>2, <1>3

(* Whenever the exponent's value fits a non-negative int, token-info's     *)
(* byte loop and the verifier's shortcuts and big.Int path all decode it   *)
(* exactly, for every byte width, int width and number of bytes.           *)
THEOREM DecodersExact == Spec => []DecodersExactWhenFits
<1>1. Inputs \subseteq Seq(Bytes)
    BY ExponentAssumption DEF Bytes, Radix
<1>2. eBytes \in Inputs => DecodersExactWhenFits
    BY <1>1, DecodeExact DEF DecodersExactWhenFits, Half
<1>3. Init => eBytes \in Inputs
    BY DEF Init
<1>4. eBytes \in Inputs /\ [Next]_eBytes => (eBytes \in Inputs)'
    BY DEF Next
<1>. QED
    BY <1>2, <1>3, <1>4, PTL DEF Spec
=============================================================================
