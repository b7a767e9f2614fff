--------------------------- MODULE PrefixInduction ---------------------------
(***************************************************************************)
(* Induction over the prefixes of a sequence, stated for a set of indices  *)
(* rather than for a predicate, so that the provers can use it: a set of   *)
(* indices that holds 0 and is closed under successor up to L holds every  *)
(* index up to L.  It follows from the well-foundedness of < on Nat (a     *)
(* least index missing from the set would have its predecessor in it).    *)
(* The proofs about Go's loops over slices and byte strings rest on it.    *)
(***************************************************************************)
EXTENDS Naturals, WellFoundedInduction, TLAPS

(* Induction up to a bound L, over a set S of natural numbers.             *)
LEMMA PrefixInduct ==
    ASSUME NEW L \in Nat, NEW S \in SUBSET Nat,
           0 \in S,
           \A n \in 0..(L - 1) : n \in S => n + 1 \in S
    PROVE  0..L \subseteq S
<1> DEFINE Missing == (0..L) \ S
<1>1. SUFFICES ASSUME Missing # {} PROVE FALSE
    OBVIOUS
<1>2. PICK x \in Missing : \A y \in Missing : ~(<<y, x>> \in OpToRel(<, Nat))
    <2>1. Missing \subseteq Nat
        OBVIOUS
    <2>. QED
        BY <1>1, <2>1, WFMin, NatLessThanWellFounded
<1>3. x # 0 /\ x - 1 \in Nat /\ x - 1 \in 0..(L - 1)
    OBVIOUS
<1>4. <<x - 1, x>> \in OpToRel(<, Nat)
    BY <1>3 DEF OpToRel
<1>5. x - 1 \notin Missing
    BY <1>2, <1>4
<1>6. x - 1 \in S
    BY <1>3, <1>5
<1>. QED
    BY <1>3, <1>6
=============================================================================
