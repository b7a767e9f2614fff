----------------------------- MODULE PolicyProofs -----------------------------
(***************************************************************************)
(* Proofs about the SASL verifier's audience and scope checks, for aud     *)
(* arrays and scp strings of any length (the run checks arrays of up to   *)
(* two elements and strings of up to four characters).                    *)
(*                                                                         *)
(* Audience: verifier.go builds the audiences slice by a loop that keeps  *)
(* the string elements of the array; AudiencePrefixes is that loop as a   *)
(* recursive function over the array's prefixes.  The proofs first show   *)
(* that this function exists (its defining equation holds), then, by      *)
(* induction over the prefixes, that it holds strings only and exactly    *)
(* the array's string elements.                                            *)
(*                                                                         *)
(* Scopes: FieldsScan is strings.Fields as a scan over the prefixes of    *)
(* scp.  The invariant of the scan (ScanInv): its words are the words a   *)
(* space has ended, and its cur is the run after the last space.  At the  *)
(* end, Fields adds that run; so its elements are exactly the spec's      *)
(* words (IsWordOf).                                                       *)
(***************************************************************************)
EXTENDS Policy, PrefixInduction, TLAPS

Elements == AudStrings \cup {NotString}

(* One iteration of the loop: the value of the function at index i, given  *)
(* its values g at the smaller indices.                                    *)
AudStep(arr, g, i) ==
    IF i = 0 THEN <<>>
    ELSE IF arr[i] # NotString THEN Append(g[i - 1], arr[i])
    ELSE g[i - 1]

(* A function on 0..n that satisfies the loop's equation.                  *)
LoopUpTo(arr, g, n) == g = [i \in 0..n |-> AudStep(arr, g, i)]

(* A solution on 0..n extends to one on 0..n+1.                            *)
LEMMA LoopExtends ==
    ASSUME NEW arr \in Seq(Elements), NEW n \in Nat, n + 1 <= Len(arr),
           NEW g, LoopUpTo(arr, g, n)
    PROVE  \E h : LoopUpTo(arr, h, n + 1)
<1> DEFINE h == [i \in 0..(n + 1) |-> IF i <= n THEN g[i] ELSE AudStep(arr, g, n + 1)]
<1>1. \A i \in 0..n : AudStep(arr, h, i) = AudStep(arr, g, i)
    BY DEF AudStep
<1>2. AudStep(arr, h, n + 1) = AudStep(arr, g, n + 1)
    BY DEF AudStep
<1>3. \A i \in 0..n : g[i] = AudStep(arr, g, i)
    BY DEF LoopUpTo
<1>4. LoopUpTo(arr, h, n + 1)
    BY <1>1, <1>2, <1>3 DEF LoopUpTo
<1>. QED
    BY <1>4

(* The loop's recursive function is well defined: its equation holds.      *)
LEMMA AudiencePrefixesDef ==
    ASSUME NEW arr \in Seq(Elements)
    PROVE  LoopUpTo(arr, AudiencePrefixes(arr), Len(arr))
<1> DEFINE Solvable == {n \in Nat : n <= Len(arr) => \E g : LoopUpTo(arr, g, n)}
<1>1. 0 \in Solvable
    <2>1. LoopUpTo(arr, [i \in 0..0 |-> <<>>], 0)
        BY DEF LoopUpTo, AudStep
    <2>. QED
        BY <2>1
<1>2. \A n \in 0..(Len(arr) - 1) : n \in Solvable => n + 1 \in Solvable
    BY LoopExtends
<1>3. Len(arr) \in Solvable
    <2>1. Len(arr) \in Nat /\ Solvable \in SUBSET Nat
        OBVIOUS
    <2>2. 0..Len(arr) \subseteq Solvable
        BY <1>1, <1>2, <2>1, PrefixInduct
    <2>. QED
        BY <2>1, <2>2
<1>4. \E g : g = [i \in 0..Len(arr) |-> AudStep(arr, g, i)]
    BY <1>3 DEF LoopUpTo
<1>. QED
    BY <1>4 DEF AudiencePrefixes, LoopUpTo, AudStep

(* The elements of a sequence with one more element appended.              *)
LEMMA ElemsAppend ==
    ASSUME NEW S, NEW s \in Seq(S), NEW x
    PROVE  SeqElems(Append(s, x)) = SeqElems(s) \cup {x}
BY DEF SeqElems

(* After i iterations the slice holds strings only, and exactly the        *)
(* string elements among the array's first i.                              *)
AudiencesInvariant(arr, i) ==
    /\ AudiencePrefixes(arr)[i] \in Seq(AudStrings)
    /\ SeqElems(AudiencePrefixes(arr)[i]) = {arr[j] : j \in 1..i} \ {NotString}

LEMMA AudiencesKeepStrings ==
    ASSUME NEW arr \in Seq(Elements)
    PROVE  \A i \in 0..Len(arr) : AudiencesInvariant(arr, i)
<1> DEFINE A == AudiencePrefixes(arr)
           Good == {n \in Nat : n <= Len(arr) => AudiencesInvariant(arr, n)}
<1>1. ASSUME NEW i \in 0..Len(arr) PROVE A[i] = AudStep(arr, A, i)
    BY AudiencePrefixesDef DEF LoopUpTo
<1>2. 0 \in Good
    <2>1. A[0] = <<>>
        BY <1>1 DEF AudStep
    <2>2. {arr[j] : j \in 1..0} \ {NotString} = {}
        OBVIOUS
    <2>3. SeqElems(A[0]) = {}
        BY <2>1 DEF SeqElems
    <2>4. A[0] \in Seq(AudStrings)
        BY <2>1
    <2>5. AudiencesInvariant(arr, 0)
        BY <2>2, <2>3, <2>4 DEF AudiencesInvariant
    <2>. QED
        BY <2>5
<1>3. ASSUME NEW n \in 0..(Len(arr) - 1), n \in Good PROVE n + 1 \in Good
    <2>1. AudiencesInvariant(arr, n)
        BY <1>3
    <2>2. {arr[j] : j \in 1..(n + 1)} = {arr[j] : j \in 1..n} \cup {arr[n + 1]}
        OBVIOUS
    <2>3. arr[n + 1] \in Elements
        OBVIOUS
    <2>4. CASE arr[n + 1] # NotString
        <3>1. A[n + 1] = Append(A[n], arr[n + 1])
            <4>1. A[n + 1] = AudStep(arr, A, n + 1)
                BY <1>1
            <4>. QED
                BY <4>1, <2>4 DEF AudStep
        <3>2. SeqElems(A[n + 1]) = SeqElems(A[n]) \cup {arr[n + 1]}
            BY <3>1, <2>1, ElemsAppend DEF AudiencesInvariant
        <3>3. A[n + 1] \in Seq(AudStrings)
            BY <3>1, <2>1, <2>3, <2>4 DEF AudiencesInvariant, Elements
        <3>. QED
            BY <2>1, <2>2, <2>4, <3>2, <3>3 DEF AudiencesInvariant
    <2>5. CASE arr[n + 1] = NotString
        <3>1. A[n + 1] = A[n]
            <4>1. A[n + 1] = AudStep(arr, A, n + 1)
                BY <1>1
            <4>. QED
                BY <4>1, <2>5 DEF AudStep
        <3>. QED
            BY <2>1, <2>2, <2>5, <3>1 DEF AudiencesInvariant
    <2>. QED
        BY <2>4, <2>5
<1>4. 0..Len(arr) \subseteq Good
    <2>1. Len(arr) \in Nat /\ Good \in SUBSET Nat
        OBVIOUS
    <2>. QED
        BY <1>2, <1>3, <2>1, PrefixInduct
<1>. QED
    BY <1>4

(* The set of audiences the spec's CHECK_AUDIENCE compares with the client *)
(* id (the LET of SpecAudienceOK).                                         *)
SpecAuds(aud) ==
    CASE aud.kind = "string" -> {aud.v}
      [] aud.kind = "array"  -> SeqElems(aud.v) \ {NotString}
      [] OTHER               -> {}

(* verifier.go's audiences slice, for every aud claim, holds strings only  *)
(* and exactly the audiences the spec names.                               *)
LEMMA AudiencesOfClaim ==
    ASSUME NEW aud \in AudClaims
    PROVE  /\ VerifierAudiences(aud) \in Seq(AudStrings)
           /\ SeqElems(VerifierAudiences(aud)) = SpecAuds(aud)
<1>1. CASE aud.kind = "string"
    <2>1. aud.v \in AudStrings
        BY <1>1 DEF AudClaims
    <2>. QED
        BY <1>1, <2>1 DEF VerifierAudiences, SpecAuds, SeqElems
<1>2. CASE aud.kind = "array"
    <2>1. aud.v \in Seq(Elements)
        BY <1>2, PolicyAssumption DEF AudClaims, Elements
    <2>2. AudiencesInvariant(aud.v, Len(aud.v))
        BY <2>1, AudiencesKeepStrings
    <2>3. {aud.v[j] : j \in 1..Len(aud.v)} = SeqElems(aud.v)
        BY <2>1 DEF SeqElems
    <2>4. VerifierAudiences(aud) = AudiencePrefixes(aud.v)[Len(aud.v)]
        BY <1>2 DEF VerifierAudiences
    <2>5. SpecAuds(aud) = SeqElems(aud.v) \ {NotString}
        BY <1>2 DEF SpecAuds
    <2>. QED
        BY <2>2, <2>3, <2>4, <2>5 DEF AudiencesInvariant
<1>3. CASE aud.kind # "string" /\ aud.kind # "array"
    BY <1>3 DEF VerifierAudiences, SpecAuds, SeqElems
<1>. QED
    BY <1>1, <1>2, <1>3

(* The verifier's audience check decides every aud claim as the spec's     *)
(* does: a slice with the client id or its api:// form among its values.   *)
LEMMA AudienceCase ==
    ASSUME NEW aud \in AudClaims, NEW c
    PROVE  VerifierHasValidAudience(VerifierAudiences(aud), c) <=> SpecAudienceOK(aud, c)
<1>1. VerifierHasValidAudience(VerifierAudiences(aud), c)
        <=> (c \in SeqElems(VerifierAudiences(aud))
             \/ <<ApiScheme>> \o c \in SeqElems(VerifierAudiences(aud)))
    BY DEF VerifierHasValidAudience, SeqElems
<1>2. SpecAudienceOK(aud, c) <=> (c \in SpecAuds(aud) \/ <<ApiScheme>> \o c \in SpecAuds(aud))
    BY DEF SpecAudienceOK, SpecAuds
<1>. QED
    BY <1>1, <1>2, AudiencesOfClaim

(* The harness keeps its input, so each invariant holds of every state     *)
(* when it holds of every case.                                            *)
LEMMA InputKept == Spec => [](input \in Cases)
<1>1. Init => input \in Cases
    BY DEF Init
<1>2. input \in Cases /\ [Next]_input => (input \in Cases)'
    BY DEF Next
<1>. QED
    BY <1>1, <1>2, PTL DEF Spec

(* The audience list the SASL verifier hands to hasValidAudience holds     *)
(* strings only, for aud arrays of every length.                           *)
THEOREM TypeCorrect == Spec => []TypeOK
<1>1. input \in Cases => TypeOK
    <2> SUFFICES ASSUME input \in Cases, input.check = "audience"
                 PROVE  VerifierAudiences(input.aud) \in Seq(AudStrings)
        BY DEF TypeOK
    <2>1. input.aud \in AudClaims
        BY DEF Cases, AudienceCases, IssuerCases, ScopeCases
    <2>. QED
        BY <2>1, AudiencesOfClaim
<1>. QED
    BY InputKept, <1>1, PTL

(* The SASL verifier's audience check (the loop over an aud array, then    *)
(* hasValidAudience) is the spec's CHECK_AUDIENCE, for every aud claim     *)
(* and every client id.                                                    *)
THEOREM AudienceMatchesSpec == Spec => []VerifierAudienceMatchesSpec
<1>1. input \in Cases => VerifierAudienceMatchesSpec
    BY AudienceCase DEF VerifierAudienceMatchesSpec, Cases, AudienceCases,
                        IssuerCases, ScopeCases
<1>. QED
    BY InputKept, <1>1, PTL

-----------------------------------------------------------------------------
(* Scopes: strings.Fields against the spec's words, for scp strings of     *)
(* every length.                                                           *)

ScanInit == [words |-> <<>>, cur |-> <<>>]
ScanStep(s, g, i) == IF i = 0 THEN ScanInit ELSE FieldsStep(g[i - 1], s[i])
ScanLoop(s, g, n) == g = [i \in 0..n |-> ScanStep(s, g, i)]

(* The scan's recursive function is well defined.                          *)
LEMMA FieldsScanDef ==
    ASSUME NEW C, NEW s \in Seq(C)
    PROVE  ScanLoop(s, FieldsScan(s), Len(s))
<1> DEFINE Solvable == {n \in Nat : n <= Len(s) => \E g : ScanLoop(s, g, n)}
<1>1. 0 \in Solvable
    <2>1. ScanLoop(s, [i \in 0..0 |-> ScanInit], 0)
        BY DEF ScanLoop, ScanStep
    <2>. QED
        BY <2>1
<1>2. ASSUME NEW n \in 0..(Len(s) - 1), n \in Solvable PROVE n + 1 \in Solvable
    <2>1. PICK g : ScanLoop(s, g, n)
        BY <1>2
    <2> DEFINE h == [i \in 0..(n + 1) |-> IF i <= n THEN g[i] ELSE ScanStep(s, g, n + 1)]
    <2>2. \A i \in 0..(n + 1) : ScanStep(s, h, i) = IF i <= n THEN ScanStep(s, g, i) ELSE ScanStep(s, g, n + 1)
        BY DEF ScanStep
    <2>3. ScanLoop(s, h, n + 1)
        BY <2>1, <2>2 DEF ScanLoop
    <2>. QED
        BY <2>3
<1>3. 0..Len(s) \subseteq Solvable
    <2>1. Len(s) \in Nat /\ Solvable \in SUBSET Nat
        OBVIOUS
    <2>. QED
        BY <1>1, <1>2, <2>1, PrefixInduct
<1>4. \E g : g = [i \in 0..Len(s) |-> ScanStep(s, g, i)]
    BY <1>3 DEF ScanLoop
<1>. QED
    BY <1>4 DEF FieldsScan, ScanLoop, ScanStep, ScanInit

(* A segment of a sequence extended by the next element.                   *)
LEMMA SubSeqExtend ==
    ASSUME NEW C, NEW s \in Seq(C), NEW a \in Nat \ {0}, NEW n \in Nat,
           a <= n + 1, n + 1 <= Len(s)
    PROVE  SubSeq(s, a, n + 1) = Append(SubSeq(s, a, n), s[n + 1])
OBVIOUS

(* An empty segment.                                                       *)
LEMMA SubSeqEmpty ==
    ASSUME NEW C, NEW s \in Seq(C), NEW a \in Nat \ {0}
    PROVE  SubSeq(s, a, a - 1) = <<>>
OBVIOUS

(* The characters a..b of s are no spaces.                                 *)
NoSpace(s, a, b) == \A j \in a..b : s[j] # Space

(* a..b is a non-empty run of non-space characters that starts s or       *)
(* follows a space.                                                        *)
Run(s, a, b) ==
    /\ a <= b
    /\ NoSpace(s, a, b)
    /\ a = 1 \/ s[a - 1] = Space

(* w is a word of the first n characters of s that a space ends.           *)
CompleteWord(w, s, n) ==
    \E a, b \in 1..n : /\ Run(s, a, b)
                      /\ b < n /\ s[b + 1] = Space
                      /\ w = SubSeq(s, a, b)

(* t is the last space among the first n characters (0 when none).        *)
TrailStart(s, n, t) ==
    /\ t \in 0..n
    /\ t = 0 \/ s[t] = Space
    /\ NoSpace(s, t + 1, n)

(* After n characters the scan is a record whose words are the words a    *)
(* space has ended and whose cur is the run after the last space.          *)
ScanInv(C, s, n) ==
    LET acc == FieldsScan(s)[n]
    IN  /\ acc = [words |-> acc.words, cur |-> acc.cur]
        /\ acc.words \in Seq(Seq(C))
        /\ \E t : TrailStart(s, n, t) /\ acc.cur = SubSeq(s, t + 1, n)
        /\ \A w : w \in SeqElems(acc.words) <=> CompleteWord(w, s, n)

(* A run that reaches the n-th character starts right after the last      *)
(* space.                                                                  *)
LEMMA RunStartsAfterLastSpace ==
    ASSUME NEW C, NEW s \in Seq(C), NEW n \in 0..Len(s), NEW t, NEW a \in 1..n,
           TrailStart(s, n, t), Run(s, a, n)
    PROVE  a = t + 1
<1>1. t \in 0..n
    BY DEF TrailStart
<1>2. CASE a - 1 < t
    <2>1. t \in a..n /\ t # 0
        BY <1>1, <1>2
    <2>. QED
        BY <2>1 DEF TrailStart, Run, NoSpace
<1>3. CASE a - 1 > t
    <2>1. a - 1 \in (t + 1)..n /\ a # 1
        BY <1>1, <1>3
    <2>. QED
        BY <2>1 DEF TrailStart, Run, NoSpace
<1>. QED
    BY <1>1, <1>2, <1>3

(* The scan starts with no words and an empty run.                         *)
LEMMA ScanInvInit ==
    ASSUME NEW C, NEW s \in Seq(C)
    PROVE  ScanInv(C, s, 0)
<1>1. FieldsScan(s)[0] = ScanInit
    BY FieldsScanDef DEF ScanLoop, ScanStep
<1>2. TrailStart(s, 0, 0) /\ SubSeq(s, 1, 0) = <<>>
    BY DEF TrailStart, NoSpace
<1>3. \A w : ~CompleteWord(w, s, 0)
    BY DEF CompleteWord
<1>. QED
    BY <1>1, <1>2, <1>3 DEF ScanInv, ScanInit, SeqElems

(* One character keeps the scan's invariant.                               *)
LEMMA ScanInvStep ==
    ASSUME NEW C, NEW s \in Seq(C), NEW n \in 0..(Len(s) - 1), ScanInv(C, s, n)
    PROVE  ScanInv(C, s, n + 1)
<1> DEFINE acc == FieldsScan(s)[n]
           nxt == FieldsScan(s)[n + 1]
           c == s[n + 1]
<1> DEFINE Good(r) ==
        /\ r = [words |-> r.words, cur |-> r.cur]
        /\ r.words \in Seq(Seq(C))
        /\ \E u : TrailStart(s, n + 1, u) /\ r.cur = SubSeq(s, u + 1, n + 1)
        /\ \A w : w \in SeqElems(r.words) <=> CompleteWord(w, s, n + 1)
<1>0. SUFFICES Good(nxt)
    BY DEF ScanInv
<1>1. nxt = FieldsStep(acc, c)
    BY FieldsScanDef DEF ScanLoop, ScanStep
<1>2. PICK t : TrailStart(s, n, t) /\ acc.cur = SubSeq(s, t + 1, n)
    BY DEF ScanInv
<1>3. acc = [words |-> acc.words, cur |-> acc.cur] /\ acc.words \in Seq(Seq(C))
      /\ \A w : w \in SeqElems(acc.words) <=> CompleteWord(w, s, n)
    BY DEF ScanInv
<1>4. t \in 0..n /\ acc.cur \in Seq(C) /\ Len(acc.cur) = n - t
    BY <1>2 DEF TrailStart
(* A word that a space ends within n + 1 characters ends within n, or it  *)
(* is the run before the (n+1)-th character, which must then be a space.  *)
<1>5. ASSUME NEW w
      PROVE  CompleteWord(w, s, n + 1)
               <=> \/ CompleteWord(w, s, n)
                   \/ \E a \in 1..n : Run(s, a, n) /\ c = Space /\ w = SubSeq(s, a, n)
    <2>1. ASSUME CompleteWord(w, s, n + 1)
          PROVE  \/ CompleteWord(w, s, n)
                 \/ \E a \in 1..n : Run(s, a, n) /\ c = Space /\ w = SubSeq(s, a, n)
        <3>1. PICK a, b \in 1..(n + 1) : /\ Run(s, a, b)
                                         /\ b < n + 1 /\ s[b + 1] = Space
                                         /\ w = SubSeq(s, a, b)
            BY <2>1 DEF CompleteWord
        <3>2. CASE b < n
            <4>1. a \in 1..n /\ b \in 1..n
                BY <3>1, <3>2 DEF Run
            <4>. QED
                BY <3>1, <3>2, <4>1 DEF CompleteWord
        <3>3. CASE b = n
            <4>1. a \in 1..n
                BY <3>1, <3>3 DEF Run
            <4>. QED
                BY <3>1, <3>3, <4>1
        <3>. QED
            BY <3>1, <3>2, <3>3
    <2>2. ASSUME CompleteWord(w, s, n) PROVE CompleteWord(w, s, n + 1)
        <3>1. PICK a, b \in 1..n : /\ Run(s, a, b)
                                   /\ b < n /\ s[b + 1] = Space
                                   /\ w = SubSeq(s, a, b)
            BY <2>2 DEF CompleteWord
        <3>. QED
            BY <3>1 DEF CompleteWord
    <2>3. ASSUME NEW a \in 1..n, Run(s, a, n), c = Space, w = SubSeq(s, a, n)
          PROVE  CompleteWord(w, s, n + 1)
        BY <2>3 DEF CompleteWord
    <2>. QED
        BY <2>1, <2>2, <2>3
(* A run that reaches the n-th character is the current run.               *)
<1>6. ASSUME NEW a \in 1..n, Run(s, a, n) PROVE SubSeq(s, a, n) = acc.cur /\ acc.cur # <<>>
    <2>1. a = t + 1
        BY <1>2, <1>6, RunStartsAfterLastSpace
    <2>2. t + 1 <= n
        BY <2>1
    <2>3. Len(acc.cur) > 0
        BY <1>4, <2>2
    <2>4. SubSeq(s, a, n) = acc.cur
        BY <1>2, <2>1
    <2>5. acc.cur # <<>>
        BY <1>4, <2>3
    <2>. QED
        BY <2>4, <2>5
(* The current run, when not empty, is a run that reaches the n-th one.    *)
<1>7. acc.cur # <<>> => t + 1 \in 1..n /\ Run(s, t + 1, n)
    BY <1>2, <1>4 DEF TrailStart, Run
<1>8. CASE c = Space /\ acc.cur = <<>>
    <2>1. nxt = acc
        BY <1>1, <1>8 DEF FieldsStep
    <2>2. TrailStart(s, n + 1, n + 1) /\ acc.cur = SubSeq(s, n + 2, n + 1)
        BY <1>8 DEF TrailStart, NoSpace
    <2>3. \A w : CompleteWord(w, s, n + 1) <=> CompleteWord(w, s, n)
        BY <1>5, <1>6, <1>8
    <2>. QED
        BY <1>3, <2>1, <2>2, <2>3
<1>9. CASE c = Space /\ acc.cur # <<>>
    <2>1. nxt = [words |-> Append(acc.words, acc.cur), cur |-> <<>>]
        BY <1>1, <1>9 DEF FieldsStep
    <2>2. TrailStart(s, n + 1, n + 1) /\ <<>> = SubSeq(s, n + 2, n + 1)
        BY <1>9 DEF TrailStart, NoSpace
    <2>3. SeqElems(Append(acc.words, acc.cur)) = SeqElems(acc.words) \cup {acc.cur}
        BY <1>3, ElemsAppend
    <2>4. \A w : CompleteWord(w, s, n + 1) <=> CompleteWord(w, s, n) \/ w = acc.cur
        BY <1>5, <1>6, <1>7, <1>9
    <2>5. Append(acc.words, acc.cur) \in Seq(Seq(C))
        BY <1>3, <1>4
    <2>6. \A w : w \in SeqElems(nxt.words) <=> CompleteWord(w, s, n + 1)
        BY <1>3, <2>1, <2>3, <2>4
    <2>. QED
        BY <2>1, <2>2, <2>5, <2>6
<1>10. CASE c # Space
    <2>1. nxt = [words |-> acc.words, cur |-> Append(acc.cur, c)]
        BY <1>1, <1>3, <1>10 DEF FieldsStep
    <2>2. TrailStart(s, n + 1, t)
        BY <1>2, <1>10 DEF TrailStart, NoSpace
    <2>3. Append(acc.cur, c) = SubSeq(s, t + 1, n + 1)
        BY <1>2, <1>4, SubSeqExtend
    <2>4. \A w : CompleteWord(w, s, n + 1) <=> CompleteWord(w, s, n)
        BY <1>5, <1>10
    <2>5. nxt.words = acc.words /\ nxt.cur = SubSeq(s, t + 1, n + 1)
        <3>1. nxt.words = acc.words /\ nxt.cur = Append(acc.cur, c)
            BY <2>1
        <3>. QED
            BY <3>1, <2>3
    <2>6. \A w : w \in SeqElems(nxt.words) <=> CompleteWord(w, s, n + 1)
        BY <1>3, <2>4, <2>5
    <2>. QED
        BY <1>3, <2>1, <2>2, <2>5, <2>6
<1>. QED
    BY <1>8, <1>9, <1>10

(* The invariant holds after every prefix.                                 *)
LEMMA ScanInvAll ==
    ASSUME NEW C, NEW s \in Seq(C)
    PROVE  ScanInv(C, s, Len(s))
<1> DEFINE Good == {n \in Nat : n <= Len(s) => ScanInv(C, s, n)}
<1>1. 0 \in Good
    BY ScanInvInit
<1>2. \A n \in 0..(Len(s) - 1) : n \in Good => n + 1 \in Good
    BY ScanInvStep
<1>3. Len(s) \in Nat /\ Good \in SUBSET Nat
    OBVIOUS
<1>4. 0..Len(s) \subseteq Good
    BY <1>1, <1>2, <1>3, PrefixInduct
<1>. QED
    BY <1>3, <1>4

(* strings.Fields returns exactly the spec's words of s: the non-empty,    *)
(* space-free segments with a space or an end of s on both sides.          *)
LEMMA FieldsAreWords ==
    ASSUME NEW C, NEW s \in Seq(C), NEW w
    PROVE  w \in SeqElems(Fields(s)) <=> IsWordOf(w, s)
<1> DEFINE L == Len(s)
           acc == FieldsScan(s)[L]
<1>1. acc.words \in Seq(Seq(C))
      /\ \A v : v \in SeqElems(acc.words) <=> CompleteWord(v, s, L)
    BY ScanInvAll DEF ScanInv
<1>2. PICK t : TrailStart(s, L, t) /\ acc.cur = SubSeq(s, t + 1, L)
    BY ScanInvAll DEF ScanInv
<1>3. t \in 0..L /\ acc.cur \in Seq(C) /\ Len(acc.cur) = L - t
    BY <1>2 DEF TrailStart
<1>4. w \in SeqElems(Fields(s)) <=> CompleteWord(w, s, L) \/ (acc.cur # <<>> /\ w = acc.cur)
    <2>1. CASE acc.cur = <<>>
        BY <1>1, <2>1 DEF Fields
    <2>2. CASE acc.cur # <<>>
        <3>1. SeqElems(Fields(s)) = SeqElems(acc.words) \cup {acc.cur}
            BY <1>1, <2>2, ElemsAppend DEF Fields
        <3>. QED
            BY <1>1, <2>2, <3>1
    <2>. QED
        BY <2>1, <2>2
(* A word that a space ends is a word of s.                               *)
<1>5. ASSUME CompleteWord(w, s, L) PROVE IsWordOf(w, s)
    <2>1. PICK a, b \in 1..L : /\ Run(s, a, b)
                               /\ b < L /\ s[b + 1] = Space
                               /\ w = SubSeq(s, a, b)
        BY <1>5 DEF CompleteWord
    <2>2. Len(w) = b - a + 1 /\ w # <<>>
        BY <2>1 DEF Run
    <2>3. \A i \in DOMAIN w : w[i] # Space
        BY <2>1 DEF Run, NoSpace
    <2>4. a - 1 \in 0..(L - Len(w)) /\ SubSeq(s, a - 1 + 1, a - 1 + Len(w)) = w
        BY <2>1, <2>2
    <2>5. (a - 1 = 0 \/ s[a - 1] = Space) /\ s[a - 1 + Len(w) + 1] = Space
        BY <2>1, <2>2 DEF Run
    <2>. QED
        BY <2>2, <2>3, <2>4, <2>5 DEF IsWordOf
(* The run after the last space, when not empty, is a word of s.          *)
<1>6. ASSUME acc.cur # <<>>, w = acc.cur PROVE IsWordOf(w, s)
    <2>1. Len(w) = L - t /\ Len(w) > 0
        BY <1>3, <1>6
    <2>2. \A i \in DOMAIN w : w[i] # Space
        BY <1>2, <1>3, <1>6 DEF TrailStart, NoSpace
    <2>3. t \in 0..(L - Len(w)) /\ SubSeq(s, t + 1, t + Len(w)) = w /\ t + Len(w) = L
        BY <1>2, <1>3, <1>6, <2>1
    <2>4. t = 0 \/ s[t] = Space
        BY <1>2 DEF TrailStart
    <2>5. /\ SubSeq(s, t + 1, t + Len(w)) = w
          /\ t = 0 \/ s[t] = Space
          /\ t + Len(w) = Len(s) \/ s[t + Len(w) + 1] = Space
        BY <2>3, <2>4
    <2>6. w # <<>>
        BY <1>6
    <2>. QED
        BY <2>2, <2>3, <2>5, <2>6 DEF IsWordOf
(* A word of s is ended by a space, or it is the run after the last one.  *)
<1>7. ASSUME IsWordOf(w, s) PROVE CompleteWord(w, s, L) \/ (acc.cur # <<>> /\ w = acc.cur)
    <2>1. PICK i \in 0..(L - Len(w)) :
                 /\ SubSeq(s, i + 1, i + Len(w)) = w
                 /\ i = 0 \/ s[i] = Space
                 /\ i + Len(w) = L \/ s[i + Len(w) + 1] = Space
        BY <1>7 DEF IsWordOf
    <2>2. w # <<>> /\ \A k \in DOMAIN w : w[k] # Space
        BY <1>7 DEF IsWordOf
    <2> DEFINE a == i + 1
               b == i + Len(w)
    <2>3. Len(w) \in Nat /\ Len(w) > 0 /\ a \in 1..L /\ b \in 1..L /\ a <= b
        BY <2>1, <2>2
    <2>4. \A j \in a..b : s[j] = w[j - i]
        BY <2>1, <2>3
    <2>5. Run(s, a, b)
        BY <2>1, <2>2, <2>3, <2>4 DEF Run, NoSpace
    <2>6. CASE b = L
        <3>1. a = t + 1
            BY <1>2, <2>3, <2>5, <2>6, RunStartsAfterLastSpace
        <3>2. w = acc.cur /\ acc.cur # <<>>
            BY <1>2, <2>1, <2>2, <2>6, <3>1
        <3>. QED
            BY <3>2
    <2>7. CASE b # L
        <3>1. b < L /\ s[b + 1] = Space
            BY <2>1, <2>3, <2>7
        <3>. QED
            BY <2>1, <2>3, <2>5, <3>1 DEF CompleteWord
    <2>. QED
        BY <2>6, <2>7
<1>. QED
    BY <1>4, <1>5, <1>6, <1>7

(* The scope check decides every scp claim and required list as the spec's *)
(* CHECK_SCOPES does.                                                      *)
LEMMA ScopesCase ==
    ASSUME NEW scp \in Scps \cup {NotString}, NEW required
    PROVE  VerifierScopesOK(scp, required) <=> SpecScopesOK(scp, required)
<1>1. CASE scp = NotString
    <2>1. SeqElems(VerifierScopes(scp)) = {}
        BY <1>1 DEF VerifierScopes, SeqElems
    <2>. QED
        BY <1>1, <2>1 DEF VerifierScopesOK, SpecScopesOK
<1>2. CASE scp \in Scps
    <2> DEFINE C == {scp[i] : i \in DOMAIN scp}
    <2>1. scp \in Seq(C) /\ scp # NotString
        BY <1>2, PolicyAssumption
    <2>2. \A w : w \in SeqElems(VerifierScopes(scp)) <=> IsWordOf(w, scp)
        BY <2>1, FieldsAreWords DEF VerifierScopes
    <2>. QED
        BY <2>1, <2>2 DEF VerifierScopesOK, SpecScopesOK
<1>. QED
    BY <1>1, <1>2

(* The SASL verifier's scope check (strings.Fields, then every required    *)
(* scope present, behind len(RequiredScopes) > 0) is the spec's            *)
(* CHECK_SCOPES, for scp strings of every length and every required list.  *)
THEOREM ScopesMatchSpec == Spec => []VerifierScopesMatchSpec
<1>1. input \in Cases => VerifierScopesMatchSpec
    <2> SUFFICES ASSUME input \in Cases, input.check = "scopes"
                 PROVE  VerifierScopesOK(input.scp, input.required)
                            <=> SpecScopesOK(input.scp, input.required)
        BY DEF VerifierScopesMatchSpec
    <2>1. input.scp \in Scps \cup {NotString}
        BY DEF Cases, AudienceCases, IssuerCases, ScopeCases
    <2>. QED
        BY <2>1, ScopesCase
<1>. QED
    BY InputKept, <1>1, PTL
=============================================================================
