-------------------------- MODULE KeySourceProofs --------------------------
(***************************************************************************)
(* Facts about the identity provider and the clock (KeySource) that the    *)
(* proofs of both key caches rest on: a served document yields kids; the   *)
(* keys published now were last published now, and no kid was last        *)
(* published in the future; and the clock's tick and a rotation keep these *)
(* facts and never move a kid's last publication back.                     *)
(***************************************************************************)
EXTENDS KeySource, TLAPS

(* The keys a served document yields are kids.                            *)
LEMMA UsableKids ==
    ASSUME NEW doc \in Docs
    PROVE  Usable(doc) \subseteq Kid
BY DocsAssumption DEF Usable, Entries

PublishedNow == \A k \in Usable(published) : lastPublished[k] = now
PublishedPast == \A k \in Kid : lastPublished[k] <= now

KSInv == KSTypeOK /\ PublishedNow /\ PublishedPast

(* A kid's last publication never moves back.                              *)
PublishedMonotone == \A k \in Kid : lastPublished'[k] >= lastPublished[k]

(* The initial state satisfies the key source's invariant.                 *)
LEMMA KSInitInv == ksInit => KSInv
<1> SUFFICES ASSUME ksInit PROVE KSInv
    OBVIOUS
<1>1. Usable(published) \subseteq Kid
    BY UsableKids DEF ksInit
<1>2. 0 \in Time /\ NotYet \in Time
    BY CacheExpirationAssumption, MaxTimeAssumption DEF Time, NotYet
<1>. QED
    BY <1>1, <1>2, CacheExpirationAssumption, MaxTimeAssumption
       DEF ksInit, KSInv, KSTypeOK, PublishedNow, PublishedPast, NotYet

(* A tick of the clock keeps the invariant; the kids published during it  *)
(* are last published at the new time.                                    *)
LEMMA TickKSInv == KSInv /\ Tick => KSInv' /\ PublishedMonotone
<1> SUFFICES ASSUME KSInv, Tick PROVE KSInv' /\ PublishedMonotone
    OBVIOUS
<1>1. Usable(published) \subseteq Kid
    BY UsableKids DEF KSInv, KSTypeOK
<1>2. now + 1 \in 0..MaxTime /\ now + 1 \in Time
    BY CacheExpirationAssumption, MaxTimeAssumption DEF Tick, KSInv, KSTypeOK, Time, NotYet
<1>. QED
    BY <1>1, <1>2 DEF Tick, KSInv, KSTypeOK, PublishedNow, PublishedPast,
                      PublishedMonotone, Time, NotYet

(* A rotation keeps the invariant: the new document's kids are last        *)
(* published now.                                                          *)
LEMMA RotateKSInv ==
    ASSUME NEW doc \in Docs
    PROVE  KSInv /\ Rotate(doc) => KSInv' /\ PublishedMonotone
<1> SUFFICES ASSUME KSInv, Rotate(doc) PROVE KSInv' /\ PublishedMonotone
    OBVIOUS
<1>1. Usable(doc) \subseteq Kid
    BY UsableKids
<1>2. now \in Time
    BY CacheExpirationAssumption DEF KSInv, KSTypeOK, Time, NotYet
<1>. QED
    BY <1>1, <1>2 DEF Rotate, KSInv, KSTypeOK, PublishedNow, PublishedPast,
                      PublishedMonotone, Time, NotYet
=============================================================================
