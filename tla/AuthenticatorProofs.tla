------------------------- MODULE AuthenticatorProofs -------------------------
(***************************************************************************)
(* Proofs about the SASL entry point (Authenticator), for every number of  *)
(* concurrent calls: the state stays type-correct (a delegated call holds  *)
(* an authenticator), and no call ever reaches VerifyToken through a nil   *)
(* verifier, however the lazy initialisations interleave; a call is        *)
(* accepted only by the mode its password selects; and the entry point    *)
(* implements the contract of spec 4.4 (SASLAuthenticator).                *)
(*                                                                         *)
(* The authenticator ids stay within 1..NReq because only calls that saw  *)
(* a nil factory field go on to create one, and each creates one at most:  *)
(* nAuth plus the calls about to create never exceeds NReq.  The verifier  *)
(* field of an authenticator is only ever written with a new, non-zero id. *)
(***************************************************************************)
EXTENDS Authenticator, FiniteSetTheorems, TLAPS

(* Calls that saw a nil factory field and are about to create one.         *)
Creating == {r \in Req : pc[r] = "factoryCreate"}

AuthCount ==
    /\ authField = nAuth
    /\ nAuth + Cardinality(Creating) <= NReq

DelegateHasAuth == \A r \in Req : pc[r] = "delegate" => authField \in AuthIds

IInv == TypeOK /\ AuthCount /\ DelegateHasAuth /\ NoNilVerifier

(* The number of calls is a natural number, and so is every count of them. *)
LEMMA NReqType ==
    /\ NReq \in Nat
    /\ \A S \in SUBSET Req : IsFiniteSet(S) /\ Cardinality(S) \in 0..NReq
BY AuthenticatorAssumption, FS_CardinalityType, FS_Subset DEF NReq

(* Init satisfies the inductive invariant.                                 *)
LEMMA InitIInv == Init => IInv
<1> SUFFICES ASSUME Init PROVE IInv
    OBVIOUS
<1>1. Creating = {}
    BY DEF Init, Creating
<1>2. Cardinality(Creating) = 0
    BY <1>1, FS_EmptySet
<1>3. (CHOOSE u \in Users : TRUE) \in Users /\ (CHOOSE s \in Secrets : TRUE) \in Secrets
    <2>1. Secrets # {}
        <3>1. PICK v \in Vals : TRUE
            BY AuthenticatorAssumption
        <3>2. [prefix |-> FALSE, dots |-> 0, val |-> v] \in Secrets
            BY <3>1 DEF Secrets
        <3>. QED
            BY <3>2
    <2>2. Users # {}
        BY AuthenticatorAssumption
    <2>. QED
        BY <2>1, <2>2
<1>. QED
    BY <1>2, <1>3, NReqType
       DEF Init, IInv, TypeOK, AuthCount, DelegateHasAuth, NoNilVerifier, PC, Delegated

(* Every step preserves the inductive invariant: one step per action.      *)
LEMMA NextIInv == IInv /\ [Next]_vars => IInv'
<1> SUFFICES ASSUME IInv, [Next]_vars PROVE IInv'
    OBVIOUS
<1>. USE NReqType
<1>. USE DEF IInv, TypeOK, AuthCount, DelegateHasAuth, NoNilVerifier, PC, Delegated, AuthIds
<1>0. IsFiniteSet(Creating) /\ Cardinality(Creating) \in 0..NReq
    BY DEF Creating
<1>1. ASSUME NEW r \in Req, NEW u \in Users, NEW s \in Secrets, Start(r, u, s) PROVE IInv'
    <2>1. Creating' = Creating
        BY <1>1 DEF Start, Creating
    <2>. QED
        BY <1>1, <2>1 DEF Start
<1>2. ASSUME NEW r \in Req, FactoryCheck(r) PROVE IInv'
    <2>1. CASE authField = 0
        <3>1. Creating' = Creating \cup {r}
            BY <1>2, <2>1 DEF FactoryCheck, Creating
        <3>2. Cardinality(Creating') \in 0..NReq
            BY <3>1 DEF Creating
        <3>. QED
            BY <1>2, <2>1, <3>2 DEF FactoryCheck
    <2>2. CASE authField # 0
        <3>1. Creating' = Creating
            BY <1>2, <2>2 DEF FactoryCheck, Creating
        <3>. QED
            BY <1>2, <2>2, <3>1 DEF FactoryCheck
    <2>. QED
        BY <2>1, <2>2
<1>3. ASSUME NEW r \in Req, FactoryCreate(r) PROVE IInv'
    <2>1. r \in Creating /\ Creating' = Creating \ {r}
        BY <1>3 DEF FactoryCreate, Creating
    <2>2. Cardinality(Creating') = Cardinality(Creating) - 1
        BY <1>0, <2>1, FS_RemoveElement
    <2>3. Cardinality(Creating') \in 0..NReq
        BY DEF Creating
    <2>4. nAuth + 1 \in 1..NReq
        BY <1>0, <2>2, <2>3
    <2>5. TypeOK'
        BY <1>3, <2>4 DEF FactoryCreate
    <2>6. AuthCount'
        BY <1>0, <1>3, <2>2 DEF FactoryCreate
    <2>7. DelegateHasAuth' /\ NoNilVerifier'
        BY <1>3, <2>4 DEF FactoryCreate
    <2>. QED
        BY <2>5, <2>6, <2>7
<1>4. ASSUME NEW r \in Req, Delegate(r) PROVE IInv'
    <2>1. Creating' = Creating
        BY <1>4 DEF Delegate, Creating
    <2>. QED
        BY <1>4, <2>1 DEF Delegate
<1>5. ASSUME NEW r \in Req, StaticCheck(r) PROVE IInv'
    <2>1. Creating' = Creating
        BY <1>5 DEF StaticCheck, Creating
    <2>. QED
        BY <1>5, <2>1 DEF StaticCheck
<1>6. ASSUME NEW r \in Req, CheckVerifier(r) PROVE IInv'
    <2>1. Creating' = Creating
        BY <1>6 DEF CheckVerifier, Creating
    <2>. QED
        BY <1>6, <2>1 DEF CheckVerifier
<1>7. ASSUME NEW r \in Req, InitOk(r) PROVE IInv'
    <2>1. Creating' = Creating
        BY <1>7 DEF InitOk, Creating
    <2>2. myAuth[r] \in AuthIds
        BY <1>7 DEF InitOk
    <2>3. \A a \in AuthIds : verField'[a] # 0 \/ verField'[a] = verField[a]
        BY <1>7, <2>2 DEF InitOk
    <2>. QED
        BY <1>7, <2>1, <2>2, <2>3 DEF InitOk
<1>8. ASSUME NEW r \in Req, InitFail(r) PROVE IInv'
    <2>1. Creating' = Creating
        BY <1>8 DEF InitFail, Creating
    <2>. QED
        BY <1>8, <2>1 DEF InitFail
<1>9. ASSUME NEW r \in Req, Verify(r) PROVE IInv'
    <2>1. Creating' = Creating
        BY <1>9 DEF Verify, Creating
    <2>. QED
        BY <1>9, <2>1 DEF Verify
<1>10. ASSUME NEW r \in Req, Finish(r) PROVE IInv'
    <2>1. Creating' = Creating
        BY <1>10 DEF Finish, Creating
    <2>. QED
        BY <1>10, <2>1 DEF Finish
<1>11. CASE UNCHANGED vars
    <2>1. Creating' = Creating
        BY <1>11 DEF vars, Creating
    <2>. QED
        BY <1>11, <2>1 DEF vars
<1>. QED
    BY <1>1, <1>2, <1>3, <1>4, <1>5, <1>6, <1>7, <1>8, <1>9, <1>10, <1>11
       DEF Next, Call

(* Type correctness of the SASL entry point: in particular every call past *)
(* Delegate holds a non-nil authenticator, for any number of calls.        *)
THEOREM TypeCorrect == Spec => []TypeOK
<1>1. IInv => TypeOK
    BY DEF IInv
<1>. QED
    BY InitIInv, NextIInv, <1>1, PTL DEF Spec

(* No call ever reaches VerifyToken through a nil verifier, for any number *)
(* of concurrent calls and any outcome of the pre-fetches.                 *)
THEOREM VerifierNeverNil == Spec => []NoNilVerifier
<1>1. IInv => NoNilVerifier
    BY DEF IInv
<1>. QED
    BY InitIInv, NextIInv, <1>1, PTL DEF Spec

-----------------------------------------------------------------------------
(***************************************************************************)
(* The inductive invariant behind AcceptedByItsMode: a call on the JWT     *)
(* path holds a JWT-shaped password and a call on the static path does     *)
(* not, because Delegate routes by IsJWT and no later step of the call     *)
(* changes its password.                                                   *)
(***************************************************************************)
JWTPath == \A r \in Req : pc[r] \in {"checkVerifier", "init", "verify"} => IsJWT(secret[r])
StaticPath == \A r \in Req : pc[r] = "static" => ~IsJWT(secret[r])

MInv == TypeOK /\ JWTPath /\ StaticPath /\ AcceptedByItsMode

(* Init satisfies it.                                                      *)
LEMMA InitMInv == Init => MInv
BY InitIInv DEF IInv, Init, MInv, JWTPath, StaticPath, AcceptedByItsMode

(* Every step preserves it, given the type invariant of the next state.    *)
LEMMA NextMInv == MInv /\ IInv /\ [Next]_vars => MInv'
<1> SUFFICES ASSUME MInv, IInv, [Next]_vars PROVE MInv'
    OBVIOUS
<1>0. TypeOK'
    BY NextIInv DEF IInv
<1>. USE DEF MInv, TypeOK, JWTPath, StaticPath, AcceptedByItsMode, IsJWT
<1>1. ASSUME NEW r \in Req, NEW u \in Users, NEW s \in Secrets, Start(r, u, s) PROVE MInv'
    BY <1>0, <1>1 DEF Start
<1>2. ASSUME NEW r \in Req, FactoryCheck(r) PROVE MInv'
    BY <1>0, <1>2 DEF FactoryCheck
<1>3. ASSUME NEW r \in Req, FactoryCreate(r) PROVE MInv'
    BY <1>0, <1>3 DEF FactoryCreate
<1>4. ASSUME NEW r \in Req, Delegate(r) PROVE MInv'
    BY <1>0, <1>4 DEF Delegate
<1>5. ASSUME NEW r \in Req, StaticCheck(r) PROVE MInv'
    BY <1>0, <1>5 DEF StaticCheck
<1>6. ASSUME NEW r \in Req, CheckVerifier(r) PROVE MInv'
    BY <1>0, <1>6 DEF CheckVerifier
<1>7. ASSUME NEW r \in Req, InitOk(r) PROVE MInv'
    BY <1>0, <1>7 DEF InitOk
<1>8. ASSUME NEW r \in Req, InitFail(r) PROVE MInv'
    BY <1>0, <1>8 DEF InitFail
<1>9. ASSUME NEW r \in Req, Verify(r) PROVE MInv'
    BY <1>0, <1>9 DEF Verify
<1>10. ASSUME NEW r \in Req, Finish(r) PROVE MInv'
    BY <1>0, <1>10 DEF Finish
<1>11. CASE UNCHANGED vars
    BY <1>11 DEF vars
<1>. QED
    BY <1>1, <1>2, <1>3, <1>4, <1>5, <1>6, <1>7, <1>8, <1>9, <1>10, <1>11
       DEF Next, Call

(* Every accepted SASL call was accepted by the mode its password's shape  *)
(* selects: a JWT-shaped password only when VerifyToken returned claims,   *)
(* any other only as an exact pair of a non-empty static table, for any    *)
(* number of concurrent calls.                                             *)
THEOREM ModeSafe == Spec => []AcceptedByItsMode
<1>1. Spec => [](MInv /\ IInv)
    <2>1. Init => MInv /\ IInv
        BY InitMInv, InitIInv
    <2>2. MInv /\ IInv /\ [Next]_vars => MInv' /\ IInv'
        BY NextMInv, NextIInv
    <2>. QED
        BY <2>1, <2>2, PTL DEF Spec
<1>2. MInv => AcceptedByItsMode
    BY DEF MInv
<1>. QED
    BY <1>1, <1>2, PTL

-----------------------------------------------------------------------------
(***************************************************************************)
(* Refinement of the contract of spec 4.4 (SASLAuthenticator).  A static   *)
(* check is DecideStatic, whose guard StaticPath gives; a successful or    *)
(* failed VerifyToken is DecideJWT(r, ok), and a failed pre-fetch          *)
(* DecideJWT(r, FALSE), whose guard JWTPath gives; the factory check, the *)
(* creation of the authenticator, the delegation, the verifier check and  *)
(* the verifier's creation change nothing the contract sees.  A call in   *)
(* progress has not been verified yet, so a rejection leaves verified as  *)
(* the contract's does.                                                    *)
(***************************************************************************)
Busy == PC \ {"idle", "accepted", "rejected"}

UnverifiedWhileBusy == \A r \in Req : pc[r] \in Busy => ~verified[r]

(* Init satisfies it.                                                      *)
LEMMA InitUnverified == Init => UnverifiedWhileBusy
BY DEF Init, UnverifiedWhileBusy

(* Every step preserves it: only Verify sets verified, and ends the call.  *)
LEMMA NextUnverified == TypeOK /\ UnverifiedWhileBusy /\ [Next]_vars => UnverifiedWhileBusy'
<1> SUFFICES ASSUME TypeOK, UnverifiedWhileBusy, [Next]_vars PROVE UnverifiedWhileBusy'
    OBVIOUS
<1>. USE DEF UnverifiedWhileBusy, Busy, PC, TypeOK
<1>1. ASSUME NEW r \in Req, Call(r) PROVE UnverifiedWhileBusy'
    BY <1>1 DEF Call, Start, FactoryCheck, FactoryCreate, Delegate, StaticCheck,
                CheckVerifier, InitOk, InitFail, Verify, Finish
<1>2. CASE UNCHANGED vars
    BY <1>2 DEF vars
<1>. QED
    BY <1>1, <1>2 DEF Next

(* A step of a call in progress that changes nothing the contract sees.   *)
LEMMA InnerCallStep ==
    ASSUME TypeOK, NEW r \in Req, NEW x \in Busy,
           pc[r] \in Busy, pc' = [pc EXCEPT ![r] = x],
           UNCHANGED <<staticUsers, user, secret, verified>>
    PROVE  UNCHANGED SASL!vars
BY DEF TypeOK, SASLPC, SASL!vars, Busy, PC

(* The initial state of the entry point is one of the contract's.          *)
LEMMA InitRefinesSASL == Init => SASL!Init
BY DEF Init, SASL!Init, SASLPC

(* Every step of the entry point is a step of the contract or a stutter.   *)
LEMMA NextRefinesSASL ==
    MInv /\ UnverifiedWhileBusy /\ [Next]_vars => [SASL!Next]_SASL!vars
<1> SUFFICES ASSUME MInv, UnverifiedWhileBusy, [Next]_vars
             PROVE  [SASL!Next]_SASL!vars
    OBVIOUS
<1>0. TypeOK
    BY DEF MInv
<1>1. ASSUME NEW r \in Req, NEW u \in Users, NEW s \in Secrets, Start(r, u, s)
      PROVE  SASL!Next
    <2>1. SASL!Start(r, u, s)
        BY <1>0, <1>1 DEF Start, SASL!Start, SASLPC, TypeOK, PC
    <2>. QED
        BY <2>1 DEF SASL!Next
<1>2. ASSUME NEW r \in Req, FactoryCheck(r) PROVE [SASL!Next]_SASL!vars
    BY <1>0, <1>2, InnerCallStep DEF FactoryCheck, Busy, PC
<1>3. ASSUME NEW r \in Req, FactoryCreate(r) PROVE [SASL!Next]_SASL!vars
    BY <1>0, <1>3, InnerCallStep DEF FactoryCreate, Busy, PC
<1>4. ASSUME NEW r \in Req, Delegate(r) PROVE [SASL!Next]_SASL!vars
    BY <1>0, <1>4, InnerCallStep DEF Delegate, Busy, PC
<1>5. ASSUME NEW r \in Req, StaticCheck(r) PROVE SASL!Next
    <2>1. ~SASL!JWTMode(secret[r])
        BY <1>5 DEF StaticCheck, MInv, StaticPath, IsJWT, SASL!JWTMode
    <2>2. SASL!DecideStatic(r)
        BY <1>0, <1>5, <2>1 DEF StaticCheck, SASL!DecideStatic, SASL!StaticAccepts,
                                SASLPC, TypeOK, PC
    <2>. QED
        BY <2>2 DEF SASL!Next
<1>6. ASSUME NEW r \in Req, CheckVerifier(r) PROVE [SASL!Next]_SASL!vars
    BY <1>0, <1>6, InnerCallStep DEF CheckVerifier, Busy, PC
<1>7. ASSUME NEW r \in Req, InitOk(r) PROVE [SASL!Next]_SASL!vars
    BY <1>0, <1>7, InnerCallStep DEF InitOk, Busy, PC
<1>8. ASSUME NEW r \in Req, InitFail(r) PROVE SASL!Next
    <2>1. SASL!JWTMode(secret[r])
        BY <1>8 DEF InitFail, MInv, JWTPath, IsJWT, SASL!JWTMode
    <2>2. ~verified[r]
        BY <1>8 DEF InitFail, UnverifiedWhileBusy, Busy, PC
    <2>3. verified = [verified EXCEPT ![r] = FALSE]
        BY <1>0, <2>2 DEF TypeOK
    <2>4. SASL!DecideJWT(r, FALSE)
        BY <1>0, <1>8, <2>1, <2>3 DEF InitFail, SASL!DecideJWT, SASLPC, TypeOK, PC
    <2>. QED
        BY <2>4 DEF SASL!Next
<1>9. ASSUME NEW r \in Req, Verify(r) PROVE SASL!Next
    <2>1. SASL!JWTMode(secret[r])
        BY <1>9 DEF Verify, MInv, JWTPath, IsJWT, SASL!JWTMode
    <2>2. PICK ok \in BOOLEAN :
              /\ pc' = [pc EXCEPT ![r] = IF ok THEN "accepted" ELSE "rejected"]
              /\ verified' = [verified EXCEPT ![r] = ok]
        BY <1>9 DEF Verify
    <2>3. SASL!DecideJWT(r, ok)
        BY <1>0, <1>9, <2>1, <2>2 DEF Verify, SASL!DecideJWT, SASLPC, TypeOK, PC
    <2>. QED
        BY <2>3 DEF SASL!Next
<1>10. ASSUME NEW r \in Req, Finish(r) PROVE SASL!Next
    <2>1. SASL!Finish(r)
        BY <1>0, <1>10 DEF Finish, SASL!Finish, SASL!Outcomes, SASLPC, TypeOK, PC
    <2>. QED
        BY <2>1 DEF SASL!Next
<1>11. CASE UNCHANGED vars
    BY <1>11 DEF vars, SASL!vars, SASLPC
<1>. QED
    BY <1>1, <1>2, <1>3, <1>4, <1>5, <1>6, <1>7, <1>8, <1>9, <1>10, <1>11
       DEF Next, Call

(* The SASL entry point implements the contract of spec 4.4, for any       *)
(* number of concurrent calls: however their unlocked lazy                 *)
(* initialisations interleave, each call ends in a verdict the atomic      *)
(* dispatcher could give, by the mode its secret's shape selects.          *)
THEOREM Refinement == Spec => ImplementsSASL
<1>1. Spec => [](MInv /\ IInv /\ UnverifiedWhileBusy)
    <2>1. Init => MInv /\ IInv /\ UnverifiedWhileBusy
        BY InitMInv, InitIInv, InitUnverified
    <2>2. MInv /\ IInv /\ UnverifiedWhileBusy /\ [Next]_vars
              => MInv' /\ IInv' /\ UnverifiedWhileBusy'
        BY NextMInv, NextIInv, NextUnverified DEF MInv
    <2>. QED
        BY <2>1, <2>2, PTL DEF Spec
<1>. QED
    BY <1>1, InitRefinesSASL, NextRefinesSASL, PTL DEF Spec, ImplementsSASL, SASL!Spec
=============================================================================
