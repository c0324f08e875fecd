---------------------------- MODULE StealthProofs ----------------------------
(* Theorems of Stealth, for every group, key, hash and slices file. *)
EXTENDS Stealth, WellFoundedInduction, TLAPS

------------------------------------------------------------------------------
(* The group.                                                                *)

LEMMA AddInGroup ==
    ASSUME NEW p \in Nat, NEW q \in Nat
    PROVE  Add(p, q) \in Points
BY GroupAssumption DEF Add, Points, Scalars

LEMMA MulInGroup ==
    ASSUME NEW s \in Scalars, NEW p \in Points
    PROVE  Mul(s, p) \in Points
<1>1. s * p \in Nat
  BY GroupAssumption DEF Points, Scalars
<1> QED
  BY <1>1, GroupAssumption DEF Mul, Points, Scalars

\* The payer's shared point is the recipient's.
LEMMA SharedPoint ==
    ASSUME NEW r \in Scalars, NEW v \in Scalars
    PROVE  Mul(r, mul_base(v)) = Mul(v, mul_base(r))
<1>1. r * v = v * r
  BY GroupAssumption DEF Scalars
<1> QED
  BY <1>1 DEF Mul, mul_base

LEMMA SmallestIndex ==
    ASSUME NEW T \in SUBSET Nat, T # {}
    PROVE  \E k \in T : \A j \in T : ~ (j < k)
<1> DEFINE R == OpToRel(<, Nat)
<1>1. IsWellFoundedOn(R, Nat)
  BY NatLessThanWellFounded
<1>2. \E k \in T : \A j \in T : ~ (<<j, k>> \in R)
  BY <1>1, WFMin
<1> QED
  BY <1>2 DEF OpToRel

------------------------------------------------------------------------------
(* Types.                                                                    *)

LEMMA AddressType ==
    ASSUME TypeOK, NEW i \in Institutions, NEW r \in Scalars, NEW nonce \in Nonces
    PROVE  derive_stealth_address(SpendPub(i), ViewPub(i), r, nonce) \in Deposit
<1> DEFINE shared == Mul(r, ViewPub(i))
<1>1. SpendPub(i) \in Scalars /\ ViewPub(i) \in Points /\ mul_base(r) \in Points
  BY KeyAssumption DEF SpendPub, ViewPub, mul_base, Points
<1>2. shared \in Points
  BY <1>1, MulInGroup
<1>3. mul_base(offsetOf[<<shared, nonce>>]) \in Scalars /\ tagOf[shared] \in Tags
  <2> HIDE DEF shared
  <2> QED BY <1>2 DEF TypeOK, mul_base
<1>4. Add(SpendPub(i), mul_base(offsetOf[<<shared, nonce>>])) \in Points
  <2> HIDE DEF shared
  <2>1. SpendPub(i) \in Nat /\ mul_base(offsetOf[<<shared, nonce>>]) \in Nat
    <3>1. Scalars \subseteq Nat
      BY GroupAssumption DEF Scalars
    <3> QED BY <1>1, <1>3, <3>1
  <2> QED BY <2>1, AddInGroup
<1> QED
  BY <1>1, <1>3, <1>4 DEF derive_stealth_address, Deposit

LEMMA InitType == Init => TypeOK
<1> SUFFICES ASSUME Init PROVE TypeOK
  OBVIOUS
<1>1. offsetOf \in [Points \X Nonces -> Scalars] /\ tagOf \in [Points -> Tags]
  BY HashAssumption DEF Init
<1>2. slices \in Seq(Slice)
  BY KeyAssumption DEF Init
<1> QED
  BY <1>1, <1>2 DEF Init, TypeOK

LEMMA StepType == TypeOK /\ [Next]_vars => TypeOK'
<1> SUFFICES ASSUME TypeOK, [Next]_vars PROVE TypeOK'
  OBVIOUS
<1>1. ASSUME NEW i \in Institutions, NEW r \in Scalars, NEW nonce \in Nonces,
             PayTo(i, r, nonce)
      PROVE  TypeOK'
  <2> DEFINE d == derive_stealth_address(SpendPub(i), ViewPub(i), r, nonce)
  <2>1. d \in Deposit
    BY AddressType
  <2>2. deposits' = deposits \cup {d}
        /\ paid' = paid \cup {[deposit |-> d, holder |-> i, nonce |-> nonce]}
    BY <1>1 DEF PayTo
  <2> HIDE DEF d
  <2>3. (deposits \subseteq Deposit /\ scanned \subseteq deposits)'
    BY <1>1, <2>1, <2>2 DEF PayTo, TypeOK
  <2>4. (paid \subseteq [deposit : deposits, holder : Institutions, nonce : Nonces])'
    BY <2>2 DEF TypeOK
  <2> QED
    BY <1>1, <2>3, <2>4 DEF PayTo, TypeOK, hash
<1>2. ASSUME NEW d \in Deposit, PayOther(d) PROVE TypeOK'
  <2>1. (paid \subseteq [deposit : deposits, holder : Institutions, nonce : Nonces])'
    BY <1>2 DEF PayOther, TypeOK
  <2> QED
    BY <1>2, <2>1 DEF PayOther, TypeOK, hash
<1>3. CASE Scan
  <2>1. (found \subseteq [deposit : scanned, slice : 1..Len(slices)])'
    BY <1>3 DEF Scan
  <2> QED
    BY <1>3, <2>1 DEF Scan, TypeOK, hash
<1>4. ASSUME NEW file \in SliceFiles, Start(file) PROVE TypeOK'
  <2>1. slices' \in Seq(Slice)
    BY <1>4, KeyAssumption DEF Start
  <2> QED
    BY <1>4, <2>1 DEF Start, TypeOK, hash
<1>5. CASE UNCHANGED vars
  BY <1>5 DEF TypeOK, vars, hash
<1> QED
  BY <1>1, <1>2, <1>3, <1>4, <1>5, NonceAssumption DEF Next, PayIssued, DepositSol

\* Scalars and points stay reduced, and every address derived is a deposit's.
THEOREM TypeCorrect == Spec => []TypeOK
  BY InitType, StepType, PTL DEF Spec

------------------------------------------------------------------------------
(* What is found.                                                            *)

\* The indexer's matches are matches of the slices they name.
FoundMatches == \A m \in found : Matches(slices[m.slice], m.deposit)

\* A deposit of the last pass that some slice matches was attributed to one.
NoneMissed ==
    \A d \in scanned, k \in 1..Len(slices) :
        Matches(slices[k], d) => \E m \in found : m.deposit = d

\* What counts as paid to an institution was derived from its public keys.
PaidDerived ==
    \A p \in paid : \E r \in Scalars :
        p.deposit = derive_stealth_address(SpendPub(p.holder), ViewPub(p.holder), r, p.nonce)

ScanInv == TypeOK /\ FoundMatches /\ NoneMissed /\ PaidDerived

\* The scalar a holder rebuilds is that of the address the indexer derived.
LEMMA MatchIsSpendable ==
    ASSUME NEW s \in Slice, NEW d, Matches(s, d)
    PROVE  mul_base(reconstruct_spend_scalar(SpendKey[s.holder], ViewKey[s.holder],
                                             d.ephemeral_r, s.nonce)) = d.stealth_pubkey
  BY DEF Matches, derive_for_recipient, reconstruct_spend_scalar, mul_base, SpendPub

\* The indexer recognises the address that was derived for its slice.
LEMMA DerivedMatches ==
    ASSUME NEW s \in Slice, NEW r \in Scalars
    PROVE  Matches(s, derive_stealth_address(SpendPub(s.holder), ViewPub(s.holder),
                                             r, s.nonce))
<1> DEFINE paidPoint == Mul(r, ViewPub(s.holder))
           seenPoint == Mul(ViewKey[s.holder], mul_base(r))
<1>1. ViewKey[s.holder] \in Scalars
  BY KeyAssumption DEF Slice
<1>2. paidPoint = seenPoint
  BY <1>1, SharedPoint DEF ViewPub
<1> QED
  BY <1>2 DEF Matches, derive_stealth_address, derive_for_recipient

\* A pass attributes every deposit that a slice matches: there is a first one.
LEMMA PassMissesNone == TypeOK /\ Scan => NoneMissed'
<1> SUFFICES ASSUME TypeOK, Scan,
                    NEW d \in scanned', NEW k \in 1..Len(slices'),
                    (Matches(slices[k], d))'
             PROVE  \E m \in found' : m.deposit = d
  BY DEF NoneMissed, Scan, hash
<1> DEFINE T == {j \in 1..Len(slices) : Matches(slices[j], d)}
<1>1. slices' = slices /\ scanned' = deposits /\ offsetOf' = offsetOf /\ tagOf' = tagOf
  BY DEF Scan, hash
<1>2. Matches(slices[k], d)
  BY <1>1 DEF Matches, derive_for_recipient
<1>3. k \in T /\ T \in SUBSET Nat
  BY <1>1, <1>2
<1>4. PICK first \in T : \A j \in T : ~ (j < first)
  <2> HIDE DEF T
  <2> QED BY <1>3, SmallestIndex
<1>5. FirstMatch(first, d)
  <2>1. \A j \in 1..(first - 1) : j \in 1..Len(slices) /\ j < first
    <3>1. Len(slices) \in Nat
      BY DEF TypeOK
    <3> QED BY <3>1, <1>4
  <2> QED BY <1>4, <2>1 DEF FirstMatch
<1>6. [deposit |-> d, slice |-> first] \in found'
  BY <1>1, <1>4, <1>5 DEF Scan
<1> QED
  BY <1>6

LEMMA InitScan == Init => ScanInv
  BY InitType DEF Init, ScanInv, FoundMatches, NoneMissed, PaidDerived

LEMMA StepScan == ScanInv /\ [Next]_vars => ScanInv'
<1> SUFFICES ASSUME ScanInv, [Next]_vars PROVE ScanInv'
  OBVIOUS
<1>1. TypeOK'
  BY StepType DEF ScanInv
<1> USE DEF ScanInv
<1>2. ASSUME NEW i \in Institutions, NEW r \in Scalars, NEW nonce \in Nonces,
             PayTo(i, r, nonce)
      PROVE  (FoundMatches /\ NoneMissed /\ PaidDerived)'
  <2> DEFINE d == derive_stealth_address(SpendPub(i), ViewPub(i), r, nonce)
             p == [deposit |-> d, holder |-> i, nonce |-> nonce]
  <2>1. UNCHANGED <<offsetOf, tagOf, slices, scanned, found>> /\ paid' = paid \cup {p}
    BY <1>2 DEF PayTo, hash
  <2>2. (FoundMatches /\ NoneMissed)'
    BY <2>1 DEF FoundMatches, NoneMissed, Matches, derive_for_recipient
  <2>3. PaidDerived'
    <3>1. \A q \in paid' : \E x \in Scalars :
            q.deposit = derive_stealth_address(SpendPub(q.holder), ViewPub(q.holder), x, q.nonce)
      BY <2>1 DEF PaidDerived
    <3> QED BY <2>1, <3>1 DEF PaidDerived, derive_stealth_address
  <2> QED BY <2>2, <2>3
<1>3. CASE Scan
  <2>1. UNCHANGED <<offsetOf, tagOf, slices, paid>>
    BY <1>3 DEF Scan, hash
  <2>2. \A m \in found' : FirstMatch(m.slice, m.deposit)
    BY <1>3 DEF Scan
  <2>3. FoundMatches'
    BY <2>1, <2>2 DEF FoundMatches, FirstMatch, Matches, derive_for_recipient
  <2>4. NoneMissed'
    BY <1>3, PassMissesNone
  <2>5. PaidDerived'
    BY <2>1 DEF PaidDerived, derive_stealth_address
  <2> QED BY <1>1, <2>3, <2>4, <2>5
<1>4. ASSUME NEW file \in SliceFiles, Start(file)
      PROVE  (FoundMatches /\ NoneMissed /\ PaidDerived)'
  BY <1>4 DEF Start, hash, FoundMatches, NoneMissed, PaidDerived, derive_stealth_address
<1>5. ASSUME UNCHANGED <<offsetOf, tagOf, slices, scanned, found, paid>>
      PROVE  (FoundMatches /\ NoneMissed /\ PaidDerived)'
  BY <1>5 DEF FoundMatches, NoneMissed, PaidDerived, Matches, derive_for_recipient,
              derive_stealth_address
<1>6. ASSUME NEW d \in Deposit, PayOther(d)
      PROVE  UNCHANGED <<offsetOf, tagOf, slices, scanned, found, paid>>
  BY <1>6 DEF PayOther, hash
<1>7. CASE UNCHANGED vars
  BY <1>1, <1>5, <1>7 DEF vars, hash
<1> QED
  BY <1>1, <1>2, <1>3, <1>4, <1>5, <1>6, <1>7, NonceAssumption DEF Next, PayIssued, DepositSol

LEMMA ScanCorrect == Spec => []ScanInv
  BY InitScan, StepScan, PTL DEF Spec

\* The slice that a deposit is attributed to can spend it.
THEOREM Spendable == Spec => []FoundIsSpendable
<1>1. ScanInv => FoundIsSpendable
  <2> SUFFICES ASSUME ScanInv, NEW m \in found
               PROVE  mul_base(reconstruct_spend_scalar(SpendKey[slices[m.slice].holder],
                          ViewKey[slices[m.slice].holder], m.deposit.ephemeral_r,
                          slices[m.slice].nonce)) = m.deposit.stealth_pubkey
    BY DEF FoundIsSpendable
  <2>1. slices[m.slice] \in Slice
    BY DEF ScanInv, TypeOK
  <2> QED
    BY <2>1, MatchIsSpendable DEF ScanInv, FoundMatches
<1> QED
  BY <1>1, ScanCorrect, PTL

\* No complete pass misses a deposit to an address of a registered slice.
THEOREM OwnFound == Spec => []OwnIsFound
<1>1. ScanInv => OwnIsFound
  <2> SUFFICES ASSUME ScanInv, NEW p \in paid, NEW k \in 1..Len(slices),
                      p.deposit \in scanned,
                      slices[k] = [holder |-> p.holder, nonce |-> p.nonce]
               PROVE  \E m \in found : m.deposit = p.deposit
    BY DEF OwnIsFound
  <2>1. PICK r \in Scalars :
          p.deposit = derive_stealth_address(SpendPub(p.holder), ViewPub(p.holder), r, p.nonce)
    BY DEF ScanInv, PaidDerived
  <2>2. /\ slices[k] \in Slice
        /\ slices[k].holder = p.holder /\ slices[k].nonce = p.nonce
    BY DEF ScanInv, TypeOK
  <2>3. Matches(slices[k], p.deposit)
    BY <2>1, <2>2, DerivedMatches
  <2> QED
    BY <2>3 DEF ScanInv, NoneMissed
<1> QED
  BY <1>1, ScanCorrect, PTL
==============================================================================
