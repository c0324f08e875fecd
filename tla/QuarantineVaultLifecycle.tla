---------------------- MODULE QuarantineVaultLifecycle ----------------------
(***************************************************************************)
(* More theorems about QuarantineVault: who judged a deposit and when,     *)
(* when its money leaves it, and that the program implements the           *)
(* EscrowLifecycle.  They rest on the types and the verdicts proved in     *)
(* QuarantineVaultProofs.                                                  *)
(***************************************************************************)
EXTENDS QuarantineVaultProofs

(* Who judged, and when.  AttestedOnceInTime is not inductive: the number of  *)
(* attestations is bounded only through the size of the oracle set, a vault   *)
(* must not change its set under a deposit, and a vote is not older than its  *)
(* deposit only because no deposit was made in the future.  That no           *)
(* transaction leaves a deposit Expired is kept here too.                     *)

VaultsFit ==
    \A v \in Authorities : VaultExists(v) => Len(vaults[v].oracle_set) <= MaxOracles

Voted(d) ==
    LET dep == deposits[d] IN
    /\ \A a \in dep.attestations : /\ a.oracle \in OracleKeys(VaultOf(d))
                                   /\ dep.created_at <= a.timestamp
                                   /\ a.timestamp < dep.expire_at
    /\ \A a, b \in dep.attestations : a.oracle = b.oracle => a = b

Judged(d) ==
    Exists(d) => /\ VaultExists(VaultOf(d))
                 /\ deposits[d].created_at <= now
                 /\ deposits[d].state # "Expired"
                 /\ Voted(d)

VoteInv == VaultsFit /\ \A d \in DepositIds : Judged(d)

\* An oracle list names no more keys than it is long.
LEMMA KeysBounded ==
    ASSUME NEW s \in Seq(Oracles)
    PROVE  LET keys == {s[i] : i \in DOMAIN s}
           IN  IsFiniteSet(keys) /\ Cardinality(keys) <= Len(s)
<1> DEFINE keys == {s[i] : i \in DOMAIN s}
<1>1. Len(s) \in Nat /\ DOMAIN s = 1 .. Len(s)
  OBVIOUS
<1>2. s \in [1 .. Len(s) -> keys]
  BY <1>1
<1>3. s \in Surjection(1 .. Len(s), keys)
  BY <1>1, <1>2 DEF Surjection
<1>4. ExistsSurjection(1 .. Len(s), keys)
  BY <1>3 DEF ExistsSurjection
<1> HIDE DEF keys
<1>5. IsFiniteSet(keys) /\ Cardinality(keys) <= Len(s)
  BY <1>1, <1>4, FS_NatSurjection, FS_SurjCardinalityBound
<1> QED
  BY <1>5 DEF keys

\* Attestations of distinct oracles are no more than the oracles.
LEMMA VotesBounded ==
    ASSUME NEW att, NEW keys, IsFiniteSet(keys),
           \A a \in att : a.oracle \in keys,
           \A a, b \in att : a.oracle = b.oracle => a = b
    PROVE  IsFiniteSet(att) /\ Cardinality(att) <= Cardinality(keys)
<1> DEFINE voter == [a \in att |-> a.oracle]
<1>1. voter \in Injection(att, keys)
  BY DEF Injection, IsInjective
<1> HIDE DEF voter
<1> QED
  BY <1>1, FS_Injection

LEMMA VoteInvImplies == TypeOK /\ VoteInv => AttestedOnceInTime
<1> SUFFICES ASSUME TypeOK, VoteInv, NEW d \in DepositIds, Exists(d)
             PROVE  Voted(d) /\ Cardinality(deposits[d].attestations) <= MaxOracles
  BY DEF AttestedOnceInTime, Voted
<1>1. Voted(d) /\ VaultExists(VaultOf(d)) /\ VaultOf(d) \in Authorities
  BY VaultOfType DEF VoteInv, Judged
<1> DEFINE set == vaults[VaultOf(d)].oracle_set
           keys == {set[i] : i \in DOMAIN set}
<1>2. set \in Seq(Oracles) /\ Len(set) <= MaxOracles
  BY <1>1 DEF VoteInv, VaultsFit, TypeOK, VaultExists, NoVault, Vault
<1>3. IsFiniteSet(keys) /\ Cardinality(keys) <= Len(set) /\ Len(set) \in Nat
  <2> HIDE DEF set
  <2> QED BY <1>2, KeysBounded
<1>4. keys = OracleKeys(VaultOf(d))
  BY DEF OracleKeys
<1> HIDE DEF set, keys
<1>5. /\ IsFiniteSet(deposits[d].attestations)
      /\ Cardinality(deposits[d].attestations) <= Cardinality(keys)
  BY <1>1, <1>3, <1>4, VotesBounded DEF Voted
<1>6. Cardinality(deposits[d].attestations) \in Nat /\ Cardinality(keys) \in Nat
  BY <1>3, <1>5, FS_CardinalityType
<1> QED
  BY <1>1, <1>2, <1>3, <1>5, <1>6, OracleAssumption

\* Every step keeps the oracle set of a vault that exists, and its size.
LEMMA VaultsStep ==
    ASSUME TypeOK, VaultsFit, [Next]_vars
    PROVE  /\ VaultsFit'
           /\ \A v \in Authorities : VaultExists(v) =>
                 /\ VaultExists(v)'
                 /\ vaults'[v].oracle_set = vaults[v].oracle_set
                 /\ vaults'[v].min_attestations = vaults[v].min_attestations
<1> DEFINE Same(v) == /\ vaults'[v].oracle_set = vaults[v].oracle_set
                      /\ vaults'[v].min_attestations = vaults[v].min_attestations
<1>1. ASSUME NEW v \in Authorities, NEW set \in OracleLists, NEW m \in Thresholds,
             InitializeVault(v, set, m), NEW u \in Authorities
      PROVE  /\ VaultExists(u)' => Len(vaults'[u].oracle_set) <= MaxOracles
             /\ VaultExists(u) => VaultExists(u)' /\ Same(u)
  <2>1. CASE u = v
    BY <1>1, <2>1 DEF InitializeVault, TypeOK
  <2>2. CASE u # v
    BY <1>1, <2>2 DEF InitializeVault, TypeOK, VaultsFit, VaultExists
  <2> QED
    BY <2>1, <2>2
<1>2. ASSUME NEW d \in DepositIds,
             vaults' = [vaults EXCEPT ![VaultOf(d)].deposit_count = @ + 1],
             VaultExists(VaultOf(d)), NEW u \in Authorities
      PROVE  /\ VaultExists(u)' => Len(vaults'[u].oracle_set) <= MaxOracles
             /\ VaultExists(u) => VaultExists(u)' /\ Same(u)
  <2>1. VaultOf(d) \in Authorities /\ vaults[VaultOf(d)] \in Vault
    BY <1>2, VaultOfType DEF TypeOK, VaultExists, NoVault
  <2>2. Same(u)
    BY <1>2, <2>1 DEF TypeOK, Vault
  <2> QED
    BY <1>2, <2>2 DEF VaultExists, VaultsFit
<1>3. CASE vaults' = vaults
  BY <1>3 DEF VaultsFit, VaultExists
<1>4. CASE Create
  BY <1>1, <1>2, <1>4 DEF Create, MakeDeposit, DepositToken, OpenDeposit, VaultsFit
<1>5. CASE Judge \/ Settle \/ Pay \/ Tick \/ UNCHANGED vars
  BY <1>3, <1>5 DEF Judge, Attest, Settle, Release, ReleaseToken, Refund, RefundToken,
                    PayOut, PayOutToken, Pay, Transfer, TransferTokens, Tick, vars
<1> QED
  BY <1>4, <1>5 DEF Next

\* What each kind of step does to one deposit: nothing, a judgement or a settlement,
\* or it makes the deposit.
Opened(e) ==
    /\ ~ Exists(e) /\ VaultExists(VaultOf(e))
    /\ \E ex \in Nat \ {0} :
          /\ deposits'[e].expire_at = now + ex
          /\ deposits'[e].created_at = now
    /\ deposits'[e].attestations = {} /\ deposits'[e].state = "Pending"

AttestedBy(e, o, v) ==
    LET dep == deposits[e]
        clean == dep.clean_count + (IF v = "Clean" THEN 1 ELSE 0)
        dirty == dep.dirty_count + (IF v = "Dirty" THEN 1 ELSE 0)
    IN
    /\ dep.state = "Pending" /\ MayJudge(e, o)
    /\ deposits'[e].attestations =
          dep.attestations \cup {[oracle |-> o, verdict |-> v, timestamp |-> now]}
    /\ deposits'[e].clean_count = clean /\ deposits'[e].dirty_count = dirty
    /\ deposits'[e].state = Outcome(clean, dirty, vaults[VaultOf(e)].min_attestations)
    /\ deposits'[e].created_at = dep.created_at /\ deposits'[e].expire_at = dep.expire_at

SettledAs(e, final) ==
    \/ deposits'[e] = NoDeposit
    \/ /\ deposits'[e].state = final
       /\ deposits'[e].attestations = deposits[e].attestations
       /\ deposits'[e].created_at = deposits[e].created_at
       /\ deposits'[e].expire_at = deposits[e].expire_at

Others(d) == \A e \in DepositIds : e # d => deposits'[e] = deposits[e]

\* Each step changes the record of one deposit at most, in one of three ways, and
\* then leaves the clock and the thresholds alone.
LEMMA StepKinds ==
    ASSUME TypeOK, [Next]_vars
    PROVE  \/ /\ deposits' = deposits
              /\ \/ \E v \in Authorities, set \in OracleLists, m \in Thresholds :
                       InitializeVault(v, set, m)
                 \/ Pay \/ Tick \/ UNCHANGED vars
           \/ \E d \in DepositIds :
                 /\ Others(d) /\ now' = now
                 /\ \A v \in Authorities :
                       vaults'[v].min_attestations = vaults[v].min_attestations
                 /\ \/ Opened(d)
                    \/ \E o \in Oracles, v \in AmlVerdicts : AttestedBy(d, o, v)
                    \/ deposits[d].state = "Approved" /\ SettledAs(d, "Released")
                    \/ Refundable(d) /\ SettledAs(d, "Refunded")
<1> DEFINE Thresholds0 == \A v \in Authorities :
                 vaults'[v].min_attestations = vaults[v].min_attestations
<1>1. ASSUME NEW d \in DepositIds, NEW w \in Wallets, NEW m \in Mints \cup {NativeMint},
             NEW amt \in Amounts, NEW r \in RefundAddrs, NEW ra \in ReleaseAuthorities,
             NEW ex \in ExpireArgs, OpenDeposit(d, w, m, amt, r, ra, ex)
      PROVE  Others(d) /\ Thresholds0 /\ Opened(d)
  <2>1. Others(d)
    BY <1>1 DEF OpenDeposit, TypeOK, Others
  <2>2. Thresholds0
    <3>1. VaultOf(d) \in Authorities /\ vaults[VaultOf(d)] \in Vault
      BY <1>1, VaultOfType DEF OpenDeposit, TypeOK, VaultExists, NoVault
    <3>2. vaults' = [vaults EXCEPT ![VaultOf(d)].deposit_count = @ + 1]
      BY <1>1 DEF OpenDeposit
    <3> QED
      BY <3>1, <3>2 DEF TypeOK, Vault
  <2>3. ex \in Nat \ {0}
    BY <1>1, TimeAssumption DEF OpenDeposit
  <2>4. Opened(d)
    BY <1>1, <2>3 DEF OpenDeposit, TypeOK, Opened
  <2> QED
    BY <2>1, <2>2, <2>4
<1>2. ASSUME NEW d \in DepositIds, NEW o \in Oracles, NEW v \in AmlVerdicts, Attest(d, o, v)
      PROVE  Others(d) /\ AttestedBy(d, o, v) /\ vaults' = vaults /\ now' = now
  <2>1. deposits[d] \in Deposit
    BY <1>2, DepositType DEF Attest, Exists
  <2>2. Others(d) /\ vaults' = vaults /\ now' = now
    BY <1>2 DEF Attest, TypeOK, Others
  <2>3. AttestedBy(d, o, v)
    BY <1>2, <2>1 DEF Attest, TypeOK, AttestedBy, Deposit
  <2> QED
    BY <2>2, <2>3
<1>3. ASSUME NEW d \in DepositIds, NEW final, Exists(d),
             \/ deposits' = [deposits EXCEPT ![d] = [deposits[d] EXCEPT !.state = final]]
             \/ deposits' = [deposits EXCEPT ![d] = NoDeposit]
      PROVE  Others(d) /\ SettledAs(d, final)
  <2>1. deposits[d] \in Deposit
    BY <1>3, DepositType
  <2>2. Others(d)
    BY <1>3 DEF TypeOK, Others
  <2>3. SettledAs(d, final)
    BY <1>3, <2>1 DEF TypeOK, Deposit, SettledAs
  <2> QED
    BY <2>2, <2>3
<1>4. ASSUME NEW d \in DepositIds, NEW target \in Accounts, NEW final,
             PayOut(d, target, final) \/ PayOutToken(d, target, final), Exists(d)
      PROVE  Others(d) /\ SettledAs(d, final) /\ vaults' = vaults /\ now' = now
  <2>1. \/ deposits' = [deposits EXCEPT ![d] = [deposits[d] EXCEPT !.state = final]]
        \/ deposits' = [deposits EXCEPT ![d] = NoDeposit]
    BY <1>4 DEF PayOut, PayOutToken
  <2> QED
    BY <1>3, <1>4, <2>1 DEF PayOut, PayOutToken
<1>5. CASE Create
  <2>1. ASSUME NEW v \in Authorities, NEW set \in OracleLists, NEW m \in Thresholds,
               InitializeVault(v, set, m)
        PROVE  deposits' = deposits
    BY <2>1 DEF InitializeVault
  <2>2. ASSUME NEW d \in DepositIds, NEW w \in Wallets, NEW amt \in Amounts,
               NEW r \in RefundAddrs, NEW ra \in ReleaseAuthorities, NEW ex \in ExpireArgs,
               MakeDeposit(d, w, amt, r, ra, ex)
        PROVE  Others(d) /\ Thresholds0 /\ Opened(d) /\ now' = now
    BY <1>1, <2>2 DEF MakeDeposit
  <2>3. ASSUME NEW d \in DepositIds, NEW w \in Wallets, NEW m \in Mints, NEW amt \in Amounts,
               NEW r \in RefundAddrs, NEW ra \in ReleaseAuthorities, NEW ex \in ExpireArgs,
               DepositToken(d, w, m, amt, r, ra, ex)
        PROVE  Others(d) /\ Thresholds0 /\ Opened(d) /\ now' = now
    BY <1>1, <2>3 DEF DepositToken
  <2> QED
    BY <1>5, <2>1, <2>2, <2>3 DEF Create
<1>6. CASE Judge
  BY <1>2, <1>6 DEF Judge
<1>7. CASE Settle
  <2>1. PICK d \in DepositIds, target \in Accounts :
           \/ \E signer \in Wallets : Release(d, signer, target)
           \/ \E signer \in Wallets : ReleaseToken(d, signer, target)
           \/ Refund(d, target)
           \/ RefundToken(d, target)
    BY <1>7 DEF Settle
  <2>2. \/ /\ deposits[d].state = "Approved"
           /\ PayOut(d, target, "Released") \/ PayOutToken(d, target, "Released")
        \/ /\ Refundable(d)
           /\ PayOut(d, target, "Refunded") \/ PayOutToken(d, target, "Refunded")
    BY <2>1 DEF Release, ReleaseToken, MayRelease, Refund, RefundToken
  <2>3. Exists(d)
    BY <2>2 DEF Exists, Refundable
  <2> QED
    BY <1>4, <2>2, <2>3
<1>8. CASE Pay \/ Tick \/ UNCHANGED vars
  BY <1>8 DEF Pay, Transfer, TransferTokens, Tick, vars
<1> QED
  BY <1>5, <1>6, <1>7, <1>8 DEF Next

\* The clock never goes back.
LEMMA ClockStep ==
    ASSUME TypeOK, [Next]_vars
    PROVE  now \in Nat /\ now' \in Nat /\ now' >= now
<1>1. now \in Nat
  BY DEF TypeOK
<1>2. CASE Create
  BY <1>1, <1>2 DEF Create, InitializeVault, MakeDeposit, DepositToken
<1>3. CASE Settle
  <2>1. now' = now
    BY <1>3 DEF Settle, Release, ReleaseToken, Refund, RefundToken, PayOut, PayOutToken
  <2> QED
    BY <1>1, <2>1
<1>4. CASE Judge \/ Pay \/ Tick \/ UNCHANGED vars
  <2>1. now' = now \/ now' = now + 1
    BY <1>4 DEF Judge, Attest, Pay, Transfer, TransferTokens, Tick, vars
  <2> QED
    BY <1>1, <2>1
<1> QED
  BY <1>2, <1>3, <1>4 DEF Next

\* Every step keeps VoteInv.
LEMMA VoteStep == TypeOK /\ TypeOK' /\ VoteInv /\ [Next]_vars => VoteInv'
<1> SUFFICES ASSUME TypeOK, TypeOK', VoteInv, [Next]_vars
             PROVE  VoteInv'
  OBVIOUS
<1>1. /\ VaultsFit'
      /\ \A v \in Authorities : VaultExists(v) =>
            VaultExists(v)' /\ vaults'[v].oracle_set = vaults[v].oracle_set
  BY VaultsStep DEF VoteInv
<1> SUFFICES ASSUME NEW e \in DepositIds
             PROVE  Judged(e)'
  BY <1>1 DEF VoteInv, Judged, Voted, Exists, VaultExists, OracleKeys
<1>2. Judged(e) /\ VaultOf(e) \in Authorities
  BY VaultOfType DEF VoteInv
<1>3. VaultExists(VaultOf(e)) =>
         VaultExists(VaultOf(e))' /\ OracleKeys(VaultOf(e))' = OracleKeys(VaultOf(e))
  BY <1>1, <1>2 DEF OracleKeys
<1>4. now \in Nat /\ now' \in Nat /\ now' >= now
  BY ClockStep
<1>5. Exists(e) => deposits[e] \in Deposit
  BY DepositType
<1>6. CASE deposits'[e] = deposits[e]
  BY <1>1, <1>2, <1>3, <1>4, <1>5, <1>6 DEF Judged, Exists, Voted, Deposit
<1>7. CASE Opened(e)
  <2>1. deposits'[e].created_at <= now' /\ deposits'[e].attestations = {}
    BY <1>4, <1>7 DEF Opened
  <2> QED
    BY <1>1, <1>3, <1>7, <2>1 DEF Judged, Opened, Voted
<1>8. ASSUME NEW o \in Oracles, NEW v \in AmlVerdicts, AttestedBy(e, o, v)
      PROVE  Judged(e)'
  <2> DEFINE att == [oracle |-> o, verdict |-> v, timestamp |-> now]
  <2>1. /\ Exists(e) /\ VaultExists(VaultOf(e)) /\ Voted(e)
        /\ deposits[e].created_at <= now
    BY <1>2, <1>8 DEF AttestedBy, Exists, Judged
  <2>2. /\ deposits'[e].attestations = deposits[e].attestations \cup {att}
        /\ deposits'[e].created_at = deposits[e].created_at
        /\ deposits'[e].expire_at = deposits[e].expire_at
        /\ deposits'[e].state # "Expired"
    BY <1>8 DEF AttestedBy, Outcome
  <2>3. /\ o \in OracleKeys(VaultOf(e)) /\ now < deposits[e].expire_at
        /\ \A a \in deposits[e].attestations : a.oracle # o
    BY <1>8 DEF AttestedBy, MayJudge
  <2>4. att.oracle = o /\ att.timestamp = now
    OBVIOUS
  <2> HIDE DEF att
  <2>5. Voted(e)'
    BY <1>3, <2>1, <2>2, <2>3, <2>4 DEF Voted
  <2>6. deposits'[e].created_at <= now'
    BY <1>4, <1>5, <2>1, <2>2 DEF Deposit
  <2> QED
    BY <1>3, <2>1, <2>2, <2>5, <2>6 DEF Judged
<1>9. CASE /\ \/ deposits[e].state = "Approved" /\ SettledAs(e, "Released")
              \/ Refundable(e) /\ SettledAs(e, "Refunded")
  <2>1. Exists(e)
    BY <1>9 DEF Exists, Refundable
  <2>2. CASE deposits'[e] = NoDeposit
    <3>1. ~ Exists(e)'
      BY <2>2 DEF Exists, NoDeposit
    <3> QED
      BY <3>1 DEF Judged
  <2>3. CASE deposits'[e] # NoDeposit
    <3>1. /\ deposits'[e].state # "Expired"
          /\ deposits'[e].attestations = deposits[e].attestations
          /\ deposits'[e].created_at = deposits[e].created_at
          /\ deposits'[e].expire_at = deposits[e].expire_at
      BY <1>9, <2>3 DEF SettledAs
    <3>2. /\ Voted(e) /\ VaultExists(VaultOf(e))
          /\ deposits[e].created_at <= now /\ deposits[e].created_at \in Nat
      BY <1>2, <1>5, <2>1 DEF Judged, Deposit
    <3>3. Voted(e)'
      BY <1>3, <3>1, <3>2 DEF Voted
    <3>4. deposits'[e].created_at <= now'
      BY <1>4, <3>1, <3>2
    <3> QED
      BY <1>3, <3>1, <3>2, <3>3, <3>4 DEF Judged
  <2> QED
    BY <2>2, <2>3
<1> QED
  BY <1>1, <1>6, <1>7, <1>8, <1>9, StepKinds DEF Others

\* VoteInv holds of every reachable state.
LEMMA VoteInvHolds == Spec => []VoteInv
<1>1. Init => VoteInv
  BY DEF Init, VoteInv, VaultsFit, VaultExists, NoVault, Judged, Exists, NoDeposit
<1> QED
  BY <1>1, TypeCorrect, VoteStep, PTL DEF Spec

\* Every attestation on record is by a member of the vault's oracle set, one per
\* oracle, made within the deposit's time, and they fit the space attest.rs has.
THEOREM Votes == Spec => []AttestedOnceInTime
  BY TypeCorrect, VoteInvHolds, VoteInvImplies, PTL

\* Votes of distinct oracles that all are among `bad` are no more than these.
LEMMA CastByFew ==
    ASSUME NEW d \in DepositIds, Voted(d), NEW verdict,
           NEW bad, IsFiniteSet(bad), CastByOthers(deposits[d], verdict, bad) = {}
    PROVE  Cardinality(Cast(deposits[d].attestations, verdict)) <= Cardinality(bad)
<1> DEFINE votes == Cast(deposits[d].attestations, verdict)
<1>1. votes \subseteq deposits[d].attestations
  BY DEF Cast
<1>2. \A a \in votes : a.oracle \in bad
  BY DEF CastByOthers
<1>3. \A a, b \in votes : a.oracle = b.oracle => a = b
  BY <1>1 DEF Voted
<1> HIDE DEF votes
<1>4. Cardinality(votes) <= Cardinality(bad)
  BY <1>2, <1>3, VotesBounded
<1> QED
  BY <1>4 DEF votes

\* No set of oracles smaller than a vault's threshold, whatever they vote and in whatever
\* order, brings about a verdict of its own: what DESIGN.md:376 counts on.
THEOREM MinoritiesPowerless == Spec => []NoMinorityVerdict
<1>1. TypeOK /\ VerdictInv /\ VoteInv => NoMinorityVerdict
  <2> SUFFICES ASSUME TypeOK, VerdictInv, VoteInv, NEW d \in DepositIds, Exists(d),
                      NEW bad \in SUBSET Oracles, IsFiniteSet(bad),
                      Cardinality(bad) < vaults[VaultOf(d)].min_attestations
               PROVE
        LET dep == deposits[d]
            threshold == vaults[VaultOf(d)].min_attestations
        IN
        /\ dep.state \in {"Approved", "Released"} => CastByOthers(dep, "Clean", bad) # {}
        /\ dep.state = "Rejected" => CastByOthers(dep, "Dirty", bad) # {}
    BY DEF NoMinorityVerdict
  <2> DEFINE dep == deposits[d]
             threshold == vaults[VaultOf(d)].min_attestations
             clean == Cast(dep.attestations, "Clean")
             dirty == Cast(dep.attestations, "Dirty")
  <2>1. Backed(dep, threshold) /\ Voted(d) /\ dep \in Deposit
    BY DepositType DEF VerdictInv, VerdictBacked, VoteInv, Judged
  <2>2. VaultOf(d) \in Authorities /\ VaultExists(VaultOf(d))
    BY VaultOfType DEF VoteInv, Judged
  <2>3. threshold \in Nat
    BY <2>2 DEF TypeOK, VaultExists, NoVault, Vault
  <2>4. IsFiniteSet(clean) /\ IsFiniteSet(dirty)
    BY FS_Subset DEF VerdictInv, FiniteAttestations, Cast
  <2>5. Cardinality(clean) \in Nat /\ Cardinality(dirty) \in Nat /\ Cardinality(bad) \in Nat
    BY <2>4, FS_CardinalityType
  <2>6. /\ dep.clean_count = Cardinality(clean) /\ dep.dirty_count = Cardinality(dirty)
        /\ dep.state \in {"Approved", "Released"} => Cardinality(clean) >= threshold
        /\ dep.state = "Rejected" => Cardinality(dirty) >= threshold
    BY <2>1 DEF Backed
  <2>7. dep.state \in {"Approved", "Released"} => CastByOthers(dep, "Clean", bad) # {}
    BY <2>1, <2>3, <2>5, <2>6, CastByFew
  <2>8. dep.state = "Rejected" => CastByOthers(dep, "Dirty", bad) # {}
    BY <2>1, <2>3, <2>5, <2>6, CastByFew
  <2> QED
    BY <2>7, <2>8
<1> QED
  BY <1>1, TypeCorrect, VerdictInvHolds, VoteInvHolds, PTL

------------------------------------------------------------------------------
(* Money leaves a deposit only in the step that settles it.                  *)

\* What a move of lamports takes from its payer.
LEMMA MoveLamportsTakes ==
    ASSUME lamports \in [Accounts -> Nat],
           NEW from \in Accounts, NEW to \in Accounts, NEW amt \in Nat
    PROVE  MoveLamports(from, to, amt)[from] =
             IF from = to THEN lamports[from] ELSE lamports[from] - amt
  BY DEF MoveLamports

\* What a move of tokens takes from its payer, another account than the payee's.
LEMMA MoveTokensTakes ==
    ASSUME tokens \in [Accounts -> [Mints -> Nat]], NEW m \in Mints,
           NEW from \in Accounts, NEW to \in Accounts, NEW amt \in Moved, from # to
    PROVE  MoveTokens(m, from, to, amt)[from][m] = tokens[from][m] - amt
<1> DEFINE row == [tokens[from] EXCEPT ![m] = @ - amt]
           taken == [tokens EXCEPT ![from] = row]
           credited == [taken[to] EXCEPT ![m] = @ + Arrived(m, amt)]
<1>1. MoveTokens(m, from, to, amt) = [taken EXCEPT ![to] = credited]
  BY DEF MoveTokens
<1>2. taken[from] = row /\ DOMAIN taken = Accounts
  OBVIOUS
<1>3. row[m] = tokens[from][m] - amt
  OBVIOUS
<1> HIDE DEF taken, credited, row
<1> QED
  BY <1>1, <1>2, <1>3

\* A payout takes the amount from its own deposit and from no other.
LEMMA PayOutDrains ==
    ASSUME TypeOK, NEW d \in DepositIds, NEW target \in Accounts, NEW final,
           Exists(d), PayOut(d, target, final),
           NEW e \in DepositIds, Drained(e)
    PROVE  /\ e = d /\ tokens' = tokens
           /\ lamports'[d] = lamports[d] - deposits[d].amount
           /\ deposits'[d].state \in {final, "Absent"}
<1>1. d \in Accounts /\ e \in Accounts
  BY AccountsSplit
<1>2. deposits[d] \in Deposit /\ deposits[d].amount \in Nat
  BY DepositType, AmountAssumption DEF Deposit
<1>3. lamports' = MoveLamports(d, target, deposits[d].amount) /\ tokens' = tokens
  BY DEF PayOut
<1>4. lamports'[e] < lamports[e] /\ lamports[e] \in Nat
  BY <1>1, <1>3 DEF Drained, TypeOK
<1>5. e = d
  <2>1. e # d => lamports'[e] >= lamports[e]
    BY <1>1, <1>2, <1>3, MoveLamportsGain DEF TypeOK
  <2>2. lamports'[e] \in Nat
    BY <1>1, <1>2, <1>3, MoveLamportsType DEF TypeOK, PayOut, MayPayOut
  <2> QED
    BY <1>4, <2>1, <2>2
<1>6. lamports'[d] = lamports[d] - deposits[d].amount
  BY <1>1, <1>2, <1>3, <1>4, <1>5, MoveLamportsTakes DEF TypeOK
<1>7. deposits'[d].state \in {final, "Absent"}
  BY <1>2 DEF PayOut, TypeOK, NoDeposit, Deposit
<1> QED
  BY <1>3, <1>5, <1>6, <1>7

\* So does a payout of tokens.
LEMMA PayOutTokenDrains ==
    ASSUME TypeOK, NEW d \in DepositIds, NEW target \in Accounts, NEW final,
           Exists(d), PayOutToken(d, target, final),
           NEW e \in DepositIds, Drained(e)
    PROVE  /\ e = d /\ lamports' = lamports
           /\ deposits[d].mint # NativeMint
           /\ tokens'[d][deposits[d].mint]
                = tokens[d][deposits[d].mint] - deposits[d].amount
           /\ deposits'[d].state = final
<1> DEFINE mint == deposits[d].mint
<1>1. d \in Accounts /\ e \in Accounts
  BY AccountsSplit
<1>2. deposits[d] \in Deposit /\ deposits[d].amount \in Moved /\ mint \in Mints
  BY DepositType DEF Deposit, PayOutToken, MayPayOutToken, Moved
<1>3. /\ tokens' = MoveTokens(mint, d, target, deposits[d].amount)
      /\ lamports' = lamports /\ target # d /\ mint # NativeMint
      /\ tokens[d][mint] >= deposits[d].amount
  BY DEF PayOutToken, MayPayOutToken
<1>4. \E n \in Mints : tokens'[e][n] < tokens[e][n]
  BY <1>1, <1>3 DEF Drained, TypeOK
<1>5. e = d
  <2>1. \A n \in Mints : e # d => tokens'[e][n] >= tokens[e][n]
    BY <1>1, <1>2, <1>3, MoveTokensGain DEF TypeOK
  <2>2. tokens' \in [Accounts -> [Mints -> Nat]]
    BY <1>1, <1>2, <1>3, MoveTokensType DEF TypeOK
  <2>3. \A n \in Mints : tokens'[e][n] \in Nat /\ tokens[e][n] \in Nat
    BY <1>1, <2>2 DEF TypeOK
  <2> QED
    BY <1>4, <2>1, <2>3
<1>6. tokens'[d][mint] = tokens[d][mint] - deposits[d].amount
  BY <1>1, <1>2, <1>3, MoveTokensTakes DEF TypeOK
<1>7. deposits'[d].state = final
  BY <1>2 DEF PayOutToken, TypeOK, Deposit
<1> QED
  BY <1>3, <1>5, <1>6, <1>7

\* A step of anyone else takes nothing from a deposit.
LEMMA OnlySettlementDrains ==
    ASSUME TypeOK, [Next]_vars, NEW e \in DepositIds, Drained(e)
    PROVE  Settle
<1>1. e \in Accounts /\ \A w \in Wallets : w # e /\ w \in Accounts
  BY AccountsSplit
<1>2. /\ lamports[e] \in Nat /\ \A n \in Mints : tokens[e][n] \in Nat
      /\ lamports' = lamports => ~ (lamports'[e] < lamports[e])
      /\ tokens' = tokens => ~ \E n \in Mints : tokens'[e][n] < tokens[e][n]
  BY <1>1 DEF TypeOK
<1>3. ASSUME NEW w \in Wallets, NEW acc \in Accounts, NEW amt \in Nat,
             lamports[w] >= amt, lamports' = MoveLamports(w, acc, amt)
      PROVE  ~ (lamports'[e] < lamports[e])
  <2>1. lamports'[e] >= lamports[e] /\ lamports'[e] \in Nat
    BY <1>1, <1>3, MoveLamportsGain, MoveLamportsType DEF TypeOK
  <2> QED
    BY <1>2, <2>1
<1>t. ASSUME NEW w \in Wallets, NEW acc \in Accounts, NEW m \in Mints, NEW amt \in Moved,
             tokens[w][m] >= amt, tokens' = MoveTokens(m, w, acc, amt)
      PROVE  \A n \in Mints : ~ (tokens'[e][n] < tokens[e][n])
  <2>1. w \in Accounts /\ w # e
    BY <1>1
  <2>2. tokens' \in [Accounts -> [Mints -> Nat]]
    BY <1>t, <2>1, MoveTokensType DEF TypeOK
  <2>3. \A n \in Mints : tokens'[e][n] >= tokens[e][n] /\ tokens'[e][n] \in Nat
    BY <1>1, <1>t, <2>1, <2>2, MoveTokensGain DEF TypeOK
  <2> QED
    BY <1>2, <2>3
<1>4. ASSUME NEW d \in DepositIds, NEW w \in Wallets, NEW amt \in Amounts,
             NEW r \in RefundAddrs, NEW ra \in ReleaseAuthorities, NEW ex \in ExpireArgs,
             MakeDeposit(d, w, amt, r, ra, ex)
      PROVE  FALSE
  <2>1. RentDue(d) + amt \in Nat /\ d \in Accounts
    BY RentDueNat, AmountAssumption, AccountsSplit DEF TypeOK
  <2>2. ~ (lamports'[e] < lamports[e])
    BY <1>3, <1>4, <2>1 DEF MakeDeposit, PayIn
  <2> QED
    BY <1>2, <1>4, <2>2 DEF MakeDeposit, Drained
<1>5. ASSUME NEW d \in DepositIds, NEW w \in Wallets, NEW m \in Mints, NEW amt \in Amounts,
             NEW r \in RefundAddrs, NEW ra \in ReleaseAuthorities, NEW ex \in ExpireArgs,
             DepositToken(d, w, m, amt, r, ra, ex)
      PROVE  FALSE
  <2>1. RentDue(d) \in Nat /\ d \in Accounts /\ amt \in Moved
    BY RentDueNat, AccountsSplit DEF TypeOK, Moved
  <2>2. ~ (lamports'[e] < lamports[e])
    BY <1>3, <1>5, <2>1 DEF DepositToken, PayIn
  <2>3. tokens[w][m] >= amt /\ tokens' = MoveTokens(m, w, d, amt)
    BY <1>5 DEF DepositToken, TransferIn
  <2> QED
    BY <1>t, <2>1, <2>2, <2>3 DEF Drained
<1>6. ASSUME NEW from \in Wallets, NEW to \in Accounts, NEW amt \in TransferAmounts,
             Transfer(from, to, amt) \/ \E m \in Mints : TransferTokens(from, to, m, amt)
      PROVE  FALSE
  <2>1. CASE Transfer(from, to, amt)
    BY <1>2, <1>3, <2>1, AmountAssumption DEF Transfer, Drained
  <2>2. ASSUME NEW m \in Mints, TransferTokens(from, to, m, amt)
        PROVE  FALSE
    <3>1. amt \in Moved
      BY DEF Moved
    <3> QED
      BY <1>2, <1>t, <2>2, <3>1 DEF TransferTokens, Drained
  <2> QED
    BY <1>6, <2>1, <2>2
<1>7. ~ (lamports' = lamports /\ tokens' = tokens)
  BY <1>2 DEF Drained
<1>8. ~ Create
  BY <1>4, <1>5, <1>7 DEF Create, InitializeVault
<1>9. ~ (Judge \/ Pay \/ Tick \/ UNCHANGED vars)
  BY <1>6, <1>7 DEF Judge, Attest, Pay, Tick, vars
<1> QED
  BY <1>8, <1>9 DEF Next

\* Money leaves a deposit only in the step that settles it, exactly its amount, and
\* only as its verdict or its lapse allows.
THEOREM Funds == Spec => FundsLeaveBySettlement
<1>1. ASSUME TypeOK, [Next]_vars, NEW e \in DepositIds, Drained(e)
      PROVE  Exists(e) /\ SettledBy(e)
  <2>1. PICK d \in DepositIds, target \in Accounts :
           \/ \E signer \in Wallets : Release(d, signer, target)
           \/ \E signer \in Wallets : ReleaseToken(d, signer, target)
           \/ Refund(d, target)
           \/ RefundToken(d, target)
    BY <1>1, OnlySettlementDrains DEF Settle
  <2>2. PICK final \in {"Released", "Refunded"} :
           /\ \/ final = "Released" /\ deposits[d].state = "Approved"
              \/ final = "Refunded" /\ Refundable(d)
           /\ PayOut(d, target, final) \/ PayOutToken(d, target, final)
    BY <2>1 DEF Release, ReleaseToken, MayRelease, Refund, RefundToken
  <2>3. Exists(d)
    BY <2>2 DEF Exists, Refundable
  <2>4. CASE PayOut(d, target, final)
    BY <1>1, <2>2, <2>3, <2>4, PayOutDrains DEF SettledBy
  <2>5. CASE PayOutToken(d, target, final)
    BY <1>1, <2>2, <2>3, <2>5, PayOutTokenDrains DEF SettledBy
  <2> QED
    BY <2>2, <2>4, <2>5
<1>2. TypeOK /\ [Next]_vars =>
         [\A d \in DepositIds : Drained(d) => Exists(d) /\ SettledBy(d)]_vars
  BY <1>1
<1> QED
  BY <1>2, TypeCorrect, PTL DEF Spec, FundsLeaveBySettlement

\* A payout leaves a SOL deposit its record: what is subtracted is its amount, and its
\* lamports are at least its rent more.
LEMMA PayOutKeepsNative ==
    ASSUME TypeOK, Solvent, NEW d \in DepositIds, IsOpen(d), IsNative(d),
           NEW target \in Accounts, NEW final, PayOut(d, target, final)
    PROVE  deposits' = [deposits EXCEPT ![d] = [deposits[d] EXCEPT !.state = final]]
<1>1. /\ lamports[d] \in Nat /\ lamports[d] >= DepositRent + deposits[d].amount
      /\ deposits[d].amount \in Nat /\ DepositRent \in Nat /\ 0 < DepositRent
  <2>1. deposits[d] \in Deposit
    BY DepositType DEF IsOpen, OpenStates, Exists
  <2>2. lamports[d] \in Nat /\ lamports[d] >= DepositRent + deposits[d].amount
    BY AccountsSplit DEF TypeOK, Solvent, Covered
  <2>3. deposits[d].amount \in Nat
    BY <2>1, AmountAssumption DEF Deposit
  <2>4. DepositRent \in Nat /\ 0 < DepositRent
    BY AmountAssumption
  <2> QED
    BY <2>2, <2>3, <2>4
<1>2. lamports' = MoveLamports(d, target, deposits[d].amount)
  BY DEF PayOut
<1>3. lamports'[d] # 0
  BY <1>1, <1>2 DEF MoveLamports, TypeOK, Accounts
<1> QED
  BY <1>3 DEF PayOut

\* Whoever is paid, and whoever pays into its account, a SOL deposit keeps its address,
\* its terms and its votes, and once settled all of its record: the replay protection of
\* deposit.rs:33-44 is never lifted.
THEOREM StaysForGood == Spec => NativeForGood
<1>1. ASSUME TypeOK, Solvent, VoteInv, [Next]_vars,
             NEW e \in DepositIds, Exists(e), IsNative(e)
      PROVE  KeepsAddress(e)
  <2> USE DEF KeepsAddress
  <2>1. deposits[e] \in Deposit /\ deposits[e].state # "Absent"
    BY <1>1, DepositType DEF Exists
  <2>2. CASE deposits'[e] = deposits[e]
    BY <2>1, <2>2
  <2>3. CASE Create
    <3>1. deposits'[e] = deposits[e]
      BY <1>1, <2>3, StepKinds DEF Others, Opened, Create, InitializeVault, MakeDeposit,
            DepositToken, OpenDeposit, TypeOK, Exists
    <3> QED
      BY <2>2, <3>1
  <2>4. CASE Judge
    <3>1. PICK d \in DepositIds, o \in Oracles, v \in AmlVerdicts : Attest(d, o, v)
      BY <2>4 DEF Judge
    <3>2. CASE d # e
      BY <2>2, <3>1, <3>2 DEF Attest, TypeOK
    <3>3. CASE d = e
      <4>1. deposits[e].state = "Pending"
        BY <3>1, <3>3 DEF Attest
      <4>2. /\ Terms(deposits'[e]) = Terms(deposits[e])
            /\ deposits[e].attestations \subseteq deposits'[e].attestations
        BY <1>1, <2>1, <3>1, <3>3 DEF Attest, TypeOK, Deposit, Terms
      <4>3. deposits'[e].state # "Absent"
        BY <1>1, <2>1, <3>1, <3>3 DEF Attest, TypeOK, Deposit, Outcome
      <4> QED
        BY <4>1, <4>2, <4>3
    <3> QED
      BY <3>2, <3>3
  <2>5. CASE Settle
    <3>1. PICK d \in DepositIds, target \in Accounts, final \in {"Released", "Refunded"} :
             /\ IsOpen(d)
             /\ PayOut(d, target, final) \/ PayOutToken(d, target, final)
      <4>1. PICK d \in DepositIds, target \in Accounts :
               \/ \E signer \in Wallets : Release(d, signer, target)
               \/ \E signer \in Wallets : ReleaseToken(d, signer, target)
               \/ Refund(d, target)
               \/ RefundToken(d, target)
        BY <2>5 DEF Settle
      <4>2. \/ /\ deposits[d].state = "Approved"
               /\ PayOut(d, target, "Released") \/ PayOutToken(d, target, "Released")
            \/ /\ Refundable(d)
               /\ PayOut(d, target, "Refunded") \/ PayOutToken(d, target, "Refunded")
        BY <4>1 DEF Release, ReleaseToken, MayRelease, Refund, RefundToken
      <4>3. IsOpen(d)
        BY <1>1, <4>2 DEF Refundable, IsOpen, OpenStates, VoteInv, Judged, Exists
      <4> QED
        BY <4>2, <4>3
    <3>2. CASE d # e
      BY <1>1, <2>2, <3>1, <3>2 DEF PayOut, PayOutToken, TypeOK
    <3>3. CASE d = e
      <4>1. PayOut(d, target, final)
        BY <1>1, <3>1, <3>3 DEF PayOutToken, MayPayOutToken, IsNative
      <4>2. deposits' = [deposits EXCEPT ![d] = [deposits[d] EXCEPT !.state = final]]
        BY <1>1, <3>1, <3>3, <4>1, PayOutKeepsNative
      <4>3. /\ deposits'[e].state = final
            /\ Terms(deposits'[e]) = Terms(deposits[e])
            /\ deposits'[e].attestations = deposits[e].attestations
        BY <1>1, <2>1, <3>3, <4>2 DEF TypeOK, Deposit, Terms
      <4> QED
        BY <3>1, <3>3, <4>3 DEF IsOpen, OpenStates
    <3> QED
      BY <3>2, <3>3
  <2>6. CASE Pay \/ Tick \/ UNCHANGED vars
    BY <2>2, <2>6 DEF Pay, Transfer, TransferTokens, Tick, vars
  <2> QED
    BY <1>1, <2>3, <2>4, <2>5, <2>6 DEF Next
<1>2. TypeOK /\ Solvent /\ VoteInv /\ [Next]_vars =>
         [\A d \in DepositIds : Exists(d) /\ IsNative(d) => KeepsAddress(d)]_vars
  BY <1>1
<1> QED
  BY <1>2, TypeCorrect, Solvency, VoteInvHolds, PTL DEF Spec, NativeForGood

------------------------------------------------------------------------------
(* The program implements the EscrowLifecycle.                               *)

\* Ballots of distinct oracles are as many as the votes they stand for.
LEMMA BallotsCount ==
    ASSUME NEW att, IsFiniteSet(att), \A a, b \in att : a.oracle = b.oracle => a = b,
           NEW verdict
    PROVE  Cardinality({a.oracle : a \in Cast(att, verdict)}) = Cardinality(Cast(att, verdict))
<1> DEFINE votes == Cast(att, verdict)
           ballots == {a.oracle : a \in votes}
           voter == [a \in votes |-> a.oracle]
<1>1. votes \subseteq att /\ IsFiniteSet(votes)
  BY FS_Subset DEF Cast
<1>2. voter \in Injection(votes, ballots) /\ voter \in Surjection(votes, ballots)
  <2> HIDE DEF votes
  <2> QED BY <1>1 DEF Injection, IsInjective, Surjection
<1>3. ExistsBijection(votes, ballots)
  BY <1>2 DEF Bijection, ExistsBijection
<1> HIDE DEF votes, ballots
<1>4. Cardinality(ballots) = Cardinality(votes)
  BY <1>1, <1>3, FS_Bijection
<1> QED
  BY <1>4 DEF votes, ballots

\* The program starts where the lifecycle does.
LEMMA LifecycleInit == Init => Lifecycle!AInit
  BY VaultOfType DEF Init, Lifecycle!AInit, NoDeposit, NoVault, Exists, PhaseOf,
     CleanBallots, DirtyBallots, Ballots, OverdueDeposits, Overdue, QuorumOf

\* What the lifecycle sees of a step that changes no deposit.
LEMMA DepositsKept ==
    ASSUME deposits' = deposits
    PROVE  /\ PhaseOf' = PhaseOf
           /\ CleanBallots' = CleanBallots /\ DirtyBallots' = DirtyBallots
           /\ now' = now => OverdueDeposits' = OverdueDeposits
           /\ vaults' = vaults => QuorumOf' = QuorumOf
  BY DEF PhaseOf, CleanBallots, DirtyBallots, Ballots, Cast, OverdueDeposits, Overdue,
         QuorumOf, Exists

\* A new vault establishes the quorum of the deposits that will live in it.
LEMMA EstablishStep ==
    ASSUME TypeOK, NEW v \in Authorities, NEW set \in OracleLists, NEW m \in Thresholds,
           InitializeVault(v, set, m)
    PROVE  Lifecycle!ANext
<1> DEFINE ds == {d \in DepositIds : VaultOf(d) = v}
<1>1. m > 0 /\ \A d \in ds : QuorumOf[d] = 0
  BY OracleAssumption DEF InitializeVault, VaultExists, QuorumOf
<1>2. QuorumOf' = [d \in DepositIds |-> IF d \in ds THEN m ELSE QuorumOf[d]]
  BY VaultOfType DEF InitializeVault, QuorumOf, TypeOK
<1>3. deposits' = deposits /\ now' = now
  BY DEF InitializeVault
<1>4. ds \in SUBSET DepositIds
  OBVIOUS
<1> HIDE DEF ds
<1>5. Lifecycle!Establish(ds, m)
  BY <1>1, <1>2, <1>3, DepositsKept DEF Lifecycle!Establish
<1> QED
  BY <1>4, <1>5, Zenon DEF Lifecycle!ANext, Lifecycle!Establish

\* The clock lapses every deposit whose time it reaches.
LEMMA LapseStep ==
    ASSUME TypeOK, Tick
    PROVE  Lifecycle!ANext
<1> DEFINE ds == {d \in DepositIds : Exists(d) /\ now + 1 >= deposits[d].expire_at}
<1>1. deposits' = deposits /\ vaults' = vaults /\ now' = now + 1 /\ now \in Nat
  BY DEF Tick, TypeOK
<1>2. ASSUME NEW d \in DepositIds
      PROVE  Overdue(d) => d \in ds
  <2>1. Exists(d) => deposits[d].expire_at \in Nat
    BY DepositType DEF Deposit
  <2> QED
    BY <1>1, <2>1 DEF Overdue
<1>3. OverdueDeposits' = OverdueDeposits \cup ds
  BY <1>1, <1>2 DEF OverdueDeposits, Overdue, Exists
<1>4. \A d \in ds : PhaseOf[d] # "Absent"
  BY DEF Exists, PhaseOf
<1>5. ds \in SUBSET DepositIds
  OBVIOUS
<1> HIDE DEF ds
<1>6. Lifecycle!Lapse(ds)
  BY <1>1, <1>3, <1>4, DepositsKept DEF Lifecycle!Lapse
<1> QED
  BY <1>5, <1>6, Zenon DEF Lifecycle!ANext, Lifecycle!Lapse

\* A step that changes the record of one deposit only changes the lifecycle's view
\* of that one only.
OneDeposit(d) ==
    /\ Others(d) /\ now' = now
    /\ \A v \in Authorities : vaults'[v].min_attestations = vaults[v].min_attestations

LEMMA OneView ==
    ASSUME NEW d \in DepositIds, OneDeposit(d)
    PROVE  /\ PhaseOf' = [PhaseOf EXCEPT ![d] = deposits'[d].state]
           /\ CleanBallots' = [CleanBallots EXCEPT ![d] = Ballots(d, "Clean")']
           /\ DirtyBallots' = [DirtyBallots EXCEPT ![d] = Ballots(d, "Dirty")']
           /\ OverdueDeposits' = (OverdueDeposits \ {d}) \cup (IF Overdue(d)' THEN {d} ELSE {})
           /\ QuorumOf' = QuorumOf
<1>1. ASSUME NEW e \in DepositIds, e # d
      PROVE  /\ deposits'[e].state = deposits[e].state
             /\ \A v : Ballots(e, v)' = Ballots(e, v)
             /\ Overdue(e)' = Overdue(e)
  BY <1>1 DEF OneDeposit, Others, Ballots, Overdue, Exists, Cast
<1>2. QuorumOf' = QuorumOf
  BY VaultOfType DEF OneDeposit, QuorumOf
<1>3. PhaseOf' = [PhaseOf EXCEPT ![d] = deposits'[d].state]
  BY <1>1 DEF PhaseOf
<1>4. CleanBallots' = [CleanBallots EXCEPT ![d] = Ballots(d, "Clean")']
  BY <1>1 DEF CleanBallots, Ballots
<1>5. DirtyBallots' = [DirtyBallots EXCEPT ![d] = Ballots(d, "Dirty")']
  BY <1>1 DEF DirtyBallots, Ballots
<1>6. OverdueDeposits' = (OverdueDeposits \ {d}) \cup (IF Overdue(d)' THEN {d} ELSE {})
  BY <1>1 DEF OverdueDeposits, Overdue
<1> QED
  BY <1>2, <1>3, <1>4, <1>5, <1>6

\* The same view of the deposit itself.
LEMMA ViewAt ==
    ASSUME NEW d \in DepositIds
    PROVE  /\ PhaseOf[d] = deposits[d].state
           /\ CleanBallots[d] = Ballots(d, "Clean") /\ DirtyBallots[d] = Ballots(d, "Dirty")
           /\ QuorumOf[d] = vaults[VaultOf(d)].min_attestations
           /\ d \in OverdueDeposits <=> Overdue(d)
           /\ DOMAIN PhaseOf = DepositIds
           /\ DOMAIN CleanBallots = DepositIds /\ DOMAIN DirtyBallots = DepositIds
  BY DEF PhaseOf, CleanBallots, DirtyBallots, QuorumOf, OverdueDeposits

\* A deposit that is made is held, with no ballot and time left.
LEMMA HoldStep ==
    ASSUME TypeOK, NEW d \in DepositIds, OneDeposit(d), Opened(d)
    PROVE  Lifecycle!ANext
<1>1. QuorumOf[d] > 0
  BY VaultOfType, ViewAt DEF Opened, VaultExists, TypeOK, Vault, NoVault
<1>2. deposits[d].state = "Absent" /\ deposits'[d].state = "Pending"
  BY DEF Opened, Exists
<1>3. \A v : Ballots(d, v) = {} /\ Ballots(d, v)' = {}
  BY DEF Opened, Ballots, Cast
<1>4. ~ Overdue(d) /\ ~ Overdue(d)'
  <2>1. now \in Nat /\ now' = now
    BY DEF TypeOK, OneDeposit
  <2> QED
    BY <2>1 DEF Overdue, Opened
<1>5. /\ CleanBallots' = CleanBallots /\ DirtyBallots' = DirtyBallots
      /\ OverdueDeposits' = OverdueDeposits
  <2>1. d \notin OverdueDeposits
    BY <1>4, ViewAt
  <2>2. CleanBallots[d] = {} /\ DirtyBallots[d] = {}
    BY <1>3, ViewAt
  <2>3. /\ CleanBallots' = [CleanBallots EXCEPT ![d] = {}]
        /\ DirtyBallots' = [DirtyBallots EXCEPT ![d] = {}]
        /\ OverdueDeposits' = OverdueDeposits \ {d}
    BY <1>3, <1>4, OneView
  <2>4. /\ CleanBallots = [e \in DepositIds |-> CleanBallots[e]]
        /\ DirtyBallots = [e \in DepositIds |-> DirtyBallots[e]]
    BY DEF CleanBallots, DirtyBallots
  <2> QED
    BY <2>1, <2>2, <2>3, <2>4
<1>6. Lifecycle!Hold(d)
  BY <1>1, <1>2, <1>5, OneView, ViewAt DEF Lifecycle!Hold
<1> QED
  BY <1>6, Zenon DEF Lifecycle!ANext, Lifecycle!Hold

\* The lifecycle counts as the program does.
LEMMA SameCardinality == \A S : Lifecycle!Cardinality(S) = Cardinality(S)
  BY DEF Lifecycle!Cardinality, Cardinality

\* An attestation is a ballot of one more oracle, and its outcome the lifecycle's.
LEMMA DecideStep ==
    ASSUME TypeOK, VerdictInv, VerdictInv', VoteInv, VoteInv',
           NEW d \in DepositIds, OneDeposit(d),
           NEW o \in Oracles, NEW v \in AmlVerdicts, AttestedBy(d, o, v)
    PROVE  Lifecycle!ANext
<1> DEFINE att == [oracle |-> o, verdict |-> v, timestamp |-> now]
           was == deposits[d].attestations
           is == deposits'[d].attestations
<1>1. /\ Exists(d) /\ Exists(d)' /\ deposits[d].state = "Pending"
      /\ is = was \cup {att}
  BY DEF AttestedBy, Exists, Outcome
<1>2. ~ Overdue(d) /\ ~ Overdue(d)'
  <2>1. deposits[d] \in Deposit
    BY <1>1, DepositType
  <2>2. /\ now < deposits[d].expire_at /\ deposits[d].expire_at \in Nat /\ now \in Nat
        /\ deposits'[d].expire_at = deposits[d].expire_at /\ now' = now
    BY <2>1 DEF AttestedBy, MayJudge, OneDeposit, TypeOK, Deposit
  <2> QED
    BY <2>2 DEF Overdue
<1>3. o \notin Ballots(d, "Clean") \cup Ballots(d, "Dirty")
  BY DEF AttestedBy, MayJudge, Ballots, Cast
<1>4. att.oracle = o /\ att.verdict = v
  OBVIOUS
<1>5. ASSUME NEW u
      PROVE  Ballots(d, u)' = IF u = v THEN Ballots(d, u) \cup {o} ELSE Ballots(d, u)
  <2> HIDE DEF att
  <2>1. Cast(is, u) = IF u = v THEN Cast(was, u) \cup {att} ELSE Cast(was, u)
    BY <1>1, <1>4 DEF Cast
  <2> HIDE DEF was, is
  <2>2. {a.oracle : a \in Cast(is, u)} =
           IF u = v THEN {a.oracle : a \in Cast(was, u)} \cup {o}
           ELSE {a.oracle : a \in Cast(was, u)}
    BY <1>4, <2>1
  <2> QED
    BY <1>1, <2>2 DEF Ballots, was, is
<1>6. /\ Cardinality(Ballots(d, "Clean")') = deposits'[d].clean_count
      /\ Cardinality(Ballots(d, "Dirty")') = deposits'[d].dirty_count
  <2>1. IsFiniteSet(is)
    BY <1>1 DEF VerdictInv, FiniteAttestations
  <2>2. \A a, b \in is : a.oracle = b.oracle => a = b
    BY <1>1 DEF VoteInv, Judged, Voted
  <2>3. /\ deposits'[d].clean_count = Cardinality(Cast(is, "Clean"))
        /\ deposits'[d].dirty_count = Cardinality(Cast(is, "Dirty"))
    BY <1>1 DEF VerdictInv, VerdictBacked, Backed, Cast
  <2>4. \A u : Ballots(d, u)' = {a.oracle : a \in Cast(is, u)}
    BY <1>1 DEF Ballots
  <2> HIDE DEF is
  <2> QED
    BY <2>1, <2>2, <2>3, <2>4, BallotsCount
<1>7. PhaseOf' = [PhaseOf EXCEPT ![d] =
        IF Cardinality(Ballots(d, "Dirty")') >= QuorumOf[d] THEN "Rejected"
        ELSE IF Cardinality(Ballots(d, "Clean")') >= QuorumOf[d] THEN "Approved"
        ELSE "Pending"]
  <2>1. deposits'[d].state =
          IF Cardinality(Ballots(d, "Dirty")') >= QuorumOf[d] THEN "Rejected"
          ELSE IF Cardinality(Ballots(d, "Clean")') >= QuorumOf[d] THEN "Approved"
          ELSE "Pending"
    BY <1>6, ViewAt DEF AttestedBy, Outcome
  <2> QED
    BY <2>1, OneView
<1>8. OverdueDeposits' = OverdueDeposits /\ QuorumOf' = QuorumOf /\ d \notin OverdueDeposits
  <2>1. d \notin OverdueDeposits
    BY <1>2, ViewAt
  <2>2. OverdueDeposits' = OverdueDeposits \ {d} /\ QuorumOf' = QuorumOf
    BY <1>2, OneView
  <2> QED
    BY <2>1, <2>2
<1>9. /\ CleanBallots' = [CleanBallots EXCEPT ![d] = Ballots(d, "Clean")']
      /\ DirtyBallots' = [DirtyBallots EXCEPT ![d] = Ballots(d, "Dirty")']
      /\ CleanBallots'[d] = Ballots(d, "Clean")' /\ DirtyBallots'[d] = Ballots(d, "Dirty")'
      /\ CleanBallots = [e \in DepositIds |-> CleanBallots[e]]
      /\ DirtyBallots = [e \in DepositIds |-> DirtyBallots[e]]
  BY OneView, ViewAt DEF CleanBallots, DirtyBallots
<1>10. \/ CleanBallots' = [CleanBallots EXCEPT ![d] = @ \cup {o}] /\ DirtyBallots' = DirtyBallots
       \/ DirtyBallots' = [DirtyBallots EXCEPT ![d] = @ \cup {o}] /\ CleanBallots' = CleanBallots
  <2>1. CASE v = "Clean"
    <3>1. /\ Ballots(d, "Clean")' = CleanBallots[d] \cup {o}
          /\ Ballots(d, "Dirty")' = DirtyBallots[d]
      BY <1>5, <2>1, ViewAt
    <3> QED
      BY <1>9, <3>1
  <2>2. CASE v = "Dirty"
    <3>1. /\ Ballots(d, "Dirty")' = DirtyBallots[d] \cup {o}
          /\ Ballots(d, "Clean")' = CleanBallots[d]
      BY <1>5, <2>2, ViewAt
    <3> QED
      BY <1>9, <3>1
  <2> QED
    BY <2>1, <2>2 DEF AmlVerdicts
<1>11. PhaseOf[d] = "Pending" /\ o \notin CleanBallots[d] \cup DirtyBallots[d]
  BY <1>1, <1>3, ViewAt
<1>12. Lifecycle!Decide(d, o)
  BY <1>7, <1>8, <1>9, <1>10, <1>11, SameCardinality DEF Lifecycle!Decide
<1> QED
  BY <1>12, Zenon DEF Lifecycle!ANext, Lifecycle!Decide

\* A settlement releases or refunds the deposit, and may free its address.
LEMMA SettleStep ==
    ASSUME TypeOK, VoteInv, NEW d \in DepositIds, OneDeposit(d),
           \/ deposits[d].state = "Approved" /\ SettledAs(d, "Released")
           \/ Refundable(d) /\ SettledAs(d, "Refunded")
    PROVE  Lifecycle!ANext
<1>1. Exists(d)
  BY DEF Exists, Refundable
<1>2. ASSUME NEW final \in {"Released", "Refunded"}, SettledAs(d, final)
      PROVE  Lifecycle!SettleAs(d, final)
  <2>1. CASE deposits'[d] = NoDeposit
    <3>1. /\ deposits'[d].state = "Absent" /\ ~ Overdue(d)'
          /\ \A v : Ballots(d, v)' = {}
      BY <2>1 DEF NoDeposit, Overdue, Ballots, Exists
    <3>2. OverdueDeposits' = OverdueDeposits \ {d}
      BY <3>1, OneView
    <3> QED
      BY <3>1, <3>2, OneView DEF Lifecycle!SettleAs
  <2>2. CASE deposits'[d] # NoDeposit
    <3>1. /\ deposits'[d].state = final
          /\ deposits'[d].attestations = deposits[d].attestations
          /\ deposits'[d].expire_at = deposits[d].expire_at
      BY <1>2, <2>2 DEF SettledAs
    <3>2. /\ Overdue(d)' = Overdue(d)
          /\ \A v : Ballots(d, v)' = Ballots(d, v)
      BY <1>1, <3>1 DEF Overdue, Ballots, Exists, OneDeposit, Cast
    <3>3. /\ CleanBallots = [e \in DepositIds |-> CleanBallots[e]]
          /\ DirtyBallots = [e \in DepositIds |-> DirtyBallots[e]]
      BY DEF CleanBallots, DirtyBallots
    <3>4. CleanBallots' = CleanBallots /\ DirtyBallots' = DirtyBallots
      BY <3>2, <3>3, OneView, ViewAt
    <3>5. OverdueDeposits' = OverdueDeposits
      <4>1. d \in OverdueDeposits <=> Overdue(d)
        BY ViewAt
      <4>2. OverdueDeposits' = (OverdueDeposits \ {d}) \cup (IF Overdue(d) THEN {d} ELSE {})
        BY <3>2, OneView
      <4> QED
        BY <4>1, <4>2
    <3> QED
      BY <3>1, <3>4, <3>5, OneView DEF Lifecycle!SettleAs
  <2> QED
    BY <2>1, <2>2
<1>3. CASE deposits[d].state = "Approved" /\ SettledAs(d, "Released")
  <2>1. Lifecycle!ReleaseIt(d)
    BY <1>2, <1>3, ViewAt DEF Lifecycle!ReleaseIt
  <2> QED
    BY <2>1, Zenon DEF Lifecycle!ANext, Lifecycle!ReleaseIt, Lifecycle!SettleAs
<1>4. CASE Refundable(d) /\ SettledAs(d, "Refunded")
  <2>1. deposits[d].state # "Expired"
    BY <1>1 DEF VoteInv, Judged
  <2>2. deposits[d].state = "Rejected" \/ (deposits[d].state = "Pending" /\ Overdue(d))
    BY <1>1, <1>4, <2>1 DEF Refundable, Overdue
  <2>3. Lifecycle!RefundIt(d)
    BY <1>2, <1>4, <2>2, ViewAt DEF Lifecycle!RefundIt
  <2> QED
    BY <2>3, Zenon DEF Lifecycle!ANext, Lifecycle!RefundIt, Lifecycle!SettleAs
<1> QED
  BY <1>3, <1>4

\* Every step of the program is a step of the lifecycle or none.
LEMMA LifecycleStep ==
    TypeOK /\ VerdictInv /\ VerdictInv' /\ VoteInv /\ VoteInv' /\ [Next]_vars
        => [Lifecycle!ANext]_Lifecycle!avars
<1> SUFFICES ASSUME TypeOK, VerdictInv, VerdictInv', VoteInv, VoteInv', [Next]_vars
             PROVE  Lifecycle!ANext \/ UNCHANGED Lifecycle!avars
  OBVIOUS
<1>1. ASSUME NEW v \in Authorities, NEW set \in OracleLists, NEW m \in Thresholds,
             InitializeVault(v, set, m)
      PROVE  Lifecycle!ANext
  BY <1>1, EstablishStep
<1>2. CASE Tick
  BY <1>2, LapseStep
<1>3. CASE Pay \/ UNCHANGED vars
  <2>1. deposits' = deposits /\ vaults' = vaults /\ now' = now
    BY <1>3 DEF Pay, Transfer, TransferTokens, vars
  <2> QED
    BY <2>1, DepositsKept DEF Lifecycle!avars
<1>4. ASSUME NEW d \in DepositIds, OneDeposit(d),
             \/ Opened(d)
             \/ \E o \in Oracles, v \in AmlVerdicts : AttestedBy(d, o, v)
             \/ deposits[d].state = "Approved" /\ SettledAs(d, "Released")
             \/ Refundable(d) /\ SettledAs(d, "Refunded")
      PROVE  Lifecycle!ANext
  BY <1>4, HoldStep, DecideStep, SettleStep
<1> QED
  BY <1>1, <1>2, <1>3, <1>4, StepKinds DEF OneDeposit

\* The program implements the lifecycle: each transaction is one of its steps, in
\* the ballots on record, the states of the deposits and the time they have left.
THEOREM Implements == Spec => ImplementsLifecycle
  BY VerdictInvHolds, TypeCorrect, VoteInvHolds, LifecycleInit, LifecycleStep, PTL
     DEF Spec, ImplementsLifecycle, Lifecycle!ASpec

=============================================================================
