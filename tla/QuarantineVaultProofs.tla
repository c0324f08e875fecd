----------------------- MODULE QuarantineVaultProofs -----------------------
(***************************************************************************)
(* Theorems about QuarantineVault, for every choice of its constants that  *)
(* its assumptions allow: any number of vaults, oracles, deposits, mints   *)
(* and wallets, any amounts, and a clock without practical bound.          *)
(***************************************************************************)
EXTENDS QuarantineVault, TLAPS, FiniteSetTheorems

\* A deposit's address names a vault that exists or may be made.
LEMMA VaultOfType == \A d \in DepositIds : VaultOf(d) \in Authorities
  BY DEF DepositIds, VaultOf

\* A deposit account is an account, and no wallet is one.
LEMMA AccountsSplit ==
    /\ Wallets \subseteq Accounts /\ DepositIds \subseteq Accounts
    /\ \A w \in Wallets, d \in DepositIds : w # d
  BY AddressAssumption DEF Accounts

\* Moving lamports keeps every balance a natural number when the payer can pay.
LEMMA MoveLamportsType ==
    ASSUME lamports \in [Accounts -> Nat],
           NEW from \in Accounts, NEW to \in Accounts, NEW amt \in Nat,
           lamports[from] >= amt
    PROVE  MoveLamports(from, to, amt) \in [Accounts -> Nat]
  BY DEF MoveLamports

\* The amounts that are moved.
Moved == Amounts \cup TransferAmounts

\* What arrives of a transfer is no more than what is sent.
LEMMA ArrivedType ==
    ASSUME NEW m \in Mints, NEW amt \in Moved
    PROVE  /\ amt \in Nat /\ Arrived(m, amt) \in Nat
           /\ TransferFee(m, amt) \in Nat /\ Arrived(m, amt) = amt - TransferFee(m, amt)
  BY AmountAssumption, FeeAssumption DEF Moved, Arrived

\* The same of tokens.
LEMMA MoveTokensType ==
    ASSUME tokens \in [Accounts -> [Mints -> Nat]], NEW m \in Mints,
           NEW from \in Accounts, NEW to \in Accounts, NEW amt \in Moved,
           tokens[from][m] >= amt
    PROVE  MoveTokens(m, from, to, amt) \in [Accounts -> [Mints -> Nat]]
<1> DEFINE row == [tokens[from] EXCEPT ![m] = @ - amt]
           taken == [tokens EXCEPT ![from] = row]
           credited == [taken[to] EXCEPT ![m] = @ + Arrived(m, amt)]
<1>1. tokens[from] \in [Mints -> Nat] /\ tokens[from][m] - amt \in Nat
  BY ArrivedType
<1>2. row \in [Mints -> Nat]
  BY <1>1
<1>3. taken \in [Accounts -> [Mints -> Nat]]
  BY <1>2
<1>4. taken[to] \in [Mints -> Nat] /\ taken[to][m] + Arrived(m, amt) \in Nat
  <2> HIDE DEF taken
  <2> QED BY <1>3, ArrivedType
<1>5. credited \in [Mints -> Nat]
  <2> HIDE DEF taken
  <2> QED BY <1>4
<1>6. MoveTokens(m, from, to, amt) = [taken EXCEPT ![to] = credited]
  BY DEF MoveTokens
<1> HIDE DEF taken, credited
<1> QED
  BY <1>3, <1>5, <1>6

\* What an account holds when a payment into a deposit is over.
LEMMA RentDueNat ==
    ASSUME lamports \in [Accounts -> Nat], NEW d \in DepositIds
    PROVE  /\ RentDue(d) \in Nat
           /\ lamports[d] + RentDue(d) >= DepositRent
  BY AccountsSplit, AmountAssumption DEF RentDue

------------------------------------------------------------------------------

\* The initial state is well typed.
LEMMA TypeInit == Init => TypeOK
<1> SUFFICES ASSUME Init PROVE TypeOK
  OBVIOUS
<1>1. vaults \in [Authorities -> Vault \cup {NoVault}]
  BY DEF Init
<1>2. deposits \in [DepositIds -> Deposit \cup {NoDeposit}]
  BY DEF Init
<1>3. lamports \in [Accounts -> Nat]
  BY FundsAssumption DEF Init
<1>4. tokens \in [Accounts -> [Mints -> Nat]]
  BY FundsAssumption DEF Init
<1>5. escrowMint \in [DepositIds -> Mints \cup {NativeMint}]
  BY DEF Init
<1> QED
  BY <1>1, <1>2, <1>3, <1>4, <1>5 DEF Init, TypeOK

\* The record the two deposit instructions write is a Deposit, and counting it
\* leaves the vault a Vault.
LEMMA OpenDepositType ==
    ASSUME TypeOK,
           NEW d \in DepositIds, NEW w \in Wallets, NEW m \in Mints \cup {NativeMint},
           NEW amt \in Amounts, NEW r \in RefundAddrs, NEW ra \in ReleaseAuthorities,
           NEW ex \in ExpireArgs,
           OpenDeposit(d, w, m, amt, r, ra, ex)
    PROVE  /\ vaults' \in [Authorities -> Vault \cup {NoVault}]
           /\ deposits' \in [DepositIds -> Deposit \cup {NoDeposit}]
<1> DEFINE v == VaultOf(d)
           opened == [mint |-> m, amount |-> amt, depositor |-> w,
                      refund_addr |-> r, release_authority |-> ra,
                      created_at |-> now, expire_at |-> now + ex,
                      state |-> "Pending", attestations |-> {},
                      clean_count |-> 0, dirty_count |-> 0]
<1>1. vaults[v] \in Vault
  BY VaultOfType DEF OpenDeposit, TypeOK, VaultExists, NoVault, Vault
<1>2. vaults' = [vaults EXCEPT ![v] = [vaults[v] EXCEPT !.deposit_count = @ + 1]]
  BY DEF OpenDeposit
<1>3. [vaults[v] EXCEPT !.deposit_count = @ + 1] \in Vault
  BY <1>1 DEF Vault
<1>4. vaults' \in [Authorities -> Vault \cup {NoVault}]
  BY <1>2, <1>3 DEF TypeOK
<1>5. amt \in Nat /\ ex \in Nat /\ now \in Nat /\ now + ex \in Nat
  BY AmountAssumption, TimeAssumption DEF TypeOK
<1>6. r \in Accounts /\ ra \in Wallets
  BY AddressAssumption
<1>7. opened \in Deposit
  BY <1>5, <1>6 DEF Deposit, DepositStates
<1>8. deposits' = [deposits EXCEPT ![d] = opened]
  BY DEF OpenDeposit
<1> HIDE DEF opened
<1>9. deposits' \in [DepositIds -> Deposit \cup {NoDeposit}]
  BY <1>7, <1>8 DEF TypeOK
<1> QED
  BY <1>4, <1>9

\* A payment into a deposit leaves every balance a natural number.
LEMMA PayInType ==
    ASSUME lamports \in [Accounts -> Nat],
           NEW d \in DepositIds, NEW w \in Wallets, NEW due \in Nat,
           PayIn(d, w, due)
    PROVE  lamports' \in [Accounts -> Nat]
  BY AccountsSplit, MoveLamportsType DEF PayIn

\* A deposit that is judged, released or refunded has all the fields of one.
LEMMA DepositType ==
    ASSUME TypeOK, NEW d \in DepositIds, Exists(d)
    PROVE  deposits[d] \in Deposit
  BY DEF TypeOK, Exists, NoDeposit

LEMMA PayOutType ==
    ASSUME TypeOK, NEW d \in DepositIds, NEW target \in Accounts,
           NEW final \in DepositStates, Exists(d), PayOut(d, target, final)
    PROVE  TypeOK'
<1>1. deposits[d] \in Deposit
  BY DepositType
<1>2. deposits[d].amount \in Nat
  BY <1>1, AmountAssumption DEF Deposit
<1>3. lamports' \in [Accounts -> Nat]
  BY <1>2, AccountsSplit, MoveLamportsType DEF PayOut, MayPayOut, TypeOK
<1>4. [deposits[d] EXCEPT !.state = final] \in Deposit
  BY <1>1 DEF Deposit
<1>5. deposits' \in [DepositIds -> Deposit \cup {NoDeposit}]
  BY <1>4 DEF PayOut, TypeOK
<1> QED
  BY <1>3, <1>5 DEF PayOut, TypeOK

LEMMA PayOutTokenType ==
    ASSUME TypeOK, NEW d \in DepositIds, NEW target \in Accounts,
           NEW final \in DepositStates, Exists(d), PayOutToken(d, target, final)
    PROVE  TypeOK'
<1>1. deposits[d] \in Deposit
  BY DepositType
<1>2. deposits[d].amount \in Moved /\ deposits[d].mint \in Mints
  BY <1>1 DEF Deposit, PayOutToken, MayPayOutToken, Moved
<1>3. tokens' \in [Accounts -> [Mints -> Nat]]
  BY <1>2, AccountsSplit, MoveTokensType DEF PayOutToken, MayPayOutToken, TypeOK
<1>4. [deposits[d] EXCEPT !.state = final] \in Deposit
  BY <1>1 DEF Deposit
<1>5. deposits' = [deposits EXCEPT ![d] = [deposits[d] EXCEPT !.state = final]]
  BY DEF PayOutToken
<1>6. deposits' \in [DepositIds -> Deposit \cup {NoDeposit}]
  BY <1>4, <1>5 DEF TypeOK
<1> QED
  BY <1>3, <1>6 DEF PayOutToken, TypeOK

LEMMA AttestType ==
    ASSUME TypeOK, NEW d \in DepositIds, NEW o \in Oracles, NEW v \in AmlVerdicts,
           Attest(d, o, v)
    PROVE  TypeOK'
<1> DEFINE dep == deposits[d]
           clean == dep.clean_count + (IF v = "Clean" THEN 1 ELSE 0)
           dirty == dep.dirty_count + (IF v = "Dirty" THEN 1 ELSE 0)
           att == [oracle |-> o, verdict |-> v, timestamp |-> now]
           judged == [dep EXCEPT !.attestations = @ \cup {att},
                                 !.clean_count = clean,
                                 !.dirty_count = dirty,
                                 !.state = Outcome(clean, dirty,
                                             vaults[VaultOf(d)].min_attestations)]
<1>1. dep \in Deposit
  BY DepositType DEF Attest, Exists
<1>2. att \in Attestation
  BY DEF Attestation, TypeOK
<1>3. clean \in Nat /\ dirty \in Nat
  BY <1>1 DEF Deposit
<1>4. Outcome(clean, dirty, vaults[VaultOf(d)].min_attestations) \in DepositStates
  BY DEF Outcome, DepositStates
<1>5. deposits' = [deposits EXCEPT ![d] = judged]
  BY DEF Attest
<1> HIDE DEF att, clean, dirty
<1>6. judged \in Deposit
  BY <1>1, <1>2, <1>3, <1>4 DEF Deposit
<1> HIDE DEF judged
<1>7. deposits' \in [DepositIds -> Deposit \cup {NoDeposit}]
  BY <1>5, <1>6 DEF TypeOK
<1> QED
  BY <1>7 DEF Attest, TypeOK

\* Every step keeps the types.
LEMMA TypeStep == TypeOK /\ [Next]_vars => TypeOK'
<1> SUFFICES ASSUME TypeOK, [Next]_vars PROVE TypeOK'
  OBVIOUS
<1>1. ASSUME NEW v \in Authorities, NEW set \in OracleLists, NEW m \in Thresholds,
             InitializeVault(v, set, m)
      PROVE  TypeOK'
  <2> DEFINE fresh == [oracle_set |-> set, min_attestations |-> m,
                       paused |-> FALSE, deposit_count |-> 0]
  <2>1. fresh \in Vault
    BY OracleAssumption DEF Vault
  <2>2. vaults' = [vaults EXCEPT ![v] = fresh]
    BY <1>1 DEF InitializeVault
  <2> HIDE DEF fresh
  <2>3. vaults' \in [Authorities -> Vault \cup {NoVault}]
    BY <2>1, <2>2 DEF TypeOK
  <2> QED
    BY <1>1, <2>3 DEF InitializeVault, TypeOK
<1>2. ASSUME NEW d \in DepositIds, NEW w \in Wallets, NEW amt \in Amounts,
             NEW r \in RefundAddrs, NEW ra \in ReleaseAuthorities, NEW ex \in ExpireArgs,
             MakeDeposit(d, w, amt, r, ra, ex)
      PROVE  TypeOK'
  <2>1. OpenDeposit(d, w, NativeMint, amt, r, ra, ex) /\ PayIn(d, w, RentDue(d) + amt)
    BY <1>2 DEF MakeDeposit
  <2>2. amt \in Nat /\ RentDue(d) \in Nat
    BY AmountAssumption, RentDueNat DEF TypeOK
  <2>3. lamports' \in [Accounts -> Nat]
    BY <2>1, <2>2, PayInType DEF TypeOK
  <2> QED
    BY <1>2, <2>1, <2>3, OpenDepositType DEF MakeDeposit, TypeOK
<1>3. ASSUME NEW d \in DepositIds, NEW w \in Wallets, NEW m \in Mints, NEW amt \in Amounts,
             NEW r \in RefundAddrs, NEW ra \in ReleaseAuthorities, NEW ex \in ExpireArgs,
             DepositToken(d, w, m, amt, r, ra, ex)
      PROVE  TypeOK'
  <2>1. /\ OpenDeposit(d, w, m, amt, r, ra, ex) /\ PayIn(d, w, RentDue(d))
        /\ TransferIn(d, w, m, amt)
    BY <1>3 DEF DepositToken
  <2>2. lamports' \in [Accounts -> Nat]
    BY <2>1, RentDueNat, PayInType DEF TypeOK
  <2>3. tokens' \in [Accounts -> [Mints -> Nat]]
    BY <2>1, AccountsSplit, MoveTokensType DEF TransferIn, TypeOK, Moved
  <2>4. escrowMint' \in [DepositIds -> Mints \cup {NativeMint}] /\ now' \in Nat
    BY <1>3 DEF DepositToken, TypeOK
  <2> QED
    BY <2>1, <2>2, <2>3, <2>4, OpenDepositType DEF TypeOK
<1>4. ASSUME NEW d \in DepositIds, NEW o \in Oracles, NEW v \in AmlVerdicts, Attest(d, o, v)
      PROVE  TypeOK'
  BY <1>4, AttestType
<1>5. ASSUME NEW d \in DepositIds, NEW target \in Accounts, NEW signer \in Wallets,
             Release(d, signer, target) \/ ReleaseToken(d, signer, target)
      PROVE  TypeOK'
  <2>1. Exists(d)
    BY <1>5 DEF Release, ReleaseToken, MayRelease, Exists
  <2> QED
    BY <1>5, <2>1, PayOutType, PayOutTokenType DEF Release, ReleaseToken, DepositStates
<1>6. ASSUME NEW d \in DepositIds, NEW target \in Accounts,
             Refund(d, target) \/ RefundToken(d, target)
      PROVE  TypeOK'
  <2>1. Exists(d)
    BY <1>6 DEF Refund, RefundToken, Refundable, Exists
  <2> QED
    BY <1>6, <2>1, PayOutType, PayOutTokenType DEF Refund, RefundToken, DepositStates
<1>7. ASSUME NEW from \in Wallets, NEW to \in Accounts, NEW amt \in TransferAmounts,
             Transfer(from, to, amt)
      PROVE  TypeOK'
  <2>1. lamports' \in [Accounts -> Nat]
    BY <1>7, AccountsSplit, AmountAssumption, MoveLamportsType DEF Transfer, TypeOK
  <2> QED
    BY <1>7, <2>1 DEF Transfer, TypeOK
<1>8. ASSUME NEW from \in Wallets, NEW to \in Accounts, NEW amt \in TransferAmounts,
             NEW m \in Mints, TransferTokens(from, to, m, amt)
      PROVE  TypeOK'
  <2>1. tokens' \in [Accounts -> [Mints -> Nat]]
    BY <1>8, AccountsSplit, MoveTokensType DEF TransferTokens, TypeOK, Moved
  <2> QED
    BY <1>8, <2>1 DEF TransferTokens, TypeOK
<1>9. CASE Tick
  BY <1>9 DEF Tick, TypeOK
<1>10. CASE UNCHANGED vars
  BY <1>10 DEF vars, TypeOK
<1> QED
  BY <1>1, <1>2, <1>3, <1>4, <1>5, <1>6, <1>7, <1>8, <1>9, <1>10
     DEF Next, Create, Judge, Settle, Pay

\* The accounts of the program always have the types the handlers rely on.
THEOREM TypeCorrect == Spec => []TypeOK
  BY TypeInit, TypeStep, PTL DEF Spec

------------------------------------------------------------------------------
(* Solvency.                                                                 *)

\* A move of lamports takes from one account only, and pays what it says.
LEMMA MoveLamportsGain ==
    ASSUME lamports \in [Accounts -> Nat],
           NEW from \in Accounts, NEW to \in Accounts, NEW amt \in Nat
    PROVE  /\ \A acc \in Accounts :
                acc # from => MoveLamports(from, to, amt)[acc] >= lamports[acc]
           /\ to # from => MoveLamports(from, to, amt)[to] = lamports[to] + amt
  BY DEF MoveLamports

\* The same of tokens.
LEMMA MoveTokensGain ==
    ASSUME tokens \in [Accounts -> [Mints -> Nat]], NEW m \in Mints,
           NEW from \in Accounts, NEW to \in Accounts, NEW amt \in Moved
    PROVE  /\ \A acc \in Accounts, n \in Mints :
                acc # from => MoveTokens(m, from, to, amt)[acc][n] >= tokens[acc][n]
           /\ to # from => MoveTokens(m, from, to, amt)[to][m] = tokens[to][m] + Arrived(m, amt)
<1> DEFINE row == [tokens[from] EXCEPT ![m] = @ - amt]
           taken == [tokens EXCEPT ![from] = row]
           credited == [taken[to] EXCEPT ![m] = @ + Arrived(m, amt)]
           moved == [taken EXCEPT ![to] = credited]
<1>1. MoveTokens(m, from, to, amt) = moved
  BY DEF MoveTokens
<1>2. ASSUME NEW acc \in Accounts, acc # from
      PROVE  taken[acc] = tokens[acc] /\ tokens[acc] \in [Mints -> Nat]
  BY <1>2
<1>3. DOMAIN taken = Accounts
  OBVIOUS
<1> HIDE DEF taken
<1>4. ASSUME NEW acc \in Accounts, NEW n \in Mints, acc # from, acc # to
      PROVE  moved[acc][n] >= tokens[acc][n]
  BY <1>2, <1>3, <1>4
<1>5. ASSUME to # from
      PROVE  /\ moved[to] = [tokens[to] EXCEPT ![m] = @ + Arrived(m, amt)]
             /\ tokens[to] \in [Mints -> Nat]
  BY <1>2, <1>3, <1>5
<1> HIDE DEF moved
<1>6. ASSUME to # from, NEW n \in Mints
      PROVE  moved[to][n] >= tokens[to][n] /\ moved[to][m] = tokens[to][m] + Arrived(m, amt)
  <2>1. ASSUME NEW f \in [Mints -> Nat]
        PROVE  /\ [f EXCEPT ![m] = @ + Arrived(m, amt)][n] >= f[n]
               /\ [f EXCEPT ![m] = @ + Arrived(m, amt)][m] = f[m] + Arrived(m, amt)
    BY ArrivedType
  <2> QED
    BY <1>5, <1>6, <2>1
<1> QED
  BY <1>1, <1>4, <1>6

\* A deposit whose record no step touches stays covered while its own accounts
\* only gain.
LEMMA CoveredKept ==
    ASSUME TypeOK, NEW d \in DepositIds, Solvent, IsOpen(d)',
           deposits'[d] = deposits[d], escrowMint'[d] = escrowMint[d],
           TypeOK', lamports'[d] >= lamports[d],
           \A m \in Mints : tokens'[d][m] >= tokens[d][m]
    PROVE  Covered(d)'
<1>1. IsOpen(d) /\ Covered(d)
  BY DEF IsOpen, Solvent
<1>2. deposits[d] \in Deposit
  BY DepositType DEF IsOpen, OpenStates, Exists
<1>3. /\ deposits[d].amount \in Moved /\ deposits[d].amount \in Nat
      /\ deposits[d].mint \in Mints \cup {NativeMint}
  BY <1>2, AmountAssumption DEF Deposit, Moved
<1>4. d \in Accounts
  BY AccountsSplit
<1>5. lamports[d] \in Nat /\ lamports'[d] \in Nat
  BY <1>4 DEF TypeOK
<1>6. CASE IsNative(d)
  BY <1>1, <1>3, <1>5, <1>6, AmountAssumption DEF Covered, IsNative
<1>7. CASE ~ IsNative(d)
  <2> DEFINE m == deposits[d].mint
  <2>1. m \in Mints
    BY <1>3, <1>7 DEF IsNative
  <2>2. tokens[d][m] \in Nat /\ tokens'[d][m] \in Nat
    BY <1>4, <2>1 DEF TypeOK
  <2>3. escrowMint[d] = m /\ tokens[d][m] >= Arrived(m, deposits[d].amount)
    BY <1>1, <1>7 DEF Covered
  <2>4. tokens'[d][m] >= Arrived(m, deposits[d].amount)
    <3>1. tokens'[d][m] >= tokens[d][m] /\ Arrived(m, deposits[d].amount) \in Nat
      BY <1>3, <2>1, ArrivedType
    <3> QED
      BY <2>2, <2>3, <3>1
  <2> QED
    BY <1>7, <2>3, <2>4 DEF Covered, IsNative
<1> QED
  BY <1>6, <1>7

\* A deposit that is opened is covered from the start.
LEMMA OpenedCovered ==
    ASSUME TypeOK, TypeOK', NEW d \in DepositIds, NEW w \in Wallets,
           NEW m \in Mints \cup {NativeMint}, NEW amt \in Amounts,
           NEW r \in RefundAddrs, NEW ra \in ReleaseAuthorities, NEW ex \in ExpireArgs,
           OpenDeposit(d, w, m, amt, r, ra, ex),
           IF m = NativeMint THEN PayIn(d, w, RentDue(d) + amt)
           ELSE TransferIn(d, w, m, amt) /\ escrowMint'[d] = m
    PROVE  Covered(d)'
<1>1. deposits'[d].mint = m /\ deposits'[d].amount = amt
  BY DEF OpenDeposit, TypeOK
<1>2. d \in Accounts /\ w \in Accounts /\ d # w /\ amt \in Nat
  BY AccountsSplit, AmountAssumption
<1>3. lamports \in [Accounts -> Nat] /\ RentDue(d) + amt \in Nat
      /\ lamports[d] \in Nat /\ RentDue(d) \in Nat /\ lamports[d] + RentDue(d) >= DepositRent
  BY <1>2, RentDueNat DEF TypeOK
<1>4. CASE m = NativeMint
  <2>1. lamports'[d] = lamports[d] + (RentDue(d) + amt)
    BY <1>2, <1>3, <1>4, MoveLamportsGain DEF PayIn
  <2>2. lamports'[d] >= DepositRent + amt
    BY <1>2, <1>3, <2>1, AmountAssumption
  <2> QED
    BY <1>1, <1>4, <2>2 DEF Covered, IsNative
<1>5. CASE m # NativeMint
  <2>1. m \in Mints /\ tokens \in [Accounts -> [Mints -> Nat]] /\ tokens[d][m] \in Nat
    BY <1>2, <1>5 DEF TypeOK
  <2>2. tokens'[d][m] = tokens[d][m] + Arrived(m, amt)
    BY <1>2, <1>5, <2>1, MoveTokensGain DEF TransferIn, Moved
  <2>3. tokens'[d][m] >= Arrived(m, amt)
    BY <1>2, <2>1, <2>2, ArrivedType DEF Moved
  <2> QED
    BY <1>1, <1>5, <2>3 DEF Covered, IsNative
<1> QED
  BY <1>4, <1>5

\* Every step keeps every open deposit covered.
LEMMA SolventStep == TypeOK /\ TypeOK' /\ Solvent /\ [Next]_vars => Solvent'
<1> SUFFICES ASSUME TypeOK, TypeOK', Solvent, [Next]_vars, NEW e \in DepositIds, IsOpen(e)'
             PROVE  Covered(e)'
  BY DEF Solvent
<1> USE AccountsSplit
<1>0. /\ lamports \in [Accounts -> Nat] /\ e \in Accounts /\ lamports[e] \in Nat
      /\ tokens \in [Accounts -> [Mints -> Nat]] /\ \A m \in Mints : tokens[e][m] \in Nat
  BY DEF TypeOK
<1>1. ASSUME deposits'[e] = deposits[e], UNCHANGED <<lamports, tokens, escrowMint>>
      PROVE  Covered(e)'
  BY <1>0, <1>1, CoveredKept
<1>2. ASSUME NEW v \in Authorities, NEW set \in OracleLists, NEW m \in Thresholds,
             InitializeVault(v, set, m)
      PROVE  Covered(e)'
  BY <1>1, <1>2 DEF InitializeVault
<1>3. ASSUME NEW d \in DepositIds, NEW w \in Wallets, NEW amt \in Amounts,
             NEW r \in RefundAddrs, NEW ra \in ReleaseAuthorities, NEW ex \in ExpireArgs,
             MakeDeposit(d, w, amt, r, ra, ex)
      PROVE  Covered(e)'
  <2>1. OpenDeposit(d, w, NativeMint, amt, r, ra, ex) /\ PayIn(d, w, RentDue(d) + amt)
    BY <1>3 DEF MakeDeposit
  <2>2. CASE e = d
    BY <2>1, <2>2, OpenedCovered
  <2>3. CASE e # d
    <3>1. deposits'[e] = deposits[e]
      BY <2>1, <2>3 DEF OpenDeposit, TypeOK
    <3>2. RentDue(d) + amt \in Nat
      BY RentDueNat, AmountAssumption DEF TypeOK
    <3>3. lamports'[e] >= lamports[e]
      BY <1>0, <2>1, <3>2, MoveLamportsGain DEF PayIn
    <3>4. UNCHANGED <<tokens, escrowMint>>
      BY <1>3 DEF MakeDeposit
    <3> QED
      BY <1>0, <3>1, <3>3, <3>4, CoveredKept
  <2> QED
    BY <2>2, <2>3
<1>4. ASSUME NEW d \in DepositIds, NEW w \in Wallets, NEW m \in Mints, NEW amt \in Amounts,
             NEW r \in RefundAddrs, NEW ra \in ReleaseAuthorities, NEW ex \in ExpireArgs,
             DepositToken(d, w, m, amt, r, ra, ex)
      PROVE  Covered(e)'
  <2>1. /\ OpenDeposit(d, w, m, amt, r, ra, ex) /\ PayIn(d, w, RentDue(d))
        /\ TransferIn(d, w, m, amt) /\ escrowMint' = [escrowMint EXCEPT ![d] = m]
    BY <1>4 DEF DepositToken
  <2>2. CASE e = d
    <3>1. m # NativeMint /\ escrowMint'[d] = m
      BY <2>1, AddressAssumption DEF TypeOK
    <3> QED
      BY <2>1, <2>2, <3>1, OpenedCovered
  <2>3. CASE e # d
    <3>1. deposits'[e] = deposits[e] /\ escrowMint'[e] = escrowMint[e]
      BY <2>1, <2>3 DEF OpenDeposit, TypeOK
    <3>2. lamports'[e] >= lamports[e]
      BY <1>0, <2>1, RentDueNat, MoveLamportsGain DEF PayIn
    <3>3. \A n \in Mints : tokens'[e][n] >= tokens[e][n]
      BY <1>0, <2>1, MoveTokensGain DEF TransferIn, Moved
    <3> QED
      BY <3>1, <3>2, <3>3, CoveredKept
  <2> QED
    BY <2>2, <2>3
<1>5. ASSUME NEW d \in DepositIds, NEW o \in Oracles, NEW v \in AmlVerdicts, Attest(d, o, v)
      PROVE  Covered(e)'
  <2>1. CASE e # d
    BY <1>1, <1>5, <2>1 DEF Attest, TypeOK
  <2>2. CASE e = d
    <3>1. Exists(d) /\ IsOpen(d)
      BY <1>5 DEF Attest, Exists, IsOpen, OpenStates
    <3>2. deposits[d] \in Deposit
      BY <3>1, DepositType
    <3>3. deposits'[d].mint = deposits[d].mint /\ deposits'[d].amount = deposits[d].amount
      BY <1>5, <3>2 DEF Attest, TypeOK, Deposit
    <3>4. UNCHANGED <<lamports, tokens, escrowMint>>
      BY <1>5 DEF Attest
    <3> QED
      BY <2>2, <3>1, <3>3, <3>4 DEF Solvent, Covered, IsNative
  <2> QED
    BY <2>1, <2>2
<1>6. ASSUME NEW d \in DepositIds, NEW target \in Accounts,
             NEW final \in {"Released", "Refunded"}, Exists(d), PayOut(d, target, final)
      PROVE  Covered(e)'
  <2>1. deposits[d] \in Deposit /\ deposits[d].amount \in Nat
    BY <1>6, DepositType, AmountAssumption DEF Deposit
  <2>2. e # d
    BY <1>6, <2>1 DEF PayOut, TypeOK, IsOpen, OpenStates, NoDeposit, Deposit
  <2>3. deposits'[e] = deposits[e] /\ UNCHANGED <<tokens, escrowMint>>
    BY <1>6, <2>2 DEF PayOut, TypeOK
  <2>4. lamports'[e] >= lamports[e]
    BY <1>0, <1>6, <2>1, <2>2, MoveLamportsGain DEF PayOut
  <2> QED
    BY <1>0, <2>3, <2>4, CoveredKept
<1>7. ASSUME NEW d \in DepositIds, NEW target \in Accounts,
             NEW final \in {"Released", "Refunded"}, Exists(d), PayOutToken(d, target, final)
      PROVE  Covered(e)'
  <2>1. /\ deposits[d] \in Deposit /\ deposits[d].amount \in Moved /\ deposits[d].mint \in Mints
    BY <1>7, DepositType DEF Deposit, PayOutToken, MayPayOutToken, Moved
  <2>2. deposits'[d].state = final
    BY <1>7, <2>1 DEF PayOutToken, TypeOK, Deposit
  <2>3. e # d
    BY <2>2 DEF IsOpen, OpenStates
  <2>4. deposits'[e] = deposits[e] /\ UNCHANGED <<lamports, escrowMint>>
    BY <1>7, <2>3 DEF PayOutToken, TypeOK
  <2>5. \A n \in Mints : tokens'[e][n] >= tokens[e][n]
    BY <1>0, <1>7, <2>1, <2>3, MoveTokensGain DEF PayOutToken
  <2> QED
    BY <1>0, <2>4, <2>5, CoveredKept
<1>8. ASSUME NEW d \in DepositIds, NEW target \in Accounts, NEW signer \in Wallets,
             Release(d, signer, target) \/ ReleaseToken(d, signer, target)
      PROVE  Covered(e)'
  BY <1>6, <1>7, <1>8 DEF Release, ReleaseToken, MayRelease, Exists
<1>9. ASSUME NEW d \in DepositIds, NEW target \in Accounts,
             Refund(d, target) \/ RefundToken(d, target)
      PROVE  Covered(e)'
  BY <1>6, <1>7, <1>9 DEF Refund, RefundToken, Refundable, Exists
<1>10. ASSUME NEW from \in Wallets, NEW to \in Accounts, NEW amt \in TransferAmounts,
              Transfer(from, to, amt)
       PROVE  Covered(e)'
  <2>1. lamports'[e] >= lamports[e]
    BY <1>0, <1>10, AmountAssumption, MoveLamportsGain DEF Transfer
  <2> QED
    BY <1>0, <1>10, <2>1, CoveredKept DEF Transfer
<1>11. ASSUME NEW from \in Wallets, NEW to \in Accounts, NEW amt \in TransferAmounts,
              NEW m \in Mints, TransferTokens(from, to, m, amt)
       PROVE  Covered(e)'
  <2>1. \A n \in Mints : tokens'[e][n] >= tokens[e][n]
    BY <1>0, <1>11, MoveTokensGain DEF TransferTokens, Moved
  <2> QED
    BY <1>0, <1>11, <2>1, CoveredKept DEF TransferTokens
<1>12. CASE Tick
  BY <1>1, <1>12 DEF Tick
<1>13. CASE UNCHANGED vars
  BY <1>1, <1>13 DEF vars
<1> QED
  BY <1>2, <1>3, <1>4, <1>5, <1>8, <1>9, <1>10, <1>11, <1>12, <1>13
     DEF Next, Create, Judge, Settle, Pay

\* Every open deposit holds, in its own accounts, all that arrived for it: the rent and
\* the amount in lamports, or the amount less what the mint kept back of it.
THEOREM Solvency == Spec => []Solvent
<1>1. Init => Solvent
  BY DEF Init, Solvent, IsOpen, OpenStates, NoDeposit
<1>2. Spec => []TypeOK
  BY TypeCorrect
<1> QED
  BY <1>1, <1>2, SolventStep, PTL DEF Spec

------------------------------------------------------------------------------
(* Settlement.  ENABLED is out of the prover's reach.  An instruction's guards *)
(* are the conjuncts of its action that hold no primed variable; the others   *)
(* give each variable its next value, so the action is enabled where they hold. *)

MayRefund(d, target) == Refundable(d) /\ target = deposits[d].refund_addr

\* SettlementEnabled with each instruction's guards in the place of ENABLED.
Settleable ==
    \A d \in DepositIds : IsOpen(d) /\ Whole(d) =>
        LET dep == deposits[d]
            refund == dep.refund_addr
        IN
        /\ Refundable(d) =>
             IF IsNative(d)
             THEN Accepts(refund, dep.amount) => MayRefund(d, refund) /\ MayPayOut(d, refund)
             ELSE refund \in Wallets => MayRefund(d, refund) /\ MayPayOutToken(d, refund)
        /\ dep.state = "Approved" =>
             \A w \in Wallets :
                IF IsNative(d)
                THEN Accepts(w, dep.amount) =>
                        MayRelease(d, dep.release_authority) /\ MayPayOut(d, w)
                ELSE MayRelease(d, dep.release_authority) /\ MayPayOutToken(d, w)

\* A covered SOL deposit can be paid out to every account that accepts the amount,
\* its own included: the rent stays behind.
LEMMA LamportsPayable ==
    ASSUME TypeOK, NEW d \in DepositIds, Exists(d), IsNative(d), Covered(d),
           NEW target \in Accounts, Accepts(target, deposits[d].amount)
    PROVE  MayPayOut(d, target)
<1> DEFINE amount == deposits[d].amount
           left == MoveLamports(d, target, amount)
<1>1. amount \in Nat
  BY DepositType, AmountAssumption DEF Deposit
<1>2. d \in Accounts /\ lamports \in [Accounts -> Nat]
  BY AccountsSplit DEF TypeOK
<1>3. DepositRent \in Nat /\ lamports[d] >= DepositRent + amount
  BY AmountAssumption DEF Covered
<1>4. lamports[d] >= deposits[d].amount
  BY <1>1, <1>2, <1>3
<1>5. CASE target = d
  <2>1. left[d] = lamports[d]
    BY <1>1, <1>2, <1>5 DEF MoveLamports
  <2>2. RentExempt(left[d], TRUE) /\ RentExempt(left[d], d \in DepositIds /\ Exists(d))
    BY <1>1, <1>2, <1>3, <2>1 DEF RentExempt
  <2> QED
    BY <1>4, <1>5, <2>2, Zenon DEF MayPayOut
<1>6. CASE target # d
  <2>1. left[d] = lamports[d] - amount /\ left[target] = lamports[target] + amount
    BY <1>1, <1>2, <1>6 DEF MoveLamports
  <2>2. RentExempt(left[d], TRUE)
    BY <1>1, <1>2, <1>3, <2>1 DEF RentExempt
  <2>3. RentExempt(left[target], target \in DepositIds /\ Exists(target))
    BY <2>1 DEF Accepts
  <2> QED
    BY <1>4, <2>2, <2>3, Zenon DEF MayPayOut
<1> QED
  BY <1>5, <1>6

\* The escrow of a covered token deposit that arrived whole, or was made up for, can be
\* paid out to every wallet.
LEMMA TokensPayable ==
    ASSUME TypeOK, NEW d \in DepositIds, Exists(d), ~ IsNative(d), Covered(d), Whole(d),
           NEW w \in Wallets
    PROVE  MayPayOutToken(d, w)
<1> DEFINE mint == deposits[d].mint
           amount == deposits[d].amount
<1>1. w # d
  BY AddressAssumption
<1>2. mint \in Mints /\ amount \in Moved
  BY DepositType DEF Deposit, IsNative, Moved
<1>3. tokens[d][mint] >= Arrived(mint, amount) /\ escrowMint[d] = mint
  BY DEF Covered
<1>4. TransferFee(mint, amount) = 0 => Arrived(mint, amount) = amount
  BY <1>2, ArrivedType
<1>5. tokens[d][mint] >= amount
  BY <1>3, <1>4 DEF Whole
<1> QED
  BY <1>1, <1>3, <1>5 DEF MayPayOutToken, HasTokenAccount, IsNative

\* No deposit that arrived whole is locked in: one that may be refunded can be, and one
\* that is approved can be released to any wallet, at once and whatever the other deposits,
\* oracles and transfers did; what refund.rs and release.rs subtract is there and the rent
\* stays.  Of a mint that keeps a fee back this needs somebody to make up for the fee.
THEOREM Settlements == Spec => []Settleable
<1>1. TypeOK /\ Solvent => Settleable
  <2> SUFFICES ASSUME TypeOK, Solvent, NEW d \in DepositIds, IsOpen(d), Whole(d)
               PROVE
        LET dep == deposits[d]
            refund == dep.refund_addr
        IN
        /\ Refundable(d) =>
             IF IsNative(d)
             THEN Accepts(refund, dep.amount) => MayRefund(d, refund) /\ MayPayOut(d, refund)
             ELSE refund \in Wallets => MayRefund(d, refund) /\ MayPayOutToken(d, refund)
        /\ dep.state = "Approved" =>
             \A w \in Wallets :
                IF IsNative(d)
                THEN Accepts(w, dep.amount) =>
                        MayRelease(d, dep.release_authority) /\ MayPayOut(d, w)
                ELSE MayRelease(d, dep.release_authority) /\ MayPayOutToken(d, w)
    BY DEF Settleable
  <2>1. Exists(d) /\ Covered(d)
    BY DEF Solvent, IsOpen, OpenStates, Exists
  <2>2. deposits[d].refund_addr \in Accounts
    BY <2>1, DepositType DEF Deposit
  <2>3. IsNative(d) => \A t \in Accounts : Accepts(t, deposits[d].amount) => MayPayOut(d, t)
    BY <2>1, LamportsPayable
  <2>4. ~ IsNative(d) => \A w \in Wallets : MayPayOutToken(d, w)
    BY <2>1, TokensPayable
  <2> QED
    BY <2>2, <2>3, <2>4, AccountsSplit DEF MayRefund, MayRelease
<1> QED
  BY <1>1, TypeCorrect, Solvency, PTL

------------------------------------------------------------------------------
(* Verdicts.  VerdictBacked alone is not inductive: a vault must not appear,  *)
(* with a threshold of its own, under a deposit that already exists, and the  *)
(* counts mean something only while the attestations are finitely many.       *)

DepositsInVaults == \A d \in DepositIds : Exists(d) => VaultExists(VaultOf(d))

FiniteAttestations ==
    \A d \in DepositIds : Exists(d) => IsFiniteSet(deposits[d].attestations)

VerdictInv == DepositsInVaults /\ FiniteAttestations /\ VerdictBacked

\* A new attestation adds one to the votes of its own verdict and none to the other's.
LEMMA CastAdd ==
    ASSUME NEW S, IsFiniteSet(S), NEW a, a \notin S, NEW v
    PROVE  /\ a.verdict = v =>
                Cardinality(Cast(S \cup {a}, v)) = Cardinality(Cast(S, v)) + 1
           /\ a.verdict # v => Cast(S \cup {a}, v) = Cast(S, v)
<1>1. IsFiniteSet(Cast(S, v))
  BY FS_Subset DEF Cast
<1>2. CASE a.verdict = v
  <2>1. Cast(S \cup {a}, v) = Cast(S, v) \cup {a} /\ a \notin Cast(S, v)
    BY <1>2 DEF Cast
  <2> QED
    BY <1>1, <1>2, <2>1, FS_AddElement
<1>3. CASE a.verdict # v
  BY <1>3 DEF Cast
<1> QED
  BY <1>2, <1>3

\* A deposit no vote was cast on yet is backed.
LEMMA FreshBacked ==
    ASSUME NEW dep, NEW threshold \in Nat \ {0}, dep.attestations = {},
           dep.clean_count = 0, dep.dirty_count = 0, dep.state = "Pending"
    PROVE  Backed(dep, threshold)
<1>1. Cast(dep.attestations, "Clean") = {} /\ Cast(dep.attestations, "Dirty") = {}
  BY DEF Cast
<1>2. Cardinality({}) = 0
  BY FS_EmptySet
<1> QED
  BY <1>1, <1>2 DEF Backed

\* Settling a deposit the way its state allows keeps it backed.
LEMMA SettledBacked ==
    ASSUME NEW dep \in Deposit, NEW threshold \in Nat, Backed(dep, threshold),
           NEW final \in {"Released", "Refunded"},
           final = "Released" => dep.state = "Approved",
           final = "Refunded" => dep.state \in {"Pending", "Rejected", "Expired"}
    PROVE  Backed([dep EXCEPT !.state = final], threshold)
<1> DEFINE settled == [dep EXCEPT !.state = final]
<1>1. /\ settled.state = final /\ settled.attestations = dep.attestations
      /\ settled.clean_count = dep.clean_count /\ settled.dirty_count = dep.dirty_count
  BY DEF Deposit
<1> HIDE DEF settled
<1>2. Backed(settled, threshold)
  BY <1>1 DEF Backed
<1> QED
  BY <1>2 DEF settled

\* Counting one more vote and deciding on the new counts keeps a deposit backed.
LEMMA JudgedBacked ==
    ASSUME NEW dep \in Deposit, NEW threshold \in Nat, NEW o, NEW v \in AmlVerdicts, NEW t,
           IsFiniteSet(dep.attestations), Backed(dep, threshold), dep.state = "Pending",
           \A a \in dep.attestations : a.oracle # o
    PROVE  LET clean == dep.clean_count + (IF v = "Clean" THEN 1 ELSE 0)
               dirty == dep.dirty_count + (IF v = "Dirty" THEN 1 ELSE 0)
           IN  Backed([dep EXCEPT !.attestations =
                                    @ \cup {[oracle |-> o, verdict |-> v, timestamp |-> t]},
                                  !.clean_count = clean,
                                  !.dirty_count = dirty,
                                  !.state = Outcome(clean, dirty, threshold)], threshold)
<1> DEFINE clean == dep.clean_count + (IF v = "Clean" THEN 1 ELSE 0)
           dirty == dep.dirty_count + (IF v = "Dirty" THEN 1 ELSE 0)
           att == [oracle |-> o, verdict |-> v, timestamp |-> t]
           judged == [dep EXCEPT !.attestations = @ \cup {att},
                                 !.clean_count = clean,
                                 !.dirty_count = dirty,
                                 !.state = Outcome(clean, dirty, threshold)]
<1>1. att \notin dep.attestations /\ att.verdict = v
  OBVIOUS
<1>2. /\ judged.attestations = dep.attestations \cup {att}
      /\ judged.clean_count = clean /\ judged.dirty_count = dirty
      /\ judged.state = Outcome(clean, dirty, threshold)
  BY DEF Deposit
<1>3. clean \in Nat /\ dirty \in Nat /\ v \in {"Clean", "Dirty"}
  BY DEF Deposit, AmlVerdicts
<1>4. /\ dep.clean_count = Cardinality(Cast(dep.attestations, "Clean"))
      /\ dep.dirty_count = Cardinality(Cast(dep.attestations, "Dirty"))
      /\ dep.clean_count < threshold /\ dep.dirty_count < threshold
  BY DEF Backed
<1> HIDE DEF att
<1>5. ASSUME NEW u
      PROVE  /\ v = u => Cardinality(Cast(dep.attestations \cup {att}, u))
                           = Cardinality(Cast(dep.attestations, u)) + 1
             /\ v # u => Cast(dep.attestations \cup {att}, u) = Cast(dep.attestations, u)
  BY <1>1, CastAdd
<1>6. /\ clean = Cardinality(Cast(dep.attestations \cup {att}, "Clean"))
      /\ dirty = Cardinality(Cast(dep.attestations \cup {att}, "Dirty"))
  <2>0. dep.clean_count \in Nat /\ dep.dirty_count \in Nat
    BY DEF Deposit
  <2>1. CASE v = "Clean"
    <3>1. clean = dep.clean_count + 1 /\ dirty = dep.dirty_count
      BY <2>0, <2>1
    <3> HIDE DEF clean, dirty
    <3> QED
      BY <1>4, <1>5, <2>1, <3>1
  <2>2. CASE v = "Dirty"
    <3>1. clean = dep.clean_count /\ dirty = dep.dirty_count + 1
      BY <2>0, <2>2
    <3> HIDE DEF clean, dirty
    <3> QED
      BY <1>4, <1>5, <2>2, <3>1
  <2> QED
    BY <1>3, <2>1, <2>2
<1>7. ~ (clean >= threshold /\ dirty >= threshold)
  BY <1>3, <1>4 DEF Deposit
<1> HIDE DEF clean, dirty, judged
<1>8. Backed(judged, threshold)
  BY <1>2, <1>3, <1>6, <1>7 DEF Backed, Outcome
<1> QED
  BY <1>8 DEF judged, clean, dirty, att

\* Every step keeps VerdictInv.
LEMMA VerdictStep == TypeOK /\ TypeOK' /\ VerdictInv /\ [Next]_vars => VerdictInv'
<1> DEFINE Good(d) ==
        Exists(d) => /\ VaultExists(VaultOf(d))
                     /\ IsFiniteSet(deposits[d].attestations)
                     /\ Backed(deposits[d], vaults[VaultOf(d)].min_attestations)
<1> SUFFICES ASSUME TypeOK, TypeOK', VerdictInv, [Next]_vars, NEW e \in DepositIds
             PROVE  Good(e)'
  BY DEF VerdictInv, DepositsInVaults, FiniteAttestations, VerdictBacked
<1>0. Good(e)
  BY DEF VerdictInv, DepositsInVaults, FiniteAttestations, VerdictBacked
<1>a. VaultOf(e) \in Authorities
  BY VaultOfType
<1>b. Exists(e) => vaults[VaultOf(e)] \in Vault /\ vaults[VaultOf(e)].min_attestations \in Nat
  BY <1>0, <1>a DEF TypeOK, VaultExists, NoVault, Vault
<1>1. ASSUME deposits'[e] = deposits[e],
             vaults'[VaultOf(e)].min_attestations = vaults[VaultOf(e)].min_attestations
      PROVE  Good(e)'
  BY <1>0, <1>1 DEF Exists, VaultExists
<1>2. ASSUME NEW v \in Authorities, NEW set \in OracleLists, NEW m \in Thresholds,
             InitializeVault(v, set, m)
      PROVE  Good(e)'
  <2>1. deposits' = deposits
    BY <1>2 DEF InitializeVault
  <2>2. CASE Exists(e)
    <3>1. VaultOf(e) # v
      BY <1>0, <1>2, <2>2 DEF InitializeVault
    <3>2. vaults'[VaultOf(e)] = vaults[VaultOf(e)]
      BY <1>2, <1>a, <3>1 DEF InitializeVault, TypeOK
    <3> QED
      BY <1>1, <2>1, <3>2
  <2>3. CASE ~ Exists(e)
    BY <2>1, <2>3 DEF Exists
  <2> QED
    BY <2>2, <2>3
<1>3. ASSUME NEW d \in DepositIds, NEW w \in Wallets, NEW m \in Mints \cup {NativeMint},
             NEW amt \in Amounts, NEW r \in RefundAddrs, NEW ra \in ReleaseAuthorities,
             NEW ex \in ExpireArgs, OpenDeposit(d, w, m, amt, r, ra, ex)
      PROVE  Good(e)'
  <2>1. /\ VaultExists(VaultOf(d)) /\ VaultOf(d) \in Authorities
        /\ vaults[VaultOf(d)] \in Vault /\ vaults[VaultOf(d)].min_attestations \in Nat \ {0}
    BY <1>3, VaultOfType DEF OpenDeposit, TypeOK, VaultExists, NoVault, Vault
  <2>2. \A v \in Authorities : vaults'[v].min_attestations = vaults[v].min_attestations
    <3>1. vaults' = [vaults EXCEPT ![VaultOf(d)] =
                       [vaults[VaultOf(d)] EXCEPT !.deposit_count = @ + 1]]
      BY <1>3 DEF OpenDeposit
    <3>2. [vaults[VaultOf(d)] EXCEPT !.deposit_count = @ + 1].min_attestations
            = vaults[VaultOf(d)].min_attestations
      BY <2>1 DEF Vault
    <3> QED
      BY <2>1, <3>1, <3>2 DEF TypeOK
  <2>3. CASE e = d
    <3>1. /\ deposits'[d].attestations = {} /\ deposits'[d].state = "Pending"
          /\ deposits'[d].clean_count = 0 /\ deposits'[d].dirty_count = 0
      BY <1>3 DEF OpenDeposit, TypeOK
    <3>2. Backed(deposits'[d], vaults[VaultOf(d)].min_attestations)
      BY <2>1, <3>1, FreshBacked
    <3>3. IsFiniteSet({})
      BY FS_EmptySet
    <3> QED
      BY <2>1, <2>2, <2>3, <3>1, <3>2, <3>3 DEF VaultExists
  <2>4. CASE e # d
    BY <1>1, <1>3, <1>a, <2>2, <2>4 DEF OpenDeposit, TypeOK
  <2> QED
    BY <2>3, <2>4
<1>4. ASSUME NEW d \in DepositIds, NEW o \in Oracles, NEW v \in AmlVerdicts, Attest(d, o, v)
      PROVE  Good(e)'
  <2>1. CASE e # d
    BY <1>1, <1>4, <2>1 DEF Attest, TypeOK
  <2>2. CASE e = d
    <3> DEFINE dep == deposits[d]
               threshold == vaults[VaultOf(d)].min_attestations
    <3>1. Exists(d) /\ dep.state = "Pending" /\ vaults' = vaults
      BY <1>4 DEF Attest, Exists
    <3>2. \A a \in dep.attestations : a.oracle # o
      BY <1>4 DEF Attest, MayJudge
    <3>3. dep \in Deposit /\ threshold \in Nat
      BY <1>b, <2>2, <3>1, DepositType
    <3>4. IsFiniteSet(dep.attestations) /\ Backed(dep, threshold) /\ VaultExists(VaultOf(d))
      BY <1>0, <2>2, <3>1
    <3>5. Backed(deposits'[d], threshold)
      BY <1>4, <3>1, <3>2, <3>3, <3>4, JudgedBacked DEF Attest, TypeOK
    <3>6. \E a : deposits'[d].attestations = dep.attestations \cup {a}
      BY <1>4, <3>3 DEF Attest, TypeOK, Deposit
    <3>7. IsFiniteSet(deposits'[d].attestations)
      BY <3>4, <3>6, FS_AddElement
    <3> QED
      BY <2>2, <3>1, <3>4, <3>5, <3>7 DEF VaultExists
  <2> QED
    BY <2>1, <2>2
<1>5. ASSUME NEW d \in DepositIds, NEW final \in {"Released", "Refunded"}, vaults' = vaults,
             final = "Released" => deposits[d].state = "Approved",
             final = "Refunded" => Refundable(d),
             \/ deposits' = [deposits EXCEPT ![d] = [deposits[d] EXCEPT !.state = final]]
             \/ deposits' = [deposits EXCEPT ![d] = NoDeposit]
      PROVE  Good(e)'
  <2>1. CASE e # d
    BY <1>1, <1>5, <2>1 DEF TypeOK
  <2>2. CASE e = d /\ deposits' = [deposits EXCEPT ![d] = NoDeposit]
    BY <2>2 DEF TypeOK, Exists, NoDeposit
  <2>3. CASE /\ e = d
             /\ deposits' = [deposits EXCEPT ![d] = [deposits[d] EXCEPT !.state = final]]
    <3>1. Exists(d)
      BY <1>5 DEF Exists, Refundable
    <3>2. deposits[d] \in Deposit /\ vaults[VaultOf(d)].min_attestations \in Nat
      BY <1>b, <2>3, <3>1, DepositType
    <3>3. final = "Refunded" => deposits[d].state \in {"Pending", "Rejected", "Expired"}
      BY <1>5 DEF Refundable
    <3>4. deposits'[d] = [deposits[d] EXCEPT !.state = final]
      BY <2>3 DEF TypeOK
    <3>5. Backed(deposits'[d], vaults[VaultOf(d)].min_attestations)
      <4>1. Backed(deposits[d], vaults[VaultOf(d)].min_attestations)
        BY <1>0, <2>3, <3>1
      <4>2. Backed([deposits[d] EXCEPT !.state = final], vaults[VaultOf(d)].min_attestations)
        BY <1>5, <3>2, <3>3, <4>1, SettledBacked
      <4> QED
        BY <3>4, <4>2
    <3>6. deposits'[d].attestations = deposits[d].attestations
      BY <3>2, <3>4 DEF Deposit
    <3> QED
      BY <1>0, <1>5, <2>3, <3>1, <3>5, <3>6 DEF VaultExists
  <2> QED
    BY <1>5, <2>1, <2>2, <2>3
<1>6. ASSUME NEW d \in DepositIds, NEW target \in Accounts, NEW signer \in Wallets,
             Release(d, signer, target) \/ ReleaseToken(d, signer, target)
      PROVE  Good(e)'
  <2>1. deposits[d].state = "Approved" /\ vaults' = vaults
    BY <1>6 DEF Release, ReleaseToken, MayRelease, PayOut, PayOutToken
  <2>2. \/ deposits' = [deposits EXCEPT ![d] = [deposits[d] EXCEPT !.state = "Released"]]
        \/ deposits' = [deposits EXCEPT ![d] = NoDeposit]
    BY <1>6 DEF Release, ReleaseToken, PayOut, PayOutToken
  <2> QED
    BY <1>5, <2>1, <2>2
<1>7. ASSUME NEW d \in DepositIds, NEW target \in Accounts,
             Refund(d, target) \/ RefundToken(d, target)
      PROVE  Good(e)'
  <2>1. Refundable(d) /\ vaults' = vaults
    BY <1>7 DEF Refund, RefundToken, PayOut, PayOutToken
  <2>2. \/ deposits' = [deposits EXCEPT ![d] = [deposits[d] EXCEPT !.state = "Refunded"]]
        \/ deposits' = [deposits EXCEPT ![d] = NoDeposit]
    BY <1>7 DEF Refund, RefundToken, PayOut, PayOutToken
  <2> QED
    BY <1>5, <2>1, <2>2
<1>8. CASE Pay \/ Tick \/ UNCHANGED vars
  BY <1>1, <1>8 DEF Pay, Transfer, TransferTokens, Tick, vars
<1>9. CASE Create
  <2>1. ASSUME NEW d \in DepositIds, NEW w \in Wallets, NEW amt \in Amounts,
               NEW r \in RefundAddrs, NEW ra \in ReleaseAuthorities, NEW ex \in ExpireArgs,
               MakeDeposit(d, w, amt, r, ra, ex)
        PROVE  Good(e)'
    BY <1>3, <2>1 DEF MakeDeposit
  <2>2. ASSUME NEW d \in DepositIds, NEW w \in Wallets, NEW m \in Mints, NEW amt \in Amounts,
               NEW r \in RefundAddrs, NEW ra \in ReleaseAuthorities, NEW ex \in ExpireArgs,
               DepositToken(d, w, m, amt, r, ra, ex)
        PROVE  Good(e)'
    BY <1>3, <2>2 DEF DepositToken
  <2> QED
    BY <1>2, <1>9, <2>1, <2>2 DEF Create
<1> HIDE DEF Good
<1> QED
  BY <1>4, <1>6, <1>7, <1>8, <1>9 DEF Next, Judge, Settle

\* VerdictInv holds of every reachable state.
LEMMA VerdictInvHolds == Spec => []VerdictInv
<1>1. Init => VerdictInv
  BY DEF Init, VerdictInv, DepositsInVaults, FiniteAttestations, VerdictBacked,
         Exists, NoDeposit
<1> QED
  BY <1>1, TypeCorrect, VerdictStep, PTL DEF Spec

\* No deposit is released without a quorum of clean attestations on record, refunded
\* after one, or decided by fewer attestations than its vault asks for.
THEOREM Verdicts == Spec => []VerdictBacked
<1>1. VerdictInv => VerdictBacked
  BY DEF VerdictInv
<1> QED
  BY <1>1, VerdictInvHolds, PTL

==============================================================================
