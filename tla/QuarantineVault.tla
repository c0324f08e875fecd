-------------------------- MODULE QuarantineVault --------------------------
(***************************************************************************)
(* The on-chain program programs/quarantine-vault: payments to stealth     *)
(* addresses wait in a deposit account until the vault's AML oracles have  *)
(* judged them, and are then released to a target chosen by the release    *)
(* authority or refunded to the sender's refund address.                   *)
(*                                                                         *)
(* One action is one transaction carrying one instruction; a transaction   *)
(* that fails changes nothing, so a failing handler is a disabled action.  *)
(* The Solana runtime's part is modelled where it decides an outcome: an   *)
(* account ends a transaction empty or rent exempt, and an account that    *)
(* ends it empty is gone.  A mint may be of Token-2022 and keep a fee of   *)
(* every transfer back; what else such a mint may do on its own (freeze an *)
(* account, move its tokens as a permanent delegate, change its fee) is    *)
(* left out, as are transaction fees, the rent of token accounts, view     *)
(* tags, evidence hashes, bumps and mint decimals.                         *)
(***************************************************************************)
EXTENDS Integers, FiniteSets, Sequences

CONSTANTS
    Authorities,     \* keys that may create a vault: the vault PDA is one per key
    Payments,        \* pairs (stealth_pubkey, ephemeral_r)
    Oracles,         \* keys that may be named in an oracle set
    Wallets,         \* system accounts: depositors, institutions, refund addresses
    Mints,           \* mints, of SPL Token or of Token-2022
    TransferFee(_, _), \* what a mint keeps back of a transfer of an amount
    NativeMint,      \* Pubkey::default(), the mint of a SOL deposit
    OracleLists,     \* sequences of keys passed to initialize_vault
    Thresholds,      \* values of min_attestations passed to initialize_vault
    Amounts,         \* values of amount passed to the two deposit instructions
    ExpireArgs,      \* values of expire_seconds passed to them
    RefundAddrs,     \* values of refund_addr passed to them
    ReleaseAuthorities, \* values of release_authority passed to them
    TransferAmounts, \* amounts of plain transfers, of lamports or of tokens
    MaxOracles,      \* MAX_ORACLES
    MinExpire,       \* MIN_EXPIRE_SECONDS
    MaxExpire,       \* MAX_EXPIRE_SECONDS
    DepositRent,     \* rent-exempt minimum of a deposit account
    WalletRent,      \* rent-exempt minimum of an account without data
    InitLamports,    \* what each wallet holds at the start
    InitTokens,      \* what each wallet's token account holds at the start
    MaxTime          \* bound: the last value of the clock

\* The deposit PDA is derived from the vault and the payment.
DepositIds == Authorities \X Payments
VaultOf(d) == d[1]
Accounts == Wallets \cup DepositIds

ASSUME AddressAssumption ==
    /\ Wallets \cap DepositIds = {}
    /\ NativeMint \notin Mints
    /\ RefundAddrs \subseteq Accounts
    /\ ReleaseAuthorities \subseteq Wallets

ASSUME AmountAssumption ==
    /\ Amounts \subseteq Nat /\ TransferAmounts \subseteq Nat
    /\ DepositRent \in Nat /\ WalletRent \in Nat
    /\ 0 < WalletRent /\ WalletRent <= DepositRent

ASSUME FeeAssumption ==
    \A m \in Mints, amt \in Amounts \cup TransferAmounts : TransferFee(m, amt) \in 0 .. amt

ASSUME FundsAssumption ==
    /\ InitLamports \in [Wallets -> Nat]
    /\ \A w \in Wallets : InitLamports[w] = 0 \/ InitLamports[w] >= WalletRent
    /\ InitTokens \in [Wallets -> [Mints -> Nat]]

ASSUME OracleAssumption ==
    /\ OracleLists \subseteq Seq(Oracles)
    /\ Thresholds \subseteq Nat
    /\ MaxOracles \in Nat

ASSUME TimeAssumption ==
    /\ ExpireArgs \subseteq Nat
    /\ MinExpire \in Nat \ {0} /\ MaxExpire \in Nat /\ MaxTime \in Nat

VARIABLES
    vaults,      \* authority -> Vault account
    deposits,    \* deposit PDA -> Deposit account
    lamports,    \* account -> lamports
    tokens,      \* account -> mint -> balance of the token account it owns
    escrowMint,  \* deposit PDA -> mint of its escrow token account, NativeMint if none
    now          \* Clock::get()?.unix_timestamp

vars == <<vaults, deposits, lamports, tokens, escrowMint, now>>

DepositStates ==
    {"Pending", "Approved", "Rejected", "Released", "Refunded", "Expired"}
AmlVerdicts == {"Clean", "Dirty"}

Attestation == [oracle : Oracles, verdict : AmlVerdicts, timestamp : Nat]

Vault == [oracle_set : Seq(Oracles), min_attestations : Nat,
          paused : BOOLEAN, deposit_count : Nat]

\* The attestations, a Vec in the code, are a set: their order decides nothing.
Deposit == [mint : Mints \cup {NativeMint}, amount : Amounts, depositor : Wallets,
            refund_addr : Accounts, release_authority : Wallets,
            created_at : Nat, expire_at : Nat, state : DepositStates,
            attestations : SUBSET Attestation,
            clean_count : Nat, dirty_count : Nat]

\* An address at which no account of the program exists.
NoVault == [min_attestations |-> 0]
NoDeposit == [state |-> "Absent"]

VaultExists(v) == vaults[v].min_attestations # 0
Exists(d) == deposits[d].state # "Absent"
IsNative(d) == deposits[d].mint = NativeMint

OracleKeys(v) == {vaults[v].oracle_set[i] : i \in DOMAIN vaults[v].oracle_set}

------------------------------------------------------------------------------
(* Lamports and token balances.                                              *)

MoveLamports(from, to, amt) ==
    [[lamports EXCEPT ![from] = @ - amt] EXCEPT ![to] = @ + amt]

\* What arrives of a transfer: the payer is debited the amount, the payee credited the
\* amount less the fee its mint keeps back.
Arrived(mint, amt) == amt - TransferFee(mint, amt)

MoveTokens(mint, from, to, amt) ==
    [[tokens EXCEPT ![from][mint] = @ - amt] EXCEPT ![to][mint] = @ + Arrived(mint, amt)]

\* What the runtime asks of an account when a transaction ends.
RentExempt(balance, hasDeposit) ==
    \/ balance = 0
    \/ balance >= (IF hasDeposit THEN DepositRent ELSE WalletRent)

\* Mutant: an address somebody has funded is taken to hold its rent.
RentDueIfEmpty(d) == IF lamports[d] > 0 THEN 0 ELSE DepositRent

\* `init` tops the address up to the rent-exempt minimum.
RentDue(d) == IF lamports[d] >= DepositRent THEN 0 ELSE DepositRent - lamports[d]

HasTokenAccount(acc, mint) ==
    acc \in Wallets \/ (acc \in DepositIds /\ escrowMint[acc] = mint)

------------------------------------------------------------------------------
(* The instructions.                                                         *)

\* Duplicates in oracle_set are not refused.
InitializeVault(v, oracle_set, min_attestations) ==
    /\ ~ VaultExists(v)
    /\ Len(oracle_set) <= MaxOracles
    /\ min_attestations >= 1 /\ min_attestations <= Len(oracle_set)
    /\ vaults' = [vaults EXCEPT ![v] =
                    [oracle_set |-> oracle_set, min_attestations |-> min_attestations,
                     paused |-> FALSE, deposit_count |-> 0]]
    /\ UNCHANGED <<deposits, lamports, tokens, escrowMint, now>>

\* What deposit and deposit_token share: the account they create and the count.
OpenDeposit(d, depositor, mint, amount, refund_addr, release_authority, expire_seconds) ==
    /\ VaultExists(VaultOf(d)) /\ ~ vaults[VaultOf(d)].paused
    /\ ~ Exists(d)
    /\ amount > 0
    /\ expire_seconds >= MinExpire /\ expire_seconds <= MaxExpire
    /\ deposits' = [deposits EXCEPT ![d] =
           [mint |-> mint, amount |-> amount, depositor |-> depositor,
            refund_addr |-> refund_addr, release_authority |-> release_authority,
            created_at |-> now, expire_at |-> now + expire_seconds,
            state |-> "Pending", attestations |-> {},
            clean_count |-> 0, dirty_count |-> 0]]
    /\ vaults' = [vaults EXCEPT ![VaultOf(d)].deposit_count = @ + 1]

\* The depositor pays `due` lamports into the deposit account.
PayIn(d, depositor, due) ==
    /\ lamports[depositor] >= due
    /\ RentExempt(lamports[depositor] - due, FALSE)
    /\ lamports' = MoveLamports(depositor, d, due)

MakeDeposit(d, depositor, amount, refund_addr, release_authority, expire_seconds) ==
    /\ OpenDeposit(d, depositor, NativeMint, amount,
                   refund_addr, release_authority, expire_seconds)
    /\ PayIn(d, depositor, RentDue(d) + amount)
    /\ UNCHANGED <<tokens, escrowMint, now>>

\* Mutant: the depositor's balance not looked at.
TokensIn(d, depositor, mint, amount) == tokens' = MoveTokens(mint, depositor, d, amount)

\* transfer_checked from the depositor's token account into the escrow.  The deposit
\* records the amount asked for, whatever arrives.
TransferIn(d, depositor, mint, amount) ==
    /\ tokens[depositor][mint] >= amount
    /\ tokens' = MoveTokens(mint, depositor, d, amount)

DepositToken(d, depositor, mint, amount, refund_addr, release_authority, expire_seconds) ==
    /\ escrowMint[d] = NativeMint
    /\ OpenDeposit(d, depositor, mint, amount,
                   refund_addr, release_authority, expire_seconds)
    /\ PayIn(d, depositor, RentDue(d))
    /\ TransferIn(d, depositor, mint, amount)
    /\ escrowMint' = [escrowMint EXCEPT ![d] = mint]
    /\ UNCHANGED now

\* Mutant: the threshold counts every attestation.
OutcomeOfAll(clean, dirty, threshold) ==
    IF clean + dirty < threshold THEN "Pending"
    ELSE IF dirty > clean THEN "Rejected" ELSE "Approved"

\* Mutant: one dirty vote is taken to be enough.
OutcomeOneDirty(clean, dirty, threshold) ==
    IF dirty > 0 THEN "Rejected" ELSE IF clean >= threshold THEN "Approved" ELSE "Pending"

\* The state a deposit is in after a verdict; a dirty quorum is looked at first.
Outcome(clean, dirty, threshold) ==
    IF dirty >= threshold THEN "Rejected"
    ELSE IF clean >= threshold THEN "Approved" ELSE "Pending"

\* Mutant: the duplicate check dropped.
MayJudgeAgain(d, oracle) ==
    /\ oracle \in OracleKeys(VaultOf(d))
    /\ now < deposits[d].expire_at

MayJudge(d, oracle) ==
    /\ oracle \in OracleKeys(VaultOf(d))
    /\ \A a \in deposits[d].attestations : a.oracle # oracle
    /\ now < deposits[d].expire_at

Attest(d, oracle, verdict) ==
    LET dep == deposits[d]
        clean == dep.clean_count + (IF verdict = "Clean" THEN 1 ELSE 0)
        dirty == dep.dirty_count + (IF verdict = "Dirty" THEN 1 ELSE 0)
    IN
    /\ dep.state = "Pending"
    /\ ~ vaults[VaultOf(d)].paused
    /\ MayJudge(d, oracle)
    /\ deposits' = [deposits EXCEPT ![d] =
           [dep EXCEPT !.attestations =
                          @ \cup {[oracle |-> oracle, verdict |-> verdict, timestamp |-> now]},
                       !.clean_count = clean,
                       !.dirty_count = dirty,
                       !.state = Outcome(clean, dirty, vaults[VaultOf(d)].min_attestations)]]
    /\ UNCHANGED <<vaults, lamports, tokens, escrowMint, now>>

\* The lamports of a deposit may go to `target`, which may be any account, the deposit
\* itself included, if the runtime accepts the balances both are left with.
MayPayOut(d, target) ==
    LET left == MoveLamports(d, target, deposits[d].amount) IN
    /\ lamports[d] >= deposits[d].amount
    /\ RentExempt(left[d], TRUE)
    /\ RentExempt(left[target], target \in DepositIds /\ Exists(target))

\* Mutant: the account is closed, and all that it holds goes to the target.
PayOutAndClose(d, target, final) ==
    /\ MayPayOut(d, target) /\ target # d
    /\ lamports' = MoveLamports(d, target, lamports[d])
    /\ deposits' = [deposits EXCEPT ![d] = NoDeposit]
    /\ UNCHANGED <<vaults, tokens, escrowMint, now>>

\* An account left with nothing is gone with its data.
PayOut(d, target, final) ==
    /\ MayPayOut(d, target)
    /\ lamports' = MoveLamports(d, target, deposits[d].amount)
    /\ deposits' = [deposits EXCEPT ![d] =
           IF lamports'[d] = 0 THEN NoDeposit ELSE [@ EXCEPT !.state = final]]
    /\ UNCHANGED <<vaults, tokens, escrowMint, now>>

\* The tokens of a deposit's escrow may go to the token account of `target`, which
\* cannot be the escrow itself: both are mutable accounts of the instruction.
MayPayOutToken(d, target) ==
    LET mint == deposits[d].mint IN
    /\ mint # NativeMint /\ escrowMint[d] = mint
    /\ target # d /\ HasTokenAccount(target, mint)
    /\ tokens[d][mint] >= deposits[d].amount

PayOutToken(d, target, final) ==
    /\ MayPayOutToken(d, target)
    /\ tokens' = MoveTokens(deposits[d].mint, d, target, deposits[d].amount)
    /\ deposits' = [deposits EXCEPT ![d].state = final]
    /\ UNCHANGED <<vaults, lamports, escrowMint, now>>

\* Mutant: a released deposit may be released again.
MayReleaseAgain(d, signer) ==
    /\ deposits[d].state \in {"Approved", "Released"}
    /\ deposits[d].release_authority = signer

MayRelease(d, signer) ==
    /\ deposits[d].state = "Approved"
    /\ deposits[d].release_authority = signer

\* Mutant: the state of an overdue deposit not looked at.
RefundableLate(d) ==
    /\ Exists(d)
    /\ deposits[d].state = "Rejected" \/ now >= deposits[d].expire_at

\* The handler writes Expired into an overdue Pending deposit and overwrites it with
\* Refunded before it returns, so no transaction leaves a deposit Expired.
Refundable(d) ==
    \/ deposits[d].state = "Rejected"
    \/ deposits[d].state = "Pending" /\ now >= deposits[d].expire_at
    \/ deposits[d].state = "Expired"

Release(d, signer, target) == MayRelease(d, signer) /\ PayOut(d, target, "Released")

ReleaseToken(d, signer, target) ==
    MayRelease(d, signer) /\ PayOutToken(d, target, "Released")

\* Mutant: the target compared with the sender.
RefundToDepositor(d, target) ==
    /\ Refundable(d)
    /\ target = deposits[d].depositor
    /\ PayOut(d, target, "Refunded")

\* Any caller may ask for a refund; the code checks the target only.
Refund(d, target) ==
    /\ Refundable(d)
    /\ target = deposits[d].refund_addr
    /\ PayOut(d, target, "Refunded")

RefundToken(d, target) ==
    /\ Refundable(d)
    /\ target = deposits[d].refund_addr
    /\ PayOutToken(d, target, "Refunded")

------------------------------------------------------------------------------
(* The environment.                                                          *)

\* A plain system transfer by a wallet: it can fund any account, a deposit
\* account or an address where a deposit will be made included.
Transfer(from, to, amt) ==
    /\ amt > 0 /\ lamports[from] >= amt
    /\ from # to
    /\ RentExempt(lamports[from] - amt, FALSE)
    /\ RentExempt(lamports[to] + amt, to \in DepositIds /\ Exists(to))
    /\ lamports' = MoveLamports(from, to, amt)
    /\ UNCHANGED <<vaults, deposits, tokens, escrowMint, now>>

\* A plain transfer of tokens by a wallet, into an escrow's token account too.
TransferTokens(from, to, mint, amt) ==
    /\ amt > 0 /\ tokens[from][mint] >= amt
    /\ from # to /\ HasTokenAccount(to, mint)
    /\ tokens' = MoveTokens(mint, from, to, amt)
    /\ UNCHANGED <<vaults, deposits, lamports, escrowMint, now>>

Tick ==
    /\ now < MaxTime
    /\ now' = now + 1
    /\ UNCHANGED <<vaults, deposits, lamports, tokens, escrowMint>>

------------------------------------------------------------------------------

Init ==
    /\ vaults = [v \in Authorities |-> NoVault]
    /\ deposits = [d \in DepositIds |-> NoDeposit]
    /\ lamports = [acc \in Accounts |-> IF acc \in Wallets THEN InitLamports[acc] ELSE 0]
    /\ tokens = [acc \in Accounts |->
                   [m \in Mints |-> IF acc \in Wallets THEN InitTokens[acc][m] ELSE 0]]
    /\ escrowMint = [d \in DepositIds |-> NativeMint]
    /\ now = 0

Create ==
    \/ \E v \in Authorities, set \in OracleLists, m \in Thresholds :
          InitializeVault(v, set, m)
    \/ \E d \in DepositIds, w \in Wallets, amt \in Amounts, r \in RefundAddrs,
          ra \in ReleaseAuthorities, ex \in ExpireArgs : MakeDeposit(d, w, amt, r, ra, ex)
    \/ \E d \in DepositIds, w \in Wallets, m \in Mints, amt \in Amounts,
          r \in RefundAddrs, ra \in ReleaseAuthorities, ex \in ExpireArgs :
          DepositToken(d, w, m, amt, r, ra, ex)

Judge == \E d \in DepositIds, o \in Oracles, v \in AmlVerdicts : Attest(d, o, v)

Settle ==
    \E d \in DepositIds, target \in Accounts :
        \/ \E signer \in Wallets : Release(d, signer, target)
        \/ \E signer \in Wallets : ReleaseToken(d, signer, target)
        \/ Refund(d, target)
        \/ RefundToken(d, target)

Pay ==
    \E from \in Wallets, to \in Accounts, amt \in TransferAmounts :
        \/ Transfer(from, to, amt)
        \/ \E m \in Mints : TransferTokens(from, to, m, amt)

Next == Create \/ Judge \/ Settle \/ Pay \/ Tick

Spec == Init /\ [][Next]_vars
------------------------------------------------------------------------------
(* Properties.                                                               *)

\* Types of the accounts the program and the runtime keep.
TypeOK ==
    /\ vaults \in [Authorities -> Vault \cup {NoVault}]
    /\ deposits \in [DepositIds -> Deposit \cup {NoDeposit}]
    /\ lamports \in [Accounts -> Nat]
    /\ tokens \in [Accounts -> [Mints -> Nat]]
    /\ escrowMint \in [DepositIds -> Mints \cup {NativeMint}]
    /\ now \in Nat

OpenStates == {"Pending", "Approved", "Rejected"}
IsOpen(d) == deposits[d].state \in OpenStates

\* A deposit that is not settled is covered, in its own accounts, by all that arrived
\* for it, whatever the other deposits, the transfers and the other deposits' settlements
\* did: deposit.rs moves in what release.rs and refund.rs will subtract with checked_sub.
\* Of tokens that is the amount less the fee of the mint, and so less than
\* release_token.rs will ask for if there is one (Whole).
Covered(d) ==
    IF IsNative(d) THEN lamports[d] >= DepositRent + deposits[d].amount
    ELSE /\ escrowMint[d] = deposits[d].mint
         /\ tokens[d][deposits[d].mint] >= Arrived(deposits[d].mint, deposits[d].amount)

Solvent == \A d \in DepositIds : IsOpen(d) => Covered(d)

Cast(attestations, verdict) == {a \in attestations : a.verdict = verdict}

Backed(dep, threshold) ==
    /\ dep.clean_count = Cardinality(Cast(dep.attestations, "Clean"))
    /\ dep.dirty_count = Cardinality(Cast(dep.attestations, "Dirty"))
    /\ dep.state \in {"Approved", "Released"} =>
          dep.clean_count >= threshold /\ dep.dirty_count < threshold
    /\ dep.state = "Rejected" => dep.dirty_count >= threshold
    /\ dep.state = "Pending" => dep.dirty_count < threshold
    /\ dep.state \in {"Pending", "Rejected", "Expired", "Refunded"} => dep.clean_count < threshold

\* A state reached by verdict is backed by that many attestations on record, the
\* counters agree with the record, and a deposit refunded for lateness never had a
\* clean quorum (attest.rs: push, count, then compare with min_attestations).
VerdictBacked ==
    \A d \in DepositIds :
        Exists(d) => Backed(deposits[d], vaults[VaultOf(d)].min_attestations)

\* Every attestation is by a member of the vault's oracle set, one per oracle, made
\* before the deposit expired, and together they fit the space allocated for them
\* (attest.rs:41-52, state.rs:40).
AttestedOnceInTime ==
    \A d \in DepositIds : Exists(d) =>
        LET att == deposits[d].attestations IN
        /\ \A a \in att : /\ a.oracle \in OracleKeys(VaultOf(d))
                          /\ deposits[d].created_at <= a.timestamp
                          /\ a.timestamp < deposits[d].expire_at
        /\ \A a, b \in att : a.oracle = b.oracle => a = b
        /\ Cardinality(att) <= MaxOracles

\* The votes of a verdict by oracles that are not in `bad`.
CastByOthers(dep, verdict, bad) == {a \in Cast(dep.attestations, verdict) : a.oracle \notin bad}

\* Fewer oracles than the threshold decide nothing alone, whichever they are and however
\* they vote: each verdict has the vote of some other oracle for it (DESIGN.md:376,
\* attest.rs:46-72).
NoMinorityVerdict ==
    \A d \in DepositIds : Exists(d) =>
        LET dep == deposits[d]
            threshold == vaults[VaultOf(d)].min_attestations
        IN
        \A bad \in SUBSET Oracles : IsFiniteSet(bad) /\ Cardinality(bad) < threshold =>
            /\ dep.state \in {"Approved", "Released"} => CastByOthers(dep, "Clean", bad) # {}
            /\ dep.state = "Rejected" => CastByOthers(dep, "Dirty", bad) # {}

\* Money leaves a deposit only in the step that settles it, exactly its amount, and
\* only after a clean quorum, a dirty one or the lapse of its time: never a second
\* time, never from another deposit's accounts (release*.rs, refund*.rs).
Drained(d) ==
    \/ lamports'[d] < lamports[d]
    \/ \E m \in Mints : tokens'[d][m] < tokens[d][m]

SettledBy(d) ==
    LET dep == deposits[d] IN
    /\ \/ dep.state = "Approved" /\ deposits'[d].state \in {"Released", "Absent"}
       \/ Refundable(d) /\ deposits'[d].state \in {"Refunded", "Absent"}
    /\ \/ lamports'[d] = lamports[d] - dep.amount /\ tokens' = tokens
       \/ /\ dep.mint # NativeMint
          /\ tokens'[d][dep.mint] = tokens[d][dep.mint] - dep.amount
          /\ lamports' = lamports

FundsLeaveBySettlement ==
    [][\A d \in DepositIds : Drained(d) => Exists(d) /\ SettledBy(d)]_vars

Terms(dep) == <<dep.mint, dep.amount, dep.depositor, dep.refund_addr,
                dep.release_authority, dep.created_at, dep.expire_at>>

KeepsAddress(d) ==
    /\ deposits'[d].state # "Absent"
    /\ Terms(deposits'[d]) = Terms(deposits[d])
    /\ deposits[d].attestations \subseteq deposits'[d].attestations
    /\ deposits[d].state \in {"Released", "Refunded"} => deposits'[d] = deposits[d]

\* A SOL deposit is at its address for good: no settlement takes its rent along with the
\* amount, whoever else has paid into the account, so that the same stealth_pubkey and
\* ephemeral_r never make a second deposit (the `init` of deposit.rs:33-44 is the replay
\* protection).  Its terms do not change, no vote is taken back, and once it is settled
\* nothing changes any more.
NativeForGood ==
    [][\A d \in DepositIds : Exists(d) /\ IsNative(d) => KeepsAddress(d)]_vars

\* Nothing is locked in that arrived whole, or was made up for since: a deposit that may
\* be refunded can be refunded at once by anybody, and an approved one released by its
\* authority to any live wallet, unless the amount is less than the empty account it goes
\* to must hold.
Accepts(acc, amt) ==
    RentExempt(lamports[acc] + amt, acc \in DepositIds /\ Exists(acc))

Whole(d) ==
    LET dep == deposits[d] IN
    \/ IsNative(d)
    \/ TransferFee(dep.mint, dep.amount) = 0
    \/ tokens[d][dep.mint] >= dep.amount

SettlementEnabled ==
    \A d \in DepositIds : IsOpen(d) /\ Whole(d) =>
        LET dep == deposits[d]
            refund == dep.refund_addr
        IN
        /\ Refundable(d) =>
             IF IsNative(d) THEN Accepts(refund, dep.amount) => ENABLED Refund(d, refund)
             ELSE refund \in Wallets => ENABLED RefundToken(d, refund)
        /\ dep.state = "Approved" =>
             \A w \in Wallets :
                IF IsNative(d)
                THEN Accepts(w, dep.amount) => ENABLED Release(d, dep.release_authority, w)
                ELSE ENABLED ReleaseToken(d, dep.release_authority, w)

\* What the lifecycle of EscrowLifecycle is, seen in the program's accounts.
Ballots(d, verdict) ==
    IF Exists(d) THEN {a.oracle : a \in Cast(deposits[d].attestations, verdict)} ELSE {}

PhaseOf == [d \in DepositIds |-> deposits[d].state]
CleanBallots == [d \in DepositIds |-> Ballots(d, "Clean")]
DirtyBallots == [d \in DepositIds |-> Ballots(d, "Dirty")]
Overdue(d) == Exists(d) /\ now >= deposits[d].expire_at
OverdueDeposits == {d \in DepositIds : Overdue(d)}
QuorumOf == [d \in DepositIds |-> vaults[VaultOf(d)].min_attestations]

Lifecycle == INSTANCE EscrowLifecycle WITH
    Deposits <- DepositIds, Quorums <- Thresholds,
    phase <- PhaseOf, clean <- CleanBallots, dirty <- DirtyBallots,
    lapsed <- OverdueDeposits, quorum <- QuorumOf

\* The program implements the lifecycle its state machine promises.
ImplementsLifecycle == Lifecycle!ASpec

==============================================================================
