# g-pay in TLA+

A model of g-pay: stealth payments on Solana that wait in a quarantine vault for
AML verdicts. Nine specifications, checked with TLC on small instances, and eight
modules of theorems proved with TLAPS for every value of the constants.

Paths are relative to the repository. Line numbers of every definition's source
are in `PROJECT.json` under "map".

## 1. The system

| Component | State it keeps | Operations | Modelled in |
|---|---|---|---|
| `programs/quarantine-vault`, the on-chain program | `Vault` and `Deposit` accounts, lamports, escrow token accounts | initialize_vault, deposit, deposit_token, attest, release, release_token, refund, refund_token | `QuarantineVault`, `EscrowLifecycle` |
| `crates/relayer` | policies with token buckets, billing ledgers, all in memory; transactions in flight | POST /v1/submit, register, suspend, start | `Relayer` |
| `crates/indexer` | slices, the matches of the pass being dispatched | a pass over the program's accounts, one webhook per match, restart | `GatewaySync` (when), `Stealth` (what) |
| `apps/api-gateway`, payments | a `DepositRecord` per issued address, in memory or in Postgres; the institutions | receiving-address, payment-status, release, refund, the treasury routes, deposit-detected, restart | `GatewaySync` (against the chain), `GatewayApi` (callers, ids, lists, notations) |
| `apps/api-gateway`, demo routes | the handlers in progress, child processes of the CLI | demo/init, simulate-payment, attest, release, refund | `DemoFlow` |
| `crates/stealth-core`, `api-gateway/src/stealth.ts` | none: pure functions | derive, scan, reconstruct | `Stealth` |
| `crates/cli` | none: one transaction per run | deposit-sol, deposit-sol-direct, attest, release-sol, refund-sol, init-vault | `DemoFlow`, `Stealth`, partly |
| `apps/dashboard`, playground | wallet, shown payment, last polled status, busy button, calls and polls under way | connect, issue, pay, attest, release, refund, poll, leave | `Playground`; its payment against the chain in `DemoFlow` |
| `apps/dashboard`, sign-in | the API key in localStorage, which tabs share; the gate's copy of it | sign in, sign out, follow a link | `Session` |
| dashboard's documentation pages, `lib/api.ts` (imported by nothing), `oracle-adapter` (a scaffold), deployment, schema | | | not modelled |

How they interact:

    customer's wallet --deposit--> program <--attest-- oracles
                                     |  ^
             getProgramAccounts      |  | release / refund (CLI, relayer)
                                     v  |
                      indexer --webhook--> gateway <--release, refund-- institution
                                             | record
                      page --poll, demo routes--> gateway --CLI--> cluster

The program decides; everything else only learns of it and may be late. The
indexer reads all deposits in passes and posts one webhook per match. The gateway
overwrites its record with each webhook. Release and refund calls look at the
record only, never at the chain. The demo routes run the CLI and wait for it. The
page knows the gateway's answers only, and those of its polls may be old.

What is hard here, and the property that answers for it (PROJECT.json "hazards"
has the whole list, each at its line):

- a last vote and a refund race at `expire_at`; a verdict must be that of enough
  distinct oracles in time, and never that of a minority alone (`AttestedOnceInTime`,
  `VerdictBacked`, `NoMinorityVerdict`, `ImplementsLifecycle`);
- deposits share an address space with each other and with wallets, may be prefunded,
  pay into each other, fall below rent and be purged (`Solvent`,
  `FundsLeaveBySettlement`, `NativeForGood`, `SettlementEnabled`); a token deposit may
  arrive as less than is recorded (`Solvent` and `SettlementEnabled` say what then holds);
- the relayer bills before it knows the outcome, loses its ledger at a restart, gives
  up on transactions that land later, and blocks a worker per request (`LandedBilled`,
  `BilledOnce`, `BilledWithinCap`, `RateBound`, `EveryRequestEnds`);
- webhooks are lost, late and handled out of order, while calls read a record in one
  query and write it in another (`RecordsWereTrue`, `AgreedWithCause`, `CatchesUp`);
- a CLI run is killed after 60 s and its transaction lands afterwards; two calls with
  opposite verdicts interleave (`OneVerdict`, `OkMeansDone`);
- listings and counts are cut, keys come in two notations and amounts as doubles, and
  stores are restarted (`ListNewest`, `WebhookHits`, `AmountsNear`;
  `DocTreasuryRoutes`, violated);
- the page's calls, polls and departures interleave, calls and the wallet's prompt outlive
  the page that made them, a poll may be overtaken or answer
  for the payment before, and another tab may replace the key (`OneCall`, `BusyEnds`,
  `ShownFits`, `StatusCatchesUp`, `KeyFits`, `NeverStuck`);
- payer and scanner compute one address from different halves of two keys, with a
  one-byte tag that collides (`OwnIsFound`, `FoundIsSpendable`).

## 2. The modules

**EscrowLifecycle** is the abstract promise: a deposit is held until a quorum of
distinct oracles has judged it or its time has lapsed; then it is released or
refunded and never both. `QuarantineVault` is shown to implement it, and
`GatewaySync` and `DemoFlow` use it as their chain.

**QuarantineVault**: one action is one transaction with one instruction. Anchor's
account constraints and the handlers' `require!`s are guards; a failing transaction
changes nothing. `vaults` and `deposits` are the PDAs' contents, `lamports` and
`tokens` the balances, `escrowMint` the deposit's associated token account. The
runtime's rule that an account ends a transaction empty or rent exempt is `RentExempt`,
and an account that ends it empty is gone (`PayOut` makes it `NoDeposit`). `MayPayOut` and
`MayPayOutToken` are what the handlers require before they move anything. `Transfer`
is a plain system transfer to any account, a deposit's included, also before it exists;
`TransferTokens` is the same of tokens, by which an escrow can be topped up. Mints of the
token interface may keep a fee: `TransferFee` is any function of mint and amount up to the
amount, and `Arrived` what is left to be credited. The deposit records the amount asked for.

| Action | Handler |
|---|---|
| InitializeVault | initialize_vault.rs |
| MakeDeposit, DepositToken | deposit.rs, deposit_token.rs |
| Attest | attest.rs: push the vote, count, compare with the threshold, dirty first |
| Release, ReleaseToken | release.rs, release_token.rs |
| Refund, RefundToken | refund.rs, refund_token.rs, with the state Expired they pass through |
| Tick, Transfer | the clock and the system program |

**Relayer**: a request is *received*, waits for a worker, is *admitted* (rate and cap
checked and the fee accrued under one mutex), *sent*, and *answered*. The handler
never awaits, so a request holds its worker from admission to answer. `Land` and `Drop`
are the cluster's. `Restart` cuts what runs and empties the tables. Time is counted in
units of which `TokenTicks` make a token, so that refill needs no fractions.

**GatewaySync**: `Scan` takes the state of all deposits at once, `Post` and `PostFails`
dispatch one match each, `DepositDetected` handles a waiting webhook, in any order and
after later ones: `notify_match` waits ten seconds at most and then goes on. On
Postgres a release or refund call is two actions, `Check` and `Write`; on the memory
store it is one, `CheckAndWrite`, since no await stands between the check of the live
object and its assignment. A deposit whose `ephemeral_r` is no point may come and go
(`UnreadableDeposit`); while it is there every pass ends in an error before any match.

**GatewayApi** has a call in one step and puts the rest of the API beside it: `Caller`
(apiKeyAuth), `Own` (the comparison of a record with its caller), `Orders`, `Cut`,
`Listed` and `Counts` (listInstitutionDeposits of either store and the two treasury
routes, with a limit that may be negative or NaN), `NewIds` (a counter in memory, clock and
random number on Postgres), `Restart` (createStore). `Base58`, `Base58Decode`,
`Double` and `AmountRead` compute what they do to a key and an amount; `Byte` and `Base`
(256 and 58) and `Exact`, the number up to which integers are exact (2^53), are constants.
Their loops are recursive functions over the rounds, so that they can be proved about.

**DemoFlow**: a request of a demo route is *ready* to run the CLI, has *sent* its
transaction, and is answered *ok* or *error*; attest runs the CLI for each demo oracle
in turn. `Fail` covers the 60 s kill: the transaction stays in `pool` and may be executed
later. `Connect`, `IssueAddress` and `SignAndPay` are what the customer's wallet does;
calls may come from anywhere, in any order, so that no order of a page is relied on.

**Session** and **Playground** are one browser tab. `Session` has the stored key, the
page shown, and the gate's copy of the key. `Playground` extends it with the React
component: `Begin` presses a button, `Issued` and `Signed` are what the call then
does, `AddressKnown` and `Ends` its answer, if the page is still there, and `LeftEnds` if it is
not; `PollAnswered`,
`PollArrives` and `PollLost` are one status poll. `IssueStep` to `SettleStep` are the five
steps as the page renders them: how far they are, why not further, which buttons can be
pressed. `PageLeft` takes the component's state with it, but neither the requests under way
nor the wallet's prompt, whose provider is in the root layout: `left` has the payments they
are made for, and they go on beside the calls of the page as it is opened next. Gateway and chain are one record that moves
as `GatewaySync` and `DemoFlow` let it.

**Stealth**: a point is its logarithm, so the group is arithmetic modulo `Order`; the
hashes are arbitrary functions chosen in Init. `PayIssued` is the gateway's derivation,
with nonce 0; `DepositSol` the CLI's, with a nonce given; `PayOther` any three values that the
program accepts; `Scan` a pass; `Start` an indexer with another slices file.

`MC*` modules hold the values for TLC and the documents' claims that fail. `*Proofs`
modules hold the theorems.

## 3. What the runs check

All pass unless marked. Deadlock is not checked: every run's system may stop, when
the bounded clock has ended or every deposit is settled and every request answered.

| Run | Distinct states | Question |
|---|---|---|
| MCVault | 335,830 | verdicts: three oracles, duplicate and over-long lists, thresholds 0 to 4, expiry, SOL and tokens; money: two deposits that may refund into each other, prefunding, dust, purges, a mint with a fee, token transfers; the refinement of EscrowLifecycle |
| MCRelayer | 105,750 | admission, billing, answers, one worker, retries, restarts, policy changes |
| MCGateway | 445,552 | records against the chain's history, release and refund calls on both stores, unreadable deposits, convergence |
| MCGatewayApi | 199,400 | callers, lists, notations, amounts, restarts of both stores |
| MCDemoFlow | 550,654 | three concurrent calls, a customer, two demo oracles and a third one |
| MCPlayground | 356,352 | one tab: two keys, two payments, a wallet, two polls under way, calls that outlive the page; liveness |
| MCStealth | 394,848 | every offset hash into the group of order 3, two holders, all forged deposits |
| MCVaultDocPaid, MCRelayerDocMonth, MCGatewayDocRelease, MCGatewayApiDocTreasury, MCDemoDocRefund | | violated: see section 6 |

Each property has a mutant in PROJECT.json, an operator beside the one it
replaces, with a plausible bug under which the run fails.

Why the bounds are enough:

- *Vault.* The run explores two scenarios (`Scenarios`, a constraint), told apart by the
  list with which the vault is made. With several oracles (`VerdictsScenario`) there is one
  deposit and no plain transfer: three oracles and thresholds up to four give
  every comparison of a count with a threshold (below, at, above, out of reach); the list
  `<<o1, o1, o2>>` has a duplicate, the one of four is over `MaxOracles = 3`; expiry
  arguments 1 to 3 lie within and above the limits 1 and 2, and the clock goes to 3, so
  that each deposit lapses. With one oracle (`FundsScenario`) two deposits of one second
  are enough for one to pay into another; amounts 1 and 3 lie on either side of the
  wallet rent of 2, with a deposit rent of 3 and transfers of 2. The mint keeps a fee of
  one token of all amounts but 1, so that a deposit of 1 arrives whole and can be settled,
  and one of 3 arrives as 2. That the two scenarios do not mix loses little: votes move no
  money, and how many oracles decided is not looked at again. The proofs have no such bound.
- *Relayer.* Two requests may carry the same transaction (a retry) or two. A fee
  of 2 with a cap of 3 refuses the second; capacity 4 is two tokens of two units. One
  worker is the worst case for waiting. `MaxU64 = 20` is not reached here; that the
  ledger saturates is covered by the proofs, which do not bound it. A clock to 3 is a period
  and a half.
- *Gateway.* One deposit and two calls give every order of pass, webhook, check and
  write. Of equal webhooks one waits at a time (`MaxCopies`): handling a second copy at
  once changes nothing. Records of two addresses never meet in a step, so one is enough
  here; that a webhook finds the right one of several is MCGatewayApi's question, and that
  any number of addresses, deposits and calls behave alike is proved.
- *API.* Three records are one more than counts and lists are cut at (`DefaultCount`
  and `MaxLimit` of 2 for 200 and 500), of two institutions, with a key that is nobody's.
  MCGatewayApiDocTreasury has a `MaxLimit` of 1, so that a limit of -1 leaves more than that.
  Keys have bytes of four values and base-3 digits, with no, one and two zeros in
  front. Integers are exact up to 4; the amounts 3, 10 and 15 are exact, half-way between
  two doubles, and nearer to one. Limits are negative, below, at and above the cut, and NaN.
- *Demo.* Two oracles are the smallest sequence between whose runs others may act; two
  requests are the smallest conflict, a third one a retry of either; a third oracle outside
  the gateway votes freely.
  MCDemoDocRefund has two wallets, only the demo's oracles, and the calls that the page
  makes and in its order (`PageNext`), so that the run is the page's own.
- *Playground.* Two payments are the one shown and the one before, or that of a call which
  outlives the page, which is all that the page can mix up; a payment is taken for another
  one again only when neither the page nor a call has to do with it; two polls are enough for one to overtake the other; with two keys
  another tab can sign in as another institution. `Moves` has the chain's way, a refund
  in the record alone and a release that the next webhook undoes.
- *Stealth.* The formulas are linear in the exponents. Order 3 has distinct
  nonzero elements and collisions of every kind; the proofs cover the rest.

Symmetry is used over requests and over payments, and only in runs without liveness.

### Fairness

- `EveryRequestEnds` assumes weak fairness of each request's handler: a worker takes up
  what waits, and the blocking RPC call returns, since `send_and_confirm_transaction` is
  bounded. Neither landing nor restarts are fair.
- `CatchesUp` assumes weak fairness of `Scan` (the loop in indexer main.rs never ends) and
  strong fairness of posting and of handling some webhook. Each may be disabled again
  and again by restarts and lost calls; that not all are lost for ever is what polling is for.
  Nobody is assumed to call, pay or judge.
- `BusyEnds` assumes weak fairness of the ends of calls that do not wait for the wallet's
  prompt: fetch answers or fails. A prompt may stay open for ever, and then busy does too.
- `StatusCatchesUp` assumes weak fairness of the gateway's answering of polls, which an
  interval makes every four seconds, and strong fairness of their arriving, which a lost
  connection may prevent again and again. It is stated for records that rest.
- Refunds have no liveness property: nothing in the code cranks a late deposit. What the
  program owes is that whoever tries succeeds, `SettlementEnabled` (proved with each
  instruction's guards in the place of ENABLED, `Settlements`).

## 4. What is proved

| Module | Theorem | Inductive invariant |
|---|---|---|
| QuarantineVaultProofs | `TypeCorrect`: Spec => []TypeOK | TypeOK, with the guards of each transfer |
| | `Solvency`: Spec => []Solvent, with what arrived of a token deposit | TypeOK and Solvent |
| | `Settlements`: Spec => []Settleable, SettlementEnabled with guards for ENABLED | TypeOK and Solvent |
| | `Verdicts`: Spec => []VerdictBacked | deposits live in vaults, attestations are finite sets, VerdictBacked |
| QuarantineVaultLifecycle | `Votes`: Spec => []AttestedOnceInTime | VoteInv: lists fit their space, deposits live in vaults and were made before now, votes are distinct, of the list and in time |
| | `MinoritiesPowerless`: Spec => []NoMinorityVerdict | VerdictInv and VoteInv |
| | `Funds`: Spec => FundsLeaveBySettlement | a step property from TypeOK |
| | `StaysForGood`: Spec => NativeForGood | a step property from TypeOK, Solvent and VoteInv |
| | `Implements`: Spec => ImplementsLifecycle | VerdictInv and VoteInv, step by step |
| RelayerProofs | `TypeCorrect`, `RateBounded` | TypeOK and BucketInv: the bucket plus what was taken in a window never exceeds capacity plus the window |
| | `BilledInCap` | a step property from TypeOK |
| | `LandedAreBilled` | BilledInv: transactions handed over by this process, and requests admitted but not yet sent, are counted in tx_count, or it has saturated |
| | `AdmittedAreBilledOnce`: Spec => []BilledOnce | RepliesFit, FeesOfPolicies, ChargedInv: who has not been answered has no reply, fees are those of policies, and a ledger is charged for no more than the admitted |
| GatewaySyncProofs | `TypeCorrect` | Typed: TypeOK, phases are the lifecycle's, a checked call has a record and is on Postgres |
| | `RecordsTrue`, `CallsHaveCause` | HistoryInv: every match and waiting webhook was so, what a record says was so, each state of a record has its cause, and so has each checked call |
| | `CaughtUpStays`: what CatchesUp reaches is not lost again | Typed; CaughtUp is closed under steps |
| | `StaleWebhooksRunOut`: webhooks that a settlement has outdated do not become more | a step property from Typed; `OnItsWay` counts them |
| | `RecordsRestOnVotes`: a settled record's word is what a quorum decided | Typed and JudgedInv: the votes on chain are what the phase needs, after the settlement too |
| GatewayApiProofs | `TypeCorrect` | TypeOK |
| | `Base58RoundTrip`: decoding gives back the key, for every key | none: a fact of the operators |
| | `AmountsAreNear`, `WebhooksHit` | IInv: records and webhooks are for keys that were given out; AmountsNear, WebhookHits |
| | `ListsAreNewest` | none: it holds of any records |
| DemoFlowProofs | `TypeCorrect` | Typed: TypeOK, votes are counted and those of the lifecycle, calls were admitted, transactions were sent |
| | `Verdict`, `OkIsDone` | VerdictInv: a call at its n-th turn has its n-1 transactions confirmed, what is confirmed has landed, and a demo oracle's vote is that of the call that sent it |
| | `HappensOnce`: a payment is held, settled and attested by an oracle once | VerdictInv and EachOnce |
| PlaygroundProofs | `TypeCorrect` | Typed: a page that is not open is empty, calls but an unanswered issue name a payment |
| | `OneCallAtATime`, with calls that outlive their page | Typed and OneCall |
| | `KeysFit`, `ShownIsCurrent` | ShownInv: calls and polls on their way, and the record, are of the key and the payment of the page |
| | `ShownStays`: what StatusCatchesUp reaches is not lost again | none: it holds of every step |
| | `NoDeadEnd`: Spec => []NeverStuck | Typed and SeenInv: what has a verdict has been seen on chain, and is shown beside an address only |
| StealthProofs | `TypeCorrect` | TypeOK |
| | `Spendable`, `OwnFound` | ScanInv: matches match, first matches are not missed, payments are derived |

`Solvent` needs TypeOK for the arithmetic of balances, and it is inductive because a
payout takes lamports only from the deposit it settles. `VerdictBacked` is not inductive
alone: a vote adds one to a count and one element to a set, and Cardinality says nothing
of infinite sets, nor does a threshold of a vault that could still appear bind a deposit;
hence the two other conjuncts. `RateBound` speaks of what was taken, while the code knows
only the bucket, so BucketInv ties them. `LandedBilled` counts transactions,
the code counts admissions: BilledInv assigns an admission to each transaction, and a
request that holds an admission is its own. `BilledOnce` bounds the ledger from the other
side, by the requests that were admitted: that the one being admitted is not among
them already needs that it has no reply (RepliesFit), and that no policy's fee is
exceeded needs that refilling and suspending leave the fee (FeesOfPolicies). A restart
empties the ledger and keeps the requests, so the bound holds across it. `OwnFound` rests on r * (v * G) = v * (r * G)
modulo Order (lemma SharedPoint) and on the least index of a matching slice existing.
`RecordsWereTrue` says nothing of webhooks, so HistoryInv follows a state from the pass
that read it to the record that it ends up in. `AgreedWithCause` looks at a call that
is done, but its cause was in the record when it was checked, before other webhooks
came; hence the causes of the record's states and of checked calls. `OneVerdict` is about
the last oracle's vote and is decided by the first one's: a vote lands once, so of two calls
with opposite verdicts one never gets a second turn. `OkMeansDone` needs in addition that
the demo oracles' distinct votes reach the quorum (lemma AllTurnsDecide).
The bound in `AttestedOnceInTime` follows from an injection of the votes into the keys of the list,
which are no more than the list is long (lemmas VotesBounded, KeysBounded). `NoMinorityVerdict` is the pigeonhole
turned round: distinct votes of fewer oracles than the threshold are fewer than the
threshold (lemma CastByFew), while a verdict has at least as many. `NativeForGood` is where
three invariants meet: an account is freed only when it ends a transaction empty, a
covered deposit still has its rent after the payout (Solvent), and an open one
is not made again (lemma PayOutKeepsNative). `Implements` sorts the
steps by what they do to one deposit's record (lemma StepKinds), and each kind has a lemma
that names the lifecycle's step; an attestation's needs that counters count distinct
oracles, which is VerdictInv and VoteInv together (lemma BallotsCount).

The assumptions are the modules' ASSUMEs: addresses of wallets and deposits differ, rents
are positive, thresholds are natural numbers, the demo oracles are distinct and as many as the quorum, policies are typed, there are fewer transactions than a u64 counts, keys are
scalars. Nothing is assumed of the hashes.

`Settleable` is `SettlementEnabled` without ENABLED, which the provers cannot expand: the
guards of an action are its conjuncts without a primed variable, and the others give each
variable its next value. TLC finds the guards and ENABLED equal in every state of
MCVault. What remains to prove is that the guards hold: a covered deposit's lamports
suffice for the subtraction and leave the rent, whatever account is paid (lemmas
LamportsPayable, TokensPayable).

`CatchesUp` is liveness and stays with TLC, but what could undo it is safety. `CaughtUpStays`
says that a record which has reached its settled deposit's state keeps it, when no
webhook with another word is left on its way and no call stands between check and write.
It asks that no other deposit pays the same address, since two of them share one record (section 7).
`StaleWebhooksRunOut` says that such webhooks do not become more. A pass that was
lost or a restart therefore costs time only. In the same way `ShownStays` is the safety
half of `StatusCatchesUp`: while a record rests, the page that shows it goes on showing it,
and polls with an older answer are not made again.

`RecordsRestOnVotes` goes the whole way from the oracles to the institution: a record that
has caught up says released only if the votes on chain are a clean quorum without a
dirty one, and refunded only without a clean quorum. It joins the lifecycle's invariant
(JudgedInv, one lemma for each of its steps) with CaughtUp; that the lifecycle is the
program's is `Implements`. `HappensOnce` says that a demo call which timed out may be made
again without harm: what is confirmed has landed (VerdictInv), and what has landed makes
every transaction that would do the same fail its trial run (lemma NotAgain). These
theorems, `CaughtUpStays`, `StaleWebhooksRunOut`, `ShownStays` and `Base58RoundTrip` have no run of their own;
their definitions are in the proof modules.

GatewayApi's notations are loops over a key or an amount. The library's induction takes an
operator, which the provers cannot instantiate; induction over a *set* of indices they
can: a set of counterexamples has a least one (lemma SmallestNumber, from the
well-foundedness of < on Nat), hence InductionTo. In the same way RecursionTo shows that a
loop whose step is given as a function has values, and LoopType that they are of its
type. So `ValueOf` and `Digits` are inverse (ValueOfDigits, DigitsOfValue), leading zeros are
kept apart (ZerosInFront), and `Base58RoundTrip` follows for every base, as does for
`Double` that the error is within one part in `Exact` (DoubleNear). `WebhookHits` needs the
round trip and, besides, that webhooks have been sent only for keys that were given out: a
new record's key is a fresh one, so no webhook can have been for it. `ListNewest`
speaks of sorting and cutting: an order names each record of an institution once
(OrderOfAll), and the front of it holds the newest (FrontOfOrder).

`Solvent` and `SettlementEnabled` say of a token deposit only what the code provides. Its
escrow holds what arrived, `Arrived(mint, amount)`, and it can be settled if that is the
whole amount, because the mint keeps nothing or somebody has made up for it (`Whole`). The
fee is arbitrary in the proofs. The others cannot be settled until
somebody makes up for the fee (section 6).
`OneCall` is inductive since an address is issued afresh: no page shows a payment again
that a call of an earlier page is made for. It does not say that nothing else runs: a
payment of a page that was left may be signed while an address is being issued.

Only model-checked: liveness (`EveryRequestEnds`, `CatchesUp`, `BusyEnds`, `StatusCatchesUp`)
and `SettlementEnabled` as it stands, with ENABLED. Both are out of the provers' reach.

## 5. What is not modelled

- *Program*: transaction fees, rent of token accounts, view tags, evidence hashes, mint
  decimals, transactions of several instructions. Wallet keys are never forged. Of what
  Token-2022 mints may do besides keeping a fee: frozen accounts, a permanent delegate who
  takes tokens back, transfer hooks, a pause, a fee that changes between deposit and
  settlement. `deposit_token` accepts such mints, so for their deposits `Solvent`,
  `FundsLeaveBySettlement` and `SettlementEnabled` are not claimed.
- *Relayer*: keys, RPC errors apart from giving up, poisoning of the mutex.
- *Indexer and gateway*: what an id from before a restart of the memory store means
  after it (the ids count from 1 again, and it may name another payment of the same
  institution; nothing in the repository promises otherwise). RPC nodes that lag behind or roll back, two indexers,
  bodies that are refused, forged or missing webhook secrets, customer ids and mints, the
  pool of Postgres connections. Postgres's own failures are failed calls. A Postgres id is
  taken to be new; the primary key makes a repeated one a failure.
- *Stealth*: points with a torsion component, byte order, hex, the choice of r.
- *Demo*: the keys on the server, token payments.
- *Dashboard*: what calls do that outlive their page, beyond that they go on; the moment
  between a new address and React's cleanup of the interval before, in which an answer may
  still be shown (`AddressKnown` drops them at once); the gateway's clock and the browser's
  are one (`overdue`). The wallet's balance, the event log, technical details, rendering, closed tabs.
  The pages /docs and /api are text.
- The oracle adapter is a scaffold; an oracle is modelled as anyone with its key.
- Deployment, migrations.

## 6. Where documents and code differ

Shown by runs:

1. MCVaultDocPaid. DESIGN.md:182-183 take Released and Refunded to mean that the money has
   gone where it belongs. `release` and `refund` do not look at the deposit's mint; on a token
   deposit whose account holds enough lamports they settle it and strand its tokens.
2. MCRelayerDocMonth. The cap is called monthly; nothing calls `BillingLedger::reset`.
3. MCGatewayDocRelease. routes.ts:118 says that the gateway tracks the release; the next webhook
   takes the record back to approved.
4. MCGatewayApiDocTreasury, two claims of one page, refuted in one state. app/api/page.tsx:234
   says "max 500" of the list's limit; a negative limit is below 500, and the memory
   store's `slice(0, limit)` returns all but the oldest records. (On Postgres the query fails.)
   app/api/page.tsx:222 documents GET /v1/treasury/deposits as "Aggregate counts by state for
   the calling institution."; they are those of the newest 200 records. `DocTreasuryRoutes`
   is the weaker claim that one of the two holds.
5. MCDemoDocRefund. page.tsx:665 promises a refund to "your refund_addr". The page issues an
   address with one wallet connected and pays from another; the record has the first, the
   deposit the second, and once the payment is rejected the program refuses the refund that
   the page asks for.

Seen while modelling:

- DESIGN.md:272 has a deposit that no attestor judges refunded. `deposit_token` takes any mint
  of the token interface and records the amount asked for; of a Token-2022 mint that keeps a
  transfer fee less arrives, and `refund_token` and `release_token`, which transfer the
  recorded amount, fail until somebody tops the escrow up. The model has such mints, and
  `SettlementEnabled` promises nothing for such a deposit as long as it is not `Whole`.
- DESIGN.md:287 bills a transaction on its success; main.rs:71 accrues the fee at admission and
  keeps it when the transaction does not decode or is not sent. `BilledOnce` counts the
  admitted for that reason.
- DESIGN.md:225 restricts refund to the depositor or the institution, refund.rs lets anybody
  call it; the state Expired is never stored; DESIGN.md:135 says that the nonce is kept in the
  deposit account, which has no such field.
- app/dashboard/page.tsx:544 shows "release_authority: <your wallet>"; the instruction has the
  demo wallet's (page.tsx:272).
- After "Re-issue address" the page shows the status of the payment before until the first poll
  of the new one is answered, step 2's "You paid" included.

## 7. Plan

Done, in this order: EscrowLifecycle, QuarantineVault, Relayer, GatewaySync, DemoFlow,
Stealth, Session and Playground, GatewayApi, and the theorems of section 4.

Next:

1. GatewaySync: two payments to one address, of which the record can only follow one. The
   theorems allow any number already; `CatchesUp` and its run do not.
2. The relayer composed with QuarantineVault, so that its transactions are instructions.
