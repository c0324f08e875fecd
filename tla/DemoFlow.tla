------------------------------- MODULE DemoFlow -------------------------------
(***************************************************************************)
(* The demo routes of the gateway, and the customer's own payment from a   *)
(* wallet.  A demo route runs gpay-cli, one process per transaction;       *)
(* /v1/demo/attest runs it for one oracle after the other.                 *)
(* gpay-cli lets the cluster try the transaction, sends it and waits; the  *)
(* gateway kills it after a minute, and then the transaction may be        *)
(* executed all the same.                                                  *)
(*                                                                         *)
(* The chain is the lifecycle that the program implements                  *)
(* (EscrowLifecycle); all payments here are in SOL, so no account is ever  *)
(* reclaimed.  The indexer brings the gateway's record up to date in one   *)
(* step: how webhooks are lost, late and out of order is GatewaySync.  The *)
(* page that makes these calls is Playground; here they may come from      *)
(* anywhere and in any order.                                              *)
(***************************************************************************)
EXTENDS Integers, Sequences

CONSTANTS
    Payments,     \* receiving addresses; each is the seed of one deposit account
    Oracles,      \* the oracle set of the vault
    DemoOracles,  \* sequence: the oracles whose keys the gateway holds
    Quorum,       \* min_attestations of the vault
    Wallets,      \* wallets the customer may connect
    DemoWallet,   \* the wallet on the server
    NoWallet,     \* none connected; as a refund address, 32 zero bytes
    Requests,     \* calls of the demo routes, each made once; a retry is another one
    None

VARIABLES
    phase, clean, dirty, lapsed, quorum,   \* the chain
    refundAddr,  \* payment -> refund_addr of its deposit account, None before
    pool,        \* transactions the cluster has and has not executed
    confirmed,   \* transactions executed without an error
    records,     \* payment -> the gateway's record
    requests,    \* request -> where its handler is
    wallet       \* the connected wallet of the customer

chain == <<phase, clean, dirty, lapsed, quorum, refundAddr>>
vars == <<chain, pool, confirmed, records, requests, wallet>>

Chain == INSTANCE EscrowLifecycle WITH Deposits <- Payments, Quorums <- {Quorum}

Word == [Pending |-> "pending", Approved |-> "approved", Rejected |-> "rejected",
         Released |-> "released", Refunded |-> "refunded"]
Words == {Word[p] : p \in DOMAIN Word}
Addresses == Wallets \cup {DemoWallet, NoWallet}
Verdicts == {"clean", "dirty"}
Ops == {"simulate", "attest", "release", "refund"}

Record == [state : Words, on_chain : BOOLEAN, refund_addr : Addresses]
\* `step` is the oracle whose turn it is, 1 in the routes that run gpay-cli once.
Request == [op : Ops, payment : Payments, verdict : Verdicts \cup {None},
            step : 1..Len(DemoOracles), stage : {"ready", "sent", "ok", "error"}]
Tx == [by : Requests \cup {"page"}, step : 0..Len(DemoOracles), op : Ops,
       payment : Payments, verdict : Verdicts \cup {None}, to : Addresses \cup {None}]

ASSUME DemoAssumption ==
    /\ DemoOracles \in Seq(Oracles)
    /\ Len(DemoOracles) = Quorum /\ Quorum > 0
    /\ \A i, j \in DOMAIN DemoOracles : DemoOracles[i] = DemoOracles[j] => i = j
    /\ DemoWallet \notin Wallets /\ NoWallet \notin Wallets
    /\ None \notin Record

------------------------------------------------------------------------------
(* The chain.                                                                *)

\* What a trial run of the transaction answers at this moment.
Executable(tx) ==
    LET d == tx.payment IN
    CASE tx.op = "simulate" -> phase[d] = "Absent"
      [] tx.op = "attest" -> /\ phase[d] = "Pending" /\ d \notin lapsed
                             /\ DemoOracles[tx.step] \notin clean[d] \cup dirty[d]
      [] tx.op = "release" -> phase[d] = "Approved"
      [] tx.op = "refund" -> /\ tx.to = refundAddr[d]
                             /\ phase[d] = "Rejected" \/ (phase[d] = "Pending" /\ d \in lapsed)

Effect(tx) ==
    LET d == tx.payment IN
    \/ /\ tx.op = "simulate" /\ Chain!Hold(d)
       /\ refundAddr' = [refundAddr EXCEPT ![d] = tx.to]
    \/ /\ tx.op = "attest" /\ Chain!Decide(d, DemoOracles[tx.step])
       /\ (tx.verdict = "clean") = (clean' # clean)
       /\ UNCHANGED refundAddr
    \/ /\ tx.op = "release" /\ Chain!ReleaseIt(d) /\ phase'[d] = "Released"
       /\ UNCHANGED refundAddr
    \/ /\ tx.op = "refund" /\ Chain!RefundIt(d) /\ phase'[d] = "Refunded"
       /\ UNCHANGED refundAddr

Execute(tx) ==
    /\ tx \in pool /\ Executable(tx)
    /\ Effect(tx)
    /\ pool' = pool \ {tx} /\ confirmed' = confirmed \cup {tx}
    /\ UNCHANGED <<records, requests, wallet>>

\* Executed with an error, or its blockhash has expired.
Drop(tx) ==
    /\ tx \in pool
    /\ pool' = pool \ {tx}
    /\ UNCHANGED <<chain, confirmed, records, requests, wallet>>

\* An oracle of the vault whose key the gateway does not hold.
OtherOracle(d, o) ==
    /\ \A i \in DOMAIN DemoOracles : DemoOracles[i] # o
    /\ Chain!Decide(d, o)
    /\ UNCHANGED <<refundAddr, pool, confirmed, records, requests, wallet>>

Lapse(d) ==
    /\ phase[d] # "Absent" /\ d \notin lapsed
    /\ Chain!Lapse({d})
    /\ UNCHANGED <<refundAddr, pool, confirmed, records, requests, wallet>>

------------------------------------------------------------------------------
(* The gateway: its record, and the demo routes.                             *)

HasRecord(d) == records[d] # None

\* A pass of the indexer, with applyOnChainMatch.
Observe(d) ==
    /\ HasRecord(d) /\ phase[d] # "Absent"
    /\ records' = [records EXCEPT
           ![d].on_chain = TRUE,
           ![d].state = IF phase[d] = "Pending" THEN @ ELSE Word[phase[d]]]
    /\ UNCHANGED <<chain, pool, confirmed, requests, wallet>>

NewRecord(d, addr) ==
    /\ ~ HasRecord(d)
    /\ records' = [records EXCEPT ![d] =
           [state |-> "pending", on_chain |-> FALSE, refund_addr |-> addr]]

\* POST /v1/demo/init: the refund goes to the wallet on the server.
DemoInit(d) ==
    /\ NewRecord(d, DemoWallet)
    /\ UNCHANGED <<chain, pool, confirmed, requests, wallet>>

\* What a route asks of the record before it runs gpay-cli.
Admits(op, d) ==
    /\ HasRecord(d)
    /\ op = "attest" => records[d].on_chain
    /\ op = "release" => records[d].state = "approved"

Call(r, op, d, v) ==
    /\ requests[r] = None
    /\ (op = "attest") = (v # None)
    /\ requests' = [requests EXCEPT ![r] =
           [op |-> op, payment |-> d, verdict |-> v, step |-> 1,
            stage |-> IF Admits(op, d) THEN "ready" ELSE "error"]]
    /\ UNCHANGED <<chain, pool, confirmed, records, wallet>>

\* The transaction of the process that request r is about to run.
TxOf(r) ==
    LET q == requests[r] IN
    [by |-> r, step |-> q.step, op |-> q.op, payment |-> q.payment, verdict |-> q.verdict,
     to |-> IF q.op \in {"simulate", "refund"} THEN records[q.payment].refund_addr ELSE None]

\* submit(): the trial run, then the transaction is sent.
Send(r) ==
    /\ requests[r] # None /\ requests[r].stage = "ready" /\ Executable(TxOf(r))
    /\ requests' = [requests EXCEPT ![r].stage = "sent"]
    /\ pool' = pool \cup {TxOf(r)}
    /\ UNCHANGED <<chain, confirmed, records, wallet>>

\* Mutant: the route goes on to the next oracle when one has failed.
FailGoesOn(r) ==
    LET more == requests[r].op = "attest" /\ requests[r].step < Len(DemoOracles) IN
    /\ requests[r] # None
    /\ \/ requests[r].stage = "ready" /\ ~ Executable(TxOf(r))
       \/ requests[r].stage = "sent" /\ TxOf(r) \notin confirmed
    /\ requests' = [requests EXCEPT ![r] =
           IF more THEN [@ EXCEPT !.step = requests[r].step + 1, !.stage = "ready"]
           ELSE [@ EXCEPT !.stage = "error"]]
    /\ UNCHANGED <<chain, pool, confirmed, records, wallet>>

\* The trial run fails; or the transaction does not confirm: it is known to have
\* failed, or the process is killed while it waits.  The route answers 500.
Fail(r) ==
    /\ requests[r] # None
    /\ \/ requests[r].stage = "ready" /\ ~ Executable(TxOf(r))
       \/ requests[r].stage = "sent"
    /\ requests' = [requests EXCEPT ![r].stage = "error"]
    /\ UNCHANGED <<chain, pool, confirmed, records, wallet>>

\* Mutant: one oracle is taken to be enough.
ConfirmOne(r) ==
    /\ requests[r] # None /\ requests[r].stage = "sent" /\ TxOf(r) \in confirmed
    /\ requests' = [requests EXCEPT ![r].stage = "ok"]
    /\ UNCHANGED <<chain, pool, confirmed, records, wallet>>

\* Mutant: off by one at the last oracle.
ConfirmPastEnd(r) ==
    LET more == requests[r].op = "attest" /\ requests[r].step <= Len(DemoOracles) IN
    /\ requests[r] # None /\ requests[r].stage = "sent" /\ TxOf(r) \in confirmed
    /\ requests' = [requests EXCEPT ![r] =
           IF more THEN [@ EXCEPT !.step = requests[r].step + 1, !.stage = "ready"]
           ELSE [@ EXCEPT !.stage = "ok"]]
    /\ UNCHANGED <<chain, pool, confirmed, records, wallet>>

\* The transaction is confirmed: the next oracle's turn, or the answer.
Confirm(r) ==
    LET more == requests[r].op = "attest" /\ requests[r].step < Len(DemoOracles) IN
    /\ requests[r] # None /\ requests[r].stage = "sent" /\ TxOf(r) \in confirmed
    /\ requests' = [requests EXCEPT ![r] =
           IF more THEN [@ EXCEPT !.step = requests[r].step + 1, !.stage = "ready"]
           ELSE [@ EXCEPT !.stage = "ok"]]
    /\ UNCHANGED <<chain, pool, confirmed, records, wallet>>

------------------------------------------------------------------------------
(* The customer.                                                             *)

Connect(w) ==
    /\ wallet' = w
    /\ UNCHANGED <<chain, pool, confirmed, records, requests>>

\* runIssueAddress: the refund address is that of the wallet connected now.
IssueAddress(d) ==
    /\ NewRecord(d, wallet)
    /\ UNCHANGED <<chain, pool, confirmed, requests, wallet>>

\* runSignAndPay: the refund address is that of the wallet that signs.  A page that has
\* polled in time does not offer it again, but the status may be an old one.
SignAndPay(d) ==
    LET tx == [by |-> "page", step |-> 0, op |-> "simulate", payment |-> d,
               verdict |-> None, to |-> wallet]
    IN
    /\ wallet # NoWallet /\ HasRecord(d)
    /\ Executable(tx)
    /\ pool' = pool \cup {tx}
    /\ UNCHANGED <<chain, confirmed, records, requests, wallet>>

------------------------------------------------------------------------------

\* init-vault has been run.
Init ==
    /\ phase = [d \in Payments |-> "Absent"]
    /\ clean = [d \in Payments |-> {}] /\ dirty = [d \in Payments |-> {}]
    /\ lapsed = {} /\ quorum = [d \in Payments |-> Quorum]
    /\ refundAddr = [d \in Payments |-> None]
    /\ pool = {} /\ confirmed = {}
    /\ records = [d \in Payments |-> None]
    /\ requests = [r \in Requests |-> None]
    /\ wallet = NoWallet

Handler(r) == Send(r) \/ Fail(r) \/ Confirm(r)

Cluster ==
    \/ \E tx \in pool : Execute(tx) \/ Drop(tx)
    \/ \E d \in Payments, o \in Oracles : OtherOracle(d, o)
    \/ \E d \in Payments : Lapse(d)

Gateway ==
    \/ \E d \in Payments : Observe(d) \/ DemoInit(d)
    \/ \E r \in Requests : Handler(r)
    \/ \E r \in Requests, op \in Ops, d \in Payments, v \in Verdicts \cup {None} : Call(r, op, d, v)

Customer ==
    \/ \E w \in Wallets \cup {NoWallet} : Connect(w)
    \/ \E d \in Payments : IssueAddress(d) \/ SignAndPay(d)

Next == Cluster \/ Gateway \/ Customer

Spec == Init /\ [][Next]_vars

------------------------------------------------------------------------------
(* Properties.                                                               *)

\* Types of the routes', the customer's and the cluster's state.
TypeOK ==
    /\ refundAddr \in [Payments -> Addresses \cup {None}]
    /\ pool \subseteq Tx /\ confirmed \subseteq Tx
    /\ records \in [Payments -> Record \cup {None}]
    /\ requests \in [Requests -> Request \cup {None}]
    /\ wallet \in Wallets \cup {NoWallet}

\* The gateway's oracles never contradict each other on a payment, however calls with
\* opposite verdicts interleave, time out or are made again: the first oracle's
\* attestation, which lands once, decides which call gets to the second (demo.ts:177-198).
OneVerdict ==
    \A d \in Payments, i, j \in DOMAIN DemoOracles :
        ~ (DemoOracles[i] \in clean[d] /\ DemoOracles[j] \in dirty[d])

\* A call that was answered with signatures has done what it was for: the payment is
\* held, decided by that verdict ("Threshold reached", page.tsx:370), released or refunded.
Done(q) ==
    LET p == phase[q.payment] IN
    CASE q.op = "simulate" -> p # "Absent"
      [] q.op = "attest" /\ q.verdict = "clean" -> p \in {"Approved", "Released"}
      [] q.op = "attest" /\ q.verdict = "dirty" -> p \in {"Rejected", "Refunded"}
      [] q.op = "release" -> p = "Released"
      [] q.op = "refund" -> p = "Refunded"

OkMeansDone ==
    \A r \in Requests :
        requests[r] # None /\ requests[r].stage = "ok" => Done(requests[r])

==============================================================================
