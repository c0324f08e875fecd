----------------------------- MODULE GatewaySync -----------------------------
(***************************************************************************)
(* How an institution's view of its payments follows the chain.  The       *)
(* indexer (crates/indexer) reads every deposit of the program in passes   *)
(* and posts one webhook per match; the gateway (apps/api-gateway) keeps a *)
(* record per issued receiving address, overwrites it with what a webhook  *)
(* says, and answers release and refund calls from the record alone.       *)
(*                                                                         *)
(* The chain is the lifecycle that the program implements                  *)
(* (EscrowLifecycle).  A webhook's answer decides nothing but a line of    *)
(* log and its wait ends after ten seconds, so the indexer goes on whether *)
(* or not the gateway has handled it: a webhook may be handled late, after *)
(* one of a later pass, or be lost.  Authentication, amounts, listings and *)
(* the derivation of addresses are left out.                               *)
(***************************************************************************)
EXTENDS Integers, FiniteSets

CONSTANTS
    Deposits, Oracles, Quorums,   \* of EscrowLifecycle
    Stealths,    \* stealth addresses the gateway may issue
    StealthOf,   \* deposit -> the stealth_pubkey it was made with
    Calls,       \* calls of POST /v1/release and /v1/refund, each made once
    CallOf,      \* call -> [op, stealth]: what it asks, of which record
    Stores,      \* kinds of store the gateway may be started with
    MaxCopies,   \* bound: equal webhooks that wait at the gateway at one time
    NoRecord

VARIABLES
    phase, clean, dirty, lapsed, quorum,   \* the chain
    unreadable, \* whether a deposit exists whose ephemeral_r is no point
    store,    \* the kind of store: "memory" or "postgres"
    issued,   \* addresses given out; each is random, so none is given out twice
    records,  \* address -> DepositRecord
    overdue,  \* addresses whose record has expiresAt <= Date.now()
    matches,  \* webhooks of its pass that the indexer has still to post
    posted,   \* webhook -> how often it waits at the gateway
    stage,    \* call -> where its handler is
    seen      \* history, read by no action: deposit -> phases it has had

chain == <<phase, clean, dirty, lapsed, quorum, unreadable>>
gateway == <<store, issued, records, overdue, stage>>
vars == <<chain, gateway, matches, posted, seen>>

Chain == INSTANCE EscrowLifecycle

\* The match of webhook.rs.
StateWord == [Pending |-> "pending", Approved |-> "approved", Rejected |-> "rejected",
              Released |-> "released", Refunded |-> "refunded"]
Words == {StateWord[p] : p \in DOMAIN StateWord}

\* The gateway also knows "expired", which no deposit on chain ever is.
Record == [state : Words \cup {"expired"}, on_chain_state : Words \cup {"none"},
           on_chain_address : Deposits \cup {"none"}]
Webhook == [deposit : Deposits, state : Words]

ASSUME SyncAssumption ==
    /\ StealthOf \in [Deposits -> Stealths]
    /\ CallOf \in [Calls -> [op : {"release", "refund"}, stealth : Stealths]]
    /\ Stores \subseteq {"memory", "postgres"}
    /\ Quorums \subseteq Nat
    /\ MaxCopies \in Nat \ {0}
    /\ NoRecord \notin Record

Exists(d) == phase[d] # "Absent"
DepositsAt(s) == {d \in Deposits : StealthOf[d] = s}

------------------------------------------------------------------------------
(* The chain and the clocks.                                                 *)

\* Nobody can pay to an address before it is given out.
ChainStep ==
    /\ Chain!ANext
    /\ \A d \in Deposits : ~ Exists(d) /\ phase'[d] # "Absent" => StealthOf[d] \in issued
    /\ seen' = [d \in Deposits |-> seen[d] \cup {phase'[d]}]
    /\ UNCHANGED <<unreadable, gateway, matches, posted>>

\* Whoever pays chooses the ephemeral_r.  Such a deposit is one of nobody's addresses;
\* it goes when its settlement takes the last lamports from its account.
UnreadableDeposit ==
    /\ unreadable' = ~ unreadable
    /\ UNCHANGED <<phase, clean, dirty, lapsed, quorum, gateway, matches, posted, seen>>

\* expiresAt runs from the issue of the address, expire_at from the deposit.
BecomeOverdue(s) ==
    /\ s \in issued \ overdue
    /\ overdue' = overdue \cup {s}
    /\ UNCHANGED <<chain, store, issued, records, stage, matches, posted, seen>>

------------------------------------------------------------------------------
(* The indexer.                                                              *)

\* One getProgramAccounts call, when the last pass is dispatched.  An error of scan_deposit
\* ends the pass, so while an unreadable deposit exists nothing is matched.
Scan ==
    /\ matches = {}
    /\ ~ unreadable
    /\ matches' = {[deposit |-> d, state |-> StateWord[phase[d]]] :
                      d \in {e \in Deposits : Exists(e)}}
    /\ UNCHANGED <<chain, gateway, posted, seen>>

Post(w) ==
    /\ w \in matches /\ posted[w] < MaxCopies
    /\ matches' = matches \ {w}
    /\ posted' = [posted EXCEPT ![w] = @ + 1]
    /\ UNCHANGED <<chain, gateway, seen>>

\* The webhook does not reach the gateway; only the next pass will post it again.
PostFails(w) ==
    /\ w \in matches
    /\ matches' = matches \ {w}
    /\ UNCHANGED <<chain, gateway, posted, seen>>

IndexerRestart ==
    /\ matches' = {}
    /\ UNCHANGED <<chain, gateway, posted, seen>>

------------------------------------------------------------------------------
(* The gateway.                                                              *)

\* POST /v1/receiving-address, with createDeposit.
ReceivingAddress(s) ==
    /\ s \notin issued
    /\ issued' = issued \cup {s}
    /\ records' = [records EXCEPT ![s] =
           [state |-> "pending", on_chain_state |-> "none", on_chain_address |-> "none"]]
    /\ UNCHANGED <<chain, store, overdue, stage, matches, posted, seen>>

\* Mutant: what the record says itself is stored as what the chain says.
OnChainMatchOwnState(w) ==
    LET s == StealthOf[w.deposit] IN
    IF records[s] = NoRecord THEN records
    ELSE [records EXCEPT ![s] =
            [state |-> IF w.state = "pending" THEN @.state ELSE w.state,
             on_chain_state |-> @.state, on_chain_address |-> w.deposit]]

\* Mutant: the stealth key stored as the deposit's address.
OnChainMatchSwapped(w) ==
    LET s == StealthOf[w.deposit] IN
    IF records[s] = NoRecord THEN records
    ELSE [records EXCEPT ![s] =
            [state |-> IF w.state = "pending" THEN @.state ELSE w.state,
             on_chain_state |-> w.state, on_chain_address |-> s]]

\* Mutant: a settled record is left as it is.
OnChainMatchUnlessSettled(w) ==
    LET s == StealthOf[w.deposit] IN
    IF records[s] = NoRecord \/ records[s].state \in {"released", "refunded"} THEN records
    ELSE [records EXCEPT ![s] =
            [state |-> IF w.state = "pending" THEN @.state ELSE w.state,
             on_chain_state |-> w.state, on_chain_address |-> w.deposit]]

\* applyOnChainMatch: what is pending on chain leaves the record's own state alone.
OnChainMatch(w) ==
    LET s == StealthOf[w.deposit] IN
    IF records[s] = NoRecord THEN records
    ELSE [records EXCEPT ![s] =
            [state |-> IF w.state = "pending" THEN @.state ELSE w.state,
             on_chain_state |-> w.state, on_chain_address |-> w.deposit]]

\* POST /v1/internal/deposit-detected.
DepositDetected(w) ==
    /\ posted[w] > 0
    /\ posted' = [posted EXCEPT ![w] = @ - 1]
    /\ records' = OnChainMatch(w)
    /\ UNCHANGED <<chain, store, issued, overdue, stage, matches, seen>>

\* Mutant: what the record says is not looked at.
MayCallAnyState(c) == records[CallOf[c].stealth] # NoRecord

\* The record is there and in a state that the call may leave.
MayCall(c) ==
    LET s == CallOf[c].stealth
        r == records[s]
    IN
    /\ r # NoRecord
    /\ IF CallOf[c].op = "release" THEN r.state = "approved"
       ELSE \/ r.state \in {"rejected", "expired"}
            \/ r.state = "pending" /\ s \in overdue

\* setDepositState
StateSet(c) ==
    [records EXCEPT ![CallOf[c].stealth].state =
        IF CallOf[c].op = "release" THEN "released" ELSE "refunded"]

Refuse(c) ==
    /\ stage[c] = "unsent" /\ ~ MayCall(c)
    /\ stage' = [stage EXCEPT ![c] = "failed"]
    /\ UNCHANGED <<chain, store, issued, records, overdue, matches, posted, seen>>

\* Postgres: the row is read by one query and written by another.
Check(c) ==
    /\ store = "postgres"
    /\ stage[c] = "unsent" /\ MayCall(c)
    /\ stage' = [stage EXCEPT ![c] = "checked"]
    /\ UNCHANGED <<chain, store, issued, records, overdue, matches, posted, seen>>

Write(c) ==
    /\ stage[c] = "checked"
    /\ stage' = [stage EXCEPT ![c] = "done"]
    /\ records' = StateSet(c)
    /\ UNCHANGED <<chain, store, issued, overdue, matches, posted, seen>>

\* Memory: getDeposit returns the live object, and nothing is awaited between the
\* check of its state and the assignment in setDepositState.
CheckAndWrite(c) ==
    /\ store = "memory"
    /\ stage[c] = "unsent" /\ MayCall(c)
    /\ stage' = [stage EXCEPT ![c] = "done"]
    /\ records' = StateSet(c)
    /\ UNCHANGED <<chain, store, issued, overdue, matches, posted, seen>>

\* Requests that are being handled are cut; a memory store is gone.
GatewayRestart ==
    /\ records' = IF store = "postgres" THEN records ELSE [s \in Stealths |-> NoRecord]
    /\ posted' = [w \in Webhook |-> 0]
    /\ stage' = [c \in Calls |-> IF stage[c] = "checked" THEN "failed" ELSE stage[c]]
    /\ UNCHANGED <<chain, store, issued, overdue, matches, seen>>

------------------------------------------------------------------------------

Init ==
    /\ Chain!AInit
    /\ unreadable = FALSE
    /\ store \in Stores
    /\ issued = {} /\ overdue = {} /\ matches = {}
    /\ records = [s \in Stealths |-> NoRecord]
    /\ posted = [w \in Webhook |-> 0]
    /\ stage = [c \in Calls |-> "unsent"]
    /\ seen = [d \in Deposits |-> {"Absent"}]

Next ==
    \/ ChainStep
    \/ UnreadableDeposit
    \/ \E s \in Stealths : ReceivingAddress(s) \/ BecomeOverdue(s)
    \/ Scan
    \/ \E w \in Webhook : Post(w) \/ PostFails(w) \/ DepositDetected(w)
    \/ \E c \in Calls : Refuse(c) \/ Check(c) \/ Write(c) \/ CheckAndWrite(c)
    \/ IndexerRestart
    \/ GatewayRestart

Spec == Init /\ [][Next]_vars

\* The indexer's loop never ends.  Of the webhooks it posts again in every pass not all
\* are lost on the way, or with the gateway.  Nobody is made to call, pay or judge.
FairSpec ==
    /\ Spec
    /\ WF_vars(Scan)
    /\ SF_vars(\E w \in Webhook : Post(w))
    /\ SF_vars(\E w \in Webhook : DepositDetected(w))

------------------------------------------------------------------------------
(* Properties.                                                               *)

\* Types of the gateway's and the indexer's state.
TypeOK ==
    /\ unreadable \in BOOLEAN
    /\ store \in Stores
    /\ issued \subseteq Stealths /\ overdue \subseteq issued
    /\ records \in [Stealths -> Record \cup {NoRecord}]
    /\ matches \subseteq Webhook
    /\ posted \in [Webhook -> 0..MaxCopies]
    /\ stage \in [Calls -> {"unsent", "checked", "done", "failed"}]

\* What a record says of the chain was so: it names a deposit made to its own address,
\* in a state that deposit has had, however late or disordered the webhooks were.
RecordsWereTrue ==
    \A s \in Stealths :
        LET r == records[s] IN
        r # NoRecord /\ r.on_chain_address # "none" =>
            /\ r.on_chain_address \in DepositsAt(s)
            /\ \E p \in seen[r.on_chain_address] :
                  p # "Absent" /\ StateWord[p] = r.on_chain_state

\* The gateway agrees to a release only if a deposit to that address has been approved
\* on chain, and to a refund only if one has been rejected or the record's time has
\* run out (routes.ts:110, 131-136), in spite of stale records.
AgreedWithCause ==
    \A c \in Calls : stage[c] = "done" =>
        LET s == CallOf[c].stealth IN
        IF CallOf[c].op = "release" THEN \E d \in DepositsAt(s) : "Approved" \in seen[d]
        ELSE s \in overdue \/ \E d \in DepositsAt(s) : "Rejected" \in seen[d]

SettledAs(d, p) == phase[d] = p /\ records[StealthOf[d]] # NoRecord

\* If a payment is settled on chain for good, the only one to its address, then its
\* record ends up settled the same way and stays so, after any losses, late webhooks
\* and calls, provided the store keeps the record and every deposit can be read.
CatchesUp ==
    \A d \in Deposits, p \in {"Released", "Refunded"} :
        DepositsAt(StealthOf[d]) = {d} =>
            (<>[](SettledAs(d, p) /\ ~ unreadable)
                => <>[](records[StealthOf[d]] # NoRecord
                          /\ records[StealthOf[d]].state = StateWord[p]))

==============================================================================
