------------------------------- MODULE Relayer -------------------------------
(***************************************************************************)
(* crates/relayer: an HTTP service that pays the fees of institutions'     *)
(* transactions.  A request passes admission (suspension, fee cap, token   *)
(* bucket) under one mutex, where its fee is accrued; it is then decoded,  *)
(* signed as fee payer and sent, and the handler's thread waits for the    *)
(* confirmation.  The handler has no await, so a request keeps a worker    *)
(* from admission to reply.  Everything is in memory: a restart begins     *)
(* with the policies of main() and empty ledgers.                          *)
(*                                                                         *)
(* Time is counted in ticks of the bucket's refill: a tick adds one unit,  *)
(* and a token is TokenTicks units, so that fractions of a token are       *)
(* whole numbers of units.  Keys, RPC and JSON are left out.               *)
(***************************************************************************)
EXTENDS Integers, FiniteSets

CONSTANTS
    Institutions,
    Requests,       \* calls of POST /v1/submit, each made once; a retry is another one
    Txs,            \* transactions: one signed message each, so each lands at most once
    InstOf,         \* the institution whose transaction it is, named in the request body
    GoodTxs,        \* those that decode and name the relayer as fee payer
    Policies,       \* policies that register may be given
    StartPolicies,  \* institution -> what main() registers, NoPolicy for nothing
    NoCap,          \* monthly_cap_micro_usdc = None
    TokenTicks,     \* units in a token: what try_consume(1) takes
    MaxU64,         \* where the ledger's u64 saturates
    Workers,        \* threads of the runtime
    MonthTicks,     \* length of a settlement period
    MaxTime         \* bound: the last value of the clock

VARIABLES
    policies,   \* institution -> InstitutionPolicy, NoPolicy if not registered
    ledgers,    \* institution -> BillingLedger
    stage,      \* request -> where its handler is
    txOf,       \* request -> the transaction its client puts in the body
    reply,      \* request -> the outcome it was answered, "none" before
    pool,       \* transactions handed to the cluster and neither landed nor dropped
    landed,     \* transactions on chain
    now,
    \* History, read by no action.
    spent,      \* institution -> t -> units taken at or after t, since registration
    earlier,    \* transactions sent by processes before the last restart
    period      \* institution -> fees accrued in the current settlement period

service == <<policies, ledgers, stage, txOf, reply>>
history == <<spent, earlier, period>>
vars == <<service, pool, landed, now, history>>

Policy == [capacity : Nat, fee : Nat, cap : Nat \cup {NoCap}]
Times == 0..MaxTime

NoPolicy == [registered |-> FALSE]
Registered(p, t) ==
    [registered |-> TRUE, capacity |-> p.capacity, fee |-> p.fee, cap |-> p.cap,
     suspended |-> FALSE, tokens |-> p.capacity, last_refill |-> t]
InstitutionPolicy ==
    [registered : {TRUE}, capacity : Nat, fee : Nat, cap : Nat \cup {NoCap},
     suspended : BOOLEAN, tokens : Nat, last_refill : Nat]

Outcomes == {"Ok", "UnknownInstitution", "Suspended", "FeeCapExceeded", "RateLimited",
             "BadRequest", "BadGateway"}
Stages == {"unsent", "received", "admitted", "sent", "answered", "cut"}

ASSUME PolicyAssumption ==
    /\ Policies \subseteq Policy
    /\ StartPolicies \in [Institutions -> Policies \cup {NoPolicy}]
    /\ NoCap \notin Nat
ASSUME RequestAssumption ==
    /\ InstOf \in [Txs -> Institutions]
    /\ GoodTxs \subseteq Txs
ASSUME NumberAssumption ==
    /\ TokenTicks \in Nat \ {0} /\ MaxU64 \in Nat /\ Workers \in Nat \ {0}
    /\ MonthTicks \in Nat \ {0} /\ MaxTime \in Nat
\* Fewer transactions than a u64 can count.
ASSUME CountAssumption ==
    /\ IsFiniteSet(Requests) /\ IsFiniteSet(Txs)
    /\ Cardinality(Txs) <= MaxU64

SaturatingAdd(a, b) == IF a + b > MaxU64 THEN MaxU64 ELSE a + b

EmptyLedger == [accrued |-> 0, tx_count |-> 0]

------------------------------------------------------------------------------
(* TokenBucket and BillingLedger.                                            *)

\* Mutant: the burst is not capped.
RefilledUncapped(p, t) ==
    IF t <= p.last_refill THEN p
    ELSE [p EXCEPT !.tokens = p.tokens + (t - p.last_refill), !.last_refill = t]

Refilled(p, t) ==
    LET filled == p.tokens + (t - p.last_refill) IN
    IF t <= p.last_refill THEN p
    ELSE [p EXCEPT !.tokens = IF filled > p.capacity THEN p.capacity ELSE filled,
                   !.last_refill = t]

\* Mutant: any fraction of a token will do.
SomeToken(p) == p.tokens > 0

HasToken(p) == p.tokens >= TokenTicks

Accrue(l, fee) ==
    [accrued |-> SaturatingAdd(l.accrued, fee),
     tx_count |-> SaturatingAdd(l.tx_count, 1)]

\* Mutant: what is about to be accrued left out of the comparison.
CapReached(p, l) == p.cap # NoCap /\ l.accrued >= p.cap

CapExceeded(p, l) == p.cap # NoCap /\ SaturatingAdd(l.accrued, p.fee) > p.cap

------------------------------------------------------------------------------
(* Administration.  main() registers at start; the library allows more.      *)

\* Mutant: the ledger is new as well.
RegisterAnew(i, p) ==
    /\ policies' = [policies EXCEPT ![i] = Registered(p, now)]
    /\ ledgers' = [ledgers EXCEPT ![i] = EmptyLedger]
    /\ spent' = [spent EXCEPT ![i] = [t \in Times |-> 0]]
    /\ UNCHANGED <<stage, txOf, reply, pool, landed, now, earlier, period>>

\* The bucket is new and full; the ledger, if there is one, stays.
Register(i, p) ==
    /\ policies' = [policies EXCEPT ![i] = Registered(p, now)]
    /\ spent' = [spent EXCEPT ![i] = [t \in Times |-> 0]]
    /\ UNCHANGED <<ledgers, stage, txOf, reply, pool, landed, now, earlier, period>>

Suspend(i) ==
    /\ policies[i].registered
    /\ policies' = [policies EXCEPT ![i].suspended = TRUE]
    /\ UNCHANGED <<ledgers, stage, txOf, reply, pool, landed, now, history>>

------------------------------------------------------------------------------
(* The submit handler.                                                       *)

Running == {r \in Requests : stage[r] \in {"admitted", "sent"}}
HasWorker == Cardinality(Running) < Workers

\* A client posts a transaction; it waits for a worker.
Receive(r) ==
    /\ stage[r] = "unsent"
    /\ stage' = [stage EXCEPT ![r] = "received"]
    /\ UNCHANGED <<policies, ledgers, txOf, reply, pool, landed, now, history>>

Answer(r, outcome) ==
    /\ stage' = [stage EXCEPT ![r] = "answered"]
    /\ reply' = [reply EXCEPT ![r] = outcome]
    /\ UNCHANGED txOf

\* admit() refuses.  Only the bucket's own refusal refills it first.
Refuse(r) ==
    LET i == InstOf[txOf[r]]
        p == policies[i]
        Dry == ~ HasToken(Refilled(p, now))
    IN
    /\ stage[r] = "received" /\ HasWorker
    /\ \/ /\ ~ p.registered
          /\ Answer(r, "UnknownInstitution") /\ UNCHANGED policies
       \/ /\ p.registered /\ p.suspended
          /\ Answer(r, "Suspended") /\ UNCHANGED policies
       \/ /\ p.registered /\ ~ p.suspended /\ CapExceeded(p, ledgers[i])
          /\ Answer(r, "FeeCapExceeded") /\ UNCHANGED policies
       \/ /\ p.registered /\ ~ p.suspended /\ ~ CapExceeded(p, ledgers[i]) /\ Dry
          /\ Answer(r, "RateLimited")
          /\ policies' = [policies EXCEPT ![i] = Refilled(p, now)]
    /\ UNCHANGED <<ledgers, pool, landed, now, history>>

\* admit() accepts: a token is taken and the fee accrued.
Admit(r) ==
    LET i == InstOf[txOf[r]]
        p == policies[i]
        full == Refilled(p, now)
    IN
    /\ stage[r] = "received" /\ HasWorker
    /\ p.registered /\ ~ p.suspended /\ ~ CapExceeded(p, ledgers[i])
    /\ HasToken(full)
    /\ policies' = [policies EXCEPT ![i] = [full EXCEPT !.tokens = @ - TokenTicks]]
    /\ ledgers' = [ledgers EXCEPT ![i] = Accrue(@, p.fee)]
    /\ stage' = [stage EXCEPT ![r] = "admitted"]
    /\ spent' = [spent EXCEPT ![i] =
                   [t \in Times |-> IF t <= now THEN @[t] + TokenTicks ELSE @[t]]]
    /\ period' = [period EXCEPT ![i] = @ + p.fee]
    /\ UNCHANGED <<txOf, reply, pool, landed, now, earlier>>

\* decode_tx_b64 or cosign_as_fee_payer fails.
Reject(r) ==
    /\ stage[r] = "admitted" /\ txOf[r] \notin GoodTxs
    /\ Answer(r, "BadRequest")
    /\ UNCHANGED <<policies, ledgers, pool, landed, now, history>>

\* The signed transaction goes to the cluster; one that is there already is the same.
Send(r) ==
    /\ stage[r] = "admitted" /\ txOf[r] \in GoodTxs
    /\ stage' = [stage EXCEPT ![r] = "sent"]
    /\ pool' = IF txOf[r] \in landed THEN pool ELSE pool \cup {txOf[r]}
    /\ UNCHANGED <<policies, ledgers, txOf, reply, landed, now, history>>

Confirm(r) == stage[r] = "sent" /\ txOf[r] \in landed /\ Answer(r, "Ok")

\* Mutant: the call waits for ever.
GiveUpLate(r) == stage[r] = "sent" /\ txOf[r] \in landed /\ Answer(r, "BadGateway")

\* The RPC call fails, or gives up waiting: the transaction may land all the same.
GiveUp(r) == stage[r] = "sent" /\ Answer(r, "BadGateway")

\* Mutant: the fee is accrued on success too (DESIGN.md:287).
FinishBills(r) ==
    LET i == InstOf[txOf[r]] IN
    /\ \/ /\ Confirm(r)
          /\ ledgers' = [ledgers EXCEPT ![i] = Accrue(@, policies[i].fee)]
       \/ GiveUp(r) /\ UNCHANGED ledgers
    /\ UNCHANGED <<policies, pool, landed, now, history>>

Finish(r) ==
    /\ Confirm(r) \/ GiveUp(r)
    /\ UNCHANGED <<policies, ledgers, pool, landed, now, history>>

\* The process restarts: connections are cut, what is in memory is gone.
Restart ==
    /\ policies' = [i \in Institutions |->
           IF StartPolicies[i] = NoPolicy THEN NoPolicy ELSE Registered(StartPolicies[i], now)]
    /\ ledgers' = [i \in Institutions |-> EmptyLedger]
    /\ stage' = [r \in Requests |->
           IF stage[r] \in {"received", "admitted", "sent"} THEN "cut" ELSE stage[r]]
    /\ spent' = [i \in Institutions |-> [t \in Times |-> 0]]
    /\ earlier' = pool \cup landed
    /\ UNCHANGED <<txOf, reply, pool, landed, now, period>>

------------------------------------------------------------------------------
(* The cluster and the clock.                                                *)

Land(t) ==
    /\ t \in pool
    /\ pool' = pool \ {t} /\ landed' = landed \cup {t}
    /\ UNCHANGED <<service, now, history>>

Drop(t) ==
    /\ t \in pool
    /\ pool' = pool \ {t}
    /\ UNCHANGED <<service, landed, now, history>>

Tick ==
    /\ now < MaxTime
    /\ now' = now + 1
    /\ period' = IF now' % MonthTicks = 0 THEN [i \in Institutions |-> 0] ELSE period
    /\ UNCHANGED <<service, pool, landed, spent, earlier>>

------------------------------------------------------------------------------

Init ==
    /\ policies = [i \in Institutions |->
           IF StartPolicies[i] = NoPolicy THEN NoPolicy ELSE Registered(StartPolicies[i], 0)]
    /\ ledgers = [i \in Institutions |-> EmptyLedger]
    /\ stage = [r \in Requests |-> "unsent"]
    /\ txOf \in [Requests -> Txs]
    /\ reply = [r \in Requests |-> "none"]
    /\ pool = {} /\ landed = {} /\ now = 0
    /\ spent = [i \in Institutions |-> [t \in Times |-> 0]]
    /\ earlier = {}
    /\ period = [i \in Institutions |-> 0]

Handler(r) == Refuse(r) \/ Admit(r) \/ Reject(r) \/ Send(r) \/ Finish(r)

Next ==
    \/ \E r \in Requests : Receive(r)
    \/ \E r \in Requests : Handler(r)
    \/ \E i \in Institutions : Suspend(i) \/ \E p \in Policies : Register(i, p)
    \/ \E t \in Txs : Land(t) \/ Drop(t)
    \/ Restart
    \/ Tick

Spec == Init /\ [][Next]_vars

\* Workers take up what is received and run a handler to its end; nothing makes an
\* administrator act, the cluster land a transaction or the process restart.
FairSpec == Spec /\ \A r \in Requests : WF_vars(Handler(r))

------------------------------------------------------------------------------
(* Properties.                                                               *)

\* Types of the relayer's tables and of the cluster's.
TypeOK ==
    /\ policies \in [Institutions -> InstitutionPolicy \cup {NoPolicy}]
    /\ ledgers \in [Institutions -> [accrued : Nat, tx_count : Nat]]
    /\ stage \in [Requests -> Stages]
    /\ txOf \in [Requests -> Txs]
    /\ reply \in [Requests -> Outcomes \cup {"none"}]
    /\ pool \subseteq Txs /\ landed \subseteq Txs /\ earlier \subseteq Txs
    /\ now \in Times
    /\ spent \in [Institutions -> [Times -> Nat]]
    /\ period \in [Institutions -> Nat]

\* Over every window that ends now, an institution is admitted no more often than a
\* full bucket and the window's refill allow (rate_limit.rs), however admissions and
\* refused attempts, which refill too, were spread over it.
RateBound ==
    \A i \in Institutions : policies[i].registered =>
        \A t \in 0..now : spent[i][t] <= policies[i].capacity + (now - t)

\* No transaction of this process lands unbilled: admission comes before the signature
\* without which it cannot land (main.rs:71-96).
LandedBilled ==
    \A i \in Institutions :
        Cardinality({t \in landed \ earlier : InstOf[t] = i}) <= ledgers[i].tx_count

\* The requests of an institution that were admitted, whatever became of them.
Admitted(i) ==
    {r \in Requests : /\ InstOf[txOf[r]] = i
                      /\ \/ stage[r] \in {"admitted", "sent"}
                         \/ reply[r] \in {"Ok", "BadRequest", "BadGateway"}}

\* An admitted request is billed once and a refused one never: an institution has not been
\* billed for more transactions than requests of its own were admitted, nor at a fee that
\* no policy asks for, however requests interleave, are retried or cut (relayer.rs:68-98).
BilledOnce ==
    \A i \in Institutions :
        LET admitted == Cardinality(Admitted(i)) IN
        /\ ledgers[i].tx_count <= admitted
        /\ \A fee \in 0..MaxU64 : (\A p \in Policies : p.fee <= fee) =>
               ledgers[i].accrued <= fee * admitted

\* No admission takes an institution's bill past its cap, also when admissions of
\* several requests interleave or a policy was replaced by one with a lower cap.
BilledWithinCap ==
    [][\A i \in Institutions :
         ledgers'[i].accrued > ledgers[i].accrued /\ policies[i].cap # NoCap
             => ledgers'[i].accrued <= policies[i].cap]_vars

\* Every request that arrives is answered, or cut by a restart, although handlers
\* hold their worker while they wait for the cluster.
EveryRequestEnds ==
    \A r \in Requests : stage[r] = "received" ~> stage[r] \in {"answered", "cut"}

==============================================================================
