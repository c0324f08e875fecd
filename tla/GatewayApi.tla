------------------------------ MODULE GatewayApi ------------------------------
(***************************************************************************)
(* The payments API of the gateway (apps/api-gateway) in front of either   *)
(* store: who a call is made for, which record an id means to whom, what   *)
(* the treasury routes list and count, and which record a webhook changes, *)
(* with the notations of keys and amounts that it passes through.          *)
(*                                                                         *)
(* A call is one step here; what happens between the query that reads a    *)
(* record and the one that writes it is GatewaySync.  The bodies that zod  *)
(* refuses, and calls of the webhook without its secret, change nothing    *)
(* and are left out.                                                       *)
(***************************************************************************)
EXTENDS Integers, FiniteSets, SequencesExt

CONSTANTS
    Institutions,  \* those the store is started with
    Headers,       \* values of x-api-key
    KeyOf,         \* institution -> its API key
    NoInst,
    Byte, Base,    \* 256 values of a byte, 58 digits
    Stealths,      \* keys that may be derived, sequences of bytes
    Amounts,       \* key -> amounts that may be paid to it
    Words,         \* states that webhooks bring
    Exact,         \* JSON numbers: integers are exact up to 2^53
    DefaultCount, MaxLimit,   \* 200 and 500 records
    Limits,        \* values of Number(limit ?? 100)
    NaN,
    Life,          \* expire_seconds of the addresses
    Stores,        \* kinds of store
    MaxId,         \* bound: ids
    MaxTime,       \* bound: clock
    None

VARIABLES
    store,   \* the kind of store
    rows,    \* id -> record, None if there is none
    seq,     \* nextDepositSeq of the memory store
    now,     \* Date.now()
    paid,    \* stealth key -> amounts of the deposits made to it
    given,   \* history: stealth keys that addresses were given out for
    told     \* history: stealth keys whose record a webhook has been sent for

vars == <<store, rows, seq, now, paid, given, told>>

Ids == 1..MaxId
States == {"pending", "approved", "rejected", "released", "refunded", "expired"}
Record == [inst : Institutions, stealth : Stealths, created : 0..MaxTime, state : States,
           amount : Nat \cup {None}]
\* What the indexer, or who else knows the secret, posts.  The indexer writes base58.
Webhook == [stealth : Stealths, hex : BOOLEAN, amount : UNION {Amounts[s] : s \in Stealths}, state : Words]

ASSUME ApiAssumption ==
    /\ KeyOf \in [Institutions -> Headers]
    /\ \A i, j \in Institutions : KeyOf[i] = KeyOf[j] => i = j
    /\ NoInst \notin Institutions /\ None \notin Record \cup Nat \cup Seq(Ids)
    /\ Byte \in Nat \ {0, 1} /\ Base \in Nat \ {0, 1} /\ Exact \in Nat \ {0}
    /\ \A s \in Stealths : s \in Seq(0..Byte - 1)
    /\ Amounts \in [Stealths -> SUBSET Nat] /\ Words \subseteq States
    /\ DefaultCount \in Nat /\ MaxLimit \in Nat
    /\ Limits \ {NaN} \subseteq Int /\ NaN \notin Int
    /\ Stores \subseteq {"memory", "postgres"}
    /\ MaxId \in Nat /\ MaxTime \in Nat /\ Life \in Nat

------------------------------------------------------------------------------
(* Notations.                                                                *)

\* The number written as s in a base.
ValueOf(s, base) ==
    LET n[i \in 0..Len(s)] == IF i = 0 THEN 0 ELSE n[i - 1] * base + s[i]
    IN  n[Len(s)]

\* The shortest way to write a number: what is left of it after k divisions gives the
\* digit that is k places from the right.
Digits(n, base) ==
    LET left[k \in 0..n] == IF k = 0 THEN n ELSE left[k - 1] \div base
        len == CHOOSE k \in 0..n : left[k] = 0 /\ \A j \in 0..k - 1 : left[j] # 0
    IN  [j \in 1..len |-> left[len - j] % base]

LeadingZeros(s) == [i \in {n \in DOMAIN s : \A j \in 1..n : s[j] = 0} |-> 0]

\* Pubkey::to_string of the indexer.  The digit 0 is written "1".
Base58(key) == LeadingZeros(key) \o Digits(ValueOf(key, Byte), Base)

\* Mutant: the ones in front are taken for nothing.
Base58DecodeNoOnes(s) == Digits(ValueOf(s, Base), Byte)

Base58Decode(s) == LeadingZeros(s) \o Digits(ValueOf(s, Base), Byte)

Base58OrHex(w) == IF w.hex THEN w.stealth ELSE Base58Decode(Base58(w.stealth))

\* The double that is nearest to v, the one with an even mantissa if two are.
Double(v) ==
    LET power[k \in 0..v] == IF k = 0 THEN 1 ELSE 2 * power[k - 1]
        e == CHOOSE k \in 0..v : v < Exact * power[k] /\ \A j \in 0..k - 1 : v >= Exact * power[j]
        ulp == power[e]
        low == v \div ulp
        over == 2 * (v % ulp)
        up == over > ulp \/ (over = ulp /\ low % 2 = 1)
    IN  (IF up THEN low + 1 ELSE low) * ulp

\* Mutant: an integer of few bits.
AmountReadNarrow(v) == Double(v) % Exact

\* A u64 in the indexer, z.number() and then BigInt(..) here.
AmountRead(v) == Double(v)

------------------------------------------------------------------------------
(* Callers and their records.                                                *)

\* At most one.
FindByApiKey(k) == {i \in Institutions : KeyOf[i] = k}

\* Mutant: the institution is known by its key.
CallerByKey(k) == IF FindByApiKey(k) = {} THEN NoInst ELSE k

\* apiKeyAuth; NoInst is answered 401.
Caller(k) == IF FindByApiKey(k) = {} THEN NoInst ELSE CHOOSE i \in FindByApiKey(k) : TRUE

\* The record that an id means to a caller: without it the answer is 404.
Own(k, id) == Caller(k) # NoInst /\ rows[id] # None /\ rows[id].inst = Caller(k)

\* The ids of an institution's records.
Mine(i) == {id \in Ids : rows[id] # None /\ rows[id].inst = i}

\* Mutant: the oldest first.
OrdersAscending(i) ==
    {s \in SetToSeqs(Mine(i)) :
        \A j, k \in DOMAIN s : j < k => rows[s[j]].created <= rows[s[k]].created}

\* Orders in which listInstitutionDeposits may return them before it cuts: the sort of
\* the memory store keeps the order of insertion among equals, Postgres any.
Orders(i) ==
    {s \in SetToSeqs(Mine(i)) :
        \A j, k \in DOMAIN s : j < k =>
            /\ rows[s[j]].created >= rows[s[k]].created
            /\ store = "memory" /\ rows[s[j]].created = rows[s[k]].created => s[j] < s[k]}

\* slice(0, limit) in memory; LIMIT $2 fails on a number that is none or below 0.
Cut(s, limit) ==
    IF limit = NaN THEN IF store = "memory" THEN <<>> ELSE None
    ELSE IF limit >= 0 THEN SubSeq(s, 1, IF limit < Len(s) THEN limit ELSE Len(s))
    ELSE IF store = "memory" THEN SubSeq(s, 1, Len(s) + limit)
    ELSE None

\* GET /v1/treasury/deposits/list of records in that order; None for a failure.
ListLimit(q) == IF q = NaN THEN NaN ELSE IF q < MaxLimit THEN q ELSE MaxLimit
Listed(s, q) == Cut(s, ListLimit(q))

\* GET /v1/treasury/deposits: of the newest records only.
Counts(s) ==
    LET l == Cut(s, DefaultCount)
    IN  [total |-> Len(l),
         by_state |-> [st \in States |-> Cardinality({j \in DOMAIN l : rows[l[j]].state = st})]]

------------------------------------------------------------------------------
(* Calls.                                                                    *)

\* Ids of the memory store count from 1 again after a start; those of Postgres are the
\* clock and a random number, and the primary key refuses one that is taken.
NewIds == IF store = "memory" THEN {seq} \cap Ids ELSE {id \in Ids : rows[id] = None}

\* POST /v1/receiving-address, with createDeposit: a key that never was issued.
ReceivingAddress(k, s, id) ==
    /\ Caller(k) # NoInst
    /\ s \notin given
    /\ id \in NewIds
    /\ rows' = [rows EXCEPT ![id] = [inst |-> Caller(k), stealth |-> s, created |-> now,
                                     state |-> "pending", amount |-> None]]
    /\ seq' = IF store = "memory" THEN seq + 1 ELSE seq
    /\ given' = given \cup {s}
    /\ UNCHANGED <<store, now, paid, told>>

Release(k, id) ==
    /\ Own(k, id) /\ rows[id].state = "approved"
    /\ rows' = [rows EXCEPT ![id].state = "released"]
    /\ UNCHANGED <<store, seq, now, paid, given, told>>

Refund(k, id) ==
    /\ Own(k, id)
    /\ \/ rows[id].state \in {"rejected", "expired"}
       \/ rows[id].state = "pending" /\ now >= rows[id].created + Life
    /\ rows' = [rows EXCEPT ![id].state = "refunded"]
    /\ UNCHANGED <<store, seq, now, paid, given, told>>

\* POST /v1/internal/deposit-detected, with applyOnChainMatch.
DepositDetected(w) ==
    /\ w.amount \in paid[w.stealth]
    /\ LET key == Base58OrHex(w) IN
       rows' = [id \in Ids |->
           IF rows[id] # None /\ rows[id].stealth = key
           THEN [rows[id] EXCEPT !.amount = AmountRead(w.amount),
                                 !.state = IF w.state = "pending" THEN @ ELSE w.state]
           ELSE rows[id]]
    /\ told' = told \cup {rows[id].stealth : id \in {e \in Ids :
                             rows[e] # None /\ rows[e].stealth = w.stealth}}
    /\ UNCHANGED <<store, seq, now, paid, given>>

\* Several deposits may be made to an address that has been given out.
Pay(s, a) ==
    /\ s \in given
    /\ paid' = [paid EXCEPT ![s] = @ \cup {a}]
    /\ UNCHANGED <<store, rows, seq, now, given, told>>

Tick ==
    /\ now < MaxTime /\ now' = now + 1
    /\ UNCHANGED <<store, rows, seq, paid, given, told>>

\* createStore: a new memory store has the institutions and nothing else; Postgres keeps
\* its tables, and the migration and putInstitution leave the deposits alone.
Restart ==
    /\ IF store = "memory" THEN rows' = [id \in Ids |-> None] /\ seq' = 1 /\ told' = {}
       ELSE UNCHANGED <<rows, seq, told>>
    /\ UNCHANGED <<store, now, paid, given>>

------------------------------------------------------------------------------

Init ==
    /\ store \in Stores
    /\ rows = [id \in Ids |-> None] /\ seq = 1 /\ now = 0
    /\ paid = [s \in Stealths |-> {}]
    /\ given = {} /\ told = {}

Call(k) ==
    \/ \E s \in Stealths, id \in Ids : ReceivingAddress(k, s, id)
    \/ \E id \in Ids : Release(k, id) \/ Refund(k, id)

Next ==
    \/ \E k \in Headers : Call(k)
    \/ \E w \in Webhook : DepositDetected(w)
    \/ \E s \in Stealths : \E a \in Amounts[s] : Pay(s, a)
    \/ Tick \/ Restart

Spec == Init /\ [][Next]_vars

------------------------------------------------------------------------------
(* Properties.                                                               *)

\* Types of the store's state.
TypeOK ==
    /\ store \in Stores
    /\ rows \in [Ids -> Record \cup {None}]
    /\ seq \in 1..MaxId + 1 /\ now \in 0..MaxTime
    /\ paid \in [Stealths -> SUBSET Nat]
    /\ given \subseteq Stealths /\ told \subseteq Stealths

\* A list names records of the caller, each once, and none that is left out is newer.  Asked
\* for q of n records, q not below 0, it has min(q, MaxLimit, n) of them.  What a limit below
\* 0 does is DocTreasuryRoutes's subject (routes.ts:159-181, memory.ts:86-94, postgres.ts:197-206).
ListNewest ==
    \A i \in Institutions : \A s \in Orders(i) : \A q \in Limits :
        LET l == Listed(s, q)
            n == Cardinality(Mine(i))
        IN
        /\ l # None =>
              /\ ToSet(l) \subseteq Mine(i) /\ \A j, k \in DOMAIN l : l[j] = l[k] => j = k
              /\ \A id \in ToSet(l), e \in Mine(i) \ ToSet(l) : rows[id].created >= rows[e].created
        /\ q \in Nat =>
              /\ l # None /\ Len(l) \in {q, MaxLimit, n}
              /\ Len(l) <= q /\ Len(l) <= MaxLimit /\ Len(l) <= n

\* The amount in a record is that of a deposit made to its own address, to a relative
\* error of 1/Exact: exact up to 2^53 (routes.ts:190, 215).
AmountsNear ==
    \A id \in Ids : rows[id] # None /\ rows[id].amount # None =>
        \E a \in paid[rows[id].stealth] :
            LET off == IF a > rows[id].amount THEN a - rows[id].amount ELSE rows[id].amount - a
            IN  off * Exact <= a

\* A webhook reaches the record of its key, in either notation of the key, and no other
\* (routes.ts:231-257).
WebhookHits ==
    \A id \in Ids : rows[id] # None => (rows[id].amount # None <=> rows[id].stealth \in told)

==============================================================================
