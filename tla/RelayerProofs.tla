---------------------------- MODULE RelayerProofs ----------------------------
(***************************************************************************)
(* Theorems about Relayer: any institutions, policies, transactions,       *)
(* requests and workers, and any number of restarts.                       *)
(***************************************************************************)
EXTENDS Relayer, FiniteSetTheorems, TLAPS

------------------------------------------------------------------------------
(* The bucket.                                                               *)

LEMMA RegisteredType ==
    ASSUME NEW p \in Policy, NEW t \in Nat
    PROVE  Registered(p, t) \in InstitutionPolicy
  BY DEF Policy, Registered, InstitutionPolicy

LEMMA PolicyFields ==
    ASSUME NEW p \in InstitutionPolicy
    PROVE  /\ p.registered = TRUE /\ p.suspended \in BOOLEAN
           /\ p.capacity \in Nat /\ p.fee \in Nat /\ p.cap \in Nat \cup {NoCap}
           /\ p.tokens \in Nat /\ p.last_refill \in Nat
  BY DEF InstitutionPolicy

\* Setting the tokens of a bucket, and its time, changes nothing else.
LEMMA SetTokens ==
    ASSUME NEW p \in InstitutionPolicy, NEW n \in Nat
    PROVE  LET q == [p EXCEPT !.tokens = n] IN
           /\ q \in InstitutionPolicy
           /\ q.tokens = n /\ q.last_refill = p.last_refill
           /\ q.capacity = p.capacity /\ q.cap = p.cap
  BY Zenon DEF InstitutionPolicy

LEMMA SetRefill ==
    ASSUME NEW p \in InstitutionPolicy, NEW t \in Nat
    PROVE  LET q == [p EXCEPT !.last_refill = t] IN
           /\ q \in InstitutionPolicy
           /\ q.tokens = p.tokens /\ q.last_refill = t
           /\ q.capacity = p.capacity /\ q.cap = p.cap
  BY Zenon DEF InstitutionPolicy

\* Refilling keeps the policy a policy, changes nothing but the bucket and leaves it
\* with what it held and the time has added, at most its capacity.
LEMMA RefilledFacts ==
    ASSUME NEW p \in InstitutionPolicy, NEW t \in Nat, p.tokens <= p.capacity,
           p.last_refill <= t
    PROVE  /\ Refilled(p, t) \in InstitutionPolicy
           /\ Refilled(p, t).capacity = p.capacity /\ Refilled(p, t).cap = p.cap
           /\ Refilled(p, t).last_refill = t
           /\ Refilled(p, t).tokens <= p.capacity
           /\ Refilled(p, t).tokens <= p.tokens + (t - p.last_refill)
<1> SUFFICES ASSUME NEW q, q = Refilled(p, t)
             PROVE  /\ q \in InstitutionPolicy
                    /\ q.capacity = p.capacity /\ q.cap = p.cap
                    /\ q.last_refill = t
                    /\ q.tokens <= p.capacity
                    /\ q.tokens <= p.tokens + (t - p.last_refill)
  BY Zenon
<1>1. p.tokens \in Nat /\ p.capacity \in Nat /\ p.last_refill \in Nat
  BY PolicyFields
<1>2. CASE t <= p.last_refill
  <2>1. q = p
    BY <1>2 DEF Refilled
  <2> QED BY <1>1, <1>2, <2>1
<1>3. CASE ~ (t <= p.last_refill)
  <2> DEFINE filled == p.tokens + (t - p.last_refill)
             tokens == IF filled > p.capacity THEN p.capacity ELSE filled
             topped == [p EXCEPT !.tokens = tokens]
  <2>1. q = [topped EXCEPT !.last_refill = t]
    BY <1>3, Zenon DEF Refilled
  <2>2. tokens \in Nat /\ tokens <= p.capacity /\ tokens <= filled
    BY <1>1, <1>3
  <2>3. /\ topped \in InstitutionPolicy /\ topped.tokens = tokens
        /\ topped.capacity = p.capacity /\ topped.cap = p.cap
    <3> HIDE DEF tokens
    <3> QED BY <2>2, SetTokens
  <2>4. /\ q \in InstitutionPolicy /\ q.tokens = tokens /\ q.last_refill = t
        /\ q.capacity = p.capacity /\ q.cap = p.cap
    <3> HIDE DEF topped, tokens
    <3> QED BY <2>1, <2>3, SetRefill
  <2> HIDE DEF topped, tokens
  <2> QED BY <1>1, <1>3, <2>2, <2>4
<1> QED BY <1>2, <1>3

LEMMA AccrueType ==
    ASSUME NEW l \in [accrued : Nat, tx_count : Nat], NEW fee \in Nat
    PROVE  Accrue(l, fee) \in [accrued : Nat, tx_count : Nat]
  BY NumberAssumption DEF Accrue, SaturatingAdd

\* The window bound of a bucket as of its last refill, which no admission precedes.
Bucket(p, taken, n) ==
    p.registered =>
        /\ p.tokens <= p.capacity /\ p.last_refill <= n
        /\ \A t \in Times :
             IF t <= p.last_refill
             THEN taken[t] + p.tokens <= p.capacity + (p.last_refill - t)
             ELSE taken[t] = 0

NoneTaken == [t \in Times |-> 0]

LEMMA FreshBucket ==
    ASSUME NEW p \in Policy, NEW n \in Times
    PROVE  /\ Registered(p, n) \in InstitutionPolicy
           /\ Bucket(Registered(p, n), NoneTaken, n)
<1>1. Registered(p, n) \in InstitutionPolicy /\ p.capacity \in Nat /\ n \in Nat
  BY RegisteredType, NumberAssumption DEF Policy, Times
<1>2. /\ Registered(p, n).tokens = p.capacity /\ Registered(p, n).capacity = p.capacity
      /\ Registered(p, n).last_refill = n
  BY DEF Registered
<1>3. \A t \in Times : NoneTaken[t] = 0 /\ t \in Nat
  BY NumberAssumption DEF NoneTaken, Times
<1> QED BY <1>1, <1>2, <1>3 DEF Bucket

LEMMA RefilledBucket ==
    ASSUME NEW p \in InstitutionPolicy, NEW n \in Times, NEW taken \in [Times -> Nat],
           p.registered, Bucket(p, taken, n)
    PROVE  /\ Refilled(p, n) \in InstitutionPolicy
           /\ Refilled(p, n).last_refill = n
           /\ Bucket(Refilled(p, n), taken, n)
<1> SUFFICES ASSUME NEW q, q = Refilled(p, n)
             PROVE  q \in InstitutionPolicy /\ q.last_refill = n /\ Bucket(q, taken, n)
  BY Zenon
<1>1. /\ p.registered /\ p.tokens \in Nat /\ p.capacity \in Nat /\ p.last_refill \in Nat
      /\ p.tokens <= p.capacity /\ p.last_refill <= n
  BY PolicyFields DEF Bucket
<1>2. n \in Nat /\ \A t \in Times : t \in Nat /\ taken[t] \in Nat
  BY NumberAssumption DEF Times
<1>3. /\ q \in InstitutionPolicy /\ q.last_refill = n
      /\ q.capacity = p.capacity /\ q.cap = p.cap
      /\ q.tokens <= q.capacity
      /\ q.tokens <= p.tokens + (n - p.last_refill)
  <2>1. n \in Nat
    BY <1>2
  <2>2. /\ Refilled(p, n) \in InstitutionPolicy
        /\ Refilled(p, n).capacity = p.capacity /\ Refilled(p, n).cap = p.cap
        /\ Refilled(p, n).last_refill = n
        /\ Refilled(p, n).tokens <= p.capacity
        /\ Refilled(p, n).tokens <= p.tokens + (n - p.last_refill)
    BY <1>1, <2>1, RefilledFacts
  <2> QED BY <2>2
<1>4. q.tokens \in Nat
  BY <1>3, PolicyFields
<1>5. ASSUME NEW t \in Times
      PROVE  IF t <= n THEN taken[t] + q.tokens <= q.capacity + (n - t) ELSE taken[t] = 0
  <2>1. IF t <= p.last_refill
        THEN taken[t] + p.tokens <= p.capacity + (p.last_refill - t) ELSE taken[t] = 0
    BY <1>1 DEF Bucket
  <2> QED BY <1>1, <1>2, <1>3, <1>4, <2>1
<1> QED BY <1>2, <1>3, <1>5 DEF Bucket

\* What an admission leaves in the bucket, and the windows it counts in.
Left(q) == [q EXCEPT !.tokens = @ - TokenTicks]
More(taken, n) == [t \in Times |-> IF t <= n THEN taken[t] + TokenTicks ELSE taken[t]]

LEMMA TakenBucket ==
    ASSUME NEW q \in InstitutionPolicy, NEW n \in Times, NEW taken \in [Times -> Nat],
           Bucket(q, taken, n), q.last_refill = n, HasToken(q),
           NEW left, left = Left(q), NEW more, more = More(taken, n)
    PROVE  left \in InstitutionPolicy /\ more \in [Times -> Nat] /\ Bucket(left, more, n)
<1>1. /\ q.registered /\ q.tokens \in Nat /\ q.capacity \in Nat
      /\ q.tokens <= q.capacity /\ q.tokens >= TokenTicks /\ TokenTicks \in Nat
  BY PolicyFields, NumberAssumption DEF Bucket, HasToken
<1>2. q.tokens - TokenTicks \in Nat
  BY <1>1
<1>3. /\ left \in InstitutionPolicy /\ left.last_refill = n
      /\ left.capacity = q.capacity /\ left.tokens = q.tokens - TokenTicks
  <2>1. left = [q EXCEPT !.tokens = q.tokens - TokenTicks]
    BY DEF Left
  <2> QED BY <1>2, <2>1, SetTokens
<1>4. n \in Nat /\ \A t \in Times : t \in Nat /\ taken[t] \in Nat
  BY NumberAssumption DEF Times
<1>5. more \in [Times -> Nat]
  BY <1>1, <1>4 DEF More
<1>6. ASSUME NEW t \in Times
      PROVE  IF t <= n THEN more[t] + left.tokens <= q.capacity + (n - t) ELSE more[t] = 0
  <2>1. IF t <= n THEN taken[t] + q.tokens <= q.capacity + (n - t) ELSE taken[t] = 0
    BY <1>1 DEF Bucket
  <2>2. more[t] = IF t <= n THEN taken[t] + TokenTicks ELSE taken[t]
    BY DEF More
  <2> QED BY <1>1, <1>3, <1>4, <2>1, <2>2
<1> QED BY <1>1, <1>3, <1>4, <1>5, <1>6 DEF Bucket

LEMMA LaterBucket ==
    ASSUME NEW p \in InstitutionPolicy \cup {NoPolicy}, NEW n \in Nat, NEW taken,
           Bucket(p, taken, n)
    PROVE  Bucket(p, taken, n + 1)
<1>1. CASE p.registered
  <2>1. p \in InstitutionPolicy
    BY <1>1 DEF NoPolicy
  <2>2. p.last_refill \in Nat
    BY <2>1, PolicyFields
  <2>3. p.last_refill <= n + 1
    BY <1>1, <2>2 DEF Bucket
  <2> QED BY <1>1, <2>3 DEF Bucket
<1>2. CASE ~ p.registered
  BY <1>2 DEF Bucket
<1> QED BY <1>1, <1>2

------------------------------------------------------------------------------
(* Types and buckets.                                                        *)

BucketInv == \A i \in Institutions : Bucket(policies[i], spent[i], now)

TypeInv == TypeOK /\ BucketInv

LEMMA PolicyAt ==
    ASSUME TypeInv, NEW i \in Institutions, policies[i].registered
    PROVE  /\ policies[i] \in InstitutionPolicy
           /\ spent[i] \in [Times -> Nat]
           /\ Bucket(policies[i], spent[i], now)
  BY DEF TypeInv, TypeOK, BucketInv, NoPolicy

\* What main() registers is a full bucket.
LEMMA StartBuckets ==
    ASSUME NEW n \in Times, NEW i \in Institutions,
           NEW p, p = IF StartPolicies[i] = NoPolicy THEN NoPolicy
                      ELSE Registered(StartPolicies[i], n)
    PROVE  p \in InstitutionPolicy \cup {NoPolicy} /\ Bucket(p, NoneTaken, n)
<1>1. CASE StartPolicies[i] = NoPolicy
  BY <1>1 DEF NoPolicy, Bucket
<1>2. CASE StartPolicies[i] # NoPolicy
  <2>1. StartPolicies[i] \in Policy
    BY <1>2, PolicyAssumption
  <2> QED BY <1>2, <2>1, FreshBucket
<1> QED BY <1>1, <1>2

\* A step that touches one policy, and the windows of the same institution.
LEMMA OneBucket ==
    ASSUME TypeInv, NEW i \in Institutions, NEW p \in InstitutionPolicy,
           NEW taken \in [Times -> Nat], Bucket(p, taken, now),
           policies' = [policies EXCEPT ![i] = p], spent' = [spent EXCEPT ![i] = taken],
           now' = now
    PROVE  /\ policies' \in [Institutions -> InstitutionPolicy \cup {NoPolicy}]
           /\ spent' \in [Institutions -> [Times -> Nat]]
           /\ BucketInv'
<1>1. /\ policies \in [Institutions -> InstitutionPolicy \cup {NoPolicy}]
      /\ spent \in [Institutions -> [Times -> Nat]]
  BY DEF TypeInv, TypeOK
<1>2. ASSUME NEW j \in Institutions
      PROVE  Bucket(policies'[j], spent'[j], now)
  <2>1. CASE j = i
    <3>1. policies'[j] = p /\ spent'[j] = taken
      BY <1>1, <2>1
    <3> QED BY <3>1
  <2>2. CASE j # i
    <3>1. policies'[j] = policies[j] /\ spent'[j] = spent[j]
      BY <1>1, <2>2
    <3> QED BY <3>1 DEF TypeInv, BucketInv
  <2> QED BY <2>1, <2>2
<1> QED BY <1>1, <1>2 DEF BucketInv, Bucket

LEMMA InitType == Init => TypeInv
<1> SUFFICES ASSUME Init PROVE TypeInv
  OBVIOUS
<1>1. 0 \in Times
  BY NumberAssumption DEF Times
<1>2. \A i \in Institutions :
        /\ policies[i] \in InstitutionPolicy \cup {NoPolicy}
        /\ Bucket(policies[i], spent[i], now)
  BY <1>1, StartBuckets DEF Init, NoneTaken
<1>3. policies \in [Institutions -> InstitutionPolicy \cup {NoPolicy}]
  BY <1>2 DEF Init
<1>4. TypeOK
  BY <1>1, <1>3 DEF Init, TypeOK, EmptyLedger, Stages
<1> QED BY <1>2, <1>4 DEF TypeInv, BucketInv
\* Answering a request touches nothing but its stage and reply.
LEMMA AnswerType ==
    ASSUME TypeOK, NEW r \in Requests, NEW outcome \in Outcomes, Answer(r, outcome)
    PROVE  /\ stage' \in [Requests -> Stages] /\ txOf' \in [Requests -> Txs]
           /\ reply' \in [Requests -> Outcomes \cup {"none"}]
  BY DEF Answer, TypeOK, Stages

LEMMA RegisterType ==
    ASSUME TypeInv, NEW i \in Institutions, NEW p \in Policies, Register(i, p)
    PROVE  TypeInv'
<1>1. now \in Times /\ p \in Policy
  BY PolicyAssumption DEF TypeInv, TypeOK
<1>2. Registered(p, now) \in InstitutionPolicy /\ Bucket(Registered(p, now), NoneTaken, now)
  BY <1>1, FreshBucket
<1>3. NoneTaken \in [Times -> Nat]
  BY DEF NoneTaken
<1>4. /\ policies' = [policies EXCEPT ![i] = Registered(p, now)]
      /\ spent' = [spent EXCEPT ![i] = NoneTaken]
  BY DEF Register, NoneTaken
<1>5. /\ policies' \in [Institutions -> InstitutionPolicy \cup {NoPolicy}]
      /\ spent' \in [Institutions -> [Times -> Nat]]
      /\ BucketInv'
  BY <1>2, <1>3, <1>4, OneBucket DEF Register
<1> QED
  BY <1>5 DEF Register, TypeInv, TypeOK

LEMMA SuspendType ==
    ASSUME TypeInv, NEW i \in Institutions, Suspend(i)
    PROVE  TypeInv'
<1> DEFINE p == policies[i]
           q == [p EXCEPT !.suspended = TRUE]
<1>1. p \in InstitutionPolicy /\ spent[i] \in [Times -> Nat] /\ Bucket(p, spent[i], now)
  BY PolicyAt DEF Suspend
<1>2. /\ q \in InstitutionPolicy
      /\ q.registered = p.registered /\ q.tokens = p.tokens
      /\ q.last_refill = p.last_refill /\ q.capacity = p.capacity
  <2> HIDE DEF p
  <2> QED BY <1>1, Zenon DEF InstitutionPolicy
<1>3. Bucket(q, spent[i], now)
  <2> HIDE DEF p, q
  <2> QED BY <1>1, <1>2 DEF Bucket
<1>4. policies' = [policies EXCEPT ![i] = q] /\ spent' = [spent EXCEPT ![i] = spent[i]]
  BY DEF Suspend, history, TypeInv, TypeOK
<1>5. /\ policies' \in [Institutions -> InstitutionPolicy \cup {NoPolicy}]
      /\ spent' \in [Institutions -> [Times -> Nat]]
      /\ BucketInv'
  <2> HIDE DEF q
  <2> QED BY <1>1, <1>2, <1>3, <1>4, OneBucket DEF Suspend
<1> QED
  BY <1>5 DEF Suspend, TypeInv, TypeOK, history

LEMMA RefuseType ==
    ASSUME TypeInv, NEW r \in Requests, Refuse(r)
    PROVE  TypeInv'
<1> DEFINE i == InstOf[txOf[r]]
           q == Refilled(policies[i], now)
<1>1. i \in Institutions
  BY RequestAssumption DEF TypeInv, TypeOK
<1>2. PICK outcome \in Outcomes : Answer(r, outcome)
  BY DEF Refuse, Outcomes
<1>3. /\ policies' \in [Institutions -> InstitutionPolicy \cup {NoPolicy}]
      /\ spent' \in [Institutions -> [Times -> Nat]]
      /\ BucketInv'
  <2>1. CASE UNCHANGED policies
    BY <2>1 DEF Refuse, history, TypeInv, TypeOK, BucketInv, Bucket
  <2>2. CASE policies[i].registered /\ policies' = [policies EXCEPT ![i] = q]
    <3>1. /\ policies[i] \in InstitutionPolicy /\ spent[i] \in [Times -> Nat]
          /\ Bucket(policies[i], spent[i], now)
      BY <1>1, <2>2, PolicyAt
    <3>2. now \in Times
      BY DEF TypeInv, TypeOK
    <3>3. q \in InstitutionPolicy /\ Bucket(q, spent[i], now)
      BY <2>2, <3>1, <3>2, RefilledBucket
    <3>4. spent' = [spent EXCEPT ![i] = spent[i]] /\ now' = now
      BY DEF Refuse, history, TypeInv, TypeOK
    <3> HIDE DEF i, q
    <3> QED BY <1>1, <2>2, <3>1, <3>3, <3>4, OneBucket
  <2> QED BY <2>1, <2>2 DEF Refuse
<1>4. /\ stage' \in [Requests -> Stages] /\ txOf' \in [Requests -> Txs]
      /\ reply' \in [Requests -> Outcomes \cup {"none"}]
  BY <1>2, AnswerType DEF TypeInv
<1> QED
  BY <1>3, <1>4 DEF Refuse, TypeInv, TypeOK, history

LEMMA AdmitType ==
    ASSUME TypeInv, NEW r \in Requests, Admit(r)
    PROVE  TypeInv'
<1> DEFINE i == InstOf[txOf[r]]
           p == policies[i]
           q == Refilled(p, now)
<1>1. i \in Institutions /\ now \in Times
  BY RequestAssumption DEF TypeInv, TypeOK
<1>2. /\ p.registered /\ HasToken(q)
      /\ policies' = [policies EXCEPT ![i] = Left(q)]
      /\ ledgers' = [ledgers EXCEPT ![i] = Accrue(ledgers[i], p.fee)]
      /\ spent' = [spent EXCEPT ![i] = More(spent[i], now)]
      /\ period' = [period EXCEPT ![i] = period[i] + p.fee]
  BY Zenon DEF Admit, Left, More
<1>3. p \in InstitutionPolicy /\ spent[i] \in [Times -> Nat] /\ Bucket(p, spent[i], now)
  BY <1>1, <1>2, PolicyAt
<1>4. q \in InstitutionPolicy /\ q.last_refill = now /\ Bucket(q, spent[i], now)
  BY <1>1, <1>2, <1>3, RefilledBucket
<1>5. /\ Left(q) \in InstitutionPolicy /\ More(spent[i], now) \in [Times -> Nat]
      /\ Bucket(Left(q), More(spent[i], now), now)
  <2> HIDE DEF i, p, q
  <2> QED BY <1>1, <1>2, <1>3, <1>4, TakenBucket
<1>6. now' = now
  BY DEF Admit
<1>7. /\ policies' \in [Institutions -> InstitutionPolicy \cup {NoPolicy}]
      /\ spent' \in [Institutions -> [Times -> Nat]]
      /\ BucketInv'
  <2> HIDE DEF i, p, q
  <2> QED BY <1>1, <1>2, <1>5, <1>6, OneBucket
<1>8. ledgers' \in [Institutions -> [accrued : Nat, tx_count : Nat]]
      /\ period' \in [Institutions -> Nat]
  <2>1. p.fee \in Nat
    BY <1>3, PolicyFields
  <2>2. Accrue(ledgers[i], p.fee) \in [accrued : Nat, tx_count : Nat]
    BY <1>1, <2>1, AccrueType DEF TypeInv, TypeOK
  <2>3. period[i] + p.fee \in Nat
    BY <1>1, <2>1 DEF TypeInv, TypeOK
  <2> HIDE DEF i, p
  <2> QED BY <1>1, <1>2, <2>2, <2>3 DEF TypeInv, TypeOK
<1> QED
  BY <1>7, <1>8 DEF Admit, TypeInv, TypeOK, Stages

LEMMA RestartType ==
    ASSUME TypeInv, Restart
    PROVE  TypeInv'
<1>1. now \in Times
  BY DEF TypeInv, TypeOK
<1>2. \A i \in Institutions :
        /\ policies'[i] \in InstitutionPolicy \cup {NoPolicy}
        /\ spent'[i] = NoneTaken
        /\ Bucket(policies'[i], NoneTaken, now)
  BY <1>1, StartBuckets DEF Restart, NoneTaken
<1>3. policies' \in [Institutions -> InstitutionPolicy \cup {NoPolicy}]
  BY <1>2 DEF Restart
<1>4. BucketInv'
  BY <1>2 DEF BucketInv, Restart, Bucket
<1>5. stage' \in [Requests -> Stages]
  BY DEF Restart, TypeInv, TypeOK, Stages
<1> QED
  BY <1>3, <1>4, <1>5 DEF Restart, TypeInv, TypeOK, EmptyLedger

LEMMA TickType ==
    ASSUME TypeInv, Tick
    PROVE  TypeInv'
<1>1. now' \in Times /\ now \in Nat /\ now' = now + 1
  BY NumberAssumption DEF Tick, TypeInv, TypeOK, Times
<1>2. \A i \in Institutions : Bucket(policies[i], spent[i], now + 1)
  <2>1. \A i \in Institutions : policies[i] \in InstitutionPolicy \cup {NoPolicy}
                                /\ Bucket(policies[i], spent[i], now)
    BY DEF TypeInv, TypeOK, BucketInv
  <2> QED BY <1>1, <2>1, LaterBucket
<1>3. BucketInv'
  BY <1>1, <1>2 DEF BucketInv, Tick, service, Bucket
<1> QED
  BY <1>1, <1>3 DEF Tick, TypeInv, TypeOK, service
\* A step that leaves policies, windows and clock alone leaves the buckets alone.
LEMMA SameBuckets ==
    ASSUME TypeInv, UNCHANGED <<policies, spent, now>>
    PROVE  BucketInv'
  BY DEF TypeInv, BucketInv, Bucket

\* The rest of the handler, the client and the cluster.
LEMMA OtherType ==
    ASSUME TypeInv,
           \/ \E r \in Requests : Receive(r) \/ Reject(r) \/ Send(r) \/ Finish(r)
           \/ \E t \in Txs : Land(t) \/ Drop(t)
           \/ UNCHANGED vars
    PROVE  TypeInv'
<1>1. BucketInv'
  <2>1. UNCHANGED <<policies, spent, now>>
    BY DEF Receive, Reject, Send, Finish, Land, Drop, service, history, vars
  <2> QED BY <2>1, SameBuckets
<1>2. ASSUME NEW r \in Requests, Receive(r) \/ Send(r) PROVE TypeOK'
  BY <1>2 DEF Receive, Send, TypeInv, TypeOK, Stages, history
<1>3. ASSUME NEW r \in Requests, Reject(r) \/ Finish(r) PROVE TypeOK'
  <2>1. PICK outcome \in Outcomes : Answer(r, outcome)
    BY <1>3 DEF Reject, Finish, Confirm, GiveUp, Outcomes
  <2>2. /\ stage' \in [Requests -> Stages] /\ txOf' \in [Requests -> Txs]
        /\ reply' \in [Requests -> Outcomes \cup {"none"}]
    BY <2>1, AnswerType DEF TypeInv
  <2> QED
    BY <1>3, <2>2 DEF Reject, Finish, TypeInv, TypeOK, history
<1>4. ASSUME NEW t \in Txs, Land(t) \/ Drop(t) PROVE TypeOK'
  BY <1>4 DEF Land, Drop, TypeInv, TypeOK, service, history
<1>5. ASSUME UNCHANGED vars PROVE TypeOK'
  BY <1>5 DEF vars, service, history, TypeInv, TypeOK
<1> QED
  BY <1>1, <1>2, <1>3, <1>4, <1>5 DEF TypeInv

LEMMA StepType == TypeInv /\ [Next]_vars => TypeInv'
<1> SUFFICES ASSUME TypeInv, [Next]_vars PROVE TypeInv'
  OBVIOUS
<1> QED
  BY RegisterType, SuspendType, RefuseType, AdmitType, RestartType, TickType, OtherType
  DEF Next, Handler

LEMMA TypeAndBuckets == Spec => []TypeInv
  BY InitType, StepType, PTL DEF Spec

\* The relayer's tables keep their types.
THEOREM TypeCorrect == Spec => []TypeOK
  BY TypeAndBuckets, PTL DEF TypeInv

\* Over every window that ends now an institution was admitted no more often than a full
\* bucket and the window's refill allow.
THEOREM RateBounded == Spec => []RateBound
<1>1. TypeInv => RateBound
  <2> SUFFICES ASSUME TypeInv, NEW i \in Institutions, policies[i].registered,
                      NEW t \in 0..now
               PROVE  spent[i][t] <= policies[i].capacity + (now - t)
    BY DEF RateBound
  <2> DEFINE p == policies[i]
  <2>1. p \in InstitutionPolicy /\ spent[i] \in [Times -> Nat] /\ Bucket(p, spent[i], now)
    BY PolicyAt
  <2>2. now \in Nat /\ t \in Times /\ t \in Nat /\ t <= now
    BY NumberAssumption DEF TypeInv, TypeOK, Times
  <2>3. /\ p.tokens \in Nat /\ p.capacity \in Nat /\ p.last_refill \in Nat
        /\ p.last_refill <= now /\ spent[i][t] \in Nat
    BY <2>1, <2>2, PolicyFields DEF Bucket
  <2>4. IF t <= p.last_refill
        THEN spent[i][t] + p.tokens <= p.capacity + (p.last_refill - t)
        ELSE spent[i][t] = 0
    BY <2>1, <2>2 DEF Bucket
  <2> QED BY <2>2, <2>3, <2>4
<1> QED
  BY <1>1, TypeAndBuckets, PTL

\* No admission takes an institution's bill past its cap.
THEOREM BilledInCap == Spec => BilledWithinCap
<1>1. TypeInv /\ [Next]_vars =>
        [\A i \in Institutions :
           ledgers'[i].accrued > ledgers[i].accrued /\ policies[i].cap # NoCap
             => ledgers'[i].accrued <= policies[i].cap]_vars
  <2> SUFFICES ASSUME TypeInv, Next, NEW i \in Institutions,
                      ledgers'[i].accrued > ledgers[i].accrued, policies[i].cap # NoCap
               PROVE  ledgers'[i].accrued <= policies[i].cap
    OBVIOUS
  <2>1. ledgers[i].accrued \in Nat
    BY DEF TypeInv, TypeOK
  <2>2. CASE ledgers' = ledgers
    BY <2>1, <2>2
  <2>3. CASE Restart
    <3>1. ledgers'[i].accrued = 0
      BY <2>3 DEF Restart, EmptyLedger
    <3> QED BY <2>1, <3>1
  <2>4. ASSUME NEW r \in Requests, Admit(r)
        PROVE  ledgers'[i].accrued <= policies[i].cap
    <3> DEFINE j == InstOf[txOf[r]]
    <3>1. CASE j = i
      <4>1. /\ policies[i].registered /\ ~ CapExceeded(policies[i], ledgers[i])
            /\ ledgers' = [ledgers EXCEPT ![i] = Accrue(ledgers[i], policies[i].fee)]
        BY <2>4, <3>1 DEF Admit
      <4>2. ledgers'[i].accrued = SaturatingAdd(ledgers[i].accrued, policies[i].fee)
        BY <4>1 DEF Accrue, TypeInv, TypeOK
      <4>3. policies[i] \in InstitutionPolicy
        BY <4>1, PolicyAt
      <4>4. policies[i].fee \in Nat /\ policies[i].cap \in Nat
        BY <4>3, PolicyFields
      <4>5. SaturatingAdd(ledgers[i].accrued, policies[i].fee) \in Nat
        BY <2>1, <4>4, NumberAssumption DEF SaturatingAdd
      <4> QED BY <4>1, <4>2, <4>4, <4>5 DEF CapExceeded
    <3>2. CASE j # i
      <4>1. ledgers'[i] = ledgers[i]
        BY <2>4, <3>2 DEF Admit, TypeInv, TypeOK
      <4> QED BY <2>1, <4>1
    <3> QED BY <3>1, <3>2
  <2> QED
    BY <2>2, <2>3, <2>4 DEF Next, Handler, Receive, Refuse, Reject, Send, Finish, Suspend,
                            Register, Land, Drop, Tick, service
<1> QED
  BY <1>1, TypeAndBuckets, PTL DEF Spec, BilledWithinCap

------------------------------------------------------------------------------
(* Billing.  A transaction that this process sent, or is about to send, was  *)
(* counted in its institution's ledger.                                      *)

Sent(i) == {t \in (pool \cup landed) \ earlier : InstOf[t] = i}
Held(i) == {r \in Requests : stage[r] = "admitted" /\ InstOf[txOf[r]] = i}

Counted(n, sent, held) == n = MaxU64 \/ Cardinality(sent) + Cardinality(held) <= n

BilledInv == \A i \in Institutions : Counted(ledgers[i].tx_count, Sent(i), Held(i))

LEMMA FiniteSent ==
    ASSUME TypeOK, NEW i
    PROVE  /\ Sent(i) \subseteq Txs /\ Held(i) \subseteq Requests
           /\ IsFiniteSet(Sent(i)) /\ IsFiniteSet(Held(i))
<1>1. Sent(i) \subseteq Txs /\ Held(i) \subseteq Requests
  BY DEF TypeOK, Sent, Held
<1> QED
  BY <1>1, CountAssumption, FS_Subset

\* Fewer transactions and requests are counted as well.
LEMMA CountedFewer ==
    ASSUME NEW n \in Nat, NEW sent, NEW held, IsFiniteSet(sent), IsFiniteSet(held),
           NEW s \in SUBSET sent, NEW h \in SUBSET held,
           Counted(n, sent, held)
    PROVE  Counted(n, s, h)
<1>1. Cardinality(s) <= Cardinality(sent) /\ Cardinality(h) <= Cardinality(held)
  BY FS_Subset
<1>2. /\ Cardinality(s) \in Nat /\ Cardinality(sent) \in Nat
      /\ Cardinality(h) \in Nat /\ Cardinality(held) \in Nat
  BY FS_Subset, FS_CardinalityType
<1> QED
  BY <1>1, <1>2 DEF Counted

\* An admission counts the request it admits.
LEMMA CountedAdmitted ==
    ASSUME NEW n \in Nat, NEW sent, NEW held, IsFiniteSet(sent), IsFiniteSet(held),
           NEW r, Counted(n, sent, held)
    PROVE  Counted(SaturatingAdd(n, 1), sent, held \cup {r})
<1>1. Cardinality(held \cup {r}) <= Cardinality(held) + 1
      /\ Cardinality(held \cup {r}) \in Nat
  <2>1. /\ IsFiniteSet(held \cup {r})
        /\ Cardinality(held \cup {r}) =
             IF r \in held THEN Cardinality(held) ELSE Cardinality(held) + 1
    BY FS_AddElement
  <2>2. Cardinality(held) \in Nat
    BY FS_CardinalityType
  <2> QED BY <2>1, <2>2
<1>2. Cardinality(sent) \in Nat /\ Cardinality(held) \in Nat
  BY FS_CardinalityType
<1> QED
  BY <1>1, <1>2, NumberAssumption DEF Counted, SaturatingAdd

\* A request that is sent makes room for its transaction.
LEMMA CountedSent ==
    ASSUME NEW n \in Nat, NEW sent, NEW held, IsFiniteSet(sent), IsFiniteSet(held),
           NEW r \in held, NEW t, Counted(n, sent, held)
    PROVE  Counted(n, sent \cup {t}, held \ {r})
<1>1. Cardinality(held \ {r}) = Cardinality(held) - 1 /\ Cardinality(held \ {r}) \in Nat
  BY FS_RemoveElement, FS_CardinalityType
<1>2. Cardinality(sent \cup {t}) <= Cardinality(sent) + 1
      /\ Cardinality(sent \cup {t}) \in Nat
  <2>1. /\ IsFiniteSet(sent \cup {t})
        /\ Cardinality(sent \cup {t}) =
             IF t \in sent THEN Cardinality(sent) ELSE Cardinality(sent) + 1
    BY FS_AddElement
  <2>2. Cardinality(sent) \in Nat
    BY FS_CardinalityType
  <2> QED BY <2>1, <2>2
<1>3. Cardinality(sent) \in Nat /\ Cardinality(held) \in Nat
  BY FS_CardinalityType
<1> QED
  BY <1>1, <1>2, <1>3 DEF Counted

LEMMA InitBilled == Init => BilledInv
<1> SUFFICES ASSUME Init, NEW i \in Institutions
             PROVE  Counted(ledgers[i].tx_count, Sent(i), Held(i))
  BY DEF BilledInv
<1>1. Sent(i) = {} /\ Held(i) = {} /\ ledgers[i].tx_count = 0
  BY DEF Init, Sent, Held, EmptyLedger
<1> QED
  BY <1>1, FS_EmptySet DEF Counted

LEMMA StepBilled == TypeOK /\ TypeOK' /\ BilledInv /\ [Next]_vars => BilledInv'
<1> SUFFICES ASSUME TypeOK, TypeOK', BilledInv, [Next]_vars, NEW i \in Institutions
             PROVE  Counted(ledgers'[i].tx_count, Sent(i)', Held(i)')
  BY DEF BilledInv, Counted
<1> DEFINE n == ledgers[i].tx_count
<1>1. /\ n \in Nat /\ IsFiniteSet(Sent(i)) /\ IsFiniteSet(Held(i))
      /\ Counted(n, Sent(i), Held(i))
  BY FiniteSent DEF TypeOK, BilledInv
<1>2. ASSUME ledgers' = ledgers, Sent(i)' \subseteq Sent(i), Held(i)' \subseteq Held(i)
      PROVE  Counted(ledgers'[i].tx_count, Sent(i)', Held(i)')
  BY <1>1, <1>2, CountedFewer
<1>3. ASSUME NEW r \in Requests, Admit(r)
      PROVE  Counted(ledgers'[i].tx_count, Sent(i)', Held(i)')
  <2>1. Sent(i)' = Sent(i)
    BY <1>3 DEF Admit, Sent
  <2>2. CASE InstOf[txOf[r]] = i
    <3>1. Held(i)' \subseteq Held(i) \cup {r}
      BY <1>3 DEF Admit, Held, TypeOK
    <3>2. ledgers'[i].tx_count = SaturatingAdd(n, 1)
      BY <1>3, <2>2 DEF Admit, Accrue, TypeOK
    <3>3. Counted(SaturatingAdd(n, 1), Sent(i), Held(i) \cup {r})
      BY <1>1, CountedAdmitted
    <3>4. IsFiniteSet(Held(i) \cup {r}) /\ SaturatingAdd(n, 1) \in Nat
      BY <1>1, FS_AddElement, NumberAssumption DEF SaturatingAdd
    <3> QED
      BY <1>1, <2>1, <3>1, <3>2, <3>3, <3>4, CountedFewer
  <2>3. CASE InstOf[txOf[r]] # i
    <3>1. Held(i)' \subseteq Held(i)
      BY <1>3, <2>3 DEF Admit, Held, TypeOK
    <3>2. ledgers'[i] = ledgers[i]
      BY <1>3, <2>3 DEF Admit, TypeOK
    <3> QED
      BY <1>1, <2>1, <3>1, <3>2, CountedFewer
  <2> QED BY <2>2, <2>3
<1>4. ASSUME NEW r \in Requests, Send(r)
      PROVE  Counted(ledgers'[i].tx_count, Sent(i)', Held(i)')
  <2>1. ledgers' = ledgers /\ landed' = landed /\ earlier' = earlier /\ txOf' = txOf
        /\ pool' \subseteq pool \cup {txOf[r]}
    BY <1>4 DEF Send, history
  <2>2. CASE InstOf[txOf[r]] = i
    <3>1. r \in Held(i) /\ Held(i)' \subseteq Held(i) \ {r}
      BY <1>4, <2>2 DEF Send, Held, TypeOK
    <3>2. Sent(i)' \subseteq Sent(i) \cup {txOf[r]}
      BY <2>1 DEF Sent
    <3>3. Counted(n, Sent(i) \cup {txOf[r]}, Held(i) \ {r})
      BY <1>1, <3>1, CountedSent
    <3>4. IsFiniteSet(Sent(i) \cup {txOf[r]}) /\ IsFiniteSet(Held(i) \ {r})
      BY <1>1, FS_AddElement, FS_RemoveElement
    <3> QED
      BY <1>1, <2>1, <3>1, <3>2, <3>3, <3>4, CountedFewer
  <2>3. CASE InstOf[txOf[r]] # i
    <3>1. Held(i)' \subseteq Held(i) /\ Sent(i)' \subseteq Sent(i)
      BY <1>4, <2>1, <2>3 DEF Send, Held, Sent, TypeOK
    <3> QED BY <1>2, <2>1, <3>1
  <2> QED BY <2>2, <2>3
<1>5. CASE Restart
  <2>1. Sent(i)' = {} /\ Held(i)' = {} /\ ledgers'[i].tx_count = 0
    BY <1>5 DEF Restart, Sent, Held, EmptyLedger, TypeOK
  <2> QED
    BY <2>1, FS_EmptySet DEF Counted
<1>6. ASSUME NEW r \in Requests, Refuse(r) \/ Reject(r) \/ Finish(r)
      PROVE  Counted(ledgers'[i].tx_count, Sent(i)', Held(i)')
  <2>1. /\ ledgers' = ledgers /\ pool' = pool /\ landed' = landed /\ earlier' = earlier
        /\ txOf' = txOf /\ stage' = [stage EXCEPT ![r] = "answered"]
    BY <1>6 DEF Refuse, Reject, Finish, Confirm, GiveUp, Answer, history
  <2>2. Held(i)' \subseteq Held(i) /\ Sent(i)' = Sent(i)
    BY <2>1 DEF Held, Sent, TypeOK
  <2> QED BY <1>2, <2>1, <2>2
<1>7. ASSUME NEW r \in Requests, Receive(r)
      PROVE  Counted(ledgers'[i].tx_count, Sent(i)', Held(i)')
  <2>1. Held(i)' \subseteq Held(i) /\ Sent(i)' = Sent(i) /\ ledgers' = ledgers
    BY <1>7 DEF Receive, Held, Sent, TypeOK, history
  <2> QED BY <1>2, <2>1
<1>8. ASSUME \/ \E t \in Txs : Land(t) \/ Drop(t)
             \/ \E j \in Institutions : Suspend(j) \/ \E p \in Policies : Register(j, p)
             \/ Tick \/ UNCHANGED vars
      PROVE  Counted(ledgers'[i].tx_count, Sent(i)', Held(i)')
  <2>1. /\ ledgers' = ledgers /\ stage' = stage /\ txOf' = txOf /\ earlier' = earlier
        /\ pool' \cup landed' \subseteq pool \cup landed
    BY <1>8 DEF Land, Drop, Suspend, Register, Tick, vars, service, history
  <2>2. Held(i)' = Held(i) /\ Sent(i)' \subseteq Sent(i)
    BY <2>1 DEF Held, Sent
  <2> QED BY <1>2, <2>1, <2>2
<1> QED
  BY <1>3, <1>4, <1>5, <1>6, <1>7, <1>8 DEF Next, Handler

\* No transaction of this process lands unbilled.
THEOREM LandedAreBilled == Spec => []LandedBilled
<1>1. TypeOK /\ BilledInv => LandedBilled
  <2> SUFFICES ASSUME TypeOK, BilledInv, NEW i \in Institutions
               PROVE  Cardinality({t \in landed \ earlier : InstOf[t] = i})
                        <= ledgers[i].tx_count
    BY DEF LandedBilled
  <2> DEFINE on == {t \in landed \ earlier : InstOf[t] = i}
  <2>1. on \subseteq Sent(i) /\ Sent(i) \subseteq Txs
        /\ IsFiniteSet(Sent(i)) /\ IsFiniteSet(Held(i)) /\ IsFiniteSet(Txs)
    BY FiniteSent, CountAssumption DEF Sent
  <2> HIDE DEF on
  <2>2. /\ Cardinality(on) <= Cardinality(Sent(i))
        /\ Cardinality(Sent(i)) <= Cardinality(Txs)
        /\ IsFiniteSet(on)
    BY <2>1, FS_Subset
  <2>3. /\ Cardinality(on) \in Nat /\ Cardinality(Sent(i)) \in Nat
        /\ Cardinality(Held(i)) \in Nat /\ Cardinality(Txs) \in Nat
    BY <2>1, <2>2, FS_CardinalityType
  <2>4. Counted(ledgers[i].tx_count, Sent(i), Held(i)) /\ ledgers[i].tx_count \in Nat
    BY DEF BilledInv, TypeOK
  <2>5. Cardinality(on) <= ledgers[i].tx_count
    BY <2>2, <2>3, <2>4, CountAssumption, NumberAssumption DEF Counted
  <2> QED BY <2>5 DEF on
<1> QED
  BY <1>1, InitBilled, StepBilled, TypeCorrect, PTL DEF Spec
------------------------------------------------------------------------------
(* Billing, the other way: a ledger counts nothing but admitted requests,    *)
(* each at the fee of a policy.  A request has no reply before it is         *)
(* answered, so that the one being admitted was not among the admitted; and  *)
(* no step but a registration gives a policy another fee.                    *)

RepliesFit == \A r \in Requests : stage[r] # "answered" => reply[r] = "none"

FeesOfPolicies ==
    \A i \in Institutions :
        policies[i].registered => \E p \in Policies : policies[i].fee = p.fee

Charged(l, n) ==
    /\ l.tx_count <= n
    /\ \A fee \in 0..MaxU64 : (\A p \in Policies : p.fee <= fee) => l.accrued <= fee * n

ChargedInv == \A i \in Institutions : Charged(ledgers[i], Cardinality(Admitted(i)))

LEMMA ProductMonotone ==
    ASSUME NEW a \in Nat, NEW n \in Nat, NEW m \in Nat, n <= m
    PROVE  a * n <= a * m
<1>1. PICK k \in Nat : m = n + k
  <2>1. m - n \in Nat /\ m = n + (m - n)
    OBVIOUS
  <2> QED BY <2>1
<1>2. a * m = a * n + a * k
  BY <1>1
<1>3. a * n \in Nat /\ a * k \in Nat
  OBVIOUS
<1> QED BY <1>2, <1>3

\* A ledger that is charged for n requests is charged for more.
LEMMA ChargedMore ==
    ASSUME NEW l \in [accrued : Nat, tx_count : Nat], NEW n \in Nat, NEW m \in Nat,
           n <= m, Charged(l, n)
    PROVE  Charged(l, m)
<1>1. l.tx_count \in Nat /\ l.accrued \in Nat
  OBVIOUS
<1>2. ASSUME NEW fee \in 0..MaxU64, \A p \in Policies : p.fee <= fee
      PROVE  l.accrued <= fee * m
  <2>1. fee * n <= fee * m
    BY ProductMonotone
  <2>2. l.accrued <= fee * n
    BY <1>2 DEF Charged
  <2>3. fee * n \in Nat /\ fee * m \in Nat
    OBVIOUS
  <2> QED BY <1>1, <2>1, <2>2, <2>3
<1> QED
  BY <1>1, <1>2 DEF Charged

\* An admission charges one request more, at the fee of a policy.
LEMMA ChargedOne ==
    ASSUME NEW l \in [accrued : Nat, tx_count : Nat], NEW n \in Nat, Charged(l, n),
           NEW p \in Policies
    PROVE  Charged(Accrue(l, p.fee), n + 1)
<1>1. l.tx_count \in Nat /\ l.accrued \in Nat /\ p.fee \in Nat /\ MaxU64 \in Nat
  BY PolicyAssumption, NumberAssumption DEF Policy
<1>2. /\ Accrue(l, p.fee).tx_count <= l.tx_count + 1
      /\ Accrue(l, p.fee).accrued <= l.accrued + p.fee
      /\ Accrue(l, p.fee).tx_count \in Nat /\ Accrue(l, p.fee).accrued \in Nat
  BY <1>1 DEF Accrue, SaturatingAdd
<1>3. ASSUME NEW fee \in 0..MaxU64, \A q \in Policies : q.fee <= fee
      PROVE  Accrue(l, p.fee).accrued <= fee * (n + 1)
  <2>1. l.accrued <= fee * n /\ p.fee <= fee
    BY <1>3 DEF Charged
  <2>2. fee * (n + 1) = fee * n + fee /\ fee * n \in Nat
    OBVIOUS
  <2> QED BY <1>1, <1>2, <2>1, <2>2
<1>4. l.tx_count <= n
  BY DEF Charged
<1> QED
  BY <1>1, <1>2, <1>3, <1>4 DEF Charged

\* Refilling a bucket, suspending it and taking a token of it leave the fee.
LEMMA SetKeepsFee ==
    ASSUME NEW p \in InstitutionPolicy, NEW v
    PROVE  /\ [p EXCEPT !.tokens = v].fee = p.fee
           /\ [p EXCEPT !.last_refill = v].fee = p.fee
           /\ [p EXCEPT !.suspended = v].fee = p.fee
  BY Zenon DEF InstitutionPolicy

LEMMA RefilledFee ==
    ASSUME NEW p \in InstitutionPolicy, NEW t
    PROVE  Refilled(p, t).fee = p.fee
<1> DEFINE filled == p.tokens + (t - p.last_refill)
           tokens == IF filled > p.capacity THEN p.capacity ELSE filled
           q == [p EXCEPT !.tokens = tokens, !.last_refill = t]
<1>1. q.fee = p.fee
  <2> HIDE DEF tokens
  <2> QED BY Zenon DEF InstitutionPolicy
<1>2. Refilled(p, t) = IF t <= p.last_refill THEN p ELSE q
  BY Zenon DEF Refilled
<1> HIDE DEF q
<1> QED BY <1>1, <1>2

LEMMA FiniteAdmitted ==
    ASSUME NEW i
    PROVE  IsFiniteSet(Admitted(i)) /\ Cardinality(Admitted(i)) \in Nat
<1>1. Admitted(i) \subseteq Requests
  BY DEF Admitted
<1> QED
  BY <1>1, CountAssumption, FS_Subset, FS_CardinalityType

\* No step but an admission bills anything, and no step takes a request back from the
\* admitted.
LEMMA StillAdmitted ==
    ASSUME TypeOK, RepliesFit, NEW r \in Requests, NEW i, [Next]_vars, ~ Restart,
           r \in Admitted(i)
    PROVE  r \in Admitted(i)'
<1>1. txOf' = txOf
  BY DEF Next, Receive, Handler, Refuse, Admit, Reject, Send, Finish, Confirm, GiveUp, Answer,
         Suspend, Register, Land, Drop, Tick, vars, service
<1>2. CASE stage[r] \in {"admitted", "sent"}
  <2>1. \/ stage'[r] \in {"admitted", "sent"}
        \/ reply'[r] \in {"Ok", "BadRequest", "BadGateway"}
    <3>1. ASSUME NEW q \in Requests, Handler(q)
          PROVE  \/ stage'[r] \in {"admitted", "sent"}
                 \/ reply'[r] \in {"Ok", "BadRequest", "BadGateway"}
      <4>1. CASE q = r
        BY <1>2, <3>1, <4>1 DEF Handler, Refuse, Admit, Reject, Send, Finish, Confirm, GiveUp,
                                Answer, TypeOK
      <4>2. CASE q # r
        BY <1>2, <3>1, <4>2 DEF Handler, Refuse, Admit, Reject, Send, Finish, Confirm, GiveUp,
                                Answer, TypeOK
      <4> QED BY <4>1, <4>2
    <3>2. ASSUME NEW q \in Requests, Receive(q)
          PROVE  stage'[r] \in {"admitted", "sent"}
      BY <1>2, <3>2 DEF Receive, TypeOK
    <3>3. ASSUME \/ \E t \in Txs : Land(t) \/ Drop(t)
                 \/ \E j \in Institutions : Suspend(j) \/ \E p \in Policies : Register(j, p)
                 \/ Tick \/ UNCHANGED vars
          PROVE  stage'[r] \in {"admitted", "sent"}
      BY <1>2, <3>3 DEF Land, Drop, Suspend, Register, Tick, vars, service
    <3> QED BY <3>1, <3>2, <3>3 DEF Next
  <2> QED BY <1>1, <2>1 DEF Admitted
<1>3. CASE reply[r] \in {"Ok", "BadRequest", "BadGateway"}
  <2>1. stage[r] = "answered"
    BY <1>3 DEF RepliesFit
  <2>2. reply'[r] = reply[r]
    BY <2>1 DEF Next, Receive, Handler, Refuse, Admit, Reject, Send, Finish, Confirm, GiveUp,
                Answer, Suspend, Register, Land, Drop, Tick, vars, service, TypeOK
  <2> QED BY <1>1, <1>3, <2>2 DEF Admitted
<1> QED
  BY <1>2, <1>3 DEF Admitted

LEMMA StepReplies == TypeOK /\ RepliesFit /\ [Next]_vars => RepliesFit'
<1> SUFFICES ASSUME TypeOK, RepliesFit, [Next]_vars, NEW r \in Requests,
                    stage'[r] # "answered"
             PROVE  reply'[r] = "none"
  BY DEF RepliesFit
<1>1. ASSUME NEW q \in Requests, Refuse(q) \/ Reject(q) \/ Finish(q)
      PROVE  reply'[r] = "none"
  <2>1. PICK outcome : Answer(q, outcome)
    BY <1>1 DEF Refuse, Reject, Finish, Confirm, GiveUp
  <2>2. q # r
    BY <2>1 DEF Answer, TypeOK
  <2>3. stage'[r] = stage[r] /\ reply'[r] = reply[r]
    BY <2>1, <2>2 DEF Answer, TypeOK
  <2> QED BY <2>3 DEF RepliesFit
<1>2. ASSUME NEW q \in Requests, Receive(q) \/ Admit(q) \/ Send(q)
      PROVE  reply'[r] = "none"
  <2>1. reply' = reply /\ stage[q] \in {"unsent", "received", "admitted"}
    BY <1>2 DEF Receive, Admit, Send
  <2>2. stage[r] # "answered"
    BY <1>2, <2>1 DEF Receive, Admit, Send, TypeOK
  <2> QED BY <2>1, <2>2 DEF RepliesFit
<1>3. CASE Restart
  BY <1>3 DEF Restart, RepliesFit, TypeOK
<1>4. ASSUME \/ \E t \in Txs : Land(t) \/ Drop(t)
             \/ \E j \in Institutions : Suspend(j) \/ \E p \in Policies : Register(j, p)
             \/ Tick \/ UNCHANGED vars
      PROVE  reply'[r] = "none"
  BY <1>4 DEF Land, Drop, Suspend, Register, Tick, vars, service, RepliesFit
<1> QED
  BY <1>1, <1>2, <1>3, <1>4 DEF Next, Handler

LEMMA StepFees == TypeInv /\ FeesOfPolicies /\ [Next]_vars => FeesOfPolicies'
<1> SUFFICES ASSUME TypeInv, FeesOfPolicies, [Next]_vars, NEW j \in Institutions,
                    policies'[j].registered
             PROVE  \E p \in Policies : policies'[j].fee = p.fee
  BY DEF FeesOfPolicies
<1>1. policies \in [Institutions -> InstitutionPolicy \cup {NoPolicy}]
  BY DEF TypeInv, TypeOK
<1>2. ASSUME NEW i \in Institutions, NEW q, policies' = [policies EXCEPT ![i] = q],
             policies[i].registered, q.fee = policies[i].fee
      PROVE  \E p \in Policies : policies'[j].fee = p.fee
  <2>1. CASE j = i
    <3>1. policies'[j] = q
      BY <1>1, <1>2, <2>1
    <3> QED BY <1>2, <2>1, <3>1 DEF FeesOfPolicies
  <2>2. CASE j # i
    <3>1. policies'[j] = policies[j]
      BY <1>1, <1>2, <2>2
    <3> QED BY <3>1 DEF FeesOfPolicies
  <2> QED BY <2>1, <2>2
<1>3. ASSUME NEW r \in Requests, Admit(r)
      PROVE  \E p \in Policies : policies'[j].fee = p.fee
  <2> DEFINE i == InstOf[txOf[r]]
             full == Refilled(policies[i], now)
             q == [full EXCEPT !.tokens = @ - TokenTicks]
  <2>1. i \in Institutions /\ policies[i].registered
    BY <1>3, RequestAssumption DEF Admit, TypeInv, TypeOK
  <2>2. /\ policies[i] \in InstitutionPolicy /\ spent[i] \in [Times -> Nat]
        /\ Bucket(policies[i], spent[i], now) /\ now \in Times
    <3> HIDE DEF i
    <3> QED BY <2>1, PolicyAt DEF TypeInv, TypeOK
  <2>3. full \in InstitutionPolicy /\ full.fee = policies[i].fee
    <3> HIDE DEF i
    <3> QED BY <2>1, <2>2, RefilledBucket, RefilledFee
  <2>4. q.fee = policies[i].fee
    <3> HIDE DEF full, i
    <3> QED BY <2>3, SetKeepsFee
  <2>5. policies' = [policies EXCEPT ![i] = q]
    BY <1>3 DEF Admit
  <2> HIDE DEF q, full, i
  <2> QED BY <1>2, <2>1, <2>4, <2>5
<1>4. ASSUME NEW r \in Requests, Refuse(r)
      PROVE  \E p \in Policies : policies'[j].fee = p.fee
  <2> DEFINE i == InstOf[txOf[r]]
             full == Refilled(policies[i], now)
  <2>1. CASE UNCHANGED policies
    BY <2>1 DEF FeesOfPolicies
  <2>2. CASE policies[i].registered /\ policies' = [policies EXCEPT ![i] = full]
    <3>1. i \in Institutions
      BY RequestAssumption DEF TypeInv, TypeOK
    <3>2. full.fee = policies[i].fee
      <4> HIDE DEF i
      <4> QED BY <2>2, <3>1, PolicyAt, RefilledFee
    <3> HIDE DEF full, i
    <3> QED BY <1>2, <2>2, <3>1, <3>2
  <2> QED BY <1>4, <2>1, <2>2 DEF Refuse
<1>5. ASSUME NEW i \in Institutions, Suspend(i)
      PROVE  \E p \in Policies : policies'[j].fee = p.fee
  <2> DEFINE q == [policies[i] EXCEPT !.suspended = TRUE]
  <2>1. policies[i].registered /\ policies' = [policies EXCEPT ![i] = q]
    BY <1>5 DEF Suspend
  <2>2. q.fee = policies[i].fee
    BY <2>1, PolicyAt, SetKeepsFee
  <2> HIDE DEF q
  <2> QED BY <1>2, <2>1, <2>2
<1>6. ASSUME NEW i \in Institutions, NEW p \in Policies, Register(i, p)
      PROVE  \E q \in Policies : policies'[j].fee = q.fee
  <2>1. CASE j = i
    <3>1. policies'[j].fee = p.fee
      BY <1>1, <1>6, <2>1 DEF Register, Registered
    <3> QED BY <3>1
  <2>2. CASE j # i
    <3>1. policies'[j] = policies[j]
      BY <1>1, <1>6, <2>2 DEF Register
    <3> QED BY <3>1 DEF FeesOfPolicies
  <2> QED BY <2>1, <2>2
<1>7. CASE Restart
  <2>1. StartPolicies[j] # NoPolicy
    BY <1>7 DEF Restart, NoPolicy
  <2>2. StartPolicies[j] \in Policies /\ policies'[j].fee = StartPolicies[j].fee
    BY <1>7, <2>1, PolicyAssumption DEF Restart, Registered
  <2> QED BY <2>2
<1>8. ASSUME \/ \E r \in Requests : Receive(r) \/ Reject(r) \/ Send(r) \/ Finish(r)
             \/ \E t \in Txs : Land(t) \/ Drop(t)
             \/ Tick \/ UNCHANGED vars
      PROVE  \E p \in Policies : policies'[j].fee = p.fee
  <2>1. policies' = policies
    BY <1>8 DEF Receive, Reject, Send, Finish, Land, Drop, Tick, vars, service
  <2> QED BY <2>1 DEF FeesOfPolicies
<1> QED
  BY <1>3, <1>4, <1>5, <1>6, <1>7, <1>8 DEF Next, Handler

LEMMA StepCharged ==
    TypeInv /\ TypeOK' /\ RepliesFit /\ FeesOfPolicies /\ ChargedInv /\ [Next]_vars
        => ChargedInv'
<1> SUFFICES ASSUME TypeInv, TypeOK', RepliesFit, FeesOfPolicies, ChargedInv, [Next]_vars,
                    NEW i \in Institutions
             PROVE  Charged(ledgers'[i], Cardinality(Admitted(i)'))
  BY DEF ChargedInv, Charged
<1> DEFINE n == Cardinality(Admitted(i))
           m == Cardinality(Admitted(i)')
<1>1. /\ TypeOK /\ ledgers[i] \in [accrued : Nat, tx_count : Nat]
      /\ ledgers \in [Institutions -> [accrued : Nat, tx_count : Nat]]
      /\ Charged(ledgers[i], n)
  BY DEF TypeInv, TypeOK, ChargedInv
<1>2. /\ IsFiniteSet(Admitted(i)) /\ n \in Nat
      /\ IsFiniteSet(Admitted(i)') /\ m \in Nat
  <2>1. Admitted(i)' \subseteq Requests
    BY DEF Admitted
  <2> QED BY <2>1, FiniteAdmitted, CountAssumption, FS_Subset, FS_CardinalityType
<1>3. ASSUME ledgers'[i] = ledgers[i], ~ Restart
      PROVE  Charged(ledgers'[i], m)
  <2>1. Admitted(i) \subseteq Admitted(i)'
    <3>1. Admitted(i) \subseteq Requests
      BY DEF Admitted
    <3> QED BY <1>1, <1>3, <3>1, StillAdmitted
  <2>2. n <= m
    BY <1>2, <2>1, FS_Subset
  <2> HIDE DEF n, m
  <2> QED BY <1>1, <1>2, <1>3, <2>2, ChargedMore
<1>4. CASE Restart
  <2>1. ledgers'[i].tx_count = 0 /\ ledgers'[i].accrued = 0
    BY <1>4 DEF Restart, EmptyLedger
  <2>2. ASSUME NEW fee \in 0..MaxU64
        PROVE  0 <= fee * m
    <3>1. fee \in Nat
      BY NumberAssumption
    <3> HIDE DEF m
    <3>2. fee * m \in Nat
      BY <1>2, <3>1
    <3> QED BY <3>2
  <2>3. Charged(ledgers'[i], m)
    <3> HIDE DEF m
    <3> QED BY <1>2, <2>1, <2>2 DEF Charged
  <2> QED BY <2>3
<1>5. ASSUME NEW r \in Requests, Admit(r)
      PROVE  Charged(ledgers'[i], m)
  <2>1. stage' = [stage EXCEPT ![r] = "admitted"] /\ stage[r] = "received"
        /\ reply' = reply /\ txOf' = txOf
    BY <1>5 DEF Admit
  <2>2. CASE InstOf[txOf[r]] = i
    <3>1. PICK p \in Policies : policies[i].fee = p.fee
      BY <1>5, <2>2 DEF Admit, FeesOfPolicies
    <3>2. ledgers'[i] = Accrue(ledgers[i], p.fee)
      BY <1>1, <1>5, <2>2, <3>1 DEF Admit
    <3>3. r \notin Admitted(i)
      BY <2>1 DEF Admitted, RepliesFit
    <3>4. Admitted(i)' = Admitted(i) \cup {r}
      BY <1>1, <2>1, <2>2 DEF Admitted, TypeOK
    <3>5. m = n + 1
      BY <1>2, <3>3, <3>4, FS_AddElement
    <3> HIDE DEF n, m
    <3> QED BY <1>1, <1>2, <3>2, <3>5, ChargedOne
  <2>3. CASE InstOf[txOf[r]] # i
    <3>1. ledgers'[i] = ledgers[i]
      BY <1>1, <1>5, <2>3 DEF Admit
    <3>2. Admitted(i)' = Admitted(i)
      BY <1>1, <2>1, <2>3 DEF Admitted, TypeOK
    <3>3. m = n
      BY <3>2
    <3> HIDE DEF n, m
    <3> QED BY <1>1, <3>1, <3>3
  <2> QED BY <2>2, <2>3
<1>6. CASE ~ Restart /\ ~ (\E r \in Requests : Admit(r))
  <2>1. ledgers' = ledgers
    BY <1>6 DEF Next, Receive, Handler, Refuse, Reject, Send, Finish, Suspend, Register, Land,
                Drop, Tick, vars, service
  <2> QED BY <1>3, <1>6, <2>1
<1> QED
  BY <1>4, <1>5, <1>6

\* However requests interleave, are retried or cut, an institution is billed for no more
\* than its admitted requests.
THEOREM AdmittedAreBilledOnce == Spec => []BilledOnce
<1> DEFINE Inv == RepliesFit /\ FeesOfPolicies /\ ChargedInv
<1>1. Init => Inv
  <2> SUFFICES ASSUME Init PROVE Inv
    OBVIOUS
  <2>1. RepliesFit
    BY DEF Init, RepliesFit
  <2>2. FeesOfPolicies
    <3> SUFFICES ASSUME NEW i \in Institutions, policies[i].registered
                 PROVE  \E p \in Policies : policies[i].fee = p.fee
      BY DEF FeesOfPolicies
    <3>1. StartPolicies[i] # NoPolicy
      BY DEF Init, NoPolicy
    <3>2. StartPolicies[i] \in Policies /\ policies[i].fee = StartPolicies[i].fee
      BY <3>1, PolicyAssumption DEF Init, Registered
    <3> QED BY <3>2
  <2>3. ASSUME NEW i \in Institutions
        PROVE  Charged(ledgers[i], Cardinality(Admitted(i)))
    <3>1. Admitted(i) = {} /\ ledgers[i].tx_count = 0 /\ ledgers[i].accrued = 0
      BY DEF Init, Admitted, EmptyLedger
    <3> QED BY <3>1, FS_EmptySet, NumberAssumption DEF Charged
  <2> QED BY <2>1, <2>2, <2>3 DEF ChargedInv
<1>2. TypeInv /\ TypeInv' /\ Inv /\ [Next]_vars => Inv'
  BY StepReplies, StepFees, StepCharged DEF TypeInv
<1>3. Inv => BilledOnce
  BY DEF ChargedInv, Charged, BilledOnce
<1> HIDE DEF Inv
<1> QED
  BY <1>1, <1>2, <1>3, TypeAndBuckets, PTL DEF Spec

==============================================================================
