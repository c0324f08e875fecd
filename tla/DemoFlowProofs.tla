---------------------------- MODULE DemoFlowProofs ----------------------------
(***************************************************************************)
(* Theorems of DemoFlow, for any number of payments, calls, demo oracles   *)
(* and oracles whose keys the gateway does not hold.                       *)
(***************************************************************************)
EXTENDS DemoFlow, FiniteSets, FiniteSetTheorems, FunctionTheorems, TLAPS

Turns == 1..Len(DemoOracles)

\* The transaction of a request when it is its k-th oracle's turn.
AttestTx(r, k) ==
    [by |-> r, step |-> k, op |-> "attest", payment |-> requests[r].payment,
     verdict |-> requests[r].verdict, to |-> None]

Running(r) == requests[r] # None /\ requests[r].stage \in {"ready", "sent"}

LEMMA TurnsExist ==
    /\ Quorum \in Nat \ {0} /\ Len(DemoOracles) \in Nat
    /\ Turns = 1..Quorum /\ 1 \in Turns
    /\ \A k \in Turns : DemoOracles[k] \in Oracles
    /\ DOMAIN DemoOracles = Turns
  BY DemoAssumption DEF Turns

LEMMA TurnsOrdered ==
    \A k \in Turns : k \in Nat /\ 1 <= k /\ k <= Len(DemoOracles)
<1>1. Len(DemoOracles) \in Nat
  BY TurnsExist
<1> QED BY ONLY <1>1 DEF Turns

------------------------------------------------------------------------------
(* The chain.                                                                *)

\* Votes are counted alike here and in EscrowLifecycle.
LEMMA SameCount == \A S : Chain!Cardinality(S) = Cardinality(S)
  BY DEF Cardinality, Chain!Cardinality, IsFiniteSet, Chain!IsFiniteSet

\* Votes are distinct and no more than the phase allows.
Counted(d) ==
    /\ phase[d] = "Absent" => clean[d] = {} /\ dirty[d] = {}
    /\ phase[d] = "Pending" => ~ (Cardinality(clean[d]) >= Quorum)
                            /\ ~ (Cardinality(dirty[d]) >= Quorum)
    /\ phase[d] \in {"Approved", "Released"} => ~ (Cardinality(dirty[d]) >= Quorum)
    /\ phase[d] \in {"Rejected", "Refunded"} => ~ (Cardinality(clean[d]) >= Quorum)

ChainOK ==
    /\ phase \in [Payments -> Chain!Phases]
    /\ clean \in [Payments -> SUBSET Oracles] /\ dirty \in [Payments -> SUBSET Oracles]
    /\ quorum = [d \in Payments |-> Quorum]
    /\ \A d \in Payments :
          /\ IsFiniteSet(clean[d]) /\ IsFiniteSet(dirty[d])
          /\ clean[d] \cap dirty[d] = {}
          /\ Counted(d)

\* What a transaction was sent for, once it has been executed.
Effected(t) ==
    LET d == t.payment IN
    /\ t.op = "simulate" => phase[d] # "Absent"
    /\ t.op = "attest" => DemoOracles[t.step] \in (IF t.verdict = "clean" THEN clean[d] ELSE dirty[d])
    /\ t.op = "release" => phase[d] = "Released"
    /\ t.op = "refund" => phase[d] = "Refunded"

\* A step of the chain is one of the lifecycle's, for one payment.
Life(d) ==
    \/ Chain!Hold(d)
    \/ \E o \in Oracles : Chain!Decide(d, o)
    \/ Chain!ReleaseIt(d) /\ phase'[d] = "Released"
    \/ Chain!RefundIt(d) /\ phase'[d] = "Refunded"

LEMMA TxLives ==
    ASSUME NEW tx \in Tx, tx.op = "attest" => tx.step \in Turns, Effect(tx)
    PROVE  Life(tx.payment)
  BY TurnsExist DEF Effect, Life

\* A payment's life goes one way, and its votes stay.
Onward(d) ==
    /\ clean[d] \subseteq clean'[d] /\ dirty[d] \subseteq dirty'[d]
    /\ phase[d] # "Absent" => phase'[d] # "Absent"
    /\ phase[d] \in {"Approved", "Released"} => phase'[d] \in {"Approved", "Released"}
    /\ phase[d] \in {"Rejected", "Refunded"} => phase'[d] \in {"Rejected", "Refunded"}
    /\ phase[d] = "Released" => phase'[d] = "Released"
    /\ phase[d] = "Refunded" => phase'[d] = "Refunded"

LEMMA LifeGoesOn ==
    ASSUME ChainOK, NEW d \in Payments, Life(d)
    PROVE  ChainOK' /\ \A e \in Payments : Onward(e)
<1> USE DEF ChainOK
<1>1. CASE Chain!Hold(d)
  <2>1. /\ phase[d] = "Absent" /\ phase' = [phase EXCEPT ![d] = "Pending"]
        /\ clean' = clean /\ dirty' = dirty /\ quorum' = quorum
    BY <1>1 DEF Chain!Hold
  <2>2. ~ (Cardinality({}) >= Quorum)
    BY FS_EmptySet, TurnsExist
  <2>3. \A e \in Payments : Counted(e)'
    BY <2>1, <2>2 DEF Counted
  <2>4. phase' \in [Payments -> Chain!Phases]
    BY <2>1 DEF Chain!Phases
  <2>5. \A e \in Payments : Onward(e)
    BY <2>1 DEF Onward
  <2> QED BY <2>1, <2>3, <2>4, <2>5
<1>2. ASSUME NEW o \in Oracles, Chain!Decide(d, o) PROVE ChainOK' /\ \A e \in Payments : Onward(e)
  <2>1. /\ phase[d] = "Pending" /\ quorum' = quorum /\ quorum[d] = Quorum
        /\ o \notin clean[d] \cup dirty[d]
        /\ phase' = [phase EXCEPT ![d] =
                       IF Cardinality(dirty'[d]) >= Quorum THEN "Rejected"
                       ELSE IF Cardinality(clean'[d]) >= Quorum THEN "Approved"
                       ELSE "Pending"]
    BY <1>2, SameCount DEF Chain!Decide
  <2>2. phase' \in [Payments -> Chain!Phases]
    BY <2>1 DEF Chain!Phases
  <2>3. \A e \in Payments \ {d} : phase'[e] = phase[e]
    BY <2>1
  <2>4. CASE clean' = [clean EXCEPT ![d] = @ \cup {o}] /\ UNCHANGED dirty
    <3>1. clean'[d] = clean[d] \cup {o} /\ \A e \in Payments \ {d} : clean'[e] = clean[e]
      BY <2>4
    <3>2. IsFiniteSet(clean'[d])
      <4>1. IsFiniteSet(clean[d])
        OBVIOUS
      <4> QED BY ONLY <3>1, <4>1, FS_AddElement
    <3>3. \A e \in Payments : IsFiniteSet(clean'[e]) /\ clean'[e] \cap dirty'[e] = {}
      BY <2>1, <2>4, <3>1, <3>2
    <3>4. Counted(d)'
      BY <2>1, <2>4, <3>1 DEF Counted
    <3>5. \A e \in Payments \ {d} : Counted(e)'
      BY <2>3, <2>4, <3>1 DEF Counted
    <3>6. \A e \in Payments : Onward(e)
      BY <2>1, <2>3, <2>4, <3>1 DEF Onward
    <3>7. clean' \in [Payments -> SUBSET Oracles]
      BY <2>4
    <3> QED BY <2>1, <2>2, <2>4, <3>3, <3>4, <3>5, <3>6, <3>7
  <2>5. CASE dirty' = [dirty EXCEPT ![d] = @ \cup {o}] /\ UNCHANGED clean
    <3>1. dirty'[d] = dirty[d] \cup {o} /\ \A e \in Payments \ {d} : dirty'[e] = dirty[e]
      BY <2>5
    <3>2. IsFiniteSet(dirty'[d])
      <4>1. IsFiniteSet(dirty[d])
        OBVIOUS
      <4> QED BY ONLY <3>1, <4>1, FS_AddElement
    <3>3. \A e \in Payments : IsFiniteSet(dirty'[e]) /\ clean'[e] \cap dirty'[e] = {}
      BY <2>1, <2>5, <3>1, <3>2
    <3>4. Counted(d)'
      BY <2>1, <2>5, <3>1 DEF Counted
    <3>5. \A e \in Payments \ {d} : Counted(e)'
      BY <2>3, <2>5, <3>1 DEF Counted
    <3>6. \A e \in Payments : Onward(e)
      BY <2>1, <2>3, <2>5, <3>1 DEF Onward
    <3>7. dirty' \in [Payments -> SUBSET Oracles]
      BY <2>5
    <3> QED BY <2>1, <2>2, <2>5, <3>3, <3>4, <3>5, <3>6, <3>7
  <2> QED BY <1>2, <2>4, <2>5 DEF Chain!Decide
<1>3. CASE \/ Chain!ReleaseIt(d) /\ phase'[d] = "Released"
           \/ Chain!RefundIt(d) /\ phase'[d] = "Refunded"
  <2>1. PICK final \in {"Released", "Refunded"} :
          /\ phase' = [phase EXCEPT ![d] = final]
          /\ clean' = clean /\ dirty' = dirty /\ quorum' = quorum
          /\ phase[d] \in (IF final = "Released" THEN {"Approved"} ELSE {"Rejected", "Pending"})
    BY <1>3 DEF Chain!ReleaseIt, Chain!RefundIt, Chain!SettleAs
  <2>2. phase' \in [Payments -> Chain!Phases]
    BY <2>1 DEF Chain!Phases
  <2>3. \A e \in Payments : Counted(e)'
    BY <2>1 DEF Counted
  <2>4. \A e \in Payments : Onward(e)
    BY <2>1 DEF Onward
  <2> QED BY <2>1, <2>2, <2>3, <2>4
<1> QED BY <1>1, <1>2, <1>3 DEF Life

------------------------------------------------------------------------------
(* Types.                                                                    *)

\* What runs has been admitted: its record exists, and an attestation has a verdict.
Admitted ==
    \A r \in Requests : requests[r] # None =>
        /\ Running(r) => HasRecord(requests[r].payment)
        /\ requests[r].op = "attest" => requests[r].verdict \in Verdicts

\* So has an attestation on its way, and it is one of the demo oracles'.
Sent == \A t \in pool \cup confirmed :
    t.op = "attest" => t.verdict \in Verdicts /\ t.step \in Turns

Typed == TypeOK /\ ChainOK /\ Admitted /\ Sent

LEMMA TxType ==
    ASSUME Typed, NEW r \in Requests, Running(r)
    PROVE  /\ TxOf(r) \in Tx /\ requests[r] \in Request
           /\ TxOf(r).op = requests[r].op /\ TxOf(r).payment = requests[r].payment
           /\ TxOf(r).verdict = requests[r].verdict /\ TxOf(r).step = requests[r].step
           /\ requests[r].op = "attest" => TxOf(r) = AttestTx(r, requests[r].step)
<1>1. requests[r] \in Request
  BY DEF Typed, TypeOK, Running
<1>2. records[requests[r].payment] \in Record
  BY <1>1 DEF Typed, TypeOK, Admitted, Running, HasRecord, Request
<1>3. records[requests[r].payment].refund_addr \in Addresses
  BY <1>2 DEF Record
<1>4. requests[r].step \in 0..Len(DemoOracles)
  BY <1>1, TurnsExist DEF Request
<1> QED
  BY <1>1, <1>3, <1>4 DEF TxOf, Tx, Request, AttestTx

LEMMA InitTyped == Init => Typed
<1> SUFFICES ASSUME Init PROVE Typed
  OBVIOUS
<1>1. TypeOK
  BY DEF Init, TypeOK, Addresses
<1>2. ChainOK
  BY FS_EmptySet DEF Init, ChainOK, Counted, Chain!Phases
<1> QED
  BY <1>1, <1>2 DEF Init, Typed, Admitted, Sent

\* What happens to the chain in a step.
LEMMA ChainSteps ==
    ASSUME Typed, [Next]_vars
    PROVE  (\E d \in Payments : Life(d)) \/ UNCHANGED <<phase, clean, dirty, quorum>>
<1>1. ASSUME NEW tx \in pool, Execute(tx) PROVE \E d \in Payments : Life(d)
  <2>1. tx \in Tx /\ (tx.op = "attest" => tx.step \in Turns)
    BY DEF Typed, TypeOK, Sent
  <2>2. tx.payment \in Payments
    BY <2>1 DEF Tx
  <2> QED BY <1>1, <2>1, <2>2, TxLives DEF Execute
<1>2. ASSUME NEW d \in Payments, NEW o \in Oracles, OtherOracle(d, o) PROVE Life(d)
  BY <1>2 DEF OtherOracle, Life
<1>3. ASSUME NEW d \in Payments, Lapse(d) PROVE UNCHANGED <<phase, clean, dirty, quorum>>
  BY <1>3 DEF Lapse, Chain!Lapse
<1>4. ASSUME Gateway \/ Customer \/ \E tx \in pool : Drop(tx)
      PROVE  UNCHANGED <<phase, clean, dirty, quorum>>
  BY <1>4 DEF Gateway, Customer, Drop, Observe, DemoInit, Handler, Send, Fail,
              Confirm, Call, Connect, IssueAddress, SignAndPay, chain
<1> QED
  BY <1>1, <1>2, <1>3, <1>4 DEF Next, Cluster, vars, chain

LEMMA ChainGoesOn ==
    ASSUME Typed, [Next]_vars
    PROVE  ChainOK' /\ \A d \in Payments : Onward(d)
<1>1. CASE \E d \in Payments : Life(d)
  BY <1>1, LifeGoesOn DEF Typed
<1>2. CASE UNCHANGED <<phase, clean, dirty, quorum>>
  BY <1>2 DEF Typed, ChainOK, Counted, Onward
<1> QED BY <1>1, <1>2, ChainSteps

LEMMA NewRecordType ==
    ASSUME Typed, NEW d \in Payments, NEW a \in Addresses, NewRecord(d, a)
    PROVE  /\ records' \in [Payments -> Record \cup {None}]
           /\ \A e \in Payments : HasRecord(e) => HasRecord(e)'
<1>1. [state |-> "pending", on_chain |-> FALSE, refund_addr |-> a] \in Record
  BY DEF Record, Word, Words
<1> QED
  BY <1>1 DEF NewRecord, HasRecord, Typed, TypeOK

LEMMA StepTyped == Typed /\ [Next]_vars => Typed'
<1> SUFFICES ASSUME Typed, [Next]_vars PROVE Typed'
  OBVIOUS
<1>0. ChainOK'
  BY ChainGoesOn
<1>1. ASSUME NEW tx \in pool, Execute(tx) PROVE Typed'
  <2>1. tx \in Tx
    BY DEF Typed, TypeOK
  <2>2. refundAddr' \in [Payments -> Addresses \cup {None}]
    BY <1>1, <2>1 DEF Execute, Effect, Typed, TypeOK, Tx
  <2> QED
    BY <1>0, <1>1, <2>1, <2>2 DEF Execute, Typed, TypeOK, Admitted, Sent, Running, HasRecord
<1>2. ASSUME NEW tx \in pool, Drop(tx) PROVE Typed'
  BY <1>0, <1>2 DEF Drop, chain, Typed, TypeOK, Admitted, Sent, Running, HasRecord
<1>3. ASSUME NEW d \in Payments, NEW o \in Oracles, OtherOracle(d, o) PROVE Typed'
  BY <1>0, <1>3 DEF OtherOracle, Typed, TypeOK, Admitted, Sent, Running, HasRecord
<1>4. ASSUME NEW d \in Payments, Lapse(d) PROVE Typed'
  BY <1>0, <1>4 DEF Lapse, Typed, TypeOK, Admitted, Sent, Running, HasRecord
<1>5. ASSUME NEW d \in Payments, Observe(d) PROVE Typed'
  <2> DEFINE word == IF phase[d] = "Pending" THEN records[d].state ELSE Word[phase[d]]
             new == [[records[d] EXCEPT !.on_chain = TRUE] EXCEPT !.state = word]
  <2>1. records[d] \in Record
    BY <1>5 DEF Observe, HasRecord, Typed, TypeOK
  <2>2. word \in Words
    <3>1. phase[d] \in Chain!Phases \ {"Absent"}
      BY <1>5 DEF Observe, Typed, ChainOK
    <3> QED BY <2>1, <3>1 DEF Record, Words, Word, Chain!Phases
  <2>3. new \in Record
    <3> HIDE DEF word
    <3> QED BY <2>1, <2>2 DEF Record
  <2>4. records' = [records EXCEPT ![d] = new]
    BY <1>5 DEF Observe
  <2> HIDE DEF new
  <2>5. records' \in [Payments -> Record \cup {None}] /\ \A e \in Payments : HasRecord(e) => HasRecord(e)'
    BY <2>3, <2>4, DemoAssumption DEF HasRecord, Typed, TypeOK
  <2> QED
    BY <1>0, <1>5, <2>5 DEF Observe, chain, Typed, TypeOK, Admitted, Sent, Running, Request
<1>6. ASSUME NEW d \in Payments, DemoInit(d) PROVE Typed'
  <2>1. records' \in [Payments -> Record \cup {None}] /\ \A e \in Payments : HasRecord(e) => HasRecord(e)'
    BY <1>6, NewRecordType DEF DemoInit, Addresses
  <2> QED
    BY <1>0, <1>6, <2>1 DEF DemoInit, chain, Typed, TypeOK, Admitted, Sent, Running, Request
<1>7. ASSUME NEW d \in Payments, IssueAddress(d) PROVE Typed'
  <2>1. wallet \in Addresses
    BY DEF Typed, TypeOK, Addresses
  <2>2. records' \in [Payments -> Record \cup {None}] /\ \A e \in Payments : HasRecord(e) => HasRecord(e)'
    BY <1>7, <2>1, NewRecordType DEF IssueAddress
  <2> QED
    BY <1>0, <1>7, <2>2 DEF IssueAddress, chain, Typed, TypeOK, Admitted, Sent, Running, Request
<1>8. ASSUME NEW d \in Payments, SignAndPay(d) PROVE Typed'
  <2> DEFINE tx == [by |-> "page", step |-> 0, op |-> "simulate", payment |-> d,
                    verdict |-> None, to |-> wallet]
  <2>1. tx \in Tx
    BY TurnsExist DEF Tx, Ops, Addresses, Typed, TypeOK
  <2>2. pool' = pool \cup {tx} /\ tx.op # "attest"
    BY <1>8 DEF SignAndPay
  <2> HIDE DEF tx
  <2> QED
    BY <1>0, <1>8, <2>1, <2>2
    DEF SignAndPay, chain, Typed, TypeOK, Admitted, Sent, Running, HasRecord
<1>9. ASSUME NEW w \in Wallets \cup {NoWallet}, Connect(w) PROVE Typed'
  BY <1>0, <1>9 DEF Connect, chain, Typed, TypeOK, Admitted, Sent, Running, HasRecord
<1>10. ASSUME NEW r \in Requests, NEW op \in Ops, NEW d \in Payments,
              NEW v \in Verdicts \cup {None}, Call(r, op, d, v)
       PROVE  Typed'
  <2> DEFINE q == [op |-> op, payment |-> d, verdict |-> v, step |-> 1,
                   stage |-> IF Admits(op, d) THEN "ready" ELSE "error"]
  <2>1. q \in Request
    BY TurnsExist DEF Request, Turns
  <2>2. requests' = [requests EXCEPT ![r] = q]
    BY <1>10 DEF Call
  <2>3. /\ q.op = "attest" => q.verdict \in Verdicts
        /\ q.stage \in {"ready", "sent"} => HasRecord(q.payment)
    BY <1>10 DEF Call, Admits
  <2> HIDE DEF q
  <2> QED
    BY <1>0, <1>10, <2>1, <2>2, <2>3
    DEF Call, chain, Typed, TypeOK, Admitted, Sent, Running, HasRecord
<1>11. ASSUME NEW r \in Requests, Send(r) PROVE Typed'
  <2>1. TxOf(r) \in Tx /\ requests[r] \in Request
        /\ (TxOf(r).op = "attest" => TxOf(r).verdict \in Verdicts /\ TxOf(r).step \in Turns)
    BY <1>11, TxType DEF Send, Running, Typed, Admitted, Request, Turns
  <2>2. [requests[r] EXCEPT !.stage = "sent"] \in Request
    BY <2>1 DEF Request
  <2>3. requests' \in [Requests -> Request \cup {None}]
    BY <1>11, <2>2 DEF Send, Typed, TypeOK
  <2>4. Admitted'
    BY <1>11, <2>1 DEF Send, Typed, TypeOK, Admitted, Running, HasRecord, Request
  <2>5. pool' = pool \cup {TxOf(r)} /\ UNCHANGED <<chain, confirmed, records, wallet>>
    BY <1>11 DEF Send
  <2>6. TypeOK' /\ Sent'
    BY <2>1, <2>3, <2>5 DEF chain, Typed, TypeOK, Sent
  <2> QED BY <1>0, <2>4, <2>6 DEF Typed
<1>12. ASSUME NEW r \in Requests, Fail(r) PROVE Typed'
  <2>1. requests[r] \in Request
    BY <1>12 DEF Fail, Typed, TypeOK
  <2>2. [requests[r] EXCEPT !.stage = "error"] \in Request
    BY <2>1 DEF Request
  <2> QED
    BY <1>0, <1>12, <2>1, <2>2
    DEF Fail, chain, Typed, TypeOK, Admitted, Sent, Running, HasRecord, Request
<1>13. ASSUME NEW r \in Requests, Confirm(r) PROVE Typed'
  <2> DEFINE more == requests[r].op = "attest" /\ requests[r].step < Len(DemoOracles)
             new == IF more THEN [requests[r] EXCEPT !.step = requests[r].step + 1, !.stage = "ready"]
                    ELSE [requests[r] EXCEPT !.stage = "ok"]
  <2>1. requests[r] \in Request /\ Running(r)
    BY <1>13 DEF Confirm, Running, Typed, TypeOK
  <2>2. new \in Request
        /\ new.op = requests[r].op /\ new.payment = requests[r].payment
        /\ new.verdict = requests[r].verdict
    <3>1. CASE more
      <4> DEFINE turn == [requests[r] EXCEPT !.step = requests[r].step + 1]
      <4>1. requests[r].step + 1 \in 1..Len(DemoOracles)
        BY <2>1, <3>1, TurnsExist DEF Request
      <4>2. turn \in Request /\ turn.op = requests[r].op /\ turn.payment = requests[r].payment
            /\ turn.verdict = requests[r].verdict
        BY <2>1, <4>1 DEF Request
      <4>3. new = [turn EXCEPT !.stage = "ready"]
        BY <3>1
      <4> HIDE DEF turn, new
      <4> QED BY <4>2, <4>3 DEF Request
    <3>2. CASE ~ more
      <4>1. new = [requests[r] EXCEPT !.stage = "ok"]
        BY <3>2
      <4> HIDE DEF new
      <4> QED BY <2>1, <4>1 DEF Request
    <3> QED BY <3>1, <3>2
  <2>4. requests' = [requests EXCEPT ![r] = new] /\ UNCHANGED <<chain, pool, confirmed, records, wallet>>
    BY <1>13 DEF Confirm
  <2> HIDE DEF new
  <2>5. TypeOK' /\ Sent'
    BY <2>2, <2>4 DEF chain, Typed, TypeOK, Sent
  <2>6. Admitted'
    <3>1. requests' \in [Requests -> Request \cup {None}] /\ requests'[r] = new
          /\ \A s \in Requests \ {r} : requests'[s] = requests[s]
      BY <2>2, <2>4 DEF Typed, TypeOK
    <3>2. requests[r] # None /\ HasRecord(requests[r].payment) /\ records' = records
      BY <2>1, <2>4 DEF Running, Typed, Admitted
    <3> QED
      BY <2>2, <3>1, <3>2 DEF Typed, Admitted, Running, HasRecord
  <2> QED BY <1>0, <2>5, <2>6 DEF Typed
<1>14. CASE UNCHANGED vars
  BY <1>0, <1>14 DEF vars, chain, Typed, TypeOK, Admitted, Sent, Running, HasRecord
<1> QED
  BY <1>1, <1>2, <1>3, <1>4, <1>5, <1>6, <1>7, <1>8, <1>9, <1>10, <1>11, <1>12, <1>13, <1>14
  DEF Next, Cluster, Gateway, Customer, Handler

\* Requests, transactions and records stay typed, whatever order processes, clusters and
\* wallets act in (demo.ts, cli main.rs).
THEOREM TypeCorrect == Spec => []TypeOK
<1>1. Typed => TypeOK
  BY DEF Typed
<1> QED
  BY <1>1, InitTyped, StepTyped, PTL DEF Spec

------------------------------------------------------------------------------
(* Attestations follow each other, and what has been answered is done.       *)

\* The attestation t at an earlier turn.
Before(t, k) == [t EXCEPT !.step = k]

\* No oracle is asked before the ones in front of it have attested, for the same call.
InTurn ==
    /\ \A t \in pool \cup confirmed : t.op = "attest" =>
          \A k \in Turns : k < t.step => Before(t, k) \in confirmed
    /\ \A r \in Requests : Running(r) /\ requests[r].op = "attest" =>
          \A k \in Turns : k < requests[r].step => AttestTx(r, k) \in confirmed

\* What is confirmed has happened, and the demo oracles' votes are from confirmed calls.
Landed == \A t \in confirmed : Effected(t)
Voted ==
    \A d \in Payments, k \in Turns :
        /\ DemoOracles[k] \in clean[d] =>
              \E t \in confirmed : t.op = "attest" /\ t.payment = d /\ t.step = k /\ t.verdict = "clean"
        /\ DemoOracles[k] \in dirty[d] =>
              \E t \in confirmed : t.op = "attest" /\ t.payment = d /\ t.step = k /\ t.verdict = "dirty"

VerdictInv == Typed /\ InTurn /\ Landed /\ Voted /\ OkMeansDone

\* Two opposite votes would go back to two opposite votes of the first oracle.
LEMMA TurnsAgree == VerdictInv => OneVerdict
<1> SUFFICES ASSUME VerdictInv, NEW d \in Payments, NEW i \in Turns, NEW j \in Turns,
                    DemoOracles[i] \in clean[d], DemoOracles[j] \in dirty[d]
             PROVE  FALSE
  BY TurnsExist DEF OneVerdict
<1>1. ASSUME NEW k \in Turns, NEW t \in confirmed, t.op = "attest", t.payment = d, t.step = k
      PROVE  DemoOracles[1] \in (IF t.verdict = "clean" THEN clean[d] ELSE dirty[d])
  <2>1. t \in Tx
    BY DEF VerdictInv, Typed, TypeOK
  <2>2. CASE k = 1
    BY <1>1, <2>2 DEF VerdictInv, Landed, Effected
  <2>3. CASE k # 1
    <3>1. 1 \in Turns /\ 1 < k
      BY <2>3, TurnsExist, TurnsOrdered
    <3>2. Before(t, 1) \in confirmed
      BY <1>1, <3>1 DEF VerdictInv, InTurn
    <3>3. /\ Before(t, 1).op = "attest" /\ Before(t, 1).payment = d
          /\ Before(t, 1).step = 1 /\ Before(t, 1).verdict = t.verdict
      BY <1>1, <2>1 DEF Before, Tx
    <3> QED BY <3>2, <3>3 DEF VerdictInv, Landed, Effected
  <2> QED BY <2>2, <2>3
<1>2. DemoOracles[1] \in clean[d] /\ DemoOracles[1] \in dirty[d]
  BY <1>1 DEF VerdictInv, Voted
<1> QED
  BY <1>2 DEF VerdictInv, Typed, ChainOK

\* As many votes as there are demo oracles make a quorum.
LEMMA AllTurnsDecide ==
    ASSUME NEW S \in SUBSET Oracles, IsFiniteSet(S), \A k \in Turns : DemoOracles[k] \in S
    PROVE  Cardinality(S) >= Quorum
<1> DEFINE vote == [k \in Turns |-> DemoOracles[k]]
<1>1. vote \in Injection(Turns, S)
  BY TurnsExist, DemoAssumption DEF Injection, IsInjective
<1>2. Cardinality(Turns) <= Cardinality(S)
  BY <1>1, FS_Injection
<1>3. Cardinality(Turns) = Quorum
  BY TurnsExist, FS_Interval
<1>4. Cardinality(S) \in Nat
  BY FS_CardinalityType
<1> QED BY <1>2, <1>3, <1>4, TurnsExist

\* A call whose last transaction is confirmed has done what it was for.
LEMMA ConfirmedIsDone ==
    ASSUME VerdictInv, NEW r \in Requests, Running(r), TxOf(r) \in confirmed,
           requests[r].op = "attest" => ~ (requests[r].step < Len(DemoOracles))
    PROVE  Done(requests[r])
<1> DEFINE q == requests[r]
           d == q.payment
<1>1. /\ q \in Request /\ TxOf(r).op = q.op /\ TxOf(r).payment = d
      /\ TxOf(r).verdict = q.verdict /\ TxOf(r).step = q.step
      /\ q.op = "attest" => TxOf(r) = AttestTx(r, q.step)
  BY TxType DEF VerdictInv
<1>2. Effected(TxOf(r))
  BY DEF VerdictInv, Landed
<1>3. d \in Payments /\ q.op \in Ops
  BY <1>1 DEF Request
<1>4. CASE q.op # "attest"
  BY <1>1, <1>2, <1>3, <1>4 DEF Effected, Done, Ops
<1>5. CASE q.op = "attest"
  <2> DEFINE votes == IF q.verdict = "clean" THEN clean[d] ELSE dirty[d]
  <2>1. q.step = Len(DemoOracles) /\ q.verdict \in Verdicts
    BY <1>1, <1>5, TurnsExist DEF Request, VerdictInv, Typed, Admitted, Running
  <2>2. ASSUME NEW k \in Turns PROVE DemoOracles[k] \in votes
    <3>1. AttestTx(r, k) \in confirmed
      <4>1. k = q.step \/ k < q.step
        BY <2>1, TurnsExist, TurnsOrdered
      <4>2. CASE k = q.step
        BY <1>1, <1>5, <4>2
      <4>3. CASE k < q.step
        BY <1>5, <4>3 DEF VerdictInv, InTurn
      <4> QED BY <4>1, <4>2, <4>3
    <3>2. Effected(AttestTx(r, k))
      BY <3>1 DEF VerdictInv, Landed
    <3> QED BY <3>2 DEF Effected, AttestTx
  <2>3. votes \in SUBSET Oracles /\ IsFiniteSet(votes)
    BY <1>3 DEF VerdictInv, Typed, ChainOK
  <2>4. Cardinality(votes) >= Quorum
    <3> HIDE DEF votes
    <3> QED BY <2>2, <2>3, AllTurnsDecide
  <2>5. Counted(d) /\ phase[d] \in Chain!Phases
    BY <1>3 DEF VerdictInv, Typed, ChainOK
  <2>6. ~ (Cardinality({}) >= Quorum)
    BY FS_EmptySet, TurnsExist
  <2>7. CASE q.verdict = "clean"
    <3>1. phase[d] \in {"Approved", "Released"}
      BY <2>4, <2>5, <2>6, <2>7 DEF Counted, Chain!Phases
    <3> QED BY <1>5, <2>7, <3>1 DEF Done
  <2>8. CASE q.verdict = "dirty"
    <3>1. phase[d] \in {"Rejected", "Refunded"}
      BY <2>4, <2>5, <2>6, <2>8 DEF Counted, Chain!Phases
    <3> QED BY <1>5, <2>8, <3>1 DEF Done
  <2> QED BY <2>1, <2>7, <2>8 DEF Verdicts
<1> QED BY <1>4, <1>5

\* What was done stays done.
LEMMA DoneStays ==
    ASSUME Typed, [Next]_vars
    PROVE  /\ \A q \in Request :
                 (q.op = "attest" => q.verdict \in Verdicts) /\ Done(q) => Done(q)'
           /\ \A t \in Tx : Effected(t) => Effected(t)'
<1>1. \A d \in Payments : Onward(d)
  BY ChainGoesOn
<1>2. ASSUME NEW q \in Request, q.op = "attest" => q.verdict \in Verdicts, Done(q)
      PROVE  Done(q)'
  <2>1. q.payment \in Payments /\ q.op \in Ops
    BY DEF Request
  <2>2. CASE q.op = "attest"
    BY <1>1, <1>2, <2>1, <2>2 DEF Done, Onward, Verdicts
  <2>3. CASE q.op # "attest"
    BY <1>1, <1>2, <2>1, <2>3 DEF Done, Onward, Ops
  <2> QED BY <2>2, <2>3
<1>3. ASSUME NEW t \in Tx, Effected(t) PROVE Effected(t)'
  BY <1>1, <1>3 DEF Effected, Onward, Tx
<1> QED BY <1>2, <1>3

LEMMA InitVerdict == Init => VerdictInv
  BY InitTyped DEF Init, VerdictInv, InTurn, Landed, Voted, OkMeansDone, Running

\* A transaction leaves the pool for the confirmed ones, or for good; a running request
\* keeps what it asks for and only goes on to the next turn from a confirmed one.
LEMMA StepInTurn == VerdictInv /\ [Next]_vars => InTurn'
<1> SUFFICES ASSUME VerdictInv, [Next]_vars PROVE InTurn'
  OBVIOUS
<1> DEFINE PoolInTurn == \A t \in pool \cup confirmed : t.op = "attest" =>
                            \A k \in Turns : k < t.step => Before(t, k) \in confirmed
           CallsInTurn == \A r \in Requests : Running(r) /\ requests[r].op = "attest" =>
                            \A k \in Turns : k < requests[r].step => AttestTx(r, k) \in confirmed
<1>0. PoolInTurn /\ CallsInTurn /\ Typed
  BY DEF VerdictInv, InTurn
<1>1. ASSUME NEW tx \in pool, Execute(tx) PROVE InTurn'
  <2>1. pool' \cup confirmed' = pool \cup confirmed /\ confirmed \subseteq confirmed' /\ requests' = requests
    BY <1>1 DEF Execute
  <2> QED BY <1>0, <2>1 DEF InTurn, Before, AttestTx, Running
<1>2. ASSUME NEW tx \in pool, Drop(tx) PROVE InTurn'
  BY <1>0, <1>2 DEF Drop, InTurn, Before, AttestTx, Running
<1>3. ASSUME UNCHANGED <<pool, confirmed, requests>> PROVE InTurn'
  BY <1>0, <1>3 DEF InTurn, Before, AttestTx, Running
<1>4. ASSUME NEW d \in Payments, SignAndPay(d) PROVE InTurn'
  BY <1>0, <1>4 DEF SignAndPay, InTurn, Before, AttestTx, Running
<1>5. ASSUME NEW r \in Requests, NEW op \in Ops, NEW d \in Payments,
             NEW v \in Verdicts \cup {None}, Call(r, op, d, v)
      PROVE  InTurn'
  <2>1. \A s \in Requests \ {r} : requests'[s] = requests[s]
    BY <1>0, <1>5 DEF Call, Typed, TypeOK
  <2>2. requests'[r].step = 1 /\ UNCHANGED <<pool, confirmed>>
    BY <1>0, <1>5 DEF Call, Typed, TypeOK
  <2>3. \A k \in Turns : ~ (k < 1)
    BY TurnsOrdered
  <2>4. PoolInTurn'
    BY <1>0, <2>2 DEF Before
  <2>5. CallsInTurn'
    BY <1>0, <2>1, <2>2, <2>3 DEF AttestTx, Running
  <2> QED BY <2>4, <2>5 DEF InTurn
<1>6. ASSUME NEW r \in Requests, Send(r) PROVE InTurn'
  <2>0. Running(r)
    BY <1>6 DEF Send, Running
  <2>1. requests[r] \in Request /\ TxOf(r).op = requests[r].op
        /\ (requests[r].op = "attest" => TxOf(r) = AttestTx(r, requests[r].step))
    BY <1>0, <2>0, TxType
  <2>2. /\ \A s \in Requests \ {r} : requests'[s] = requests[s]
        /\ requests'[r] = [requests[r] EXCEPT !.stage = "sent"]
        /\ pool' = pool \cup {TxOf(r)} /\ confirmed' = confirmed
    BY <1>0, <1>6 DEF Send, Typed, TypeOK
  <2>3. requests'[r].op = requests[r].op /\ requests'[r].step = requests[r].step
        /\ \A k : AttestTx(r, k)' = AttestTx(r, k)
    BY <2>1, <2>2 DEF Request, AttestTx
  <2>4. CallsInTurn'
    BY <1>0, <2>0, <2>2, <2>3 DEF AttestTx, Running
  <2>5. ASSUME requests[r].op = "attest", NEW k \in Turns, k < requests[r].step
        PROVE  Before(TxOf(r), k) \in confirmed
    <3>1. AttestTx(r, k) \in confirmed
      BY <1>0, <2>0, <2>5
    <3>2. Before(AttestTx(r, requests[r].step), k) = AttestTx(r, k)
      BY DEF Before, AttestTx
    <3> QED BY <2>1, <2>5, <3>1, <3>2
  <2>6. requests[r].op = "attest" => TxOf(r).step = requests[r].step
    BY <2>1 DEF AttestTx
  <2>7. PoolInTurn'
    BY <1>0, <2>1, <2>2, <2>5, <2>6 DEF Before
  <2> QED BY <2>4, <2>7 DEF InTurn
<1>7. ASSUME NEW r \in Requests, Fail(r) PROVE InTurn'
  <2>1. /\ \A s \in Requests \ {r} : requests'[s] = requests[s]
        /\ requests'[r].stage = "error" /\ UNCHANGED <<pool, confirmed>>
    BY <1>0, <1>7 DEF Fail, Typed, TypeOK, Request
  <2>2. PoolInTurn'
    BY <1>0, <2>1 DEF Before
  <2>3. CallsInTurn'
    BY <1>0, <2>1 DEF AttestTx, Running
  <2> QED BY <2>2, <2>3 DEF InTurn
<1>8. ASSUME NEW r \in Requests, Confirm(r) PROVE InTurn'
  <2> DEFINE q == requests[r]
  <2>0. Running(r) /\ TxOf(r) \in confirmed
    BY <1>8 DEF Confirm, Running
  <2>1. q \in Request /\ (q.op = "attest" => TxOf(r) = AttestTx(r, q.step))
    BY <1>0, <2>0, TxType
  <2>2. UNCHANGED <<pool, confirmed>> /\ \A s \in Requests \ {r} : requests'[s] = requests[s]
    BY <1>0, <1>8 DEF Confirm, Typed, TypeOK
  <2>3. CASE q.op = "attest" /\ q.step < Len(DemoOracles)
    <3>1. requests'[r] = [q EXCEPT !.step = q.step + 1, !.stage = "ready"]
      BY <1>0, <1>8, <2>3 DEF Confirm, Typed, TypeOK
    <3>2. requests'[r].step = q.step + 1 /\ \A k : AttestTx(r, k)' = AttestTx(r, k)
      BY <2>1, <3>1 DEF Request, AttestTx
    <3>3. \A k \in Turns : k < q.step + 1 => k < q.step \/ k = q.step
      BY <2>1, TurnsOrdered, TurnsExist DEF Request
    <3>4. \A k \in Turns : k < q.step + 1 => AttestTx(r, k) \in confirmed
      BY <1>0, <2>0, <2>1, <2>3, <3>3
    <3>5. CallsInTurn'
      BY <1>0, <2>2, <3>2, <3>4 DEF AttestTx, Running
    <3> QED BY <1>0, <2>2, <3>5 DEF InTurn, Before
  <2>4. CASE ~ (q.op = "attest" /\ q.step < Len(DemoOracles))
    <3>1. requests'[r].stage = "ok"
      BY <1>0, <1>8, <2>1, <2>4 DEF Confirm, Typed, TypeOK, Request
    <3>2. CallsInTurn'
      BY <1>0, <2>2, <3>1 DEF AttestTx, Running
    <3> QED BY <1>0, <2>2, <3>2 DEF InTurn, Before
  <2> QED BY <2>3, <2>4
<1>9. UNCHANGED vars => UNCHANGED <<pool, confirmed, requests>>
  BY DEF vars
<1> QED
  BY <1>1, <1>2, <1>3, <1>4, <1>5, <1>6, <1>7, <1>8, <1>9
  DEF Next, Cluster, Gateway, Customer, Handler, OtherOracle, Lapse, Observe,
      DemoInit, Connect, IssueAddress

\* A vote that a step adds is the one that the confirmed transaction was sent for.
LEMMA StepVoted == VerdictInv /\ [Next]_vars => Landed' /\ Voted'
<1> SUFFICES ASSUME VerdictInv, [Next]_vars PROVE Landed' /\ Voted'
  OBVIOUS
<1>0. Typed /\ Landed /\ Voted /\ confirmed \subseteq Tx
  BY DEF VerdictInv, Typed, TypeOK
<1>1. \A t \in confirmed : Effected(t)'
  BY <1>0, DoneStays DEF Landed
<1>2. ASSUME NEW tx \in pool, Execute(tx) PROVE Landed' /\ Voted'
  <2>1. tx \in Tx /\ tx.payment \in Payments
        /\ (tx.op = "attest" => tx.step \in Turns /\ tx.verdict \in Verdicts)
    BY <1>0 DEF Typed, TypeOK, Sent, Tx
  <2>2. confirmed' = confirmed \cup {tx}
    BY <1>2 DEF Execute
  <2>3. CASE tx.op = "attest"
    <3> DEFINE d == tx.payment
               o == DemoOracles[tx.step]
    <3>1. /\ o \notin clean[d] \cup dirty[d]
          /\ \/ clean' = [clean EXCEPT ![d] = @ \cup {o}] /\ UNCHANGED dirty
             \/ dirty' = [dirty EXCEPT ![d] = @ \cup {o}] /\ UNCHANGED clean
          /\ (tx.verdict = "clean") = (clean' # clean)
      BY <1>2, <2>3 DEF Execute, Effect, Chain!Decide
    <3>2. clean \in [Payments -> SUBSET Oracles] /\ dirty \in [Payments -> SUBSET Oracles]
      BY <1>0 DEF Typed, ChainOK
    <3>3. CASE tx.verdict = "clean"
      <4>1. dirty' = dirty /\ clean'[d] = clean[d] \cup {o}
            /\ \A e \in Payments \ {d} : clean'[e] = clean[e]
        BY <2>1, <3>1, <3>2, <3>3
      <4>2. Effected(tx)'
        BY <2>3, <3>3, <4>1 DEF Effected
      <4>3. \A k \in Turns : DemoOracles[k] = o => k = tx.step
        BY <2>1, <2>3, TurnsExist, DemoAssumption
      <4>4. Voted'
        BY <1>0, <2>1, <2>2, <2>3, <3>3, <4>1, <4>3 DEF Voted
      <4> QED BY <1>1, <2>2, <4>2, <4>4 DEF Landed
    <3>4. CASE tx.verdict = "dirty"
      <4>1. clean' = clean /\ dirty'[d] = dirty[d] \cup {o}
            /\ \A e \in Payments \ {d} : dirty'[e] = dirty[e]
        BY <2>1, <3>1, <3>2, <3>4
      <4>2. Effected(tx)'
        BY <2>3, <3>4, <4>1 DEF Effected
      <4>3. \A k \in Turns : DemoOracles[k] = o => k = tx.step
        BY <2>1, <2>3, TurnsExist, DemoAssumption
      <4>4. Voted'
        BY <1>0, <2>1, <2>2, <2>3, <3>4, <4>1, <4>3 DEF Voted
      <4> QED BY <1>1, <2>2, <4>2, <4>4 DEF Landed
    <3> QED BY <2>1, <2>3, <3>3, <3>4 DEF Verdicts
  <2>4. CASE tx.op # "attest"
    <3>0. phase \in [Payments -> Chain!Phases]
      BY <1>0 DEF Typed, ChainOK
    <3>1. clean' = clean /\ dirty' = dirty
      BY <1>2, <2>1, <2>4, <3>0
      DEF Execute, Effect, Chain!Hold, Chain!ReleaseIt, Chain!RefundIt, Chain!SettleAs
    <3>2. Effected(tx)'
      BY <1>2, <2>1, <2>4, <3>0
      DEF Execute, Effect, Effected, Chain!Hold, Chain!ReleaseIt, Chain!RefundIt, Chain!SettleAs
    <3>3. Voted'
      BY <1>0, <2>2, <3>1 DEF Voted
    <3> QED BY <1>1, <2>2, <3>2, <3>3 DEF Landed
  <2> QED BY <2>3, <2>4
<1>3. ASSUME NEW d \in Payments, NEW o \in Oracles, OtherOracle(d, o) PROVE Landed' /\ Voted'
  <2>1. /\ \A k \in Turns : DemoOracles[k] # o
        /\ \/ clean' = [clean EXCEPT ![d] = @ \cup {o}] /\ UNCHANGED dirty
           \/ dirty' = [dirty EXCEPT ![d] = @ \cup {o}] /\ UNCHANGED clean
        /\ confirmed' = confirmed
    BY <1>3, TurnsExist DEF OtherOracle, Chain!Decide
  <2>2. \A e \in Payments, k \in Turns :
            /\ DemoOracles[k] \in clean'[e] => DemoOracles[k] \in clean[e]
            /\ DemoOracles[k] \in dirty'[e] => DemoOracles[k] \in dirty[e]
    BY <1>0, <2>1 DEF Typed, ChainOK
  <2>3. Voted'
    BY <1>0, <2>1, <2>2 DEF Voted
  <2> QED BY <1>1, <2>1, <2>3 DEF Landed
<1>4. ASSUME UNCHANGED <<clean, dirty, confirmed>> PROVE Landed' /\ Voted'
  BY <1>0, <1>1, <1>4 DEF Landed, Voted
<1>5. ASSUME NEW d \in Payments, Lapse(d) PROVE UNCHANGED <<clean, dirty, confirmed>>
  BY <1>5 DEF Lapse, Chain!Lapse
<1>6. ASSUME Gateway \/ Customer \/ \E tx \in pool : Drop(tx)
      PROVE  UNCHANGED <<clean, dirty, confirmed>>
  BY <1>6 DEF Gateway, Customer, Drop, Observe, DemoInit, Handler, Send, Fail,
              Confirm, Call, Connect, IssueAddress, SignAndPay, chain
<1>7. UNCHANGED vars => UNCHANGED <<clean, dirty, confirmed>>
  BY DEF vars, chain
<1> QED
  BY <1>2, <1>3, <1>4, <1>5, <1>6, <1>7 DEF Next, Cluster

LEMMA StepDone == VerdictInv /\ [Next]_vars => OkMeansDone'
<1> SUFFICES ASSUME VerdictInv, [Next]_vars, NEW r \in Requests, NEW q, q = requests'[r],
                    q # None, q.stage = "ok"
             PROVE  Done(q)'
  BY DEF OkMeansDone, Done
<1>0. Typed
  BY DEF VerdictInv
<1>1. ASSUME NEW p \in Request, p.op = "attest" => p.verdict \in Verdicts, Done(p)
      PROVE  Done(p)'
  BY <1>0, <1>1, DoneStays
<1>2. CASE requests'[r] = requests[r]
  <2>1. q \in Request /\ Done(q) /\ (q.op = "attest" => q.verdict \in Verdicts)
    BY <1>2 DEF VerdictInv, OkMeansDone, Typed, TypeOK, Admitted
  <2> QED BY <1>1, <2>1
<1>3. CASE Confirm(r)
  <2>1. Running(r) /\ TxOf(r) \in confirmed /\ requests[r] \in Request
    BY <1>0, <1>3 DEF Confirm, Running, Typed, TypeOK
  <2>2. ~ (requests[r].op = "attest" /\ requests[r].step < Len(DemoOracles))
    BY <1>0, <1>3, <2>1 DEF Confirm, Typed, TypeOK, Request
  <2>3. Done(requests[r])
    BY <2>1, <2>2, ConfirmedIsDone
  <2>4. q = [requests[r] EXCEPT !.stage = "ok"]
    BY <1>0, <1>3, <2>2 DEF Confirm, Typed, TypeOK
  <2>5. /\ q \in Request /\ q.op = requests[r].op /\ q.verdict = requests[r].verdict
        /\ q.payment = requests[r].payment
    BY <2>1, <2>4 DEF Request
  <2>6. Done(q)
    BY <2>3, <2>5 DEF Done
  <2>7. q.op = "attest" => q.verdict \in Verdicts
    BY <1>0, <2>1, <2>5 DEF Typed, Admitted, Running
  <2> QED BY <1>1, <2>5, <2>6, <2>7
<1>4. CASE Send(r) \/ Fail(r) \/ \E op \in Ops, d \in Payments, v \in Verdicts \cup {None} : Call(r, op, d, v)
  <2>1. requests'[r].stage # "ok"
    BY <1>0, <1>4 DEF Send, Fail, Call, Typed, TypeOK, Request
  <2> QED BY <2>1
<1>5. ASSUME NEW s \in Requests \ {r},
             \/ Handler(s)
             \/ \E op \in Ops, d \in Payments, v \in Verdicts \cup {None} : Call(s, op, d, v)
      PROVE  requests'[r] = requests[r]
  BY <1>0, <1>5 DEF Handler, Send, Fail, Confirm, Call, Typed, TypeOK
<1>6. ASSUME Cluster \/ Customer \/ UNCHANGED vars
                \/ \E d \in Payments : Observe(d) \/ DemoInit(d)
      PROVE  requests'[r] = requests[r]
  BY <1>6 DEF Cluster, Customer, vars, Execute, Drop, OtherOracle, Lapse, Observe,
              DemoInit, Connect, IssueAddress, SignAndPay
<1> QED
  BY <1>2, <1>3, <1>4, <1>5, <1>6 DEF Next, Gateway, Handler

LEMMA VerdictHolds == Spec => []VerdictInv
<1>1. VerdictInv /\ [Next]_vars => VerdictInv'
  BY StepTyped, StepInTurn, StepVoted, StepDone DEF VerdictInv
<1> QED
  BY <1>1, InitVerdict, PTL DEF Spec

\* The gateway's oracles never contradict each other, for any number of them and of
\* concurrent calls, whichever are cut off and land later (demo.ts:177-198).
THEOREM Verdict == Spec => []OneVerdict
  BY VerdictHolds, TurnsAgree, PTL

\* What a demo route answers with signatures has come about on chain, however late other
\* calls' transactions land (demo.ts:115-281).
THEOREM OkIsDone == Spec => []OkMeansDone
<1>1. VerdictInv => OkMeansDone
  BY DEF VerdictInv
<1> QED
  BY <1>1, VerdictHolds, PTL

------------------------------------------------------------------------------
(* Calls are retried, cut off and executed late: each thing happens once.    *)

\* Two transactions that would do the same to a payment: hold it, settle it (whichever
\* way), or cast the vote of the same oracle.
Rivals(t, u) ==
    /\ t.payment = u.payment
    /\ \/ t.op = "simulate" /\ u.op = "simulate"
       \/ t.op \in {"release", "refund"} /\ u.op \in {"release", "refund"}
       \/ t.op = "attest" /\ u.op = "attest" /\ t.step = u.step

EachOnce == \A t, u \in confirmed : Rivals(t, u) => t = u

\* What has been done cannot be done again, by the same transaction or by a rival.
LEMMA NotAgain ==
    ASSUME NEW t \in Tx, NEW u \in Tx, Rivals(t, u), Effected(t),
           t.op = "attest" => t.verdict \in Verdicts
    PROVE  ~ Executable(u)
<1>1. CASE t.op = "simulate" /\ u.op = "simulate"
  BY <1>1 DEF Rivals, Effected, Executable
<1>2. CASE t.op \in {"release", "refund"} /\ u.op \in {"release", "refund"}
  BY <1>2 DEF Rivals, Effected, Executable
<1>3. CASE t.op = "attest" /\ u.op = "attest" /\ t.step = u.step
  BY <1>3 DEF Rivals, Effected, Executable
<1> QED BY <1>1, <1>2, <1>3 DEF Rivals

\* A payment is held once, settled once and attested once by each of the gateway's oracles,
\* although routes keep nothing of what they sent and a call that timed out is made again
\* while its first transaction may still land (demo.ts:54-66, 115-281).
THEOREM HappensOnce == Spec => []EachOnce
<1>1. Init => EachOnce
  BY DEF Init, EachOnce
<1>2. VerdictInv /\ EachOnce /\ [Next]_vars => EachOnce'
  <2> SUFFICES ASSUME VerdictInv, EachOnce, [Next]_vars PROVE EachOnce'
    OBVIOUS
  <2>1. ASSUME NEW tx \in pool, Execute(tx) PROVE EachOnce'
    <3>1. tx \in Tx /\ Executable(tx) /\ confirmed' = confirmed \cup {tx}
      BY <2>1 DEF Execute, VerdictInv, Typed, TypeOK
    <3>2. ASSUME NEW t \in confirmed PROVE ~ Rivals(t, tx) /\ ~ Rivals(tx, t)
      <4>1. t \in Tx /\ Effected(t) /\ (t.op = "attest" => t.verdict \in Verdicts)
        BY DEF VerdictInv, Typed, TypeOK, Sent, Landed
      <4>2. ~ Rivals(t, tx)
        BY <3>1, <4>1, NotAgain
      <4> QED BY <4>2 DEF Rivals
    <3> QED BY <3>1, <3>2 DEF EachOnce
  <2>2. CASE confirmed' = confirmed
    BY <2>2 DEF EachOnce
  <2>3. CASE ~ \E tx \in pool : Execute(tx)
    <3>1. confirmed' = confirmed
      BY <2>3 DEF Next, Cluster, Gateway, Customer, Drop, OtherOracle, Lapse, Observe, DemoInit, Handler, Send, Fail, Confirm, Call, Connect, IssueAddress,
                  SignAndPay, vars
    <3> QED BY <2>2, <3>1
  <2> QED BY <2>1, <2>3
<1> QED
  BY <1>1, <1>2, VerdictHolds, PTL DEF Spec

==============================================================================
