-------------------------- MODULE GatewaySyncProofs --------------------------
(* Theorems of GatewaySync, for any deposits, addresses, calls, vaults and either store. *)
EXTENDS GatewaySync, FiniteSetTheorems, TLAPS

------------------------------------------------------------------------------
(* Types.                                                                    *)

LEMMA WordsAreStates ==
    ASSUME NEW p \in Chain!Phases \ {"Absent"}
    PROVE  StateWord[p] \in Words
  BY DEF StateWord, Words, Chain!Phases

LEMMA MatchType ==
    ASSUME TypeOK, NEW w \in Webhook
    PROVE  OnChainMatch(w) \in [Stealths -> Record \cup {NoRecord}]
<1> DEFINE s == StealthOf[w.deposit]
<1>1. s \in Stealths
  BY SyncAssumption DEF Webhook
<1>2. CASE records[s] = NoRecord
  BY <1>2 DEF OnChainMatch, TypeOK
<1>3. CASE records[s] # NoRecord
  <2>1. records[s] \in Record
    BY <1>1, <1>3 DEF TypeOK
  <2>2. [state |-> IF w.state = "pending" THEN records[s].state ELSE w.state,
         on_chain_state |-> w.state, on_chain_address |-> w.deposit] \in Record
    BY <2>1 DEF Record, Webhook
  <2> QED
    BY <1>1, <1>3, <2>2 DEF OnChainMatch, TypeOK
<1> QED
  BY <1>2, <1>3

LEMMA StateSetType ==
    ASSUME TypeOK, NEW c \in Calls, records[CallOf[c].stealth] # NoRecord
    PROVE  StateSet(c) \in [Stealths -> Record \cup {NoRecord}]
<1> DEFINE s == CallOf[c].stealth
           word == IF CallOf[c].op = "release" THEN "released" ELSE "refunded"
<1>1. s \in Stealths /\ records[s] \in Record
  BY SyncAssumption DEF TypeOK
<1>2. word \in Words
  BY DEF StateWord, Words
<1>3. [records[s] EXCEPT !.state = word] \in Record
  BY <1>1, <1>2 DEF Record
<1> QED
  BY <1>1, <1>3 DEF StateSet, TypeOK

\* A call that has been admitted, and has still to write, keeps its record.
CheckedHasRecord ==
    \A c \in Calls : stage[c] = "checked" => records[CallOf[c].stealth] # NoRecord

\* Only Postgres checks and writes in two steps, and it keeps its records.
CheckedInPostgres == (\E c \in Calls : stage[c] = "checked") => store = "postgres"

\* A phase on chain, and those it has had.
PhasesOK ==
    /\ phase \in [Deposits -> Chain!Phases]
    /\ seen \in [Deposits -> SUBSET Chain!Phases]
    /\ \A d \in Deposits : phase[d] \in seen[d]

Typed == TypeOK /\ PhasesOK /\ CheckedHasRecord /\ CheckedInPostgres

LEMMA InitTyped == Init => Typed
<1> SUFFICES ASSUME Init PROVE Typed
  OBVIOUS
<1>1. posted \in [Webhook -> 0..MaxCopies]
  BY SyncAssumption DEF Init
<1>2. TypeOK
  BY <1>1 DEF Init, TypeOK
<1>3. PhasesOK
  BY DEF Init, PhasesOK, Chain!AInit, Chain!Phases
<1> QED
  BY <1>2, <1>3 DEF Init, Typed, CheckedHasRecord, CheckedInPostgres

LEMMA PhaseStep ==
    ASSUME phase \in [Deposits -> Chain!Phases], Chain!ANext
    PROVE  phase' \in [Deposits -> Chain!Phases]
<1>1. ASSUME NEW ds \in SUBSET Deposits, Chain!Lapse(ds) PROVE phase' = phase
  BY <1>1 DEF Chain!Lapse
<1>2. ASSUME NEW ds \in SUBSET Deposits, NEW q \in Quorums, Chain!Establish(ds, q)
      PROVE  phase' = phase
  BY <1>2 DEF Chain!Establish
<1>3. ASSUME NEW d \in Deposits,
             Chain!Hold(d) \/ Chain!ReleaseIt(d) \/ Chain!RefundIt(d)
                \/ \E o \in Oracles : Chain!Decide(d, o)
      PROVE  \E p \in Chain!Phases : phase' = [phase EXCEPT ![d] = p]
  BY <1>3 DEF Chain!Hold, Chain!ReleaseIt, Chain!RefundIt, Chain!Decide,
              Chain!SettleAs, Chain!Phases
<1> QED
  BY <1>1, <1>2, <1>3 DEF Chain!ANext

\* Every phase on chain is kept in the history, and nothing leaves it.
LEMMA SeenGrows ==
    ASSUME PhasesOK, [Next]_vars
    PROVE  PhasesOK' /\ \A d \in Deposits : seen[d] \subseteq seen'[d]
<1>1. CASE ChainStep
  BY <1>1, PhaseStep DEF ChainStep, PhasesOK
<1>2. CASE UNCHANGED <<phase, seen>>
  BY <1>2 DEF PhasesOK
<1>3. Next => ChainStep \/ UNCHANGED <<phase, seen>>
  BY DEF Next, UnreadableDeposit, ReceivingAddress, BecomeOverdue, Scan, Post, PostFails,
         DepositDetected, Refuse, Check, Write, CheckAndWrite, IndexerRestart,
         GatewayRestart, chain
<1> QED
  BY <1>1, <1>2, <1>3 DEF vars, chain

LEMMA StepTyped == Typed /\ [Next]_vars => Typed'
<1> SUFFICES ASSUME Typed, [Next]_vars PROVE Typed'
  OBVIOUS
<1> USE DEF Typed
<1>0. PhasesOK'
  BY SeenGrows
<1>1. CASE ChainStep
  BY <1>0, <1>1 DEF ChainStep, gateway, TypeOK, CheckedHasRecord, CheckedInPostgres
<1>2. CASE UnreadableDeposit
  BY <1>0, <1>2 DEF UnreadableDeposit, gateway, TypeOK, CheckedHasRecord, CheckedInPostgres
<1>3. ASSUME NEW s \in Stealths, ReceivingAddress(s) PROVE Typed'
  <2>1. [state |-> "pending", on_chain_state |-> "none", on_chain_address |-> "none"] \in Record
    BY DEF Record, StateWord, Words
  <2>2. NoRecord # [state |-> "pending", on_chain_state |-> "none", on_chain_address |-> "none"]
    BY <2>1, SyncAssumption
  <2>3. TypeOK'
    BY <1>3, <2>1 DEF ReceivingAddress, chain, TypeOK
  <2>4. CheckedHasRecord' /\ CheckedInPostgres'
    BY <1>3, <2>2, SyncAssumption DEF ReceivingAddress, TypeOK, CheckedHasRecord, CheckedInPostgres
  <2> QED BY <1>0, <2>3, <2>4
<1>4. ASSUME NEW s \in Stealths, BecomeOverdue(s) PROVE Typed'
  BY <1>0, <1>4 DEF BecomeOverdue, chain, TypeOK, CheckedHasRecord, CheckedInPostgres
<1>5. CASE Scan
  <2>1. \A d \in Deposits : Exists(d) => StateWord[phase[d]] \in Words
    BY WordsAreStates DEF Exists, PhasesOK
  <2>2. matches' \subseteq Webhook
    BY <1>5, <2>1 DEF Scan, Webhook
  <2> QED
    BY <1>0, <1>5, <2>2 DEF Scan, chain, gateway, TypeOK, CheckedHasRecord, CheckedInPostgres
<1>6. ASSUME NEW w \in Webhook, Post(w) PROVE Typed'
  <2>1. posted' \in [Webhook -> 0..MaxCopies]
    BY <1>6, SyncAssumption DEF Post, TypeOK
  <2> QED
    BY <1>0, <1>6, <2>1 DEF Post, chain, gateway, TypeOK, CheckedHasRecord, CheckedInPostgres
<1>7. ASSUME NEW w \in Webhook, PostFails(w) PROVE Typed'
  BY <1>0, <1>7 DEF PostFails, chain, gateway, TypeOK, CheckedHasRecord, CheckedInPostgres
<1>8. ASSUME NEW w \in Webhook, DepositDetected(w) PROVE Typed'
  <2>1. posted' \in [Webhook -> 0..MaxCopies]
    BY <1>8, SyncAssumption DEF DepositDetected, TypeOK
  <2>2. TypeOK'
    BY <1>8, <2>1, MatchType DEF DepositDetected, chain, TypeOK
  <2>3. \A s \in Stealths : records[s] # NoRecord => records'[s] # NoRecord
    <3> DEFINE s == StealthOf[w.deposit]
               new == [state |-> IF w.state = "pending" THEN records[s].state ELSE w.state,
                       on_chain_state |-> w.state, on_chain_address |-> w.deposit]
    <3>1. CASE records[s] = NoRecord
      BY <1>8, <3>1 DEF DepositDetected, OnChainMatch
    <3>2. CASE records[s] # NoRecord
      <4>1. s \in Stealths
        BY SyncAssumption DEF Webhook
      <4>2. records[s] \in Record
        BY <3>2, <4>1 DEF TypeOK
      <4>3. new \in Record
        BY <4>2 DEF Record, Webhook
      <4>4. new # NoRecord
        BY <4>3, SyncAssumption
      <4>5. records' = [records EXCEPT ![s] = new]
        BY <1>8, <3>2 DEF DepositDetected, OnChainMatch
      <4> HIDE DEF new, s
      <4> QED BY <4>4, <4>5 DEF TypeOK
    <3> QED BY <3>1, <3>2
  <2>4. CheckedHasRecord' /\ CheckedInPostgres'
    BY <1>8, <2>3, SyncAssumption DEF DepositDetected, CheckedHasRecord, CheckedInPostgres
  <2> QED BY <1>0, <2>2, <2>4
<1>9. ASSUME NEW c \in Calls, Refuse(c) PROVE Typed'
  BY <1>0, <1>9 DEF Refuse, chain, TypeOK, CheckedHasRecord, CheckedInPostgres
<1>10. ASSUME NEW c \in Calls, Check(c) PROVE Typed'
  BY <1>0, <1>10 DEF Check, MayCall, chain, TypeOK, CheckedHasRecord, CheckedInPostgres
<1>11. ASSUME NEW c \in Calls, Write(c) \/ CheckAndWrite(c) PROVE Typed'
  <2>1. records[CallOf[c].stealth] # NoRecord
    BY <1>11 DEF Write, CheckAndWrite, MayCall, CheckedHasRecord
  <2>2. records' = StateSet(c) /\ stage' = [stage EXCEPT ![c] = "done"]
        /\ UNCHANGED <<chain, store, issued, overdue, matches, posted>>
    BY <1>11 DEF Write, CheckAndWrite
  <2>3. TypeOK'
    BY <2>1, <2>2, StateSetType DEF chain, TypeOK
  <2>4. \A s \in Stealths : records[s] # NoRecord => records'[s] # NoRecord
    <3> DEFINE s == CallOf[c].stealth
               new == [records[s] EXCEPT !.state =
                          IF CallOf[c].op = "release" THEN "released" ELSE "refunded"]
    <3>1. new \in Record
      BY <2>1, SyncAssumption DEF TypeOK, Record, StateWord, Words
    <3>2. new # NoRecord
      BY <3>1, SyncAssumption
    <3>3. records' = [records EXCEPT ![s] = new]
      BY <2>2 DEF StateSet
    <3> HIDE DEF new, s
    <3> QED BY <3>2, <3>3 DEF TypeOK
  <2>5. CheckedHasRecord' /\ CheckedInPostgres'
    BY <2>2, <2>4, SyncAssumption DEF CheckedHasRecord, CheckedInPostgres, TypeOK
  <2> QED BY <1>0, <2>3, <2>5
<1>12. CASE IndexerRestart
  BY <1>0, <1>12 DEF IndexerRestart, chain, gateway, TypeOK, CheckedHasRecord, CheckedInPostgres
<1>13. CASE GatewayRestart
  <2>1. posted' \in [Webhook -> 0..MaxCopies]
    BY <1>13, SyncAssumption DEF GatewayRestart
  <2>2. TypeOK'
    BY <1>13, <2>1 DEF GatewayRestart, chain, TypeOK
  <2>3. \A c \in Calls : stage'[c] # "checked"
    BY <1>13 DEF GatewayRestart, TypeOK
  <2> QED BY <1>0, <2>2, <2>3 DEF CheckedHasRecord, CheckedInPostgres
<1>14. CASE UNCHANGED vars
  BY <1>0, <1>14 DEF vars, chain, gateway, TypeOK, CheckedHasRecord, CheckedInPostgres
<1> QED
  BY <1>1, <1>2, <1>3, <1>4, <1>5, <1>6, <1>7, <1>8, <1>9, <1>10, <1>11, <1>12, <1>13, <1>14
  DEF Next

\* Records, webhooks and calls stay typed, whatever the chain, the calls and restarts do
\* (routes.ts, store/memory.ts, store/postgres.ts).
THEOREM TypeCorrect == Spec => []TypeOK
<1>1. Typed => TypeOK
  BY DEF Typed
<1> QED
  BY <1>1, InitTyped, StepTyped, PTL DEF Spec

------------------------------------------------------------------------------
(* What is said of the chain has been so.                                    *)

\* Deposit d has been in the phase that a webhook calls by that word.
WasSo(d, word) == \E p \in seen[d] : p # "Absent" /\ StateWord[p] = word

\* Webhooks, to be posted or waiting, tell of a phase the deposit has had.
HeardWasSo ==
    /\ \A w \in matches : WasSo(w.deposit, w.state)
    /\ \A w \in Webhook : posted[w] > 0 => WasSo(w.deposit, w.state)

\* So does a record's own state, of a deposit to its address, unless a call has set it.
StatesBacked ==
    \A s \in Stealths : records[s] # NoRecord =>
        \/ records[s].state \in {"pending", "released", "refunded"}
        \/ \E d \in DepositsAt(s) : WasSo(d, records[s].state)

\* The reason that the gateway has for agreeing to a call.
Cause(c) ==
    LET s == CallOf[c].stealth IN
    IF CallOf[c].op = "release" THEN \E d \in DepositsAt(s) : "Approved" \in seen[d]
    ELSE s \in overdue \/ \E d \in DepositsAt(s) : "Rejected" \in seen[d]

\* A call has its reason from the check on.
CheckedWithCause == \A c \in Calls : stage[c] \in {"checked", "done"} => Cause(c)

HistoryInv == Typed /\ HeardWasSo /\ RecordsWereTrue /\ StatesBacked /\ CheckedWithCause

LEMMA WasSoStays ==
    ASSUME PhasesOK, [Next]_vars, NEW d \in Deposits, NEW word, WasSo(d, word)
    PROVE  WasSo(d, word)'
  BY SeenGrows DEF WasSo

\* The words of two phases differ.
LEMMA WordMeansPhase ==
    ASSUME PhasesOK, NEW d \in Deposits
    PROVE  /\ WasSo(d, "approved") => "Approved" \in seen[d]
           /\ WasSo(d, "rejected") => "Rejected" \in seen[d]
           /\ ~ WasSo(d, "expired")
  BY DEF WasSo, PhasesOK, StateWord, Chain!Phases

LEMMA InitHistory == Init => HistoryInv
  BY InitTyped DEF Init, HistoryInv, HeardWasSo, RecordsWereTrue, StatesBacked, CheckedWithCause

\* While records and calls stay as they are, what backs them stays too.
LEMMA BackingStays ==
    ASSUME HistoryInv, [Next]_vars
    PROVE  /\ UNCHANGED records => RecordsWereTrue' /\ StatesBacked'
           /\ UNCHANGED stage => CheckedWithCause'
           /\ \A c \in Calls : Cause(c) => Cause(c)'
<1>1. \A d \in Deposits : seen[d] \subseteq seen'[d]
  BY SeenGrows DEF HistoryInv, Typed
<1>2. overdue \subseteq overdue'
  BY DEF Next, vars, chain, gateway, ChainStep, UnreadableDeposit, ReceivingAddress,
         BecomeOverdue, Scan, Post, PostFails, DepositDetected, Refuse, Check, Write,
         CheckAndWrite, IndexerRestart, GatewayRestart
<1>3. \A c \in Calls : Cause(c) => Cause(c)'
  BY <1>1, <1>2 DEF Cause, DepositsAt
<1>4. ASSUME UNCHANGED records PROVE RecordsWereTrue' /\ StatesBacked'
  <2>1. RecordsWereTrue'
    BY <1>1, <1>4 DEF HistoryInv, RecordsWereTrue, DepositsAt
  <2>2. StatesBacked'
    BY <1>1, <1>4 DEF HistoryInv, StatesBacked, WasSo, DepositsAt
  <2> QED BY <2>1, <2>2
<1>5. ASSUME UNCHANGED stage PROVE CheckedWithCause'
  BY <1>3, <1>5 DEF HistoryInv, CheckedWithCause
<1> QED
  BY <1>3, <1>4, <1>5

LEMMA StepHeard == HistoryInv /\ [Next]_vars => HeardWasSo'
<1> SUFFICES ASSUME HistoryInv, [Next]_vars PROVE HeardWasSo'
  OBVIOUS
<1> USE DEF HistoryInv, Typed
<1>1. \A d \in Deposits : \A word : WasSo(d, word) => WasSo(d, word)'
  BY WasSoStays
<1>2. CASE Scan
  <2>1. \A d \in Deposits : Exists(d) => WasSo(d, StateWord[phase[d]])
    BY DEF Exists, WasSo, PhasesOK
  <2>2. seen' = seen /\ posted' = posted
    BY <1>2 DEF Scan
  <2>3. \A w \in matches' : w.deposit \in Deposits /\ WasSo(w.deposit, w.state)
    BY <1>2, <2>1 DEF Scan
  <2>4. \A w \in matches' : WasSo(w.deposit, w.state)'
    BY <1>1, <2>3
  <2> QED
    BY <1>1, <2>2, <2>4 DEF HeardWasSo, Webhook
<1>3. CASE (\E w \in Webhook : Post(w))
  <2>1. PICK w \in Webhook : Post(w)
    BY <1>3
  <2>2. WasSo(w.deposit, w.state)
    BY <2>1 DEF Post, HeardWasSo
  <2>3. \A v \in Webhook : posted'[v] > 0 => v = w \/ posted[v] > 0
    BY <2>1 DEF Post, TypeOK
  <2>4. matches' \subseteq matches
    BY <2>1 DEF Post
  <2> QED
    BY <1>1, <2>2, <2>3, <2>4 DEF HeardWasSo, Webhook, TypeOK
<1>4. CASE matches' \subseteq matches /\ \A w \in Webhook : posted'[w] > 0 => posted[w] > 0
  BY <1>1, <1>4 DEF HeardWasSo, Webhook, TypeOK
<1>5. CASE (\E w \in Webhook : DepositDetected(w))
  <2>1. PICK w \in Webhook : DepositDetected(w)
    BY <1>5
  <2>2. \A v \in Webhook : posted'[v] > 0 => posted[v] > 0
    BY <2>1, SyncAssumption DEF DepositDetected, TypeOK
  <2> QED BY <1>4, <2>1, <2>2 DEF DepositDetected
<1>6. CASE GatewayRestart
  <2>1. \A w \in Webhook : ~ (posted'[w] > 0)
    BY <1>6 DEF GatewayRestart
  <2> QED BY <1>4, <1>6, <2>1 DEF GatewayRestart
<1>7. CASE UNCHANGED <<matches, posted>>
  BY <1>4, <1>7
<1>8. CASE (\E w \in Webhook : PostFails(w)) \/ IndexerRestart
  BY <1>4, <1>8 DEF PostFails, IndexerRestart
<1> QED
  BY <1>2, <1>3, <1>5, <1>6, <1>7, <1>8
  DEF Next, vars, ChainStep, UnreadableDeposit, ReceivingAddress, BecomeOverdue, Refuse,
      Check, Write, CheckAndWrite

\* A record overwritten by what was so is backed by it.
LEMMA MatchBacked ==
    ASSUME HistoryInv, [Next]_vars, NEW w \in Webhook, DepositDetected(w)
    PROVE  RecordsWereTrue' /\ StatesBacked'
<1> USE DEF HistoryInv, Typed
<1> DEFINE s == StealthOf[w.deposit]
           new == [state |-> IF w.state = "pending" THEN records[s].state ELSE w.state,
                   on_chain_state |-> w.state, on_chain_address |-> w.deposit]
<1>1. CASE records[s] = NoRecord
  BY <1>1, BackingStays DEF DepositDetected, OnChainMatch
<1>2. CASE records[s] # NoRecord
  <2>1. s \in Stealths /\ w.deposit \in DepositsAt(s)
    BY SyncAssumption DEF Webhook, DepositsAt
  <2>2. records' = [records EXCEPT ![s] = new] /\ seen' = seen
    BY <1>2 DEF DepositDetected, OnChainMatch
  <2>3. WasSo(w.deposit, w.state)
    BY DEF DepositDetected, HeardWasSo
  <2>4. \A t \in Stealths : records'[t] = IF t = s THEN new ELSE records[t]
    <3> HIDE DEF new, s
    <3> QED BY <2>2 DEF TypeOK
  <2>5. RecordsWereTrue'
    <3> SUFFICES ASSUME NEW t \in Stealths, records'[t] # NoRecord,
                        records'[t].on_chain_address # "none"
                 PROVE  /\ records'[t].on_chain_address \in DepositsAt(t)
                        /\ \E p \in seen[records'[t].on_chain_address] :
                              p # "Absent" /\ StateWord[p] = records'[t].on_chain_state
      BY <2>2 DEF RecordsWereTrue, DepositsAt
    <3>1. CASE t = s
      BY <2>1, <2>3, <2>4, <3>1 DEF WasSo
    <3>2. CASE t # s
      BY <2>4, <3>2 DEF RecordsWereTrue
    <3> QED BY <3>1, <3>2
  <2>6. StatesBacked'
    <3> SUFFICES ASSUME NEW t \in Stealths, records'[t] # NoRecord
                 PROVE  \/ records'[t].state \in {"pending", "released", "refunded"}
                        \/ \E d \in DepositsAt(t) : WasSo(d, records'[t].state)
      BY <2>2 DEF StatesBacked, DepositsAt, WasSo
    <3>1. CASE t = s /\ w.state # "pending"
      <4>1. records'[t].state = w.state
        BY <2>4, <3>1
      <4> QED BY <2>1, <2>3, <3>1, <4>1
    <3>2. CASE t = s /\ w.state = "pending"
      <4>1. records'[t].state = records[t].state
        BY <2>4, <3>2
      <4> QED BY <1>2, <3>2, <4>1 DEF StatesBacked
    <3>3. CASE t # s
      BY <2>4, <3>3 DEF StatesBacked
    <3> QED BY <3>1, <3>2, <3>3
  <2> QED BY <2>5, <2>6
<1> QED BY <1>1, <1>2

\* A call changes a record's own state only, to one that nothing has to back.
LEMMA CallBacked ==
    ASSUME HistoryInv, [Next]_vars, NEW c \in Calls, Write(c) \/ CheckAndWrite(c)
    PROVE  RecordsWereTrue' /\ StatesBacked'
<1> USE DEF HistoryInv, Typed
<1> DEFINE s == CallOf[c].stealth
           word == IF CallOf[c].op = "release" THEN "released" ELSE "refunded"
<1>1. s \in Stealths /\ records[s] \in Record
  BY SyncAssumption DEF Write, CheckAndWrite, MayCall, CheckedHasRecord, TypeOK
<1>2. records' = [records EXCEPT ![s].state = word] /\ seen' = seen
  BY DEF Write, CheckAndWrite, StateSet
<1>3. word \in {"released", "refunded"}
  OBVIOUS
<1>4. /\ records'[s].state = word
      /\ records'[s].on_chain_state = records[s].on_chain_state
      /\ records'[s].on_chain_address = records[s].on_chain_address
  <2> HIDE DEF word, s
  <2> QED BY <1>1, <1>2 DEF TypeOK, Record
<1>5. \A t \in Stealths : t # s => records'[t] = records[t]
  <2> HIDE DEF word, s
  <2> QED BY <1>2 DEF TypeOK
<1>6. records[s] # NoRecord
  BY <1>1, SyncAssumption
<1> HIDE DEF s, word
<1>7. RecordsWereTrue'
  <2> SUFFICES ASSUME NEW t \in Stealths, records'[t] # NoRecord,
                      records'[t].on_chain_address # "none"
               PROVE  /\ records'[t].on_chain_address \in DepositsAt(t)
                      /\ \E p \in seen[records'[t].on_chain_address] :
                            p # "Absent" /\ StateWord[p] = records'[t].on_chain_state
    BY <1>2 DEF RecordsWereTrue, DepositsAt
  <2>1. CASE t = s
    BY <1>4, <1>6, <2>1 DEF RecordsWereTrue
  <2>2. CASE t # s
    BY <1>5, <2>2 DEF RecordsWereTrue
  <2> QED BY <2>1, <2>2
<1>8. StatesBacked'
  <2> SUFFICES ASSUME NEW t \in Stealths, records'[t] # NoRecord
               PROVE  \/ records'[t].state \in {"pending", "released", "refunded"}
                      \/ \E d \in DepositsAt(t) : WasSo(d, records'[t].state)
    BY <1>2 DEF StatesBacked, DepositsAt, WasSo
  <2>1. CASE t = s
    BY <1>3, <1>4, <2>1
  <2>2. CASE t # s
    BY <1>5, <2>2 DEF StatesBacked
  <2> QED BY <2>1, <2>2
<1> QED BY <1>7, <1>8

\* A new record says nothing of the chain yet, and a lost one nothing any more.
LEMMA OthersBacked ==
    ASSUME HistoryInv, [Next]_vars, GatewayRestart \/ \E s \in Stealths : ReceivingAddress(s)
    PROVE  RecordsWereTrue' /\ StatesBacked'
<1> USE DEF HistoryInv, Typed
<1>1. CASE GatewayRestart
  <2>1. CASE store = "postgres"
    BY <1>1, <2>1, BackingStays DEF GatewayRestart
  <2>2. CASE store # "postgres"
    BY <1>1, <2>2 DEF GatewayRestart, RecordsWereTrue, StatesBacked
  <2> QED BY <2>1, <2>2
<1>2. ASSUME NEW s \in Stealths, ReceivingAddress(s) PROVE RecordsWereTrue' /\ StatesBacked'
  <2>1. /\ seen' = seen
        /\ records'[s].state = "pending" /\ records'[s].on_chain_address = "none"
        /\ \A t \in Stealths : t # s => records'[t] = records[t]
    BY <1>2 DEF ReceivingAddress, TypeOK
  <2>2. RecordsWereTrue'
    BY <2>1 DEF RecordsWereTrue, DepositsAt
  <2>3. StatesBacked'
    BY <2>1 DEF StatesBacked, DepositsAt, WasSo
  <2> QED BY <2>2, <2>3
<1> QED BY <1>1, <1>2

LEMMA AdmittedWithCause ==
    ASSUME HistoryInv, NEW c \in Calls, MayCall(c)
    PROVE  Cause(c)
<1> USE DEF HistoryInv, Typed
<1> DEFINE s == CallOf[c].stealth
<1>1. s \in Stealths /\ records[s] # NoRecord
  BY SyncAssumption DEF MayCall
<1>2. \A d \in DepositsAt(s) : /\ WasSo(d, "approved") => "Approved" \in seen[d]
                               /\ WasSo(d, "rejected") => "Rejected" \in seen[d]
                               /\ ~ WasSo(d, "expired")
  BY WordMeansPhase DEF DepositsAt
<1>3. CASE CallOf[c].op = "release"
  <2>1. records[s].state = "approved"
    BY <1>3 DEF MayCall
  <2> QED BY <1>1, <1>2, <1>3, <2>1 DEF StatesBacked, Cause
<1>4. CASE CallOf[c].op # "release"
  <2>1. records[s].state \in {"rejected", "expired"} \/ s \in overdue
    BY <1>4 DEF MayCall
  <2> QED BY <1>1, <1>2, <1>4, <2>1 DEF StatesBacked, Cause
<1> QED BY <1>3, <1>4

LEMMA StepHistory == HistoryInv /\ [Next]_vars => HistoryInv'
<1> SUFFICES ASSUME HistoryInv, [Next]_vars PROVE HistoryInv'
  OBVIOUS
<1>1. Typed' /\ HeardWasSo'
  BY StepTyped, StepHeard DEF HistoryInv
<1>2. RecordsWereTrue' /\ StatesBacked'
  <2>1. CASE UNCHANGED records
    BY <2>1, BackingStays
  <2>2. CASE ~ UNCHANGED records
    BY <2>2, MatchBacked, CallBacked, OthersBacked
    DEF Next, vars, chain, gateway, ChainStep, UnreadableDeposit, BecomeOverdue, Scan, Post,
        PostFails, Refuse, Check, IndexerRestart
  <2> QED BY <2>1, <2>2
<1>3. CheckedWithCause'
  <2>1. CASE UNCHANGED stage
    BY <2>1, BackingStays
  <2>2. CASE GatewayRestart
    <3>1. \A c \in Calls : stage'[c] \in {"checked", "done"} => stage[c] \in {"checked", "done"}
      BY <2>2 DEF GatewayRestart
    <3> QED BY <3>1, BackingStays DEF CheckedWithCause, HistoryInv
  <2>3. ASSUME NEW c \in Calls, Refuse(c) \/ Check(c) \/ Write(c) \/ CheckAndWrite(c)
        PROVE  CheckedWithCause'
    <3>1. stage' = [stage EXCEPT ![c] = "failed"] \/ Cause(c)
      BY <2>3, AdmittedWithCause
      DEF Refuse, Check, Write, CheckAndWrite, CheckedWithCause, HistoryInv
    <3>2. \A e \in Calls : e # c => stage'[e] = stage[e]
      BY <2>3 DEF Refuse, Check, Write, CheckAndWrite, HistoryInv, Typed, TypeOK
    <3>3. stage \in [Calls -> {"unsent", "checked", "done", "failed"}]
      BY DEF HistoryInv, Typed, TypeOK
    <3> QED BY <3>1, <3>2, <3>3, BackingStays DEF CheckedWithCause, HistoryInv
  <2> QED
    BY <2>1, <2>2, <2>3
    DEF Next, vars, chain, gateway, ChainStep, UnreadableDeposit, ReceivingAddress,
        BecomeOverdue, Scan, Post, PostFails, DepositDetected, IndexerRestart
<1> QED
  BY <1>1, <1>2, <1>3 DEF HistoryInv

LEMMA HistoryHolds == Spec => []HistoryInv
  BY InitHistory, StepHistory, PTL DEF Spec

\* What a record says of the chain was so, for any number of deposits to any addresses and
\* any losses and delays of webhooks (webhook.rs, routes.ts:205-226).
THEOREM RecordsTrue == Spec => []RecordsWereTrue
<1>1. HistoryInv => RecordsWereTrue
  BY DEF HistoryInv
<1> QED
  BY <1>1, HistoryHolds, PTL

\* The gateway never agrees to a release or refund without cause, for any number of
\* concurrent calls on either store (routes.ts:100-145).
THEOREM CallsHaveCause == Spec => []AgreedWithCause
<1>1. HistoryInv => AgreedWithCause
  BY DEF HistoryInv, CheckedWithCause, Cause, AgreedWithCause
<1> QED
  BY <1>1, HistoryHolds, PTL

------------------------------------------------------------------------------
(* The safety half of CatchesUp: what has caught up stays so.                 *)

SettledWord(d) ==
    CASE phase[d] = "Released" -> "released" [] phase[d] = "Refunded" -> "refunded"

\* A payment is settled, its record says so if it is still there, every webhook for that
\* record on its way says so too, and no call has still to write to it.
CaughtUp(d) ==
    LET s == StealthOf[d] IN
    /\ phase[d] \in {"Released", "Refunded"} /\ s \in issued
    /\ records[s] # NoRecord => records[s].state = SettledWord(d)
    /\ \A w \in matches : StealthOf[w.deposit] = s => w.state = SettledWord(d)
    /\ \A w \in Webhook :
          posted[w] > 0 /\ StealthOf[w.deposit] = s => w.state = SettledWord(d)
    /\ \A c \in Calls : CallOf[c].stealth = s => stage[c] # "checked"

\* The lifecycle has no way out of a settlement.
LEMMA SettledIsFinal ==
    ASSUME phase \in [Deposits -> Chain!Phases], Chain!ANext,
           NEW d \in Deposits, phase[d] \in {"Released", "Refunded"}
    PROVE  phase'[d] = phase[d]
<1>1. ASSUME NEW ds \in SUBSET Deposits, Chain!Lapse(ds) PROVE phase' = phase
  BY <1>1 DEF Chain!Lapse
<1>2. ASSUME NEW ds \in SUBSET Deposits, NEW q \in Quorums, Chain!Establish(ds, q)
      PROVE  phase' = phase
  BY <1>2 DEF Chain!Establish
<1>3. ASSUME NEW e \in Deposits,
             Chain!Hold(e) \/ Chain!ReleaseIt(e) \/ Chain!RefundIt(e)
                \/ \E o \in Oracles : Chain!Decide(e, o)
      PROVE  e # d /\ \E p : phase' = [phase EXCEPT ![e] = p]
  BY <1>3 DEF Chain!Hold, Chain!ReleaseIt, Chain!RefundIt, Chain!Decide, Chain!SettleAs
<1> QED
  BY <1>1, <1>2, <1>3 DEF Chain!ANext

LEMMA CaughtUpStep ==
    ASSUME NEW d \in Deposits, DepositsAt(StealthOf[d]) = {d},
           Typed, CaughtUp(d), [Next]_vars
    PROVE  CaughtUp(d)'
<1> DEFINE s == StealthOf[d]
           word == SettledWord(d)
<1> USE DEF Typed
<1>1. s \in Stealths
  BY SyncAssumption
<1>2. phase'[d] = phase[d] /\ SettledWord(d)' = word
  <2>1. phase'[d] = phase[d]
    <3>1. CASE ChainStep
      BY <3>1, SettledIsFinal DEF ChainStep, PhasesOK, CaughtUp
    <3>2. CASE phase' = phase
      BY <3>2
    <3> QED
      BY <3>1, <3>2 DEF Next, vars, chain, UnreadableDeposit, ReceivingAddress, BecomeOverdue,
            Scan, Post, PostFails, DepositDetected, Refuse, Check, Write, CheckAndWrite,
            IndexerRestart, GatewayRestart
  <2> QED
    BY <2>1 DEF SettledWord
<1>3. word \in {"released", "refunded"} /\ word = StateWord[phase[d]]
  BY DEF CaughtUp, SettledWord, StateWord
<1>4. /\ records[s] # NoRecord => records[s].state = word
      /\ \A w \in matches : StealthOf[w.deposit] = s => w.state = word
      /\ \A w \in Webhook : posted[w] > 0 /\ StealthOf[w.deposit] = s => w.state = word
      /\ \A c \in Calls : CallOf[c].stealth = s => stage[c] # "checked"
      /\ s \in issued
  BY DEF CaughtUp
<1> HIDE DEF word
<1>5. issued \subseteq issued'
  BY DEF Next, vars, gateway, ChainStep, UnreadableDeposit, ReceivingAddress, BecomeOverdue,
         Scan, Post, PostFails, DepositDetected, Refuse, Check, Write, CheckAndWrite,
         IndexerRestart, GatewayRestart
<1>6. \A c \in Calls : CallOf[c].stealth = s => ~ MayCall(c)
  BY <1>1, <1>3, <1>4 DEF MayCall
<1>7. \A c \in Calls : CallOf[c].stealth = s => stage'[c] # "checked"
  BY <1>4, <1>6 DEF Next, vars, gateway, ChainStep, UnreadableDeposit, ReceivingAddress,
         BecomeOverdue, Scan, Post, PostFails, DepositDetected, Refuse, Check, Write,
         CheckAndWrite, IndexerRestart, GatewayRestart, TypeOK
<1>8. records'[s] # NoRecord => records'[s].state = word
  <2>1. CASE UNCHANGED records
    BY <1>4, <2>1
  <2>2. ASSUME NEW w \in Webhook, DepositDetected(w)
        PROVE  records'[s] # NoRecord => records'[s].state = word
    <3>1. CASE StealthOf[w.deposit] = s /\ records[s] # NoRecord
      <4>1. w.state = word /\ w.state # "pending"
        BY <1>3, <1>4, <2>2, <3>1 DEF DepositDetected
      <4> QED
        BY <1>1, <2>2, <3>1, <4>1 DEF DepositDetected, OnChainMatch, TypeOK
    <3>2. CASE StealthOf[w.deposit] # s \/ records[s] = NoRecord
      BY <1>1, <1>4, <2>2, <3>2 DEF DepositDetected, OnChainMatch, TypeOK
    <3> QED
      BY <3>1, <3>2
  <2>3. ASSUME NEW c \in Calls, Write(c) \/ CheckAndWrite(c)
        PROVE  records'[s] # NoRecord => records'[s].state = word
    <3>1. CallOf[c].stealth # s
      BY <1>4, <1>6, <2>3 DEF Write, CheckAndWrite
    <3> QED
      BY <1>4, <2>3, <3>1 DEF Write, CheckAndWrite, StateSet, TypeOK
  <2>4. ASSUME NEW t \in Stealths, ReceivingAddress(t)
        PROVE  records'[s] # NoRecord => records'[s].state = word
    BY <1>4, <2>4 DEF ReceivingAddress, TypeOK
  <2>5. CASE GatewayRestart
    BY <1>1, <1>4, <2>5 DEF GatewayRestart
  <2> QED
    BY <2>1, <2>2, <2>3, <2>4, <2>5 DEF Next, vars, gateway, ChainStep, UnreadableDeposit,
       BecomeOverdue, Scan, Post, PostFails, Refuse, Check, IndexerRestart
<1>9. \A w \in matches' : StealthOf[w.deposit] = s => w.state = word
  <2>1. CASE Scan
    BY <1>3, <2>1 DEF Scan, DepositsAt
  <2>2. CASE matches' \subseteq matches
    BY <1>4, <2>2
  <2> QED
    BY <2>1, <2>2 DEF Next, vars, gateway, ChainStep, UnreadableDeposit, ReceivingAddress,
       BecomeOverdue, Post, PostFails, DepositDetected, Refuse, Check, Write, CheckAndWrite,
       IndexerRestart, GatewayRestart
<1>10. \A w \in Webhook : posted'[w] > 0 /\ StealthOf[w.deposit] = s => w.state = word
  <2>1. CASE \E v \in Webhook : Post(v)
    <3>0. PICK v \in Webhook : Post(v)
      BY <2>1
    <3>1. \A w \in Webhook : posted'[w] > 0 => w = v \/ posted[w] > 0
      BY <3>0 DEF Post, TypeOK
    <3> QED
      BY <1>4, <3>0, <3>1 DEF Post
  <2>2. CASE \A w \in Webhook : posted'[w] > 0 => posted[w] > 0
    BY <1>4, <2>2
  <2>3. ASSUME NEW v \in Webhook, DepositDetected(v)
        PROVE  \A w \in Webhook : posted'[w] > 0 => posted[w] > 0
    BY <2>3, SyncAssumption DEF DepositDetected, TypeOK
  <2>4. CASE GatewayRestart
    BY <2>4 DEF GatewayRestart
  <2> QED
    BY <2>1, <2>2, <2>3, <2>4 DEF Next, vars, gateway, ChainStep, UnreadableDeposit,
       ReceivingAddress, BecomeOverdue, Scan, PostFails, Refuse, Check, Write, CheckAndWrite,
       IndexerRestart
<1> QED
  BY <1>2, <1>5, <1>7, <1>8, <1>9, <1>10 DEF CaughtUp

\* Once a payment that is alone at its address is settled and what is under way agrees, no
\* later pass, webhook, call or restart makes its record say anything else, on either store
\* (routes.ts:100-145, store/memory.ts:71-79, store/postgres.ts:189).
THEOREM CaughtUpStays ==
    ASSUME NEW d \in Deposits, DepositsAt(StealthOf[d]) = {d}
    PROVE  Spec => [](CaughtUp(d) => []CaughtUp(d))
<1>1. Typed /\ CaughtUp(d) /\ [Next]_vars => CaughtUp(d)'
  BY CaughtUpStep
<1> QED
  BY <1>1, InitTyped, StepTyped, PTL DEF Spec

\* How often a webhook is still on its way.
OnItsWay(w) == (IF w \in matches THEN 1 ELSE 0) + posted[w]

\* After a deposit is settled no step makes another webhook that says something else of
\* it: those on their way are used up and not replaced, so that passes, losses, restarts
\* and reordering can delay CaughtUp and never undo progress to it (rpc_scan.rs:15-49,
\* main.rs:42-63 of the indexer).
StaleRunsOut ==
    [][\A w \in Webhook :
         /\ phase[w.deposit] \in {"Released", "Refunded"}
         /\ w.state # SettledWord(w.deposit)
         => OnItsWay(w)' <= OnItsWay(w)]_vars

\* What the indexer and the gateway still owe a settled deposit only shrinks, for any
\* number of deposits to an address, passes, losses and restarts.
THEOREM StaleWebhooksRunOut == Spec => StaleRunsOut
<1>1. ASSUME Typed, [Next]_vars, NEW w \in Webhook,
             phase[w.deposit] \in {"Released", "Refunded"},
             w.state # SettledWord(w.deposit)
      PROVE  OnItsWay(w)' <= OnItsWay(w)
  <2> USE <1>1 DEF Typed
  <2>1. posted[w] \in Nat /\ posted \in [Webhook -> 0..MaxCopies]
    BY SyncAssumption DEF TypeOK
  <2>2. CASE Scan
    <3>1. StateWord[phase[w.deposit]] = SettledWord(w.deposit)
      BY DEF StateWord, SettledWord
    <3>2. w \notin matches'
      BY <2>2, <3>1 DEF Scan
    <3> QED
      BY <2>1, <2>2, <3>2 DEF Scan, OnItsWay
  <2>3. ASSUME NEW v \in Webhook, Post(v) PROVE OnItsWay(w)' <= OnItsWay(w)
    <3>1. CASE w = v
      BY <2>1, <2>3, <3>1 DEF Post, OnItsWay
    <3>2. CASE w # v
      BY <2>1, <2>3, <3>2 DEF Post, OnItsWay
    <3> QED
      BY <3>1, <3>2
  <2>4. CASE matches' \subseteq matches /\ posted'[w] \in Nat /\ posted'[w] <= posted[w]
    BY <2>1, <2>4 DEF OnItsWay
  <2>5. ASSUME NEW v \in Webhook, DepositDetected(v)
        PROVE  posted'[w] \in Nat /\ posted'[w] <= posted[w]
    BY <2>1, <2>5, SyncAssumption DEF DepositDetected
  <2>6. CASE GatewayRestart
    BY <2>1, <2>4, <2>6 DEF GatewayRestart
  <2> QED
    BY <2>1, <2>2, <2>3, <2>4, <2>5, <2>6 DEF Next, vars, gateway, ChainStep,
       UnreadableDeposit, ReceivingAddress, BecomeOverdue, PostFails, DepositDetected, Refuse,
       Check, Write, CheckAndWrite, IndexerRestart
<1>2. ASSUME Typed, [Next]_vars
      PROVE  \A w \in Webhook :
               /\ phase[w.deposit] \in {"Released", "Refunded"}
               /\ w.state # SettledWord(w.deposit)
               => OnItsWay(w)' <= OnItsWay(w)
  BY <1>1, <1>2
<1> QED
  BY <1>2, InitTyped, StepTyped, PTL DEF Spec, StaleRunsOut

------------------------------------------------------------------------------
(* From the oracles to the record.                                           *)

\* Votes are counted alike here and in EscrowLifecycle.
LEMMA SameCount == \A S : Chain!Cardinality(S) = Cardinality(S)
  BY DEF Cardinality, Chain!Cardinality, IsFiniteSet, Chain!IsFiniteSet

CleanQuorum(d) == Cardinality(clean[d]) >= quorum[d]
DirtyQuorum(d) == Cardinality(dirty[d]) >= quorum[d]

\* A phase is what the votes on record make it, also after the settlement.
Judged(d) ==
    /\ quorum[d] \in Nat
    /\ phase[d] = "Absent" => clean[d] = {} /\ dirty[d] = {}
    /\ phase[d] # "Absent" => quorum[d] > 0
    /\ phase[d] = "Pending" => ~ CleanQuorum(d) /\ ~ DirtyQuorum(d)
    /\ phase[d] \in {"Approved", "Released"} => CleanQuorum(d) /\ ~ DirtyQuorum(d)
    /\ phase[d] = "Rejected" => DirtyQuorum(d) /\ ~ CleanQuorum(d)
    /\ phase[d] = "Refunded" => ~ CleanQuorum(d) /\ (DirtyQuorum(d) \/ d \in lapsed)

JudgedInv ==
    /\ clean \in [Deposits -> SUBSET Oracles] /\ dirty \in [Deposits -> SUBSET Oracles]
    /\ quorum \in [Deposits -> Nat]
    /\ \A d \in Deposits : Judged(d)

\* The lifecycle of one deposit leaves the others as they are.
LEMMA OneJudged ==
    ASSUME Typed, JudgedInv, NEW d \in Deposits,
           NEW p, NEW c \in SUBSET Oracles, NEW x \in SUBSET Oracles,
           phase' = [phase EXCEPT ![d] = p], clean' = [clean EXCEPT ![d] = c],
           dirty' = [dirty EXCEPT ![d] = x], quorum' = quorum,
           lapsed' = lapsed \/ lapsed' = lapsed \ {d},
           Judged(d)'
    PROVE  JudgedInv'
<1>1. /\ clean' \in [Deposits -> SUBSET Oracles] /\ dirty' \in [Deposits -> SUBSET Oracles]
      /\ quorum' \in [Deposits -> Nat]
  BY DEF JudgedInv
<1>2. ASSUME NEW e \in Deposits, e # d PROVE Judged(e)'
  <2>1. /\ phase'[e] = phase[e] /\ clean'[e] = clean[e] /\ dirty'[e] = dirty[e]
        /\ quorum'[e] = quorum[e] /\ (e \in lapsed => e \in lapsed')
    BY <1>2 DEF JudgedInv, Typed, PhasesOK
  <2> QED BY <2>1 DEF JudgedInv, Judged, CleanQuorum, DirtyQuorum
<1> QED
  BY <1>1, <1>2 DEF JudgedInv

LEMMA HoldJudged ==
    ASSUME Typed, JudgedInv, NEW d \in Deposits, Chain!Hold(d)
    PROVE  JudgedInv'
<1>1. /\ quorum[d] \in Nat /\ quorum[d] > 0 /\ phase[d] = "Absent"
      /\ clean[d] = {} /\ dirty[d] = {} /\ phase' = [phase EXCEPT ![d] = "Pending"]
      /\ clean' = clean /\ dirty' = dirty /\ lapsed' = lapsed /\ quorum' = quorum
      /\ phase'[d] = "Pending"
  BY DEF Chain!Hold, JudgedInv, Judged, Typed, PhasesOK
<1>2. Cardinality({}) = 0
  BY FS_EmptySet
<1>3. Judged(d)'
  BY <1>1, <1>2 DEF Judged, CleanQuorum, DirtyQuorum
<1>4. clean' = [clean EXCEPT ![d] = {}] /\ dirty' = [dirty EXCEPT ![d] = {}]
  BY <1>1 DEF JudgedInv
<1> QED
  BY <1>1, <1>3, <1>4, OneJudged

LEMMA DecideJudged ==
    ASSUME Typed, JudgedInv, NEW d \in Deposits, NEW o \in Oracles, Chain!Decide(d, o)
    PROVE  JudgedInv'
<1> DEFINE p == IF Cardinality(dirty'[d]) >= quorum[d] THEN "Rejected"
                ELSE IF Cardinality(clean'[d]) >= quorum[d] THEN "Approved"
                ELSE "Pending"
<1>1. /\ phase[d] = "Pending" /\ quorum' = quorum /\ lapsed' = lapsed
      /\ phase' = [phase EXCEPT ![d] = p]
      /\ \/ clean' = [clean EXCEPT ![d] = @ \cup {o}] /\ dirty' = dirty
         \/ dirty' = [dirty EXCEPT ![d] = @ \cup {o}] /\ clean' = clean
  BY SameCount DEF Chain!Decide
<1>2. phase'[d] = p
  BY <1>1 DEF Typed, PhasesOK
<1>3. ~ CleanQuorum(d) /\ ~ DirtyQuorum(d) /\ quorum[d] \in Nat /\ quorum[d] > 0
  BY <1>1 DEF JudgedInv, Judged
<1>4. clean'[d] = clean[d] \/ dirty'[d] = dirty[d]
  BY <1>1
<1>5. Judged(d)'
  BY <1>1, <1>2, <1>3, <1>4 DEF Judged, CleanQuorum, DirtyQuorum
<1>6. /\ clean' = [clean EXCEPT ![d] = clean'[d]] /\ clean'[d] \in SUBSET Oracles
      /\ dirty' = [dirty EXCEPT ![d] = dirty'[d]] /\ dirty'[d] \in SUBSET Oracles
  BY <1>1 DEF JudgedInv
<1> HIDE DEF p
<1> QED
  BY <1>1, <1>5, <1>6, OneJudged

LEMMA SettleJudged ==
    ASSUME Typed, JudgedInv, NEW d \in Deposits, Chain!ReleaseIt(d) \/ Chain!RefundIt(d)
    PROVE  JudgedInv'
<1>1. Judged(d) /\ clean[d] \in SUBSET Oracles /\ dirty[d] \in SUBSET Oracles
  BY DEF JudgedInv
<1>2. PICK final \in {"Released", "Refunded"} :
         /\ Chain!SettleAs(d, final)
         /\ IF final = "Released" THEN phase[d] = "Approved"
            ELSE phase[d] = "Rejected" \/ (phase[d] = "Pending" /\ d \in lapsed)
  BY DEF Chain!ReleaseIt, Chain!RefundIt
<1>3. CASE phase' = [phase EXCEPT ![d] = final] /\ UNCHANGED <<clean, dirty, lapsed, quorum>>
  <2>1. phase'[d] = final
    BY <1>3 DEF Typed, PhasesOK
  <2>2. Judged(d)'
    BY <1>1, <1>2, <1>3, <2>1 DEF Judged, CleanQuorum, DirtyQuorum
  <2>3. clean' = [clean EXCEPT ![d] = clean[d]] /\ dirty' = [dirty EXCEPT ![d] = dirty[d]]
    BY <1>3 DEF JudgedInv
  <2> QED BY <1>1, <1>3, <2>2, <2>3, OneJudged
<1>4. CASE /\ phase' = [phase EXCEPT ![d] = "Absent"]
           /\ clean' = [clean EXCEPT ![d] = {}] /\ dirty' = [dirty EXCEPT ![d] = {}]
           /\ lapsed' = lapsed \ {d} /\ quorum' = quorum
  <2>1. phase'[d] = "Absent" /\ clean'[d] = {} /\ dirty'[d] = {}
    BY <1>4 DEF Typed, PhasesOK, JudgedInv
  <2>2. Judged(d)'
    BY <1>1, <1>4, <2>1 DEF Judged
  <2>3. PICK none \in SUBSET Oracles : none = {}
    OBVIOUS
  <2>4. clean' = [clean EXCEPT ![d] = none] /\ dirty' = [dirty EXCEPT ![d] = none]
    BY <1>4, <2>3
  <2> QED BY <1>4, <2>2, <2>4, OneJudged
<1> QED
  BY <1>2, <1>3, <1>4 DEF Chain!SettleAs

LEMMA StepJudged == Typed /\ JudgedInv /\ [Next]_vars => JudgedInv'
<1> SUFFICES ASSUME Typed, JudgedInv, [Next]_vars PROVE JudgedInv'
  OBVIOUS
<1>1. ASSUME NEW ds \in SUBSET Deposits, Chain!Lapse(ds) PROVE JudgedInv'
  BY <1>1 DEF Chain!Lapse, JudgedInv, Judged, CleanQuorum, DirtyQuorum
<1>2. ASSUME NEW ds \in SUBSET Deposits, NEW q \in Quorums, Chain!Establish(ds, q)
      PROVE  JudgedInv'
  <2>1. /\ \A d \in ds : quorum[d] = 0
        /\ quorum' = [d \in Deposits |-> IF d \in ds THEN q ELSE quorum[d]]
        /\ UNCHANGED <<phase, clean, dirty, lapsed>> /\ q \in Nat
    BY <1>2, SyncAssumption DEF Chain!Establish
  <2>2. quorum' \in [Deposits -> Nat]
    BY <2>1 DEF JudgedInv
  <2>3. ASSUME NEW d \in Deposits PROVE Judged(d)'
    <3>1. CASE d \in ds
      <4>1. phase[d] = "Absent"
        BY <2>1, <3>1 DEF JudgedInv, Judged
      <4> QED BY <2>1, <2>2, <4>1 DEF JudgedInv, Judged
    <3>2. CASE d \notin ds
      <4>1. quorum'[d] = quorum[d]
        BY <2>1, <3>2
      <4> QED BY <2>1, <4>1 DEF JudgedInv, Judged, CleanQuorum, DirtyQuorum
    <3> QED BY <3>1, <3>2
  <2> QED BY <2>1, <2>2, <2>3 DEF JudgedInv
<1>3. CASE Chain!ANext
  BY <1>1, <1>2, <1>3, HoldJudged, DecideJudged, SettleJudged DEF Chain!ANext
<1>4. CASE UNCHANGED <<phase, clean, dirty, lapsed, quorum>>
  BY <1>4 DEF JudgedInv, Judged, CleanQuorum, DirtyQuorum
<1> QED
  BY <1>3, <1>4 DEF Next, ChainStep, UnreadableDeposit, ReceivingAddress, BecomeOverdue, Scan,
     Post, PostFails, DepositDetected, Refuse, Check, Write, CheckAndWrite, IndexerRestart,
     GatewayRestart, vars, chain

\* What a record says of a settled payment is what its oracles have decided.
RestsOnVotes ==
    \A d \in Deposits : CaughtUp(d) =>
        LET r == records[StealthOf[d]] IN
        r # NoRecord =>
            /\ r.state \in {"released", "refunded"}
            /\ r.state = "released" => CleanQuorum(d) /\ ~ DirtyQuorum(d)
            /\ r.state = "refunded" => ~ CleanQuorum(d) /\ (DirtyQuorum(d) \/ d \in lapsed)

\* From the oracles to the institution: once a record has caught up with its payment, it
\* says released only if a quorum of distinct oracles, and none against it, has judged the
\* payment clean, and refunded only if none has, on either store, for any number of
\* oracles, vaults and thresholds and whatever webhooks and calls said before
\* (attest.rs:66-72, release.rs:27, refund.rs:39-47, webhook.rs, routes.ts:100-145).
THEOREM RecordsRestOnVotes == Spec => []RestsOnVotes
<1>1. Init => JudgedInv
  <2> SUFFICES ASSUME Init PROVE JudgedInv
    OBVIOUS
  <2> QED BY DEF Init, Chain!AInit, JudgedInv, Judged
<1>2. Typed /\ JudgedInv => RestsOnVotes
  <2> SUFFICES ASSUME Typed, JudgedInv, NEW d \in Deposits, CaughtUp(d),
                      NEW r, r = records[StealthOf[d]], r # NoRecord
               PROVE  /\ r.state \in {"released", "refunded"}
                      /\ r.state = "released" => CleanQuorum(d) /\ ~ DirtyQuorum(d)
                      /\ r.state = "refunded" =>
                            ~ CleanQuorum(d) /\ (DirtyQuorum(d) \/ d \in lapsed)
    BY DEF RestsOnVotes
  <2>1. r.state = SettledWord(d) /\ phase[d] \in {"Released", "Refunded"} /\ Judged(d)
    BY DEF CaughtUp, JudgedInv
  <2>2. CASE phase[d] = "Released"
    BY <2>1, <2>2 DEF SettledWord, Judged
  <2>3. CASE phase[d] = "Refunded"
    BY <2>1, <2>3 DEF SettledWord, Judged
  <2> QED BY <2>1, <2>2, <2>3
<1> QED
  BY <1>1, <1>2, InitTyped, StepTyped, StepJudged, PTL DEF Spec

==============================================================================
