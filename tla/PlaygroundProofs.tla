--------------------------- MODULE PlaygroundProofs ---------------------------
(* Theorems of Playground, for any keys, payments, wallets and moves of records. *)
EXTENDS Playground, TLAPS

------------------------------------------------------------------------------
(* Types.                                                                    *)

\* Without the playground open nothing is asked for, on its way or shown.
ClosedIsEmpty ==
    /\ page # "playground" =>
          record = None /\ address = None /\ status = None /\ calls = {} /\ polls = {}
    /\ page = "playground" => apiKey \in Keys

\* What is shown has a record, and a call is made for a payment.
Recorded ==
    /\ address = None <=> record = None
    /\ \A c \in calls : c.op # "issue" => c.payment \in Payments
    /\ \A c \in calls : c.op = "issue" /\ c.stage = "done" => c.payment \in Payments

Typed == TypeOK /\ ClosedIsEmpty /\ Recorded

LEMMA InitTyped == Init => Typed
  BY DEF Init, SessionInit, Typed, TypeOK, ClosedIsEmpty, Recorded, Pages

\* A call that is done is the same call.
LEMMA DoneType ==
    ASSUME NEW c \in Call, NEW d \in Payments \cup {None}
    PROVE  /\ DoneFor(c, d) \in Call /\ DoneFor(c, d).stage = "done"
           /\ DoneFor(c, d).op = c.op /\ DoneFor(c, d).payment = d /\ DoneFor(c, d).key = c.key
<1> DEFINE done == [c EXCEPT !.stage = "done"]
<1>1. /\ done \in Call /\ done.stage = "done" /\ done.op = c.op /\ done.key = c.key
  BY DEF Call
<1>2. DoneFor(c, d) = [done EXCEPT !.payment = d]
  BY DEF DoneFor
<1> HIDE DEF done
<1> QED BY <1>1, <1>2 DEF Call

\* Buttons can be pressed between calls only.
LEMMA ButtonsFree ==
    ASSUME NEW op \in Buttons
    PROVE  busy = None
<1>1. \A ops : busy # None => Enabled(ops) = {}
  BY DEF Enabled
<1>2. busy # None => IssueStep.buttons = {} /\ PayStep.buttons = {} /\ DetectStep.buttons = {}
  BY <1>1 DEF IssueStep, PayStep, DetectStep
<1>3. busy # None => AttestStep.buttons = {} /\ SettleStep.buttons = {}
  BY <1>1 DEF AttestStep, SettleStep
<1> QED BY <1>2, <1>3 DEF Buttons, Steps

LEMMA StepTyped == Typed /\ [Next]_vars => Typed'
<1> SUFFICES ASSUME Typed, [Next]_vars PROVE Typed'
  OBVIOUS
<1> USE DEF Typed
<1>1. ASSUME NEW s \in States, RecordMoves(s), UNCHANGED <<session, wallet, shown, calls, polls>>
      PROVE  Typed'
  <2>1. record \in Body /\ [record EXCEPT !.state = s] \in Body
    BY <1>1 DEF RecordMoves, TypeOK, Body
  <2>2. record' # None /\ record' \in Body
    BY <1>1, <2>1, PlaygroundAssumption DEF RecordMoves
  <2> QED
    BY <1>1, <2>2 DEF RecordMoves, session, shown, TypeOK, ClosedIsEmpty, Recorded
<1>2. ASSUME Detected, UNCHANGED <<session, wallet, shown, calls, polls>> PROVE Typed'
  <2>1. record \in Body /\ [record EXCEPT !.on_chain = TRUE] \in Body
    BY <1>2 DEF Detected, TypeOK, Body
  <2>2. record' # None /\ record' \in Body
    BY <1>2, <2>1, PlaygroundAssumption DEF Detected
  <2> QED
    BY <1>2, <2>2 DEF Detected, session, shown, TypeOK, ClosedIsEmpty, Recorded
<1>3. ASSUME NEW d \in Payments, BecomeOverdue(d), UNCHANGED <<session, wallet, shown, calls, polls>>
      PROVE  Typed'
  BY <1>3 DEF BecomeOverdue, session, shown, TypeOK, ClosedIsEmpty, Recorded
<1>4. ASSUME NEW d \in Payments, LeftEnds(d), UNCHANGED <<session, wallet, shown, calls, polls>>
      PROVE  Typed'
  BY <1>4 DEF LeftEnds, session, shown, TypeOK, ClosedIsEmpty, Recorded
<1>5. ASSUME NEW op \in Ops, Begin(op) PROVE Typed'
  <2> DEFINE c == [op |-> op, payment |-> address, key |-> apiKey, payer |-> wallet,
                   stage |-> "asked"]
  <2>1. c \in Call
    BY <1>5 DEF Begin, Call, TypeOK, ClosedIsEmpty
  <2>2. /\ calls' = calls \cup {c} /\ c.stage = "asked"
        /\ c.op # "issue" => c.payment \in Payments
    BY <1>5 DEF Begin, HaveAddress, TypeOK
  <2> HIDE DEF c
  <2> QED
    BY <1>5, <2>1, <2>2 DEF Begin, session, world, TypeOK, ClosedIsEmpty, Recorded
<1>6. ASSUME NEW c \in calls, Issued(c) PROVE Typed'
  <2>1. PICK d \in Payments :
           calls' = (calls \ {c}) \cup {DoneFor(c, d)} /\ overdue' = overdue \ {d}
    BY <1>6 DEF Issued
  <2>2. DoneFor(c, d) \in Call /\ DoneFor(c, d).payment = d
    BY DoneType DEF TypeOK
  <2> QED
    BY <1>6, <2>1, <2>2 DEF Issued, session, shown, TypeOK, ClosedIsEmpty, Recorded
<1>7. ASSUME NEW c \in calls, Signed(c) PROVE Typed'
  <2>1. c \in Call /\ c.payment \in Payments
    BY <1>7 DEF Signed, TypeOK, Recorded
  <2>2. LET e == DoneFor(c, c.payment) IN
        e \in Call /\ e.op = "pay" /\ e.payment \in Payments
    BY <1>7, <2>1, DoneType DEF Signed
  <2> QED
    BY <1>7, <2>2 DEF Signed, session, shown, TypeOK, ClosedIsEmpty, Recorded
<1>8. ASSUME NEW c \in calls, AddressKnown(c) PROVE Typed'
  <2>1. c \in Call /\ c.payment \in Payments
    BY <1>8 DEF AddressKnown, TypeOK, Recorded
  <2>2. NewRecord(c.payment, c.key) \in Body
    BY <2>1 DEF NewRecord, Body, Call, States
  <2>3. record' # None /\ record' \in Body /\ address' # None /\ address' \in Payments
    BY <1>8, <2>1, <2>2, PlaygroundAssumption DEF AddressKnown
  <2>4. page = "playground"
    BY DEF ClosedIsEmpty
  <2> QED
    BY <1>8, <2>3, <2>4 DEF AddressKnown, session, TypeOK, ClosedIsEmpty, Recorded
<1>9. ASSUME NEW c \in calls, Ends(c) PROVE Typed'
  BY <1>9 DEF Ends, session, world, TypeOK, ClosedIsEmpty, Recorded
<1>10. CASE PollAnswered
  <2>1. record \in Body
    BY <1>10 DEF PollAnswered, HaveAddress, TypeOK, Recorded
  <2> QED
    BY <1>10, <2>1 DEF PollAnswered, session, world, shown, TypeOK, ClosedIsEmpty, Recorded
<1>11. ASSUME NEW b \in polls, PollArrives(b) PROVE Typed'
  BY <1>11 DEF PollArrives, session, world, TypeOK, ClosedIsEmpty, Recorded
<1>12. ASSUME NEW b \in polls, PollLost(b) PROVE Typed'
  BY <1>12 DEF PollLost, session, world, shown, TypeOK, ClosedIsEmpty, Recorded
<1>13. ASSUME NEW w \in Wallets \cup {NoWallet}, Connect(w) PROVE Typed'
  BY <1>13 DEF Connect, session, world, shown, TypeOK, ClosedIsEmpty, Recorded
<1>14. CASE PageLeft
  <2>0. left' \subseteq Payments
    BY <1>14 DEF PageLeft, TypeOK, Recorded
  <2>1. stored' \in Keys \cup {NoKey} /\ page' \in {"login", "gate"} /\ apiKey' = NoKey
    BY <1>14 DEF PageLeft, Leave, SignOut, Visit, TypeOK
  <2> QED
    BY <1>14, <2>0, <2>1 DEF PageLeft, TypeOK, ClosedIsEmpty, Recorded, Pages
<1>15. CASE SessionStep
  <2>1. page = "playground" => UNCHANGED <<page, apiKey>>
    BY <1>15 DEF SessionStep, Arrive, LoginEffect, GateEffect, Submit, OtherTab
  <2>2. stored' \in Keys \cup {NoKey} /\ page' \in Pages /\ apiKey' \in Keys \cup {NoKey}
        /\ (page' = "playground" => apiKey' \in Keys)
    BY <1>15 DEF SessionStep, Arrive, LoginEffect, GateEffect, Submit, OtherTab, TypeOK,
                 ClosedIsEmpty, Pages
  <2> QED
    BY <1>15, <2>1, <2>2 DEF SessionStep, world, shown, TypeOK, ClosedIsEmpty, Recorded
<1>16. CASE UNCHANGED vars
  BY <1>16 DEF vars, session, world, shown, TypeOK, ClosedIsEmpty, Recorded
<1> QED
  BY <1>1, <1>2, <1>3, <1>4, <1>5, <1>6, <1>7, <1>8, <1>9, <1>10, <1>11, <1>12, <1>13, <1>14, <1>15, <1>16
  DEF Next, Outside, CallStep

\* The page's state stays typed through answers, failures, and leaving at any time
\* (dashboard/page.tsx, ApiKeyGate.tsx).
THEOREM TypeCorrect == Spec => []TypeOK
<1>1. Typed => TypeOK
  BY DEF Typed
<1> QED
  BY <1>1, InitTyped, StepTyped, PTL DEF Spec

------------------------------------------------------------------------------
(* One call at a time.                                                       *)

BusyInv == Typed /\ OneCall

LEMMA StepOneCall == BusyInv /\ [Next]_vars => OneCall'
<1> SUFFICES ASSUME BusyInv, [Next]_vars PROVE OneCall'
  OBVIOUS
<1> USE DEF BusyInv
<1>0. None \notin Ops /\ calls \subseteq Call
  BY PlaygroundAssumption DEF Typed, TypeOK
<1>1. ASSUME NEW op \in Ops, Begin(op) PROVE OneCall'
  <2>1. calls = {} /\ address \notin left
    BY <1>1, ButtonsFree DEF Begin, OneCall
  <2>2. PICK c : c.op = op /\ c.payment = address /\ calls' = calls \cup {c} /\ busy' = op
    BY <1>1 DEF Begin
  <2>3. calls' = {c} /\ busy' # None
    BY <1>0, <2>1, <2>2
  <2> QED BY <1>1, <2>1, <2>2, <2>3 DEF Begin, world, OneCall
<1>2. ASSUME NEW c \in calls, Issued(c) \/ Signed(c) PROVE OneCall'
  <2>1. PICK d \in Payments \cup {None} :
           /\ calls' = (calls \ {c}) \cup {DoneFor(c, d)} /\ d \notin left
           /\ busy' = busy /\ address' = address /\ left' = left
    <3>1. CASE Issued(c)
      BY <3>1 DEF Issued, Known, shown
    <3>2. CASE Signed(c)
      <4>1. c.payment \in Payments \cup {None} /\ c.payment \notin left
        BY <1>0 DEF Call, OneCall
      <4> QED BY <4>1, <3>2 DEF Signed, shown
    <3> QED BY <1>2, <3>1, <3>2
  <2>2. /\ calls = {c} /\ busy = c.op /\ busy # None
        /\ DoneFor(c, d).op = c.op /\ DoneFor(c, d).payment = d
    BY <1>0, DoneType DEF OneCall
  <2> QED BY <2>1, <2>2 DEF OneCall
<1>3. ASSUME NEW c \in calls, AddressKnown(c) \/ Ends(c) PROVE OneCall'
  BY <1>3 DEF AddressKnown, Ends, world, OneCall
<1>4. CASE PageLeft
  <2>1. None \notin left'
    BY <1>4, PlaygroundAssumption DEF PageLeft, Typed, TypeOK, Recorded
  <2> QED BY <1>4, <2>1 DEF PageLeft, OneCall
<1>5. ASSUME UNCHANGED <<address, busy, calls>>, left' \subseteq left PROVE OneCall'
  BY <1>5 DEF OneCall
<1>6. CASE Outside
  <2>1. left' \subseteq left
    BY <1>6 DEF Outside, Detected, RecordMoves, BecomeOverdue, LeftEnds
  <2> QED BY <1>5, <1>6, <2>1 DEF Outside, shown
<1> QED
  BY <1>1, <1>2, <1>3, <1>4, <1>5, <1>6
  DEF Next, CallStep, SessionStep, PollAnswered, PollArrives, PollLost, Connect, vars, shown, world

\* However buttons, answers and departures interleave, the page makes one call at a time,
\* and no payment has two calls under way, though those of a page that was left go on
\* (page.tsx:218-430).
THEOREM OneCallAtATime == Spec => []OneCall
<1>1. Init => BusyInv
  BY InitTyped DEF Init, BusyInv, OneCall
<1>2. BusyInv /\ [Next]_vars => BusyInv'
  BY StepTyped, StepOneCall DEF BusyInv
<1>3. BusyInv => OneCall
  BY DEF BusyInv
<1> QED
  BY <1>1, <1>2, <1>3, PTL DEF Spec

------------------------------------------------------------------------------
(* Keys, and what is shown.                                                  *)

\* Calls and answers on their way belong to the key and the payment of the page.
OnItsWay ==
    /\ \A c \in calls : c.key = apiKey
    /\ \A b \in polls : b.by = apiKey /\ b.of = address
    /\ record # None => record.of = address

ShownInv == Typed /\ KeyFits /\ OnItsWay

LEMMA StepShown == ShownInv /\ [Next]_vars => KeyFits' /\ OnItsWay'
<1> SUFFICES ASSUME ShownInv, [Next]_vars PROVE KeyFits' /\ OnItsWay'
  OBVIOUS
<1> USE DEF ShownInv
<1>0. calls \subseteq Call /\ polls \subseteq Body /\ record \in Body \cup {None}
  BY DEF Typed, TypeOK
<1>1. ASSUME Outside PROVE KeyFits' /\ OnItsWay'
  <2>1. record' = record \/ (record \in Body /\ record'.by = record.by /\ record'.of = record.of)
    BY <1>0, <1>1 DEF Outside, Detected, RecordMoves, BecomeOverdue, LeftEnds, Body
  <2>2. record = None => record' = None
    BY <1>1 DEF Outside, Detected, RecordMoves, BecomeOverdue, LeftEnds
  <2> QED
    BY <1>1, <2>1, <2>2 DEF Outside, session, shown, KeyFits, OnItsWay
<1>2. ASSUME NEW op \in Ops, Begin(op) PROVE KeyFits' /\ OnItsWay'
  BY <1>2 DEF Begin, session, world, KeyFits, OnItsWay
<1>3. ASSUME NEW c \in calls, Issued(c) \/ Signed(c) PROVE KeyFits' /\ OnItsWay'
  <2>1. PICK d \in Payments \cup {None} :
           calls' = (calls \ {c}) \cup {DoneFor(c, d)}
    BY <1>0, <1>3 DEF Issued, Signed, Call
  <2>2. DoneFor(c, d).key = c.key
    BY <1>0, DoneType
  <2> QED BY <1>3, <2>1, <2>2 DEF Issued, Signed, session, shown, KeyFits, OnItsWay
<1>5. ASSUME NEW c \in calls, AddressKnown(c) PROVE KeyFits' /\ OnItsWay'
  BY <1>5 DEF AddressKnown, NewRecord, session, KeyFits, OnItsWay
<1>6. ASSUME NEW c \in calls, Ends(c) PROVE KeyFits' /\ OnItsWay'
  BY <1>6 DEF Ends, session, world, KeyFits, OnItsWay
<1>7. CASE PollAnswered
  <2>1. record # None
    BY <1>7 DEF PollAnswered, HaveAddress, Typed, Recorded
  <2> QED BY <1>7, <2>1 DEF PollAnswered, session, world, shown, KeyFits, OnItsWay
<1>8. ASSUME NEW b \in polls, PollArrives(b) \/ PollLost(b) PROVE KeyFits' /\ OnItsWay'
  BY <1>8 DEF PollArrives, PollLost, session, world, shown, KeyFits, OnItsWay
<1>9. ASSUME NEW w \in Wallets \cup {NoWallet}, Connect(w) PROVE KeyFits' /\ OnItsWay'
  BY <1>9 DEF Connect, session, world, shown, KeyFits, OnItsWay
<1>10. CASE PageLeft
  BY <1>10 DEF PageLeft, KeyFits, OnItsWay
<1>11. CASE SessionStep
  <2>1. page = "playground" => apiKey' = apiKey
    BY <1>11 DEF SessionStep, Arrive, LoginEffect, GateEffect, Submit, OtherTab
  <2> QED
    BY <1>11, <2>1 DEF SessionStep, world, shown, Typed, ClosedIsEmpty, KeyFits, OnItsWay
<1>12. CASE UNCHANGED vars
  BY <1>12 DEF vars, session, world, shown, KeyFits, OnItsWay
<1> QED
  BY <1>1, <1>2, <1>3, <1>5, <1>6, <1>7, <1>8, <1>9, <1>10, <1>11, <1>12
  DEF Next, CallStep

LEMMA ShownHolds == Spec => []ShownInv
<1>1. Init => ShownInv
  BY InitTyped DEF Init, ShownInv, KeyFits, OnItsWay
<1>2. ShownInv /\ [Next]_vars => ShownInv'
  BY StepTyped, StepShown DEF ShownInv
<1> QED
  BY <1>1, <1>2, PTL DEF Spec

\* No payment is ever asked about under another key than its own, whatever tabs do to the
\* stored key (page.tsx:113-133, ApiKeyGate.tsx:7-25).
THEOREM KeysFit == Spec => []KeyFits
<1>1. ShownInv => KeyFits
  BY DEF ShownInv
<1> QED
  BY <1>1, ShownHolds, PTL

\* No late answer brings back the payment that the page has moved on from
\* (page.tsx:182-205).
THEOREM ShownIsCurrent == Spec => ShownFits
<1>1. ShownInv /\ [Next]_vars => [status' # status => status' = None \/ status'.of = address']_vars
  BY DEF ShownInv, OnItsWay, Next, CallStep, Outside, SessionStep, Begin, Issued, Signed,
         AddressKnown, Ends, PollAnswered, PollArrives, PollLost, Connect, PageLeft, vars, shown
<1> QED
  BY <1>1, ShownHolds, PTL DEF Spec, ShownFits

------------------------------------------------------------------------------
(* No dead end.                                                              *)

\* A record that has a verdict or has been released has been seen on the chain.
Seen(b) == b.state \in {"approved", "rejected", "released"} => b.on_chain

SeenInv ==
    /\ record # None => Seen(record)
    /\ status # None => Seen(status) /\ HaveAddress
    /\ \A b \in polls : Seen(b) /\ HaveAddress

LEMMA StepSeen == Typed /\ SeenInv /\ [Next]_vars => SeenInv'
<1> SUFFICES ASSUME Typed, SeenInv, [Next]_vars PROVE SeenInv'
  OBVIOUS
<1> USE DEF SeenInv, Seen, HaveAddress
<1>0. calls \subseteq Call /\ polls \subseteq Body /\ record \in Body \cup {None}
  BY DEF Typed, TypeOK
<1>1. ASSUME NEW s \in States, RecordMoves(s), UNCHANGED <<session, wallet, shown, calls, polls>>
      PROVE  SeenInv'
  <2>1. record \in Body /\ s # "pending" /\ record' = [record EXCEPT !.state = s]
    BY <1>0, <1>1, PlaygroundAssumption DEF RecordMoves
  <2>2. record'.state = s /\ record'.on_chain = record.on_chain
    BY <2>1 DEF Body
  <2>3. record.on_chain \/ s = "refunded"
    BY <1>1 DEF RecordMoves
  <2> QED
    BY <1>1, <2>2, <2>3 DEF shown
<1>2. ASSUME Detected, UNCHANGED <<session, wallet, shown, calls, polls>> PROVE SeenInv'
  <2>1. record'.on_chain
    BY <1>0, <1>2 DEF Detected, Body
  <2> QED BY <1>2, <2>1 DEF shown
<1>3. CASE Outside
  BY <1>1, <1>2, <1>3 DEF Outside, BecomeOverdue, LeftEnds, shown
<1>4. ASSUME NEW c \in calls, Issued(c) \/ Signed(c) \/ Ends(c) PROVE SeenInv'
  BY <1>4 DEF Issued, Signed, Ends, world, shown
<1>5. ASSUME NEW c \in calls, AddressKnown(c) PROVE SeenInv'
  <2>1. address' \in Payments /\ address' # None
    BY <1>5, PlaygroundAssumption DEF AddressKnown, Typed, Recorded
  <2> QED BY <1>5, <2>1 DEF AddressKnown, NewRecord
<1>6. CASE PollAnswered
  <2>1. record # None
    BY <1>6 DEF PollAnswered, Typed, Recorded
  <2> QED BY <1>6, <2>1 DEF PollAnswered, world, shown
<1>7. ASSUME NEW b \in polls, PollArrives(b) \/ PollLost(b) PROVE SeenInv'
  BY <1>7 DEF PollArrives, PollLost, world, shown
<1>8. ASSUME NEW w \in Wallets \cup {NoWallet}, Connect(w) PROVE SeenInv'
  BY <1>8 DEF Connect, world, shown
<1>9. CASE PageLeft
  BY <1>9 DEF PageLeft
<1>10. CASE SessionStep \/ UNCHANGED vars
  BY <1>10 DEF SessionStep, vars, world, shown
<1>11. ASSUME NEW op \in Ops, Begin(op) PROVE SeenInv'
  BY <1>11 DEF Begin, world
<1> QED
  BY <1>3, <1>4, <1>5, <1>6, <1>7, <1>8, <1>9, <1>10, <1>11 DEF Next, CallStep

\* What an open page shows when it waits for nothing leaves the user a way on.
LEMMA SeenNotStuck == Typed /\ SeenInv => NeverStuck
<1> SUFFICES ASSUME Typed, SeenInv, busy = None, ~ Settled
             PROVE  /\ \A s \in Steps \ {DetectStep} :
                          s.status # "done" => s.buttons # {} \/ s.reason # ""
                    /\ Buttons \subseteq {"issue"} =>
                          wallet = NoWallet \/ DetectStep.status # "done"
  BY DEF NeverStuck
<1>1. StateNow \in {"pending", "approved", "rejected"}
  BY DEF StateNow, Settled, Typed, TypeOK, Body, States
<1>2. StateNow # "pending" => OnChainSeen
  BY <1>1 DEF StateNow, OnChainSeen, SeenInv, Seen
<1>3. OnChainSeen => HaveAddress
  BY DEF OnChainSeen, SeenInv
<1>4. \A ops : Enabled(ops) = ops
  BY DEF Enabled
<1>5. IssueStep.buttons = {"issue"}
  BY <1>4 DEF IssueStep
<1>6. PayStep.status # "done" => PayStep.buttons # {} \/ PayStep.reason # ""
  BY <1>2, <1>4 DEF PayStep, CanPay
<1>7. AttestStep.status # "done" => AttestStep.buttons # {} \/ AttestStep.reason # ""
  BY <1>3, <1>4 DEF AttestStep, CanAttest
<1>8. SettleStep.status # "done" => SettleStep.buttons # {} \/ SettleStep.reason # ""
  BY <1>4 DEF SettleStep
<1>9. ASSUME OnChainSeen
      PROVE  ~ (Buttons \subseteq {"issue"})
  <2>1. CASE StateNow = "pending"
    <3>1. "attest-clean" \in AttestStep.buttons
      BY <1>4, <1>9, <2>1 DEF AttestStep, CanAttest
    <3> QED BY <3>1 DEF Buttons, Steps
  <2>2. CASE StateNow = "approved"
    <3>1. "release" \in SettleStep.buttons
      BY <1>4, <2>2 DEF SettleStep, CanRelease
    <3> QED BY <3>1 DEF Buttons, Steps
  <2>3. CASE StateNow = "rejected"
    <3>1. "refund" \in SettleStep.buttons
      BY <1>4, <2>3 DEF SettleStep, CanRefund
    <3> QED BY <3>1 DEF Buttons, Steps
  <2> QED BY <1>1, <2>1, <2>2, <2>3
<1>10. DetectStep.status = "done" => OnChainSeen
  BY DEF DetectStep
<1> QED
  BY <1>5, <1>6, <1>7, <1>8, <1>9, <1>10 DEF Steps

\* Whatever polls have said of it, a payment that is not settled leaves the user a button
\* to press or says what is waited for (page.tsx:458-716).
THEOREM NoDeadEnd == Spec => []NeverStuck
<1>1. Init => Typed /\ SeenInv
  BY InitTyped DEF Init, SeenInv
<1>2. Typed /\ SeenInv /\ [Next]_vars => (Typed /\ SeenInv)'
  BY StepTyped, StepSeen
<1> QED
  BY <1>1, <1>2, SeenNotStuck, PTL DEF Spec

------------------------------------------------------------------------------
(* The safety half of StatusCatchesUp.                                       *)

\* The page shows the record, and every poll on its way says the same.
UpToDate == status = record /\ polls \subseteq {record}

\* As long as the record rests, what is up to date stays so, and the polls that say
\* something else are used up and never made again: loss, delay and overtaking can put
\* off the moment when the page shows the record, and undo no progress towards it.
StaysUpToDate ==
    [][record' = record =>
         /\ UpToDate => UpToDate'
         /\ polls' \ {record'} \subseteq polls \ {record}]_vars

\* Whatever is clicked, answered, lost or left, in any order, and for any number of polls
\* under way (page.tsx:182-205).
THEOREM ShownStays == Spec => StaysUpToDate
<1>1. ASSUME [Next]_vars, record' = record
      PROVE  polls' \subseteq polls \cup {record}
  BY <1>1 DEF Next, CallStep, Outside, SessionStep, Begin, Issued, Signed, AddressKnown, Ends,
         PollAnswered, PollArrives, PollLost, Connect, PageLeft, vars, shown
<1>2. ASSUME [Next]_vars, record' = record, UpToDate
      PROVE  status' = record
  <2>1. CASE PageLeft
    BY <1>2, <2>1 DEF PageLeft
  <2>2. ASSUME NEW b \in polls, PollArrives(b) PROVE status' = record
    BY <1>2, <2>2 DEF PollArrives, UpToDate
  <2>3. CASE status' = status
    BY <1>2, <2>3 DEF UpToDate
  <2> QED
    BY <1>2, <2>1, <2>2, <2>3 DEF Next, CallStep, Outside, SessionStep, Begin, Issued, Signed,
       AddressKnown, Ends, PollAnswered, PollLost, Connect, vars, shown
<1>3. [Next]_vars =>
        [record' = record =>
           /\ UpToDate => UpToDate'
           /\ polls' \ {record'} \subseteq polls \ {record}]_vars
  BY <1>1, <1>2 DEF UpToDate
<1> QED
  BY <1>3, PTL DEF Spec, StaysUpToDate

==============================================================================
