------------------------------ MODULE Playground ------------------------------
(***************************************************************************)
(* The playground of the dashboard as a React component: what its buttons  *)
(* call, what its interval fetches, and what it shows.  A call is answered *)
(* later or never; a poll may be answered after the page shows another     *)
(* payment, and after a later poll.  The page can be left at any time.     *)
(*                                                                         *)
(* Gateway and chain are abstract: the record of the payment shown takes   *)
(* the states that the code behind it may give it.  Payments that the page *)
(* has moved on from are left out, for it never asks about them again.     *)
(* The demo routes are DemoFlow's, and how records follow the chain is     *)
(* GatewaySync's subject.                                                  *)
(*                                                                         *)
(* Leaving the page stops neither a request nor the wallet's prompt, which *)
(* belongs to the providers of the root layout (Providers.tsx:20-32): such *)
(* calls go on beside those of the page as it is opened next, and a        *)
(* payment may be signed in one of them.  What they do is done to payments *)
(* that no page shows, so that only their being under way is kept.         *)
(***************************************************************************)
EXTENDS Session, Integers, FiniteSets

CONSTANTS
    Payments,   \* bound: payments that the page may have to do with at one time
    Moves,      \* bound: changes of a record's state that happen
    MaxPolls,   \* bound: answers to status polls under way at one time
    Wallets,    \* wallets the customer may connect
    NoWallet,   \* none connected
    None

VARIABLES
    \* Gateway and chain.
    record,     \* what /v1/payment-status answers about the payment shown
    signed,     \* whether a transaction has been signed that pays it
    overdue,    \* payments whose expires_at <= Date.now()
    left,       \* payments that calls of a page which was left are still made for
    \* The page.
    wallet,     \* the connected wallet
    address,    \* the payment shown, the last one it was given
    status,     \* what the last poll said
    busy,       \* what the buttons wait for
    calls,      \* calls under way of the page as it is open now
    polls       \* answers to status polls that are on their way to the page

world == <<record, signed, overdue, left>>
shown == <<address, status, busy>>
vars == <<session, world, wallet, shown, calls, polls>>

States == {"pending", "approved", "rejected", "released", "refunded"}
\* `by` is the institution of the record, named by its key; the answers leave it out.
Body == [of : Payments, by : Keys, state : States, on_chain : BOOLEAN]
Ops == {"issue", "pay", "attest-clean", "attest-dirty", "release", "refund"}
Call == [op : Ops, payment : Payments \cup {None}, key : Keys, payer : Wallets \cup {NoWallet},
         stage : {"asked", "done"}]

ASSUME PlaygroundAssumption ==
    /\ NoWallet \notin Wallets /\ NoKey \notin Keys
    /\ None \notin Payments \cup Body \cup Wallets \cup Ops
    /\ Moves \subseteq States \X (States \ {"pending"})
    /\ MaxPolls \in Nat

------------------------------------------------------------------------------
(* Gateway and chain.                                                        *)

\* A webhook, or a call of POST /v1/release or /v1/refund, changes the state, never to
\* pending.  The page relies on no order: a late webhook may undo what a call has set.
\* Before the deposit is seen only a refund is agreed to, and not before its time is over.
RecordMoves(to) ==
    /\ record # None /\ <<record.state, to>> \in Moves
    /\ record.on_chain \/ (to = "refunded" /\ record.of \in overdue)
    /\ record' = [record EXCEPT !.state = to]
    /\ UNCHANGED <<signed, overdue, left>>

\* The first webhook, if the signed transaction has been executed.
Detected ==
    /\ record # None /\ signed
    /\ record' = [record EXCEPT !.on_chain = TRUE]
    /\ UNCHANGED <<signed, overdue, left>>

BecomeOverdue(d) ==
    /\ \/ record # None /\ d = record.of
       \/ status # None /\ d = status.of
    /\ overdue' = overdue \cup {d}
    /\ UNCHANGED <<record, signed, left>>

\* A call of a page that was left is answered, fails or, if it waits for the wallet, is
\* signed or refused.  No page hears of it.
LeftEnds(d) ==
    /\ d \in left /\ left' = left \ {d}
    /\ UNCHANGED <<record, signed, overdue>>

Outside ==
    /\ \/ Detected \/ \E s \in States : RecordMoves(s)
       \/ \E d \in Payments : BecomeOverdue(d) \/ LeftEnds(d)
    /\ UNCHANGED <<session, wallet, shown, calls, polls>>

------------------------------------------------------------------------------
(* What is shown.                                                            *)

HaveAddress == address # None
StateNow == IF status = None THEN "pending" ELSE status.state
OnChainSeen == status # None /\ status.on_chain

CanPay == wallet # NoWallet /\ HaveAddress /\ ~ OnChainSeen /\ StateNow = "pending"
CanAttest == OnChainSeen /\ StateNow = "pending"
CanRelease == StateNow = "approved"
CanRefund == \/ StateNow \in {"rejected", "expired"}
             \/ status # None /\ StateNow = "pending" /\ status.of \in overdue

Enabled(ops) == IF busy = None THEN ops ELSE {}

\* The five steps, in the terms of the Step component: how far it is, why it is not
\* open, and the buttons that can be pressed.
IssueStep == [status |-> IF HaveAddress THEN "done" ELSE "ready",
              reason |-> "", buttons |-> Enabled({"issue"})]

PayStep ==
    [status |-> IF ~ HaveAddress \/ wallet = NoWallet THEN "blocked"
                ELSE IF OnChainSeen THEN "done" ELSE "ready",
     reason |-> IF ~ HaveAddress THEN "step 1" ELSE IF wallet = NoWallet THEN "wallet"
                ELSE IF OnChainSeen THEN "submitted" ELSE "",
     buttons |-> Enabled({o \in {"pay"} : CanPay})]

\* What the indexer does: nothing to press, and what it says is the status itself.
DetectStep ==
    [status |-> IF OnChainSeen THEN "done" ELSE IF HaveAddress THEN "ready" ELSE "blocked",
     reason |-> "", buttons |-> {}]

\* Mutant: no reason is given before the payment has been detected.
AttestStepMute ==
    [status |-> IF CanAttest THEN "ready" ELSE IF StateNow = "pending" THEN "blocked" ELSE "done",
     reason |-> IF ~ HaveAddress THEN "step 1" ELSE "",
     buttons |-> Enabled({o \in {"attest-clean", "attest-dirty"} : CanAttest})]

AttestStep ==
    [status |-> IF CanAttest THEN "ready" ELSE IF StateNow = "pending" THEN "blocked" ELSE "done",
     reason |-> IF ~ HaveAddress THEN "step 1" ELSE IF ~ OnChainSeen THEN "detection" ELSE "",
     buttons |-> Enabled({o \in {"attest-clean", "attest-dirty"} : CanAttest})]

Settled == StateNow \in {"released", "refunded"}

SettleStep ==
    [status |-> IF Settled THEN "done" ELSE IF CanRelease \/ CanRefund THEN "ready" ELSE "blocked",
     reason |-> IF Settled \/ CanRelease \/ CanRefund THEN "" ELSE "verdict",
     buttons |-> Enabled({o \in {"release"} : CanRelease} \cup {o \in {"refund"} : CanRefund})]

Steps == {IssueStep, PayStep, DetectStep, AttestStep, SettleStep}
Buttons == UNION {s.buttons : s \in Steps}

------------------------------------------------------------------------------
(* Calls: runIssueAddress, runSignAndPay, runAttest, runRelease, runRefund.  *)

\* Mutant: the button is not held while a call is under way.
BeginAnyway(op) ==
    /\ page = "playground"
    /\ op = "issue" \/ (op \in Buttons /\ HaveAddress)
    /\ busy' = op
    /\ calls' = calls \cup {[op |-> op, payment |-> address, key |-> apiKey, payer |-> wallet,
                             stage |-> "asked"]}
    /\ UNCHANGED <<session, world, wallet, address, status, polls>>

Begin(op) ==
    /\ page = "playground"
    /\ op \in Buttons /\ (op = "issue" \/ HaveAddress)
    /\ busy' = op
    /\ calls' = calls \cup {[op |-> op, payment |-> address, key |-> apiKey, payer |-> wallet,
                             stage |-> "asked"]}
    /\ UNCHANGED <<session, world, wallet, address, status, polls>>

\* Payments of which something is still shown, or that a call is still made for.
Known == {b.of : b \in {record, status} \ {None}} \cup left

\* The call has had its effect, on that payment; its answer is on the way.
DoneFor(c, d) == [c EXCEPT !.stage = "done", !.payment = d]

\* POST /v1/receiving-address: a payment that is new to the page.
Issued(c) ==
    /\ c \in calls /\ c.op = "issue" /\ c.stage = "asked"
    /\ \E d \in Payments \ Known :
          /\ calls' = (calls \ {c}) \cup {DoneFor(c, d)}
          /\ overdue' = overdue \ {d}
    /\ UNCHANGED <<session, record, signed, left, wallet, shown, polls>>

\* The wallet's prompt is answered.  The fee payer is the wallet of the click, so that
\* no other one can sign.
Signed(c) ==
    /\ c \in calls /\ c.op = "pay" /\ c.stage = "asked" /\ wallet = c.payer
    /\ signed' = TRUE
    /\ calls' = (calls \ {c}) \cup {DoneFor(c, c.payment)}
    /\ UNCHANGED <<session, record, overdue, left, wallet, shown, polls>>

NewRecord(d, k) == [of |-> d, by |-> k, state |-> "pending", on_chain |-> FALSE]

\* Mutant: the interval of the address before goes on.
AddressKnownOldPolls(c) ==
    /\ c \in calls /\ c.op = "issue" /\ c.stage = "done"
    /\ address' = c.payment /\ busy' = None
    /\ record' = NewRecord(c.payment, c.key) /\ signed' = FALSE
    /\ calls' = calls \ {c}
    /\ UNCHANGED <<session, overdue, left, wallet, status, polls>>

\* The answer with the new address.  What is shown of the payment before stays until a
\* poll of the new one is answered; answers about the old one are dropped (`live`).
AddressKnown(c) ==
    /\ c \in calls /\ c.op = "issue" /\ c.stage = "done"
    /\ address' = c.payment /\ busy' = None /\ polls' = {}
    /\ record' = NewRecord(c.payment, c.key) /\ signed' = FALSE
    /\ calls' = calls \ {c}
    /\ UNCHANGED <<session, overdue, left, wallet, status>>

\* Mutant: the button is given back by an answer only.
EndsBusy(c) ==
    /\ c \in calls /\ calls' = calls \ {c}
    /\ busy' = IF c.stage = "done" THEN None ELSE busy
    /\ UNCHANGED <<session, world, wallet, address, status, polls>>

\* Mutant: an error for an answer is taken for an address, without an id.
EndsAsAddress(c) ==
    /\ c \in calls /\ calls' = calls \ {c}
    /\ busy' = None
    /\ address' = IF c.op = "issue" THEN NoKey ELSE address
    /\ UNCHANGED <<session, world, wallet, status, polls>>

\* Any other end: an answer that changes nothing here, an error, no connection.
Ends(c) ==
    /\ c \in calls /\ calls' = calls \ {c}
    /\ busy' = None
    /\ UNCHANGED <<session, world, wallet, address, status, polls>>

------------------------------------------------------------------------------
(* The interval, the wallet, and leaving.                                    *)

\* Mutant: no more polls once one has arrived.
PollAnsweredOnce ==
    /\ page = "playground" /\ HaveAddress /\ Cardinality(polls) < MaxPolls
    /\ record.by = apiKey /\ status = None
    /\ polls' = polls \cup {record}
    /\ UNCHANGED <<session, world, wallet, shown, calls>>

\* The gateway answers a poll, if the payment is one of the key's institution.
PollAnswered ==
    /\ page = "playground" /\ HaveAddress /\ Cardinality(polls) < MaxPolls
    /\ record.by = apiKey
    /\ polls' = polls \cup {record}
    /\ UNCHANGED <<session, world, wallet, shown, calls>>

PollArrives(b) ==
    /\ b \in polls
    /\ status' = b /\ polls' = polls \ {b}
    /\ UNCHANGED <<session, world, wallet, address, busy, calls>>

PollLost(b) ==
    /\ b \in polls
    /\ polls' = polls \ {b}
    /\ UNCHANGED <<session, world, wallet, shown, calls>>

Connect(w) ==
    /\ w # wallet /\ wallet' = w
    /\ UNCHANGED <<session, world, shown, calls, polls>>

\* Mutant: what was issued is kept when the page is left.
PageLeftKept ==
    /\ Leave
    /\ busy' = None /\ polls' = {} /\ calls' = {}
    /\ UNCHANGED <<world, wallet, address, status>>

\* The component and its state are gone; what it had asked for is not.
PageLeft ==
    /\ Leave
    /\ left' = left \cup {c.payment : c \in {e \in calls : e.op # "issue"}}
    /\ address' = None /\ status' = None /\ busy' = None
    /\ polls' = {} /\ calls' = {}
    /\ record' = None /\ signed' = FALSE /\ overdue' = {}
    /\ UNCHANGED wallet

SessionStep ==
    /\ Arrive \/ \E k \in Keys \cup {NoKey} : OtherTab(k)
    /\ UNCHANGED <<world, wallet, shown, calls, polls>>

------------------------------------------------------------------------------

Init ==
    /\ SessionInit
    /\ record = None /\ signed = FALSE /\ overdue = {} /\ left = {}
    /\ wallet = NoWallet /\ address = None /\ status = None /\ busy = None
    /\ calls = {} /\ polls = {}

CallStep ==
    \/ \E op \in Ops : Begin(op)
    \/ \E c \in calls : Issued(c) \/ Signed(c) \/ AddressKnown(c) \/ Ends(c)

Next ==
    \/ Outside \/ CallStep \/ SessionStep \/ PageLeft
    \/ PollAnswered
    \/ \E b \in polls : PollArrives(b) \/ PollLost(b)
    \/ \E w \in Wallets \cup {NoWallet} : Connect(w)

Spec == Init /\ [][Next]_vars

\* A call waits for the wallet's user.
Prompts(c) == c.op = "pay" /\ c.stage = "asked"

\* Calls end: the gateway answers or the connection breaks.  Some of the polls, made every
\* four seconds, are answered and arrive.  Nothing is asked of the user.
FairSpec ==
    /\ Spec
    /\ WF_vars(\E c \in calls : ~ Prompts(c) /\ (AddressKnown(c) \/ Ends(c)))
    /\ WF_vars(PollAnswered)
    /\ SF_vars(\E b \in polls : PollArrives(b))

------------------------------------------------------------------------------
(* Properties.                                                               *)

\* Types of the page's state.
TypeOK ==
    /\ stored \in Keys \cup {NoKey} /\ page \in Pages /\ apiKey \in Keys \cup {NoKey}
    /\ record \in Body \cup {None} /\ signed \in BOOLEAN
    /\ overdue \subseteq Payments /\ left \subseteq Payments
    /\ wallet \in Wallets \cup {NoWallet}
    /\ address \in Payments \cup {None}
    /\ status \in Body \cup {None}
    /\ busy \in Ops \cup {None}
    /\ calls \subseteq Call /\ polls \subseteq Body

\* The page makes one call at a time, busy names it, and the buttons come back with its
\* end.  Calls of a page that was left go on beside it, but none of them is made for the
\* payment shown: two calls for one payment, say a release and a refund, never run at once
\* (page.tsx:218-430).
OneCall ==
    /\ calls = {} <=> busy = None
    /\ \A c \in calls : busy = c.op /\ c.payment \notin left
    /\ \A c, e \in calls : c = e
    /\ address \notin left

\* The page never asks the gateway about a payment under a key that it was not issued
\* under, whatever this and other tabs do to the stored key meanwhile (page.tsx:113-133).
KeyFits ==
    /\ record # None => record.by = apiKey
    /\ status # None => status.by = apiKey

\* No dead end: unless the payment is settled, a step of the user's that is not done can be
\* taken or says why not, once the call under way has ended; and when all of them say why
\* not, it is the indexer that is waited for (page.tsx:458-716).
NeverStuck ==
    busy = None /\ ~ Settled =>
        /\ \A s \in Steps \ {DetectStep} : s.status # "done" => s.buttons # {} \/ s.reason # ""
        /\ Buttons \subseteq {"issue"} => wallet = NoWallet \/ DetectStep.status # "done"

\* A poll that is answered late never brings back the payment that the page has moved on
\* from (page.tsx:182-205).
ShownFits ==
    [][status' # status => status' = None \/ status'.of = address']_vars

\* A call that does not wait for the user gives the buttons back (page.tsx:218-430).
BusyEnds ==
    busy # None ~> (busy = None \/ \E c \in calls : Prompts(c))

\* Once the record of the payment shown rests, the page shows it and keeps showing it, in
\* spite of lost polls and of polls that overtake each other (page.tsx:182-205).
StatusCatchesUp ==
    <>[][record' = record]_vars /\ <>[](record # None) => <>[](status = record)

==============================================================================
