------------------------------ MODULE MCDemoFlow ------------------------------
(* Instances of DemoFlow for TLC. *)
EXTENDS DemoFlow, TLC

CONSTANTS p1, p2, o1, o2, o3, w1, w2, r1, r2, r3

MCDemoOracles == <<o1, o2>>

Symmetry == Permutations(Requests)

\* The dashboard page and nobody else makes the calls, one at a time: it issues an address
\* while a wallet is connected, and it offers what its buttons offer, a refund after a
\* rejection.
Offered(op, d) ==
    /\ HasRecord(d)
    /\ \A r \in Requests : requests[r] # None => requests[r].stage \in {"ok", "error"}
    /\ \/ op = "attest" /\ records[d].on_chain /\ records[d].state = "pending"
       \/ op = "release" /\ records[d].state = "approved"
       \/ op = "refund" /\ records[d].state = "rejected"

PageNext ==
    \/ Cluster
    \/ \E d \in Payments : Observe(d)
    \/ \E r \in Requests :
          \/ Handler(r)
          \/ \E op \in Ops, d \in Payments, v \in Verdicts \cup {None} :
                Offered(op, d) /\ Call(r, op, d, v)
    \/ \E w \in Wallets \cup {NoWallet} : Connect(w)
    \/ \E d \in Payments :
          \/ wallet # NoWallet /\ IssueAddress(d)
          \/ HasRecord(d) /\ ~ records[d].on_chain /\ SignAndPay(d)

PageSpec == Init /\ [][PageNext]_vars

\* page.tsx:665 says that step 5 sends a rejected or expired payment back to the
\* customer's refund_addr.  The record has the wallet that was connected when the
\* address was issued, the deposit the one that signed, and the program refuses the
\* refund when they differ.
DocRefundWorks ==
    [][\A r \in Requests :
         /\ requests[r] # None /\ requests[r].op = "refund" /\ requests[r].stage = "ready"
         /\ phase[requests[r].payment] = "Rejected"
         => requests'[r].stage # "error"]_vars

==============================================================================
