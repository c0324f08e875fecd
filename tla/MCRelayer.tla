------------------------------ MODULE MCRelayer ------------------------------
(* Instances of Relayer for TLC. *)
EXTENDS Relayer, TLC

CONSTANTS i1, t1, t2, r1, r2, r3

\* A bucket of two tokens, fees that exceed the cap at the second transaction.
MCPolicy == [capacity |-> 4, fee |-> 2, cap |-> 3]
\* A bucket of one token and no cap.
MCNarrow == [capacity |-> 2, fee |-> 3, cap |-> NoCap]

MCPolicies == {MCPolicy, MCNarrow}
MCNoneAtStart == (i1 :> NoPolicy)

\* t1 is sound, t2 does not decode or names another fee payer.
MCOneInst == (t1 :> i1 @@ t2 :> i1)
MCOneStart == (i1 :> MCPolicy)
MCOnePolicy == {MCPolicy}

Symmetry == Permutations(Requests)

(* What the documents and comments say of the relayer and it does not do.    *)

\* relayer.rs:7 and README.md:136 call the cap monthly, billing.rs:13 the ledger that of
\* the current settlement period.  Nothing calls BillingLedger::reset, so an institution
\* is refused for what it was billed in earlier periods.
DocCapIsMonthly ==
    [][\A r \in Requests :
         reply[r] = "none" /\ reply'[r] = "FeeCapExceeded" =>
             LET i == InstOf[txOf[r]] IN period[i] + policies[i].fee > policies[i].cap]_vars

==============================================================================
