-------------------------- MODULE MCQuarantineVault --------------------------
(* Instances of QuarantineVault for TLC. *)
EXTENDS QuarantineVault, TLC

CONSTANTS v1, p1, p2, o1, o2, o3, alice, bank, usdc

\* Three oracles, a list that names one of them twice, one that is too long, and one
\* oracle that decides alone.
MCLists == {<<o1, o2, o3>>, <<o1, o1, o2>>, <<o1, o2, o3, o1>>, <<o1>>}
MCOneOracle == {<<o1>>}

\* alice pays; bank has no account until it is paid.
MCFunds == (alice :> 9 @@ bank :> 0)
MCTokens == (alice :> (usdc :> 3) @@ bank :> (usdc :> 0))

\* A Token-2022 mint whose fee, rounded down, is one token of all but the least amount.
MCFee(mint, amt) == IF amt > 1 THEN 1 ELSE 0

\* The two payments are alike.
MCPayments == Permutations({p1, p2})

MCWalletRefunds == {alice, bank}
MCAnyRefunds == {alice, <<v1, p1>>, <<v1, p2>>}

(* MCVault has two questions, and explores for each what it is about. *)

\* Money: a vault of one oracle, two deposits of one second that may pay into each other.
FundsScenario ==
    /\ now <= 1
    /\ \A d \in DepositIds : Exists(d) => deposits[d].expire_at = deposits[d].created_at + 1

\* Verdicts: a vault of several oracles, one deposit of alice's that expires before the
\* clock ends, and no plain transfers.
VerdictsScenario ==
    /\ \A d \in DepositIds :
          LET amount == IF Exists(d) THEN deposits[d].amount ELSE 0 IN
          /\ lamports[d] <= (IF Exists(d) THEN DepositRent ELSE 0) + amount
          /\ \A m \in Mints : tokens[d][m] <= amount
          /\ Exists(d) => /\ deposits[d].depositor = alice /\ deposits[d].refund_addr = alice
                          /\ deposits[d].created_at <= 1
                          /\ \A other \in DepositIds \ {d} : ~ Exists(other)
    /\ lamports[bank] > 0 \/ tokens[bank] # InitTokens[bank]
          => \E d \in DepositIds : deposits[d].state = "Released"

\* The vault is made at the start.
Scenarios ==
    IF ~ VaultExists(v1) THEN now = 0
    ELSE IF Len(vaults[v1].oracle_set) > 1 THEN VerdictsScenario ELSE FundsScenario

(* What docs/DESIGN.md says of the program and the program does not do. *)

\* DESIGN.md:182-183: Released means the bank has drawn the deposit, Refunded that it
\* went back to the sender.  release.rs and refund.rs do not look at the mint, so they
\* settle a token deposit in lamports and leave its tokens in the escrow.
DocSettledMeansPaid ==
    [][\A d \in DepositIds :
         IsOpen(d) /\ ~ IsNative(d) /\ deposits'[d].state \in {"Released", "Refunded"}
             => tokens'[d][deposits[d].mint]
                  = tokens[d][deposits[d].mint] - deposits[d].amount]_vars

==============================================================================
