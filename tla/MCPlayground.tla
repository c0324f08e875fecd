----------------------------- MODULE MCPlayground -----------------------------
(* Instances of Playground for TLC. *)
EXTENDS Playground, TLC

CONSTANTS k1, k2, p1, p2, w1

\* The way through the chain's states, a refund in the record alone, and a release in
\* the record alone that the next webhook undoes.
MCMoves == {<<"pending", "approved">>, <<"pending", "rejected">>, <<"pending", "refunded">>,
            <<"approved", "released">>, <<"rejected", "refunded">>, <<"released", "approved">>}

==============================================================================
