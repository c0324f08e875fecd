---------------------------- MODULE MCGatewaySync ----------------------------
(* Instances of GatewaySync for TLC. *)
EXTENDS GatewaySync, TLC

CONSTANTS d1, o1, s1, c1, c2

MCOne == (d1 :> s1)

MCRelease == (c1 :> [op |-> "release", stealth |-> s1])
MCCalls == (c1 :> [op |-> "release", stealth |-> s1] @@ c2 :> [op |-> "refund", stealth |-> s1])

\* routes.ts:118 tells the institution that the gateway tracks the release.  As long as
\* the deposit is Approved on chain, each pass of the indexer makes the record approved
\* again, and payment-status takes the release back.
DocTracksRelease ==
    [][\A s \in Stealths :
         records[s] # NoRecord /\ records'[s] # NoRecord /\ records[s].state = "released"
             => records'[s].state = "released"]_vars

==============================================================================
