----------------------------- MODULE MCGatewayApi -----------------------------
(* Instances of GatewayApi for TLC. *)
EXTENDS GatewayApi, TLC

CONSTANTS i1, i2, h1, h2, h3

MCKeyOf == (i1 :> h1 @@ i2 :> h2)

\* Bytes of four values written with digits of three: keys with no, one and two zeros in front.
MCStealths == {<<0, 0>>, <<0, 3>>, <<2, 1>>}

\* Integers are exact up to 4; 10 lies half-way between 8 and 12, 15 nearer to 16.
MCAmounts == (<<0, 0>> :> {3} @@ <<0, 3>> :> {10} @@ <<2, 1>> :> {15})

MCLimits == {-1, 1, 3, NaN}

(* What the API page says of the treasury routes and they do not do.         *)

\* "Default limit 100, max 500" of a list, whatever limit is asked for
\* (apps/dashboard/src/app/api/page.tsx:234).
ListsWithinMax(s) ==
    \A q \in Limits : Listed(s, q) # None => Len(Listed(s, q)) <= MaxLimit

\* "Aggregate counts by state for the calling institution."
\* (apps/dashboard/src/app/api/page.tsx:222).
CountsAggregate(i, s) ==
    /\ Counts(s).total = Cardinality(Mine(i))
    /\ \A st \in States :
          Counts(s).by_state[st] = Cardinality({id \in Mine(i) : rows[id].state = st})

\* Of the page's two claims at least one holds of every institution at any time.  That is
\* less than the page says, and the state that violates it refutes both: a negative limit
\* lists more than the maximum, and the counts leave records out
\* (routes.ts:142-181, memory.ts:86-94).
DocTreasuryRoutes ==
    \A i \in Institutions : \A s \in Orders(i) : ListsWithinMax(s) \/ CountsAggregate(i, s)

==============================================================================
