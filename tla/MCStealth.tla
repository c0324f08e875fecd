------------------------------ MODULE MCStealth ------------------------------
(* Instance of Stealth for TLC: the group of three elements. *)
EXTENDS Stealth, TLC

CONSTANTS i1, i2, noPoint

MCSpend == (i1 :> 1 @@ i2 :> 2)
MCView == (i1 :> 2 @@ i2 :> 1)

\* One slice; two with one of the payers' nonces each.
MCFiles ==
    {<<[holder |-> i1, nonce |-> 0]>>,
     <<[holder |-> i2, nonce |-> 1], [holder |-> i1, nonce |-> 0]>>}

\* Nothing is fixed but what the neutral element hashes to.
MCOffsets ==
    {f \in [Points \X Nonces -> Scalars] : \A n \in Nonces : f[0, n] = 0}

\* A tag that tells one shared point from the others.
MCTags == {[p \in Points |-> IF p = 2 THEN 1 ELSE 0]}

==============================================================================
