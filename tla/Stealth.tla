------------------------------- MODULE Stealth -------------------------------
(***************************************************************************)
(* The stealth addresses of crates/stealth-core, as the three parties that *)
(* compute them see them: the gateway or the CLI derives an address from   *)
(* an institution's public keys and a fresh scalar, the indexer finds the  *)
(* deposit with the view key and the public spend key, the institution     *)
(* rebuilds the scalar of the address with both private keys.              *)
(*                                                                         *)
(* A point is written as its logarithm to the base point: mul_base is the  *)
(* identity on logarithms and the group operations are arithmetic modulo   *)
(* Order.  SHA-512 is a pair of unknown functions, chosen in Init, of the  *)
(* shared point; points with a torsion component, byte order and hex are   *)
(* left out.                                                               *)
(***************************************************************************)
EXTENDS Integers, Sequences, FiniteSets

CONSTANTS
    Order,          \* L, the order of the base point
    Nonces,
    Tags,           \* values of the view tag, one byte
    NoPoint,        \* an ephemeral_r that does not decompress
    Institutions,
    SpendKey,       \* institution -> spend scalar
    ViewKey,        \* institution -> view scalar
    SliceFiles,     \* contents of slices_file: sequences of slices
    OffsetHashes,   \* what scalar_from_hash may be, as a function of point and nonce
    TagHashes,      \* what view_tag may be, as a function of the point
    MaxDeposits     \* bound: accounts on chain

Scalars == 0..(Order - 1)
Points == Scalars

\* A slice is a key pair, here its holder's, with the nonce it is derived with.
Slice == [holder : Institutions, nonce : Nonces]
Deposit == [stealth_pubkey : Points, ephemeral_r : Points \cup {NoPoint}, view_tag : Tags]

ASSUME GroupAssumption == Order \in Nat \ {0} /\ NoPoint \notin Points
ASSUME NonceAssumption == 0 \in Nonces
ASSUME KeyAssumption ==
    /\ SpendKey \in [Institutions -> Scalars]
    /\ ViewKey \in [Institutions -> Scalars]
    /\ SliceFiles \subseteq Seq(Slice)
ASSUME HashAssumption ==
    /\ OffsetHashes \subseteq [Points \X Nonces -> Scalars]
    /\ TagHashes \subseteq [Points -> Tags]

VARIABLES
    offsetOf,   \* scalar_from_hash(hash_point(.), nonce)
    tagOf,      \* view_tag(hash_point(.))
    slices,     \* what the indexer has registered, in order
    deposits,   \* on chain
    scanned,    \* the deposits of the indexer's last complete pass with these slices
    found,      \* its matches
    paid        \* history: the deposits made to an address of an institution

hash == <<offsetOf, tagOf>>
vars == <<hash, slices, deposits, scanned, found, paid>>

------------------------------------------------------------------------------
(* The group, and the three computations.                                    *)

mul_base(s) == s

Add(p, q) == (p + q) % Order

Mul(s, p) == (s * p) % Order

SpendPub(i) == mul_base(SpendKey[i])
ViewPub(i) == mul_base(ViewKey[i])

derive_stealth_address(spend_pub, view_pub, r, nonce) ==
    LET shared == Mul(r, view_pub) IN
    [stealth_pubkey |-> Add(spend_pub, mul_base(offsetOf[<<shared, nonce>>])),
     ephemeral_r |-> mul_base(r),
     view_tag |-> tagOf[shared]]

reconstruct_spend_scalar(spend, view, ephemeral_r, nonce) ==
    Add(spend, offsetOf[<<Mul(view, ephemeral_r), nonce>>])

derive_for_recipient(spend_pub, shared, nonce) ==
    Add(spend_pub, mul_base(offsetOf[<<shared, nonce>>]))

\* Mutant: the tag is enough.
MatchesTag(s, d) == tagOf[Mul(ViewKey[s.holder], d.ephemeral_r)] = d.view_tag

\* Mutant: the nonce the gateway derives with.
MatchesFirstNonce(s, d) ==
    LET shared == Mul(ViewKey[s.holder], d.ephemeral_r) IN
    /\ tagOf[shared] = d.view_tag
    /\ derive_for_recipient(SpendPub(s.holder), shared, 0) = d.stealth_pubkey

\* scan_deposit of a readable deposit, whose result is `matched'.
Matches(s, d) ==
    LET shared == Mul(ViewKey[s.holder], d.ephemeral_r) IN
    /\ tagOf[shared] = d.view_tag
    /\ derive_for_recipient(SpendPub(s.holder), shared, s.nonce) = d.stealth_pubkey

\* Indexer::scan: the first slice that matches.
FirstMatch(k, d) ==
    /\ Matches(slices[k], d)
    /\ \A j \in 1..(k - 1) : ~ Matches(slices[j], d)

\* scan_deposit fails on a deposit whose ephemeral_r is no point, at the first slice.
Readable == slices = <<>> \/ \A d \in deposits : d.ephemeral_r # NoPoint

------------------------------------------------------------------------------

\* An address is derived from the institution's public keys and a deposit made to it.
PayTo(i, r, nonce) ==
    LET d == derive_stealth_address(SpendPub(i), ViewPub(i), r, nonce) IN
    /\ Cardinality(deposits) < MaxDeposits
    /\ deposits' = deposits \cup {d}
    /\ paid' = paid \cup {[deposit |-> d, holder |-> i, nonce |-> nonce]}
    /\ UNCHANGED <<hash, slices, scanned, found>>

\* The gateway derives with nonce 0, the CLI with the nonce it is given.
PayIssued(i, r) == PayTo(i, r, 0)
DepositSol(i, r, nonce) == PayTo(i, r, nonce)

\* The program accepts any three values.
PayOther(d) ==
    /\ Cardinality(deposits) < MaxDeposits
    /\ deposits' = deposits \cup {d}
    /\ UNCHANGED <<hash, slices, scanned, found, paid>>

\* One pass over the program's accounts.
Scan ==
    /\ Readable
    /\ scanned' = deposits
    /\ found' = {m \in [deposit : deposits, slice : 1..Len(slices)] :
                   FirstMatch(m.slice, m.deposit)}
    /\ UNCHANGED <<hash, slices, deposits, paid>>

\* Mutant: the matches of other slices are kept.
StartKeepsMatches(file) ==
    /\ slices' = file
    /\ UNCHANGED <<hash, deposits, scanned, found, paid>>

\* The indexer starts with a slices file.
Start(file) ==
    /\ slices' = file
    /\ scanned' = {} /\ found' = {}
    /\ UNCHANGED <<hash, deposits, paid>>

Init ==
    /\ offsetOf \in OffsetHashes /\ tagOf \in TagHashes
    /\ slices \in SliceFiles
    /\ deposits = {} /\ scanned = {} /\ found = {} /\ paid = {}

Next ==
    \/ \E i \in Institutions, r \in Scalars :
          PayIssued(i, r) \/ \E nonce \in Nonces : DepositSol(i, r, nonce)
    \/ \E d \in Deposit : PayOther(d)
    \/ Scan
    \/ \E file \in SliceFiles : Start(file)

Spec == Init /\ [][Next]_vars

------------------------------------------------------------------------------
(* Properties.                                                               *)

\* Types: scalars and points stay reduced, matches name deposits and slices.
TypeOK ==
    /\ offsetOf \in [Points \X Nonces -> Scalars]
    /\ tagOf \in [Points -> Tags]
    /\ slices \in Seq(Slice)
    /\ deposits \subseteq Deposit /\ scanned \subseteq deposits
    /\ found \subseteq [deposit : scanned, slice : 1..Len(slices)]
    /\ paid \subseteq [deposit : deposits, holder : Institutions, nonce : Nonces]

\* A deposit to an address of a registered slice, derived with the slice's nonce, is
\* matched by every complete pass, whatever the hashes are, although payer and indexer
\* reach the shared point from different halves of the keys (scan.rs:11-33).
OwnIsFound ==
    \A p \in paid, k \in 1..Len(slices) :
        /\ p.deposit \in scanned
        /\ slices[k] = [holder |-> p.holder, nonce |-> p.nonce]
        => \E m \in found : m.deposit = p.deposit

\* The slice a deposit is attributed to can spend it: the scalar its holder rebuilds is
\* that of the deposit's stealth_pubkey, also for a match by coincidence or by a slice
\* other than the payer meant (stealth.rs:63-77).
FoundIsSpendable ==
    \A m \in found :
        LET s == slices[m.slice] IN
        mul_base(reconstruct_spend_scalar(SpendKey[s.holder], ViewKey[s.holder],
                                          m.deposit.ephemeral_r, s.nonce))
            = m.deposit.stealth_pubkey

==============================================================================
