--------------------------- MODULE EscrowLifecycle ---------------------------
(***************************************************************************)
(* What the quarantine promises of each deposit, without accounts, money   *)
(* or a clock: a deposit is held until a quorum of distinct oracles has    *)
(* judged it or its time has lapsed; a clean quorum leads to a release, a  *)
(* dirty one or the lapse of an undecided deposit to a refund, and nothing *)
(* leads to both.  It is the state machine of programs/quarantine-vault    *)
(* (DepositState), with ballots in place of counters.                      *)
(***************************************************************************)
EXTENDS Integers, FiniteSets

CONSTANTS
    Deposits,
    Oracles,
    Quorums    \* numbers of judgements a vault may ask for

VARIABLES
    phase,    \* deposit -> where it is in its life
    clean,    \* deposit -> oracles that have judged it clean
    dirty,    \* deposit -> oracles that have judged it dirty
    lapsed,   \* deposits whose time has run out
    quorum    \* deposit -> judgements that decide it, 0 when its vault is missing

avars == <<phase, clean, dirty, lapsed, quorum>>

Phases == {"Absent", "Pending", "Approved", "Rejected", "Released", "Refunded"}

AInit ==
    /\ phase = [d \in Deposits |-> "Absent"]
    /\ clean = [d \in Deposits |-> {}]
    /\ dirty = [d \in Deposits |-> {}]
    /\ lapsed = {}
    /\ quorum = [d \in Deposits |-> 0]

\* A vault appears: the deposits that will live in it get their quorum, once.
Establish(ds, q) ==
    /\ q > 0
    /\ \A d \in ds : quorum[d] = 0
    /\ quorum' = [d \in Deposits |-> IF d \in ds THEN q ELSE quorum[d]]
    /\ UNCHANGED <<phase, clean, dirty, lapsed>>

Hold(d) ==
    /\ quorum[d] > 0
    /\ phase[d] = "Absent"
    /\ phase' = [phase EXCEPT ![d] = "Pending"]
    /\ UNCHANGED <<clean, dirty, lapsed, quorum>>

\* An oracle judges a deposit once, and never after its time.
Decide(d, o) ==
    /\ phase[d] = "Pending"
    /\ d \notin lapsed
    /\ o \notin clean[d] \cup dirty[d]
    /\ \/ clean' = [clean EXCEPT ![d] = @ \cup {o}] /\ UNCHANGED dirty
       \/ dirty' = [dirty EXCEPT ![d] = @ \cup {o}] /\ UNCHANGED clean
    /\ phase' = [phase EXCEPT ![d] =
                   IF Cardinality(dirty'[d]) >= quorum[d] THEN "Rejected"
                   ELSE IF Cardinality(clean'[d]) >= quorum[d] THEN "Approved"
                   ELSE "Pending"]
    /\ UNCHANGED <<lapsed, quorum>>

\* Time passes for any number of deposits at once, whatever phase they are in.
Lapse(ds) ==
    /\ \A d \in ds : phase[d] # "Absent"
    /\ lapsed' = lapsed \cup ds
    /\ UNCHANGED <<phase, clean, dirty, quorum>>

\* A settled deposit stays at its address, or its account is reclaimed and the
\* address is as new.
SettleAs(d, final) ==
    \/ /\ phase' = [phase EXCEPT ![d] = final]
       /\ UNCHANGED <<clean, dirty, lapsed, quorum>>
    \/ /\ phase' = [phase EXCEPT ![d] = "Absent"]
       /\ clean' = [clean EXCEPT ![d] = {}]
       /\ dirty' = [dirty EXCEPT ![d] = {}]
       /\ lapsed' = lapsed \ {d}
       /\ UNCHANGED quorum

ReleaseIt(d) == phase[d] = "Approved" /\ SettleAs(d, "Released")

RefundIt(d) ==
    /\ phase[d] = "Rejected" \/ (phase[d] = "Pending" /\ d \in lapsed)
    /\ SettleAs(d, "Refunded")

ANext ==
    \/ \E ds \in SUBSET Deposits : Lapse(ds)
    \/ \E ds \in SUBSET Deposits, q \in Quorums : Establish(ds, q)
    \/ \E d \in Deposits :
          Hold(d) \/ ReleaseIt(d) \/ RefundIt(d) \/ \E o \in Oracles : Decide(d, o)

ASpec == AInit /\ [][ANext]_avars

==============================================================================
