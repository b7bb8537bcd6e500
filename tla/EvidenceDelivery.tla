-------------------------- MODULE EvidenceDelivery ---------------------------
(***************************************************************************)
(* What the submission of evidence promises, whatever queue, database and  *)
(* polling carry it out: evidence lands on Agoric for confirmed            *)
(* transactions only, and the verdict the watcher keeps for a transaction  *)
(* is one that Agoric has given.  A verdict may be reopened, since a       *)
(* transaction whose timeout height has passed may be submitted again.     *)
(***************************************************************************)
CONSTANTS Txs

VARIABLES confirmed,  \* transactions that may be submitted
          attested,   \* transactions whose evidence Agoric took
          disputed,   \* transactions whose evidence Agoric found conflicting
          verdict     \* what the watcher believes of each transaction

dvars == <<confirmed, attested, disputed, verdict>>

Verdict == {"none", "submitted", "failed"}

TypeOK ==
    /\ confirmed \in SUBSET Txs
    /\ attested \in SUBSET Txs
    /\ disputed \in SUBSET Txs
    /\ verdict \in [Txs -> Verdict]

Init ==
    /\ confirmed = {}
    /\ attested = {}
    /\ disputed = {}
    /\ verdict = [t \in Txs |-> "none"]

Confirm(t) ==
    /\ confirmed' = confirmed \cup {t}
    /\ UNCHANGED <<attested, disputed, verdict>>

Land(t) ==
    /\ t \in confirmed
    /\ \/ attested' = attested \cup {t} /\ UNCHANGED disputed
       \/ disputed' = disputed \cup {t} /\ UNCHANGED attested
    /\ UNCHANGED <<confirmed, verdict>>

Conclude(t) ==
    /\ \/ t \in attested /\ verdict' = [verdict EXCEPT ![t] = "submitted"]
       \/ t \in disputed /\ verdict' = [verdict EXCEPT ![t] = "failed"]
    /\ UNCHANGED <<confirmed, attested, disputed>>

Reopen(t) ==
    /\ verdict' = [verdict EXCEPT ![t] = "none"]
    /\ UNCHANGED <<confirmed, attested, disputed>>

Next == \E t \in Txs : Confirm(t) \/ Land(t) \/ Conclude(t) \/ Reopen(t)

Spec == Init /\ [][Next]_dvars

=============================================================================
