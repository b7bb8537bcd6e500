--------------------------- MODULE SubmissionStore ---------------------------
(***************************************************************************)
(* The submissions collection of the watcher's Mongo database              *)
(* (src/lib/db.ts): what its updates write and what its queries return.    *)
(*                                                                         *)
(* A collection is a function from transaction hashes to documents.  One   *)
(* document per hash is enough: every evidence that reaches the queue has  *)
(* status CONFIRMED, so every document has reorged = false, and            *)
(* addSubmission and updateSubmissionStatus are both upserts by hash.      *)
(* ABSENT stands for "no document".  The timeout is 0 in a document that   *)
(* updateSubmissionStatus inserted: such a document has neither an offerId *)
(* nor a timeoutHeight.                                                    *)
(***************************************************************************)
EXTENDS Naturals, FiniteSets

CONSTANTS Txs              \* hashes of the burn transactions under watch

ASSUME TxsAssumption == IsFiniteSet(Txs)

SubmissionStatus == {"INFLIGHT", "SUBMITTED", "CANCELLED", "FAILED"}

Submission == [status : SubmissionStatus \cup {"ABSENT"}, timeout : Nat]

Absent == [status |-> "ABSENT", timeout |-> 0]

Submissions == [Txs -> Submission]

\* Record an offer that Agoric accepted: upsert by hash, all fields written.
AddSubmission(subs, t, timeout) ==
    [subs EXCEPT ![t] = [status |-> "INFLIGHT", timeout |-> timeout]]

\* Faulty form: replaces the document instead of setting one field.
ReplaceSubmission(subs, t, status) ==
    [subs EXCEPT ![t] = [status |-> status, timeout |-> 0]]

\* Set the status only; inserts a document when there is none.
UpdateSubmissionStatus(subs, t, status) ==
    [subs EXCEPT ![t].status = status]

\* The insertion done by UpdateSubmissionStatus leaves offerId out, and the
\* unique index on offerId admits one document without it.
DuplicateOfferId(subs, t) ==
    /\ subs[t].status = "ABSENT"
    /\ \E u \in Txs : subs[u].status # "ABSENT" /\ subs[u].timeout = 0

\* Faulty form: leaves the match on confirmations out of the query.
ToBeSentUnconfirmed(subs, confirmed) ==
    {t \in Txs : subs[t].status = "ABSENT"}

\* Confirmed transactions with no document in the collection.
ToBeSent(subs, confirmed) ==
    {t \in confirmed : subs[t].status = "ABSENT"}

\* Transactions in flight whose timeout height has passed.
ExpiredInflight(subs, maxTimeoutHeight) ==
    {t \in Txs : /\ subs[t].status = "INFLIGHT"
                 /\ subs[t].timeout < maxTimeoutHeight}

=============================================================================
