--------------------------- MODULE SubmissionQueue ---------------------------
(***************************************************************************)
(* The submission queue (src/queue.ts) and the submitter it drives         *)
(* (submitToAgoric in src/submitter.ts).                                   *)
(*                                                                         *)
(* The program is single threaded: what runs between two awaits is one     *)
(* step.  A member of Workers is one activation of processQueue.  The      *)
(* awaits of an activation are its program counters: status (the RPC       *)
(* status), read (getSubmission), exec (the result of getSubmission is     *)
(* there; agd runs synchronously) and record (addSubmission).              *)
(*                                                                         *)
(* Every caller enqueues evidence with status CONFIRMED, so the branches   *)
(* of submitToAgoric for REORGED evidence are never taken.                 *)
(***************************************************************************)
EXTENDS AgoricNetwork, SequencesExt

CONSTANTS Workers,   \* activations of processQueue
          NoTx,      \* the transaction of an idle worker
          MaxLag,    \* bound: blocks by which an RPC node trails the chain
          MaxSeq     \* bound: above every account sequence of the model

ASSUME NoTxAssumption == NoTx \notin Txs
ASSUME LagAssumption  == MaxLag \in Nat
ASSUME SeqAssumption  == MaxSeq \in Nat

VARIABLES subs,          \* the submissions collection
          queue,         \* transactions waiting in the queue
          inQueue,       \* the set of hashes that addToQueue consults
          isProcessing,  \* an activation of processQueue is under way
          worker,        \* the activations of processQueue
          watcherSeq,    \* watcherAccount.sequence
          orphaned       \* history: accepted broadcasts left unrecorded

queueVars == <<subs, queue, inQueue, isProcessing, worker, watcherSeq, orphaned>>

WorkerPc == {"idle", "status", "read", "exec", "record"}

Worker == [pc : WorkerPc, tx : Txs \cup {NoTx}, height : Nat, sub : Submission]

IdleWorker == [pc |-> "idle", tx |-> NoTx, height |-> 0, sub |-> Absent]

QueueTypeOK ==
    /\ subs \in Submissions
    /\ queue \in Seq(Txs)
    /\ inQueue \in SUBSET Txs
    /\ isProcessing \in BOOLEAN
    /\ worker \in [Workers -> Worker]
    /\ \A w \in Workers : worker[w].pc \in {"read", "exec", "record"} => worker[w].tx \in Txs
    /\ watcherSeq \in Nat
    /\ orphaned \in SUBSET Txs

MemoryInit ==
    /\ queue = <<>>
    /\ inQueue = {}
    /\ isProcessing = FALSE
    /\ worker = [w \in Workers |-> IdleWorker]

QueueInit ==
    /\ MemoryInit
    /\ subs = [t \in Txs |-> Absent]
    /\ watcherSeq = 0
    /\ orphaned = {}

\* Heights an RPC node may report.
ReportedHeights == {h \in 0..aHeight : aHeight <= h + MaxLag}

-----------------------------------------------------------------------------
\* Faulty form: addToQueue does not consult inQueue.
AddToQueueTwice(txs) ==
    /\ \E order \in SetToSeqs(txs) : queue' = queue \o order
    /\ inQueue' = inQueue \cup txs
    /\ IF txs = {} \/ isProcessing
       THEN UNCHANGED <<isProcessing, worker>>
       ELSE /\ isProcessing' = TRUE
            /\ \E w \in Workers :
                 /\ worker[w].pc = "idle"
                 /\ worker' = [worker EXCEPT ![w].pc = "status"]

\* Faulty form: processQueue does not consult isProcessing.
AddToQueueUnlocked(txs) ==
    /\ \E order \in SetToSeqs(txs \ inQueue) : queue' = queue \o order
    /\ inQueue' = inQueue \cup txs
    /\ isProcessing' = TRUE
    /\ \E w \in Workers :
         /\ worker[w].pc = "idle"
         /\ worker' = [worker EXCEPT ![w].pc = "status"]

\* addToQueue for each of txs, in one step of the event loop: the order of the
\* documents a query returns is not fixed.
AddToQueue(txs) ==
    /\ \E order \in SetToSeqs(txs \ inQueue) : queue' = queue \o order
    /\ inQueue' = inQueue \cup txs
    /\ IF txs = {} \/ isProcessing
       THEN UNCHANGED <<isProcessing, worker>>
       ELSE /\ isProcessing' = TRUE
            /\ \E w \in Workers :
                 /\ worker[w].pc = "idle"
                 /\ worker' = [worker EXCEPT ![w].pc = "status"]

\* The head of the while loop of processQueue.
NextEvidence(w, height) ==
    \/ /\ queue # <<>>
       /\ worker' = [worker EXCEPT ![w] = [pc |-> "read", tx |-> Head(queue),
                                           height |-> height, sub |-> Absent]]
       /\ queue' = Tail(queue)
       /\ UNCHANGED isProcessing
    \/ /\ queue = <<>>
       /\ worker' = [worker EXCEPT ![w] = IdleWorker]
       /\ isProcessing' = FALSE
       /\ UNCHANGED queue

\* submitToAgoric returned or threw: both end the turn of this evidence.
FinishEvidence(w) ==
    /\ inQueue' = inQueue \ {worker[w].tx}
    /\ NextEvidence(w, worker[w].height)

\* Faulty form: the early return leaves isProcessing set.
SkipSyncingLocked(w) ==
    /\ worker[w].pc = "status"
    /\ worker' = [worker EXCEPT ![w] = IdleWorker]
    /\ UNCHANGED <<chainVars, faults, subs, queue, inQueue, isProcessing,
                   watcherSeq, orphaned>>

\* The node is catching up, or its status could not be read.
SkipSyncing(w) ==
    /\ worker[w].pc = "status"
    /\ worker' = [worker EXCEPT ![w] = IdleWorker]
    /\ isProcessing' = FALSE
    /\ UNCHANGED <<chainVars, faults, subs, queue, inQueue, watcherSeq, orphaned>>

\* The status is read once, before the loop.
FetchStatus(w) ==
    /\ worker[w].pc = "status"
    /\ \E h \in ReportedHeights : NextEvidence(w, h)
    /\ UNCHANGED <<chainVars, faults, subs, inQueue, watcherSeq, orphaned>>

ReadSubmission(w) ==
    /\ worker[w].pc = "read"
    /\ worker' = [worker EXCEPT ![w].pc = "exec", ![w].sub = subs[worker[w].tx]]
    /\ UNCHANGED <<chainVars, faults, subs, queue, inQueue, isProcessing,
                   watcherSeq, orphaned>>

\* The query fails: submitToAgoric throws.
ReadFails(w) ==
    /\ worker[w].pc = "read"
    /\ Fault
    /\ FinishEvidence(w)
    /\ UNCHANGED <<chainVars, subs, watcherSeq, orphaned>>

\* Faulty form: an offer in flight does not count as submitted.
AlreadySubmittedFinal(sub, height) ==
    \/ sub.status = "SUBMITTED" /\ height < sub.timeout
    \/ sub.status = "FAILED"

\* Faulty form: gives an offer up one block early.
AlreadySubmittedEarly(sub, height) ==
    \/ sub.status \notin {"ABSENT", "CANCELLED"} /\ height + 1 < sub.timeout
    \/ sub.status = "FAILED"

\* The early returns of submitToAgoric.
AlreadySubmitted(sub, height) ==
    \/ sub.status \notin {"ABSENT", "CANCELLED"} /\ height < sub.timeout
    \/ sub.status = "FAILED"

Skip(w) ==
    /\ worker[w].pc = "exec"
    /\ AlreadySubmitted(worker[w].sub, worker[w].height)
    /\ FinishEvidence(w)
    /\ UNCHANGED <<chainVars, faults, subs, watcherSeq, orphaned>>

ReadyToSubmit(w) ==
    /\ worker[w].pc = "exec"
    /\ ~ AlreadySubmitted(worker[w].sub, worker[w].height)

TimeoutHeight(w) == worker[w].height + TxTimeoutBlocks

Broadcast(w) ==
    mempool' = Append(mempool, [tx |-> worker[w].tx, timeout |-> TimeoutHeight(w)])

\* watcherAccount.sequence++; MaxSeq stands for any number past the sequences
\* that the chain can expect.
IncrementSequence ==
    watcherSeq' = IF watcherSeq < MaxSeq THEN watcherSeq + 1 ELSE watcherSeq

\* What the chain's checks of a new transaction ask for.
Acceptable(w) ==
    /\ aHeight <= TimeoutHeight(w)
    /\ watcherSeq = ExpectedSequence

Accept(w) ==
    /\ ReadyToSubmit(w)
    /\ Acceptable(w)
    /\ Broadcast(w)
    /\ IncrementSequence
    /\ worker' = [worker EXCEPT ![w].pc = "record"]
    /\ UNCHANGED <<aHeight, offers, faults, subs, queue, inQueue, isProcessing, orphaned>>

\* Sequence mismatch: take the expected number and call submitToAgoric again.
Resync(w) ==
    /\ ReadyToSubmit(w)
    /\ aHeight <= TimeoutHeight(w)
    /\ watcherSeq # ExpectedSequence
    /\ watcherSeq' = ExpectedSequence
    /\ worker' = [worker EXCEPT ![w].pc = "read", ![w].sub = Absent]
    /\ UNCHANGED <<chainVars, faults, subs, queue, inQueue, isProcessing, orphaned>>

\* Any other response code: nothing is recorded, the sequence moves on.
Reject(w) ==
    /\ ReadyToSubmit(w)
    /\ \/ aHeight > TimeoutHeight(w) /\ UNCHANGED faults
       \/ Fault
    /\ IncrementSequence
    /\ FinishEvidence(w)
    /\ UNCHANGED <<chainVars, subs, orphaned>>

\* agd exits with an error or prints no JSON: the sequence does not move.
ExecFails(w) ==
    /\ ReadyToSubmit(w)
    /\ Fault
    /\ FinishEvidence(w)
    /\ UNCHANGED <<chainVars, subs, watcherSeq, orphaned>>

\* The same, after the node had accepted the broadcast.
AcceptedButExecFails(w) ==
    /\ ReadyToSubmit(w)
    /\ Fault
    /\ Acceptable(w)
    /\ Broadcast(w)
    /\ orphaned' = orphaned \cup {worker[w].tx}
    /\ FinishEvidence(w)
    /\ UNCHANGED <<aHeight, offers, subs, watcherSeq>>

RecordSubmission(w) ==
    /\ worker[w].pc = "record"
    /\ subs' = AddSubmission(subs, worker[w].tx, TimeoutHeight(w))
    /\ FinishEvidence(w)
    /\ UNCHANGED <<chainVars, faults, watcherSeq, orphaned>>

RecordFails(w) ==
    /\ worker[w].pc = "record"
    /\ Fault
    /\ orphaned' = orphaned \cup {worker[w].tx}
    /\ FinishEvidence(w)
    /\ UNCHANGED <<chainVars, subs, watcherSeq>>

WorkerStep(w) ==
    \/ SkipSyncing(w)
    \/ FetchStatus(w)
    \/ ReadSubmission(w)
    \/ ReadFails(w)
    \/ Skip(w)
    \/ Accept(w)
    \/ Resync(w)
    \/ Reject(w)
    \/ ExecFails(w)
    \/ AcceptedButExecFails(w)
    \/ RecordSubmission(w)
    \/ RecordFails(w)

=============================================================================
