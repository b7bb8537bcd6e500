----------------------- MODULE EvidencePipeline_proofs -----------------------
(***************************************************************************)
(* Theorems about EvidencePipeline, for every value of its constants.      *)
(***************************************************************************)
EXTENDS EvidencePipeline, FiniteSetTheorems, SequenceTheorems, TLAPS

-----------------------------------------------------------------------------
(***************************************************************************)
(* Type correctness.                                                       *)
(***************************************************************************)

\* The orders in which AddToQueue may append a set of transactions.
LEMMA SetToSeqsType ==
    ASSUME NEW S \in SUBSET Txs, NEW order \in SetToSeqs(S)
    PROVE  order \in Seq(Txs)
<1>1. IsFiniteSet(S)
  BY TxsAssumption, FS_Subset
<1>2. Cardinality(S) \in Nat
  BY <1>1, FS_CardinalityType
<1>3. order \in [1..Cardinality(S) -> Txs]
  BY DEF SetToSeqs
<1> QED
  BY <1>2, <1>3

\* addToQueue keeps the types of what it changes.
LEMMA AddToQueueType ==
    ASSUME QueueTypeOK, NEW txs \in SUBSET Txs, AddToQueue(txs)
    PROVE  /\ queue' \in Seq(Txs)
           /\ inQueue' \in SUBSET Txs
           /\ isProcessing' \in BOOLEAN
           /\ worker' \in [Workers -> Worker]
           /\ \A w \in Workers : worker'[w].pc \in {"read", "exec", "record"}
                                    => worker'[w].tx \in Txs
<1>1. queue' \in Seq(Txs)
  <2>1. PICK order \in SetToSeqs(txs \ inQueue) : queue' = queue \o order
    BY DEF AddToQueue
  <2>2. order \in Seq(Txs)
    BY <2>1, SetToSeqsType
  <2> QED
    BY <2>1, <2>2 DEF QueueTypeOK
<1>2. inQueue' \in SUBSET Txs
  BY DEF AddToQueue, QueueTypeOK
<1>3. CASE UNCHANGED <<isProcessing, worker>>
  BY <1>1, <1>2, <1>3 DEF QueueTypeOK
<1>4. CASE ~ UNCHANGED <<isProcessing, worker>>
  BY <1>1, <1>2, <1>4 DEF AddToQueue, QueueTypeOK, Worker, WorkerPc
<1> QED
  BY <1>3, <1>4

\* So does the head of the loop of processQueue.
LEMMA NextEvidenceType ==
    ASSUME QueueTypeOK, NEW w \in Workers, NEW h \in Nat, NextEvidence(w, h)
    PROVE  /\ queue' \in Seq(Txs)
           /\ isProcessing' \in BOOLEAN
           /\ worker' \in [Workers -> Worker]
           /\ \A v \in Workers : worker'[v].pc \in {"read", "exec", "record"}
                                    => worker'[v].tx \in Txs
<1> USE DEF QueueTypeOK, Worker, WorkerPc
<1>1. Absent \in Submission
  BY DEF Absent, Submission
<1>2. CASE queue # <<>> /\ NextEvidence(w, h)
  <2>1. Head(queue) \in Txs /\ Tail(queue) \in Seq(Txs)
    BY <1>2, HeadTailProperties
  <2>2. /\ worker' = [worker EXCEPT ![w] = [pc |-> "read", tx |-> Head(queue),
                                            height |-> h, sub |-> Absent]]
        /\ queue' = Tail(queue)
        /\ UNCHANGED isProcessing
    BY <1>2 DEF NextEvidence
  <2> QED
    BY <1>1, <2>1, <2>2
<1>3. CASE queue = <<>> /\ NextEvidence(w, h)
  <2>1. /\ worker' = [worker EXCEPT ![w] = IdleWorker]
        /\ isProcessing' = FALSE
        /\ UNCHANGED queue
    BY <1>3 DEF NextEvidence
  <2> QED
    BY <1>1, <2>1 DEF IdleWorker
<1> QED
  BY <1>2, <1>3

\* And the end of the turn of an evidence.
LEMMA FinishEvidenceType ==
    ASSUME QueueTypeOK, NEW w \in Workers, FinishEvidence(w)
    PROVE  /\ queue' \in Seq(Txs)
           /\ inQueue' \in SUBSET Txs
           /\ isProcessing' \in BOOLEAN
           /\ worker' \in [Workers -> Worker]
           /\ \A v \in Workers : worker'[v].pc \in {"read", "exec", "record"}
                                    => worker'[v].tx \in Txs
<1>1. worker[w].height \in Nat
  BY DEF QueueTypeOK, Worker
<1>2. inQueue' \in SUBSET Txs
  BY DEF FinishEvidence, QueueTypeOK
<1> QED
  BY <1>1, <1>2, NextEvidenceType DEF FinishEvidence

\* Each operation of the queue and the submitter keeps the types.
LEMMA WorkerStepType ==
    ASSUME NetworkTypeOK, QueueTypeOK, NEW w \in Workers, WorkerStep(w)
    PROVE  NetworkTypeOK' /\ QueueTypeOK'
<1> USE DEF NetworkTypeOK, chainVars, Fault, IncrementSequence
<1>1. CASE SkipSyncing(w)
  BY <1>1 DEF SkipSyncing, QueueTypeOK, Worker, WorkerPc, IdleWorker, Absent, Submission
<1>2. CASE FetchStatus(w)
  <2>1. PICK h \in ReportedHeights : NextEvidence(w, h)
    BY <1>2 DEF FetchStatus
  <2>2. h \in Nat
    BY DEF ReportedHeights
  <2> QED
    BY <1>2, <2>1, <2>2, NextEvidenceType DEF FetchStatus, QueueTypeOK
<1>3. CASE ReadSubmission(w)
  <2>1. subs[worker[w].tx] \in Submission
    BY <1>3 DEF ReadSubmission, QueueTypeOK, Submissions
  <2> QED
    BY <1>3, <2>1 DEF ReadSubmission, QueueTypeOK, Worker, WorkerPc
<1>4. CASE ReadFails(w)
  BY <1>4, FinishEvidenceType DEF ReadFails, QueueTypeOK
<1>5. CASE Skip(w)
  BY <1>5, FinishEvidenceType DEF Skip, QueueTypeOK
<1>6. ASSUME ReadyToSubmit(w)
      PROVE  [tx |-> worker[w].tx, timeout |-> TimeoutHeight(w)] \in Entry
  BY <1>6, TimeoutAssumption
     DEF ReadyToSubmit, QueueTypeOK, Worker, Entry, TimeoutHeight
<1>7. CASE Accept(w)
  <2>1. mempool' \in Seq(Entry)
    BY <1>6, <1>7, AppendProperties DEF Accept, Broadcast
  <2>2. watcherSeq' \in Nat
    BY <1>7 DEF Accept, QueueTypeOK
  <2>3. /\ worker' \in [Workers -> Worker]
        /\ \A v \in Workers : worker'[v].pc \in {"read", "exec", "record"}
                                 => worker'[v].tx \in Txs
    BY <1>7 DEF Accept, ReadyToSubmit, QueueTypeOK, Worker, WorkerPc
  <2> QED
    BY <1>7, <2>1, <2>2, <2>3 DEF Accept, QueueTypeOK
<1>8. CASE Resync(w)
  <2>1. ExpectedSequence \in Nat
    BY LenProperties DEF ExpectedSequence
  <2> QED
    BY <1>8, <2>1
       DEF Resync, ReadyToSubmit, QueueTypeOK, Worker, WorkerPc, Absent, Submission
<1>9. CASE Reject(w)
  BY <1>9, FinishEvidenceType DEF Reject, QueueTypeOK
<1>10. CASE ExecFails(w)
  BY <1>10, FinishEvidenceType DEF ExecFails, QueueTypeOK
<1>11. CASE AcceptedButExecFails(w)
  <2>1. mempool' \in Seq(Entry)
    BY <1>6, <1>11, AppendProperties DEF AcceptedButExecFails, Broadcast
  <2>2. orphaned' \in SUBSET Txs
    BY <1>11 DEF AcceptedButExecFails, ReadyToSubmit, QueueTypeOK
  <2> QED
    BY <1>11, <2>1, <2>2, FinishEvidenceType DEF AcceptedButExecFails, QueueTypeOK
<1>12. CASE RecordSubmission(w)
  <2>1. subs' \in Submissions
    BY <1>12, TimeoutAssumption
       DEF RecordSubmission, AddSubmission, TimeoutHeight, QueueTypeOK, Worker,
           Submissions, Submission, SubmissionStatus
  <2> QED
    BY <1>12, <2>1, FinishEvidenceType DEF RecordSubmission, QueueTypeOK
<1>13. CASE RecordFails(w)
  <2>1. orphaned' \in SUBSET Txs
    BY <1>13 DEF RecordFails, QueueTypeOK
  <2> QED
    BY <1>13, <2>1, FinishEvidenceType DEF RecordFails, QueueTypeOK
<1> QED
  BY <1>1, <1>2, <1>3, <1>4, <1>5, <1>7, <1>8, <1>9, <1>10, <1>11, <1>12, <1>13
     DEF WorkerStep

\* A status update keeps the types, whether or not the index refuses it.
LEMMA MarkType ==
    ASSUME QueueTypeOK, MonitorTypeOK, NEW m \in Monitors, NEW t \in Txs,
           NEW status \in SubmissionStatus, NEW rest \in Monitor,
           Mark(m, t, status, rest)
    PROVE  subs' \in Submissions /\ monitor' \in [Monitors -> Monitor]
<1>1. UpdateSubmissionStatus(subs, t, status) \in Submissions
  BY DEF UpdateSubmissionStatus, QueueTypeOK, Submissions, Submission, SubmissionStatus
<1>2. IdleMonitor \in Monitor
  BY DEF IdleMonitor, Monitor, MonitorPc
<1> QED
  BY <1>1, <1>2 DEF Mark, Leave, QueueTypeOK, MonitorTypeOK

\* Each step of the handler of new Agoric blocks keeps the types.
LEMMA MonitorStepType ==
    ASSUME NetworkTypeOK, QueueTypeOK, MonitorTypeOK, NEW m \in Monitors, MonitorStep(m)
    PROVE  NetworkTypeOK' /\ QueueTypeOK' /\ MonitorTypeOK'
<1> USE DEF NetworkTypeOK, chainVars, queueVars, Fault
<1>1. IdleMonitor \in Monitor /\ monitor[m] \in Monitor
  BY DEF IdleMonitor, Monitor, MonitorPc, MonitorTypeOK
<1>2. CASE ScanOffers(m)
  <2>1. PICK h \in ReportedHeights, k \in Followed :
          monitor' = [monitor EXCEPT ![m] =
             [pc |-> "conflicts", height |-> h,
              conflicts |-> TxsWithResult(NewOffers(k), "conflict"),
              succeeded |-> TxsWithResult(NewOffers(k), "ok")
                               \ TxsWithResult(NewOffers(k), "conflict"),
              last |-> k, expired |-> {}]]
    BY <1>2 DEF ScanOffers
  <2>2. h \in Nat /\ k \in Nat
    BY DEF ReportedHeights, Followed
  <2>3. \A positions, result : TxsWithResult(positions, result) \in SUBSET Txs
    BY DEF TxsWithResult
  <2>4. monitor' \in [Monitors -> Monitor]
    BY <2>1, <2>2, <2>3 DEF MonitorTypeOK, Monitor, MonitorPc
  <2> QED
    BY <1>2, <2>4 DEF ScanOffers, QueueTypeOK, MonitorTypeOK
<1>3. CASE MarkFailed(m)
  <2>1. PICK t \in monitor[m].conflicts :
          Mark(m, t, "FAILED",
               [monitor[m] EXCEPT !.conflicts = monitor[m].conflicts \ {t}])
    BY <1>3 DEF MarkFailed
  <2>2. [monitor[m] EXCEPT !.conflicts = monitor[m].conflicts \ {t}] \in Monitor
    BY <1>1 DEF Monitor
  <2>3. t \in Txs /\ "FAILED" \in SubmissionStatus
    BY <1>1 DEF Monitor, SubmissionStatus
  <2> QED
    BY <1>3, <2>1, <2>2, <2>3, MarkType
       DEF MarkFailed, UnchangedByMark, QueueTypeOK, MonitorTypeOK
<1>4. CASE SaveLastOffer(m)
  <2>1. lastOfferId' \in Nat /\ monitor' \in [Monitors -> Monitor]
    BY <1>1, <1>4 DEF SaveLastOffer, SetLastOfferId, MonitorTypeOK, Monitor, MonitorPc
  <2> QED
    BY <1>4, <2>1 DEF SaveLastOffer, QueueTypeOK, MonitorTypeOK
<1>5. CASE MarkSubmitted(m)
  <2>1. PICK t \in monitor[m].succeeded :
          Mark(m, t, "SUBMITTED",
               [monitor[m] EXCEPT !.succeeded = monitor[m].succeeded \ {t}])
    BY <1>5 DEF MarkSubmitted
  <2>2. [monitor[m] EXCEPT !.succeeded = monitor[m].succeeded \ {t}] \in Monitor
    BY <1>1 DEF Monitor
  <2>3. t \in Txs /\ "SUBMITTED" \in SubmissionStatus
    BY <1>1 DEF Monitor, SubmissionStatus
  <2> QED
    BY <1>5, <2>1, <2>2, <2>3, MarkType
       DEF MarkSubmitted, UnchangedByMark, QueueTypeOK, MonitorTypeOK
<1>6. CASE QueryExpired(m)
  <2>1. ExpiredInflight(subs, monitor[m].height) \in SUBSET Txs
    BY DEF ExpiredInflight
  <2> DEFINE waiting == [monitor[m] EXCEPT !.pc = "requeue",
                          !.expired = ExpiredInflight(subs, monitor[m].height)]
  <2>2. waiting \in Monitor
    BY <1>1, <2>1 DEF Monitor, MonitorPc
  <2>3. monitor' \in [Monitors -> Monitor]
    BY <1>1, <1>6, <2>2 DEF QueryExpired, Leave, MonitorTypeOK
  <2> QED
    BY <1>6, <2>3 DEF QueryExpired, QueueTypeOK, MonitorTypeOK
<1>7. CASE RequeueExpired(m)
  <2>1. monitor[m].expired \in SUBSET Txs
    BY <1>1 DEF Monitor
  <2>2. monitor' \in [Monitors -> Monitor]
    BY <1>1, <1>7 DEF RequeueExpired, Leave, MonitorTypeOK
  <2> QED
    BY <1>7, <2>1, <2>2, AddToQueueType DEF RequeueExpired, QueueTypeOK, MonitorTypeOK
<1>8. CASE MonitorFails(m)
  BY <1>1, <1>8 DEF MonitorFails, Leave, QueueTypeOK, MonitorTypeOK
<1> QED
  BY <1>2, <1>3, <1>4, <1>5, <1>6, <1>7, <1>8 DEF MonitorStep

\* The initial state is typed.
LEMMA InitType ==
    ASSUME Init
    PROVE  TypeOK
<1>1. NetworkTypeOK
  BY EmptySeq DEF Init, NetworkInit, NetworkTypeOK
<1>2. QueueTypeOK
  BY EmptySeq DEF Init, QueueInit, MemoryInit, QueueTypeOK, IdleWorker, Worker,
     WorkerPc, Submissions, Submission, Absent
<1>3. MonitorTypeOK
  BY DEF Init, MonitorInit, MonitorMemoryInit, MonitorTypeOK, IdleMonitor, Monitor,
     MonitorPc
<1> QED
  BY <1>1, <1>2, <1>3 DEF Init, TypeOK, IdleEvmHandler, EvmHandler

\* Every variable keeps its type.
THEOREM TypeCorrect == Spec => []TypeOK
<1>1. Init => TypeOK
  BY InitType
<1>2. TypeOK /\ [Next]_vars => TypeOK'
  <2> SUFFICES ASSUME TypeOK, [Next]_vars PROVE TypeOK'
    OBVIOUS
  <2> USE DEF TypeOK
  <2>1. CASE ChainStep
    <3>1. ASSUME mempool # <<>> PROVE Head(mempool) \in Entry /\ Tail(mempool) \in Seq(Entry)
      BY <3>1, HeadTailProperties DEF NetworkTypeOK
    <3>2. CASE IncludeOffer
      <4>1. PICK r \in Result :
              offers' = Append(offers, [tx |-> Head(mempool).tx, result |-> r])
        BY <3>2 DEF IncludeOffer
      <4>2. [tx |-> Head(mempool).tx, result |-> r] \in Offer
        BY <3>1, <3>2 DEF IncludeOffer, Entry, Offer
      <4>3. offers' \in Seq(Offer)
        BY <4>1, <4>2, AppendProperties DEF NetworkTypeOK
      <4> QED
        BY <2>1, <3>1, <3>2, <4>3
           DEF ChainStep, IncludeOffer, NetworkTypeOK, QueueTypeOK, MonitorTypeOK,
               queueVars, monitorVars, evmVars
    <3>3. ASSUME NEW i \in 1..Len(mempool), DropFrom(i) PROVE mempool' \in Seq(Entry)
      BY <3>3, SubSeqProperties DEF DropFrom, NetworkTypeOK
    <3>4. CASE Expire \/ Evict
      BY <2>1, <3>3, <3>4
         DEF ChainStep, Expire, Evict, DropFrom, Fault, NetworkTypeOK, QueueTypeOK,
             MonitorTypeOK, queueVars, monitorVars, evmVars
    <3>5. CASE NewBlock
      BY <2>1, <3>5
         DEF ChainStep, NewBlock, NetworkTypeOK, QueueTypeOK, MonitorTypeOK,
             queueVars, monitorVars, evmVars
    <3> QED
      BY <2>1, <3>2, <3>4, <3>5 DEF ChainStep
  <2>2. ASSUME NEW t \in Txs, Confirm(t) PROVE TypeOK'
    BY <2>2 DEF Confirm, NetworkTypeOK, QueueTypeOK, MonitorTypeOK, chainVars,
       queueVars, monitorVars
  <2>3. ASSUME NEW w \in Workers, WorkerStep(w), UNCHANGED <<monitorVars, evmVars>>
        PROVE  TypeOK'
    BY <2>3, WorkerStepType DEF MonitorTypeOK, monitorVars, evmVars
  <2>4. ASSUME NEW m \in Monitors, MonitorStep(m), UNCHANGED evmVars PROVE TypeOK'
    BY <2>4, MonitorStepType DEF evmVars
  <2>5. ASSUME NEW b \in EvmHandlers, EvmStep(b) PROVE TypeOK'
    <3>1. CASE ReadToBeSent(b)
      <4>1. ToBeSent(subs, confirmed) \in SUBSET Txs
        BY DEF ToBeSent
      <4>2. evm' \in [EvmHandlers -> EvmHandler]
        BY <3>1, <4>1 DEF ReadToBeSent, EvmHandler
      <4> QED
        BY <3>1, <4>2 DEF ReadToBeSent, NetworkTypeOK, QueueTypeOK, MonitorTypeOK,
           chainVars, queueVars, monitorVars
    <3>2. CASE QueueToBeSent(b)
      <4>1. evm[b].txs \in SUBSET Txs
        BY DEF EvmHandler
      <4>2. evm' \in [EvmHandlers -> EvmHandler]
        BY <3>2 DEF QueueToBeSent, EvmHandler, IdleEvmHandler
      <4> QED
        BY <3>2, <4>1, <4>2, AddToQueueType
           DEF QueueToBeSent, NetworkTypeOK, QueueTypeOK, MonitorTypeOK, chainVars,
               monitorVars
    <3> QED
      BY <2>5, <3>1, <3>2 DEF EvmStep
  <2>6. CASE CrashAndRestart
    <3>1. Len(offers) \in Nat
      BY LenProperties DEF NetworkTypeOK
    <3>2. orphaned' \in SUBSET Txs
      BY <2>6 DEF CrashAndRestart, Unrecorded, QueueTypeOK
    <3>3. worker' \in [Workers -> Worker] /\ \A w \in Workers : worker'[w].pc = "idle"
      BY <2>6 DEF CrashAndRestart, IdleWorker, Worker, WorkerPc, Absent, Submission
    <3>4. monitor' \in [Monitors -> Monitor] /\ evm' \in [EvmHandlers -> EvmHandler]
      BY <2>6 DEF CrashAndRestart, IdleMonitor, Monitor, MonitorPc, IdleEvmHandler, EvmHandler
    <3>5. NetworkTypeOK'
      BY <2>6 DEF CrashAndRestart, NetworkTypeOK, chainVars, Fault
    <3>6. QueueTypeOK'
      BY <2>6, <3>1, <3>2, <3>3, EmptySeq DEF CrashAndRestart, QueueTypeOK
    <3> QED
      BY <2>6, <3>4, <3>5, <3>6 DEF CrashAndRestart, MonitorTypeOK
  <2>7. CASE UNCHANGED vars
    BY <2>7 DEF vars, chainVars, queueVars, monitorVars, evmVars, NetworkTypeOK,
       QueueTypeOK, MonitorTypeOK
  <2> QED
    BY <2>1, <2>2, <2>3, <2>4, <2>5, <2>6, <2>7 DEF Next
<1> QED
  BY <1>1, <1>2, PTL DEF Spec

-----------------------------------------------------------------------------
(***************************************************************************)
(* One activation of processQueue at a time.                               *)
(***************************************************************************)

\* What the head of the loop does to the activations.
LEMMA NextEvidenceEffect ==
    ASSUME QueueTypeOK, NEW w \in Workers, NEW h \in Nat, NextEvidence(w, h)
    PROVE  /\ \A v \in Workers : v # w => worker'[v] = worker[v]
           /\ \/ /\ worker'[w].pc = "read" /\ worker'[w].height = h
                 /\ isProcessing' = isProcessing
              \/ /\ worker'[w].pc = "idle" /\ worker'[w].height = 0
                 /\ isProcessing' = FALSE
  BY DEF QueueTypeOK, NextEvidence, IdleWorker

\* addToQueue starts an activation only when there is none.
LEMMA AddToQueueEffect ==
    ASSUME QueueTypeOK, NEW txs, AddToQueue(txs)
    PROVE  \/ UNCHANGED <<isProcessing, worker>>
           \/ /\ isProcessing = FALSE /\ isProcessing' = TRUE
              /\ \E w \in Workers :
                   /\ worker[w].pc = "idle"
                   /\ worker'[w].pc = "status"
                   /\ worker'[w].height = worker[w].height
                   /\ \A v \in Workers : v # w => worker'[v] = worker[v]
  BY DEF QueueTypeOK, AddToQueue, Worker

\* The lock stays held exactly while an activation is under way.
LEMMA SerializedStep ==
    ASSUME TypeOK, SubmissionsSerialized, [Next]_vars
    PROVE  SubmissionsSerialized'
<1> USE DEF TypeOK
<1>1. CASE UNCHANGED <<isProcessing, worker>>
  BY <1>1 DEF SubmissionsSerialized
<1>2. ASSUME NEW w \in Workers, NEW h \in Nat, worker[w].pc # "idle", NextEvidence(w, h)
      PROVE  SubmissionsSerialized'
  <2>1. isProcessing /\ \A v \in Workers : v # w => worker[v].pc = "idle"
    BY <1>2 DEF SubmissionsSerialized
  <2>2. \A v \in Workers : v # w => worker'[v].pc = "idle"
    BY <1>2, <2>1, NextEvidenceEffect
  <2>3. CASE worker'[w].pc = "read" /\ isProcessing' = isProcessing
    BY <2>1, <2>2, <2>3 DEF SubmissionsSerialized
  <2>4. CASE worker'[w].pc = "idle" /\ isProcessing' = FALSE
    BY <2>2, <2>4 DEF SubmissionsSerialized
  <2> QED
    BY <1>2, <2>3, <2>4, NextEvidenceEffect
<1>3. ASSUME NEW w \in Workers, worker[w].pc # "idle", FinishEvidence(w)
      PROVE  SubmissionsSerialized'
  <2>1. worker[w].height \in Nat
    BY DEF QueueTypeOK, Worker
  <2> QED
    BY <1>2, <1>3, <2>1 DEF FinishEvidence
<1>4. ASSUME NEW w \in Workers, WorkerStep(w) PROVE SubmissionsSerialized'
  <2>1. CASE SkipSyncing(w)
    BY <2>1 DEF SkipSyncing, SubmissionsSerialized, QueueTypeOK, IdleWorker
  <2>2. CASE FetchStatus(w)
    <3>1. PICK h \in ReportedHeights : NextEvidence(w, h)
      BY <2>2 DEF FetchStatus
    <3>2. h \in Nat
      BY DEF ReportedHeights
    <3> QED
      BY <1>2, <2>2, <3>1, <3>2 DEF FetchStatus
  <2>3. CASE ReadSubmission(w) \/ Accept(w) \/ Resync(w)
    <3>1. /\ UNCHANGED isProcessing
          /\ worker[w].pc # "idle" /\ worker'[w].pc # "idle"
          /\ \A v \in Workers : v # w => worker'[v] = worker[v]
      BY <2>3 DEF ReadSubmission, Accept, Resync, ReadyToSubmit, QueueTypeOK, Worker
    <3> QED
      BY <3>1 DEF SubmissionsSerialized
  <2>4. CASE \/ ReadFails(w) \/ Skip(w) \/ Reject(w) \/ ExecFails(w)
             \/ AcceptedButExecFails(w) \/ RecordSubmission(w) \/ RecordFails(w)
    BY <1>3, <2>4 DEF ReadFails, Skip, Reject, ExecFails, AcceptedButExecFails,
       RecordSubmission, RecordFails, ReadyToSubmit
  <2> QED
    BY <1>4, <2>1, <2>2, <2>3, <2>4 DEF WorkerStep
<1>5. ASSUME NEW txs, AddToQueue(txs) PROVE SubmissionsSerialized'
  BY <1>1, <1>5, AddToQueueEffect DEF SubmissionsSerialized
<1>6. ASSUME NEW m \in Monitors, MonitorStep(m) PROVE SubmissionsSerialized'
  BY <1>1, <1>5, <1>6 DEF MonitorStep, ScanOffers, MarkFailed, SaveLastOffer,
     MarkSubmitted, QueryExpired, RequeueExpired, MonitorFails, UnchangedByMark, queueVars
<1>7. ASSUME NEW b \in EvmHandlers, EvmStep(b) PROVE SubmissionsSerialized'
  BY <1>1, <1>5, <1>7 DEF EvmStep, ReadToBeSent, QueueToBeSent, queueVars
<1>8. CASE CrashAndRestart
  BY <1>8 DEF CrashAndRestart, SubmissionsSerialized, IdleWorker
<1> QED
  BY <1>1, <1>4, <1>6, <1>7, <1>8 DEF Next, ChainStep, Confirm, vars, queueVars

\* There is never a second activation of processQueue, and isProcessing tells.
THEOREM Serialized == Spec => []SubmissionsSerialized
<1>1. Init => SubmissionsSerialized
  BY DEF Init, QueueInit, MemoryInit, SubmissionsSerialized, IdleWorker
<1>2. TypeOK /\ SubmissionsSerialized /\ [Next]_vars => SubmissionsSerialized'
  BY SerializedStep
<1> QED
  BY <1>1, <1>2, TypeCorrect, PTL DEF Spec

-----------------------------------------------------------------------------
(***************************************************************************)
(* At most one live offer per transaction.                                 *)
(***************************************************************************)

\* Entries that stay where they are, or move up together, are as recorded and
\* as distinct as they were, when no record moves back and a lost record is
\* accounted for.
LEMMA EntriesKept ==
    ASSUME OfferInv, TypeOK', NEW k \in Nat,
           aHeight' >= aHeight,
           \A i \in 1..Len(mempool') :
              i + k \in 1..Len(mempool) /\ mempool'[i] = mempool[i + k],
           orphaned \subseteq orphaned',
           \A t \in Txs : subs'[t].timeout = subs[t].timeout,
           \A v \in Workers : worker[v].pc = "record" =>
              worker'[v] = worker[v] \/ worker[v].tx \in orphaned'
    PROVE  EntriesRecorded' /\ AtMostOneLiveOffer'
<1> USE DEF OfferInv
<1>1. mempool \in Seq(Entry) /\ mempool' \in Seq(Entry)
  BY DEF TypeOK, NetworkTypeOK
<1>2. aHeight \in Nat /\ aHeight' \in Nat
  BY DEF TypeOK, NetworkTypeOK
<1>3. AtMostOneLiveOffer'
  <2> SUFFICES ASSUME NEW i \in 1..Len(mempool'), NEW j \in 1..Len(mempool'),
                      mempool'[i].tx = mempool'[j].tx,
                      mempool'[i].tx \notin orphaned',
                      Includable(mempool[i])', Includable(mempool[j])'
               PROVE  i = j
    BY DEF AtMostOneLiveOffer
  <2>1. mempool'[i] \in Entry /\ mempool'[j] \in Entry
    BY <1>1, ElementOfSeq
  <2>2. /\ i + k \in 1..Len(mempool) /\ mempool'[i] = mempool[i + k]
        /\ j + k \in 1..Len(mempool) /\ mempool'[j] = mempool[j + k]
    OBVIOUS
  <2>3. Includable(mempool[i + k]) /\ Includable(mempool[j + k])
    BY <1>2, <2>1, <2>2 DEF Includable, Entry
  <2>4. i + k = j + k
    BY <2>2, <2>3 DEF AtMostOneLiveOffer
  <2> QED
    BY <1>1, <2>4, LenProperties
<1>4. EntriesRecorded'
  <2> SUFFICES ASSUME NEW i \in 1..Len(mempool'), mempool'[i].tx \notin orphaned'
               PROVE  EntryRecorded(mempool[i])'
    BY DEF EntriesRecorded
  <2>1. mempool'[i] \in Entry
    BY <1>1, ElementOfSeq
  <2>2. EntryRecorded(mempool'[i])
    BY DEF EntriesRecorded
  <2>3. CASE mempool'[i].timeout <= subs[mempool'[i].tx].timeout
    BY <2>1, <2>3 DEF EntryRecorded, Entry
  <2>4. ASSUME NEW w \in Workers, worker[w].pc = "record",
               worker[w].tx = mempool'[i].tx, mempool'[i].timeout <= TimeoutHeight(w)
        PROVE  EntryRecorded(mempool[i])'
    <3>1. worker'[w] = worker[w]
      BY <2>4
    <3> QED
      BY <2>4, <3>1 DEF EntryRecorded, TimeoutHeight
  <2> QED
    BY <2>2, <2>3, <2>4 DEF EntryRecorded
<1> QED
  BY <1>3, <1>4

\* A step that submits and records nothing keeps the invariant: the offers in
\* the mempool can only leave it, and the activations it touches go back to a
\* place where they hold no snapshot of a record.
LEMMA QuietStep ==
    ASSUME OfferInv, TypeOK', SubmissionsSerialized', StoreSane', NEW k \in Nat,
           aHeight' >= aHeight,
           \A i \in 1..Len(mempool') :
              i + k \in 1..Len(mempool) /\ mempool'[i] = mempool[i + k],
           orphaned \subseteq orphaned',
           \A t \in Txs : subs'[t].timeout = subs[t].timeout,
           \A v \in Workers :
              \/ worker'[v] = worker[v]
              \/ /\ worker'[v].pc \in {"idle", "status", "read"}
                 /\ worker'[v].height <= aHeight
                 /\ worker[v].pc = "record" => worker[v].tx \in orphaned'
    PROVE  OfferInv'
<1> USE DEF OfferInv
<1>1. aHeight \in Nat /\ aHeight' \in Nat /\ \A v \in Workers : worker'[v].height \in Nat
  BY DEF TypeOK, NetworkTypeOK, QueueTypeOK, Worker
<1>2. HeightsInPast'
  BY <1>1 DEF HeightsInPast
<1>3. SnapshotsCurrent'
  <2> SUFFICES ASSUME NEW v \in Workers PROVE SnapshotCurrent(v)'
    BY DEF SnapshotsCurrent
  <2>1. CASE worker'[v] = worker[v]
    <3>1. worker[v].pc \in {"exec", "record"} => worker[v].tx \in Txs
      BY DEF TypeOK, QueueTypeOK
    <3> QED
      BY <2>1, <3>1 DEF SnapshotsCurrent, SnapshotCurrent
  <2>2. CASE worker'[v].pc \in {"idle", "status", "read"}
    BY <2>2 DEF SnapshotCurrent
  <2> QED
    BY <2>1, <2>2
<1>4. EntriesRecorded' /\ AtMostOneLiveOffer'
  BY EntriesKept
<1> QED
  BY <1>2, <1>3, <1>4

\* The end of a turn leaves its activation without a snapshot.
LEMMA FinishEffect ==
    ASSUME TypeOK, HeightsInPast, NEW w \in Workers, FinishEvidence(w)
    PROVE  /\ worker'[w].pc \in {"idle", "read"}
           /\ worker'[w].height <= aHeight
           /\ \A v \in Workers : v # w => worker'[v] = worker[v]
<1>1. worker[w].height \in Nat /\ aHeight \in Nat /\ QueueTypeOK
  BY DEF TypeOK, NetworkTypeOK, QueueTypeOK, Worker
<1>2. NextEvidence(w, worker[w].height) /\ worker[w].height <= aHeight
  BY DEF FinishEvidence, HeightsInPast
<1>3. /\ \A v \in Workers : v # w => worker'[v] = worker[v]
      /\ \/ worker'[w].pc = "read" /\ worker'[w].height = worker[w].height
         \/ worker'[w].pc = "idle" /\ worker'[w].height = 0
  BY <1>1, <1>2, NextEvidenceEffect
<1> QED
  BY <1>1, <1>2, <1>3

\* A submission is sent only when the offers that may still land are for other
\* transactions: the record read is still current, and covers them.
LEMMA OldOffersAreDead ==
    ASSUME OfferInv, NEW w \in Workers, ReadyToSubmit(w)
    PROVE  /\ subs[worker[w].tx].timeout <= worker[w].height
           /\ \A i \in 1..Len(mempool) :
                /\ mempool[i].tx = worker[w].tx
                /\ mempool[i].tx \notin orphaned
                => /\ mempool[i].timeout <= subs[worker[w].tx].timeout
                   /\ ~ Includable(mempool[i])
<1> USE DEF OfferInv
<1>1. /\ worker[w].pc = "exec" /\ worker[w].tx \in Txs
      /\ worker[w].height \in Nat /\ aHeight \in Nat /\ worker[w].height <= aHeight
      /\ worker[w].sub \in Submission
  BY DEF ReadyToSubmit, TypeOK, NetworkTypeOK, QueueTypeOK, Worker, HeightsInPast
<1>2. subs[worker[w].tx].timeout <= worker[w].height
  <2>1. SnapshotCurrent(w)
    BY DEF SnapshotsCurrent
  <2>2. CASE worker[w].sub.status = "ABSENT"
    BY <1>1, <2>1, <2>2 DEF SnapshotCurrent
  <2>3. CASE worker[w].sub.status # "ABSENT"
    BY <1>1, <2>1, <2>3
       DEF SnapshotCurrent, ReadyToSubmit, AlreadySubmitted, Submission
  <2> QED
    BY <2>2, <2>3
<1>3. ASSUME NEW i \in 1..Len(mempool), mempool[i].tx = worker[w].tx,
             mempool[i].tx \notin orphaned
      PROVE  /\ mempool[i].timeout <= subs[worker[w].tx].timeout
             /\ ~ Includable(mempool[i])
  <2>1. mempool[i] \in Entry /\ subs[worker[w].tx] \in Submission
    BY <1>1, ElementOfSeq DEF TypeOK, NetworkTypeOK, QueueTypeOK, Submissions
  <2>2. \A v \in Workers : worker[v].pc # "record"
    BY <1>1 DEF SubmissionsSerialized
  <2>3. mempool[i].timeout <= subs[worker[w].tx].timeout
    BY <1>3, <2>2 DEF EntriesRecorded, EntryRecorded
  <2> QED
    BY <1>1, <1>2, <2>1, <2>3 DEF Includable, Entry, Submission
<1> QED
  BY <1>2, <1>3

\* The accepted offer joins the mempool.
LEMMA BroadcastStep ==
    ASSUME OfferInv, TypeOK', NEW w \in Workers, ReadyToSubmit(w), Broadcast(w),
           UNCHANGED <<aHeight, subs>>, orphaned \subseteq orphaned',
           \/ /\ worker'[w].pc = "record" /\ worker'[w].tx = worker[w].tx
              /\ worker'[w].height = worker[w].height
           \/ worker[w].tx \in orphaned'
    PROVE  EntriesRecorded' /\ AtMostOneLiveOffer'
<1> USE DEF OfferInv
<1> DEFINE new == [tx |-> worker[w].tx, timeout |-> TimeoutHeight(w)]
<1>1. mempool \in Seq(Entry) /\ new \in Entry
  BY TimeoutAssumption DEF TypeOK, NetworkTypeOK, QueueTypeOK, Worker, ReadyToSubmit,
     Entry, TimeoutHeight
<1>2. /\ Len(mempool') = Len(mempool) + 1 /\ mempool'[Len(mempool) + 1] = new
      /\ \A i \in 1..Len(mempool) : mempool'[i] = mempool[i]
  BY <1>1, AppendProperties DEF Broadcast
<1>3. \A i \in 1..Len(mempool') : i \in 1..Len(mempool) \/ i = Len(mempool) + 1
  BY <1>1, <1>2, LenProperties
<1>4. \A v \in Workers : worker[v].pc # "record"
  BY DEF SubmissionsSerialized, ReadyToSubmit
<1>5. EntriesRecorded'
  <2> SUFFICES ASSUME NEW i \in 1..Len(mempool'), mempool'[i].tx \notin orphaned'
               PROVE  EntryRecorded(mempool[i])'
    BY DEF EntriesRecorded
  <2>1. CASE i \in 1..Len(mempool)
    <3>1. EntryRecorded(mempool[i])
      BY <1>2, <2>1 DEF EntriesRecorded
    <3> QED
      BY <1>2, <1>4, <2>1, <3>1 DEF EntryRecorded
  <2>2. CASE i = Len(mempool) + 1
    <3>1. mempool'[i] = new /\ new.timeout \in Nat
      BY <1>1, <1>2, <2>2 DEF Entry
    <3>2. new.timeout = TimeoutHeight(w)'
      BY <3>1 DEF TimeoutHeight
    <3> QED
      BY <3>1, <3>2 DEF EntryRecorded
  <2> QED
    BY <1>3, <2>1, <2>2
<1>6. AtMostOneLiveOffer'
  <2> SUFFICES ASSUME NEW i \in 1..Len(mempool'), NEW j \in 1..Len(mempool'),
                      mempool'[i].tx = mempool'[j].tx,
                      mempool'[i].tx \notin orphaned',
                      Includable(mempool[i])', Includable(mempool[j])'
               PROVE  i = j
    BY DEF AtMostOneLiveOffer
  <2>1. CASE i \in 1..Len(mempool) /\ j \in 1..Len(mempool)
    BY <1>2, <2>1 DEF AtMostOneLiveOffer, Includable
  <2>2. CASE i \in 1..Len(mempool) /\ j = Len(mempool) + 1
    <3>1. mempool[i].tx = worker[w].tx /\ mempool[i].tx \notin orphaned
          /\ Includable(mempool[i])
      BY <1>2, <2>2 DEF Includable
    <3> QED
      BY <2>2, <3>1, OldOffersAreDead
  <2>3. CASE j \in 1..Len(mempool) /\ i = Len(mempool) + 1
    <3>1. mempool[j].tx = worker[w].tx /\ mempool[j].tx \notin orphaned
          /\ Includable(mempool[j])
      BY <1>2, <2>3 DEF Includable
    <3> QED
      BY <2>3, <3>1, OldOffersAreDead
  <2> QED
    BY <1>3, <2>1, <2>2, <2>3
<1> QED
  BY <1>5, <1>6

\* Each operation of the queue and the submitter keeps the invariant.
LEMMA WorkerOfferInv ==
    ASSUME OfferInv, TypeOK', SubmissionsSerialized', NEW w \in Workers, WorkerStep(w)
    PROVE  OfferInv'
<1> USE DEF OfferInv
<1>1. /\ worker[w].height \in Nat /\ aHeight \in Nat /\ 0 \in Nat
      /\ worker[w].height <= aHeight
      /\ \A v \in Workers : worker[v].height \in Nat
      /\ Len(mempool) \in Nat
      /\ worker \in [Workers -> Worker]
  BY LenProperties DEF TypeOK, NetworkTypeOK, QueueTypeOK, Worker, HeightsInPast
<1>2. ASSUME UNCHANGED <<chainVars, subs>>, orphaned \subseteq orphaned',
             worker'[w].pc \in {"idle", "status", "read"},
             worker'[w].height <= aHeight,
             worker[w].pc = "record" => worker[w].tx \in orphaned',
             \A v \in Workers : v # w => worker'[v] = worker[v]
      PROVE  OfferInv'
  <2>1. StoreSane'
    BY <1>2 DEF StoreSane
  <2>2. \A i \in 1..Len(mempool') :
          i + 0 \in 1..Len(mempool) /\ mempool'[i] = mempool[i + 0]
    BY <1>1, <1>2 DEF chainVars
  <2>3. aHeight' >= aHeight /\ \A t \in Txs : subs'[t].timeout = subs[t].timeout
    BY <1>1, <1>2 DEF chainVars
  <2> QED
    BY <1>1, <1>2, <2>1, <2>2, <2>3, QuietStep
<1>3. CASE SkipSyncing(w)
  <2>1. /\ worker'[w].pc = "idle" /\ worker'[w].height = 0
        /\ \A v \in Workers : v # w => worker'[v] = worker[v]
        /\ UNCHANGED <<chainVars, subs, orphaned>> /\ worker[w].pc = "status"
    BY <1>1, <1>3 DEF SkipSyncing, IdleWorker
  <2> QED
    BY <1>1, <1>2, <2>1
<1>4. CASE FetchStatus(w)
  <2>1. PICK h \in ReportedHeights : NextEvidence(w, h)
    BY <1>4 DEF FetchStatus
  <2>2. h \in Nat /\ h <= aHeight
    BY <1>1 DEF ReportedHeights
  <2>3. /\ worker'[w].pc \in {"idle", "read"} /\ worker'[w].height <= aHeight
        /\ \A v \in Workers : v # w => worker'[v] = worker[v]
    <3>1. /\ \A v \in Workers : v # w => worker'[v] = worker[v]
          /\ \/ worker'[w].pc = "read" /\ worker'[w].height = h
             \/ worker'[w].pc = "idle" /\ worker'[w].height = 0
      BY <2>1, <2>2, NextEvidenceEffect DEF TypeOK
    <3> QED
      BY <1>1, <2>2, <3>1
  <2> QED
    BY <1>2, <1>4, <2>3 DEF FetchStatus
<1>5. CASE ReadFails(w) \/ Skip(w) \/ Reject(w) \/ ExecFails(w) \/ RecordFails(w)
  <2>1. /\ FinishEvidence(w) /\ UNCHANGED <<chainVars, subs>>
        /\ orphaned \subseteq orphaned'
        /\ worker[w].pc = "record" => worker[w].tx \in orphaned'
    BY <1>5 DEF ReadFails, Skip, Reject, ExecFails, RecordFails, ReadyToSubmit
  <2> QED
    BY <1>2, <2>1, FinishEffect
<1>6. CASE Resync(w)
  <2>1. /\ worker'[w].pc = "read" /\ worker'[w].height = worker[w].height
        /\ \A v \in Workers : v # w => worker'[v] = worker[v]
        /\ UNCHANGED <<chainVars, subs, orphaned>> /\ worker[w].pc = "exec"
    BY <1>1, <1>6 DEF Resync, ReadyToSubmit, Worker
  <2> QED
    BY <1>1, <1>2, <2>1
<1>7. CASE ReadSubmission(w)
  <2>1. /\ worker'[w].pc = "exec" /\ worker'[w].tx = worker[w].tx
        /\ worker'[w].height = worker[w].height
        /\ worker'[w].sub = subs[worker[w].tx] /\ worker[w].pc = "read"
        /\ worker[w].tx \in Txs
        /\ \A v \in Workers : v # w => worker'[v] = worker[v]
        /\ UNCHANGED <<chainVars, subs, orphaned>>
    BY <1>1, <1>7 DEF ReadSubmission, Worker, TypeOK, QueueTypeOK
  <2>2. HeightsInPast' /\ StoreSane'
    BY <2>1 DEF HeightsInPast, StoreSane, chainVars
  <2>3. SnapshotsCurrent'
    BY <2>1 DEF SnapshotsCurrent, SnapshotCurrent, StoreSane
  <2>4. EntriesRecorded' /\ AtMostOneLiveOffer'
    <3>1. \A i \in 1..Len(mempool') :
            i + 0 \in 1..Len(mempool) /\ mempool'[i] = mempool[i + 0]
      BY <1>1, <2>1 DEF chainVars
    <3>2. aHeight' >= aHeight /\ \A t \in Txs : subs'[t].timeout = subs[t].timeout
      BY <1>1, <2>1 DEF chainVars
    <3>3. \A v \in Workers : worker[v].pc = "record" => worker'[v] = worker[v]
      BY <2>1
    <3> QED
      BY <1>1, <2>1, <3>1, <3>2, <3>3, EntriesKept
  <2> QED
    BY <2>2, <2>3, <2>4
<1>8. ASSUME ReadyToSubmit(w) PROVE subs[worker[w].tx].timeout <= worker[w].height
  BY <1>8, OldOffersAreDead
<1>9. CASE Accept(w)
  <2>1. /\ worker'[w].pc = "record" /\ worker'[w].tx = worker[w].tx
        /\ worker'[w].height = worker[w].height
        /\ \A v \in Workers : v # w => worker'[v] = worker[v]
        /\ UNCHANGED <<aHeight, subs, orphaned>>
        /\ ReadyToSubmit(w) /\ Broadcast(w)
    BY <1>1, <1>9 DEF Accept, Worker
  <2>2. HeightsInPast' /\ StoreSane'
    BY <2>1 DEF HeightsInPast, StoreSane
  <2>3. SnapshotsCurrent'
    BY <1>8, <2>1 DEF SnapshotsCurrent, SnapshotCurrent
  <2> QED
    BY <2>1, <2>2, <2>3, BroadcastStep
<1>10. CASE AcceptedButExecFails(w)
  <2>1. /\ FinishEvidence(w) /\ UNCHANGED <<aHeight, subs>>
        /\ orphaned \subseteq orphaned' /\ worker[w].tx \in orphaned'
        /\ ReadyToSubmit(w) /\ Broadcast(w)
    BY <1>10 DEF AcceptedButExecFails
  <2>2. /\ worker'[w].pc \in {"idle", "read"} /\ worker'[w].height <= aHeight
        /\ \A v \in Workers : v # w => worker'[v] = worker[v]
    BY <2>1, FinishEffect
  <2>3. HeightsInPast' /\ StoreSane'
    BY <2>1, <2>2 DEF HeightsInPast, StoreSane
  <2>4. SnapshotsCurrent'
    BY <2>1, <2>2 DEF SnapshotsCurrent, SnapshotCurrent
  <2> QED
    BY <2>1, <2>3, <2>4, BroadcastStep
<1>11. CASE RecordSubmission(w)
  <2>1. /\ FinishEvidence(w) /\ UNCHANGED <<chainVars, orphaned>>
        /\ worker[w].pc = "record" /\ worker[w].tx \in Txs
        /\ subs' = [subs EXCEPT ![worker[w].tx] =
                      [status |-> "INFLIGHT", timeout |-> TimeoutHeight(w)]]
    BY <1>11 DEF RecordSubmission, AddSubmission, TypeOK, QueueTypeOK
  <2>2. /\ worker'[w].pc \in {"idle", "read"} /\ worker'[w].height <= aHeight
        /\ \A v \in Workers : v # w => worker'[v] = worker[v]
    BY <2>1, FinishEffect
  <2>3. \A v \in Workers : v # w => worker[v].pc = "idle"
    BY <2>1 DEF SubmissionsSerialized
  <2>4. HeightsInPast' /\ SnapshotsCurrent'
    BY <2>1, <2>2, <2>3 DEF HeightsInPast, SnapshotsCurrent, SnapshotCurrent, chainVars
  <2>5. StoreSane'
    BY <2>1 DEF StoreSane, TypeOK, QueueTypeOK, Submissions
  <2>6. AtMostOneLiveOffer'
    BY <2>1 DEF AtMostOneLiveOffer, Includable, chainVars
  <2>7. EntriesRecorded'
    <3> SUFFICES ASSUME NEW i \in 1..Len(mempool), mempool[i].tx \notin orphaned
                 PROVE  mempool[i].timeout <= subs'[mempool[i].tx].timeout
      BY <2>1 DEF EntriesRecorded, EntryRecorded, chainVars
    <3>1. /\ mempool[i] \in Entry /\ subs \in Submissions
          /\ TimeoutHeight(w) = worker[w].height + TxTimeoutBlocks
      BY ElementOfSeq DEF TypeOK, NetworkTypeOK, QueueTypeOK, TimeoutHeight
    <3>2. subs[worker[w].tx].timeout <= TimeoutHeight(w)
      <4>1. subs[worker[w].tx].timeout <= worker[w].height
        BY <2>1 DEF SnapshotsCurrent, SnapshotCurrent
      <4>2. subs[worker[w].tx].timeout \in Nat
        BY <2>1, <3>1 DEF Submissions, Submission
      <4> QED
        BY <1>1, <3>1, <4>1, <4>2, TimeoutAssumption
    <3>3. \/ mempool[i].timeout <= subs[mempool[i].tx].timeout
          \/ worker[w].tx = mempool[i].tx /\ mempool[i].timeout <= TimeoutHeight(w)
      BY <2>3 DEF EntriesRecorded, EntryRecorded
    <3>4. CASE mempool[i].tx = worker[w].tx
      <4>1. subs'[mempool[i].tx].timeout = TimeoutHeight(w)
        BY <2>1, <3>1, <3>4 DEF Submissions
      <4>2. /\ mempool[i].timeout \in Nat /\ TimeoutHeight(w) \in Nat
            /\ subs[worker[w].tx].timeout \in Nat
        BY <1>1, <2>1, <3>1, TimeoutAssumption DEF Entry, Submissions, Submission
      <4> QED
        BY <3>2, <3>3, <3>4, <4>1, <4>2
    <3>5. CASE mempool[i].tx # worker[w].tx
      BY <2>1, <3>1, <3>3, <3>5 DEF Entry, Submissions
    <3> QED
      BY <3>4, <3>5
  <2> QED
    BY <2>4, <2>5, <2>6, <2>7
<1> QED
  BY <1>3, <1>4, <1>5, <1>6, <1>7, <1>9, <1>10, <1>11 DEF WorkerStep

\* A status update may refuse or insert, but it moves no timeout height.
LEMMA MarkEffect ==
    ASSUME TypeOK, StoreSane, NEW m, NEW t \in Txs, NEW status \in {"SUBMITTED", "FAILED"},
           NEW rest, Mark(m, t, status, rest)
    PROVE  StoreSane' /\ \A u \in Txs : subs'[u].timeout = subs[u].timeout
<1>1. subs \in [Txs -> Submission]
  BY DEF TypeOK, QueueTypeOK, Submissions
<1>2. CASE UNCHANGED subs
  BY <1>2 DEF StoreSane
<1>3. CASE subs' = UpdateSubmissionStatus(subs, t, status)
  BY <1>1, <1>3 DEF UpdateSubmissionStatus, StoreSane, Submission
<1> QED
  BY <1>2, <1>3 DEF Mark

\* The invariant is inductive.
LEMMA OfferInvStep ==
    ASSUME OfferInv, TypeOK', SubmissionsSerialized', [Next]_vars
    PROVE  OfferInv'
<1> USE DEF OfferInv
<1>1. /\ aHeight \in Nat /\ Len(mempool) \in Nat /\ mempool \in Seq(Entry)
      /\ \A w \in Workers : worker[w].height \in Nat /\ worker[w].height <= aHeight
      /\ worker \in [Workers -> Worker]
      /\ \A m \in Monitors : monitor[m] \in Monitor
  BY LenProperties DEF TypeOK, NetworkTypeOK, QueueTypeOK, MonitorTypeOK, Worker, HeightsInPast
\* The mempool stays as it is.
<1>2. ASSUME UNCHANGED <<aHeight, mempool>>, StoreSane', orphaned \subseteq orphaned',
             \A t \in Txs : subs'[t].timeout = subs[t].timeout,
             \A v \in Workers :
                \/ worker'[v] = worker[v]
                \/ /\ worker'[v].pc \in {"idle", "status", "read"}
                   /\ worker'[v].height <= aHeight
                   /\ worker[v].pc = "record" => worker[v].tx \in orphaned'
      PROVE  OfferInv'
  <2>1. /\ 0 \in Nat /\ aHeight' >= aHeight
        /\ \A i \in 1..Len(mempool') :
             i + 0 \in 1..Len(mempool) /\ mempool'[i] = mempool[i + 0]
    BY <1>1, <1>2
  <2> QED
    BY <1>2, <2>1, QuietStep
\* The memory of the program and the database stay as they are.
<1>3. ASSUME UNCHANGED <<subs, orphaned, worker>>, aHeight' >= aHeight, NEW k \in Nat,
             \A i \in 1..Len(mempool') :
                i + k \in 1..Len(mempool) /\ mempool'[i] = mempool[i + k]
      PROVE  OfferInv'
  <2>1. StoreSane'
    BY <1>3 DEF StoreSane
  <2> QED
    BY <1>3, <2>1, QuietStep
<1>4. CASE UNCHANGED <<aHeight, mempool, subs, orphaned, worker>>
  <2>1. /\ 0 \in Nat /\ aHeight' >= aHeight
        /\ \A i \in 1..Len(mempool') :
             i + 0 \in 1..Len(mempool) /\ mempool'[i] = mempool[i + 0]
    BY <1>1, <1>4
  <2> QED
    BY <1>3, <1>4, <2>1
<1>5. CASE ChainStep
  <2>1. UNCHANGED <<subs, orphaned, worker>>
    BY <1>5 DEF ChainStep, queueVars
  <2>2. CASE NewBlock
    <3>1. aHeight' >= aHeight /\ UNCHANGED mempool
      BY <1>1, <2>2 DEF NewBlock
    <3>2. \A i \in 1..Len(mempool') :
            i + 0 \in 1..Len(mempool) /\ mempool'[i] = mempool[i + 0]
      BY <1>1, <3>1
    <3> QED
      BY <1>3, <2>1, <3>1, <3>2
  <2>3. CASE IncludeOffer
    <3>1. UNCHANGED aHeight /\ mempool # <<>> /\ mempool' = Tail(mempool)
      BY <2>3 DEF IncludeOffer
    <3>2. /\ Len(mempool') = Len(mempool) - 1
          /\ \A i \in 1..Len(mempool') : mempool'[i] = mempool[i + 1]
      BY <1>1, <3>1, HeadTailProperties
    <3>3. /\ aHeight' >= aHeight
          /\ \A i \in 1..Len(mempool') :
               i + 1 \in 1..Len(mempool) /\ mempool'[i] = mempool[i + 1]
      BY <1>1, <3>1, <3>2
    <3> QED
      BY <1>3, <2>1, <3>3
  <2>4. ASSUME NEW i \in 1..Len(mempool), DropFrom(i) PROVE OfferInv'
    <3>1. UNCHANGED aHeight /\ mempool' = SubSeq(mempool, 1, i - 1)
      BY <2>4 DEF DropFrom
    <3>2. /\ Len(mempool') = i - 1
          /\ \A j \in 1..(i - 1) : mempool'[j] = mempool[j]
      BY <1>1, <3>1, SubSeqProperties
    <3>3. /\ aHeight' >= aHeight
          /\ \A j \in 1..Len(mempool') :
               j + 0 \in 1..Len(mempool) /\ mempool'[j] = mempool[j + 0]
      BY <1>1, <3>1, <3>2
    <3> QED
      BY <1>3, <2>1, <3>3
  <2> QED
    BY <1>5, <2>2, <2>3, <2>4 DEF ChainStep, Expire, Evict
<1>6. ASSUME NEW w \in Workers, WorkerStep(w) PROVE OfferInv'
  BY <1>6, WorkerOfferInv
<1>7. ASSUME NEW txs, AddToQueue(txs), UNCHANGED <<aHeight, mempool, subs, orphaned>>
      PROVE  OfferInv'
  <2>1. \A v \in Workers :
          \/ worker'[v] = worker[v]
          \/ /\ worker'[v].pc \in {"idle", "status", "read"}
             /\ worker'[v].height <= aHeight
             /\ worker[v].pc = "record" => worker[v].tx \in orphaned'
    BY <1>1, <1>7, AddToQueueEffect DEF TypeOK
  <2>2. StoreSane'
    BY <1>7 DEF StoreSane
  <2> QED
    BY <1>2, <1>7, <2>1, <2>2
<1>8. ASSUME NEW m \in Monitors, MonitorStep(m) PROVE OfferInv'
  <2>1. CASE ScanOffers(m) \/ SaveLastOffer(m) \/ QueryExpired(m) \/ MonitorFails(m)
    BY <1>4, <2>1 DEF ScanOffers, SaveLastOffer, QueryExpired, MonitorFails, chainVars,
       queueVars
  <2>2. CASE MarkFailed(m) \/ MarkSubmitted(m)
    <3>1. PICK t \in Txs, status \in {"SUBMITTED", "FAILED"} :
            \E rest : Mark(m, t, status, rest)
      BY <1>1, <2>2 DEF MarkFailed, MarkSubmitted, Monitor
    <3>2. StoreSane' /\ \A u \in Txs : subs'[u].timeout = subs[u].timeout
      BY <3>1, MarkEffect
    <3>3. UNCHANGED <<aHeight, mempool, worker, orphaned>>
      BY <2>2 DEF MarkFailed, MarkSubmitted, UnchangedByMark, chainVars
    <3> QED
      BY <1>2, <3>2, <3>3
  <2>3. CASE RequeueExpired(m)
    BY <1>7, <2>3 DEF RequeueExpired, chainVars
  <2> QED
    BY <1>8, <2>1, <2>2, <2>3 DEF MonitorStep
<1>9. ASSUME NEW b \in EvmHandlers, EvmStep(b) PROVE OfferInv'
  <2>1. CASE ReadToBeSent(b)
    BY <1>4, <2>1 DEF ReadToBeSent, chainVars, queueVars
  <2>2. CASE QueueToBeSent(b)
    BY <1>7, <2>2 DEF QueueToBeSent, chainVars
  <2> QED
    BY <1>9, <2>1, <2>2 DEF EvmStep
<1>10. CASE CrashAndRestart
  <2>1. \A v \in Workers : /\ worker'[v].pc = "idle" /\ worker'[v].height = 0
                           /\ worker[v].pc = "record" => worker[v].tx \in orphaned'
    BY <1>10 DEF CrashAndRestart, IdleWorker, Unrecorded
  <2>2. StoreSane' /\ UNCHANGED <<aHeight, mempool, subs>> /\ orphaned \subseteq orphaned'
    BY <1>10 DEF CrashAndRestart, StoreSane, chainVars
  <2>3. 0 <= aHeight
    BY <1>1
  <2> QED
    BY <1>2, <2>1, <2>2, <2>3
<1>11. CASE UNCHANGED vars \/ \E t \in Txs : Confirm(t)
  BY <1>4, <1>11 DEF vars, Confirm, chainVars, queueVars
<1> QED
  BY <1>5, <1>6, <1>8, <1>9, <1>10, <1>11 DEF Next

\* The invariant holds in every reachable state.
THEOREM OfferInvariant == Spec => []OfferInv
<1>1. Init => OfferInv
  <2> SUFFICES ASSUME Init PROVE OfferInv
    OBVIOUS
  <2>1. TypeOK
    BY InitType
  <2>2. mempool = <<>> /\ aHeight = 0 /\ subs = [t \in Txs |-> Absent]
    BY DEF Init, NetworkInit, QueueInit
  <2>3. \A w \in Workers : worker[w] = IdleWorker
    BY DEF Init, QueueInit, MemoryInit
  <2>4. SubmissionsSerialized /\ HeightsInPast /\ SnapshotsCurrent
    BY <2>2, <2>3 DEF Init, QueueInit, MemoryInit, SubmissionsSerialized, HeightsInPast,
       SnapshotsCurrent, SnapshotCurrent, IdleWorker
  <2>5. StoreSane /\ EntriesRecorded /\ AtMostOneLiveOffer
    BY <2>2 DEF StoreSane, Absent, EntriesRecorded, AtMostOneLiveOffer
  <2> QED
    BY <2>1, <2>4, <2>5 DEF OfferInv
<1>2. OfferInv /\ TypeOK' /\ SubmissionsSerialized' /\ [Next]_vars => OfferInv'
  BY OfferInvStep
<1> QED
  BY <1>1, <1>2, TypeCorrect, Serialized, PTL DEF Spec

\* Two offers for one transaction never both have a block ahead of them, unless
\* the record of an accepted broadcast was lost.
THEOREM OneLiveOffer == Spec => []AtMostOneLiveOffer
<1>1. OfferInv => AtMostOneLiveOffer
  BY DEF OfferInv
<1> QED
  BY <1>1, OfferInvariant, PTL

\* No step moves a recorded timeout height back.
LEMMA TimeoutStep ==
    ASSUME OfferInv, [Next]_vars, NEW t \in Txs
    PROVE  subs'[t].timeout >= subs[t].timeout
<1> USE DEF OfferInv
<1>1. subs \in Submissions /\ subs[t].timeout \in Nat
  BY DEF TypeOK, QueueTypeOK, Submissions, Submission
<1>2. CASE subs'[t].timeout = subs[t].timeout
  BY <1>1, <1>2
<1>3. CASE UNCHANGED subs
  BY <1>2, <1>3
<1>4. ASSUME NEW w \in Workers, WorkerStep(w) PROVE subs'[t].timeout >= subs[t].timeout
  <2>1. CASE RecordSubmission(w)
    <3>1. /\ worker[w].height \in Nat /\ worker[w].tx \in Txs
          /\ subs[worker[w].tx].timeout <= worker[w].height
      BY <2>1 DEF RecordSubmission, SnapshotsCurrent, SnapshotCurrent, TypeOK,
         QueueTypeOK, Worker
    <3>2. subs' = [subs EXCEPT ![worker[w].tx] =
                     [status |-> "INFLIGHT", timeout |-> TimeoutHeight(w)]]
      BY <2>1 DEF RecordSubmission, AddSubmission
    <3>3. CASE t = worker[w].tx
      BY <1>1, <3>1, <3>2, <3>3, TimeoutAssumption DEF TimeoutHeight, Submissions
    <3>4. CASE t # worker[w].tx
      BY <1>1, <1>2, <3>2, <3>4 DEF Submissions
    <3> QED
      BY <3>3, <3>4
  <2>2. CASE ~ RecordSubmission(w)
    BY <1>3, <1>4, <2>2 DEF WorkerStep, SkipSyncing, FetchStatus, ReadSubmission,
       ReadFails, Skip, Accept, Resync, Reject, ExecFails, AcceptedButExecFails,
       RecordFails
  <2> QED
    BY <2>1, <2>2
<1>5. ASSUME NEW m \in Monitors, MonitorStep(m)
      PROVE  subs'[t].timeout >= subs[t].timeout
  <2>1. CASE MarkFailed(m) \/ MarkSubmitted(m)
    <3>1. monitor[m] \in Monitor
      BY DEF TypeOK, MonitorTypeOK
    <3>2. PICK u \in Txs, status \in {"SUBMITTED", "FAILED"} :
            \E rest : Mark(m, u, status, rest)
      BY <2>1, <3>1 DEF MarkFailed, MarkSubmitted, Monitor
    <3> QED
      BY <1>2, <3>2, MarkEffect
  <2>2. CASE ~ (MarkFailed(m) \/ MarkSubmitted(m))
    BY <1>3, <1>5, <2>2 DEF MonitorStep, ScanOffers, SaveLastOffer, QueryExpired,
       RequeueExpired, MonitorFails, queueVars
  <2> QED
    BY <2>1, <2>2
<1> QED
  BY <1>3, <1>4, <1>5 DEF Next, ChainStep, Confirm, EvmStep, ReadToBeSent,
     QueueToBeSent, CrashAndRestart, vars, queueVars

\* The recorded timeout height of a transaction only moves forward.
THEOREM TimeoutsGrow == Spec => TimeoutNeverShrinks
<1>1. OfferInv /\ [Next]_vars
        => [\A t \in Txs : subs'[t].timeout >= subs[t].timeout]_vars
  BY TimeoutStep
<1> QED
  BY <1>1, OfferInvariant, PTL DEF Spec, TimeoutNeverShrinks

=============================================================================
