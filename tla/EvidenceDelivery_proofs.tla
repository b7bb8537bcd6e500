------------------------ MODULE EvidenceDelivery_proofs ------------------------
(***************************************************************************)
(* More theorems about EvidencePipeline, for every value of its constants: *)
(* its verdicts are those of Agoric, it implements the abstract delivery   *)
(* of evidence, and its queue and the set beside it stay together.         *)
(***************************************************************************)
EXTENDS EvidencePipeline_proofs

-----------------------------------------------------------------------------
(***************************************************************************)
(* Verdicts.  What a handler of an Agoric block holds between reading the  *)
(* offers and marking the submissions is on the chain, and stays there.    *)
(***************************************************************************)

\* The inductive form of VerdictsAreOnChain.
VerdictInv ==
    /\ VerdictsAreOnChain
    /\ \A m \in Monitors : /\ \A t \in monitor[m].conflicts : Disputed(t)
                           /\ \A t \in monitor[m].succeeded : Attested(t)

\* Offers are only added.
LEMMA OffersGrow ==
    ASSUME TypeOK, [Next]_vars
    PROVE  offers' = offers \/ \E o \in Offer : offers' = Append(offers, o)
<1>1. CASE ChainStep /\ offers' # offers
  <2>1. IncludeOffer
    BY <1>1 DEF ChainStep, NewBlock, Expire, Evict, DropFrom
  <2>2. PICK r \in Result : offers' = Append(offers, [tx |-> Head(mempool).tx, result |-> r])
    BY <2>1 DEF IncludeOffer
  <2>3. Head(mempool) \in Entry
    BY <2>1, HeadTailProperties DEF IncludeOffer, TypeOK, NetworkTypeOK
  <2>4. [tx |-> Head(mempool).tx, result |-> r] \in Offer
    BY <2>3 DEF Entry, Offer
  <2> QED
    BY <2>2, <2>4
<1>2. CASE ~ ChainStep
  BY <1>2 DEF Next, vars, chainVars, Confirm, WorkerStep, SkipSyncing, FetchStatus, ReadSubmission,
     ReadFails, Skip, Accept, Resync, Reject, ExecFails, AcceptedButExecFails, RecordSubmission,
     RecordFails, MonitorStep, ScanOffers, MarkFailed, SaveLastOffer, MarkSubmitted, QueryExpired,
     RequeueExpired, MonitorFails, UnchangedByMark, EvmStep, ReadToBeSent, QueueToBeSent,
     CrashAndRestart
<1> QED
  BY <1>1, <1>2

\* Verdicts of Agoric stay.
LEMMA VerdictsStay ==
    ASSUME TypeOK, [Next]_vars, NEW t \in Txs
    PROVE  (Attested(t) => Attested(t)') /\ (Disputed(t) => Disputed(t)')
<1>1. offers \in Seq(Offer)
  BY DEF TypeOK, NetworkTypeOK
<1>2. Len(offers) \in Nat
  BY <1>1
<1>3. /\ Len(offers) <= Len(offers') /\ Len(offers') \in Nat
      /\ \A i \in 1..Len(offers) : offers'[i] = offers[i]
  BY <1>1, OffersGrow
<1>4. \A i \in 1..Len(offers) : i \in 1..Len(offers')
  BY <1>2, <1>3
<1> QED
  BY <1>3, <1>4 DEF Attested, Disputed

\* What a scan returns is on the chain.
LEMMA TxsWithResultOffered ==
    ASSUME NEW k \in Followed, TypeOK
    PROVE  /\ \A t \in TxsWithResult(NewOffers(k), "conflict") : Disputed(t)
           /\ \A t \in TxsWithResult(NewOffers(k), "ok") : Attested(t)
<1>1. Len(offers) \in Nat /\ k \in Nat /\ k <= Len(offers)
  BY DEF TypeOK, NetworkTypeOK, Followed
<1>2. NewOffers(k) \subseteq 1..Len(offers)
  BY <1>1 DEF NewOffers
<1> QED
  BY <1>2 DEF TxsWithResult, Attested, Disputed

\* Every step keeps verdicts on the chain.
LEMMA VerdictStep ==
    ASSUME TypeOK, TypeOK', VerdictInv, [Next]_vars
    PROVE  VerdictInv'
<1>1. /\ monitor \in [Monitors -> Monitor] /\ monitor' \in [Monitors -> Monitor]
      /\ \A m \in Monitors : monitor[m].conflicts \in SUBSET Txs
                             /\ monitor[m].succeeded \in SUBSET Txs
      /\ subs \in [Txs -> Submission]
  BY DEF TypeOK, MonitorTypeOK, Monitor, QueueTypeOK, Submissions
<1>2. IdleMonitor.conflicts = {} /\ IdleMonitor.succeeded = {}
  BY DEF IdleMonitor
<1>3. ASSUME \A m \in Monitors : /\ monitor'[m].conflicts \subseteq monitor[m].conflicts
                                 /\ monitor'[m].succeeded \subseteq monitor[m].succeeded,
             \A t \in Txs : \/ subs'[t].status = subs[t].status
                            \/ subs'[t].status \notin {"SUBMITTED", "FAILED"}
                            \/ subs'[t].status = "SUBMITTED" /\ Attested(t)
                            \/ subs'[t].status = "FAILED" /\ Disputed(t)
      PROVE  VerdictInv'
  BY <1>1, <1>3, VerdictsStay DEF VerdictInv, VerdictsAreOnChain
<1>4. ASSUME UNCHANGED subs, \A m \in Monitors : monitor'[m] = monitor[m] \/ monitor'[m] = IdleMonitor
      PROVE  VerdictInv'
  BY <1>2, <1>3, <1>4
<1>5. ASSUME NEW m \in Monitors, ScanOffers(m)
      PROVE  VerdictInv'
  <2>1. PICK h \in ReportedHeights, k \in Followed :
          monitor' = [monitor EXCEPT ![m] =
             [pc |-> "conflicts", height |-> h,
              conflicts |-> TxsWithResult(NewOffers(k), "conflict"),
              succeeded |-> TxsWithResult(NewOffers(k), "ok")
                               \ TxsWithResult(NewOffers(k), "conflict"),
              last |-> k, expired |-> {}]]
    BY <1>5 DEF ScanOffers
  <2>2. UNCHANGED <<subs, offers>>
    BY <1>5 DEF ScanOffers, queueVars, chainVars
  <2>3. \A t : (Attested(t) <=> Attested(t)') /\ (Disputed(t) <=> Disputed(t)')
    BY <2>2 DEF Attested, Disputed
  <2>4. /\ monitor'[m].conflicts = TxsWithResult(NewOffers(k), "conflict")
        /\ monitor'[m].succeeded \subseteq TxsWithResult(NewOffers(k), "ok")
        /\ \A n \in Monitors \ {m} : monitor'[n] = monitor[n]
    BY <1>1, <2>1
  <2>5. \A t \in monitor'[m].conflicts : Disputed(t)
    BY <2>4, TxsWithResultOffered
  <2>6. \A t \in monitor'[m].succeeded : Attested(t)
    BY <2>4, TxsWithResultOffered
  <2> QED
    BY <2>2, <2>3, <2>4, <2>5, <2>6 DEF VerdictInv, VerdictsAreOnChain
<1>6. ASSUME NEW m \in Monitors, NEW t \in Txs, NEW status, NEW rest,
             Mark(m, t, status, rest),
             rest.conflicts \subseteq monitor[m].conflicts,
             rest.succeeded \subseteq monitor[m].succeeded,
             \/ status = "SUBMITTED" /\ Attested(t)
             \/ status = "FAILED" /\ Disputed(t)
      PROVE  VerdictInv'
  <2>1. \A n \in Monitors : /\ monitor'[n].conflicts \subseteq monitor[n].conflicts
                            /\ monitor'[n].succeeded \subseteq monitor[n].succeeded
    BY <1>1, <1>2, <1>6 DEF Mark, Leave
  <2>2. \A u \in Txs : \/ subs'[u].status = subs[u].status
                       \/ u = t /\ subs'[u].status = status
    BY <1>1, <1>6 DEF Mark, UpdateSubmissionStatus, Submission
  <2> QED
    BY <1>3, <1>6, <2>1, <2>2
<1>7. ASSUME NEW m \in Monitors, MarkFailed(m)
      PROVE  VerdictInv'
  <2>1. PICK t \in monitor[m].conflicts :
          Mark(m, t, "FAILED", [monitor[m] EXCEPT !.conflicts = monitor[m].conflicts \ {t}])
    BY <1>7 DEF MarkFailed
  <2> DEFINE rest == [monitor[m] EXCEPT !.conflicts = monitor[m].conflicts \ {t}]
  <2>2. /\ rest.conflicts \subseteq monitor[m].conflicts
        /\ rest.succeeded \subseteq monitor[m].succeeded
    BY <1>1 DEF Monitor
  <2>3. t \in Txs /\ Disputed(t)
    BY <1>1, <2>1 DEF VerdictInv
  <2> QED
    BY <1>6, <2>1, <2>2, <2>3
<1>8. ASSUME NEW m \in Monitors, MarkSubmitted(m)
      PROVE  VerdictInv'
  <2>1. PICK t \in monitor[m].succeeded :
          Mark(m, t, "SUBMITTED", [monitor[m] EXCEPT !.succeeded = monitor[m].succeeded \ {t}])
    BY <1>8 DEF MarkSubmitted
  <2> DEFINE rest == [monitor[m] EXCEPT !.succeeded = monitor[m].succeeded \ {t}]
  <2>2. /\ rest.conflicts \subseteq monitor[m].conflicts
        /\ rest.succeeded \subseteq monitor[m].succeeded
    BY <1>1 DEF Monitor
  <2>3. t \in Txs /\ Attested(t)
    BY <1>1, <2>1 DEF VerdictInv
  <2> QED
    BY <1>6, <2>1, <2>2, <2>3
<1>9. ASSUME NEW m \in Monitors, SaveLastOffer(m) \/ QueryExpired(m)
      PROVE  VerdictInv'
  <2>1. UNCHANGED subs
    BY <1>9 DEF SaveLastOffer, QueryExpired, queueVars
  <2>2. \A n \in Monitors : /\ monitor'[n].conflicts \subseteq monitor[n].conflicts
                            /\ monitor'[n].succeeded \subseteq monitor[n].succeeded
    BY <1>1, <1>2, <1>9 DEF SaveLastOffer, QueryExpired, Leave, Monitor
  <2> QED
    BY <1>3, <2>1, <2>2
<1>10. ASSUME NEW m \in Monitors, RequeueExpired(m) \/ MonitorFails(m)
       PROVE  VerdictInv'
  <2>1. UNCHANGED subs /\ \A n \in Monitors : monitor'[n] = monitor[n] \/ monitor'[n] = IdleMonitor
    BY <1>1, <1>10 DEF RequeueExpired, MonitorFails, Leave, queueVars
  <2> QED
    BY <1>4, <2>1
<1>11. ASSUME NEW w \in Workers, RecordSubmission(w), UNCHANGED monitorVars
       PROVE  VerdictInv'
  <2>1. \A t \in Txs : subs'[t] = subs[t] \/ subs'[t].status = "INFLIGHT"
    BY <1>1, <1>11 DEF RecordSubmission, AddSubmission
  <2> QED
    BY <1>3, <1>11, <2>1 DEF monitorVars
<1>12. CASE UNCHANGED <<subs, monitorVars>>
  BY <1>4, <1>12 DEF monitorVars
<1>13. CASE CrashAndRestart
  <2>1. UNCHANGED subs /\ \A n \in Monitors : monitor'[n] = IdleMonitor
    BY <1>13 DEF CrashAndRestart
  <2> QED
    BY <1>4, <2>1
<1>14. ASSUME NEW w \in Workers, WorkerStep(w), ~ RecordSubmission(w)
       PROVE  UNCHANGED subs
  BY <1>14 DEF WorkerStep, SkipSyncing, FetchStatus, ReadSubmission, ReadFails, Skip, Accept, Resync,
     Reject, ExecFails, AcceptedButExecFails, RecordFails
<1>15. CASE ChainStep \/ (\E t \in Txs : Confirm(t)) \/ (\E b \in EvmHandlers : EvmStep(b))
            \/ UNCHANGED vars
  BY <1>12, <1>15 DEF ChainStep, Confirm, EvmStep, ReadToBeSent, QueueToBeSent, vars, queueVars
<1> QED
  BY <1>5, <1>7, <1>8, <1>9, <1>10, <1>11, <1>12, <1>13, <1>14, <1>15 DEF Next, MonitorStep

\* A submission is only SUBMITTED (FAILED) when Agoric took its evidence (found it
\* conflicting) (src/lib/agoric.ts:66-94 and 340-421).
THEOREM VerdictsFromChain == Spec => []VerdictsAreOnChain
<1>1. Init => VerdictInv
  BY DEF Init, QueueInit, MonitorInit, MonitorMemoryInit, IdleMonitor, Absent, VerdictInv,
     VerdictsAreOnChain
<1>2. TypeOK /\ TypeOK' /\ VerdictInv /\ [Next]_vars => VerdictInv'
  BY VerdictStep
<1>3. VerdictInv => VerdictsAreOnChain
  BY DEF VerdictInv
<1> QED
  BY <1>1, <1>2, <1>3, TypeCorrect, PTL DEF Spec

-----------------------------------------------------------------------------
(***************************************************************************)
(* The refinement.  Only confirmed transactions are ever queued, submitted *)
(* or recorded, so what Agoric includes is evidence of a confirmed one.    *)
(***************************************************************************)

\* Evidence under way is confirmed.
OnlyConfirmed ==
    /\ \A i \in 1..Len(queue) : queue[i] \in confirmed
    /\ \A w \in Workers : worker[w].pc \in {"read", "exec", "record"} => worker[w].tx \in confirmed
    /\ \A i \in 1..Len(mempool) : mempool[i].tx \in confirmed
    /\ \A t \in Txs : subs[t].status = "INFLIGHT" => t \in confirmed
    /\ \A b \in EvmHandlers : evm[b].txs \subseteq confirmed
    /\ \A m \in Monitors : monitor[m].expired \subseteq confirmed

\* The elements of an order of a set are members of the set.
LEMMA SetToSeqsMembers ==
    ASSUME NEW S \in SUBSET Txs, NEW order \in SetToSeqs(S)
    PROVE  \A i \in 1..Len(order) : order[i] \in S
<1>1. Cardinality(S) \in Nat
  BY TxsAssumption, FS_Subset, FS_CardinalityType
<1>2. order \in [1..Cardinality(S) -> S]
  BY DEF SetToSeqs
<1>3. order \in Seq(S)
  BY <1>1, <1>2
<1> QED
  BY <1>3

\* addToQueue appends members of the set it is given.
LEMMA AddToQueueConfirmed ==
    ASSUME TypeOK, OnlyConfirmed, NEW txs \in SUBSET Txs, txs \subseteq confirmed, AddToQueue(txs)
    PROVE  /\ \A i \in 1..Len(queue') : queue'[i] \in confirmed
           /\ \A w \in Workers : worker'[w].pc \in {"read", "exec", "record"}
                                    => worker'[w].tx \in confirmed
<1>1. PICK order \in SetToSeqs(txs \ inQueue) : queue' = queue \o order
  BY DEF AddToQueue
<1>2. order \in Seq(Txs)
  BY <1>1, SetToSeqsType
<1>4. \A i \in 1..Len(order) : order[i] \in txs \ inQueue
  BY <1>1, SetToSeqsMembers
<1>5. queue \in Seq(Txs)
  BY DEF TypeOK, QueueTypeOK
<1>6. \A i \in 1..Len(queue') : queue'[i] \in confirmed
  BY <1>1, <1>2, <1>4, <1>5 DEF OnlyConfirmed
<1>7. \A w \in Workers : worker'[w] = worker[w] \/ worker'[w].pc = "status"
  BY DEF AddToQueue, TypeOK, QueueTypeOK, Worker
<1> QED
  BY <1>6, <1>7 DEF OnlyConfirmed

\* The loop of processQueue takes its evidence from the queue.
LEMMA NextEvidenceConfirmed ==
    ASSUME TypeOK, OnlyConfirmed, NEW w \in Workers, NEW h \in Nat, NextEvidence(w, h)
    PROVE  /\ \A i \in 1..Len(queue') : queue'[i] \in confirmed
           /\ \A v \in Workers : worker'[v].pc \in {"read", "exec", "record"}
                                    => worker'[v].tx \in confirmed
<1>1. queue \in Seq(Txs) /\ worker \in [Workers -> Worker]
  BY DEF TypeOK, QueueTypeOK
<1>2. CASE queue = <<>> /\ NextEvidence(w, h)
  BY <1>1, <1>2 DEF NextEvidence, OnlyConfirmed, IdleWorker
<1>3. CASE queue # <<>> /\ NextEvidence(w, h)
  <2>1. /\ queue' = Tail(queue)
        /\ worker' = [worker EXCEPT ![w] = [pc |-> "read", tx |-> Head(queue),
                                            height |-> h, sub |-> Absent]]
    BY <1>3 DEF NextEvidence
  <2>2. Head(queue) \in confirmed
    BY <1>1, <1>3 DEF OnlyConfirmed
  <2>3. \A i \in 1..Len(Tail(queue)) : Tail(queue)[i] \in confirmed
    BY <1>1, <1>3 DEF OnlyConfirmed
  <2> QED
    BY <1>1, <2>1, <2>2, <2>3 DEF OnlyConfirmed
<1> QED
  BY <1>2, <1>3

\* What an activation broadcasts and records, it took from the queue.
LEMMA WorkerConfirmed ==
    ASSUME TypeOK, OnlyConfirmed, NEW w \in Workers, WorkerStep(w), UNCHANGED <<monitorVars, evmVars>>
    PROVE  OnlyConfirmed'
<1> USE DEF TypeOK
<1>1. /\ worker \in [Workers -> Worker] /\ subs \in [Txs -> Submission] /\ mempool \in Seq(Entry)
      /\ worker[w].height \in Nat
  BY DEF QueueTypeOK, NetworkTypeOK, Submissions, Worker
<1>2. ASSUME FinishEvidence(w)
      PROVE  /\ \A i \in 1..Len(queue') : queue'[i] \in confirmed
             /\ \A v \in Workers : worker'[v].pc \in {"read", "exec", "record"}
                                      => worker'[v].tx \in confirmed
  BY <1>1, <1>2, NextEvidenceConfirmed DEF FinishEvidence
<1>3. /\ confirmed' = confirmed
      /\ \A b \in EvmHandlers : evm'[b].txs \subseteq confirmed
      /\ \A m \in Monitors : monitor'[m].expired \subseteq confirmed
  BY DEF OnlyConfirmed, monitorVars, evmVars
<1>4. CASE SkipSyncing(w) \/ ReadSubmission(w) \/ Resync(w)
  <2>1. UNCHANGED <<queue, subs, mempool>>
    BY <1>4 DEF SkipSyncing, ReadSubmission, Resync, chainVars
  <2>2. \A v \in Workers : worker'[v].pc \in {"read", "exec", "record"}
                              => worker'[v].tx = worker[v].tx
                                 /\ worker[v].pc \in {"read", "exec", "record"}
    <3>1. CASE SkipSyncing(w)
      BY <1>1, <3>1 DEF SkipSyncing, IdleWorker
    <3>2. CASE ReadSubmission(w)
      BY <1>1, <3>2 DEF ReadSubmission, Worker
    <3>3. CASE Resync(w)
      BY <1>1, <3>3 DEF Resync, ReadyToSubmit, Worker
    <3> QED
      BY <1>4, <3>1, <3>2, <3>3
  <2> QED
    BY <1>3, <2>1, <2>2 DEF OnlyConfirmed
<1>5. CASE FetchStatus(w)
  <2>1. PICK h \in ReportedHeights : NextEvidence(w, h)
    BY <1>5 DEF FetchStatus
  <2>2. h \in Nat
    BY DEF ReportedHeights
  <2> QED
    BY <1>3, <1>5, <2>1, <2>2, NextEvidenceConfirmed DEF FetchStatus, OnlyConfirmed, chainVars
<1>6. CASE ReadFails(w) \/ Skip(w) \/ Reject(w) \/ ExecFails(w) \/ RecordFails(w)
  <2>1. FinishEvidence(w) /\ UNCHANGED <<subs, mempool>>
    BY <1>6 DEF ReadFails, Skip, Reject, ExecFails, RecordFails, chainVars
  <2> QED
    BY <1>2, <1>3, <2>1 DEF OnlyConfirmed
<1>7. ASSUME ReadyToSubmit(w), Broadcast(w)
      PROVE  \A i \in 1..Len(mempool') : mempool'[i].tx \in confirmed
  <2>1. worker[w].tx \in confirmed
    BY <1>7 DEF ReadyToSubmit, OnlyConfirmed
  <2>2. mempool' = Append(mempool, [tx |-> worker[w].tx, timeout |-> TimeoutHeight(w)])
    BY <1>7 DEF Broadcast
  <2> QED
    BY <1>1, <2>1, <2>2 DEF OnlyConfirmed
<1>8. CASE Accept(w)
  <2>1. \A v \in Workers : worker'[v].tx = worker[v].tx
    BY <1>1, <1>8 DEF Accept, Worker
  <2>2. \A v \in Workers : worker'[v].pc \in {"read", "exec", "record"}
                              => worker[v].pc \in {"read", "exec", "record"}
    BY <1>1, <1>8 DEF Accept, ReadyToSubmit, Worker
  <2> QED
    BY <1>3, <1>7, <1>8, <2>1, <2>2 DEF Accept, OnlyConfirmed
<1>9. CASE AcceptedButExecFails(w)
  BY <1>2, <1>3, <1>7, <1>9 DEF AcceptedButExecFails, OnlyConfirmed
<1>10. CASE RecordSubmission(w)
  <2>1. worker[w].tx \in confirmed
    BY <1>10 DEF RecordSubmission, OnlyConfirmed
  <2>2. \A t \in Txs : subs'[t] = subs[t] \/ t = worker[w].tx
    BY <1>1, <1>10 DEF RecordSubmission, AddSubmission
  <2>3. FinishEvidence(w) /\ UNCHANGED mempool
    BY <1>10 DEF RecordSubmission, chainVars
  <2> QED
    BY <1>2, <1>3, <2>1, <2>2, <2>3 DEF OnlyConfirmed
<1> QED
  BY <1>4, <1>5, <1>6, <1>8, <1>9, <1>10 DEF WorkerStep

\* Marking submits nothing, and what is requeued was in flight.
LEMMA MonitorConfirmed ==
    ASSUME TypeOK, OnlyConfirmed, NEW m \in Monitors, MonitorStep(m), UNCHANGED evmVars
    PROVE  OnlyConfirmed'
<1> USE DEF TypeOK
<1>1. /\ monitor \in [Monitors -> Monitor] /\ subs \in [Txs -> Submission]
      /\ monitor[m].expired \in SUBSET Txs
  BY DEF MonitorTypeOK, Monitor, QueueTypeOK, Submissions
<1>2. IdleMonitor.expired = {}
  BY DEF IdleMonitor
<1>3. ASSUME UNCHANGED <<queue, worker, mempool>>,
             \A t \in Txs : subs'[t].status = "INFLIGHT" => subs[t].status = "INFLIGHT",
             \A n \in Monitors : monitor'[n].expired \subseteq confirmed
      PROVE  OnlyConfirmed'
  BY <1>3 DEF OnlyConfirmed, evmVars
<1>4. ASSUME NEW t \in Txs, NEW status \in {"SUBMITTED", "FAILED"}, NEW rest,
             rest.expired = monitor[m].expired,
             Mark(m, t, status, rest), UnchangedByMark
      PROVE  OnlyConfirmed'
  <2>1. \A n \in Monitors : monitor'[n].expired \in {{}, monitor[n].expired}
    BY <1>1, <1>2, <1>4 DEF Mark, Leave
  <2>2. \A u \in Txs : subs'[u].status = subs[u].status \/ subs'[u].status = status
    BY <1>1, <1>4 DEF Mark, UpdateSubmissionStatus, Submission
  <2>3. \A n \in Monitors : monitor'[n].expired \subseteq confirmed
    BY <2>1 DEF OnlyConfirmed
  <2> QED
    BY <1>3, <1>4, <2>2, <2>3 DEF UnchangedByMark, chainVars
<1>5. CASE ScanOffers(m)
  <2>1. \A n \in Monitors : monitor'[n].expired \in {{}, monitor[n].expired}
    BY <1>1, <1>5 DEF ScanOffers
  <2>2. \A n \in Monitors : monitor'[n].expired \subseteq confirmed
    BY <2>1 DEF OnlyConfirmed
  <2> QED
    BY <1>3, <1>5, <2>2 DEF ScanOffers, chainVars, queueVars
<1>6. CASE MarkFailed(m)
  <2>1. PICK t \in monitor[m].conflicts :
          Mark(m, t, "FAILED", [monitor[m] EXCEPT !.conflicts = monitor[m].conflicts \ {t}])
    BY <1>6 DEF MarkFailed
  <2>2. t \in Txs
    BY <1>1 DEF Monitor
  <2>3. [monitor[m] EXCEPT !.conflicts = monitor[m].conflicts \ {t}].expired = monitor[m].expired
    BY <1>1 DEF Monitor
  <2> QED
    BY <1>4, <1>6, <2>1, <2>2, <2>3 DEF MarkFailed
<1>7. CASE MarkSubmitted(m)
  <2>1. PICK t \in monitor[m].succeeded :
          Mark(m, t, "SUBMITTED", [monitor[m] EXCEPT !.succeeded = monitor[m].succeeded \ {t}])
    BY <1>7 DEF MarkSubmitted
  <2>2. t \in Txs
    BY <1>1 DEF Monitor
  <2>3. [monitor[m] EXCEPT !.succeeded = monitor[m].succeeded \ {t}].expired = monitor[m].expired
    BY <1>1 DEF Monitor
  <2> QED
    BY <1>4, <1>7, <2>1, <2>2, <2>3 DEF MarkSubmitted
<1>8. CASE SaveLastOffer(m) \/ MonitorFails(m)
  <2>1. \A n \in Monitors : monitor'[n].expired \in {{}, monitor[n].expired}
    BY <1>1, <1>2, <1>8 DEF SaveLastOffer, MonitorFails, Leave, Monitor
  <2>2. \A n \in Monitors : monitor'[n].expired \subseteq confirmed
    BY <2>1 DEF OnlyConfirmed
  <2> QED
    BY <1>3, <1>8, <2>2 DEF SaveLastOffer, MonitorFails, chainVars, queueVars
<1>9. CASE QueryExpired(m)
  <2>1. ExpiredInflight(subs, monitor[m].height) \subseteq confirmed
    BY DEF ExpiredInflight, OnlyConfirmed
  <2>2. \A n \in Monitors : monitor'[n].expired \in
          {{}, monitor[n].expired, ExpiredInflight(subs, monitor[m].height)}
    BY <1>1, <1>2, <1>9 DEF QueryExpired, Leave, Monitor
  <2>3. \A n \in Monitors : monitor'[n].expired \subseteq confirmed
    BY <2>1, <2>2 DEF OnlyConfirmed
  <2> QED
    BY <1>3, <1>9, <2>3 DEF QueryExpired, chainVars, queueVars
<1>10. CASE RequeueExpired(m)
  <2>1. monitor[m].expired \subseteq confirmed
    BY DEF OnlyConfirmed
  <2>2. /\ \A i \in 1..Len(queue') : queue'[i] \in confirmed
        /\ \A w \in Workers : worker'[w].pc \in {"read", "exec", "record"}
                                 => worker'[w].tx \in confirmed
    BY <1>1, <1>10, <2>1, AddToQueueConfirmed DEF RequeueExpired
  <2>3. \A n \in Monitors : monitor'[n].expired \in {{}, monitor[n].expired}
    BY <1>1, <1>2, <1>10 DEF RequeueExpired, Leave
  <2> QED
    BY <1>10, <2>2, <2>3 DEF RequeueExpired, OnlyConfirmed, chainVars, evmVars
<1> QED
  BY <1>5, <1>6, <1>7, <1>8, <1>9, <1>10 DEF MonitorStep

\* Every step keeps to confirmed transactions.
LEMMA ConfirmedStep ==
    ASSUME TypeOK, OnlyConfirmed, [Next]_vars
    PROVE  OnlyConfirmed'
<1>1. /\ mempool \in Seq(Entry) /\ evm \in [EvmHandlers -> EvmHandler]
      /\ monitor \in [Monitors -> Monitor] /\ worker \in [Workers -> Worker]
  BY DEF TypeOK, NetworkTypeOK, MonitorTypeOK, QueueTypeOK
<1>2. CASE ChainStep
  <2>1. \A i \in 1..Len(mempool') : \E j \in 1..Len(mempool) : mempool'[i] = mempool[j]
    <3>1. CASE IncludeOffer
      <4>1. /\ mempool' = Tail(mempool) /\ Len(mempool) \in Nat /\ mempool # <<>>
        BY <1>1, <3>1 DEF IncludeOffer
      <4>2. \A i \in 1..Len(mempool') : i + 1 \in 1..Len(mempool) /\ mempool'[i] = mempool[i + 1]
        BY <1>1, <4>1
      <4> QED
        BY <4>2
    <3>2. CASE Expire \/ Evict
      <4>1. PICK k \in 1..Len(mempool) : mempool' = SubSeq(mempool, 1, k - 1)
        BY <3>2 DEF Expire, Evict, DropFrom
      <4>2. \A i \in 1..Len(mempool') : i \in 1..Len(mempool) /\ mempool'[i] = mempool[i]
        BY <1>1, <4>1
      <4> QED
        BY <4>2
    <3>3. CASE NewBlock
      BY <3>3 DEF NewBlock
    <3> QED
      BY <1>2, <3>1, <3>2, <3>3 DEF ChainStep
  <2> QED
    BY <1>2, <2>1 DEF ChainStep, OnlyConfirmed, queueVars, monitorVars, evmVars
<1>3. ASSUME NEW t \in Txs, Confirm(t)
      PROVE  OnlyConfirmed'
  BY <1>3 DEF Confirm, OnlyConfirmed, chainVars, queueVars, monitorVars
<1>4. ASSUME NEW b \in EvmHandlers, EvmStep(b)
      PROVE  OnlyConfirmed'
  <2>1. CASE ReadToBeSent(b)
    <3>1. ToBeSent(subs, confirmed) \subseteq confirmed
      BY DEF ToBeSent
    <3>2. \A c \in EvmHandlers : evm'[c].txs \in {evm[c].txs, ToBeSent(subs, confirmed)}
      BY <1>1, <2>1 DEF ReadToBeSent
    <3>3. \A c \in EvmHandlers : evm'[c].txs \subseteq confirmed
      BY <3>1, <3>2 DEF OnlyConfirmed
    <3> QED
      BY <2>1, <3>3 DEF ReadToBeSent, OnlyConfirmed, chainVars, queueVars, monitorVars
  <2>2. CASE QueueToBeSent(b)
    <3>1. evm[b].txs \in SUBSET Txs /\ evm[b].txs \subseteq confirmed
      BY <1>1 DEF EvmHandler, OnlyConfirmed
    <3>2. /\ \A i \in 1..Len(queue') : queue'[i] \in confirmed
          /\ \A w \in Workers : worker'[w].pc \in {"read", "exec", "record"}
                                   => worker'[w].tx \in confirmed
      BY <2>2, <3>1, AddToQueueConfirmed DEF QueueToBeSent
    <3>3. \A c \in EvmHandlers : evm'[c].txs \in {evm[c].txs, {}}
      BY <1>1, <2>2 DEF QueueToBeSent, IdleEvmHandler
    <3> QED
      BY <2>2, <3>2, <3>3 DEF QueueToBeSent, OnlyConfirmed, chainVars, monitorVars
  <2> QED
    BY <1>4, <2>1, <2>2 DEF EvmStep
<1>5. CASE CrashAndRestart
  BY <1>5 DEF CrashAndRestart, OnlyConfirmed, IdleWorker, IdleMonitor, IdleEvmHandler, chainVars
<1>6. CASE UNCHANGED vars
  BY <1>6 DEF vars, OnlyConfirmed, chainVars, queueVars, monitorVars, evmVars
<1> QED
  BY <1>2, <1>3, <1>4, <1>5, <1>6, WorkerConfirmed, MonitorConfirmed DEF Next

\* Each step is a step of the abstract specification, or changes nothing of it.
LEMMA DeliveryStep ==
    ASSUME TypeOK, VerdictInv, OnlyConfirmed, [Next]_vars
    PROVE  [Delivery!Next]_(Delivery!dvars)
<1> DEFINE V(status) == CASE status = "SUBMITTED" -> "submitted"
                          [] status = "FAILED" -> "failed"
                          [] OTHER -> "none"
           verdict == [t \in Txs |-> V(subs[t].status)]
           attested == {t \in Txs : Attested(t)}
           disputed == {t \in Txs : Disputed(t)}
<1> USE DEF TypeOK
<1>1. /\ subs \in [Txs -> Submission] /\ monitor \in [Monitors -> Monitor]
      /\ mempool \in Seq(Entry) /\ offers \in Seq(Offer)
  BY DEF QueueTypeOK, Submissions, MonitorTypeOK, NetworkTypeOK
<1>2. ASSUME UNCHANGED offers
      PROVE  UNCHANGED <<attested, disputed>>
  BY <1>2 DEF Attested, Disputed
<1>3. ASSUME UNCHANGED <<confirmed, attested, disputed, verdict>>
      PROVE  UNCHANGED Delivery!dvars
  BY <1>3 DEF Delivery!dvars
<1>4. ASSUME UNCHANGED <<confirmed, subs, offers>>
      PROVE  UNCHANGED Delivery!dvars
  BY <1>2, <1>3, <1>4
<1>5. CASE ChainStep
  <2>1. UNCHANGED <<confirmed, subs>>
    BY <1>5 DEF ChainStep, queueVars, evmVars
  <2>2. CASE NewBlock \/ Expire \/ Evict
    BY <1>4, <2>1, <2>2 DEF NewBlock, Expire, Evict, DropFrom
  <2>3. CASE IncludeOffer
    <3>1. PICK r \in Result : offers' = Append(offers, [tx |-> Head(mempool).tx, result |-> r])
      BY <2>3 DEF IncludeOffer
    <3> DEFINE t == Head(mempool).tx
               o == [tx |-> t, result |-> r]
    <3>2. t \in Txs /\ t \in confirmed
      BY <1>1, <2>3, HeadTailProperties DEF IncludeOffer, OnlyConfirmed, Entry
    <3>3. \A u \in Txs : /\ Attested(u)' <=> Attested(u) \/ o = [tx |-> u, result |-> "ok"]
                         /\ Disputed(u)' <=> Disputed(u) \/ o = [tx |-> u, result |-> "conflict"]
      <4>1. o \in Offer
        BY <3>2 DEF Offer
      <4>2. /\ Len(offers) \in Nat /\ Len(offers') = Len(offers) + 1
            /\ offers'[Len(offers) + 1] = o
            /\ \A i \in 1..Len(offers) : offers'[i] = offers[i]
        BY <1>1, <3>1, <4>1
      <4>3. 1..Len(offers') = (1..Len(offers)) \cup {Len(offers) + 1}
        BY <4>2
      <4> HIDE DEF o
      <4> QED
        BY <4>2, <4>3 DEF Attested, Disputed
    <3>4. UNCHANGED verdict
      BY <2>1
    <3>5. CASE r = "ok"
      <4>1. attested' = attested \cup {t} /\ disputed' = disputed
        BY <3>2, <3>3, <3>5
      <4> QED
        BY <2>1, <3>2, <3>4, <4>1 DEF Delivery!Next, Delivery!Land
    <3>6. CASE r = "conflict"
      <4>1. disputed' = disputed \cup {t} /\ attested' = attested
        BY <3>2, <3>3, <3>6
      <4> QED
        BY <2>1, <3>2, <3>4, <4>1 DEF Delivery!Next, Delivery!Land
    <3>7. CASE r = "error"
      <4>1. disputed' = disputed /\ attested' = attested
        BY <3>3, <3>7
      <4> QED
        BY <1>3, <2>1, <3>4, <4>1
    <3> QED
      BY <3>5, <3>6, <3>7 DEF Result
  <2> QED
    BY <1>5, <2>2, <2>3 DEF ChainStep
<1>6. ASSUME NEW t \in Txs, Confirm(t)
      PROVE  Delivery!Next
  <2>1. UNCHANGED <<subs, offers>> /\ confirmed' = confirmed \cup {t}
    BY <1>6 DEF Confirm, chainVars, queueVars
  <2>2. UNCHANGED <<attested, disputed, verdict>>
    BY <1>2, <2>1
  <2> QED
    BY <2>1, <2>2 DEF Delivery!Next, Delivery!Confirm
<1>7. ASSUME NEW w \in Workers, WorkerStep(w), UNCHANGED <<monitorVars, evmVars>>
      PROVE  [Delivery!Next]_(Delivery!dvars)
  <2>1. UNCHANGED <<confirmed, offers>>
    BY <1>7 DEF WorkerStep, SkipSyncing, FetchStatus, ReadSubmission, ReadFails, Skip, Accept, Resync,
       Reject, ExecFails, AcceptedButExecFails, RecordSubmission, RecordFails, chainVars, evmVars
  <2>2. CASE RecordSubmission(w)
    <3> DEFINE t == worker[w].tx
    <3>1. t \in Txs
      BY <2>2 DEF RecordSubmission, QueueTypeOK
    <3>2. subs' = [subs EXCEPT ![t] = [status |-> "INFLIGHT", timeout |-> TimeoutHeight(w)]]
      BY <2>2 DEF RecordSubmission, AddSubmission
    <3>3. \A u \in Txs : subs'[u].status = IF u = t THEN "INFLIGHT" ELSE subs[u].status
      BY <1>1, <3>2
    <3>4. verdict' = [verdict EXCEPT ![t] = "none"]
      BY <3>1, <3>3
    <3> QED
      BY <1>2, <2>1, <3>1, <3>4 DEF Delivery!Next, Delivery!Reopen
  <2>3. CASE ~ RecordSubmission(w)
    BY <1>4, <1>7, <2>1, <2>3 DEF WorkerStep, SkipSyncing, FetchStatus, ReadSubmission, ReadFails,
       Skip, Accept, Resync, Reject, ExecFails, AcceptedButExecFails, RecordFails
  <2> QED
    BY <2>2, <2>3
<1>8. ASSUME NEW m \in Monitors, MonitorStep(m), UNCHANGED evmVars
      PROVE  [Delivery!Next]_(Delivery!dvars)
  <2>1. UNCHANGED <<confirmed, offers>>
    BY <1>8 DEF MonitorStep, ScanOffers, MarkFailed, SaveLastOffer, MarkSubmitted, QueryExpired,
       RequeueExpired, MonitorFails, UnchangedByMark, chainVars, evmVars
  <2>2. ASSUME NEW t \in Txs, NEW status, NEW rest, Mark(m, t, status, rest),
               \/ status = "SUBMITTED" /\ Attested(t)
               \/ status = "FAILED" /\ Disputed(t)
        PROVE  [Delivery!Next]_(Delivery!dvars)
    <3>1. CASE UNCHANGED subs
      BY <1>4, <2>1, <3>1
    <3>2. CASE subs' = [subs EXCEPT ![t].status = status]
      <4>1. \A u \in Txs : subs'[u].status = IF u = t THEN status ELSE subs[u].status
        BY <1>1, <3>2 DEF Submission
      <4>2. verdict' = [verdict EXCEPT ![t] = V(status)]
        BY <4>1
      <4> QED
        BY <1>2, <2>1, <2>2, <4>2 DEF Delivery!Next, Delivery!Conclude
    <3> QED
      BY <2>2, <3>1, <3>2 DEF Mark, UpdateSubmissionStatus
  <2>3. CASE MarkFailed(m)
    <3>1. PICK t \in monitor[m].conflicts :
            Mark(m, t, "FAILED", [monitor[m] EXCEPT !.conflicts = monitor[m].conflicts \ {t}])
      BY <2>3 DEF MarkFailed
    <3>2. t \in Txs /\ Disputed(t)
      BY <1>1 DEF Monitor, VerdictInv
    <3> QED
      BY <2>2, <3>1, <3>2
  <2>4. CASE MarkSubmitted(m)
    <3>1. PICK t \in monitor[m].succeeded :
            Mark(m, t, "SUBMITTED", [monitor[m] EXCEPT !.succeeded = monitor[m].succeeded \ {t}])
      BY <2>4 DEF MarkSubmitted
    <3>2. t \in Txs /\ Attested(t)
      BY <1>1 DEF Monitor, VerdictInv
    <3> QED
      BY <2>2, <3>1, <3>2
  <2>5. CASE ~ MarkFailed(m) /\ ~ MarkSubmitted(m)
    BY <1>4, <1>8, <2>1, <2>5 DEF MonitorStep, ScanOffers, SaveLastOffer, QueryExpired,
       RequeueExpired, MonitorFails, queueVars
  <2> QED
    BY <2>3, <2>4, <2>5
<1>9. CASE (\E b \in EvmHandlers : EvmStep(b)) \/ CrashAndRestart \/ UNCHANGED vars
  BY <1>4, <1>9 DEF EvmStep, ReadToBeSent, QueueToBeSent, CrashAndRestart, vars, chainVars,
     queueVars, evmVars
<1> QED
  BY <1>5, <1>6, <1>7, <1>8, <1>9 DEF Next

\* Whatever handlers, expiries and restarts do, the watcher delivers evidence of
\* confirmed transactions only, and its verdicts are those of Agoric
\* (src/queue.ts, src/submitter.ts and the Agoric block handler of src/lib/agoric.ts).
THEOREM DeliversEvidence == Spec => ImplementsDelivery
<1>1. Init => VerdictInv /\ OnlyConfirmed /\ Delivery!Init
  <2> SUFFICES ASSUME Init PROVE VerdictInv /\ OnlyConfirmed /\ Delivery!Init
    OBVIOUS
  <2>1. VerdictInv
    BY DEF Init, QueueInit, MonitorInit, MonitorMemoryInit, IdleMonitor, Absent, VerdictInv,
       VerdictsAreOnChain
  <2>2. OnlyConfirmed
    BY DEF Init, NetworkInit, QueueInit, MemoryInit, MonitorInit, MonitorMemoryInit, IdleMonitor,
       IdleWorker, IdleEvmHandler, Absent, OnlyConfirmed
  <2>3. Delivery!Init
    BY DEF Init, NetworkInit, QueueInit, Absent, Attested, Disputed, Delivery!Init
  <2> QED
    BY <2>1, <2>2, <2>3
<1>2. TypeOK /\ TypeOK' /\ VerdictInv /\ [Next]_vars => VerdictInv'
  BY VerdictStep
<1>3. TypeOK /\ OnlyConfirmed /\ [Next]_vars => OnlyConfirmed'
  BY ConfirmedStep
<1>4. TypeOK /\ VerdictInv /\ OnlyConfirmed /\ [Next]_vars => [Delivery!Next]_(Delivery!dvars)
  BY DeliveryStep
<1> QED
  BY <1>1, <1>2, <1>3, <1>4, TypeCorrect, PTL DEF Spec, ImplementsDelivery, Delivery!Spec

-----------------------------------------------------------------------------
(***************************************************************************)
(* The queue and its set of hashes.                                        *)
(***************************************************************************)

\* An activation that is not at an evidence holds none.
HandsEmpty == \A w \in Workers : worker[w].pc \in {"idle", "status"} => worker[w].tx = NoTx

\* A queue without repetitions.
NoneTwice(q) == \A i, j \in 1..Len(q) : q[i] = q[j] => i = j

\* Appending an order of a set of new transactions adds each of them once.
LEMMA AppendOrder ==
    ASSUME NEW q \in Seq(Txs), NoneTwice(q), NEW S \in SUBSET Txs, NEW order \in SetToSeqs(S),
           Range(q) \cap S = {}
    PROVE  Range(q \o order) = Range(q) \cup S /\ NoneTwice(q \o order)
<1>1. IsFiniteSet(S) /\ Cardinality(S) \in Nat
  BY TxsAssumption, FS_Subset, FS_CardinalityType
<1> DEFINE n == Cardinality(S)
<1>2. order \in [1..n -> S] /\ \A i, j \in 1..n : i # j => order[i] # order[j]
  BY DEF SetToSeqs
<1>3. order \in Seq(Txs) /\ Len(order) = n
  BY <1>1, <1>2
<1>4. \A t \in S : \E i \in 1..n : order[i] = t
  <2>1. order \in Injection(1..n, S)
    BY <1>2 DEF Injection, IsInjective
  <2>2. Cardinality(1..n) = n
    BY <1>1, FS_Interval
  <2>3. order \in Surjection(1..n, S)
    BY <1>1, <2>1, <2>2, FS_Injection
  <2> QED
    BY <2>3 DEF Surjection
<1> DEFINE r == q \o order
<1>5. /\ Len(q) \in Nat /\ n \in Nat /\ Len(r) = Len(q) + n
      /\ \A i \in 1..Len(q) : r[i] = q[i]
      /\ \A i \in 1..n : r[Len(q) + i] = order[i]
  BY <1>1, <1>3
<1>6. \A i \in 1..Len(r) : \/ i \in 1..Len(q)
                           \/ \E k \in 1..n : i = Len(q) + k
  <2>1. \A i \in 1..Len(r) : i \in 1..Len(q) \/ (i - Len(q) \in 1..n /\ i = Len(q) + (i - Len(q)))
    BY <1>5
  <2> QED
    BY <2>1
<1>7. DOMAIN r = 1..Len(r) /\ DOMAIN q = 1..Len(q)
  BY <1>3
<1> HIDE DEF n, r
<1>8. \A i \in 1..Len(q) : i \in 1..Len(r)
  BY <1>5
<1>9. \A i \in 1..n : Len(q) + i \in 1..Len(r)
  BY <1>5
<1>10. Range(r) = Range(q) \cup S
  <2>1. ASSUME NEW t \in Range(r) PROVE t \in Range(q) \cup S
    <3>1. PICK i \in 1..Len(r) : t = r[i]
      BY <1>7, <2>1 DEF Range
    <3>2. CASE i \in 1..Len(q)
      BY <1>5, <1>7, <3>1, <3>2 DEF Range
    <3>3. ASSUME NEW k \in 1..n, i = Len(q) + k PROVE t \in S
      BY <1>2, <1>5, <3>1, <3>3
    <3> QED
      BY <1>6, <3>2, <3>3
  <2>2. ASSUME NEW t \in Range(q) PROVE t \in Range(r)
    BY <1>5, <1>7, <1>8, <2>2 DEF Range
  <2>3. ASSUME NEW t \in S PROVE t \in Range(r)
    BY <1>4, <1>5, <1>7, <1>9, <2>3 DEF Range
  <2> QED
    BY <2>1, <2>2, <2>3
<1>11. NoneTwice(r)
  <2> SUFFICES ASSUME NEW i \in 1..Len(r), NEW j \in 1..Len(r), r[i] = r[j] PROVE i = j
    BY DEF NoneTwice
  <2>1. ASSUME NEW k \in 1..Len(q), NEW l \in 1..n PROVE q[k] # order[l]
    BY <1>2, <1>7 DEF Range
  <2>2. CASE i \in 1..Len(q) /\ j \in 1..Len(q)
    BY <1>5, <2>2 DEF NoneTwice
  <2>3. ASSUME i \in 1..Len(q), NEW k \in 1..n, j = Len(q) + k PROVE FALSE
    BY <1>5, <2>1, <2>3
  <2>4. ASSUME j \in 1..Len(q), NEW k \in 1..n, i = Len(q) + k PROVE FALSE
    BY <1>5, <2>1, <2>4
  <2>5. ASSUME NEW k \in 1..n, i = Len(q) + k, NEW l \in 1..n, j = Len(q) + l PROVE i = j
    <3>1. order[k] = order[l]
      BY <1>5, <2>5
    <3> QED
      BY <1>2, <2>5, <3>1
  <2> QED
    BY <1>6, <2>2, <2>3, <2>4, <2>5
<1> QED
  BY <1>10, <1>11 DEF r

\* Taking the head of the queue removes it, and it was there once.
LEMMA TakeHead ==
    ASSUME NEW q \in Seq(Txs), NoneTwice(q), q # <<>>
    PROVE  /\ Head(q) \in Txs /\ Head(q) \notin Range(Tail(q))
           /\ Range(q) = {Head(q)} \cup Range(Tail(q))
           /\ NoneTwice(Tail(q))
<1>1. /\ Len(q) \in Nat \ {0} /\ Len(Tail(q)) = Len(q) - 1 /\ Head(q) = q[1]
      /\ \A i \in 1..Len(Tail(q)) : Tail(q)[i] = q[i + 1]
      /\ DOMAIN q = 1..Len(q) /\ DOMAIN Tail(q) = 1..Len(Tail(q))
      /\ \A i \in 1..Len(q) : q[i] \in Txs
  BY HeadTailProperties
<1>2. \A i \in 1..Len(Tail(q)) : i + 1 \in 1..Len(q) /\ i + 1 # 1
  BY <1>1
<1>3. \A i \in 1..Len(q) : i = 1 \/ (i - 1 \in 1..Len(Tail(q)) /\ (i - 1) + 1 = i)
  BY <1>1
<1>4. 1 \in 1..Len(q)
  BY <1>1
<1>5. Head(q) \notin Range(Tail(q))
  BY <1>1, <1>2, <1>4 DEF Range, NoneTwice
<1>6. ASSUME NEW t \in Range(q) PROVE t \in {Head(q)} \cup Range(Tail(q))
  <2>1. PICK i \in 1..Len(q) : t = q[i]
    BY <1>1, <1>6 DEF Range
  <2>2. CASE i = 1
    BY <1>1, <2>1, <2>2
  <2>3. CASE i # 1
    <3>1. i - 1 \in 1..Len(Tail(q)) /\ Tail(q)[i - 1] = q[i]
      BY <1>1, <1>3, <2>3
    <3> QED
      BY <1>1, <2>1, <3>1 DEF Range
  <2> QED
    BY <2>2, <2>3
<1>7. {Head(q)} \cup Range(Tail(q)) \subseteq Range(q)
  BY <1>1, <1>2, <1>4 DEF Range
<1>8. NoneTwice(Tail(q))
  <2> SUFFICES ASSUME NEW i \in 1..Len(Tail(q)), NEW j \in 1..Len(Tail(q)), Tail(q)[i] = Tail(q)[j]
               PROVE  i = j
    BY DEF NoneTwice
  <2>1. i + 1 = j + 1
    BY <1>1, <1>2 DEF NoneTwice
  <2> QED
    BY <2>1
<1> QED
  BY <1>1, <1>4, <1>5, <1>6, <1>7, <1>8

\* What activations have in their hands.
Held == {worker[w].tx : w \in Workers} \ {NoTx}

\* The inductive form of QueueConsistent.
QueueInv == HandsEmpty /\ QueueConsistent

\* addToQueue lets in what is neither waiting nor held.
LEMMA AddToQueueConsistent ==
    ASSUME TypeOK, QueueInv, NEW txs \in SUBSET Txs, AddToQueue(txs)
    PROVE  QueueInv'
<1>1. /\ queue \in Seq(Txs) /\ worker \in [Workers -> Worker] /\ DOMAIN queue = 1..Len(queue)
      /\ NoneTwice(queue) /\ inQueue = Range(queue) \cup Held /\ Range(queue) \cap Held = {}
  BY DEF TypeOK, QueueTypeOK, QueueInv, QueueConsistent, NoneTwice, Held
<1>2. PICK order \in SetToSeqs(txs \ inQueue) : queue' = queue \o order
  BY DEF AddToQueue
<1>3. /\ txs \ inQueue \in SUBSET Txs
      /\ Range(queue) \cap (txs \ inQueue) = {}
  BY <1>1
<1>4. Range(queue') = Range(queue) \cup (txs \ inQueue) /\ NoneTwice(queue')
  BY <1>1, <1>2, <1>3, AppendOrder
<1>5. \A w \in Workers : worker'[w].tx = worker[w].tx
                         /\ (worker'[w].pc = worker[w].pc \/ worker[w].pc = "idle")
  BY <1>1 DEF AddToQueue, Worker
<1>6. Held' = Held /\ HandsEmpty'
  BY <1>5 DEF Held, HandsEmpty, QueueInv
<1>7. inQueue' = inQueue \cup txs
  BY DEF AddToQueue
<1>8. inQueue' = Range(queue') \cup Held' /\ Range(queue') \cap Held' = {}
  BY <1>1, <1>4, <1>6, <1>7
<1> QED
  BY <1>4, <1>6, <1>8 DEF QueueInv, QueueConsistent, NoneTwice, Held

\* The end of a turn lets go of the evidence and takes the next one.
LEMMA NextEvidenceConsistent ==
    ASSUME TypeOK, SubmissionsSerialized, QueueInv, NEW w \in Workers, NEW h \in Nat,
           worker[w].pc # "idle", NextEvidence(w, h), inQueue' = inQueue \ {worker[w].tx}
    PROVE  QueueInv'
<1>1. /\ queue \in Seq(Txs) /\ worker \in [Workers -> Worker] /\ NoTx \notin Txs
      /\ NoneTwice(queue) /\ inQueue = Range(queue) \cup Held /\ Range(queue) \cap Held = {}
      /\ inQueue \in SUBSET Txs
  BY NoTxAssumption DEF TypeOK, QueueTypeOK, QueueInv, QueueConsistent, NoneTwice, Held
<1>2. \A v \in Workers \ {w} : worker[v].pc = "idle" /\ worker[v].tx = NoTx
  <2>1. \A v \in Workers \ {w} : worker[v].pc = "idle"
    BY DEF SubmissionsSerialized
  <2> QED
    BY <2>1 DEF QueueInv, HandsEmpty
<1>3. Held = {worker[w].tx} \ {NoTx}
  BY <1>2 DEF Held
<1>4. inQueue' = Range(queue)
  BY <1>1, <1>3
<1>5. CASE queue = <<>>
  <2>1. worker' = [worker EXCEPT ![w] = IdleWorker] /\ queue' = queue
    BY <1>5 DEF NextEvidence
  <2>2. \A v \in Workers : worker'[v].tx = NoTx
    BY <1>1, <1>2, <2>1 DEF IdleWorker
  <2>3. Held' = {}
    BY <2>2 DEF Held
  <2>4. HandsEmpty'
    BY <2>2 DEF HandsEmpty
  <2> QED
    BY <1>1, <1>4, <2>1, <2>3, <2>4 DEF QueueInv, QueueConsistent, NoneTwice, Held
<1>6. CASE queue # <<>>
  <2>1. /\ worker' = [worker EXCEPT ![w] = [pc |-> "read", tx |-> Head(queue),
                                            height |-> h, sub |-> Absent]]
        /\ queue' = Tail(queue)
    BY <1>6 DEF NextEvidence
  <2>2. /\ worker'[w].tx = Head(queue) /\ worker'[w].pc = "read"
        /\ \A v \in Workers \ {w} : worker'[v] = worker[v]
    BY <1>1, <2>1
  <2>3. /\ Head(queue) \in Txs /\ Head(queue) \notin Range(Tail(queue))
        /\ Range(queue) = {Head(queue)} \cup Range(Tail(queue))
        /\ NoneTwice(Tail(queue))
    BY <1>1, <1>6, TakeHead
  <2>4. Held' = {Head(queue)}
    BY <1>1, <1>2, <2>2, <2>3 DEF Held
  <2>5. HandsEmpty'
    BY <1>2, <2>2 DEF HandsEmpty
  <2>6. inQueue' = Range(queue') \cup Held' /\ Range(queue') \cap Held' = {}
    BY <1>4, <2>1, <2>3, <2>4
  <2> QED
    BY <2>1, <2>3, <2>5, <2>6 DEF QueueInv, QueueConsistent, NoneTwice, Held
<1> QED
  BY <1>5, <1>6

\* Every step keeps the queue and its set together.
LEMMA QueueStep ==
    ASSUME TypeOK, SubmissionsSerialized, QueueInv, [Next]_vars
    PROVE  QueueInv'
<1>1. /\ worker \in [Workers -> Worker] /\ inQueue \in SUBSET Txs /\ evm \in [EvmHandlers -> EvmHandler]
      /\ monitor \in [Monitors -> Monitor] /\ NoTx \notin Txs
  BY NoTxAssumption DEF TypeOK, QueueTypeOK, MonitorTypeOK
<1>2. ASSUME UNCHANGED <<queue, inQueue>>,
             \A w \in Workers : /\ worker'[w].tx = worker[w].tx
                                /\ worker'[w].pc \in {"idle", "status"} => worker'[w].tx = NoTx
      PROVE  QueueInv'
  <2>1. Held' = Held
    BY <1>2 DEF Held
  <2> QED
    BY <1>2, <2>1 DEF QueueInv, QueueConsistent, HandsEmpty, Held
<1>3. CASE UNCHANGED <<queue, inQueue, worker>>
  BY <1>2, <1>3 DEF QueueInv, HandsEmpty
<1>4. CASE ChainStep \/ (\E t \in Txs : Confirm(t)) \/ (\E b \in EvmHandlers : ReadToBeSent(b))
            \/ UNCHANGED vars
  BY <1>3, <1>4 DEF ChainStep, Confirm, ReadToBeSent, vars, queueVars
<1>5. ASSUME NEW b \in EvmHandlers, QueueToBeSent(b)
      PROVE  QueueInv'
  <2>1. evm[b].txs \in SUBSET Txs
    BY <1>1 DEF EvmHandler
  <2> QED
    BY <1>5, <2>1, AddToQueueConsistent DEF QueueToBeSent
<1>6. ASSUME NEW m \in Monitors, MonitorStep(m)
      PROVE  QueueInv'
  <2>1. CASE RequeueExpired(m)
    <3>1. monitor[m].expired \in SUBSET Txs
      BY <1>1 DEF Monitor
    <3> QED
      BY <2>1, <3>1, AddToQueueConsistent DEF RequeueExpired
  <2>2. CASE ~ RequeueExpired(m)
    BY <1>3, <1>6, <2>2 DEF MonitorStep, ScanOffers, MarkFailed, SaveLastOffer, MarkSubmitted,
       QueryExpired, MonitorFails, UnchangedByMark, queueVars
  <2> QED
    BY <2>1, <2>2
<1>7. ASSUME NEW w \in Workers, WorkerStep(w)
      PROVE  QueueInv'
  <2>1. ASSUME worker[w].pc # "idle", FinishEvidence(w) PROVE QueueInv'
    BY <1>1, <2>1, NextEvidenceConsistent DEF FinishEvidence, Worker
  <2>2. CASE FetchStatus(w)
    <3>1. PICK h \in ReportedHeights : NextEvidence(w, h)
      BY <2>2 DEF FetchStatus
    <3>2. h \in Nat
      BY DEF ReportedHeights
    <3>3. worker[w].pc = "status" /\ worker[w].tx = NoTx /\ inQueue' = inQueue
      BY <2>2 DEF FetchStatus, QueueInv, HandsEmpty
    <3>4. inQueue' = inQueue \ {worker[w].tx}
      BY <1>1, <3>3
    <3> QED
      BY <3>1, <3>2, <3>3, <3>4, NextEvidenceConsistent
  <2>3. CASE SkipSyncing(w)
    <3>1. worker[w].tx = NoTx
      BY <2>3 DEF SkipSyncing, QueueInv, HandsEmpty
    <3>2. worker' = [worker EXCEPT ![w] = IdleWorker] /\ IdleWorker.tx = NoTx
      BY <2>3 DEF SkipSyncing, IdleWorker
    <3>3. worker'[w].tx = NoTx /\ \A v \in Workers \ {w} : worker'[v] = worker[v]
      BY <1>1, <3>2
    <3> QED
      BY <1>2, <2>3, <3>1, <3>3 DEF SkipSyncing, QueueInv, HandsEmpty
  <2>4. CASE ReadSubmission(w) \/ Accept(w) \/ Resync(w)
    <3>1. \A v \in Workers : /\ worker'[v].tx = worker[v].tx
                             /\ worker'[v].pc = worker[v].pc \/ worker'[v].pc \notin {"idle", "status"}
      <4>1. CASE ReadSubmission(w)
        BY <1>1, <4>1 DEF ReadSubmission, Worker
      <4>2. CASE Accept(w)
        BY <1>1, <4>2 DEF Accept, Worker
      <4>3. CASE Resync(w)
        BY <1>1, <4>3 DEF Resync, Worker
      <4> QED
        BY <2>4, <4>1, <4>2, <4>3
    <3>2. UNCHANGED <<queue, inQueue>>
      BY <2>4 DEF ReadSubmission, Accept, Resync
    <3> QED
      BY <1>2, <3>1, <3>2 DEF QueueInv, HandsEmpty
  <2>5. CASE ReadFails(w) \/ Skip(w) \/ Reject(w) \/ ExecFails(w) \/ AcceptedButExecFails(w)
              \/ RecordSubmission(w) \/ RecordFails(w)
    <3>1. worker[w].pc # "idle" /\ FinishEvidence(w)
      BY <2>5 DEF ReadFails, Skip, Reject, ExecFails, AcceptedButExecFails, RecordSubmission,
         RecordFails, ReadyToSubmit
    <3> QED
      BY <2>1, <3>1
  <2> QED
    BY <1>7, <2>2, <2>3, <2>4, <2>5 DEF WorkerStep
<1>8. CASE CrashAndRestart
  <2>1. \A w \in Workers : worker'[w].tx = NoTx
    BY <1>8 DEF CrashAndRestart, IdleWorker
  <2>2. queue' = <<>> /\ inQueue' = {}
    BY <1>8 DEF CrashAndRestart
  <2>3. Held' = {} /\ Range(queue') = {} /\ Len(queue') = 0
    BY <2>1, <2>2 DEF Held, Range
  <2> QED
    BY <2>1, <2>2, <2>3 DEF QueueInv, QueueConsistent, HandsEmpty, Held
<1> QED
  BY <1>4, <1>5, <1>6, <1>7, <1>8 DEF Next, EvmStep

\* inQueue holds the hashes that wait in the queue or are being
\* submitted, each once, and no others (src/queue.ts:8-60).
THEOREM QueueStaysConsistent == Spec => []QueueConsistent
<1>1. Init => QueueInv
  <2> SUFFICES ASSUME Init PROVE QueueInv
    OBVIOUS
  <2>1. \A w \in Workers : worker[w].tx = NoTx
    BY DEF Init, QueueInit, MemoryInit, IdleWorker
  <2>2. queue = <<>> /\ inQueue = {} /\ Range(queue) = {} /\ Len(queue) = 0
    BY DEF Init, QueueInit, MemoryInit, Range
  <2> QED
    BY <2>1, <2>2 DEF QueueInv, QueueConsistent, HandsEmpty
<1>2. TypeOK /\ SubmissionsSerialized /\ QueueInv /\ [Next]_vars => QueueInv'
  BY QueueStep
<1>3. QueueInv => QueueConsistent
  BY DEF QueueInv
<1> QED
  BY <1>1, <1>2, <1>3, TypeCorrect, Serialized, PTL DEF Spec

=============================================================================
