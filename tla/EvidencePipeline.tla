-------------------------- MODULE EvidencePipeline ---------------------------
(***************************************************************************)
(* The watcher from a confirmed burn transaction to the verdict of Agoric: *)
(* the handlers of new EVM blocks (src/listener.ts) feed the submission    *)
(* queue, the queue submits to Agoric, and the handlers of new Agoric      *)
(* blocks record verdicts and feed expired transactions back.  The process *)
(* may stop and start again at any point: the database survives, memory    *)
(* does not.                                                               *)
(***************************************************************************)
EXTENDS OfferMonitor

CONSTANTS EvmHandlers  \* handlers of new EVM blocks

VARIABLES confirmed,   \* recorded transactions with enough confirmations
          evm          \* the handlers of new EVM blocks

evmVars == <<confirmed, evm>>

vars == <<chainVars, faults, queueVars, monitorVars, evmVars>>

\* A handler that is sending holds what the query returned before it waited
\* for the height to be stored.
EvmHandler == [sending : BOOLEAN, txs : SUBSET Txs]

IdleEvmHandler == [sending |-> FALSE, txs |-> {}]

TypeOK ==
    /\ NetworkTypeOK
    /\ QueueTypeOK
    /\ MonitorTypeOK
    /\ confirmed \in SUBSET Txs
    /\ evm \in [EvmHandlers -> EvmHandler]

Init ==
    /\ NetworkInit
    /\ QueueInit
    /\ MonitorInit
    /\ confirmed = {}
    /\ evm = [b \in EvmHandlers |-> IdleEvmHandler]

-----------------------------------------------------------------------------
\* The blocks that a recorded transaction has to wait for are there.
Confirm(t) ==
    /\ t \notin confirmed
    /\ confirmed' = confirmed \cup {t}
    /\ UNCHANGED <<chainVars, faults, queueVars, monitorVars, evm>>

\* getTransactionsToBeSentForChain answered; setHeightForChain is awaited.  A
\* handler that has nothing to send has no further effect on the queue.
ReadToBeSent(b) ==
    /\ ~ evm[b].sending
    /\ ToBeSent(subs, confirmed) # {}
    /\ evm' = [evm EXCEPT ![b] = [sending |-> TRUE,
                                  txs |-> ToBeSent(subs, confirmed)]]
    /\ UNCHANGED <<chainVars, faults, queueVars, monitorVars, confirmed>>

QueueToBeSent(b) ==
    /\ evm[b].sending
    /\ AddToQueue(evm[b].txs)
    /\ evm' = [evm EXCEPT ![b] = IdleEvmHandler]
    /\ UNCHANGED <<chainVars, faults, subs, watcherSeq, orphaned, monitorVars, confirmed>>

EvmStep(b) == ReadToBeSent(b) \/ QueueToBeSent(b)

\* An offer that was accepted and not recorded yet is lost to the database.
Unrecorded == {worker[w].tx : w \in {v \in Workers : worker[v].pc = "record"}}

\* The process stops and main runs again.  The account endpoint knows the
\* sequence of committed transactions only.
CrashAndRestart ==
    /\ Fault
    /\ queue' = <<>>
    /\ inQueue' = {}
    /\ isProcessing' = FALSE
    /\ worker' = [w \in Workers |-> IdleWorker]
    /\ monitor' = [m \in Monitors |-> IdleMonitor]
    /\ evm' = [b \in EvmHandlers |-> IdleEvmHandler]
    /\ watcherSeq' = Len(offers)
    /\ orphaned' = orphaned \cup Unrecorded
    /\ UNCHANGED <<chainVars, subs, lastOfferId, confirmed>>

ChainStep ==
    /\ \/ NewBlock
       \/ IncludeOffer
       \/ Expire
       \/ Evict
    /\ UNCHANGED <<queueVars, monitorVars, evmVars>>

Next ==
    \/ ChainStep
    \/ \E t \in Txs : Confirm(t)
    \/ \E w \in Workers : WorkerStep(w) /\ UNCHANGED <<monitorVars, evmVars>>
    \/ \E m \in Monitors : MonitorStep(m) /\ UNCHANGED evmVars
    \/ \E b \in EvmHandlers : EvmStep(b)
    \/ CrashAndRestart

Spec == Init /\ [][Next]_vars

-----------------------------------------------------------------------------
\* What the scheduling of the code justifies.  Blocks keep coming and include
\* what they can.  A query that is sent is answered, and a step of the event
\* loop that is ready runs.  The RPC status is not "syncing" for ever, and
\* once in a while a scan of the offers is answered by an up to date node.
FullScan(m) ==
    /\ ScanOffers(m)
    /\ monitor'[m].height = aHeight
    /\ monitor'[m].last = Len(offers)

Steady == UNCHANGED faults

Fairness ==
    /\ WF_vars(ChainStep /\ Steady /\ aHeight' > aHeight)
    /\ WF_vars(ChainStep /\ Steady /\ aHeight' = aHeight)
    /\ \A w \in Workers :
         /\ SF_vars(FetchStatus(w) /\ UNCHANGED <<monitorVars, evmVars>>)
         /\ WF_vars(/\ WorkerStep(w) /\ Steady /\ worker[w].pc # "status"
                    /\ UNCHANGED <<monitorVars, evmVars>>)
    /\ \A m \in Monitors :
         /\ SF_vars(FullScan(m) /\ UNCHANGED evmVars)
         /\ WF_vars(/\ MonitorStep(m) /\ Steady /\ monitor[m].pc # "idle"
                    /\ UNCHANGED evmVars)
    /\ \A b \in EvmHandlers : WF_vars(EvmStep(b))

FairSpec == Spec /\ Fairness

-----------------------------------------------------------------------------
\* isProcessing is the lock of the queue: it is held exactly while an
\* activation of processQueue is under way, and there is never a second one
\* using the same account sequence.
SubmissionsSerialized ==
    /\ isProcessing <=> \E w \in Workers : worker[w].pc # "idle"
    /\ \A v, w \in Workers :
         worker[v].pc # "idle" /\ worker[w].pc # "idle" => v = w

\* inQueue says what is waiting or being submitted, and nothing else: a stale
\* hash in it would keep a transaction out of the queue for ever, a missing
\* one would let it in twice.
QueueConsistent ==
    LET current == {worker[w].tx : w \in Workers} \ {NoTx}
    IN  /\ inQueue = Range(queue) \cup current
        /\ Range(queue) \cap current = {}
        /\ \A i, j \in 1..Len(queue) : queue[i] = queue[j] => i = j

\* A submission is only SUBMITTED (FAILED) when Agoric took its evidence
\* (found it conflicting), whatever handlers and restarts came between the
\* reading of an offer and the update of the status.
VerdictsAreOnChain ==
    \A t \in Txs : /\ subs[t].status = "SUBMITTED" => Attested(t)
                   /\ subs[t].status = "FAILED" => Disputed(t)

\* Two offers for the same transaction are never both able to reach a block:
\* the second is sent only when the first is past its timeout height.  The
\* record of the first is what tells, so a transaction whose record was lost
\* is left out.
AtMostOneLiveOffer ==
    \A i, j \in 1..Len(mempool) :
        /\ mempool[i].tx = mempool[j].tx
        /\ mempool[i].tx \notin orphaned
        /\ Includable(mempool[i])
        /\ Includable(mempool[j])
        => i = j

\* The timeout height recorded for a transaction never moves back, so that a
\* slow record of an older offer cannot hide a newer one.
TimeoutNeverShrinks ==
    [][\A t \in Txs : subs'[t].timeout >= subs[t].timeout]_vars

\* The pipeline implements the abstract delivery of evidence.
Delivery == INSTANCE EvidenceDelivery WITH
    attested <- {t \in Txs : Attested(t)},
    disputed <- {t \in Txs : Disputed(t)},
    verdict  <- [t \in Txs |-> CASE subs[t].status = "SUBMITTED" -> "submitted"
                                 [] subs[t].status = "FAILED" -> "failed"
                                 [] OTHER -> "none"]

ImplementsDelivery == Delivery!Spec

Decided(t) == subs[t].status \in {"SUBMITTED", "FAILED"}

\* The modelled blocks end before the last attempt for t can be repeated.
OutOfBlocks(t) ==
    /\ subs[t].status = "INFLIGHT"
    /\ subs[t].timeout >= MaxHeight
    /\ \A i \in 1..Len(mempool) : ~ (mempool[i].tx = t /\ Includable(mempool[i]))
    /\ \A i \in 1..Len(offers) : offers[i].tx = t => i <= lastOfferId

\* "Resubmit evidences to Agoric if they fail until they succeed": a confirmed
\* transaction gets its verdict, through expiries, rejections and syncing
\* nodes.
EvidenceGetsVerdict ==
    \A t \in Txs : t \in confirmed ~> Decided(t) \/ OutOfBlocks(t)

\* Every confirmed transaction is submitted and recorded in the end.
EvidenceGetsSubmitted ==
    \A t \in Txs : t \in confirmed ~> subs[t].status # "ABSENT"

-----------------------------------------------------------------------------
(***************************************************************************)
(* The inductive invariant behind AtMostOneLiveOffer and                   *)
(* TimeoutNeverShrinks.  The check of submitToAgoric reads the record of a *)
(* transaction, and the offer it lets through is sent later: the record    *)
(* must still be the one that was read (SnapshotsCurrent), which holds     *)
(* because one activation at a time writes records; and every offer under  *)
(* way must be covered by the record, or be the one about to be recorded   *)
(* (EntriesRecorded).                                                      *)
(***************************************************************************)
HeightsInPast == \A w \in Workers : worker[w].height <= aHeight

StoreSane ==
    \A t \in Txs : /\ subs[t].status # "CANCELLED"
                   /\ subs[t].status = "ABSENT" => subs[t].timeout = 0

SnapshotCurrent(w) ==
    /\ worker[w].pc = "exec" =>
         /\ worker[w].sub.timeout = subs[worker[w].tx].timeout
         /\ worker[w].sub.status # "CANCELLED"
         /\ worker[w].sub.status = "ABSENT" => worker[w].sub.timeout = 0
    /\ worker[w].pc = "record" =>
         subs[worker[w].tx].timeout <= worker[w].height

SnapshotsCurrent == \A w \in Workers : SnapshotCurrent(w)

EntryRecorded(entry) ==
    \/ entry.timeout <= subs[entry.tx].timeout
    \/ \E w \in Workers : /\ worker[w].pc = "record"
                          /\ worker[w].tx = entry.tx
                          /\ entry.timeout <= TimeoutHeight(w)

EntriesRecorded ==
    \A i \in 1..Len(mempool) :
        mempool[i].tx \notin orphaned => EntryRecorded(mempool[i])

OfferInv ==
    /\ TypeOK
    /\ SubmissionsSerialized
    /\ HeightsInPast
    /\ StoreSane
    /\ SnapshotsCurrent
    /\ EntriesRecorded
    /\ AtMostOneLiveOffer

=============================================================================
