---------------------------- MODULE OfferMonitor -----------------------------
(***************************************************************************)
(* The handler of new Agoric blocks (createAgoricWebSocket and getNewOffers*)
(* in src/lib/agoric.ts): it reads the offers the wallet published since   *)
(* the last one seen, records their verdicts, and puts the expired in      *)
(* flight transactions back in the queue.                                  *)
(*                                                                         *)
(* The websocket library does not wait for the handler's promise, so the   *)
(* handlers of several blocks overlap: a member of Monitors is one of      *)
(* them.  Its awaits are its program counters: conflicts (the marking of   *)
(* failed transactions inside getNewOffers), applying (the loop that marks *)
(* the submitted ones) and requeue (the query for expired transactions has *)
(* answered).  An exception ends the handler where it is.                  *)
(***************************************************************************)
EXTENDS SubmissionQueue

CONSTANTS Monitors,        \* handlers of new Agoric blocks
          MaxOffersToLoop  \* MAX_OFFERS_TO_LOOP of the configuration

ASSUME LoopAssumption == MaxOffersToLoop \in Nat \ {0}

VARIABLES lastOfferId,  \* position of the last offer seen; survives restarts
          monitor       \* the handlers

monitorVars == <<lastOfferId, monitor>>

MonitorPc == {"idle", "conflicts", "applying", "requeue"}

Monitor == [pc : MonitorPc, height : Nat, conflicts : SUBSET Txs,
            succeeded : SUBSET Txs, last : Nat, expired : SUBSET Txs]

IdleMonitor == [pc |-> "idle", height |-> 0, conflicts |-> {},
                succeeded |-> {}, last |-> 0, expired |-> {}]

MonitorTypeOK ==
    /\ lastOfferId \in Nat
    /\ monitor \in [Monitors -> Monitor]

MonitorMemoryInit == monitor = [m \in Monitors |-> IdleMonitor]

MonitorInit ==
    /\ MonitorMemoryInit
    /\ lastOfferId = 0

\* makeWalletFollower: how many of the wallet's offers the node shows, which may
\* trail the chain.
Followed == 0..Len(offers)

\* setLastOfferId, and lastOfferId of the process.
SetLastOfferId(i) == lastOfferId' = i

\* Positions of the offers getNewOffers looks at when the node shows the first
\* k: from the latest back, at most MaxOffersToLoop, down to the last one seen.
NewOffers(k) ==
    {i \in 1..k : i > lastOfferId /\ i + MaxOffersToLoop > k}

\* Faulty form: does not look at how an offer ended.
TxsWithAnyResult(positions, result) ==
    {t \in Txs : \E i \in positions : offers[i].tx = t}

\* The transactions of those offers that ended in a given way.
TxsWithResult(positions, result) ==
    {t \in Txs : \E i \in positions : offers[i] = [tx |-> t, result |-> result]}

\* The handler returns or throws.
Leave(m) == monitor' = [monitor EXCEPT ![m] = IdleMonitor]

-----------------------------------------------------------------------------
ScanOffers(m) ==
    /\ monitor[m].pc = "idle"
    /\ \E h \in ReportedHeights, k \in Followed :
         LET new == NewOffers(k)
             conflicts == TxsWithResult(new, "conflict")
         IN  monitor' = [monitor EXCEPT ![m] =
                 [pc |-> "conflicts", height |-> h, conflicts |-> conflicts,
                  succeeded |-> TxsWithResult(new, "ok") \ conflicts,
                  last |-> k, expired |-> {}]]
    /\ UNCHANGED <<chainVars, faults, queueVars, lastOfferId>>

\* updateSubmissionStatus(t, false, status); the unique index may refuse it.
Mark(m, t, status, rest) ==
    \/ /\ ~ DuplicateOfferId(subs, t)
       /\ subs' = UpdateSubmissionStatus(subs, t, status)
       /\ monitor' = [monitor EXCEPT ![m] = rest]
    \/ /\ DuplicateOfferId(subs, t)
       /\ Leave(m)
       /\ UNCHANGED subs

UnchangedByMark == UNCHANGED <<chainVars, faults, queue, inQueue, isProcessing,
                               worker, watcherSeq, orphaned, lastOfferId>>

MarkFailed(m) ==
    /\ monitor[m].pc = "conflicts"
    /\ \E t \in monitor[m].conflicts :
         Mark(m, t, "FAILED",
              [monitor[m] EXCEPT !.conflicts = monitor[m].conflicts \ {t}])
    /\ UnchangedByMark

\* The end of getNewOffers.  Nothing is saved before the first offer.
SaveLastOffer(m) ==
    /\ monitor[m].pc = "conflicts"
    /\ monitor[m].conflicts = {}
    /\ IF monitor[m].last > 0 THEN SetLastOfferId(monitor[m].last)
       ELSE UNCHANGED lastOfferId
    /\ monitor' = [monitor EXCEPT ![m].pc = "applying", ![m].last = 0]
    /\ UNCHANGED <<chainVars, faults, queueVars>>

\* Faulty form: writes a status that the schema does not know.
MarkConfirmed(m) ==
    /\ monitor[m].pc = "applying"
    /\ \E t \in monitor[m].succeeded :
         Mark(m, t, "CONFIRMED",
              [monitor[m] EXCEPT !.succeeded = monitor[m].succeeded \ {t}])
    /\ UnchangedByMark

\* The loop over the offers getNewOffers returned.
MarkSubmitted(m) ==
    /\ monitor[m].pc = "applying"
    /\ \E t \in monitor[m].succeeded :
         Mark(m, t, "SUBMITTED",
              [monitor[m] EXCEPT !.succeeded = monitor[m].succeeded \ {t}])
    /\ UnchangedByMark

\* With no expired transaction the handler is done.
QueryExpired(m) ==
    /\ monitor[m].pc = "applying"
    /\ monitor[m].succeeded = {}
    /\ LET expired == ExpiredInflight(subs, monitor[m].height)
       IN  IF expired = {}
           THEN Leave(m)
           ELSE monitor' = [monitor EXCEPT ![m].pc = "requeue", ![m].expired = expired]
    /\ UNCHANGED <<chainVars, faults, queueVars, lastOfferId>>

RequeueExpired(m) ==
    /\ monitor[m].pc = "requeue"
    /\ AddToQueue(monitor[m].expired)
    /\ Leave(m)
    /\ UNCHANGED <<chainVars, faults, subs, watcherSeq, orphaned, lastOfferId>>

\* A query of the handler fails.
MonitorFails(m) ==
    /\ monitor[m].pc \in {"conflicts", "applying"}
    /\ Fault
    /\ Leave(m)
    /\ UNCHANGED <<chainVars, queueVars, lastOfferId>>

MonitorStep(m) ==
    \/ ScanOffers(m)
    \/ MarkFailed(m)
    \/ SaveLastOffer(m)
    \/ MarkSubmitted(m)
    \/ QueryExpired(m)
    \/ RequeueExpired(m)
    \/ MonitorFails(m)

=============================================================================
