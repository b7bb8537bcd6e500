----------------------------- MODULE EvmWatcher ------------------------------
(***************************************************************************)
(* The watcher's side of one EVM chain: the handlers of logs and of new    *)
(* blocks (src/listener.ts), the backfill (src/backfill.ts), the heights   *)
(* that say where it left off (src/lib/db.ts and the height metric), the   *)
(* reconnection (src/lib/evm-client.ts), and the stop and start of the     *)
(* process (src/index.ts).                                                 *)
(*                                                                         *)
(* ethers does not wait for a handler's promise: handlers overlap.  A      *)
(* member of Tasks is one asynchronous call in progress, and its awaits    *)
(* are its program counters.                                               *)
(***************************************************************************)
EXTENDS EvmChain

CONSTANTS Tasks,   \* calls that can be in progress together
          NoLog    \* the log of a task that is not processing one

ASSUME NoLogAssumption == NoLog \notin Log

VARIABLES dbHeight,      \* lastHeights of the chain; 0 when there is none
          metricHeight,  \* the height metric; 0 after a start
          task,          \* the calls in progress
          handed,        \* burns given to the submission queue
          lost,          \* history: burns that a failure took from a handler
          cutOff         \* history: removals that a failure took, with the await they were at

heightVars == <<dbHeight, metricHeight>>

vars == <<recordVars, chainVars, noticeVars, listening, faults, heightVars,
          task, handed, lost, cutOff>>

\* idle: no call.  heights, metric, query, height: the awaits of the handler of
\* a block.  getLogs, setHeight, sums, setSums: those of backfillChain.  lookup,
\* save, revert, remove: those of processCCTPBurnEventLog.
Pc == {"idle", "heights", "metric", "query", "height", "getLogs", "setHeight", "sums",
       "setSums", "lookup", "save", "revert", "remove"}

\* The awaits of processCCTPBurnEventLog.
LogPc == {"lookup", "save", "revert", "remove"}

Task == [pc : Pc, kind : {"event", "block", "boot"},
         block : Nat,                       \* number handled, end of a backfill
         from : Nat,                        \* height read, start of a backfill
         todo : SUBSET Log,                 \* logs a backfill has still to process
         log : Log \cup {NoLog}, clean : BOOLEAN,
         found : SUBSET Burns,              \* burns that the query returned
         sums : Seq(Entry)]                 \* answer of getBlockSums

IdleTask == [pc |-> "idle", kind |-> "event", block |-> 0, from |-> 0, todo |-> {},
             log |-> NoLog, clean |-> FALSE, found |-> {}, sums |-> <<>>]

WatcherTypeOK ==
    /\ RecordsTypeOK
    /\ ChainTypeOK
    /\ dbHeight \in Nat
    /\ metricHeight \in Nat
    /\ task \in [Tasks -> Task]
    /\ handed \in SUBSET Burns
    /\ lost \in SUBSET Burns

TypeOK ==
    /\ WatcherTypeOK
    /\ cutOff \in SUBSET (Burns \X Pc)

Init ==
    /\ RecordsInit
    /\ ChainInit
    /\ dbHeight = 0
    /\ metricHeight = 0
    /\ task = [k \in Tasks |-> IdleTask]
    /\ handed = {}
    /\ lost = {}
    /\ cutOff = {}

\* getRpcBlockHeight and setRpcBlockHeight: the height metric, which may move back.
RpcBlockHeight       == metricHeight
SetRpcBlockHeight(n) == metricHeight' = n

Height == Max({dbHeight, RpcBlockHeight})

-----------------------------------------------------------------------------
(* The handlers start.                                                     *)

TakeLog(k) ==
    /\ task[k].pc = "idle"
    /\ \E l \in logs :
         /\ Arrives(l.block)
         /\ logs' = logs \ {l}
         /\ task' = [task EXCEPT ![k] = [IdleTask EXCEPT !.pc = "lookup", !.log = l]]
    /\ UNCHANGED <<recordVars, chainVars, blocks, listening, faults, heightVars,
                   handed, lost, cutOff>>

TakeBlock(k) ==
    /\ task[k].pc = "idle"
    /\ \E n \in blocks :
         /\ Arrives(n)
         /\ blocks' = blocks \ {n}
         /\ task' = [task EXCEPT ![k] = [IdleTask EXCEPT !.pc = "heights",
                                                         !.kind = "block",
                                                         !.block = n]]
    /\ UNCHANGED <<recordVars, chainVars, logs, listening, faults, heightVars,
                   handed, lost, cutOff>>

-----------------------------------------------------------------------------
(* One log.                                                                *)

\* The call with the next of its logs; a handler of one log returns.
Proceed(this, todo) ==
    IF this.kind = "event" THEN {IdleTask}
    ELSE IF todo = {}
         THEN {[this EXCEPT !.pc = "setHeight", !.todo = {}, !.log = NoLog, !.clean = FALSE]}
         ELSE {[this EXCEPT !.pc = "lookup", !.todo = todo \ {l}, !.log = l, !.clean = FALSE] :
                  l \in {l \in todo : \A other \in todo : l.block <= other.block}}

EndOfLog(k) == \E next \in Proceed(task[k], task[k].todo) : task' = [task EXCEPT ![k] = next]

UnchangedByLog == UNCHANGED <<chainVars, noticeVars, listening, heightVars, handed>>

IgnoreLog(k) ==
    /\ task[k].pc = "lookup"
    /\ AlreadyProcessed(task[k].log)
    /\ EndOfLog(k)
    /\ UnchangedByLog
    /\ UNCHANGED <<recordVars, faults, lost, cutOff>>

AdmitLog(k) ==
    /\ task[k].pc = "lookup"
    /\ ~ task[k].log.removed
    /\ ~ AlreadyProcessed(task[k].log)
    /\ Admit(task[k].log)
    /\ task' = [task EXCEPT ![k].pc = "save", ![k].clean = Clean(task[k].log.tx)]
    /\ UnchangedByLog
    /\ UNCHANGED <<docs, removedTxs, faults, lost, cutOff>>

SaveLog(k) ==
    /\ task[k].pc = "save"
    /\ AddTransaction(task[k].log.tx, [status |-> "CONFIRMED",
                                       block  |-> task[k].log.block,
                                       clean  |-> task[k].clean])
    /\ EndOfLog(k)
    /\ UnchangedByLog
    /\ UNCHANGED <<removedTxs, entries, faults, lost, cutOff>>

TakeBack(k) ==
    /\ task[k].pc = "lookup"
    /\ task[k].log.removed
    /\ ~ AlreadyProcessed(task[k].log)
    /\ task' = [task EXCEPT ![k].pc = "revert"]
    /\ UnchangedByLog
    /\ UNCHANGED <<recordVars, faults, lost, cutOff>>

Revert(k) ==
    /\ task[k].pc = "revert"
    /\ MarkReorged(task[k].log.tx)
    /\ task' = [task EXCEPT ![k].pc = "remove"]
    /\ UnchangedByLog
    /\ UNCHANGED <<removedTxs, entries, faults, lost, cutOff>>

\* Faulty form: does not add the transaction to the removed ones.
ForgetRemoved(k) ==
    /\ task[k].pc = "remove"
    /\ EndOfLog(k)
    /\ UnchangedByLog
    /\ UNCHANGED <<recordVars, faults, lost, cutOff>>

RecordRemoved(k) ==
    /\ task[k].pc = "remove"
    /\ AddRemovedTX(task[k].log.tx)
    /\ EndOfLog(k)
    /\ UnchangedByLog
    /\ UNCHANGED <<docs, entries, faults, lost, cutOff>>

\* The heights, or the call in progress that will set them, leave the block of
\* the burn behind: no gap that is found later reaches back to it.
Behind(t) == minedAt[t] <= Height \/ \E k \in Tasks : minedAt[t] <= task[k].block

\* The removal that a call is processing, and its await.
RemovalInHand(k) ==
    IF \/ task[k].pc = "lookup" /\ task[k].log.removed
       \/ task[k].pc \in {"revert", "remove"}
    THEN {<<task[k].log.tx, task[k].pc>>}
    ELSE {}

\* A query fails: the caller logs the error and goes on with the next log.  The
\* burn is gone if its block is behind, or comes next.
LogFails(k) ==
    /\ task[k].pc \in LogPc
    /\ Fault("db")
    /\ lost' = IF task[k].log.removed THEN lost
               ELSE lost \cup {t \in {task[k].log.tx} :
                                  Behind(t) \/ task[k].log.block \in blocks}
    /\ cutOff' = cutOff \cup RemovalInHand(k)
    /\ EndOfLog(k)
    /\ UnchangedByLog
    /\ UNCHANGED recordVars

LogStep(k) ==
    \/ IgnoreLog(k)
    \/ AdmitLog(k)
    \/ SaveLog(k)
    \/ TakeBack(k)
    \/ Revert(k)
    \/ RecordRemoved(k)
    \/ LogFails(k)

-----------------------------------------------------------------------------
(* The backfill.                                                           *)

\* What follows a backfill: the query of the handler that asked for it, or the
\* start of the listener.
AfterBackfill(k) ==
    IF task[k].kind = "boot"
    THEN /\ task' = [task EXCEPT ![k] = IdleTask]
         /\ listening' = TRUE
    ELSE /\ task' = [task EXCEPT ![k].pc = "query", ![k].from = 0, ![k].todo = {},
                               ![k].sums = <<>>]
         /\ UNCHANGED listening

\* On a start the range ends at the latest block.
LastBlock(k) == IF task[k].kind = "boot" THEN head ELSE task[k].block

GetLogs(k) ==
    /\ task[k].pc = "getLogs"
    /\ \E next \in Proceed([task[k] EXCEPT !.block = LastBlock(k)],
                           LogsBetween(task[k].from, LastBlock(k))) :
         task' = [task EXCEPT ![k] = next]
    /\ UNCHANGED <<recordVars, chainVars, noticeVars, listening, faults,
                   heightVars, handed, lost, cutOff>>

StoreBackfilled(k) ==
    /\ task[k].pc = "setHeight"
    /\ dbHeight' = task[k].block
    /\ task' = [task EXCEPT ![k].pc = "sums"]
    /\ UNCHANGED <<recordVars, chainVars, noticeVars, listening, faults,
                   metricHeight, handed, lost, cutOff>>

ReadSums(k) ==
    /\ task[k].pc = "sums"
    /\ task' = [task EXCEPT ![k].pc = "setSums",
                            ![k].sums = BlockSums(docs, task[k].block, WindowSize)]
    /\ UNCHANGED <<recordVars, chainVars, noticeVars, listening, faults,
                   heightVars, handed, lost, cutOff>>

\* setChainEntries: whatever was counted since the sums were read is gone.
SetSums(k) ==
    /\ task[k].pc = "setSums"
    /\ entries' = task[k].sums
    /\ AfterBackfill(k)
    /\ UNCHANGED <<docs, removedTxs, chainVars, noticeVars, faults, heightVars,
                   handed, lost, cutOff>>

\* backfillChain swallows the error.  The handler of a block goes on to store
\* its height all the same.
BackfillFails(k) ==
    /\ task[k].pc \in {"getLogs", "setHeight", "sums"}
    /\ Fault("rpc")
    /\ lost' = IF task[k].pc # "getLogs" THEN lost
               ELSE lost \cup {t \in Burns :
                        /\ Mined(t)
                        /\ minedAt[t] >= task[k].from
                        /\ task[k].kind = "boot" => minedAt[t] = task[k].from
                        /\ task[k].kind = "block" => minedAt[t] <= task[k].block}
    /\ AfterBackfill(k)
    /\ UNCHANGED <<recordVars, chainVars, noticeVars, heightVars, handed, cutOff>>

BackfillStep(k) ==
    \/ GetLogs(k)
    \/ StoreBackfilled(k)
    \/ ReadSums(k)
    \/ SetSums(k)
    \/ BackfillFails(k)

-----------------------------------------------------------------------------
(* The handler of a block.                                                 *)

\* getAllHeights answers; the handler keeps the height in from.
ReadDbHeight(k) ==
    /\ task[k].pc = "heights"
    /\ task' = [task EXCEPT ![k].pc = "metric", ![k].from = dbHeight]
    /\ UNCHANGED <<recordVars, chainVars, noticeVars, listening, faults,
                   heightVars, handed, lost, cutOff>>

\* Faulty form: accepts a gap of one block.
SkipsBlocksLate(n, height) == n > height + 2

\* Blocks between the last height and this one were not announced.
SkipsBlocks(n, height) == n > height + 1

ReadMetricHeight(k) ==
    /\ task[k].pc = "metric"
    /\ LET height == Max({task[k].from, RpcBlockHeight})
       IN  task' = IF SkipsBlocks(task[k].block, height)
                   THEN [task EXCEPT ![k].pc = "getLogs", ![k].from = height + 1]
                   ELSE [task EXCEPT ![k].pc = "query", ![k].from = 0]
    /\ UNCHANGED <<recordVars, chainVars, noticeVars, listening, faults,
                   heightVars, handed, lost, cutOff>>

\* Burns that already have a submission are not returned: some of the ones
\* handed before, as the submission queue records them in its own time.
QueryToBeSent(k) ==
    /\ task[k].pc = "query"
    /\ \E submitted \in SUBSET handed :
         task' = [task EXCEPT ![k].pc = "height",
                              ![k].found = ToBeSent(task[k].block) \ submitted]
    /\ SetRpcBlockHeight(task[k].block)
    /\ UNCHANGED <<recordVars, chainVars, noticeVars, listening, faults,
                   dbHeight, handed, lost, cutOff>>

StoreHeight(k) ==
    /\ task[k].pc = "height"
    /\ dbHeight' = task[k].block
    /\ handed' = handed \cup task[k].found
    /\ entries' = AddEntry(entries, task[k].block, WindowSize)
    /\ task' = [task EXCEPT ![k] = IdleTask]
    /\ UNCHANGED <<docs, removedTxs, chainVars, noticeVars, listening, faults,
                   metricHeight, lost, cutOff>>

\* A query fails: the rejection reaches nobody and the handler is over.
BlockFails(k) ==
    /\ task[k].pc \in {"heights", "query", "height"}
    /\ Fault("db")
    /\ task' = [task EXCEPT ![k] = IdleTask]
    /\ UNCHANGED <<recordVars, chainVars, noticeVars, listening, heightVars,
                   handed, lost, cutOff>>

BlockStep(k) ==
    \/ ReadDbHeight(k)
    \/ ReadMetricHeight(k)
    \/ QueryToBeSent(k)
    \/ StoreHeight(k)
    \/ BlockFails(k)

-----------------------------------------------------------------------------
(* The connection and the process.                                         *)

\* A handler, or an announcement, still has the burn in its hands.
InHand(t) ==
    \/ \E l \in logs : l.tx = t /\ ~ l.removed
    \/ \E k \in Tasks :
         \/ task[k].pc \in {"lookup", "save"} /\ task[k].log.tx = t /\ ~ task[k].log.removed
         \/ \E l \in task[k].todo : l.tx = t
         \/ /\ task[k].pc = "getLogs"
            /\ task[k].from <= minedAt[t]
            /\ task[k].kind = "block" => minedAt[t] <= task[k].block

\* Removals that are announced and have no handler yet.
RemovalsAnnounced == {<<l.tx, "lookup">> : l \in {o \in logs : o.removed}}

\* The announcements under way are gone.  A block that was not taken yet leaves a
\* gap, and with it its logs come back.
Disconnect ==
    /\ listening
    /\ Fault("disconnect")
    /\ listening' = FALSE
    /\ blocks' = {}
    /\ logs' = {}
    /\ lost' = lost \cup {l.tx : l \in {o \in logs : ~ o.removed /\ Behind(o.tx)}}
    /\ cutOff' = cutOff \cup RemovalsAnnounced
    /\ UNCHANGED <<recordVars, chainVars, heightVars, task, handed>>

Booting == \E k \in Tasks : task[k].kind = "boot"

\* initialiseBlockRangeAmounts, then listen.
Reconnect ==
    /\ ~ listening
    /\ ~ Booting
    /\ entries' = IncrementOrCreate(entries, head,
                                    TotalSum(BlockSums(docs, head, WindowSize)))
    /\ listening' = TRUE
    /\ UNCHANGED <<docs, removedTxs, chainVars, noticeVars, faults, heightVars,
                   task, handed, lost, cutOff>>

\* The process stops, after saving the metric if it is given the time, and main
\* runs again: it backfills from the stored height, that block included.
Restart ==
    /\ Fault("stop")
    /\ dbHeight' \in {dbHeight, IF metricHeight > 0 THEN metricHeight ELSE dbHeight}
    /\ metricHeight' = 0
    /\ entries' = <<>>
    /\ blocks' = {}
    /\ logs' = {}
    /\ lost' = lost \cup {t \in Burns : InHand(t) /\ minedAt[t] < dbHeight'}
    /\ cutOff' = cutOff \cup RemovalsAnnounced \cup UNION {RemovalInHand(k) : k \in Tasks}
    /\ IF dbHeight' = 0
       THEN /\ task' = [k \in Tasks |-> IdleTask]
            /\ listening' = TRUE
       ELSE /\ \E k \in Tasks :
                 task' = [j \in Tasks |->
                            IF j # k THEN IdleTask
                            ELSE [IdleTask EXCEPT !.pc = "getLogs", !.kind = "boot",
                                                  !.from = dbHeight']]
            /\ listening' = FALSE
    /\ UNCHANGED <<docs, removedTxs, chainVars, handed>>

ChainStep ==
    /\ NewBlock \/ \E t \in Burns : Reorg(t)
    /\ UNCHANGED <<recordVars, heightVars, task, handed, lost, cutOff>>

Next ==
    \/ ChainStep
    \/ \E k \in Tasks : TakeLog(k) \/ TakeBlock(k) \/ LogStep(k)
                            \/ BackfillStep(k) \/ BlockStep(k)
    \/ Disconnect
    \/ Reconnect
    \/ Restart

Spec == Init /\ [][Next]_vars

-----------------------------------------------------------------------------
\* What the event loop and the provider justify: a call in progress goes on, an
\* announcement reaches a handler, a closed websocket is opened again.  The chain
\* goes on to produce blocks.  Nothing is assumed of when calls fail.
Steady == UNCHANGED faults

Fairness ==
    /\ \A k \in Tasks :
         WF_vars(Steady /\ (LogStep(k) \/ BackfillStep(k) \/ BlockStep(k)))
    /\ WF_vars(\E k \in Tasks : TakeLog(k) \/ TakeBlock(k))
    /\ WF_vars(Reconnect)
    /\ WF_vars(Steady /\ ChainStep)

FairSpec == Spec /\ Fairness

-----------------------------------------------------------------------------
\* A burn in a block that the watcher has left behind is recorded or in the
\* hands of a handler, however the announcements were skipped or reordered and
\* the heights moved: nothing would ever look at that block again.
BurnsAreCovered ==
    \A t \in Burns : Mined(t) /\ minedAt[t] <= Height
                         => Recorded(t) \/ InHand(t) \/ t \in lost

\* The chain of the model ends before anyone asks for the block of the burn.
OutOfBlocks(t) ==
    /\ head = MaxBlock
    /\ blocks = {}
    /\ \A k \in Tasks : task[k].kind = "event"
    /\ minedAt[t] > Height
    /\ ~ InHand(t)

\* Every burn is recorded in the end, unless the call that had it in its hands
\* failed or was cut off.
BurnGetsRecorded ==
    \A t \in Burns : Mined(t) ~> Recorded(t) \/ t \in lost \/ OutOfBlocks(t)

\* A transaction that is marked as reorganized is among the removed ones the
\* API reports, or about to be, unless the query between the two failed or the
\* process stopped there.
ReorgsAreReported ==
    \A t \in Burns : FoundStatus(t) = "REORGED" =>
        \/ t \in removedTxs
        \/ \E k \in Tasks : task[k].pc = "remove" /\ task[k].log.tx = t
        \/ <<t, "remove">> \in cutOff

\* A removal that was announced reaches the removed transactions, whatever the
\* handler of the burn itself has recorded by then, unless a failure takes it away.
ReorgGetsReported ==
    \A t \in Burns : (\E l \in logs : l.tx = t /\ l.removed)
                         ~> t \in removedTxs \/ \E pc \in Pc : <<t, pc>> \in cutOff

\* "On startup, gets the events between the last height recorded and the
\* current height": a restart loses no burn.
RestartLosesNothing ==
    \A t \in Burns : Mined(t) /\ minedAt[t] <= Height => Recorded(t) \/ InHand(t)

\* A burn is recorded if its evidence has not been: once.
RecordedOnce ==
    \A t \in Burns : Cardinality({i \in 1..Len(docs[t]) :
                                    docs[t][i].status = "CONFIRMED"}) <= 1

\* A burn goes to the submission queue when it is in a block, and the blocks on
\* top of that one are as many as the policy asks for its amount.
HandedBurnsAreDeep ==
    [][\A t \in handed' \ handed :
         Mined(t) /\ minedAt[t] + Confirmations(t) <= head]_vars

\* "A limit per sliding block window": the burns recorded without risks in as
\* many consecutive blocks as the window has stay within its limit.
CleanBetween(from, to) ==
    TotalSum([i \in 1..(to - from + 1) |->
                [block |-> from + i - 1, sum |-> BlockSum(docs, from + i - 1)]])

WindowRespected ==
    \A b \in 1..head : CleanBetween(b, b + WindowSize - 1) <= WindowLimit

=============================================================================
