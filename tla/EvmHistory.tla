----------------------------- MODULE EvmHistory ------------------------------
(***************************************************************************)
(* What the window of a watcher of EvmWatcher has been through: a history  *)
(* variable that every step of it updates and none reads.  It names the    *)
(* steps that use or change the window of recent blocks out of turn, so    *)
(* that what the code promises otherwise can be stated of all of its       *)
(* behaviours.                                                             *)
(***************************************************************************)
EXTENDS EvmWatcher

ASSUME TasksAssumption == IsFiniteSet(Tasks)

VARIABLE outOfTurn \* the window was once used or changed out of turn

-----------------------------------------------------------------------------
\* The handler of a block adds the burns of a gap to the window, which it replaces
\* when it is through with them.
Rebuilding ==
    \E k \in Tasks : /\ task[k].kind = "block"
                     /\ task[k].pc \in LogPc \cup {"setHeight", "sums", "setSums"}

HasEntry(b) == \E i \in DOMAIN entries : entries[i].block = b
Passed(b)   == \E i \in DOMAIN entries : entries[i].block > b

\* A burn counts after a later block was stored, after the entry of a later block,
\* or on a start, when the window is still empty.
CountsLate(k) ==
    /\ AdmitLog(k)
    /\ Clean(task[k].log.tx)
    /\ \/ dbHeight > task[k].log.block
       \/ ~ Rebuilding /\ Passed(task[k].log.block) /\ ~ HasEntry(task[k].log.block)
       \/ task[k].kind = "boot"

\* The handler of a block gets to its entry after that of a later block, or while
\* the window is being rebuilt.
StoresLate(k) ==
    /\ StoreHeight(k)
    /\ dbHeight > task[k].block \/ Passed(task[k].block) \/ Rebuilding

StoresEarlierHeight(k) == StoreBackfilled(k) /\ dbHeight > task[k].block

\* What was counted while the sums were read, or of a later block, is replaced.
ReplacesCounted(k) ==
    /\ SetSums(k)
    /\ task[k].kind = "block"
    /\ \/ task[k].sums # BlockSums(docs, task[k].block, WindowSize)
       \/ \E j \in Tasks : task[j].pc = "save" /\ task[j].clean
       \/ Passed(task[k].block)

\* A backfill that has added to the window, or that of a start, does not get to
\* rebuild it.
LeavesUnbuilt(k) == BackfillFails(k) /\ (task[k].kind = "boot" \/ task[k].pc # "getLogs")

\* A start without any stored height does not rebuild what the stop has lost.
StartsUnbuilt == Restart /\ dbHeight' = 0 /\ entries # <<>>

OutOfTurn ==
    \/ \E k \in Tasks : \/ CountsLate(k)
                        \/ StoresLate(k)
                        \/ StoresEarlierHeight(k)
                        \/ ReplacesCounted(k)
                        \/ LeavesUnbuilt(k)
    \/ StartsUnbuilt

-----------------------------------------------------------------------------
HistoryInit ==
    /\ Init
    /\ outOfTurn = FALSE

HistoryNext ==
    /\ Next
    /\ outOfTurn' = (outOfTurn \/ OutOfTurn)

HistorySpec == HistoryInit /\ [][HistoryNext]_<<vars, outOfTurn>>

-----------------------------------------------------------------------------
\* "A limit per sliding block window": the burns recorded without risks in half
\* as many consecutive blocks as the window has stay within its limit, however
\* many handlers overlap and whatever fails, until the window is once used or
\* changed out of turn.  A block has two entries when its first log comes before
\* its handler, so twice as many entries come and go as blocks.
HalfWindowRespected ==
    ~ outOfTurn =>
        \A b \in 1..head : CleanBetween(b, b + WindowSize \div 2 - 1) <= WindowLimit

=============================================================================
