-------------------------- MODULE EvmWatcher_proofs ---------------------------
(***************************************************************************)
(* Theorems about EvmWatcher, for every number of burns, calls, blocks and *)
(* failures.                                                               *)
(***************************************************************************)
EXTENDS EvmWatcher, BlockWindow_proofs

-----------------------------------------------------------------------------
(***************************************************************************)
(* Types.  A call that looks up a log has one: WatcherTypeOK is not        *)
(* inductive without what TaskOK says.                                     *)
(***************************************************************************)

\* What a call may look like.
TaskOK(this) ==
    /\ this.kind = "event" => /\ this.pc \in {"idle"} \cup LogPc
                              /\ this.todo = {}
                              /\ this.block = 0
    /\ this.pc = "idle" => this.kind = "event"
    /\ this.pc \in {"heights", "metric", "query", "height"} => this.kind = "block"
    /\ this.pc \in LogPc => this.log \in Log
    /\ this.pc \notin LogPc => this.todo = {}
    /\ \A l \in this.todo : ~ l.removed

\* The inductive form of the type invariant.
WellFormed == WatcherTypeOK /\ \A k \in Tasks : TaskOK(task[k])

\* The call k goes on as next.
Becomes(k, next) ==
    /\ next \in Task /\ TaskOK(next)
    /\ task' = [task EXCEPT ![k] = next]

\* A call that is not in progress is a call.
LEMMA IdleIsTask == IdleTask \in Task /\ TaskOK(IdleTask)
BY DEF IdleTask, Task, Pc, TaskOK, LogPc

\* The larger of two heights is one of them and not below either.
LEMMA MaxOfTwo ==
    ASSUME NEW a \in Nat, NEW b \in Nat
    PROVE  Max({a, b}) \in {a, b} /\ Max({a, b}) >= a /\ Max({a, b}) >= b
<1>1. \E x \in {a, b} : \A y \in {a, b} : x >= y
  <2>1. CASE a >= b
    BY <2>1
  <2>2. CASE b >= a
    BY <2>2
  <2> QED
    BY <2>1, <2>2
<1> QED
  BY <1>1 DEF Max

\* The next call after a log is well formed, and holds every log that was left.
LEMMA ProceedIs ==
    ASSUME NEW this \in Task, NEW todo \in SUBSET Log, \A l \in todo : ~ l.removed,
           NEW next \in Proceed(this, todo)
    PROVE  /\ next \in Task /\ TaskOK(next)
           /\ this.kind # "event" =>
                /\ next.kind = this.kind /\ next.block = this.block
                /\ next.found = this.found
                /\ next.pc \in {"lookup", "setHeight"}
                /\ next.todo \subseteq todo
                /\ next.pc = "lookup" => next.log \in todo
                /\ \A l \in todo : l \in next.todo \/ (next.pc = "lookup" /\ next.log = l)
           /\ this.kind = "event" => next = IdleTask
<1>1. CASE this.kind = "event"
  <2>1. next = IdleTask
    BY <1>1, Zenon DEF Proceed
  <2> QED
    BY <1>1, <2>1, IdleIsTask
<1>2. CASE this.kind # "event" /\ todo = {}
  <2>1. next = [this EXCEPT !.pc = "setHeight", !.todo = {}, !.log = NoLog, !.clean = FALSE]
    BY <1>2 DEF Proceed
  <2> QED
    BY <1>2, <2>1 DEF Task, Pc, TaskOK, LogPc
<1>3. CASE this.kind # "event" /\ todo # {}
  <2>1. PICK l \in todo : next = [this EXCEPT !.pc = "lookup", !.todo = todo \ {l},
                                              !.log = l, !.clean = FALSE]
    BY <1>3 DEF Proceed
  <2>2. l \in Log
    OBVIOUS
  <2>3. next \in Task
    BY <2>1, <2>2 DEF Task, Pc
  <2>4. /\ next.pc = "lookup" /\ next.log = l /\ next.todo = todo \ {l}
        /\ next.kind = this.kind /\ next.block = this.block /\ next.found = this.found
    BY <2>1 DEF Task
  <2> QED
    BY <1>3, <2>2, <2>3, <2>4 DEF Task, TaskOK, LogPc
<1> QED
  BY <1>1, <1>2, <1>3

\* What is known of the call at hand.
LEMMA TaskIs ==
    ASSUME WellFormed, NEW k \in Tasks
    PROVE  /\ task[k] \in Task /\ TaskOK(task[k])
           /\ task[k].todo \in SUBSET Log /\ \A l \in task[k].todo : ~ l.removed
           /\ task[k].pc \in LogPc => task[k].log \in Log
<1>1. task[k] \in Task /\ TaskOK(task[k])
  BY DEF WellFormed, WatcherTypeOK
<1> QED
  BY <1>1 DEF Task, TaskOK

\* The end of a log, in terms of the call that comes next.
LEMMA EndOfLogIs ==
    ASSUME WellFormed, NEW k \in Tasks, EndOfLog(k)
    PROVE  \E next \in Proceed(task[k], task[k].todo) : Becomes(k, next)
<1>1. PICK next \in Proceed(task[k], task[k].todo) : task' = [task EXCEPT ![k] = next]
  BY DEF EndOfLog
<1>2. next \in Task /\ TaskOK(next)
  BY TaskIs, ProceedIs
<1> QED
  BY <1>1, <1>2 DEF Becomes

\* One call changes: all of them are well formed.
LEMMA BecomesTasks ==
    ASSUME WellFormed, NEW k \in Tasks, NEW next, Becomes(k, next)
    PROVE  /\ task' \in [Tasks -> Task] /\ \A j \in Tasks : TaskOK(task'[j])
           /\ task'[k] = next /\ \A j \in Tasks \ {k} : task'[j] = task[j]
BY DEF WellFormed, WatcherTypeOK, Becomes

-----------------------------------------------------------------------------
\* What each action makes of the call that takes it.

\* The call goes on with the same block and the same logs.
SameCall(this, next) ==
    /\ next.kind = this.kind /\ next.block = this.block
    /\ next.log = this.log /\ next.todo = this.todo

\* The handler of a log starts.
LEMMA TakeLogIs ==
    ASSUME WellFormed, NEW k \in Tasks, TakeLog(k)
    PROVE  \E l \in logs, next \in Task :
              /\ logs' = logs \ {l}
              /\ Becomes(k, next)
              /\ next.pc = "lookup" /\ next.kind = "event" /\ next.log = l
              /\ next.todo = {} /\ next.block = 0 /\ next.found = {}
<1>1. PICK l \in logs : /\ logs' = logs \ {l}
                        /\ task' = [task EXCEPT ![k] = [IdleTask EXCEPT !.pc = "lookup", !.log = l]]
  BY DEF TakeLog
<1>2. l \in Log
  BY DEF WellFormed, WatcherTypeOK, ChainTypeOK
<1> DEFINE next == [IdleTask EXCEPT !.pc = "lookup", !.log = l]
<1>3. /\ next \in Task /\ next.pc = "lookup" /\ next.kind = "event" /\ next.log = l
      /\ next.todo = {} /\ next.block = 0 /\ next.found = {}
  <2>1. IdleTask \in Task /\ IdleTask.todo = {} /\ IdleTask.found = {}
        /\ IdleTask.block = 0 /\ IdleTask.kind = "event"
    BY IdleIsTask DEF IdleTask
  <2> QED
    BY <1>2, <2>1 DEF Task, Pc
<1>4. task' = [task EXCEPT ![k] = next]
  BY <1>1
<1> HIDE DEF next
<1>5. TaskOK(next)
  BY <1>2, <1>3 DEF TaskOK, LogPc
<1> QED
  BY <1>1, <1>3, <1>4, <1>5 DEF Becomes

\* The handler of a block starts.
LEMMA TakeBlockIs ==
    ASSUME WellFormed, NEW k \in Tasks, TakeBlock(k)
    PROVE  \E n \in blocks, next \in Task :
              /\ blocks' = blocks \ {n}
              /\ Becomes(k, next)
              /\ next.pc = "heights" /\ next.kind = "block" /\ next.block = n
              /\ next.todo = {} /\ next.found = {}
<1>1. PICK n \in blocks :
        /\ blocks' = blocks \ {n}
        /\ task' = [task EXCEPT ![k] = [IdleTask EXCEPT !.pc = "heights", !.kind = "block",
                                                        !.block = n]]
  BY DEF TakeBlock
<1>2. n \in Nat
  BY DEF WellFormed, WatcherTypeOK, ChainTypeOK
<1> DEFINE next == [IdleTask EXCEPT !.pc = "heights", !.kind = "block", !.block = n]
<1>3. /\ next \in Task /\ next.pc = "heights" /\ next.kind = "block" /\ next.block = n
      /\ next.todo = {} /\ next.found = {}
  <2>1. IdleTask \in Task /\ IdleTask.todo = {} /\ IdleTask.found = {}
        /\ IdleTask.block = 0 /\ IdleTask.kind = "event"
    BY IdleIsTask DEF IdleTask
  <2> QED
    BY <1>2, <2>1 DEF Task, Pc
<1>4. task' = [task EXCEPT ![k] = next]
  BY <1>1
<1> HIDE DEF next
<1>5. TaskOK(next)
  BY <1>3 DEF TaskOK, LogPc
<1> QED
  BY <1>1, <1>3, <1>4, <1>5 DEF Becomes

\* The amount of a burn was counted, or not; the burn is about to be recorded.
LEMMA AdmitLogIs ==
    ASSUME WellFormed, NEW k \in Tasks, AdmitLog(k)
    PROVE  \E next : /\ Becomes(k, next) /\ SameCall(task[k], next)
                     /\ next.pc = "save" /\ next.found = task[k].found
                     /\ next.clean = Clean(task[k].log.tx)
<1> DEFINE next == [task[k] EXCEPT !.pc = "save", !.clean = Clean(task[k].log.tx)]
<1>1. task[k] \in Task /\ TaskOK(task[k])
  BY TaskIs
<1>2. task[k].pc = "lookup" /\ task' = [task EXCEPT ![k] = next]
  BY DEF AdmitLog
<1>3. Clean(task[k].log.tx) \in BOOLEAN
  BY DEF Clean
<1>4. /\ next \in Task /\ next.pc = "save" /\ SameCall(task[k], next)
      /\ next.found = task[k].found /\ next.clean = Clean(task[k].log.tx)
  BY <1>1, <1>3 DEF Task, Pc, SameCall
<1> HIDE DEF next
<1>5. TaskOK(next)
  BY <1>1, <1>2, <1>4 DEF TaskOK, LogPc, SameCall
<1> QED
  BY <1>2, <1>4, <1>5 DEF Becomes

\* A removal goes on.
LEMMA RemovalIs ==
    ASSUME WellFormed, NEW k \in Tasks, TakeBack(k) \/ Revert(k)
    PROVE  \E next : /\ Becomes(k, next) /\ SameCall(task[k], next)
                     /\ next.pc = (IF task[k].pc = "lookup" THEN "revert" ELSE "remove")
                     /\ next.found = task[k].found
<1> DEFINE pc == IF task[k].pc = "lookup" THEN "revert" ELSE "remove"
           next == [task[k] EXCEPT !.pc = pc]
<1>1. task[k] \in Task /\ TaskOK(task[k])
  BY TaskIs
<1>2. task[k].pc \in {"lookup", "revert"} /\ task' = [task EXCEPT ![k] = next]
  BY DEF TakeBack, Revert
<1>3. pc \in {"revert", "remove"}
  OBVIOUS
<1> HIDE DEF pc
<1>4. next \in Task /\ next.pc = pc /\ SameCall(task[k], next) /\ next.found = task[k].found
  BY <1>1, <1>3 DEF Task, Pc, SameCall
<1> HIDE DEF next
<1>5. TaskOK(next)
  BY <1>1, <1>2, <1>3, <1>4 DEF TaskOK, LogPc, SameCall
<1> QED
  BY <1>2, <1>4, <1>5 DEF Becomes, pc

\* The logs that getLogs returns are of burns in those blocks, as they are now.
LEMMA LogsBetweenIs ==
    ASSUME WellFormed, NEW from, NEW to
    PROVE  /\ LogsBetween(from, to) \in SUBSET Log
           /\ \A l \in LogsBetween(from, to) :
                 /\ ~ l.removed /\ l.block = minedAt[l.tx] /\ Mined(l.tx) /\ l.tx \in Burns
                 /\ from <= l.block /\ l.block <= to
           /\ \A t \in Burns : Mined(t) /\ from <= minedAt[t] /\ minedAt[t] <= to =>
                 [tx |-> t, block |-> minedAt[t], removed |-> FALSE] \in LogsBetween(from, to)
<1>1. minedAt \in [Burns -> Nat]
  BY DEF WellFormed, WatcherTypeOK, ChainTypeOK
<1>2. \A t \in Burns : [tx |-> t, block |-> minedAt[t], removed |-> FALSE] \in Log
  BY <1>1 DEF Log
<1> DEFINE there == {t \in Burns : Mined(t) /\ from <= minedAt[t] /\ minedAt[t] <= to}
           logOf(t) == [tx |-> t, block |-> minedAt[t], removed |-> FALSE]
<1>3. LogsBetween(from, to) = {logOf(t) : t \in there}
  BY DEF LogsBetween
<1>4. \A t \in Burns : /\ logOf(t) \in Log /\ logOf(t).tx = t
                       /\ logOf(t).block = minedAt[t] /\ ~ logOf(t).removed
  BY <1>2
<1>5. \A t \in there : t \in Burns /\ Mined(t) /\ from <= minedAt[t] /\ minedAt[t] <= to
  OBVIOUS
<1>6. \A t \in Burns : Mined(t) /\ from <= minedAt[t] /\ minedAt[t] <= to =>
                          logOf(t) \in LogsBetween(from, to)
  BY <1>3
<1> HIDE DEF there, logOf
<1>7. \A l \in LogsBetween(from, to) : \E t \in there : l = logOf(t)
  BY <1>3
<1>8. \A l \in LogsBetween(from, to) :
        /\ l \in Log /\ ~ l.removed /\ l.block = minedAt[l.tx] /\ Mined(l.tx) /\ l.tx \in Burns
        /\ from <= l.block /\ l.block <= to
  BY <1>4, <1>5, <1>7
<1> QED
  BY <1>6, <1>8 DEF logOf

\* The call with the first of the logs that a backfill has found.
LEMMA GetLogsIs ==
    ASSUME WellFormed, NEW k \in Tasks, GetLogs(k), NEW found, found = LogsBetween(task[k].from, LastBlock(k))
    PROVE  \E next :
              /\ Becomes(k, next)
              /\ next.kind = task[k].kind /\ next.kind # "event"
              /\ next.block = LastBlock(k) /\ next.found = task[k].found
              /\ next.pc \in {"lookup", "setHeight"}
              /\ next.todo \subseteq found
              /\ next.pc = "lookup" => next.log \in found
              /\ \A l \in found : l \in next.todo \/ (next.pc = "lookup" /\ next.log = l)
<1> DEFINE this == [task[k] EXCEPT !.block = LastBlock(k)]
<1>1. task[k] \in Task /\ TaskOK(task[k]) /\ task[k].pc = "getLogs"
  BY TaskIs DEF GetLogs
<1>2. LastBlock(k) \in Nat
  BY <1>1 DEF LastBlock, WellFormed, WatcherTypeOK, ChainTypeOK, Task
<1>3. /\ this \in Task /\ this.kind = task[k].kind /\ this.found = task[k].found
      /\ this.block = LastBlock(k)
  BY <1>1, <1>2 DEF Task
<1>4. task[k].kind # "event"
  BY <1>1 DEF TaskOK, LogPc
<1>5. PICK next \in Proceed(this, found) : task' = [task EXCEPT ![k] = next]
  BY DEF GetLogs
<1>6. found \in SUBSET Log /\ \A l \in found : ~ l.removed
  BY LogsBetweenIs
<1> HIDE DEF this
<1>7. /\ next \in Task /\ TaskOK(next)
      /\ next.kind = this.kind /\ next.block = this.block /\ next.found = this.found
      /\ next.pc \in {"lookup", "setHeight"} /\ next.todo \subseteq found
      /\ next.pc = "lookup" => next.log \in found
      /\ \A l \in found : l \in next.todo \/ (next.pc = "lookup" /\ next.log = l)
  BY <1>3, <1>4, <1>5, <1>6, ProceedIs
<1> QED
  BY <1>3, <1>4, <1>5, <1>7 DEF Becomes

\* After a backfill the start is over, or the handler of the block goes on.
LEMMA AfterBackfillIs ==
    ASSUME WellFormed, NEW k \in Tasks, AfterBackfill(k),
           task[k].pc \in {"getLogs", "setHeight", "sums", "setSums"}
    PROVE  \/ task[k].kind = "boot" /\ Becomes(k, IdleTask) /\ listening' = TRUE
           \/ /\ task[k].kind = "block" /\ UNCHANGED listening
              /\ \E next : /\ Becomes(k, next) /\ next.kind = "block"
                           /\ next.block = task[k].block /\ next.found = task[k].found
                           /\ next.pc = "query" /\ next.todo = {}
<1>1. task[k] \in Task /\ TaskOK(task[k])
  BY TaskIs
<1>2. CASE task[k].kind = "boot"
  BY <1>2, IdleIsTask DEF AfterBackfill, Becomes
<1>3. CASE task[k].kind # "boot"
  <2> DEFINE next == [task[k] EXCEPT !.pc = "query", !.from = 0, !.todo = {}, !.sums = <<>>]
  <2>1. task[k].kind = "block"
    BY <1>1, <1>3 DEF Task, TaskOK, LogPc
  <2>2. task' = [task EXCEPT ![k] = next] /\ UNCHANGED listening
    BY <1>3 DEF AfterBackfill
  <2>3. <<>> \in Seq(Entry)
    OBVIOUS
  <2>4. /\ next \in Task /\ next.kind = "block" /\ next.block = task[k].block
        /\ next.found = task[k].found /\ next.pc = "query" /\ next.todo = {}
    BY <1>1, <2>1, <2>3 DEF Task, Pc
  <2> HIDE DEF next
  <2>5. TaskOK(next)
    BY <2>4 DEF TaskOK, LogPc
  <2> QED
    BY <2>1, <2>2, <2>4, <2>5 DEF Becomes
<1> QED
  BY <1>2, <1>3

\* The other steps of a backfill leave the call what it was.
LEMMA StoreBackfilledIs ==
    ASSUME WellFormed, NEW k \in Tasks, StoreBackfilled(k)
    PROVE  \E next : /\ Becomes(k, next) /\ SameCall(task[k], next)
                     /\ next.pc = "sums" /\ next.found = task[k].found
<1> DEFINE next == [task[k] EXCEPT !.pc = "sums"]
<1>1. task[k] \in Task /\ TaskOK(task[k])
  BY TaskIs
<1>2. task[k].pc = "setHeight" /\ task' = [task EXCEPT ![k] = next]
  BY DEF StoreBackfilled
<1>3. next \in Task /\ next.pc = "sums" /\ SameCall(task[k], next) /\ next.found = task[k].found
  BY <1>1 DEF Task, Pc, SameCall
<1> HIDE DEF next
<1>4. TaskOK(next)
  BY <1>1, <1>2, <1>3 DEF TaskOK, LogPc, SameCall
<1> QED
  BY <1>2, <1>3, <1>4 DEF Becomes

\* What is read of the records to rebuild the window is a window.
LEMMA ReadSumsIs ==
    ASSUME WellFormed, NEW k \in Tasks, ReadSums(k)
    PROVE  \E next : /\ Becomes(k, next) /\ SameCall(task[k], next)
                     /\ next.pc = "setSums" /\ next.found = task[k].found
                     /\ next.sums = BlockSums(docs, task[k].block, WindowSize)
<1> DEFINE sums == BlockSums(docs, task[k].block, WindowSize)
           next == [task[k] EXCEPT !.pc = "setSums", !.sums = sums]
<1>1. task[k] \in Task /\ TaskOK(task[k])
  BY TaskIs
<1>2. task[k].pc = "sums" /\ task' = [task EXCEPT ![k] = next]
  BY DEF ReadSums
<1>3. sums \in Seq(Entry)
  <2>1. \A t \in Burns : Len(docs[t]) \in Nat
    BY DEF WellFormed, WatcherTypeOK, RecordsTypeOK
  <2>2. task[k].block \in Int /\ WindowSize \in Nat
    BY <1>1, PolicyAssumption DEF Task
  <2> QED
    BY <2>1, <2>2, BlockSumsType
<1> HIDE DEF sums
<1>4. /\ next \in Task /\ next.pc = "setSums" /\ SameCall(task[k], next)
      /\ next.found = task[k].found /\ next.sums = sums
  BY <1>1, <1>3 DEF Task, Pc, SameCall
<1> HIDE DEF next
<1>5. TaskOK(next)
  BY <1>1, <1>2, <1>4 DEF TaskOK, LogPc, SameCall
<1> QED
  BY <1>2, <1>4, <1>5 DEF Becomes, sums

\* The handler of a block keeps the stored height in from.
LEMMA ReadDbHeightIs ==
    ASSUME WellFormed, NEW k \in Tasks, ReadDbHeight(k)
    PROVE  \E next : /\ Becomes(k, next) /\ SameCall(task[k], next)
                     /\ next.pc = "metric" /\ next.from = dbHeight /\ next.found = task[k].found
<1> DEFINE next == [task[k] EXCEPT !.pc = "metric", !.from = dbHeight]
<1>1. task[k] \in Task /\ TaskOK(task[k])
  BY TaskIs
<1>2. task[k].pc = "heights" /\ task' = [task EXCEPT ![k] = next]
  BY DEF ReadDbHeight
<1>3. dbHeight \in Nat
  BY DEF WellFormed, WatcherTypeOK
<1>4. /\ next \in Task /\ next.pc = "metric" /\ SameCall(task[k], next)
      /\ next.from = dbHeight /\ next.found = task[k].found
  BY <1>1, <1>3 DEF Task, Pc, SameCall
<1> HIDE DEF next
<1>5. TaskOK(next)
  BY <1>1, <1>2, <1>4 DEF TaskOK, LogPc, SameCall
<1> QED
  BY <1>2, <1>4, <1>5 DEF Becomes

\* It backfills from above both heights, or no block was skipped.
LEMMA ReadMetricHeightIs ==
    ASSUME WellFormed, NEW k \in Tasks, ReadMetricHeight(k)
    PROVE  \E height \in {task[k].from, metricHeight}, next \in Task :
              /\ height \in Nat /\ height >= task[k].from
              /\ Becomes(k, next) /\ SameCall(task[k], next) /\ next.found = task[k].found
              /\ \/ next.pc = "getLogs" /\ next.from = height + 1
                 \/ next.pc = "query" /\ task[k].block <= height + 1
<1> DEFINE height == Max({task[k].from, metricHeight})
           first == height + 1
           range == [task[k] EXCEPT !.pc = "getLogs", !.from = first]
           none == [task[k] EXCEPT !.pc = "query", !.from = 0]
<1>1. task[k] \in Task /\ TaskOK(task[k]) /\ task[k].pc = "metric"
  BY TaskIs DEF ReadMetricHeight
<1>2. task[k].from \in Nat /\ metricHeight \in Nat /\ task[k].block \in Nat
  BY <1>1 DEF WellFormed, WatcherTypeOK, Task
<1>3. height \in {task[k].from, metricHeight} /\ height \in Nat /\ height >= task[k].from
  BY <1>2, MaxOfTwo
<1>4. task' = IF SkipsBlocks(task[k].block, height)
              THEN [task EXCEPT ![k] = range] ELSE [task EXCEPT ![k] = none]
  BY DEF ReadMetricHeight, RpcBlockHeight
<1> HIDE DEF height
<1>10. first \in Nat
  BY <1>3
<1> HIDE DEF first
<1>5. /\ range \in Task /\ range.pc = "getLogs" /\ SameCall(task[k], range)
      /\ range.from = first /\ range.found = task[k].found
  BY <1>1, <1>10 DEF Task, Pc, SameCall
<1>6. /\ none \in Task /\ none.pc = "query" /\ SameCall(task[k], none)
      /\ none.found = task[k].found
  BY <1>1 DEF Task, Pc, SameCall
<1> HIDE DEF range, none
<1>7. TaskOK(range) /\ TaskOK(none)
  BY <1>1, <1>5, <1>6 DEF TaskOK, LogPc, SameCall
<1>8. CASE SkipsBlocks(task[k].block, height)
  BY <1>3, <1>4, <1>5, <1>7, <1>8 DEF Becomes, first
<1>9. CASE ~ SkipsBlocks(task[k].block, height)
  <2>1. task[k].block <= height + 1
    BY <1>2, <1>3, <1>9 DEF SkipsBlocks
  <2> QED
    BY <1>3, <1>4, <1>6, <1>7, <1>9, <2>1 DEF Becomes
<1> QED
  BY <1>8, <1>9

\* What the query returns is deep enough for the block at hand.
LEMMA QueryToBeSentIs ==
    ASSUME WellFormed, NEW k \in Tasks, QueryToBeSent(k)
    PROVE  \E next : /\ Becomes(k, next) /\ SameCall(task[k], next)
                     /\ next.pc = "height" /\ next.found \subseteq ToBeSent(task[k].block)
<1>1. task[k] \in Task /\ TaskOK(task[k]) /\ task[k].pc = "query"
  BY TaskIs DEF QueryToBeSent
<1>2. PICK submitted \in SUBSET handed :
        task' = [task EXCEPT ![k].pc = "height",
                             ![k].found = ToBeSent(task[k].block) \ submitted]
  BY DEF QueryToBeSent
<1> DEFINE found == ToBeSent(task[k].block) \ submitted
           next == [task[k] EXCEPT !.pc = "height", !.found = found]
<1>3. found \subseteq Burns /\ found \subseteq ToBeSent(task[k].block)
  BY DEF ToBeSent
<1>4. task' = [task EXCEPT ![k] = next]
  BY <1>2
<1> HIDE DEF found
<1>5. /\ next \in Task /\ next.pc = "height" /\ SameCall(task[k], next) /\ next.found = found
  BY <1>1, <1>3 DEF Task, Pc, SameCall
<1> HIDE DEF next
<1>6. TaskOK(next)
  BY <1>1, <1>5 DEF TaskOK, LogPc, SameCall
<1> QED
  BY <1>3, <1>4, <1>5, <1>6 DEF Becomes

-----------------------------------------------------------------------------
\* The records keep their types.

\* A document is added to the records of a hash.
LEMMA AddTransactionType ==
    ASSUME RecordsTypeOK, NEW t \in Burns, NEW doc \in Doc, AddTransaction(t, doc)
    PROVE  /\ docs' \in [Burns -> Seq(Doc)]
           /\ docs'[t] = Append(docs[t], doc) /\ docs'[t] # <<>>
           /\ docs[t] # <<>> => docs'[t][1] = docs[t][1]
           /\ docs[t] = <<>> => docs'[t][1] = doc
           /\ \A u \in Burns \ {t} : docs'[u] = docs[u]
<1>1. docs[t] \in Seq(Doc)
  BY DEF RecordsTypeOK
<1>2. /\ Append(docs[t], doc) \in Seq(Doc) /\ Append(docs[t], doc) # <<>>
      /\ docs[t] # <<>> => Append(docs[t], doc)[1] = docs[t][1]
      /\ docs[t] = <<>> => Append(docs[t], doc)[1] = doc
  BY <1>1
<1> QED
  BY <1>2 DEF RecordsTypeOK, AddTransaction

\* Marking a transaction leaves every document but the oldest of the hash alone,
\* and of that one all but the status.
LEMMA MarkReorgedType ==
    ASSUME RecordsTypeOK, NEW t \in Burns, MarkReorged(t)
    PROVE  /\ docs' \in [Burns -> Seq(Doc)]
           /\ \A u \in Burns : docs'[u] = <<>> <=> docs[u] = <<>>
           /\ \A u \in Burns \ {t} : docs'[u] = docs[u]
           /\ Len(docs'[t]) = Len(docs[t])
           /\ \A i \in 1..Len(docs[t]) : docs'[t][i].block = docs[t][i].block
<1>1. docs \in [Burns -> Seq(Doc)] /\ docs[t] \in Seq(Doc)
  BY DEF RecordsTypeOK
<1>2. CASE docs[t] = <<>>
  BY <1>1, <1>2 DEF MarkReorged, Recorded
<1>3. CASE docs[t] # <<>>
  <2> DEFINE marked == [docs[t] EXCEPT ![1].status = "REORGED"]
  <2>1. docs' = [docs EXCEPT ![t] = marked]
    BY <1>1, <1>3 DEF MarkReorged, Recorded
  <2>2. /\ Len(docs[t]) \in Nat /\ 1 \in 1..Len(docs[t])
        /\ \A i \in 1..Len(docs[t]) : docs[t][i] \in Doc
        /\ docs[t] \in [1..Len(docs[t]) -> Doc]
    BY <1>1, <1>3
  <2>3. [docs[t][1] EXCEPT !.status = "REORGED"] \in Doc
    BY <2>2 DEF Doc
  <2>4. marked = [docs[t] EXCEPT ![1] = [docs[t][1] EXCEPT !.status = "REORGED"]]
    BY <2>2
  <2>5. /\ marked \in [1..Len(docs[t]) -> Doc]
        /\ \A i \in 1..Len(docs[t]) : marked[i].block = docs[t][i].block
    <3>1. [docs[t][1] EXCEPT !.status = "REORGED"].block = docs[t][1].block
      BY <2>2 DEF Doc
    <3> QED
      BY <2>2, <2>3, <2>4, <3>1
  <2> HIDE DEF marked
  <2>6. marked \in Seq(Doc) /\ Len(marked) = Len(docs[t]) /\ marked # <<>>
    BY <2>2, <2>5
  <2> QED
    BY <1>1, <1>3, <2>1, <2>5, <2>6
<1> QED
  BY <1>2, <1>3

\* The window takes the amount of a log that is admitted.
LEMMA AdmitType ==
    ASSUME RecordsTypeOK, NEW log \in Log, Admit(log)
    PROVE  entries' \in Seq(Entry)
<1>1. log.block \in Int /\ Amount[log.tx] \in Nat /\ entries \in Seq(Entry)
  BY AmountAssumption DEF Log, RecordsTypeOK
<1> QED
  BY <1>1, IncrementCounts DEF Admit

\* A log that is admitted without risks adds its amount to the window once, and
\* the window stays within the limit; any other leaves the window alone.
THEOREM AdmitCounts ==
    ASSUME RecordsTypeOK, NEW log \in Log, Admit(log)
    PROVE  IF Clean(log.tx)
           THEN /\ TotalSum(entries') = TotalSum(entries) + Amount[log.tx]
                /\ TotalSum(entries') <= WindowLimit
           ELSE entries' = entries
<1>1. /\ log.block \in Int /\ Amount[log.tx] \in Nat /\ entries \in Seq(Entry)
      /\ TotalSum(entries) \in Nat /\ WindowLimit \in Nat
  <2>1. entries \in Seq(Entry)
    BY DEF RecordsTypeOK
  <2>2. TotalSum(entries) \in Nat
    BY <2>1, TotalType
  <2> QED
    BY <2>1, <2>2, AmountAssumption, PolicyAssumption DEF Log
<1>2. CASE Clean(log.tx)
  <2>1. TotalSum(entries') = TotalSum(entries) + Amount[log.tx]
    <3>1. entries' = IncrementOrCreate(entries, log.block, Amount[log.tx])
      BY <1>2 DEF Admit
    <3>2. TotalSum(IncrementOrCreate(entries, log.block, Amount[log.tx]))
            = TotalSum(entries) + Amount[log.tx]
      BY <1>1, IncrementCounts
    <3> QED
      BY <3>1, <3>2
  <2>2. Amount[log.tx] <= WindowLimit - TotalSum(entries)
    BY <1>2 DEF Clean
  <2> QED
    BY <1>1, <1>2, <2>1, <2>2
<1>3. CASE ~ Clean(log.tx)
  BY <1>3 DEF Admit
<1> QED
  BY <1>2, <1>3

\* Steps of one log, of a start of a handler, of a backfill, of the handler of a
\* block, and of the connection and the process keep what WatcherTypeOK and TaskOK say.
LEMMA LogStepWellFormed ==
    ASSUME WellFormed, NEW k \in Tasks, LogStep(k)
    PROVE  WellFormed' /\ \E next : Becomes(k, next)
<1> DEFINE log == task[k].log
<1>1. RecordsTypeOK
  BY DEF WellFormed, WatcherTypeOK
<1>2. task[k].pc \in LogPc => log \in Log /\ log.tx \in Burns /\ log.block \in Nat
  BY TaskIs DEF Log
<1>3. /\ ChainTypeOK /\ dbHeight \in Nat /\ metricHeight \in Nat
      /\ handed \in SUBSET Burns /\ lost \in SUBSET Burns
  BY DEF WellFormed, WatcherTypeOK
<1>4. UNCHANGED <<chainVars, noticeVars, listening, dbHeight, metricHeight, handed>>
  BY DEF LogStep, IgnoreLog, AdmitLog, SaveLog, TakeBack, Revert, RecordRemoved, LogFails,
         UnchangedByLog, heightVars
<1>5. SUFFICES /\ RecordsTypeOK' /\ faults' \in Nat /\ lost' \in SUBSET Burns
               /\ \E next : Becomes(k, next)
  <2> SUFFICES ASSUME RecordsTypeOK', faults' \in Nat, lost' \in SUBSET Burns,
                      NEW next, Becomes(k, next)
               PROVE  WellFormed'
    BY <1>5
  <2>1. ChainTypeOK'
    BY <1>3, <1>4 DEF ChainTypeOK, chainVars, noticeVars
  <2> QED
    BY <1>3, <1>4, <2>1, BecomesTasks DEF WellFormed, WatcherTypeOK
<1>6. faults \in Nat
  BY <1>3 DEF ChainTypeOK
<1>7. CASE IgnoreLog(k)
  BY <1>1, <1>3, <1>6, <1>7, EndOfLogIs DEF IgnoreLog, recordVars, RecordsTypeOK
<1>8. CASE AdmitLog(k)
  <2>1. entries' \in Seq(Entry) /\ UNCHANGED <<docs, removedTxs, faults, lost>>
    BY <1>1, <1>2, <1>8, AdmitType DEF AdmitLog, LogPc
  <2>2. \E next : Becomes(k, next)
    BY <1>8, AdmitLogIs
  <2> QED
    BY <1>1, <1>3, <1>6, <2>1, <2>2 DEF RecordsTypeOK
<1>9. CASE SaveLog(k)
  <2> DEFINE doc == [status |-> "CONFIRMED", block |-> log.block, clean |-> task[k].clean]
  <2>1. /\ task[k].pc = "save" /\ AddTransaction(log.tx, doc) /\ EndOfLog(k)
        /\ UNCHANGED <<removedTxs, entries, faults, lost>>
    BY <1>9 DEF SaveLog
  <2>2. task[k].clean \in BOOLEAN
    BY TaskIs DEF Task
  <2>3. doc \in Doc /\ log.tx \in Burns
    BY <1>2, <2>1, <2>2 DEF Doc, LogPc
  <2>4. docs' \in [Burns -> Seq(Doc)]
    BY <1>1, <2>1, <2>3, AddTransactionType
  <2> QED
    BY <1>1, <1>3, <1>6, <2>1, <2>4, EndOfLogIs DEF RecordsTypeOK
<1>10. CASE TakeBack(k)
  <2>1. \E next : Becomes(k, next)
    BY <1>10, RemovalIs
  <2> QED
    BY <1>1, <1>3, <1>6, <1>10, <2>1 DEF TakeBack, recordVars, RecordsTypeOK
<1>11. CASE Revert(k)
  <2>1. /\ task[k].pc = "revert" /\ MarkReorged(log.tx)
        /\ UNCHANGED <<removedTxs, entries, faults, lost>>
    BY <1>11 DEF Revert
  <2>2. docs' \in [Burns -> Seq(Doc)]
    BY <1>1, <1>2, <2>1, MarkReorgedType DEF LogPc
  <2>3. \E next : Becomes(k, next)
    BY <1>11, RemovalIs
  <2> QED
    BY <1>1, <1>3, <1>6, <2>1, <2>2, <2>3 DEF RecordsTypeOK
<1>12. CASE RecordRemoved(k)
  <2>1. /\ task[k].pc = "remove" /\ AddRemovedTX(log.tx) /\ EndOfLog(k)
        /\ UNCHANGED <<docs, entries, faults, lost>>
    BY <1>12 DEF RecordRemoved
  <2>2. log.tx \in Burns
    BY <1>2, <2>1 DEF LogPc
  <2> QED
    BY <1>1, <1>3, <1>6, <2>1, <2>2, EndOfLogIs DEF RecordsTypeOK, AddRemovedTX
<1>13. CASE LogFails(k)
  <2>1. /\ task[k].pc \in LogPc /\ faults' = faults + 1 /\ EndOfLog(k) /\ UNCHANGED recordVars
        /\ lost' \subseteq lost \cup {log.tx}
    BY <1>13 DEF LogFails, LogPc, Fault
  <2>2. log.tx \in Burns
    BY <1>2, <2>1
  <2> QED
    BY <1>1, <1>3, <1>6, <2>1, <2>2, EndOfLogIs DEF RecordsTypeOK, recordVars
<1> QED
  BY <1>7, <1>8, <1>9, <1>10, <1>11, <1>12, <1>13 DEF LogStep

\* The records of a call that neither reads nor writes them.
LEMMA CallWellFormed ==
    ASSUME WellFormed, NEW k \in Tasks, NEW next, Becomes(k, next), ChainTypeOK', RecordsTypeOK',
           dbHeight' \in Nat, metricHeight' \in Nat, handed' \in SUBSET Burns, lost' \in SUBSET Burns
    PROVE  WellFormed'
BY BecomesTasks DEF WellFormed, WatcherTypeOK

\* A handler that starts is well formed.
LEMMA TakeWellFormed ==
    ASSUME WellFormed, NEW k \in Tasks, TakeLog(k) \/ TakeBlock(k)
    PROVE  WellFormed'
<1>1. /\ UNCHANGED <<docs, removedTxs, entries, head, minedAt, listening, faults,
                     dbHeight, metricHeight, handed, lost>>
      /\ \E next : Becomes(k, next)
      /\ blocks' \subseteq blocks /\ logs' \subseteq logs
  <2>1. CASE TakeLog(k)
    <3>1. \E l \in logs, next \in Task : logs' = logs \ {l} /\ Becomes(k, next)
      BY <2>1, TakeLogIs
    <3> QED
      BY <2>1, <3>1 DEF TakeLog, recordVars, chainVars, heightVars
  <2>2. CASE TakeBlock(k)
    <3>1. \E n \in blocks, next \in Task : blocks' = blocks \ {n} /\ Becomes(k, next)
      BY <2>2, TakeBlockIs
    <3> QED
      BY <2>2, <3>1 DEF TakeBlock, recordVars, chainVars, heightVars
  <2> QED
    BY <2>1, <2>2
<1>2. ChainTypeOK' /\ RecordsTypeOK'
  BY <1>1 DEF WellFormed, WatcherTypeOK, ChainTypeOK, RecordsTypeOK
<1> QED
  BY <1>1, <1>2, CallWellFormed DEF WellFormed, WatcherTypeOK

\* A step of a backfill keeps every type; the sums it installs are a window.
LEMMA BackfillStepWellFormed ==
    ASSUME WellFormed, NEW k \in Tasks, BackfillStep(k)
    PROVE  WellFormed' /\ \E next : Becomes(k, next)
<1>1. /\ RecordsTypeOK /\ ChainTypeOK /\ dbHeight \in Nat /\ metricHeight \in Nat
      /\ handed \in SUBSET Burns /\ lost \in SUBSET Burns
      /\ task[k] \in Task
  BY TaskIs DEF WellFormed, WatcherTypeOK
<1>2. CASE GetLogs(k)
  <2>1. UNCHANGED <<recordVars, chainVars, noticeVars, listening, faults, heightVars, handed, lost>>
    BY <1>2 DEF GetLogs
  <2>2. PICK next : Becomes(k, next)
    BY <1>2, GetLogsIs
  <2> QED
    BY <1>1, <2>1, <2>2, CallWellFormed
       DEF recordVars, chainVars, noticeVars, heightVars, RecordsTypeOK, ChainTypeOK
<1>3. CASE StoreBackfilled(k)
  <2>1. /\ UNCHANGED <<recordVars, chainVars, noticeVars, listening, faults, metricHeight,
                       handed, lost>>
        /\ dbHeight' = task[k].block
    BY <1>3 DEF StoreBackfilled
  <2>2. PICK next : Becomes(k, next)
    BY <1>3, StoreBackfilledIs
  <2>3. dbHeight' \in Nat
    BY <1>1, <2>1 DEF Task
  <2> QED
    BY <1>1, <2>1, <2>2, <2>3, CallWellFormed
       DEF recordVars, chainVars, noticeVars, RecordsTypeOK, ChainTypeOK
<1>4. CASE ReadSums(k)
  <2>1. UNCHANGED <<recordVars, chainVars, noticeVars, listening, faults, heightVars, handed, lost>>
    BY <1>4 DEF ReadSums
  <2>2. PICK next : Becomes(k, next)
    BY <1>4, ReadSumsIs
  <2> QED
    BY <1>1, <2>1, <2>2, CallWellFormed
       DEF recordVars, chainVars, noticeVars, heightVars, RecordsTypeOK, ChainTypeOK
<1>5. CASE SetSums(k)
  <2>1. /\ UNCHANGED <<docs, removedTxs, chainVars, noticeVars, faults, heightVars, handed, lost>>
        /\ entries' = task[k].sums /\ AfterBackfill(k) /\ task[k].pc = "setSums"
    BY <1>5 DEF SetSums
  <2>2. (\E next : Becomes(k, next)) /\ listening' \in BOOLEAN
    BY <1>1, <2>1, AfterBackfillIs DEF ChainTypeOK
  <2>3. entries' \in Seq(Entry)
    BY <1>1, <2>1 DEF Task
  <2> QED
    BY <1>1, <2>1, <2>2, <2>3, CallWellFormed
       DEF chainVars, noticeVars, heightVars, RecordsTypeOK, ChainTypeOK
<1>6. CASE BackfillFails(k)
  <2>1. /\ UNCHANGED <<recordVars, chainVars, noticeVars, heightVars, handed>>
        /\ faults' = faults + 1 /\ AfterBackfill(k)
        /\ task[k].pc \in {"getLogs", "setHeight", "sums"}
    BY <1>6 DEF BackfillFails, Fault
  <2>2. lost' \in SUBSET Burns
    BY <1>1, <1>6 DEF BackfillFails
  <2>3. (\E next : Becomes(k, next)) /\ listening' \in BOOLEAN
    BY <1>1, <2>1, AfterBackfillIs DEF ChainTypeOK
  <2>4. faults' \in Nat
    BY <1>1, <2>1 DEF ChainTypeOK
  <2> QED
    BY <1>1, <2>1, <2>2, <2>3, <2>4, CallWellFormed
       DEF recordVars, chainVars, noticeVars, heightVars, RecordsTypeOK, ChainTypeOK
<1> QED
  BY <1>2, <1>3, <1>4, <1>5, <1>6 DEF BackfillStep

\* A step of the handler of a block keeps every type.
LEMMA BlockStepWellFormed ==
    ASSUME WellFormed, NEW k \in Tasks, BlockStep(k)
    PROVE  WellFormed' /\ \E next : Becomes(k, next)
<1>1. /\ RecordsTypeOK /\ ChainTypeOK /\ dbHeight \in Nat /\ metricHeight \in Nat
      /\ handed \in SUBSET Burns /\ lost \in SUBSET Burns
      /\ task[k] \in Task
  BY TaskIs DEF WellFormed, WatcherTypeOK
<1>2. CASE ReadDbHeight(k) \/ ReadMetricHeight(k)
  <2>1. UNCHANGED <<recordVars, chainVars, noticeVars, listening, faults, heightVars, handed, lost>>
    BY <1>2 DEF ReadDbHeight, ReadMetricHeight
  <2>2. PICK next : Becomes(k, next)
    BY <1>2, ReadDbHeightIs, ReadMetricHeightIs
  <2> QED
    BY <1>1, <2>1, <2>2, CallWellFormed
       DEF recordVars, chainVars, noticeVars, heightVars, RecordsTypeOK, ChainTypeOK
<1>3. CASE QueryToBeSent(k)
  <2>1. /\ UNCHANGED <<recordVars, chainVars, noticeVars, listening, faults, dbHeight, handed, lost>>
        /\ metricHeight' = task[k].block
    BY <1>3 DEF QueryToBeSent, SetRpcBlockHeight
  <2>2. PICK next : Becomes(k, next)
    BY <1>3, QueryToBeSentIs
  <2>3. metricHeight' \in Nat
    BY <1>1, <2>1 DEF Task
  <2> QED
    BY <1>1, <2>1, <2>2, <2>3, CallWellFormed
       DEF recordVars, chainVars, noticeVars, RecordsTypeOK, ChainTypeOK
<1>4. CASE StoreHeight(k)
  <2>1. /\ UNCHANGED <<docs, removedTxs, chainVars, noticeVars, listening, faults, metricHeight, lost>>
        /\ dbHeight' = task[k].block /\ handed' = handed \cup task[k].found
        /\ entries' = AddEntry(entries, task[k].block, WindowSize)
        /\ Becomes(k, IdleTask)
    BY <1>4, IdleIsTask DEF StoreHeight, Becomes
  <2>2. task[k].block \in Nat /\ task[k].found \subseteq Burns
    BY <1>1 DEF Task
  <2>3. entries' \in Seq(Entry)
    BY <1>1, <2>1, <2>2, PolicyAssumption, NewBlockForgetsOldest DEF RecordsTypeOK
  <2> QED
    BY <1>1, <2>1, <2>2, <2>3, CallWellFormed
       DEF chainVars, noticeVars, RecordsTypeOK, ChainTypeOK
<1>5. CASE BlockFails(k)
  <2>1. /\ UNCHANGED <<recordVars, chainVars, noticeVars, listening, heightVars, handed, lost>>
        /\ faults' = faults + 1 /\ Becomes(k, IdleTask)
    BY <1>5, IdleIsTask DEF BlockFails, Fault, Becomes
  <2>2. faults' \in Nat
    BY <1>1, <2>1 DEF ChainTypeOK
  <2> QED
    BY <1>1, <2>1, <2>2, CallWellFormed
       DEF recordVars, chainVars, noticeVars, heightVars, RecordsTypeOK, ChainTypeOK
<1> QED
  BY <1>2, <1>3, <1>4, <1>5 DEF BlockStep

\* The chain stays a chain.
LEMMA ChainStepWellFormed ==
    ASSUME WellFormed, ChainStep
    PROVE  WellFormed'
<1>1. ChainTypeOK /\ UNCHANGED <<recordVars, heightVars, task, handed, lost>>
  BY DEF WellFormed, WatcherTypeOK, ChainStep
<1>2. ChainTypeOK'
  <2>1. CASE NewBlock
    <3>1. PICK new \in SUBSET {t \in Burns : ~ Mined(t)} :
            /\ Mine(new)
            /\ \/ Announce(new) /\ UNCHANGED faults
               \/ UNCHANGED <<noticeVars, faults>>
               \/ Fault("skip") /\ UNCHANGED noticeVars
            /\ UNCHANGED listening
      BY <2>1 DEF NewBlock
    <3>2. head' \in Nat /\ minedAt' \in [Burns -> Nat]
      BY <1>1, <3>1 DEF ChainTypeOK, Mine
    <3>3. faults' \in Nat /\ listening' \in BOOLEAN
      BY <1>1, <3>1 DEF ChainTypeOK, Fault
    <3>4. blocks' \in SUBSET Nat /\ logs' \in SUBSET Log
      <4>1. \A t \in new : [tx |-> t, block |-> head + 1, removed |-> FALSE] \in Log
        BY <1>1 DEF ChainTypeOK, Log
      <4> DEFINE mined == {[tx |-> t, block |-> head + 1, removed |-> FALSE] : t \in new}
      <4>2. mined \subseteq Log
        BY <4>1
      <4>3. \/ blocks' = blocks \cup {head + 1} /\ logs' = logs \cup mined
            \/ blocks' = blocks /\ logs' = logs
        BY <3>1 DEF Announce, noticeVars
      <4> HIDE DEF mined
      <4>4. head + 1 \in Nat /\ blocks \in SUBSET Nat /\ logs \in SUBSET Log
        BY <1>1 DEF ChainTypeOK
      <4> QED
        BY <4>2, <4>3, <4>4
    <3> QED
      BY <3>2, <3>3, <3>4 DEF ChainTypeOK
  <2>2. ASSUME NEW t \in Burns, Reorg(t)
        PROVE  ChainTypeOK'
    <3>1. [tx |-> t, block |-> minedAt[t], removed |-> TRUE] \in Log
      BY <1>1 DEF ChainTypeOK, Log
    <3>2. logs' \in SUBSET Log
      BY <1>1, <2>2, <3>1 DEF ChainTypeOK, Reorg
    <3>3. faults' \in Nat /\ minedAt' \in [Burns -> Nat] /\ UNCHANGED <<head, listening, blocks>>
      BY <1>1, <2>2 DEF ChainTypeOK, Reorg, Fault
    <3> QED
      BY <1>1, <3>2, <3>3 DEF ChainTypeOK
  <2> QED
    BY <2>1, <2>2 DEF ChainStep
<1> QED
  BY <1>1, <1>2 DEF WellFormed, WatcherTypeOK, RecordsTypeOK, recordVars, heightVars

\* Reconnections, stops and blocks of the chain keep every type.
LEMMA ConnectionWellFormed ==
    ASSUME WellFormed, Disconnect \/ Reconnect
    PROVE  WellFormed'
<1>1. RecordsTypeOK /\ ChainTypeOK
  BY DEF WellFormed, WatcherTypeOK
<1>2. CASE Disconnect
  <2>1. /\ listening' = FALSE /\ blocks' = {} /\ logs' = {} /\ faults' = faults + 1
        /\ lost' \subseteq lost \cup {l.tx : l \in logs}
        /\ UNCHANGED <<recordVars, chainVars, heightVars, task, handed>>
    BY <1>2 DEF Disconnect, Fault
  <2>2. lost' \in SUBSET Burns
    BY <1>1, <2>1 DEF WellFormed, WatcherTypeOK, ChainTypeOK, Log
  <2>3. ChainTypeOK'
    <3>1. faults' \in Nat /\ head' = head /\ minedAt' = minedAt
      BY <1>1, <2>1 DEF ChainTypeOK, chainVars
    <3> QED
      BY <1>1, <2>1, <3>1 DEF ChainTypeOK
  <2> QED
    BY <2>1, <2>2, <2>3 DEF WellFormed, WatcherTypeOK, RecordsTypeOK, recordVars, heightVars
<1>3. CASE Reconnect
  <2>1. /\ entries' = IncrementOrCreate(entries, head, TotalSum(BlockSums(docs, head, WindowSize)))
        /\ listening' = TRUE
        /\ UNCHANGED <<docs, removedTxs, chainVars, noticeVars, faults, heightVars, task, handed, lost>>
    BY <1>3 DEF Reconnect
  <2>2. BlockSums(docs, head, WindowSize) \in Seq(Entry)
    <3>1. \A t \in Burns : Len(docs[t]) \in Nat
      BY <1>1 DEF RecordsTypeOK
    <3>2. head \in Int /\ WindowSize \in Nat
      BY <1>1, PolicyAssumption DEF ChainTypeOK
    <3> QED
      BY <3>1, <3>2, BlockSumsType
  <2>3. TotalSum(BlockSums(docs, head, WindowSize)) \in Nat
    BY <2>2, TotalType
  <2>4. entries' \in Seq(Entry)
    BY <1>1, <2>1, <2>3, IncrementCounts DEF RecordsTypeOK, ChainTypeOK
  <2> QED
    BY <1>1, <2>1, <2>4
       DEF WellFormed, WatcherTypeOK, RecordsTypeOK, ChainTypeOK, chainVars, noticeVars, heightVars
<1> QED
  BY <1>2, <1>3

\* After a start there is no call, or the backfill of the start alone.
LEMMA RestartIs ==
    ASSUME WellFormed, Restart
    PROVE  /\ dbHeight' \in {dbHeight, metricHeight}
           /\ \/ dbHeight' = 0 /\ \A j \in Tasks : task'[j] = IdleTask
              \/ /\ dbHeight' # 0 /\ listening' = FALSE
                 /\ \E k \in Tasks :
                       /\ task'[k].pc = "getLogs" /\ task'[k].kind = "boot"
                       /\ task'[k].from = dbHeight' /\ task'[k].block = 0
                       /\ task'[k].found = {}
                       /\ \A j \in Tasks \ {k} : task'[j] = IdleTask
           /\ WellFormed'
<1>1. /\ dbHeight \in Nat /\ metricHeight \in Nat /\ RecordsTypeOK /\ ChainTypeOK
      /\ lost \in SUBSET Burns
  BY DEF WellFormed, WatcherTypeOK
<1>2. dbHeight' \in {dbHeight, metricHeight} /\ dbHeight' \in Nat
  BY <1>1 DEF Restart
<1>3. /\ task' \in [Tasks -> Task] /\ \A j \in Tasks : TaskOK(task'[j])
      /\ listening' \in BOOLEAN
      /\ \/ dbHeight' = 0 /\ \A j \in Tasks : task'[j] = IdleTask
         \/ /\ dbHeight' # 0 /\ listening' = FALSE
            /\ \E k \in Tasks :
                  /\ task'[k].pc = "getLogs" /\ task'[k].kind = "boot"
                  /\ task'[k].from = dbHeight' /\ task'[k].block = 0
                  /\ task'[k].found = {}
                  /\ \A j \in Tasks \ {k} : task'[j] = IdleTask
  <2>1. CASE dbHeight' = 0
    BY <2>1, IdleIsTask DEF Restart
  <2>2. CASE dbHeight' # 0
    <3> DEFINE boot == [IdleTask EXCEPT !.pc = "getLogs", !.kind = "boot", !.from = dbHeight']
    <3>1. PICK k \in Tasks : task' = [j \in Tasks |-> IF j # k THEN IdleTask ELSE boot]
      BY <2>2 DEF Restart
    <3>2. /\ boot \in Task /\ boot.pc = "getLogs" /\ boot.kind = "boot"
          /\ boot.from = dbHeight' /\ boot.block = 0 /\ boot.todo = {} /\ boot.found = {}
      <4>1. IdleTask \in Task /\ IdleTask.block = 0 /\ IdleTask.todo = {} /\ IdleTask.found = {}
        BY IdleIsTask DEF IdleTask
      <4> QED
        BY <1>2, <4>1 DEF Task, Pc
    <3> HIDE DEF boot
    <3>3. TaskOK(boot)
      BY <3>2 DEF TaskOK, LogPc
    <3>4. /\ task' \in [Tasks -> Task] /\ \A j \in Tasks : TaskOK(task'[j])
          /\ task'[k] = boot /\ \A j \in Tasks \ {k} : task'[j] = IdleTask
      BY <3>1, <3>2, <3>3, IdleIsTask
    <3>5. listening' = FALSE
      BY <2>2 DEF Restart
    <3> QED
      BY <2>2, <3>2, <3>4, <3>5
  <2> QED
    BY <2>1, <2>2
<1>4. /\ faults' = faults + 1 /\ entries' = <<>> /\ blocks' = {} /\ logs' = {} /\ metricHeight' = 0
      /\ UNCHANGED <<docs, removedTxs, chainVars, handed>>
  BY DEF Restart, Fault
<1>5. lost' \in SUBSET Burns
  BY <1>1 DEF Restart
<1>6. RecordsTypeOK' /\ ChainTypeOK'
  BY <1>1, <1>3, <1>4 DEF RecordsTypeOK, ChainTypeOK, chainVars
<1> QED
  BY <1>2, <1>3, <1>4, <1>5, <1>6 DEF WellFormed, WatcherTypeOK

\* The first state is well formed.
LEMMA InitWellFormed == Init => WellFormed
<1> SUFFICES ASSUME Init PROVE WellFormed
  OBVIOUS
<1>1. RecordsTypeOK
  BY DEF Init, RecordsInit, RecordsTypeOK
<1>2. ChainTypeOK
  BY DEF Init, ChainInit, ChainTypeOK
<1>3. task \in [Tasks -> Task] /\ \A k \in Tasks : TaskOK(task[k])
  BY IdleIsTask DEF Init
<1> QED
  BY <1>1, <1>2, <1>3 DEF Init, WellFormed, WatcherTypeOK

\* Every step keeps the types.
LEMMA NextWellFormed == WellFormed /\ [Next]_vars => WellFormed'
<1> SUFFICES ASSUME WellFormed, [Next]_vars PROVE WellFormed'
  OBVIOUS
<1>1. CASE ChainStep
  BY <1>1, ChainStepWellFormed
<1>2. ASSUME NEW k \in Tasks,
             TakeLog(k) \/ TakeBlock(k) \/ LogStep(k) \/ BackfillStep(k) \/ BlockStep(k)
      PROVE  WellFormed'
  BY <1>2, TakeWellFormed, LogStepWellFormed, BackfillStepWellFormed, BlockStepWellFormed
<1>3. CASE Disconnect \/ Reconnect
  BY <1>3, ConnectionWellFormed
<1>4. CASE Restart
  BY <1>4, RestartIs
<1>5. CASE UNCHANGED vars
  BY <1>5 DEF vars, WellFormed, WatcherTypeOK, RecordsTypeOK, ChainTypeOK, recordVars, chainVars,
              noticeVars, heightVars
<1> QED
  BY <1>1, <1>2, <1>3, <1>4, <1>5 DEF Next

\* A removal that is cut off is one of a burn, at an await of its handler.
CutOffOK == cutOff \in SUBSET (Burns \X Pc)

\* A removal is in the hands of a call, or announced.
LEMMA RemovalsAre ==
    ASSUME WellFormed
    PROVE  /\ RemovalsAnnounced \subseteq Burns \X Pc
           /\ \A k \in Tasks : RemovalInHand(k) \subseteq Burns \X Pc
<1>1. \A l \in logs : l.tx \in Burns
  BY DEF WellFormed, WatcherTypeOK, ChainTypeOK, Log
<1>2. RemovalsAnnounced \subseteq Burns \X Pc
  BY <1>1 DEF RemovalsAnnounced, Pc
<1>3. ASSUME NEW k \in Tasks
      PROVE  RemovalInHand(k) \subseteq Burns \X Pc
  <2>1. task[k].pc \in LogPc => task[k].log.tx \in Burns
    BY TaskIs DEF WellFormed, Log
  <2> QED
    BY <2>1 DEF RemovalInHand, LogPc, Pc
<1> QED
  BY <1>2, <1>3

\* Every step keeps the removals that were cut off, and adds removals.
LEMMA NextCutOff == WellFormed /\ CutOffOK /\ [Next]_vars => CutOffOK'
<1> SUFFICES ASSUME WellFormed, CutOffOK, [Next]_vars PROVE CutOffOK'
  OBVIOUS
<1>1. ASSUME UNCHANGED cutOff PROVE CutOffOK'
  BY <1>1 DEF CutOffOK
<1>2. CASE UNCHANGED vars
  BY <1>1, <1>2 DEF vars
<1>3. CASE ChainStep \/ Reconnect
  BY <1>1, <1>3 DEF ChainStep, Reconnect
<1>4. CASE Disconnect \/ Restart
  BY <1>4, RemovalsAre DEF Disconnect, Restart, CutOffOK
<1>5. ASSUME NEW k \in Tasks,
             TakeLog(k) \/ TakeBlock(k) \/ LogStep(k) \/ BackfillStep(k) \/ BlockStep(k)
      PROVE  CutOffOK'
  <2>1. CASE LogFails(k)
    BY <2>1, RemovalsAre DEF LogFails, CutOffOK
  <2>2. CASE TakeLog(k) \/ TakeBlock(k)
    BY <1>1, <2>2 DEF TakeLog, TakeBlock
  <2>3. CASE IgnoreLog(k) \/ AdmitLog(k) \/ SaveLog(k) \/ TakeBack(k) \/ Revert(k)
             \/ RecordRemoved(k)
    BY <1>1, <2>3 DEF IgnoreLog, AdmitLog, SaveLog, TakeBack, Revert, RecordRemoved
  <2>4. CASE BackfillStep(k)
    BY <1>1, <2>4 DEF BackfillStep, GetLogs, StoreBackfilled, ReadSums, SetSums, BackfillFails
  <2>5. CASE BlockStep(k)
    BY <1>1, <2>5 DEF BlockStep, ReadDbHeight, ReadMetricHeight, QueryToBeSent, StoreHeight,
                      BlockFails
  <2> QED
    BY <1>5, <2>1, <2>2, <2>3, <2>4, <2>5 DEF LogStep
<1> QED
  BY <1>2, <1>3, <1>4, <1>5 DEF Next

\* Every variable keeps its type: the heights, the window and the records stay
\* what the code takes them for, and a call in progress is one the code makes.
THEOREM TypeCorrect == Spec => []TypeOK
<1>1. Init => WellFormed /\ CutOffOK
  BY InitWellFormed DEF Init, CutOffOK
<1>2. WellFormed /\ CutOffOK /\ [Next]_vars => (WellFormed /\ CutOffOK)'
  BY NextWellFormed, NextCutOff
<1>3. WellFormed /\ CutOffOK => TypeOK
  BY DEF WellFormed, CutOffOK, TypeOK
<1> QED
  BY <1>1, <1>2, <1>3, PTL DEF Spec

-----------------------------------------------------------------------------
(***************************************************************************)
(* Burns are covered.  Heights move back and forth, blocks are handled out *)
(* of order, and what a call will do to the heights is decided steps before *)
(* it does it.  So the invariant speaks of the blocks that the calls in    *)
(* progress are bound to pass over, and not of the heights alone.          *)
(***************************************************************************)

\* Nothing the watcher knows of lies beyond the chain.
InThePast ==
    /\ dbHeight <= head
    /\ metricHeight <= head
    /\ \A n \in blocks : n <= head
    /\ \A k \in Tasks : task[k].block <= head
    /\ \A t \in Burns : minedAt[t] <= head

\* The backfill of a start has the process to itself, and its range begins at
\* the stored height.
BootAlone ==
    \A k \in Tasks : task[k].kind = "boot" =>
        /\ ~ listening
        /\ blocks = {}
        /\ logs = {}
        /\ metricHeight = 0
        /\ \A j \in Tasks \ {k} : task[j] = IdleTask
        /\ task[k].pc = "getLogs" => task[k].from = dbHeight /\ task[k].block = 0

\* A call has in its hands a burn t that is in block m.
HeldBy(this, t, m) ==
    \/ /\ this.pc \in {"lookup", "save"}
       /\ this.log.tx = t /\ this.log.block = m /\ ~ this.log.removed
    \/ \E l \in this.todo : l.tx = t /\ l.block = m
    \/ /\ this.pc = "getLogs"
       /\ this.from <= m
       /\ this.kind = "block" => m <= this.block

\* The burn is recorded, has been taken by a failure, or is in somebody's hands,
\* with the block that it is in now.
Covered(t) ==
    \/ Recorded(t)
    \/ t \in lost
    \/ \E l \in logs : l.tx = t /\ l.block = minedAt[t] /\ ~ l.removed
    \/ \E k \in Tasks : HeldBy(task[k], t, minedAt[t])

\* A call goes on as if block m had been dealt with: the one it handles, those up
\* to the height it has read, and once it knows that no block was skipped, or has
\* the range of the skipped ones, all up to its own.
Passes(this, m) ==
    \/ this.pc = "heights" /\ m = this.block
    \/ this.pc = "metric" /\ (m = this.block \/ (m <= this.from /\ m <= this.block))
    \/ this.pc \notin {"heights", "metric"} /\ m <= this.block

\* No gap that is found later reaches back to block m.
LeftBehind(m) ==
    \/ m <= dbHeight
    \/ m <= metricHeight
    \/ m \in blocks
    \/ \E k \in Tasks : Passes(task[k], m)

\* Every burn in a block that was left behind is covered.
AllCovered == \A t \in Burns : Mined(t) /\ LeftBehind(minedAt[t]) => Covered(t)

\* Calls are well formed, handle blocks of the past, and a backfill of the start
\* is alone: what the other invariants rest on.
Settled == WellFormed /\ InThePast /\ BootAlone

\* The inductive form of BurnsAreCovered.
CoverInv == Settled /\ AllCovered

\* What a step of a log makes of its call.
LEMMA LogStepNext ==
    ASSUME WellFormed, NEW k \in Tasks, LogStep(k)
    PROVE  \E next :
              /\ Becomes(k, next)
              /\ next = IdleTask \/ (next.kind = task[k].kind /\ next.block = task[k].block)
              /\ next.pc \in {"idle", "setHeight"} \cup LogPc
              /\ next.found \subseteq task[k].found
              /\ next.todo \subseteq task[k].todo
              /\ next.pc \in LogPc => next.log \in task[k].todo \cup {task[k].log}
              /\ \A l \in task[k].todo : l \in next.todo \/ (next.pc = "lookup" /\ next.log = l)
              /\ AdmitLog(k) => next.pc = "save" /\ next.log = task[k].log
<1>1. /\ task[k] \in Task /\ TaskOK(task[k]) /\ task[k].pc \in LogPc
      /\ task[k].todo \in SUBSET Log /\ \A l \in task[k].todo : ~ l.removed
  BY TaskIs DEF LogStep, IgnoreLog, AdmitLog, SaveLog, TakeBack, Revert, RecordRemoved, LogFails,
                LogPc
<1>2. CASE AdmitLog(k)
  BY <1>1, <1>2, AdmitLogIs DEF SameCall, LogPc
<1>3. CASE (TakeBack(k) \/ Revert(k)) /\ ~ AdmitLog(k)
  BY <1>1, <1>3, RemovalIs DEF SameCall, LogPc
<1>4. CASE EndOfLog(k) /\ ~ AdmitLog(k)
  <2>1. PICK next \in Proceed(task[k], task[k].todo) : Becomes(k, next)
    BY <1>4, EndOfLogIs
  <2>2. CASE task[k].kind = "event"
    <3>1. next = IdleTask /\ IdleTask.pc = "idle" /\ IdleTask.found = {} /\ IdleTask.todo = {}
      BY <1>1, <2>2, ProceedIs DEF IdleTask
    <3>2. task[k].todo = {}
      BY <1>1, <2>2 DEF TaskOK
    <3> QED
      BY <1>4, <2>1, <3>1, <3>2 DEF LogPc
  <2>3. CASE task[k].kind # "event"
    <3>1. /\ next.kind = task[k].kind /\ next.block = task[k].block
          /\ next.found = task[k].found
          /\ next.pc \in {"lookup", "setHeight"}
          /\ next.todo \subseteq task[k].todo
          /\ next.pc = "lookup" => next.log \in task[k].todo
          /\ \A l \in task[k].todo : l \in next.todo \/ (next.pc = "lookup" /\ next.log = l)
      BY <1>1, <2>3, ProceedIs
    <3> QED
      BY <1>4, <2>1, <3>1 DEF LogPc
  <2> QED
    BY <2>2, <2>3
<1> QED
  BY <1>2, <1>3, <1>4 DEF LogStep, IgnoreLog, SaveLog, RecordRemoved, LogFails

\* Nobody else is there while a start backfills.
LEMMA NoOtherBoot ==
    ASSUME Settled, NEW k \in Tasks, task[k].pc # "idle" \/ blocks # {} \/ logs # {}
    PROVE  \A j \in Tasks \ {k} : task[j].kind # "boot"
<1> SUFFICES ASSUME NEW j \in Tasks \ {k}, task[j].kind = "boot" PROVE FALSE
  OBVIOUS
<1>1. blocks = {} /\ logs = {} /\ task[k] = IdleTask
  BY DEF Settled, BootAlone
<1> QED
  BY <1>1 DEF IdleTask

\* A step of one call.
LEMMA CallSettled ==
    ASSUME Settled, WellFormed', NEW k \in Tasks, NEW next, Becomes(k, next),
           UNCHANGED chainVars, blocks' \subseteq blocks, logs' \subseteq logs,
           task[k].pc # "idle" \/ blocks # {} \/ logs # {},
           next.block <= head, dbHeight' <= head, metricHeight' <= head,
           next.kind = "boot" => /\ task[k].kind = "boot" /\ next.pc # "getLogs"
                                 /\ UNCHANGED <<listening, metricHeight>>
    PROVE  Settled'
<1>1. task'[k] = next /\ \A j \in Tasks \ {k} : task'[j] = task[j] /\ task'[j].kind # "boot"
  BY BecomesTasks, NoOtherBoot DEF Settled
<1>2. InThePast'
  BY <1>1 DEF Settled, InThePast, chainVars
<1>3. BootAlone'
  <2> SUFFICES ASSUME NEW j \in Tasks, task'[j].kind = "boot"
               PROVE  /\ ~ listening' /\ blocks' = {} /\ logs' = {} /\ metricHeight' = 0
                      /\ \A i \in Tasks \ {j} : task'[i] = IdleTask
                      /\ task'[j].pc # "getLogs"
    BY DEF BootAlone
  <2>1. j = k /\ next.kind = "boot"
    BY <1>1
  <2> QED
    BY <1>1, <2>1 DEF Settled, BootAlone
<1> QED
  BY <1>2, <1>3 DEF Settled

\* The block or log that a handler starts with is one of the past.
LEMMA TakeSettled ==
    ASSUME Settled, NEW k \in Tasks, TakeLog(k) \/ TakeBlock(k)
    PROVE  Settled'
<1>1. WellFormed' /\ head \in Nat
  BY TakeWellFormed DEF Settled, WellFormed, WatcherTypeOK, ChainTypeOK
<1>2. CASE TakeLog(k)
  <2>1. PICK l \in logs, next \in Task : /\ logs' = logs \ {l} /\ Becomes(k, next)
                                /\ next.kind = "event" /\ next.block = 0
    BY <1>2, TakeLogIs DEF Settled
  <2>2. UNCHANGED <<chainVars, blocks, dbHeight, metricHeight>>
    BY <1>2 DEF TakeLog, heightVars
  <2> QED
    BY <1>1, <2>1, <2>2, CallSettled DEF Settled, InThePast
<1>3. CASE TakeBlock(k)
  <2>1. PICK n \in blocks, next \in Task : /\ blocks' = blocks \ {n} /\ Becomes(k, next)
                                  /\ next.kind = "block" /\ next.block = n
    BY <1>3, TakeBlockIs DEF Settled
  <2>2. UNCHANGED <<chainVars, logs, dbHeight, metricHeight>>
    BY <1>3 DEF TakeBlock, heightVars
  <2> QED
    BY <1>1, <2>1, <2>2, CallSettled DEF Settled, InThePast
<1> QED
  BY <1>2, <1>3

\* A step of one log changes no block number.
LEMMA LogStepSettled ==
    ASSUME Settled, NEW k \in Tasks, LogStep(k)
    PROVE  Settled'
<1>1. WellFormed' /\ head \in Nat
  BY LogStepWellFormed DEF Settled, WellFormed, WatcherTypeOK, ChainTypeOK
<1>2. PICK next : /\ Becomes(k, next)
                  /\ next = IdleTask \/ (next.kind = task[k].kind /\ next.block = task[k].block)
                  /\ next.pc \in {"idle", "setHeight"} \cup LogPc
  BY LogStepNext DEF Settled
<1>3. /\ UNCHANGED <<chainVars, blocks, logs, listening, dbHeight, metricHeight>>
      /\ task[k].pc # "idle"
  BY DEF LogStep, IgnoreLog, AdmitLog, SaveLog, TakeBack, Revert, RecordRemoved, LogFails,
         UnchangedByLog, heightVars, noticeVars, LogPc
<1>4. IdleTask.kind = "event" /\ IdleTask.block = 0
  BY DEF IdleTask
<1>5. /\ next.block <= head /\ dbHeight' <= head /\ metricHeight' <= head
      /\ next.kind = "boot" => task[k].kind = "boot" /\ next.pc # "getLogs"
  BY <1>1, <1>2, <1>3, <1>4 DEF Settled, InThePast, LogPc
<1> QED
  BY <1>1, <1>2, <1>3, <1>5, CallSettled

\* A backfill ends at a block of the past and stores that one.
LEMMA BackfillStepSettled ==
    ASSUME Settled, NEW k \in Tasks, BackfillStep(k)
    PROVE  Settled'
<1>1. /\ WellFormed /\ WellFormed' /\ head \in Nat
      /\ task[k].block <= head /\ dbHeight <= head /\ metricHeight <= head
  BY BackfillStepWellFormed DEF Settled, WellFormed, WatcherTypeOK, ChainTypeOK, InThePast
<1>2. /\ UNCHANGED <<chainVars, blocks, logs, metricHeight>>
      /\ task[k].pc # "idle"
  BY DEF BackfillStep, GetLogs, StoreBackfilled, ReadSums, SetSums, BackfillFails,
         heightVars, noticeVars
<1>3. CASE GetLogs(k)
  <2>1. PICK next : /\ Becomes(k, next) /\ next.kind = task[k].kind /\ next.block = LastBlock(k)
                    /\ next.pc \in {"lookup", "setHeight"}
    BY <1>1, <1>3, GetLogsIs
  <2>2. next.block <= head
    BY <1>1, <2>1 DEF LastBlock
  <2>3. UNCHANGED <<listening, dbHeight>>
    BY <1>3 DEF GetLogs, heightVars
  <2> QED
    BY <1>1, <1>2, <2>1, <2>2, <2>3, CallSettled
<1>4. CASE StoreBackfilled(k)
  <2>1. PICK next : Becomes(k, next) /\ SameCall(task[k], next) /\ next.pc = "sums"
    BY <1>1, <1>4, StoreBackfilledIs
  <2>2. dbHeight' = task[k].block /\ UNCHANGED listening
    BY <1>4 DEF StoreBackfilled
  <2> QED
    BY <1>1, <1>2, <2>1, <2>2, CallSettled DEF SameCall
<1>5. CASE ReadSums(k)
  <2>1. PICK next : Becomes(k, next) /\ SameCall(task[k], next) /\ next.pc = "setSums"
    BY <1>1, <1>5, ReadSumsIs
  <2>2. UNCHANGED <<listening, dbHeight>>
    BY <1>5 DEF ReadSums, heightVars
  <2> QED
    BY <1>1, <1>2, <2>1, <2>2, CallSettled DEF SameCall
<1>6. CASE SetSums(k) \/ BackfillFails(k)
  <2>1. AfterBackfill(k) /\ task[k].pc \in {"getLogs", "setHeight", "sums", "setSums"}
        /\ UNCHANGED dbHeight
    BY <1>6 DEF SetSums, BackfillFails, heightVars
  <2>2. IdleTask.kind = "event" /\ IdleTask.block = 0
    BY DEF IdleTask
  <2>3. PICK next : Becomes(k, next) /\ next.block <= head /\ next.kind # "boot"
    <3>1. \/ Becomes(k, IdleTask)
          \/ \E next : Becomes(k, next) /\ next.kind = "block" /\ next.block = task[k].block
      BY <1>1, <2>1, AfterBackfillIs
    <3>2. IdleTask.block <= head
      BY <1>1, <2>2
    <3> QED
      BY <1>1, <2>2, <3>1, <3>2
  <2> QED
    BY <1>1, <1>2, <2>1, <2>3, CallSettled
<1> QED
  BY <1>3, <1>4, <1>5, <1>6 DEF BackfillStep

\* The handler of a block stores a height of the past.
LEMMA BlockStepSettled ==
    ASSUME Settled, NEW k \in Tasks, BlockStep(k)
    PROVE  Settled'
<1>1. /\ WellFormed /\ WellFormed' /\ head \in Nat
      /\ task[k].block <= head /\ dbHeight <= head /\ metricHeight <= head
  BY BlockStepWellFormed DEF Settled, WellFormed, WatcherTypeOK, ChainTypeOK, InThePast
<1>2. /\ UNCHANGED <<chainVars, blocks, logs, listening>>
      /\ task[k].pc \in {"heights", "metric", "query", "height"}
      /\ dbHeight' \in {dbHeight, task[k].block}
      /\ metricHeight' \in {metricHeight, task[k].block}
  BY DEF BlockStep, ReadDbHeight, ReadMetricHeight, QueryToBeSent, SetRpcBlockHeight,
         StoreHeight, BlockFails, heightVars, noticeVars
<1>3. task[k].kind = "block"
  BY <1>1, <1>2, TaskIs DEF TaskOK
<1>4. dbHeight' <= head /\ metricHeight' <= head
  BY <1>1, <1>2
<1>5. IdleTask.kind = "event" /\ IdleTask.block = 0
  BY DEF IdleTask
<1>6. \E next : Becomes(k, next) /\ next.kind # "boot" /\ next.block <= head
  <2>1. CASE ReadDbHeight(k)
    BY <1>1, <1>3, <2>1, ReadDbHeightIs DEF SameCall
  <2>2. CASE ReadMetricHeight(k)
    BY <1>1, <1>3, <2>2, ReadMetricHeightIs DEF SameCall
  <2>3. CASE QueryToBeSent(k)
    BY <1>1, <1>3, <2>3, QueryToBeSentIs DEF SameCall
  <2>4. CASE StoreHeight(k) \/ BlockFails(k)
    <3>1. Becomes(k, IdleTask)
      BY <2>4, IdleIsTask DEF StoreHeight, BlockFails, Becomes
    <3> QED
      BY <1>1, <1>5, <3>1
  <2> QED
    BY <2>1, <2>2, <2>3, <2>4 DEF BlockStep
<1> QED
  BY <1>1, <1>2, <1>4, <1>6, CallSettled

\* The chain only grows, and announces blocks that it has.
LEMMA ChainStepSettled ==
    ASSUME Settled, ChainStep
    PROVE  Settled'
<1>1. WellFormed' /\ ChainTypeOK /\ UNCHANGED <<heightVars, task>>
  BY ChainStepWellFormed DEF Settled, WellFormed, WatcherTypeOK, ChainStep
<1>2. CASE NewBlock
  <2>1. /\ head' = head + 1
        /\ \A t \in Burns : minedAt'[t] \in {minedAt[t], head + 1}
        /\ \/ ~ listening /\ UNCHANGED noticeVars
           \/ listening /\ (blocks' = blocks \cup {head + 1} \/ UNCHANGED blocks)
        /\ UNCHANGED listening
    <3>1. minedAt \in [Burns -> Nat]
      BY <1>1 DEF ChainTypeOK
    <3> QED
      BY <1>2, <3>1 DEF NewBlock, Mine, Announce, noticeVars
  <2>2. head \in Nat /\ \A t \in Burns : minedAt[t] \in Nat
    BY <1>1 DEF ChainTypeOK
  <2>3. /\ dbHeight \in Nat /\ metricHeight \in Nat /\ blocks \subseteq Nat
        /\ \A k \in Tasks : task[k].block \in Nat
    BY TaskIs DEF Settled, WellFormed, WatcherTypeOK, ChainTypeOK, Task
  <2>4. InThePast'
    <3>1. dbHeight' <= head' /\ metricHeight' <= head' /\ \A k \in Tasks : task'[k].block <= head'
      BY <1>1, <2>1, <2>2, <2>3 DEF Settled, InThePast, heightVars
    <3>2. \A t \in Burns : minedAt'[t] <= head'
      BY <2>1, <2>2 DEF Settled, InThePast
    <3>3. \A n \in blocks' : n <= head'
      <4>1. \A n \in blocks : n <= head + 1
        BY <2>2, <2>3 DEF Settled, InThePast
      <4>2. \A n \in blocks' : n \in blocks \/ n = head + 1
        BY <2>1 DEF noticeVars
      <4> QED
        BY <2>1, <2>2, <4>1, <4>2
    <3> QED
      BY <3>1, <3>2, <3>3 DEF InThePast
  <2>5. BootAlone'
    BY <1>1, <2>1 DEF Settled, BootAlone, heightVars, noticeVars
  <2> QED
    BY <1>1, <2>4, <2>5 DEF Settled
<1>3. ASSUME NEW t \in Burns, Reorg(t)
      PROVE  Settled'
  <2>1. /\ UNCHANGED <<head, listening, blocks>>
        /\ \A u \in Burns : minedAt'[u] \in {minedAt[u], 0}
        /\ ~ listening => UNCHANGED logs
    BY <1>1, <1>3 DEF Reorg, ChainTypeOK
  <2>2. head \in Nat
    BY <1>1 DEF ChainTypeOK
  <2>3. InThePast'
    BY <1>1, <2>1, <2>2 DEF Settled, InThePast, heightVars
  <2>4. BootAlone'
    BY <1>1, <2>1 DEF Settled, BootAlone, heightVars
  <2> QED
    BY <1>1, <2>3, <2>4 DEF Settled
<1> QED
  BY <1>2, <1>3 DEF ChainStep

\* A connection that closes or opens adds no announcement.
LEMMA ConnectionSettled ==
    ASSUME Settled, Disconnect \/ Reconnect
    PROVE  Settled'
<1>1. WellFormed'
  BY ConnectionWellFormed DEF Settled
<1>2. /\ UNCHANGED <<chainVars, heightVars, task>>
      /\ \/ listening' = FALSE /\ blocks' = {} /\ logs' = {}
         \/ ~ Booting /\ UNCHANGED noticeVars
  BY DEF Disconnect, Reconnect
<1>3. InThePast'
  BY <1>2 DEF Settled, InThePast, chainVars, heightVars, noticeVars
<1>4. BootAlone'
  BY <1>2 DEF Settled, BootAlone, Booting, heightVars
<1> QED
  BY <1>1, <1>3, <1>4 DEF Settled

\* A restart keeps one of the two heights and leaves one backfill at most.
LEMMA RestartSettled ==
    ASSUME Settled, Restart
    PROVE  Settled'
<1>1. /\ WellFormed' /\ head \in Nat
      /\ dbHeight' \in {dbHeight, metricHeight}
      /\ \/ dbHeight' = 0 /\ \A j \in Tasks : task'[j] = IdleTask
         \/ /\ dbHeight' # 0 /\ listening' = FALSE
            /\ \E k \in Tasks :
                  /\ task'[k].pc = "getLogs" /\ task'[k].kind = "boot"
                  /\ task'[k].from = dbHeight' /\ task'[k].block = 0
                  /\ \A j \in Tasks \ {k} : task'[j] = IdleTask
  BY RestartIs DEF Settled, WellFormed, WatcherTypeOK, ChainTypeOK
<1>2. metricHeight' = 0 /\ blocks' = {} /\ logs' = {} /\ UNCHANGED chainVars
  BY DEF Restart
<1>3. IdleTask.block = 0 /\ IdleTask.kind = "event"
  BY DEF IdleTask
<1>4. \A k \in Tasks : task'[k].block = 0
  BY <1>1, <1>3
<1>5. InThePast'
  BY <1>1, <1>2, <1>4 DEF Settled, InThePast, chainVars
<1>6. BootAlone'
  BY <1>1, <1>2, <1>3 DEF BootAlone
<1> QED
  BY <1>1, <1>5, <1>6 DEF Settled

\* The first state is settled.
LEMMA InitSettled == Init => Settled
<1> SUFFICES ASSUME Init PROVE Settled
  OBVIOUS
<1>1. IdleTask.block = 0 /\ IdleTask.kind = "event"
  BY DEF IdleTask
<1>2. InThePast
  BY <1>1 DEF Init, ChainInit, InThePast
<1>3. BootAlone
  BY <1>1 DEF Init, BootAlone
<1> QED
  BY <1>2, <1>3, InitWellFormed DEF Settled

\* Every step keeps it so.
LEMMA NextSettled == Settled /\ [Next]_vars => Settled'
<1> SUFFICES ASSUME Settled, [Next]_vars PROVE Settled'
  OBVIOUS
<1>1. CASE ChainStep
  BY <1>1, ChainStepSettled
<1>2. ASSUME NEW k \in Tasks,
             TakeLog(k) \/ TakeBlock(k) \/ LogStep(k) \/ BackfillStep(k) \/ BlockStep(k)
      PROVE  Settled'
  BY <1>2, TakeSettled, LogStepSettled, BackfillStepSettled, BlockStepSettled
<1>3. CASE Disconnect \/ Reconnect
  BY <1>3, ConnectionSettled
<1>4. CASE Restart
  BY <1>4, RestartSettled
<1>5. CASE UNCHANGED vars
  <2>1. WellFormed'
    BY <1>5, NextWellFormed DEF Settled
  <2> QED
    BY <1>5, <2>1 DEF vars, Settled, InThePast, BootAlone, chainVars, noticeVars, heightVars
<1> QED
  BY <1>1, <1>2, <1>3, <1>4, <1>5 DEF Next

-----------------------------------------------------------------------------
\* Numbers, for the comparisons of heights and blocks.
LEMMA Numbers ==
    ASSUME WellFormed
    PROVE  /\ dbHeight \in Nat /\ metricHeight \in Nat /\ head \in Nat
           /\ \A t \in Burns : minedAt[t] \in Nat
           /\ \A k \in Tasks : task[k].block \in Nat /\ task[k].from \in Nat
           /\ blocks \subseteq Nat /\ logs \subseteq Log
BY TaskIs DEF WellFormed, WatcherTypeOK, ChainTypeOK, Task

\* A step of one call keeps the burns covered if it leaves behind no block that
\* was not, and a burn leaves the hands of the call only to be recorded or lost.
LEMMA CallCovered ==
    ASSUME CoverInv, NEW k \in Tasks, NEW next, Becomes(k, next),
           UNCHANGED minedAt, blocks' \subseteq blocks, lost \subseteq lost',
           \A l \in logs : l \in logs' \/ l.removed \/ HeldBy(next, l.tx, l.block),
           \A t \in Burns : Recorded(t) => Recorded(t)',
           \A t \in Burns :
              Mined(t) /\ \/ minedAt[t] <= dbHeight'
                          \/ minedAt[t] <= metricHeight'
                          \/ Passes(next, minedAt[t])
                 => LeftBehind(minedAt[t]) \/ HeldBy(next, t, minedAt[t]),
           \A t \in Burns :
              Mined(t) /\ LeftBehind(minedAt[t]) /\ HeldBy(task[k], t, minedAt[t])
                 => HeldBy(next, t, minedAt[t]) \/ Recorded(t)' \/ t \in lost'
    PROVE  AllCovered'
<1> SUFFICES ASSUME NEW t \in Burns, Mined(t)', LeftBehind(minedAt[t])'
             PROVE  Covered(t)'
  BY DEF AllCovered
<1>1. Mined(t) /\ minedAt'[t] = minedAt[t]
  BY DEF Mined
<1>2. task'[k] = next /\ \A j \in Tasks \ {k} : task'[j] = task[j]
  BY BecomesTasks DEF CoverInv, Settled
<1>3. LeftBehind(minedAt[t]) \/ HeldBy(next, t, minedAt[t])
  <2>1. \/ minedAt[t] <= dbHeight'
        \/ minedAt[t] <= metricHeight'
        \/ minedAt[t] \in blocks'
        \/ \E j \in Tasks : Passes(task'[j], minedAt[t])
    BY <1>1 DEF LeftBehind, Passes
  <2>2. CASE minedAt[t] <= dbHeight' \/ minedAt[t] <= metricHeight'
    BY <1>1, <2>2
  <2>3. CASE minedAt[t] \in blocks'
    BY <2>3 DEF LeftBehind
  <2>4. ASSUME NEW j \in Tasks, Passes(task'[j], minedAt[t])
        PROVE  LeftBehind(minedAt[t]) \/ HeldBy(next, t, minedAt[t])
    <3>1. CASE j = k
      BY <1>1, <1>2, <2>4, <3>1
    <3>2. CASE j # k
      BY <1>2, <2>4, <3>2 DEF LeftBehind
    <3> QED
      BY <3>1, <3>2
  <2> QED
    BY <2>1, <2>2, <2>3, <2>4
<1>4. HeldBy(next, t, minedAt[t]) => Covered(t)'
  BY <1>1, <1>2 DEF Covered, HeldBy
<1>5. CASE LeftBehind(minedAt[t])
  <2>1. \/ Recorded(t) \/ t \in lost
        \/ \E l \in logs : l.tx = t /\ l.block = minedAt[t] /\ ~ l.removed
        \/ \E j \in Tasks : HeldBy(task[j], t, minedAt[t])
    BY <1>1, <1>5 DEF CoverInv, AllCovered, Covered
  <2>2. CASE Recorded(t) \/ t \in lost
    BY <2>2 DEF Covered
  <2>3. ASSUME NEW l \in logs, l.tx = t, l.block = minedAt[t], ~ l.removed
        PROVE  Covered(t)'
    BY <1>1, <1>4, <2>3 DEF Covered
  <2>4. ASSUME NEW j \in Tasks, HeldBy(task[j], t, minedAt[t])
        PROVE  Covered(t)'
    <3>1. CASE j = k
      <4>1. HeldBy(next, t, minedAt[t]) \/ Recorded(t)' \/ t \in lost'
        BY <1>1, <1>5, <2>4, <3>1
      <4> QED
        BY <1>4, <4>1 DEF Covered
    <3>2. CASE j # k
      <4>1. HeldBy(task'[j], t, minedAt'[t])
        BY <1>1, <1>2, <2>4, <3>2
      <4> QED
        BY <4>1 DEF Covered, HeldBy
    <3> QED
      BY <3>1, <3>2
  <2> QED
    BY <2>1, <2>2, <2>3, <2>4
<1> QED
  BY <1>3, <1>4, <1>5

\* A log that is taken moves from the announcements to its handler.
LEMMA TakeLogCovered ==
    ASSUME CoverInv, NEW k \in Tasks, TakeLog(k)
    PROVE  AllCovered'
<1>1. PICK l \in logs, next \in Task :
        /\ logs' = logs \ {l} /\ Becomes(k, next)
        /\ next.pc = "lookup" /\ next.kind = "event" /\ next.log = l
        /\ next.todo = {} /\ next.block = 0
  BY TakeLogIs DEF CoverInv, Settled
<1>2. UNCHANGED <<minedAt, blocks, lost, docs, dbHeight, metricHeight>> /\ task[k].pc = "idle"
  BY DEF TakeLog, chainVars, recordVars, heightVars
<1>3. task[k].todo = {}
  BY <1>2, TaskIs DEF CoverInv, Settled, TaskOK, LogPc
<1>4. ASSUME NEW t \in Burns, Mined(t)
      PROVE  ~ Passes(next, minedAt[t]) /\ ~ HeldBy(task[k], t, minedAt[t])
  <2>1. minedAt[t] \in Nat /\ minedAt[t] # 0
    BY <1>4, Numbers DEF CoverInv, Settled, Mined
  <2> QED
    BY <1>1, <1>2, <1>3, <2>1 DEF Passes, HeldBy
<1>5. l.removed \/ HeldBy(next, l.tx, l.block)
  BY <1>1 DEF HeldBy
<1> QED
  BY <1>1, <1>2, <1>4, <1>5, CallCovered DEF Recorded, LeftBehind

\* A block that is taken was left behind before, as an announced one.
LEMMA TakeBlockCovered ==
    ASSUME CoverInv, NEW k \in Tasks, TakeBlock(k)
    PROVE  AllCovered'
<1>1. PICK n \in blocks, next \in Task : /\ blocks' = blocks \ {n} /\ Becomes(k, next)
                                /\ next.pc = "heights" /\ next.block = n
  BY TakeBlockIs DEF CoverInv, Settled
<1>2. UNCHANGED <<minedAt, logs, lost, docs, dbHeight, metricHeight>> /\ task[k].pc = "idle"
  BY DEF TakeBlock, chainVars, recordVars, heightVars
<1>3. task[k].todo = {}
  BY <1>2, TaskIs DEF CoverInv, Settled, TaskOK, LogPc
<1>4. ASSUME NEW m, Passes(next, m)
      PROVE  LeftBehind(m)
  BY <1>1, <1>4 DEF Passes, LeftBehind
<1>5. ASSUME NEW t, NEW m
      PROVE  ~ HeldBy(task[k], t, m)
  BY <1>2, <1>3 DEF HeldBy
<1> QED
  BY <1>1, <1>2, <1>4, <1>5, CallCovered DEF Recorded, LeftBehind

\* What was recorded stays recorded.
LEMMA LogStepRecords ==
    ASSUME WellFormed, NEW k \in Tasks, LogStep(k), NEW t \in Burns, Recorded(t)
    PROVE  Recorded(t)'
<1>1. RecordsTypeOK /\ (task[k].pc \in LogPc => task[k].log.tx \in Burns /\ task[k].log.block \in Nat)
      /\ task[k].clean \in BOOLEAN
  BY TaskIs DEF WellFormed, WatcherTypeOK, Log, Task
<1>2. CASE SaveLog(k)
  <2> DEFINE doc == [status |-> "CONFIRMED", block |-> task[k].log.block, clean |-> task[k].clean]
  <2>1. AddTransaction(task[k].log.tx, doc) /\ task[k].pc = "save"
    BY <1>2 DEF SaveLog
  <2>2. doc \in Doc /\ task[k].log.tx \in Burns
    BY <1>1, <2>1 DEF Doc, LogPc
  <2> HIDE DEF doc
  <2>3. docs'[t] # <<>>
    BY <1>1, <2>1, <2>2, AddTransactionType DEF Recorded
  <2> QED
    BY <2>3 DEF Recorded
<1>3. CASE Revert(k)
  <2>1. MarkReorged(task[k].log.tx) /\ task[k].pc = "revert"
    BY <1>3 DEF Revert
  <2>2. docs'[t] # <<>>
    BY <1>1, <2>1, MarkReorgedType DEF LogPc, Recorded
  <2> QED
    BY <2>2 DEF Recorded
<1>4. CASE ~ SaveLog(k) /\ ~ Revert(k)
  <2>1. UNCHANGED docs
    BY <1>4 DEF LogStep, IgnoreLog, AdmitLog, TakeBack, RecordRemoved, LogFails, recordVars
  <2> QED
    BY <2>1 DEF Recorded
<1> QED
  BY <1>2, <1>3, <1>4

\* A block that is left behind, and is not waiting to be handled, is at or below
\* a height or the block of a call.
LEMMA LeftBehindIsBehind ==
    ASSUME WellFormed, NEW t \in Burns, LeftBehind(minedAt[t]), minedAt[t] \notin blocks
    PROVE  Behind(t)
<1> DEFINE m == minedAt[t]
<1>1. /\ m \in Nat /\ dbHeight \in Nat /\ metricHeight \in Nat
      /\ \A k \in Tasks : task[k].block \in Nat
  BY Numbers
<1>2. Height >= dbHeight /\ Height >= metricHeight /\ Height \in Nat
  BY <1>1, MaxOfTwo DEF Height, RpcBlockHeight
<1>3. \/ m <= dbHeight \/ m <= metricHeight
      \/ \E k \in Tasks : Passes(task[k], m)
  BY DEF LeftBehind
<1>4. ASSUME NEW k \in Tasks, Passes(task[k], m)
      PROVE  m <= task[k].block
  BY <1>1, <1>4 DEF Passes
<1> QED
  BY <1>1, <1>2, <1>3, <1>4 DEF Behind

\* A step of one log records the burn, keeps it, or counts it as lost.
LEMMA LogStepCovered ==
    ASSUME CoverInv, NEW k \in Tasks, LogStep(k)
    PROVE  AllCovered'
<1> DEFINE log == task[k].log
<1>1. WellFormed /\ task[k].pc \in LogPc /\ log \in Log /\ \A l \in task[k].todo : ~ l.removed
  BY TaskIs DEF LogStep, IgnoreLog, AdmitLog, SaveLog, TakeBack, Revert, RecordRemoved, LogFails,
                LogPc, CoverInv, Settled
<1>2. PICK next :
        /\ Becomes(k, next)
        /\ next = IdleTask \/ next.block = task[k].block
        /\ next.pc \in {"idle", "setHeight"} \cup LogPc
        /\ \A l \in task[k].todo : l \in next.todo \/ (next.pc = "lookup" /\ next.log = l)
        /\ AdmitLog(k) => next.pc = "save" /\ next.log = log
  BY <1>1, LogStepNext
<1>3. UNCHANGED <<minedAt, blocks, logs, dbHeight, metricHeight>> /\ lost \subseteq lost'
  BY DEF LogStep, IgnoreLog, AdmitLog, SaveLog, TakeBack, Revert, RecordRemoved, LogFails,
         UnchangedByLog, heightVars, noticeVars, chainVars
<1>4. ASSUME NEW t \in Burns, Mined(t), Passes(next, minedAt[t])
      PROVE  LeftBehind(minedAt[t])
  <2>1. minedAt[t] \in Nat /\ minedAt[t] # 0 /\ IdleTask.block = 0
    BY <1>1, <1>4, Numbers DEF Mined, IdleTask
  <2>2. minedAt[t] <= task[k].block
    BY <1>2, <1>4, <2>1 DEF Passes, LogPc
  <2> QED
    BY <1>1, <2>2 DEF LeftBehind, Passes, LogPc
<1>5. ASSUME NEW t \in Burns, LeftBehind(minedAt[t]), HeldBy(task[k], t, minedAt[t])
      PROVE  HeldBy(next, t, minedAt[t]) \/ Recorded(t)' \/ t \in lost'
  <2>1. ASSUME NEW l \in task[k].todo, l.tx = t, l.block = minedAt[t]
        PROVE  HeldBy(next, t, minedAt[t])
    BY <1>1, <1>2, <2>1 DEF HeldBy
  <2>2. CASE task[k].pc \in {"lookup", "save"} /\ log.tx = t /\ log.block = minedAt[t] /\ ~ log.removed
    <3>1. CASE IgnoreLog(k)
      <4>1. FoundStatus(t) = "CONFIRMED"
        BY <2>2, <3>1 DEF IgnoreLog, AlreadyProcessed
      <4>2. Recorded(t)
        BY <4>1 DEF FoundStatus
      <4> QED
        BY <1>1, <4>2, LogStepRecords
    <3>2. CASE AdmitLog(k)
      BY <1>2, <2>2, <3>2 DEF HeldBy
    <3>3. CASE SaveLog(k)
      <4> DEFINE doc == [status |-> "CONFIRMED", block |-> log.block, clean |-> task[k].clean]
      <4>1. AddTransaction(t, doc)
        BY <2>2, <3>3 DEF SaveLog
      <4>2. doc \in Doc
        BY <1>1, TaskIs DEF Doc, Task, Log
      <4> HIDE DEF doc
      <4>3. docs'[t] # <<>>
        BY <1>1, <4>1, <4>2, AddTransactionType DEF WellFormed, WatcherTypeOK
      <4> QED
        BY <4>3 DEF Recorded
    <3>4. CASE LogFails(k)
      <4>1. Behind(t) \/ log.block \in blocks
        BY <1>1, <1>5, <2>2, LeftBehindIsBehind
      <4>2. lost' = lost \cup {u \in {t} : Behind(u) \/ log.block \in blocks}
        BY <2>2, <3>4 DEF LogFails
      <4> QED
        BY <4>1, <4>2
    <3> QED
      BY <2>2, <3>1, <3>2, <3>3, <3>4 DEF LogStep, TakeBack, Revert, RecordRemoved
  <2> QED
    BY <1>1, <1>5, <2>1, <2>2 DEF HeldBy, LogPc
<1> QED
  BY <1>1, <1>2, <1>3, <1>4, <1>5, LogStepRecords, CallCovered DEF LeftBehind

\* The start of a backfill of the process holds every burn from the stored height
\* on, and no block above that height is left behind.
LEMMA BootHolds ==
    ASSUME Settled, NEW k \in Tasks, task[k].kind = "boot", task[k].pc = "getLogs",
           NEW t \in Burns, Mined(t), LeftBehind(minedAt[t])
    PROVE  minedAt[t] <= task[k].from
<1>1. /\ blocks = {} /\ metricHeight = 0 /\ task[k].from = dbHeight /\ task[k].block = 0
      /\ \A j \in Tasks \ {k} : task[j] = IdleTask
  BY DEF Settled, BootAlone
<1>2. minedAt[t] \in Nat /\ minedAt[t] # 0 /\ IdleTask.block = 0 /\ IdleTask.pc = "idle"
  BY Numbers DEF Settled, Mined, IdleTask
<1>3. \A j \in Tasks : ~ Passes(task[j], minedAt[t])
  BY <1>1, <1>2 DEF Passes
<1> QED
  BY <1>1, <1>2, <1>3 DEF LeftBehind

\* A backfill that has read the logs of its range, or that ends, keeps its block.
LEMMA BackfillStepCovered ==
    ASSUME CoverInv, NEW k \in Tasks, BackfillStep(k)
    PROVE  AllCovered'
<1>1. /\ Settled /\ WellFormed /\ task[k].pc \in {"getLogs", "setHeight", "sums", "setSums"}
      /\ task[k].todo = {} /\ TaskOK(task[k]) /\ task[k].kind \in {"block", "boot"}
  BY TaskIs DEF BackfillStep, GetLogs, StoreBackfilled, ReadSums, SetSums, BackfillFails,
                CoverInv, Settled, TaskOK, LogPc, Task
<1>2. UNCHANGED <<minedAt, blocks, logs, docs, metricHeight>> /\ lost \subseteq lost'
  BY DEF BackfillStep, GetLogs, StoreBackfilled, ReadSums, SetSums, BackfillFails,
         heightVars, noticeVars, chainVars, recordVars
<1>3. \A t \in Burns : Recorded(t) => Recorded(t)'
  BY <1>2 DEF Recorded
<1>4. /\ \A t \in Burns : minedAt[t] \in Nat /\ minedAt[t] <= head
      /\ head \in Nat /\ task[k].block \in Nat /\ task[k].from \in Nat /\ dbHeight \in Nat
  BY <1>1, Numbers DEF Settled, InThePast
<1>5. CASE GetLogs(k)
  <2> DEFINE found == LogsBetween(task[k].from, LastBlock(k))
  <2>1. PICK next :
          /\ Becomes(k, next) /\ next.block = LastBlock(k)
          /\ next.pc \in {"lookup", "setHeight"}
          /\ \A l \in found : l \in next.todo \/ (next.pc = "lookup" /\ next.log = l)
    BY <1>1, <1>5, GetLogsIs
  <2>2. task[k].pc = "getLogs" /\ UNCHANGED <<dbHeight, lost>>
    BY <1>5 DEF GetLogs, heightVars
  <2>3. ASSUME NEW t \in Burns, Mined(t), task[k].from <= minedAt[t], minedAt[t] <= LastBlock(k)
        PROVE  HeldBy(next, t, minedAt[t])
    <3> DEFINE l == [tx |-> t, block |-> minedAt[t], removed |-> FALSE]
    <3>1. l \in found
      BY <1>1, <2>3, LogsBetweenIs
    <3> QED
      BY <2>1, <3>1 DEF HeldBy
  <2>4. LastBlock(k) = IF task[k].kind = "boot" THEN head ELSE task[k].block
    BY DEF LastBlock
  <2>5. ASSUME NEW t \in Burns, Mined(t), Passes(next, minedAt[t])
        PROVE  LeftBehind(minedAt[t]) \/ HeldBy(next, t, minedAt[t])
    <3>1. minedAt[t] <= LastBlock(k)
      BY <2>1, <2>5 DEF Passes
    <3>2. CASE task[k].from <= minedAt[t]
      BY <2>3, <2>5, <3>1, <3>2
    <3>3. CASE minedAt[t] < task[k].from
      <4>1. CASE task[k].kind = "boot"
        <5>1. task[k].from = dbHeight
          BY <1>1, <2>2, <4>1 DEF Settled, BootAlone
        <5> QED
          BY <1>4, <3>3, <5>1 DEF LeftBehind
      <4>2. CASE task[k].kind = "block"
        BY <2>2, <2>4, <3>1, <4>2 DEF LeftBehind, Passes
      <4> QED
        BY <1>1, <4>1, <4>2
    <3> QED
      BY <1>4, <3>2, <3>3
  <2>6. ASSUME NEW t \in Burns, Mined(t), HeldBy(task[k], t, minedAt[t])
        PROVE  HeldBy(next, t, minedAt[t])
    <3>1. /\ task[k].from <= minedAt[t]
          /\ task[k].kind = "block" => minedAt[t] <= task[k].block
      BY <1>1, <2>2, <2>6 DEF HeldBy
    <3>2. minedAt[t] <= LastBlock(k)
      BY <1>1, <1>4, <2>4, <3>1
    <3> QED
      BY <2>3, <2>6, <3>1, <3>2
  <2> QED
    BY <1>2, <1>3, <2>1, <2>2, <2>5, <2>6, CallCovered DEF LeftBehind
<1>6. CASE StoreBackfilled(k) \/ ReadSums(k)
  <2>1. PICK next : /\ Becomes(k, next) /\ SameCall(task[k], next)
                    /\ next.pc \in {"sums", "setSums"}
    BY <1>1, <1>6, StoreBackfilledIs, ReadSumsIs
  <2>2. /\ dbHeight' \in {dbHeight, task[k].block} /\ UNCHANGED lost
        /\ task[k].pc \in {"setHeight", "sums"}
    BY <1>6 DEF StoreBackfilled, ReadSums, heightVars
  <2>3. ASSUME NEW m, m <= dbHeight' \/ m <= metricHeight \/ Passes(next, m)
        PROVE  LeftBehind(m)
    BY <2>1, <2>2, <2>3 DEF LeftBehind, Passes, SameCall
  <2>4. \A t, m : ~ HeldBy(task[k], t, m)
    BY <1>1, <2>2 DEF HeldBy
  <2> QED
    BY <1>2, <1>3, <2>1, <2>2, <2>3, <2>4, CallCovered
<1>7. CASE SetSums(k) \/ BackfillFails(k)
  <2>1. AfterBackfill(k) /\ UNCHANGED dbHeight
    BY <1>7 DEF SetSums, BackfillFails, heightVars
  <2>2. PICK next : /\ Becomes(k, next)
                    /\ \/ next = IdleTask
                       \/ next.pc = "query" /\ next.block = task[k].block
    BY <1>1, <2>1, AfterBackfillIs
  <2>3. ASSUME NEW t \in Burns, Mined(t), Passes(next, minedAt[t])
        PROVE  LeftBehind(minedAt[t])
    <3>1. minedAt[t] \in Nat /\ minedAt[t] # 0 /\ IdleTask.block = 0
      BY <1>4, <2>3 DEF Mined, IdleTask
    <3>2. minedAt[t] <= task[k].block
      BY <1>4, <2>2, <2>3, <3>1 DEF Passes
    <3> QED
      BY <1>1, <3>2 DEF LeftBehind, Passes
  <2>4. ASSUME NEW t \in Burns, Mined(t), LeftBehind(minedAt[t]), HeldBy(task[k], t, minedAt[t])
        PROVE  t \in lost'
    <3>1. /\ task[k].pc = "getLogs" /\ task[k].from <= minedAt[t]
          /\ task[k].kind = "block" => minedAt[t] <= task[k].block
      BY <1>1, <2>4 DEF HeldBy
    <3>2. task[k].kind = "boot" => minedAt[t] = task[k].from
      <4>1. ASSUME task[k].kind = "boot" PROVE minedAt[t] <= task[k].from
        BY <1>1, <2>4, <3>1, <4>1, BootHolds
      <4> QED
        BY <1>4, <3>1, <4>1
    <3>3. BackfillFails(k)
      BY <1>7, <3>1 DEF SetSums
    <3> QED
      BY <1>4, <2>4, <3>1, <3>2, <3>3 DEF BackfillFails
  <2> QED
    BY <1>2, <1>3, <2>1, <2>2, <2>3, <2>4, CallCovered DEF LeftBehind
<1> QED
  BY <1>5, <1>6, <1>7 DEF BackfillStep

\* The handler of a block leaves nothing behind that its call had not passed: where
\* it finds a gap it becomes a backfill with the whole range in its hands.
LEMMA BlockStepCovered ==
    ASSUME CoverInv, NEW k \in Tasks, BlockStep(k)
    PROVE  AllCovered'
<1>1. /\ Settled /\ WellFormed /\ task[k].pc \in {"heights", "metric", "query", "height"}
      /\ task[k].todo = {} /\ task[k].kind = "block"
  BY TaskIs DEF BlockStep, ReadDbHeight, ReadMetricHeight, QueryToBeSent, StoreHeight, BlockFails,
                CoverInv, Settled, TaskOK, LogPc
<1>2. UNCHANGED <<minedAt, blocks, logs, docs, lost>>
  BY DEF BlockStep, ReadDbHeight, ReadMetricHeight, QueryToBeSent, StoreHeight, BlockFails,
         heightVars, noticeVars, chainVars, recordVars
<1>3. \A t \in Burns : Recorded(t) => Recorded(t)'
  BY <1>2 DEF Recorded
<1>4. /\ \A t \in Burns : minedAt[t] \in Nat
      /\ task[k].block \in Nat /\ task[k].from \in Nat /\ dbHeight \in Nat /\ metricHeight \in Nat
  BY <1>1, Numbers
<1>5. \A t, m : ~ HeldBy(task[k], t, m)
  BY <1>1 DEF HeldBy
<1>6. CASE ReadDbHeight(k)
  <2>1. PICK next : /\ Becomes(k, next) /\ SameCall(task[k], next)
                    /\ next.pc = "metric" /\ next.from = dbHeight
    BY <1>1, <1>6, ReadDbHeightIs
  <2>2. UNCHANGED <<dbHeight, metricHeight>> /\ task[k].pc = "heights"
    BY <1>6 DEF ReadDbHeight, heightVars
  <2>3. ASSUME NEW m, m <= dbHeight \/ m <= metricHeight \/ Passes(next, m)
        PROVE  LeftBehind(m)
    BY <2>1, <2>2, <2>3 DEF LeftBehind, Passes, SameCall
  <2> QED
    BY <1>2, <1>3, <1>5, <2>1, <2>2, <2>3, CallCovered
<1>7. CASE ReadMetricHeight(k)
  <2>1. PICK height \in {task[k].from, metricHeight}, next \in Task :
          /\ Becomes(k, next) /\ SameCall(task[k], next)
          /\ \/ next.pc = "getLogs" /\ next.from = height + 1
             \/ next.pc = "query" /\ task[k].block <= height + 1
    BY <1>1, <1>7, ReadMetricHeightIs
  <2>2. UNCHANGED <<dbHeight, metricHeight>> /\ task[k].pc = "metric"
    BY <1>7 DEF ReadMetricHeight, heightVars
  <2>3. ASSUME NEW t \in Burns,
               \/ minedAt[t] <= dbHeight
               \/ minedAt[t] <= metricHeight
               \/ Passes(next, minedAt[t])
        PROVE  LeftBehind(minedAt[t]) \/ HeldBy(next, t, minedAt[t])
    <3> DEFINE m == minedAt[t]
    <3>1. m \in Nat /\ height \in Nat
      BY <1>4, <2>1
    <3>2. CASE m <= dbHeight \/ m <= metricHeight
      BY <3>2 DEF LeftBehind
    <3>3. CASE Passes(next, m)
      <4>1. m <= task[k].block
        BY <2>1, <3>3 DEF Passes, SameCall
      <4>2. CASE m = task[k].block \/ m <= height
        <5>1. m = task[k].block \/ m <= task[k].from \/ m <= metricHeight
          BY <2>1, <4>2
        <5> QED
          BY <2>2, <4>1, <5>1 DEF LeftBehind, Passes
      <4>3. CASE m # task[k].block /\ ~ (m <= height)
        <5>1. next.pc = "getLogs" /\ next.from <= m
          BY <1>4, <2>1, <3>1, <4>1, <4>3
        <5> QED
          BY <2>1, <4>1, <5>1 DEF HeldBy, SameCall
      <4> QED
        BY <4>2, <4>3
    <3> QED
      BY <2>3, <3>2, <3>3
  <2> QED
    BY <1>2, <1>3, <1>5, <2>1, <2>2, <2>3, CallCovered
<1>8. CASE QueryToBeSent(k)
  <2>1. PICK next : Becomes(k, next) /\ SameCall(task[k], next) /\ next.pc = "height"
    BY <1>1, <1>8, QueryToBeSentIs
  <2>2. metricHeight' = task[k].block /\ UNCHANGED dbHeight /\ task[k].pc = "query"
    BY <1>8 DEF QueryToBeSent, SetRpcBlockHeight
  <2>3. ASSUME NEW m, m <= dbHeight \/ m <= metricHeight' \/ Passes(next, m)
        PROVE  LeftBehind(m)
    BY <2>1, <2>2, <2>3 DEF LeftBehind, Passes, SameCall
  <2> QED
    BY <1>2, <1>3, <1>5, <2>1, <2>2, <2>3, CallCovered
<1>9. CASE StoreHeight(k) \/ BlockFails(k)
  <2>1. Becomes(k, IdleTask)
    BY <1>9, IdleIsTask DEF StoreHeight, BlockFails, Becomes
  <2>2. /\ UNCHANGED metricHeight
        /\ dbHeight' = dbHeight \/ (task[k].pc = "height" /\ dbHeight' = task[k].block)
    BY <1>9 DEF StoreHeight, BlockFails, heightVars
  <2>3. ASSUME NEW t \in Burns, Mined(t)
        PROVE  ~ Passes(IdleTask, minedAt[t])
    BY <1>4, <2>3 DEF Passes, IdleTask, Mined
  <2>4. ASSUME NEW m, m <= dbHeight' \/ m <= metricHeight
        PROVE  LeftBehind(m)
    BY <2>2, <2>4 DEF LeftBehind, Passes
  <2> QED
    BY <1>2, <1>3, <1>5, <2>1, <2>2, <2>3, <2>4, CallCovered
<1> QED
  BY <1>6, <1>7, <1>8, <1>9 DEF BlockStep

\* A new block is beyond everything, unless it is announced, with its logs.
LEMMA ChainStepCovered ==
    ASSUME CoverInv, ChainStep
    PROVE  AllCovered'
<1>1. /\ Settled /\ WellFormed /\ UNCHANGED <<recordVars, heightVars, task, lost>>
      /\ minedAt \in [Burns -> Nat]
  BY DEF CoverInv, Settled, WellFormed, WatcherTypeOK, ChainTypeOK, ChainStep
<1>2. /\ \A t \in Burns : minedAt[t] \in Nat /\ minedAt[t] <= head
      /\ head \in Nat /\ dbHeight <= head /\ metricHeight <= head
      /\ dbHeight \in Nat /\ metricHeight \in Nat
      /\ \A n \in blocks : n <= head
      /\ \A k \in Tasks : task[k].block <= head /\ task[k].block \in Nat
  BY <1>1, Numbers DEF Settled, InThePast
<1>3. ASSUME NEW t \in Burns, Mined(t), LeftBehind(minedAt[t]), minedAt'[t] = minedAt[t],
             logs \subseteq logs'
      PROVE  Covered(t)'
  <2>1. Covered(t)
    BY <1>3 DEF CoverInv, AllCovered
  <2> QED
    BY <1>1, <1>3, <2>1 DEF Covered, Recorded, HeldBy, recordVars
<1>4. CASE NewBlock
  <2>1. PICK new \in SUBSET {t \in Burns : ~ Mined(t)} :
          /\ Mine(new)
          /\ \/ Announce(new)
             \/ UNCHANGED noticeVars
    BY <1>4 DEF NewBlock
  <2> DEFINE logOf(t) == [tx |-> t, block |-> head + 1, removed |-> FALSE]
  <2>2. /\ minedAt' = [t \in Burns |-> IF t \in new THEN head + 1 ELSE minedAt[t]]
        /\ \/ blocks' = blocks \cup {head + 1} /\ logs' = logs \cup {logOf(t) : t \in new}
           \/ blocks' = blocks /\ logs' = logs
    BY <2>1 DEF Mine, Announce, noticeVars
  <2> HIDE DEF logOf
  <2> SUFFICES ASSUME NEW t \in Burns, Mined(t)', LeftBehind(minedAt[t])'
               PROVE  Covered(t)'
    BY DEF AllCovered
  <2>3. \/ minedAt'[t] <= dbHeight \/ minedAt'[t] <= metricHeight \/ minedAt'[t] \in blocks'
        \/ \E k \in Tasks : Passes(task[k], minedAt'[t])
    BY <1>1 DEF LeftBehind, Passes, heightVars
  <2>4. CASE t \in new
    <3>1. minedAt'[t] = head + 1
      BY <2>2, <2>4
    <3>2. \A k \in Tasks : ~ Passes(task[k], head + 1)
      BY <1>2 DEF Passes
    <3>3. head + 1 \in blocks' /\ head + 1 \notin blocks
      BY <1>2, <2>3, <3>1, <3>2
    <3>4. logOf(t) \in logs'
      BY <2>2, <2>4, <3>3
    <3>5. logOf(t).tx = t /\ logOf(t).block = minedAt'[t] /\ ~ logOf(t).removed
      BY <3>1 DEF logOf
    <3> QED
      BY <3>4, <3>5 DEF Covered
  <2>5. CASE t \notin new
    <3>1. minedAt'[t] = minedAt[t] /\ Mined(t)
      BY <2>2, <2>5 DEF Mined
    <3>2. minedAt[t] \in blocks' => minedAt[t] \in blocks
      BY <1>2, <2>2
    <3>3. LeftBehind(minedAt[t])
      BY <2>3, <3>1, <3>2 DEF LeftBehind
    <3> QED
      BY <1>3, <2>2, <3>1, <3>3
  <2> QED
    BY <2>4, <2>5
<1>5. ASSUME NEW u \in Burns, Reorg(u)
      PROVE  AllCovered'
  <2>1. minedAt' = [minedAt EXCEPT ![u] = 0] /\ logs \subseteq logs' /\ UNCHANGED blocks
    BY <1>5 DEF Reorg
  <2> SUFFICES ASSUME NEW t \in Burns, Mined(t)', LeftBehind(minedAt[t])'
               PROVE  Covered(t)'
    BY DEF AllCovered
  <2>2. t # u /\ minedAt'[t] = minedAt[t] /\ Mined(t)
    BY <1>1, <2>1 DEF Mined
  <2>3. LeftBehind(minedAt[t])
    BY <1>1, <2>1, <2>2 DEF LeftBehind, Passes, heightVars
  <2> QED
    BY <1>3, <2>1, <2>2, <2>3
<1> QED
  BY <1>4, <1>5 DEF ChainStep

\* A disconnection counts what is left behind as lost; a block that was not taken is
\* left behind no more.
LEMMA ConnectionCovered ==
    ASSUME CoverInv, Disconnect \/ Reconnect
    PROVE  AllCovered'
<1>1. /\ WellFormed /\ blocks' \subseteq blocks /\ lost \subseteq lost'
      /\ UNCHANGED <<docs, minedAt, heightVars, task>>
  BY DEF CoverInv, Settled, Disconnect, Reconnect, recordVars, chainVars, noticeVars
<1> SUFFICES ASSUME NEW t \in Burns, Mined(t)', LeftBehind(minedAt[t])'
             PROVE  Covered(t)'
  BY DEF AllCovered
<1>2. Mined(t) /\ minedAt'[t] = minedAt[t] /\ LeftBehind(minedAt[t])
  BY <1>1 DEF Mined, LeftBehind, Passes, heightVars
<1>3. Covered(t)
  BY <1>2 DEF CoverInv, AllCovered
<1>4. ASSUME NEW l \in logs, l.tx = t, l.block = minedAt[t], ~ l.removed
      PROVE  Covered(t)'
  <2>1. CASE Disconnect
    <3>1. minedAt[t] \notin blocks' /\ LeftBehind(minedAt[t])'
      BY <2>1 DEF Disconnect
    <3>2. \/ minedAt[t] <= dbHeight \/ minedAt[t] <= metricHeight
          \/ \E k \in Tasks : Passes(task[k], minedAt[t])
      BY <1>1, <1>2, <3>1 DEF LeftBehind, Passes, heightVars
    <3>3. Behind(t)
      <4>1. /\ minedAt[t] \in Nat /\ dbHeight \in Nat /\ metricHeight \in Nat
            /\ \A k \in Tasks : task[k].block \in Nat
        BY <1>1, Numbers
      <4>2. Height >= dbHeight /\ Height >= metricHeight /\ Height \in Nat
        BY <4>1, MaxOfTwo DEF Height, RpcBlockHeight
      <4>3. ASSUME NEW k \in Tasks, Passes(task[k], minedAt[t])
            PROVE  minedAt[t] <= task[k].block
        BY <4>1, <4>3 DEF Passes
      <4> QED
        BY <3>2, <4>1, <4>2, <4>3 DEF Behind
    <3>4. t \in lost'
      BY <1>4, <2>1, <3>3 DEF Disconnect
    <3> QED
      BY <3>4 DEF Covered
  <2>2. CASE Reconnect
    <3>1. l \in logs'
      BY <2>2 DEF Reconnect, noticeVars
    <3> QED
      BY <1>2, <1>4, <3>1 DEF Covered
  <2> QED
    BY <2>1, <2>2
<1> QED
  BY <1>1, <1>2, <1>3, <1>4 DEF Covered, Recorded, HeldBy

\* A covered burn that is not recorded or lost is in somebody's hands.
LEMMA CoveredInHand ==
    ASSUME NEW t \in Burns, Covered(t)
    PROVE  Recorded(t) \/ InHand(t) \/ t \in lost
BY DEF Covered, HeldBy, InHand

\* A restart counts as lost what is below the stored height; the backfill of the start
\* has the rest.
LEMMA RestartCovered ==
    ASSUME CoverInv, Restart
    PROVE  AllCovered'
<1>1. /\ WellFormed
      /\ dbHeight' \in {dbHeight, metricHeight}
      /\ \/ dbHeight' = 0 /\ \A j \in Tasks : task'[j] = IdleTask
         \/ /\ dbHeight' # 0
            /\ \E k \in Tasks :
                  /\ task'[k].pc = "getLogs" /\ task'[k].kind = "boot"
                  /\ task'[k].from = dbHeight' /\ task'[k].block = 0
                  /\ \A j \in Tasks \ {k} : task'[j] = IdleTask
  BY RestartIs DEF CoverInv, Settled
<1>2. /\ metricHeight' = 0 /\ blocks' = {} /\ UNCHANGED <<docs, minedAt>>
      /\ lost' = lost \cup {t \in Burns : InHand(t) /\ minedAt[t] < dbHeight'}
  BY DEF Restart, chainVars
<1> SUFFICES ASSUME NEW t \in Burns, Mined(t)', LeftBehind(minedAt[t])'
             PROVE  Covered(t)'
  BY DEF AllCovered
<1>3. /\ minedAt'[t] = minedAt[t] /\ Mined(t) /\ minedAt[t] \in Nat /\ minedAt[t] # 0
      /\ dbHeight' \in Nat
  BY <1>1, <1>2, Numbers DEF Mined
<1>4. minedAt[t] <= dbHeight'
  <2>1. IdleTask.block = 0 /\ IdleTask.pc = "idle"
    BY DEF IdleTask
  <2>2. \A j \in Tasks : ~ Passes(task'[j], minedAt[t])
    <3>1. ASSUME NEW j \in Tasks
          PROVE  task'[j].pc \notin {"heights", "metric"} /\ task'[j].block = 0
      BY <1>1, <2>1
    <3> QED
      BY <1>3, <3>1 DEF Passes
  <2>3. \/ minedAt[t] <= dbHeight' \/ minedAt[t] <= metricHeight' \/ minedAt[t] \in blocks'
        \/ \E j \in Tasks : Passes(task'[j], minedAt[t])
    BY <1>3 DEF LeftBehind, Passes
  <2> QED
    BY <1>2, <1>3, <2>2, <2>3
<1>5. CASE minedAt[t] < dbHeight'
  <2>1. LeftBehind(minedAt[t])
    BY <1>1, <1>4 DEF LeftBehind
  <2>2. Recorded(t) \/ InHand(t) \/ t \in lost
    BY <1>3, <2>1, CoveredInHand DEF CoverInv, AllCovered
  <2> QED
    BY <1>2, <1>5, <2>2 DEF Covered, Recorded
<1>6. CASE minedAt[t] = dbHeight'
  <2>1. \E k \in Tasks : HeldBy(task'[k], t, minedAt'[t])
    BY <1>1, <1>3, <1>6 DEF HeldBy
  <2> QED
    BY <2>1 DEF Covered, HeldBy
<1> QED
  BY <1>3, <1>4, <1>5, <1>6

\* No burn is in a block at first.
LEMMA InitCovered == Init => CoverInv
<1> SUFFICES ASSUME Init PROVE CoverInv
  OBVIOUS
<1>1. \A t \in Burns : ~ Mined(t)
  BY DEF Init, ChainInit, Mined
<1> QED
  BY <1>1, InitSettled DEF CoverInv, AllCovered

\* Every step keeps burns covered.
LEMMA NextCovered == CoverInv /\ [Next]_vars => CoverInv'
<1> SUFFICES ASSUME CoverInv, [Next]_vars PROVE AllCovered'
  BY NextSettled DEF CoverInv
<1>1. CASE ChainStep
  BY <1>1, ChainStepCovered
<1>2. ASSUME NEW k \in Tasks,
             TakeLog(k) \/ TakeBlock(k) \/ LogStep(k) \/ BackfillStep(k) \/ BlockStep(k)
      PROVE  AllCovered'
  BY <1>2, TakeLogCovered, TakeBlockCovered, LogStepCovered, BackfillStepCovered, BlockStepCovered
<1>3. CASE Disconnect \/ Reconnect
  BY <1>3, ConnectionCovered
<1>4. CASE Restart
  BY <1>4, RestartCovered
<1>5. CASE UNCHANGED vars
  BY <1>5 DEF vars, CoverInv, AllCovered, Covered, Recorded, HeldBy, LeftBehind, Passes, Mined,
              recordVars, chainVars, noticeVars, heightVars
<1> QED
  BY <1>1, <1>2, <1>3, <1>4, <1>5 DEF Next

\* Whatever the order of the announcements, the failures and the restarts: a burn
\* in a block that the heights have left behind is recorded, in the hands of a
\* call, or taken by a failure that the model counts as such.
THEOREM BurnsCovered == Spec => []BurnsAreCovered
<1>1. CoverInv => BurnsAreCovered
  <2> SUFFICES ASSUME CoverInv, NEW t \in Burns, Mined(t), minedAt[t] <= Height
               PROVE  Recorded(t) \/ InHand(t) \/ t \in lost
    BY DEF BurnsAreCovered
  <2>1. minedAt[t] \in Nat /\ dbHeight \in Nat /\ metricHeight \in Nat
    BY Numbers DEF CoverInv, Settled
  <2>2. minedAt[t] <= dbHeight \/ minedAt[t] <= metricHeight
    BY <2>1, MaxOfTwo DEF Height, RpcBlockHeight
  <2> QED
    BY <2>2, CoveredInHand DEF CoverInv, AllCovered, LeftBehind
<1> QED
  BY <1>1, InitCovered, NextCovered, PTL DEF Spec

-----------------------------------------------------------------------------
(***************************************************************************)
(* Depth.  The query compares the block of the document with the block at  *)
(* hand, and the result waits in the call while the chain grows.  Without  *)
(* reorganizations the block of a log, and so of a document, is the one    *)
(* that the burn is in.                                                    *)
(***************************************************************************)

\* The burn has as many blocks on top as the policy asks for.
Deep(t) == Mined(t) /\ minedAt[t] + Confirmations(t) <= head

\* The log names the block that its burn is in.
TrueIn(log, at) == log.block = at[log.tx] /\ at[log.tx] # 0
TrueLog(log) == TrueIn(log, minedAt)

\* That holds of every log announced, waiting or in a handler.
LogsAreTrue ==
    /\ \A l \in logs : TrueLog(l)
    /\ \A k \in Tasks : /\ \A l \in task[k].todo : TrueLog(l)
                        /\ task[k].pc \in LogPc => TrueLog(task[k].log)

\* And so of every document.
DocsAreTrue ==
    \A t \in Burns : \A i \in 1..Len(docs[t]) : Mined(t) /\ docs[t][i].block = minedAt[t]

\* What a query has found is deep, and stays it while the chain grows.
FoundAreDeep == \A k \in Tasks : \A t \in task[k].found : Deep(t)

\* The inductive form of HandedBurnsAreDeep.
DeepInv == Settled /\ LogsAreTrue /\ DocsAreTrue /\ FoundAreDeep

\* getConfirmations answers with the confirmations of the smallest threshold that
\* the amount fits in, whichever order the thresholds come in.
LEMMA ConfirmationsOf ==
    ASSUME NEW t \in Burns, Thresholds # {}
    PROVE  \/ /\ Confirmations(t) = -1
              /\ \A th \in Thresholds : th.maxAmount < Amount[t]
           \/ \E th \in Thresholds :
                 /\ Confirmations(t) = th.confirmations
                 /\ Amount[t] <= th.maxAmount
                 /\ \A other \in Thresholds :
                      Amount[t] <= other.maxAmount => th.maxAmount <= other.maxAmount
<1> DEFINE fitting == {th \in Thresholds : Amount[t] <= th.maxAmount}
           IsLeast(th) == \A other \in fitting : th.maxAmount <= other.maxAmount
           least == CHOOSE th \in fitting : IsLeast(th)
<1>1. /\ Amount[t] \in Nat
      /\ \A th \in Thresholds : th.maxAmount \in Nat /\ th.confirmations \in Nat
  BY AmountAssumption, ThresholdsAssumption
<1>2. Confirmations(t) = IF fitting = {} THEN -1 ELSE least.confirmations
  BY DEF Confirmations
<1>3. CASE fitting = {}
  <2>1. \A th \in Thresholds : ~ (Amount[t] <= th.maxAmount)
    BY <1>3
  <2> QED
    BY <1>1, <1>2, <1>3, <2>1
<1>4. CASE fitting # {}
  <2>1. \E th \in fitting : IsLeast(th)
    <3> DEFINE amounts == {th.maxAmount : th \in fitting}
    <3>1. amounts \subseteq Nat /\ amounts # {}
      BY <1>1, <1>4
    <3>2. PICK m \in amounts : \A n \in amounts : m <= n
      <4> HIDE DEF amounts
      <4> QED
        BY <3>1, LeastNat
    <3> QED
      BY <3>2
  <2>2. least \in fitting /\ IsLeast(least)
    <3> HIDE DEF IsLeast, fitting
    <3> QED
      BY <2>1
  <2>3. least \in Thresholds /\ Amount[t] <= least.maxAmount
    BY <2>2
  <2>4. Confirmations(t) = least.confirmations
    BY <1>2, <1>4
  <2>5. \A other \in Thresholds : Amount[t] <= other.maxAmount => least.maxAmount <= other.maxAmount
    BY <2>2
  <2> HIDE DEF least
  <2> QED
    BY <2>3, <2>4, <2>5
<1> QED
  BY <1>3, <1>4

\* The confirmations of a burn are a number, with -1 for amounts beyond all
\* thresholds.
LEMMA ConfirmationsType ==
    ASSUME NEW t \in Burns
    PROVE  Confirmations(t) \in Nat \cup {-1}
<1>1. CASE Thresholds = {}
  BY <1>1, PolicyAssumption DEF Confirmations
<1>2. CASE Thresholds # {}
  BY <1>2, ConfirmationsOf, ThresholdsAssumption
<1> QED
  BY <1>1, <1>2

\* What the query returns is deep, when the block at hand is one of the chain.
LEMMA QueryIsDeep ==
    ASSUME DeepInv, NEW n \in Nat, n <= head
    PROVE  \A t \in ToBeSent(n) : Deep(t)
<1> SUFFICES ASSUME NEW t \in ToBeSent(n) PROVE Deep(t)
  OBVIOUS
<1>1. PICK i \in 1..Len(docs[t]) : docs[t][i].block + Confirmations(t) <= n
  BY DEF ToBeSent
<1>2. t \in Burns
  BY DEF ToBeSent
<1>3. Mined(t) /\ docs[t][i].block = minedAt[t]
  BY <1>1, <1>2 DEF DeepInv, DocsAreTrue
<1>4. minedAt[t] \in Nat /\ head \in Nat
  BY <1>2, Numbers DEF DeepInv, Settled
<1>5. Confirmations(t) \in Int
  BY <1>2, ConfirmationsType
<1> QED
  BY <1>1, <1>3, <1>4, <1>5 DEF Deep

\* A step of one call while the chain stands still.
LEMMA CallDeep ==
    ASSUME DeepInv, Settled', NEW k \in Tasks, NEW next, Becomes(k, next), UNCHANGED chainVars,
           logs' \subseteq logs, \A l \in next.todo : TrueLog(l),
           next.pc \in LogPc => TrueLog(next.log), \A t \in next.found : Deep(t),
           \A t \in Burns : \A i \in 1..Len(docs'[t]) : Mined(t) /\ docs'[t][i].block = minedAt[t]
    PROVE  DeepInv'
<1>1. task'[k] = next /\ \A j \in Tasks \ {k} : task'[j] = task[j]
  BY BecomesTasks DEF DeepInv, Settled
<1>2. \A j \in Tasks : /\ \A l \in task'[j].todo : TrueLog(l)
                       /\ task'[j].pc \in LogPc => TrueLog(task'[j].log)
                       /\ \A t \in task'[j].found : Deep(t)
  <2> SUFFICES ASSUME NEW j \in Tasks
               PROVE  /\ \A l \in task'[j].todo : TrueLog(l)
                      /\ task'[j].pc \in LogPc => TrueLog(task'[j].log)
                      /\ \A t \in task'[j].found : Deep(t)
    OBVIOUS
  <2>1. CASE j = k
    BY <1>1, <2>1
  <2>2. CASE j # k
    BY <1>1, <2>2 DEF DeepInv, LogsAreTrue, FoundAreDeep
  <2> QED
    BY <2>1, <2>2
<1>3. minedAt' = minedAt /\ head' = head
  BY DEF chainVars
<1>4. LogsAreTrue'
  BY <1>2, <1>3 DEF DeepInv, LogsAreTrue, TrueLog
<1>5. FoundAreDeep'
  BY <1>2, <1>3 DEF FoundAreDeep, Deep, Mined, Confirmations
<1>6. DocsAreTrue'
  BY <1>3 DEF DocsAreTrue, Mined
<1> QED
  BY <1>4, <1>5, <1>6 DEF DeepInv

\* A handler starts with a true log, or with a block and nothing found.
LEMMA TakeDeep ==
    ASSUME DeepInv, NEW k \in Tasks, TakeLog(k) \/ TakeBlock(k)
    PROVE  DeepInv'
<1>1. Settled' /\ WellFormed
  BY TakeSettled DEF DeepInv, Settled
<1>2. CASE TakeLog(k)
  <2>1. PICK l \in logs, next \in Task : /\ logs' = logs \ {l} /\ Becomes(k, next) /\ next.log = l
                                /\ next.todo = {} /\ next.found = {}
    BY <1>1, <1>2, TakeLogIs
  <2>2. UNCHANGED <<chainVars, docs>>
    BY <1>2 DEF TakeLog, recordVars
  <2> QED
    BY <1>1, <2>1, <2>2, CallDeep DEF DeepInv, LogsAreTrue, DocsAreTrue
<1>3. CASE TakeBlock(k)
  <2>1. PICK next : /\ Becomes(k, next) /\ next.pc = "heights"
                    /\ next.todo = {} /\ next.found = {}
    BY <1>1, <1>3, TakeBlockIs
  <2>2. UNCHANGED <<chainVars, docs, logs>>
    BY <1>3 DEF TakeBlock, recordVars
  <2> QED
    BY <1>1, <2>1, <2>2, CallDeep DEF DeepInv, LogPc, DocsAreTrue
<1> QED
  BY <1>2, <1>3

\* A document takes its block from the log.
LEMMA LogStepDeep ==
    ASSUME DeepInv, NEW k \in Tasks, LogStep(k)
    PROVE  DeepInv'
<1> DEFINE log == task[k].log
<1>1. Settled' /\ WellFormed /\ RecordsTypeOK /\ docs \in [Burns -> Seq(Doc)]
  BY LogStepSettled DEF DeepInv, Settled, WellFormed, WatcherTypeOK, RecordsTypeOK
<1>2. task[k].pc \in LogPc /\ log \in Log /\ log.tx \in Burns /\ TrueLog(log)
  BY <1>1, TaskIs DEF LogStep, IgnoreLog, AdmitLog, SaveLog, TakeBack, Revert, RecordRemoved,
                      LogFails, LogPc, Log, DeepInv, LogsAreTrue
<1>3. PICK next : /\ Becomes(k, next)
                  /\ next.found \subseteq task[k].found
                  /\ next.todo \subseteq task[k].todo
                  /\ next.pc \in LogPc => next.log \in task[k].todo \cup {log}
  BY <1>1, LogStepNext
<1>4. /\ \A l \in next.todo : TrueLog(l)
      /\ next.pc \in LogPc => TrueLog(next.log)
      /\ \A t \in next.found : Deep(t)
  BY <1>2, <1>3 DEF DeepInv, LogsAreTrue, FoundAreDeep
<1>5. UNCHANGED chainVars /\ UNCHANGED logs
  BY DEF LogStep, IgnoreLog, AdmitLog, SaveLog, TakeBack, Revert, RecordRemoved, LogFails,
         UnchangedByLog, noticeVars
<1>6. ASSUME NEW t \in Burns, NEW i \in 1..Len(docs'[t])
      PROVE  Mined(t) /\ docs'[t][i].block = minedAt[t]
  <2>1. CASE SaveLog(k)
    <3> DEFINE doc == [status |-> "CONFIRMED", block |-> log.block, clean |-> task[k].clean]
    <3>1. AddTransaction(log.tx, doc)
      BY <2>1 DEF SaveLog
    <3>2. docs' = [docs EXCEPT ![log.tx] = Append(docs[log.tx], doc)]
      BY <3>1 DEF AddTransaction
    <3>3. CASE t = log.tx
      <4>1. docs'[t] = Append(docs[t], doc) /\ docs[t] \in Seq(Doc)
        BY <1>1, <1>2, <3>2, <3>3
      <4>2. (i \in 1..Len(docs[t]) /\ docs'[t][i] = docs[t][i]) \/ docs'[t][i] = doc
        BY <1>6, <4>1
      <4>3. doc.block = minedAt[t] /\ Mined(t)
        BY <1>2, <3>3 DEF TrueLog, TrueIn, Mined
      <4> QED
        BY <4>2, <4>3 DEF DeepInv, DocsAreTrue
    <3>4. CASE t # log.tx
      BY <1>1, <1>6, <3>2, <3>4 DEF DeepInv, DocsAreTrue
    <3> QED
      BY <3>3, <3>4
  <2>2. CASE Revert(k)
    <3>1. MarkReorged(log.tx)
      BY <2>2 DEF Revert
    <3>2. Len(docs'[t]) = Len(docs[t]) /\ \A j \in 1..Len(docs[t]) : docs'[t][j].block = docs[t][j].block
      BY <1>1, <1>2, <3>1, MarkReorgedType
    <3> QED
      BY <1>6, <3>2 DEF DeepInv, DocsAreTrue
  <2>3. CASE ~ SaveLog(k) /\ ~ Revert(k)
    <3>1. UNCHANGED docs
      BY <2>3 DEF LogStep, IgnoreLog, AdmitLog, TakeBack, RecordRemoved, LogFails, recordVars
    <3> QED
      BY <1>6, <3>1 DEF DeepInv, DocsAreTrue
  <2> QED
    BY <2>1, <2>2, <2>3
<1> QED
  BY <1>1, <1>3, <1>4, <1>5, <1>6, CallDeep

\* A backfill reads its logs off the chain.
LEMMA BackfillStepDeep ==
    ASSUME DeepInv, NEW k \in Tasks, BackfillStep(k)
    PROVE  DeepInv'
<1>1. /\ Settled' /\ WellFormed /\ task[k].todo = {} /\ \A t \in task[k].found : Deep(t)
  BY BackfillStepSettled, TaskIs
     DEF DeepInv, FoundAreDeep, Settled, BackfillStep, GetLogs, StoreBackfilled, ReadSums, SetSums,
         BackfillFails, TaskOK, LogPc
<1>2. UNCHANGED <<chainVars, docs, logs>>
  BY DEF BackfillStep, GetLogs, StoreBackfilled, ReadSums, SetSums, BackfillFails,
         recordVars, noticeVars
<1>3. \E next : /\ Becomes(k, next)
                /\ \A l \in next.todo : TrueLog(l)
                /\ next.pc \in LogPc => TrueLog(next.log)
                /\ \A t \in next.found : Deep(t)
  <2>1. CASE GetLogs(k)
    <3> DEFINE found == LogsBetween(task[k].from, LastBlock(k))
    <3>1. PICK next : /\ Becomes(k, next) /\ next.found = task[k].found
                      /\ next.pc \in {"lookup", "setHeight"} /\ next.todo \subseteq found
                      /\ next.pc = "lookup" => next.log \in found
      BY <1>1, <2>1, GetLogsIs
    <3>2. \A l \in found : TrueLog(l)
      BY <1>1, LogsBetweenIs DEF TrueLog, TrueIn, Mined
    <3> QED
      BY <1>1, <3>1, <3>2 DEF LogPc
  <2>2. CASE StoreBackfilled(k) \/ ReadSums(k)
    <3>1. PICK next : /\ Becomes(k, next) /\ next.pc \in {"sums", "setSums"}
                      /\ next.todo = task[k].todo /\ next.found = task[k].found
      BY <1>1, <2>2, StoreBackfilledIs, ReadSumsIs DEF SameCall
    <3> QED
      BY <1>1, <3>1 DEF LogPc
  <2>3. CASE SetSums(k) \/ BackfillFails(k)
    <3>1. AfterBackfill(k) /\ task[k].pc \in {"getLogs", "setHeight", "sums", "setSums"}
      BY <2>3 DEF SetSums, BackfillFails
    <3>2. IdleTask.pc = "idle" /\ IdleTask.todo = {} /\ IdleTask.found = {}
      BY DEF IdleTask
    <3>3. \/ Becomes(k, IdleTask)
          \/ \E next : /\ Becomes(k, next) /\ next.pc = "query" /\ next.todo = {}
                       /\ next.found = task[k].found
      BY <1>1, <3>1, AfterBackfillIs
    <3> QED
      BY <1>1, <3>2, <3>3 DEF LogPc
  <2> QED
    BY <2>1, <2>2, <2>3 DEF BackfillStep
<1> QED
  BY <1>1, <1>2, <1>3, CallDeep DEF DeepInv, DocsAreTrue

\* The query finds what is deep at a block of the past (QueryIsDeep).
LEMMA BlockStepDeep ==
    ASSUME DeepInv, NEW k \in Tasks, BlockStep(k)
    PROVE  DeepInv'
<1>1. /\ Settled' /\ WellFormed /\ task[k].todo = {} /\ \A t \in task[k].found : Deep(t)
      /\ task[k].block \in Nat /\ task[k].block <= head
  BY BlockStepSettled, TaskIs, Numbers
     DEF DeepInv, FoundAreDeep, Settled, InThePast, BlockStep, ReadDbHeight, ReadMetricHeight,
         QueryToBeSent, StoreHeight, BlockFails, TaskOK, LogPc
<1>2. UNCHANGED <<chainVars, docs, logs>>
  BY DEF BlockStep, ReadDbHeight, ReadMetricHeight, QueryToBeSent, StoreHeight, BlockFails,
         recordVars, noticeVars
<1>3. \E next : /\ Becomes(k, next) /\ next.todo = {} /\ next.pc \notin LogPc
                /\ \A t \in next.found : Deep(t)
  <2>1. CASE ReadDbHeight(k)
    BY <1>1, <2>1, ReadDbHeightIs DEF SameCall, LogPc
  <2>2. CASE ReadMetricHeight(k)
    BY <1>1, <2>2, ReadMetricHeightIs DEF SameCall, LogPc
  <2>3. CASE QueryToBeSent(k)
    <3>1. PICK next : /\ Becomes(k, next) /\ next.todo = task[k].todo /\ next.pc = "height"
                      /\ next.found \subseteq ToBeSent(task[k].block)
      BY <1>1, <2>3, QueryToBeSentIs DEF SameCall
    <3>2. \A t \in ToBeSent(task[k].block) : Deep(t)
      BY <1>1, QueryIsDeep
    <3> QED
      BY <1>1, <3>1, <3>2 DEF LogPc
  <2>4. CASE StoreHeight(k) \/ BlockFails(k)
    <3>1. Becomes(k, IdleTask)
      BY <2>4, IdleIsTask DEF StoreHeight, BlockFails, Becomes
    <3>2. IdleTask.pc = "idle" /\ IdleTask.todo = {} /\ IdleTask.found = {}
      BY DEF IdleTask
    <3> QED
      BY <3>1, <3>2 DEF LogPc
  <2> QED
    BY <2>1, <2>2, <2>3, <2>4 DEF BlockStep
<1> QED
  BY <1>1, <1>2, <1>3, CallDeep DEF DeepInv, DocsAreTrue

\* The chain grows, and what was deep stays deep.
LEMMA ChainStepDeep ==
    ASSUME DeepInv, "reorg" \notin Failures, ChainStep
    PROVE  DeepInv'
<1>1. /\ Settled' /\ WellFormed /\ UNCHANGED <<recordVars, task>>
      /\ minedAt \in [Burns -> Nat] /\ head \in Nat
  BY ChainStepSettled DEF DeepInv, Settled, WellFormed, WatcherTypeOK, ChainTypeOK, ChainStep
<1>2. NewBlock
  BY DEF ChainStep, Reorg, Fault
<1>3. PICK new \in SUBSET {t \in Burns : ~ Mined(t)} :
        /\ Mine(new)
        /\ Announce(new) \/ UNCHANGED noticeVars
  BY <1>2 DEF NewBlock
<1>4. /\ head' = head + 1
      /\ minedAt' = [t \in Burns |-> IF t \in new THEN head + 1 ELSE minedAt[t]]
  BY <1>3 DEF Mine
<1>5. \A t \in Burns : Mined(t) => Mined(t)' /\ minedAt'[t] = minedAt[t]
  BY <1>1, <1>4 DEF Mined
<1>6. \A t \in new : Mined(t)' /\ minedAt'[t] = head + 1
  BY <1>1, <1>4 DEF Mined
<1>7. \A l \in Log : TrueLog(l) => TrueIn(l, minedAt')
  BY <1>5 DEF TrueLog, TrueIn, Mined, Log
<1>8. \A t \in Burns : Deep(t) => Deep(t)'
  <2> SUFFICES ASSUME NEW t \in Burns, Deep(t) PROVE Deep(t)'
    OBVIOUS
  <2>1. Confirmations(t) \in Int /\ Confirmations(t)' = Confirmations(t)
    BY ConfirmationsType DEF Confirmations
  <2> QED
    BY <1>1, <1>4, <1>5, <2>1 DEF Deep
<1>9. \A l \in logs' : TrueIn(l, minedAt')
  <2>1. \A l \in logs : l \in Log /\ TrueLog(l)
    BY <1>1, Numbers DEF DeepInv, LogsAreTrue
  <2> DEFINE logOf(t) == [tx |-> t, block |-> head + 1, removed |-> FALSE]
  <2>2. \A l \in logs' : l \in logs \/ \E t \in new : l = logOf(t)
    BY <1>3 DEF Announce, noticeVars
  <2>3. \A t \in new : TrueIn(logOf(t), minedAt')
    BY <1>6 DEF TrueIn, Mined
  <2> HIDE DEF logOf
  <2> QED
    BY <1>7, <2>1, <2>2, <2>3
<1>10. LogsAreTrue'
  <2>1. \A k \in Tasks : /\ task[k].todo \subseteq Log
                         /\ task[k].pc \in LogPc => task[k].log \in Log
    BY <1>1, TaskIs
  <2>2. ASSUME NEW k \in Tasks
        PROVE  /\ \A l \in task[k].todo : TrueIn(l, minedAt')
               /\ task[k].pc \in LogPc => TrueIn(task[k].log, minedAt')
    BY <1>7, <2>1 DEF DeepInv, LogsAreTrue
  <2> QED
    BY <1>1, <1>9, <2>2 DEF LogsAreTrue, TrueLog
<1>11. DocsAreTrue'
  BY <1>1, <1>5 DEF DeepInv, DocsAreTrue, recordVars
<1>12. FoundAreDeep'
  <2>1. \A k \in Tasks : task[k].found \subseteq Burns
    BY <1>1, TaskIs DEF Task
  <2> QED
    BY <1>1, <1>8, <2>1 DEF DeepInv, FoundAreDeep
<1> QED
  BY <1>1, <1>10, <1>11, <1>12 DEF DeepInv

\* A connection that closes or opens adds no log.
LEMMA ConnectionDeep ==
    ASSUME DeepInv, Disconnect \/ Reconnect
    PROVE  DeepInv'
<1>1. Settled' /\ UNCHANGED <<minedAt, head, docs, task>> /\ logs' \subseteq logs
  BY ConnectionSettled DEF DeepInv, Disconnect, Reconnect, recordVars, chainVars, noticeVars
<1>2. LogsAreTrue' /\ DocsAreTrue'
  BY <1>1 DEF DeepInv, LogsAreTrue, TrueLog, DocsAreTrue, Mined
<1>3. FoundAreDeep'
  BY <1>1 DEF DeepInv, FoundAreDeep, Deep, Mined, Confirmations
<1> QED
  BY <1>1, <1>2, <1>3 DEF DeepInv

\* A restart keeps the documents and forgets every log.
LEMMA RestartDeep ==
    ASSUME DeepInv, Restart
    PROVE  DeepInv'
<1>1. /\ Settled' /\ WellFormed'
      /\ \/ \A j \in Tasks : task'[j] = IdleTask
         \/ \E k \in Tasks : /\ task'[k].pc = "getLogs" /\ task'[k].found = {}
                             /\ \A j \in Tasks \ {k} : task'[j] = IdleTask
  BY RestartSettled, RestartIs DEF DeepInv, Settled
<1>2. UNCHANGED <<minedAt, head, docs>> /\ logs' = {}
  BY DEF Restart, chainVars
<1>3. \A j \in Tasks : task'[j].pc \notin LogPc /\ task'[j].found = {} /\ task'[j].todo = {}
  <2>1. IdleTask.pc = "idle" /\ IdleTask.found = {}
    BY DEF IdleTask
  <2>2. \A j \in Tasks : task'[j].pc \notin LogPc /\ task'[j].found = {}
    BY <1>1, <2>1 DEF LogPc
  <2> QED
    BY <1>1, <2>2 DEF WellFormed, TaskOK
<1>4. LogsAreTrue' /\ FoundAreDeep'
  BY <1>2, <1>3 DEF LogsAreTrue, FoundAreDeep
<1>5. DocsAreTrue'
  BY <1>2 DEF DeepInv, DocsAreTrue, Mined
<1> QED
  BY <1>1, <1>4, <1>5 DEF DeepInv

\* There is no log and no document at first.
LEMMA InitDeep == Init => DeepInv
<1> SUFFICES ASSUME Init PROVE DeepInv
  OBVIOUS
<1>1. IdleTask.pc = "idle" /\ IdleTask.todo = {} /\ IdleTask.found = {}
  BY DEF IdleTask
<1>2. LogsAreTrue /\ FoundAreDeep
  BY <1>1 DEF Init, ChainInit, LogsAreTrue, FoundAreDeep, LogPc
<1>3. DocsAreTrue
  BY DEF Init, RecordsInit, DocsAreTrue
<1> QED
  BY <1>2, <1>3, InitSettled DEF DeepInv

\* Without reorganizations every step keeps it.
LEMMA NextDeep == "reorg" \notin Failures => (DeepInv /\ [Next]_vars => DeepInv')
<1> SUFFICES ASSUME "reorg" \notin Failures, DeepInv, [Next]_vars PROVE DeepInv'
  OBVIOUS
<1>1. CASE ChainStep
  BY <1>1, ChainStepDeep
<1>2. ASSUME NEW k \in Tasks,
             TakeLog(k) \/ TakeBlock(k) \/ LogStep(k) \/ BackfillStep(k) \/ BlockStep(k)
      PROVE  DeepInv'
  BY <1>2, TakeDeep, LogStepDeep, BackfillStepDeep, BlockStepDeep
<1>3. CASE Disconnect \/ Reconnect
  BY <1>3, ConnectionDeep
<1>4. CASE Restart
  BY <1>4, RestartDeep
<1>5. CASE UNCHANGED vars
  <2>1. Settled' /\ UNCHANGED <<minedAt, head, docs, task, logs>>
    BY <1>5, NextSettled DEF DeepInv, vars, recordVars, chainVars, noticeVars
  <2>2. LogsAreTrue' /\ DocsAreTrue'
    BY <2>1 DEF DeepInv, LogsAreTrue, TrueLog, DocsAreTrue, Mined
  <2>3. FoundAreDeep'
    BY <2>1 DEF DeepInv, FoundAreDeep, Deep, Mined, Confirmations
  <2> QED
    BY <2>1, <2>2, <2>3 DEF DeepInv
<1> QED
  BY <1>1, <1>2, <1>3, <1>4, <1>5 DEF Next

\* A burn goes to the submission queue only at the depth that the policy asks for
\* its amount, however late the answer of the query comes and however the
\* announcements were reordered, as long as the chain does not reorganize.
THEOREM HandedDeep ==
    ASSUME "reorg" \notin Failures
    PROVE  Spec => HandedBurnsAreDeep
<1>1. DeepInv /\ [Next]_vars =>
        [\A t \in handed' \ handed : Mined(t) /\ minedAt[t] + Confirmations(t) <= head]_vars
  <2> SUFFICES ASSUME DeepInv, Next, NEW t \in handed' \ handed
               PROVE  Mined(t) /\ minedAt[t] + Confirmations(t) <= head
    OBVIOUS
  <2>1. UNCHANGED handed \/ \E k \in Tasks : StoreHeight(k)
    BY DEF Next, ChainStep, TakeLog, TakeBlock, LogStep, IgnoreLog, AdmitLog, SaveLog, TakeBack,
           Revert, RecordRemoved, LogFails, UnchangedByLog, BackfillStep, GetLogs, StoreBackfilled,
           ReadSums, SetSums, BackfillFails, BlockStep, ReadDbHeight, ReadMetricHeight,
           QueryToBeSent, BlockFails, Disconnect, Reconnect, Restart
  <2>2. PICK k \in Tasks : handed' = handed \cup task[k].found
    BY <2>1 DEF StoreHeight
  <2> QED
    BY <2>2 DEF DeepInv, FoundAreDeep, Deep
<1>2. Init => DeepInv
  BY InitDeep
<1>3. DeepInv /\ [Next]_vars => DeepInv'
  BY NextDeep
<1> QED
  BY <1>1, <1>2, <1>3, PTL DEF Spec, HandedBurnsAreDeep

-----------------------------------------------------------------------------
(***************************************************************************)
(* Reorganizations.  The mark and the entry in the removed transactions    *)
(* are two queries: one that fails, or a process that stops between them,  *)
(* leaves the mark without the entry, and the history names the burn.      *)
(***************************************************************************)

\* The inductive form of ReorgsAreReported.
ReorgInv == WellFormed /\ ReorgsAreReported

\* A step of one call, which marks no transaction, or is about to report the one
\* that it marks.
LEMMA CallReports ==
    ASSUME ReorgInv, NEW k \in Tasks, NEW next, Becomes(k, next),
           removedTxs \subseteq removedTxs', cutOff \subseteq cutOff',
           task[k].pc = "remove" => \/ task[k].log.tx \in removedTxs'
                                    \/ <<task[k].log.tx, "remove">> \in cutOff',
           \A t \in Burns : FoundStatus(t)' = "REORGED" =>
              FoundStatus(t) = "REORGED" \/ (next.pc = "remove" /\ next.log.tx = t)
    PROVE  ReorgsAreReported'
<1> SUFFICES ASSUME NEW t \in Burns, FoundStatus(t)' = "REORGED"
             PROVE  \/ t \in removedTxs'
                    \/ \E j \in Tasks : task'[j].pc = "remove" /\ task'[j].log.tx = t
                    \/ <<t, "remove">> \in cutOff'
  BY DEF ReorgsAreReported
<1>1. task'[k] = next /\ \A j \in Tasks \ {k} : task'[j] = task[j]
  BY BecomesTasks DEF ReorgInv
<1>2. CASE next.pc = "remove" /\ next.log.tx = t
  BY <1>1, <1>2
<1>3. CASE FoundStatus(t) = "REORGED"
  <2>1. \/ t \in removedTxs
        \/ \E j \in Tasks : task[j].pc = "remove" /\ task[j].log.tx = t
        \/ <<t, "remove">> \in cutOff
    BY <1>3 DEF ReorgInv, ReorgsAreReported
  <2>2. ASSUME NEW j \in Tasks, task[j].pc = "remove", task[j].log.tx = t
        PROVE  \/ t \in removedTxs'
               \/ task'[j].pc = "remove" /\ task'[j].log.tx = t
               \/ <<t, "remove">> \in cutOff'
    BY <1>1, <2>2
  <2> QED
    BY <2>1, <2>2
<1> QED
  BY <1>2, <1>3

\* A failure of the query that reports a removal is remembered.
LEMMA FailureIsNamed ==
    ASSUME NEW k \in Tasks, task[k].pc = "remove"
    PROVE  <<task[k].log.tx, "remove">> \in RemovalInHand(k)
BY DEF RemovalInHand

\* A step that leaves the records alone marks no transaction.
LEMMA SameStatus == UNCHANGED docs => \A t \in Burns : FoundStatus(t)' = FoundStatus(t)
BY DEF FoundStatus, Recorded

\* A removal is marked only by a call that reports it next.
LEMMA LogStepReports ==
    ASSUME ReorgInv, NEW k \in Tasks, LogStep(k)
    PROVE  ReorgsAreReported'
<1> DEFINE log == task[k].log
<1>1. /\ WellFormed /\ RecordsTypeOK
      /\ task[k].pc \in LogPc => log \in Log /\ log.tx \in Burns
  BY TaskIs DEF ReorgInv, WellFormed, WatcherTypeOK, Log
<1>2. CASE LogFails(k)
  <2>1. /\ UNCHANGED <<docs, removedTxs>> /\ EndOfLog(k)
        /\ cutOff' = cutOff \cup RemovalInHand(k)
    BY <1>2 DEF LogFails, recordVars
  <2>2. PICK next \in Proceed(task[k], task[k].todo) : Becomes(k, next)
    BY <1>1, <2>1, EndOfLogIs
  <2>3. next.pc # "remove"
    <3>1. IdleTask.pc # "remove"
      BY DEF IdleTask
    <3> QED
      BY <1>1, <2>2, <3>1, TaskIs, ProceedIs
  <2> QED
    BY <1>1, <2>1, <2>2, <2>3, FailureIsNamed, SameStatus, CallReports
<1>3. CASE IgnoreLog(k)
  <2>1. UNCHANGED <<docs, removedTxs, cutOff>> /\ task[k].pc = "lookup" /\ EndOfLog(k)
    BY <1>3 DEF IgnoreLog, recordVars
  <2> QED
    BY <1>1, <2>1, EndOfLogIs, SameStatus, CallReports
<1>4. CASE AdmitLog(k)
  <2>1. UNCHANGED <<docs, removedTxs, cutOff>> /\ task[k].pc = "lookup"
    BY <1>4 DEF AdmitLog
  <2> QED
    BY <1>1, <1>4, <2>1, AdmitLogIs, SameStatus, CallReports
<1>5. CASE SaveLog(k)
  <2> DEFINE doc == [status |-> "CONFIRMED", block |-> log.block, clean |-> task[k].clean]
  <2>1. /\ task[k].pc = "save" /\ AddTransaction(log.tx, doc) /\ EndOfLog(k)
        /\ UNCHANGED <<removedTxs, cutOff>>
    BY <1>5 DEF SaveLog
  <2>2. doc \in Doc /\ log.tx \in Burns /\ doc.status # "REORGED"
    BY <1>1, <2>1, TaskIs DEF Doc, Task, Log, LogPc
  <2> HIDE DEF doc
  <2>3. /\ docs'[log.tx] # <<>>
        /\ docs[log.tx] # <<>> => docs'[log.tx][1] = docs[log.tx][1]
        /\ docs[log.tx] = <<>> => docs'[log.tx][1] = doc
        /\ \A u \in Burns \ {log.tx} : docs'[u] = docs[u]
    BY <1>1, <2>1, <2>2, AddTransactionType
  <2>4. \A t \in Burns : FoundStatus(t)' = "REORGED" => FoundStatus(t) = "REORGED"
    BY <2>2, <2>3 DEF FoundStatus, Recorded
  <2> QED
    BY <1>1, <2>1, <2>4, EndOfLogIs, CallReports
<1>6. CASE TakeBack(k)
  <2>1. UNCHANGED <<docs, removedTxs, cutOff>> /\ task[k].pc = "lookup"
    BY <1>6 DEF TakeBack, recordVars
  <2> QED
    BY <1>1, <1>6, <2>1, RemovalIs, SameStatus, CallReports
<1>7. CASE Revert(k)
  <2>1. /\ UNCHANGED <<removedTxs, cutOff>>
        /\ task[k].pc = "revert" /\ MarkReorged(log.tx)
    BY <1>7 DEF Revert
  <2>2. PICK next : Becomes(k, next) /\ next.pc = "remove" /\ next.log = log
    BY <1>1, <1>7, <2>1, RemovalIs DEF SameCall
  <2>3. \A u \in Burns \ {log.tx} : docs'[u] = docs[u]
    BY <1>1, <2>1, MarkReorgedType DEF LogPc
  <2>4. \A u \in Burns \ {log.tx} : FoundStatus(u)' = FoundStatus(u)
    BY <2>3 DEF FoundStatus, Recorded
  <2> QED
    BY <2>1, <2>2, <2>4, CallReports
<1>8. CASE RecordRemoved(k)
  <2>1. /\ UNCHANGED <<docs, cutOff>> /\ EndOfLog(k)
        /\ removedTxs' = removedTxs \cup {log.tx}
    BY <1>8 DEF RecordRemoved, AddRemovedTX
  <2> QED
    BY <1>1, <2>1, EndOfLogIs, SameStatus, CallReports
<1> QED
  BY <1>2, <1>3, <1>4, <1>5, <1>6, <1>7, <1>8 DEF LogStep

\* The other calls know nothing of removals.
LEMMA OtherStepReports ==
    ASSUME ReorgInv, NEW k \in Tasks,
           TakeLog(k) \/ TakeBlock(k) \/ BackfillStep(k) \/ BlockStep(k)
    PROVE  ReorgsAreReported'
<1>1. WellFormed
  BY DEF ReorgInv
<1>2. UNCHANGED <<docs, removedTxs, cutOff>> /\ task[k].pc # "remove"
  <2>1. CASE TakeLog(k) \/ TakeBlock(k)
    BY <2>1 DEF TakeLog, TakeBlock, recordVars
  <2>2. CASE BackfillStep(k)
    BY <2>2 DEF BackfillStep, GetLogs, StoreBackfilled, ReadSums, SetSums, BackfillFails, recordVars
  <2>3. CASE BlockStep(k)
    BY <2>3 DEF BlockStep, ReadDbHeight, ReadMetricHeight, QueryToBeSent, StoreHeight, BlockFails,
                recordVars
  <2> QED
    BY <2>1, <2>2, <2>3
<1>3. \E next : Becomes(k, next)
  BY <1>1, TakeLogIs, TakeBlockIs, BackfillStepWellFormed, BlockStepWellFormed
<1> QED
  BY <1>2, <1>3, SameStatus, CallReports

\* A stop takes every report that is under way.
LEMMA RestartReports ==
    ASSUME ReorgInv, Restart
    PROVE  ReorgsAreReported'
<1> SUFFICES ASSUME NEW t \in Burns, FoundStatus(t)' = "REORGED"
             PROVE  t \in removedTxs' \/ <<t, "remove">> \in cutOff'
  BY DEF ReorgsAreReported
<1>1. FoundStatus(t) = "REORGED" /\ UNCHANGED removedTxs
  BY SameStatus DEF Restart
<1>2. \/ t \in removedTxs
      \/ \E j \in Tasks : task[j].pc = "remove" /\ task[j].log.tx = t
      \/ <<t, "remove">> \in cutOff
  BY <1>1 DEF ReorgInv, ReorgsAreReported
<1>3. ASSUME NEW j \in Tasks
      PROVE  RemovalInHand(j) \subseteq cutOff'
  BY DEF Restart
<1>4. cutOff \subseteq cutOff'
  BY DEF Restart
<1> QED
  BY <1>1, <1>2, <1>3, <1>4, FailureIsNamed

\* Nothing is marked at first.
LEMMA InitReports == Init => ReorgInv
<1> SUFFICES ASSUME Init PROVE ReorgInv
  OBVIOUS
<1>1. \A t \in Burns : FoundStatus(t) = "NONE"
  BY DEF Init, RecordsInit, FoundStatus, Recorded
<1> QED
  BY <1>1, InitWellFormed DEF ReorgInv, ReorgsAreReported

\* Every step keeps the marks reported.
LEMMA NextReports == ReorgInv /\ [Next]_vars => ReorgInv'
<1> SUFFICES ASSUME ReorgInv, [Next]_vars PROVE ReorgsAreReported'
  BY NextWellFormed DEF ReorgInv
<1>1. ASSUME UNCHANGED <<docs, removedTxs, task>>, cutOff \subseteq cutOff'
      PROVE  ReorgsAreReported'
  BY <1>1, SameStatus DEF ReorgInv, ReorgsAreReported
<1>2. CASE UNCHANGED vars
  BY <1>1, <1>2 DEF vars, recordVars
<1>3. CASE ChainStep \/ Disconnect \/ Reconnect
  BY <1>1, <1>3 DEF ChainStep, Disconnect, Reconnect, recordVars
<1>4. ASSUME NEW k \in Tasks,
             TakeLog(k) \/ TakeBlock(k) \/ LogStep(k) \/ BackfillStep(k) \/ BlockStep(k)
      PROVE  ReorgsAreReported'
  BY <1>4, LogStepReports, OtherStepReports
<1>5. CASE Restart
  BY <1>5, RestartReports
<1> QED
  BY <1>2, <1>3, <1>4, <1>5 DEF Next

\* A transaction marked as reorganized is among the removed ones or about to be,
\* whatever the order in which handlers of the burn and of its removal run and
\* whatever fails; the only exceptions are the burns of which the query between
\* the mark and the entry failed, or was the one at which the process stopped.
THEOREM ReorgsReported == Spec => []ReorgsAreReported
<1>1. Init => ReorgInv
  BY InitReports
<1>2. ReorgInv /\ [Next]_vars => ReorgInv'
  BY NextReports
<1>3. ReorgInv => ReorgsAreReported
  BY DEF ReorgInv
<1> QED
  BY <1>1, <1>2, <1>3, PTL DEF Spec

=============================================================================
