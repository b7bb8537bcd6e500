# A verification development of the Agoric CCTP watcher

The watcher ("off-chain worker") listens for CCTP burns on EVM chains, finds the
ones that are destined to Agoric, and submits evidence of them to Agoric once they
are confirmed. This directory holds TLA+ models of that program, TLC
configurations that check them on small instances, and theorems that TLAPS proves
for every instance. Paths such as
`src/queue.ts` are relative to the repository.

## Inventory

The program is one Node process: everything between two `await`s is atomic, and
everything else interleaves. Handlers of websocket messages are `async`, and the
libraries that call them do not wait for their promises, so several handlers of the
same kind run at once. The state that survives a restart is in MongoDB.

| Component | State | Operations | Interacts with |
|---|---|---|---|
| EVM listener, `src/listener.ts` | none of its own | handler of a `DepositForBurn` log; handler of a block: gap check, query, heights, enqueue, window | backfill, processor, database, height gauge, submission queue |
| Backfill, `src/backfill.ts` | none | `backfillChain` for a gap, `backfill` on a start | provider, processor, database, window |
| Burn processor, `src/processor.ts` | `transactions`, removed transactions (database) | record a burn with its risks; mark one as reorganized; resolve its recipient | window, Noble accounts, worker, LCD node |
| Rate limit window, `src/state.ts` | entries of recent blocks, in memory | add, increment or create, replace, sum | processor, listener, backfill |
| EVM connection, `src/lib/evm-client.ts` | one provider per chain | make, replace after a close, close a stale one; retried queries | listener, backfill, window, chain policy |
| Submission queue, `src/queue.ts` | queue, set of queued hashes, lock | `addToQueue`, `processQueue` | listener and offer monitor feed it; it drives the submitter |
| Submitter, `src/submitter.ts` | account sequence, in memory | `submitToAgoric`, `monitorAgoric` | `submissions` (database), `agd`, RPC nodes |
| Offer monitor, `src/lib/agoric.ts` | last offer id (memory and database) | handler of an Agoric block, `getNewOffers` | `submissions`, submission queue |
| Agoric RPC rotation, `src/config/config.ts` | active index | `nextActiveAgoricRPC` | checks of `monitorAgoric`, close handler of the websocket |
| Noble resolver, `src/lib/noble-lcd.ts` | Noble accounts (database) | handler of a Noble block | `transactions`, worker, LCD node |
| Addresses, `src/utils/address.ts` | none | encode, decode | processor |
| Chain policy, `src/lib/agoric.ts` | policy, parameters, invitation | reads at the start and later | every other part |
| Marshalling, `src/utils/marshaller.ts` | translation table | slot to object and back | chain policy |
| Metrics, `src/metrics.ts` | gauges in memory, State documents | increment and save, load, block heights | every handler; the gap check reads the heights |
| Process start, `src/index.ts` | what `main` waits for | `main`, signals, `uncaughtException` | all of them |
| Configuration, `src/config/config.ts` | environment | read once, exit on what is not valid | all of them |
| HTTP API, `src/api.ts` | none | two queries | database |

What is hard here:

* interleaving: handlers of blocks and logs overlap, a backfill runs beside the
  handlers of the logs it reads, EVM and Agoric handlers share the queue, two handlers
  resolve one Noble address, periodic checks overlap with each other and with the
  close handlers of sockets that they close;
* stale reads: the height of Agoric is read once per activation of the queue, a
  submission record is read before the broadcast, a burn is looked up before it is
  inserted, sums are read before they are installed;
* partial failure and crashes: `agd` may fail after the node took the offer, the
  record of an offer may fail, heights and the last offer id are stored before the
  work they stand for is finished, `main` may reject and leave the process half started;
* order and loss of messages: blocks arrive late, reordered or not at all; RPC nodes
  trail the chain; offers expire, are evicted and resubmitted;
* boundaries: timeout heights, confirmations, the size of the window, the number of
  offers a scan looks at.

What makes each component correct: evidence is submitted one at a time (the account
has one sequence number); a transaction has at most one offer that can still be
included; the recorded verdict is one Agoric gave; every confirmed burn gets a
verdict; no block is left behind with a burn in it unseen; a burn is submitted only
when it is deep enough in the chain; the amounts recorded without risks respect the
window; burns to one address have one recipient, which stays what it is once it is
known; a chain has exactly one connection and gets its listener back; a node that
answers becomes the active one; a counter never exceeds its increments.

## Modules

Submission side, each module extending the one before:

| Module | Models | State |
|---|---|---|
| `SubmissionStore` | `submissions` and its queries, `src/lib/db.ts` | none (operators on a collection) |
| `AgoricNetwork` (external) | the chain, mempool, wallet records, lagging nodes | `aHeight`, `mempool`, `offers`, `faults` |
| `SubmissionQueue` | `src/queue.ts`, `submitToAgoric` | `subs`, `queue`, `inQueue`, `isProcessing`, `worker`, `watcherSeq`, history `orphaned` |
| `OfferMonitor` | handler of Agoric blocks, `getNewOffers` | `lastOfferId`, `monitor` |
| `EvidencePipeline` | the composition with the sending half of `src/listener.ts`, crash and restart | `confirmed`, `evm` |
| `EvidenceDelivery` | abstract specification | `confirmed`, `attested`, `disputed`, `verdict` |
| `EvidencePipeline_proofs`, `EvidenceDelivery_proofs` | theorems | |

Ingestion side, likewise:

| Module | Models | State |
|---|---|---|
| `BlockWindow` | window of `src/state.ts`, `getBlockSums` | none (operators) |
| `BurnRecords` | `processCCTPBurnEventLog`, `transactions` | `docs`, `removedTxs`, `entries` |
| `EvmChain` (external) | one chain and its websocket | `head`, `minedAt`, `listening`, `blocks`, `logs`, `faults` |
| `EvmWatcher` | `src/listener.ts`, `src/backfill.ts`, heights, reconnection, restart | `dbHeight`, `metricHeight`, `task`, `handed`, history `lost`, `cutOff` |
| `EvmHistory` | what the window has been through (not code) | history `outOfTurn` |
| `BlockWindow_proofs`, `EvmWatcher_proofs`, `EvmHistory_proofs` | theorems | |

Resolution of recipients:

| Module | Models | State |
|---|---|---|
| `NobleAddress` | `src/utils/address.ts` | none (operators on words of bytes) |
| `NobleAccounts` | the collection of Noble accounts; the worker and the LCD node (external) | `cached`, `worker`, `lcd` |
| `NobleResolver` | `getOCWForwardingAccount`, the handler of a log up to the insertion, the handler of Noble blocks | `logs`, `recipient`, `age`, `open`, `call`, history `vague` |
| `NobleResolver_proofs` | theorems | |

The process and its connections:

| Module | Models | State |
|---|---|---|
| `Configuration` | `src/config/config.ts` | `env` |
| `AgoricRpc` | active index, `monitorAgoric`, the websocket to Agoric | `active`, `check`, `monitoring`, `socket`, `synced` (external) |
| `EvmConnection` | `src/lib/evm-client.ts`, listeners, staleness check | `policy`, `provider`, `stray`, `timers`, `asking`, `summing`, `listeners`, `heard`, `stored`, `checking` |
| `Gauges` | counters of `src/metrics.ts` and the State documents | `count`, `writes`, `states`, history `counted` |
| `WatcherProcess` | `src/index.ts` and the composition of the four above | `main`, `backfills`, `isConnected`, `accepted` |
| `WatcherProcess_proofs` | theorems | |
| `Faults` | the bound on failures of these modules (not code) | `faults` |

On its own: `ClientMarshaller`, the translation table of `src/utils/marshaller.ts`, with
`ClientMarshaller_proofs`. Its objects are numbered without a bound, and what there is to
say of it is proved rather than run.

The `MC` modules give the symmetry sets and the constants that a configuration cannot
spell out.

The two sides meet in two sets. `confirmed` of the pipeline is what the query for
transactions to be sent may return; `handed` of the watcher is what it has returned.
`QueryToBeSent` takes any part of `handed` for already submitted, which is every
behaviour the submission side can show it. `NobleResolver` looks at the stretch of a
log's handler that `EvmWatcher` passes over (its queries and the resolution), for burns that
come once and without the risks; the two share the insertion. `EvmConnection` looks inside
the reconnection, which is one step of `EvmWatcher`.

### How code becomes actions

An asynchronous call in progress is a record with a program counter (`worker[w]`,
`monitor[m]`, `evm[b]`, `task[k]`); each `await` is a value of the counter and the code
between two awaits is one action. Several workers, monitors, handlers or tasks are
several activations of the same code. A few awaits have no value of their own: the
timestamp, sender and forwarding account queries of a log come before anything
that matters is read (a log may lie in `logs`, and a backfill's log at `lookup`, as long
as it likes); the scan of the wallet's records and the two awaits of a reconnection
are one step each.

`Worker` follows `processQueue` and `submitToAgoric`: `status` (the RPC status),
`read` (`getSubmission`), `exec` (its answer is there; `agd` runs synchronously), `record`
(`addSubmission`). `Resync` is the recursive call after a sequence mismatch. `Task`
follows the handlers of logs and blocks and `backfillChain`: see the comment at `Pc`. `Call` of
`NobleResolver` follows the handlers of a log and of a Noble block, which share the
resolution. `main` of `WatcherProcess` is what `main` of `src/index.ts` waits for; `timers`,
`asking` and `summing` of a chain are the three awaits of a reconnection.

Failures are counted by `faults` and bounded by `MaxFaults`; they strike every query,
RPC and process separately. `orphaned` (offers accepted and never recorded), `lost`
(burns that a failing or stopped call had in its hands) and `cutOff` (removals that a
failing query, a disconnection or a stop took from their handler, with the await it was
at) are history variables: the code does not read them, and each is written only by the
failure it is about.

`EvmHistory` adds another to `EvmWatcher`, so that the rate limit can be stated of every
behaviour and not only of those in which handlers take turns and nothing fails.
`outOfTurn` is set by the steps after which the window of recent blocks is not what its
comments take it for:

* `CountsLate`: a burn is admitted after the height of a later block was stored, or gets an
  entry behind that of a later block; or by the backfill of a start, which counts against
  a window that is still empty (`src/processor.ts:185,206`);
* `StoresLate`: the handler of a block makes its entry after that of a later block, or while
  another handler rebuilds the window (`src/listener.ts:98-122`);
* `StoresEarlierHeight`: a backfill moves the stored height back (`src/backfill.ts:94`);
* `ReplacesCounted`: the sums that a backfill installs were read before a burn was recorded
  or counted, or are older than an entry they replace (`src/backfill.ts:98`);
* `LeavesUnbuilt`: a backfill that fails has recorded logs, or is the one of a start, and its
  sums are not installed (`src/backfill.ts:100`);
* `StartsUnbuilt`: a start that finds no stored height and so rebuilds nothing.

Abstractions worth knowing:

* Every caller of `addToQueue` passes evidence with status CONFIRMED, so the
  REORGED branches of `submitToAgoric` are unreachable, `CANCELLED` is never written and
  one document per hash is enough. `StoreSane` checks that.
* An offer's id (a time) is its position in the wallet's records; the account
  sequence expected by the chain is the number of offers, committed and pending.
* Offers are published with their final result only, and the memory and database
  copies of the last offer id are one variable. `getNewOffers` decides on its conflicts
  when it scans, then marks them.
* Agoric takes a broadcast when its sequence fits and the chain is not past its
  timeout height. A node may report a height up to `MaxLag` behind.
* Burns of `EvmWatcher` go to a forwarding account of the settlement account that is
  known; `NobleResolver` has the others. No caller sets the parameter `backfilling` of
  `processCCTPBurnEventLog`, so the window always comes from memory.
* A recipient is the class that the code tells apart: the settlement account, another
  account (`stranger`), an address without an EUD parameter (`plain`). The LCD node's
  answer is checked for that parameter, the worker's is not. Both keep to an answer
  once they have one, but not to each other's.
* The age of a document of an unknown recipient is a clock of its own, up to one more
  than MINUTES_HOLDING_UNKNOWN_FA.
* A request over a socket that closes is never answered (ethers keeps it): what awaits
  one ends there, and a backfill that does is `hung`.
* `heard` stands for a block height younger than the staleness limit; a minute between
  two checks is long enough for a reconnection and a block, unless the failure `slow`
  says otherwise.
* The three counters are one gauge of one network. Gauges that only show whether a node
  is alive are left out.
* A rejected promise in a block handler reaches the `uncaughtException` handler of
  `src/index.ts`, which logs it: the process goes on.
* `startHeight` of the chain's configuration is 0, the number before the first block.
* The provider skips a block with its logs, or announces both. A reorganization drops
  a burn that does not have its confirmations yet; numbers of blocks are not
  announced twice.

## Runs

| Run | Instance | Shows |
|---|---|---|
| `verdict` | one transaction, two workers, one monitor, one failure, nodes up to one block behind (`MaxLag` 1), a scan of one offer (`MaxOffersToLoop` 1), fairness | `TypeOK`, `OfferInv`, `VerdictsAreOnChain`, `TimeoutNeverShrinks`, `EvidenceGetsVerdict` |
| `overlap` | one transaction, two monitors, two EVM handlers, no failure | `AtMostOneLiveOffer`, `QueueConsistent`, `SubmissionsSerialized`; the pipeline implements `EvidenceDelivery` |
| `stale_run` | two transactions, fairness | violated: `EvidenceGetsSubmitted` |
| `covered` | one burn, two tasks, three blocks, two failures of any kind but a reorganization, fairness | `TypeOK`, `BurnsAreCovered`, `BurnGetsRecorded` |
| `reorgs` | one burn, two tasks, two failures (a reorganization, failing queries, disconnections, stops), reordered announcements, fairness | `ReorgsAreReported`, `ReorgGetsReported` |
| `amounts` | two burns of two amounts, two thresholds, a window of four, three blocks, two tasks, one failure of any kind but a reorganization | `HandedBurnsAreDeep`, `HalfWindowRespected` |
| `full_window` | two burns, a window of two | violated: `WindowRespected` |
| `reorged` | one burn, a reorganization | violated: `HandedBurnsAreDeep` |
| `restart` | one burn, a stop | violated: `RestartLosesNothing` |
| `once` | one burn, a skipped block | violated: `RecordedOnce` |
| `resolver` | two burns to two addresses (worker and Noble disagree about one, the other is not for Agoric), two calls, two retries, a holding time of one, two failures of any kind, fairness | `TypeOK`, `RecipientsAgree`, `VagueAfterRetries`, `RecipientIsFinal`, `UnknownGetsResolved` |
| `process` | two chains, two nodes, two checks, two increments, three environments, two failures of any kind, fairness | `TypeOK`, `OneConnection`, `NeverOvercounts`, `ChainIsWatched`, `SyncedNodeIsActive` |

Bounds. `TxTimeoutBlocks` is 1 and `MaxHeight` 2, so an offer can be sent, expire, be
requeued and be sent again, twice; `MaxSeq` is above every sequence number that these
broadcasts can reach. Two workers are one more than the lock admits. What several
transactions do to each other (the queue, the unique index on `offerId`, offers of one
that push those of another out of the scan) is beyond the passing runs, which have one.
The safety of it is in the theorems, which have any number; that a transaction gets its
verdict although others fill the scan is not checked. Overlapping monitors and failures
are not in one passing run either: `overlap` has the first, `verdict` the second, the
theorems both.

Two tasks are what an overlap takes: a backfill beside a log, or two block handlers with a
regressing height. Three EVM blocks give a gap, the block that reveals it and one more.
Two failures let one failure strike the recovery from another; in `reorgs` one of them is
the reorganization and the other the query or the stop that loses its report. In `amounts`
half of the window of four is two blocks, and three blocks give two of these halves.

Two calls of the resolver are what it takes to ask for one address twice at once, and
two burns for one to stand in the other's way. A holding time of 1 has an age within
it, at its end and past it. Two retries have a first, a last, and an end without an answer.
Of the two chains of `process`, one may join the policy late; one environment leaves a
chain without a URL, another has fewer websockets than RPC nodes. Two checks of the RPC
overlap, and two nodes are enough for each to move the index that the other has read;
which of two synced nodes is kept is not promised. Two failures are a socket that closes
while another closed, a stop after a failed write, a request that fails in the
reconnection after a disconnection. Two increments have two writes under way, which land
in either order, before and after a load. A chain that the policy lists and no
configuration has is in the theorems only.

Where the model may stop because its blocks have run out, or because the process has
ended or hangs with nobody to restart it, the configuration says `CHECK_DEADLOCK FALSE`.
Symmetry is used in runs that check safety or step properties of interchangeable
transactions and handlers, never with liveness.

Fairness. The event loop runs a step that is ready and a query that is sent is
answered: weak fairness of every step in progress, failures excluded (`Steady`). Chains
go on producing blocks and including offers. `FetchStatus` is strongly fair, since the
step competes with the answer "syncing": a node is not syncing for ever. `FullScan` is
strongly fair for the same reason: nodes that lag answer too, and once in a while one
that does not. In `NobleResolver` calls go on, logs and Noble blocks reach a
handler, and a closed websocket is opened again; nothing is assumed of the clock, of what
the worker or Noble come to know, or of when the operator stops the process. In
`WatcherProcess` the steps of `main`, of checks and of reconnections go on, open chains
are heard, and the container restarts a process that ended (`src/docker-compose.yml`);
it is not assumed that the operator ever accepts the invitation. Nothing is assumed of how
often anything fails; the bound on failures means that they stop. `OutOfBlocks`
excuses a transaction or burn for which the modelled blocks
end before the code would look at it again. `ChainIsWatched` and `SyncedNodeIsActive` say
"again and again", not "from some point on": a check closes a socket that was
quiet, and two overlapping checks move the index from a good node and back.
`RoundsAreWhole` excuses what `src/lib/evm-client.ts:167` does with a chain that has no
provider (below).

## Where the code departs from what it says

Shown by the runs that end in a violation:

* `stale_run`: `src/queue.ts:29` reads the height once per activation. While new evidence
  keeps the activation alive, timeout heights fall behind the chain and every
  broadcast is rejected, against README.md:32, "until they succeed".
* `full_window`: a block with a burn has two entries in the window, so amounts leave
  the window early (`src/state.ts:100`, README.md:48): on a chain with a burn in every block,
  after half of it. Over half of the window the limit is respected, however handlers overlap,
  as long as no step is out of turn (`amounts`, and the theorem `HalfWindow`); `EvmHistory`
  above lists these steps, and after each of them the window may lack amounts that are
  recorded. Over one block more than half it need not be respected even so, since the last
  of these blocks may have both its entries before its last log comes.
* `reorged`: the query for transactions to be sent ignores the status REORGED
  (`src/lib/db.ts:469`), and `src/listener.ts:104` sends what it returns as CONFIRMED.
* `restart`: the stored height passes burns that handlers still hold (`src/listener.ts:98`);
  after a stop, the backfill starts from that height (README.md:30).
* `once`: lookup and insertion of a burn are separate queries (`src/processor.ts:110,213`,
  README.md:13-16).

Seen while modelling, and part of the models as the code has them:

* `src/lib/db.ts:519` asks for timeout heights less than the new height, README.md:38 for
  equal or less; `src/lib/db.ts:474` asks for `$lte`, README.md:19 for less.
* `src/submitter.ts:20` applies below the timeout height only: evidence queued before its
  verdict arrived is sent again after a success.
* `src/lib/agoric.ts:406` saves the last offer id before the statuses are written.
* `src/backfill.ts:100` swallows a failed `getLogs`, and the block handler goes on to store
  its height: the burns of the range are in `lost`.
* `src/state.ts:103` removes one entry per block, whatever the number of entries.
* `src/processor.ts:159-167` refuses a burn whose recipient is not the settlement account;
  the handler of Noble blocks that finds such a recipient later does not
  (`src/lib/noble-lcd.ts:192`). Burns are removed only when a handler looks at them, so one
  that is too old to be looked at stays, against README.md:40, "maximum".
* `src/processor.ts:45` caches for ever that an address is not for Agoric.
* `src/lib/evm-client.ts:113,141`: after the last retry the timestamp is 0 and the sender
  "TIMEOUT", and they are recorded. A request over a socket that has closed is not retried:
  it never fails.
* `src/lib/evm-client.ts:167` throws for a chain that joined the policy while the process
  runs, and the chains after it are not checked.
* `src/lib/evm-client.ts:48` and `src/listener.ts:136` may both listen to one provider.
* `src/index.ts:58` waits for a backfill that never ends when its socket closes.
  `src/index.ts:74,110`: a `main` that rejects leaves the process half started, and
  `restart: always` (`src/docker-compose.yml`) only helps a process that exits.
* `src/config/config.ts:53` demands a URL for no chain, so a configured chain may have none.
  `src/config/config.ts:181` does not look at AGORIC_RPC_CHECK_INTERVAL.
* Rotation of the active node leaves the websocket where it is (`src/lib/agoric.ts:101`).
* `src/lib/db.ts:452` saves gauges to whichever document comes first, `src/metrics.ts` loads
  `node-state`; the gauges are loaded after the sockets are open (`src/index.ts:50-55`).
* Two handlers of Noble blocks that resolve one burn both count it (`src/lib/noble-lcd.ts:194`).
* `src/lib/agoric.ts:237` reads policy and settlement account one after the other. They
  are read again "every 5 minutes" (`src/lib/agoric.ts:277`), by default every 300
  (`src/config/config.ts:199`, `src/lib/agoric.ts:288`).
* `src/api.ts:24,37` call `validateSince`, which is neither imported nor exported: every
  authorised request ends in an error. Its comment (`src/utils/validation.ts:4`) has the
  result the other way round.
* Unused: `getOfferById`, `getLatestOffers`, `getChainFromEndpoint`,
  `getCurrentBlockRangeAmount`.
* README.md:51 describes sums from the database during a backfill; no caller of
  `processCCTPBurnEventLog` asks for them.

## Proofs

Everything below holds for every number of transactions, workers, handlers, chains, nodes,
burns and failures, and every value of the bounds, from the assumptions named in
the modules only, unless a hypothesis is named here (no reorganization, in
`HandedDeep`).

`EvidencePipeline_proofs`:

* `TypeCorrect`: `Spec => []TypeOK`;
* `Serialized`: `Spec => []SubmissionsSerialized`;
* `OfferInvariant`: `Spec => []OfferInv`;
* `OneLiveOffer`: `Spec => []AtMostOneLiveOffer`;
* `TimeoutsGrow`: `Spec => TimeoutNeverShrinks`.

`AtMostOneLiveOffer` is not inductive. The check of `submitToAgoric` reads the record of
a transaction and lets an offer through that is sent later; so the record must still be
the one that was read (`SnapshotsCurrent`), which holds because only one activation
writes records of offers (`SubmissionsSerialized`), and the monitor never changes
a timeout height. Every offer in the mempool must be covered by the record or be the
one about to be recorded (`EntriesRecorded`). Heights of workers lie in the past
(`HeightsInPast`): a record with a timeout at or below such a height belongs to an offer
that no block can include any more. `OfferInv` is the conjunction; `verdict` checks it with
TLC. Each action has a lemma, and `OfferInvStep` puts them together. `TimeoutsGrow`
follows from the same invariant: `RecordSubmission` writes a timeout above the
worker's height, and `SnapshotCurrent` puts the recorded one at or below it.

`EvidenceDelivery_proofs`, on top of it:

* `VerdictsFromChain`: `Spec => []VerdictsAreOnChain`. `VerdictInv` adds that what a handler
  of an Agoric block has scanned and not yet written is on the chain; offers are only
  added, so it is still true when it is written.
* `DeliversEvidence`: `Spec => ImplementsDelivery`, the refinement. `OnlyConfirmed` says that
  what is queued, held, broadcast, in flight or about to be requeued is confirmed, so the
  inclusion of an offer is a `Land`; a mark is a `Conclude` (`VerdictInv`), a record of an
  offer a `Reopen`, and all else stutters.
* `QueueStaysConsistent`: `Spec => []QueueConsistent`. Adding a set in any order and taking
  the head keep a queue without repetitions (`AppendOrder`, `TakeHead`); an activation
  between evidences holds none (`HandsEmpty`), and there is one activation.

`NobleResolver_proofs`:

* `RoundTrip`: the word an address is encoded into decodes to the address, for every size;
* `TypeCorrect`, and `OneRecipient`: `Spec => []RecipientsAgree`; `RecipientStays`:
  `Spec => RecipientIsFinal`. The collection of accounts refuses a second document for
  an address, so what a call has in its hands once it has concluded, and what any
  document has, is what the collection has (`HandOK`); it never changes (`KnownStays`). A
  log has one handler and a burn whose log waits has no document (`LogsAreOnce`), so an
  insertion overwrites nothing.
* `RetriesComeFirst`: `Spec => []VagueAfterRetries`, by counting the failed tries of a call among
  the failures (`TriesInv`).

`WatcherProcess_proofs`:

* `TypeCorrect`; `OneConnectionEach`: `Spec => []OneConnection`, with `OneEach`: a chain without a
  provider has no connection and no timer either, and each of the others exactly one of
  them;
* `CountersStayBehind`: `Spec => []NeverOvercounts`.

`ClientMarshaller_proofs`: the two tables stay inverse to each other, and a slot keeps its
object.

`BlockWindow_proofs`, about the operators of the window:

* `IncrementCounts`: `incrementOrCreateBlock` makes the total grow by exactly the amount,
  whichever entries there are; `NewBlockForgetsOldest`: a new block takes at most the oldest
  entry off it.

The total is a sum that the library defines by a recursion over subsets. The provers have
no induction theorem to use, so the module argues by a least counterexample instead
(`LeastBad`, from the library's theorem on minimal elements): the recursion defines a
function (`SumUnique`, `SumExists`), whose value does not depend on which element is taken
out first (`SumTakeOut`).

`EvmWatcher_proofs`, on top of it:

* `TypeCorrect`: `Spec => []TypeOK`. `TaskOK` adds what a call at each of its awaits is: one that
  looks at a log has a log, one past a backfill has no logs left.
* `BurnsCovered`: `Spec => []BurnsAreCovered`, for every kind of failure. The invariant `CoverInv`
  replaces "the height has passed the block" by `LeftBehind`: the heights have passed it, or
  its announcement waits (and its handler will), or a call in progress goes on as if it
  had been dealt with (`Passes`). `Passes` depends on the await: before it has compared the
  heights, a call vouches only for its own block and for those below the height that
  it has read, and a metric that moves back in between does no harm, since the call takes
  the larger of the two; after the comparison it vouches for every block up to its own,
  because a gap is in its hands from then on (`HeldBy`). A block that is announced counts
  its burns as left behind at once, which holds because the logs are announced with it. `Settled`
  has what this rests on: heights and blocks in hand lie in the past, and the backfill of
  the start is alone.
* `ReorgsReported`: `Spec => []ReorgsAreReported`, for every kind of failure. The mark and
  the report are two queries. A call at the second one is about to report (`CallReports`),
  and a failure or a stop that takes it away there names it in `cutOff` (`FailureIsNamed`).
* `HandedDeep`: `Spec => HandedBurnsAreDeep` on a chain without reorganizations (the run `reorged`
  shows that it fails with them). `DeepInv` says that logs, documents and found burns name
  the block that the burn is in; `QueryIsDeep` that the query, which compares heights with
  the confirmations of the smallest fitting threshold (`ConfirmationsOf`), finds burns deep
  below a block of the past.
* `AdmitCounts`: a log that is admitted without risks counts once, and within the limit.

`EvmHistory_proofs`, on top of both. Its theorem has no hypothesis on failures or on the
scheduling of handlers; which steps the limit does not survive is in the property, by the
history variable:

* `HalfWindow`: `HistorySpec => []HalfWindowRespected`, for every overlap of handlers and every
  failure, reorganizations included, until the first step that is out of turn.

`HalfWindowRespected` compares a sum over the records with a limit that the code checks
against a sum over the window. The invariant `WindowInv` has three parts. `PlaceInv` holds
always: every block has one handler, and no document, log or sum is ahead of the chain.
`TurnInv` holds until `outOfTurn` and relates records and window. What counts of a block
(`CountedBy`) is what is recorded in it and what a call has admitted and is about to
record (`PendingSum`).

* The window counts every block from half a window before the stored height on (`Built`,
  `Counts`): the first entry of the block, the one that `incrementOrCreateBlock` finds, has
  at least what is counted of it (`Holds`).
* Half a window of blocks has at most the limit (`Limited`): a burn is admitted when the
  total of the window leaves room for it, the total is at least the sum over any half
  window that contains its block (`OverHalfHeld`: each of its blocks has an entry of its
  own, `SumInjected`), and this is where a burn that is counted late would break the
  argument (`AdmitInTurn`).
* The window does not forget too early (`Ordered`): entries come in the order of their
  blocks with at most two for each (`Spaced`), and a block whose handler is still to come
  finds none of a later block (`Fits`). So among the oldest entries of a full window two
  steps are one block at least (`SpacedSteps`), and the entry that a new block pushes
  out is half a window old (`AddEntryHolds`). The logs of a gap break the order; the window is
  not ordered while a handler is in its backfill (`Rebuilding`), and the sums that it
  installs in the end are (`BlockSumsHold`, `SetSumsInTurn`).

Model-checked only: liveness (`EvidenceGetsVerdict`, `BurnGetsRecorded`, `ReorgGetsReported`,
`UnknownGetsResolved`, `ChainIsWatched`, `SyncedNodeIsActive`), which is out of the prover's
reach. Every other property of a passing run is stated by a theorem.

## Not modelled

* The HTTP API: it keeps no state, reads two collections, and every authorised request
  ends in the error above.
* Values of the chain policy while handlers run. Which chains it has is in
  `WatcherProcess`; confirmations, thresholds and the window are constants.
* The gauges that show whether a node is alive, which no part of the program reads.
* Encodings: bech32, ABI and CapData. `NobleAddress` has the padding of addresses and
  `ClientMarshaller` the identity of objects.
* Types, constants and logging; contracts, scripts, dashboards and binaries.

## Plan

1. (done) Submission side, its abstract specification, and the proofs of one live
   offer, of the refinement and of the queue.
2. (done) Ingestion side: window, records, listener, backfill, restart.
3. (done) Noble resolver: overlapping handlers, one resolution per block, the end of
   MINUTES_HOLDING_UNKNOWN_FA; with proofs.
4. (done) Rotation of RPC nodes, the EVM connection with its staleness check, gauges,
   configuration and the start of the process; with proofs.
5. An abstract specification of the watcher (every burn is seen or lost to a failure) that
   `EvmWatcher` implements.
6. (done) Proofs about `EvmWatcher`: its types, `BurnsAreCovered`, `ReorgsAreReported`, and
   `HandedBurnsAreDeep` without reorganizations; and about the window's sums.
7. (done) `EvmHistory`: the rate limit over half of the window, through overlapping handlers
   and failures.
