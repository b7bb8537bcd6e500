------------------------------ MODULE EvmChain -------------------------------
(***************************************************************************)
(* One EVM chain and the websocket over which the watcher hears of it.     *)
(* None of it is code of this repository: it is modelled from how          *)
(* src/listener.ts and src/backfill.ts use the provider.                   *)
(*                                                                         *)
(* A new block is announced together with the logs of the burns in it; the *)
(* provider may skip a block altogether, and announce blocks in another    *)
(* order than they come in.  A reorganization drops a burn that the watcher may not have *)
(* submitted yet, and announces its log as removed; the burn may be mined  *)
(* again in a later block.                                                 *)
(***************************************************************************)
EXTENDS BurnRecords

CONSTANTS MaxBlock,   \* bound: number of the last block
          Failures,   \* what may go wrong in a run
          MaxFaults   \* bound: how often

FailureKind == {"skip", "reorder", "reorg", "rpc", "db", "disconnect", "stop"}

ASSUME BlockAssumption   == MaxBlock \in Nat
ASSUME FailureAssumption == Failures \subseteq FailureKind /\ MaxFaults \in Nat

VARIABLES head,       \* number of the latest block
          minedAt,    \* block of each burn, 0 while it is in none
          listening,  \* the websocket is subscribed
          blocks,     \* announced blocks that no handler has taken
          logs,       \* announced logs that no handler has taken
          faults      \* failures so far

chainVars == <<head, minedAt>>
noticeVars == <<blocks, logs>>

Log == [tx : Burns, block : Nat, removed : BOOLEAN]

ChainTypeOK ==
    /\ head \in Nat
    /\ minedAt \in [Burns -> Nat]
    /\ listening \in BOOLEAN
    /\ blocks \in SUBSET Nat
    /\ logs \in SUBSET Log
    /\ faults \in Nat

ChainInit ==
    /\ head = 0
    /\ minedAt = [t \in Burns |-> 0]
    /\ listening = TRUE
    /\ blocks = {}
    /\ logs = {}
    /\ faults = 0

Fault(kind) ==
    /\ kind \in Failures
    /\ faults < MaxFaults
    /\ faults' = faults + 1

Mined(t) == minedAt[t] # 0

\* An announcement of block n may be the next one that arrives.
Arrives(n) ==
    "reorder" \in Failures \/ \A m \in blocks \cup {l.block : l \in logs} : n <= m

\* What getLogs returns.
LogsBetween(from, to) ==
    {[tx |-> t, block |-> minedAt[t], removed |-> FALSE] :
        t \in {u \in Burns : Mined(u) /\ from <= minedAt[u] /\ minedAt[u] <= to}}

-----------------------------------------------------------------------------
Mine(new) ==
    /\ head < MaxBlock
    /\ head' = head + 1
    /\ minedAt' = [t \in Burns |-> IF t \in new THEN head + 1 ELSE minedAt[t]]

Announce(new) ==
    /\ blocks' = blocks \cup {head + 1}
    /\ logs' = logs \cup {[tx |-> t, block |-> head + 1, removed |-> FALSE] : t \in new}

NewBlock ==
    \E new \in SUBSET {t \in Burns : ~ Mined(t)} :
        /\ Mine(new)
        /\ \/ listening /\ Announce(new) /\ UNCHANGED faults
           \/ ~ listening /\ UNCHANGED <<noticeVars, faults>>
           \/ listening /\ Fault("skip") /\ UNCHANGED noticeVars
        /\ UNCHANGED listening

Reorg(t) ==
    /\ Mined(t)
    /\ minedAt[t] + Confirmations(t) > head
    /\ Fault("reorg")
    /\ minedAt' = [minedAt EXCEPT ![t] = 0]
    /\ logs' = IF listening
               THEN logs \cup {[tx |-> t, block |-> minedAt[t], removed |-> TRUE]}
               ELSE logs
    /\ UNCHANGED <<head, listening, blocks>>

=============================================================================
