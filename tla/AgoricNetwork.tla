---------------------------- MODULE AgoricNetwork ----------------------------
(***************************************************************************)
(* The Agoric chain as the watcher sees it through agd, the RPC node and   *)
(* the published wallet records.  None of it is code of this repository:   *)
(* it is modelled from how src/lib/agoric.ts and src/submitter.ts use it.  *)
(*                                                                         *)
(* A broadcast in SYNC mode puts an offer in the mempool; it is included   *)
(* in a block, in sequence order, as long as the height of that block is   *)
(* not above the timeout height of the offer.  The wallet then publishes   *)
(* how the offer ended.  Offer ids are the times of submission and offers  *)
(* land in sequence order, so an offer's position in offers stands for its *)
(* id, and the wallet's account sequence is the number of offers.          *)
(***************************************************************************)
EXTENDS SubmissionStore, Sequences

CONSTANTS TxTimeoutBlocks, \* TX_TIMEOUT_BLOCKS of the configuration
          MaxHeight,       \* bound: height of the last Agoric block
          MaxFaults        \* bound: failures of the chain, the RPCs, the DB

ASSUME TimeoutAssumption == TxTimeoutBlocks \in Nat \ {0}
ASSUME HeightAssumption  == MaxHeight \in Nat
ASSUME FaultAssumption   == MaxFaults \in Nat

VARIABLES aHeight,   \* height of the last committed block
          mempool,   \* accepted offers that are not in a block yet
          offers,    \* offers the wallet has published, oldest first
          faults     \* failures so far

chainVars == <<aHeight, mempool, offers>>

Entry  == [tx : Txs, timeout : Nat]
Result == {"ok", "conflict", "error"}
Offer  == [tx : Txs, result : Result]

NetworkTypeOK ==
    /\ aHeight \in Nat
    /\ mempool \in Seq(Entry)
    /\ offers \in Seq(Offer)
    /\ faults \in Nat

NetworkInit ==
    /\ aHeight = 0
    /\ mempool = <<>>
    /\ offers = <<>>
    /\ faults = 0

\* A failure of something outside the watcher.
Fault ==
    /\ faults < MaxFaults
    /\ faults' = faults + 1

\* The sequence number the next transaction of the account must carry.
ExpectedSequence == Len(offers) + Len(mempool)

\* The next block is above aHeight and within the entry's timeout height.
Includable(entry) == entry.timeout > aHeight

Attested(t) == \E i \in 1..Len(offers) : offers[i] = [tx |-> t, result |-> "ok"]
Disputed(t) == \E i \in 1..Len(offers) : offers[i] = [tx |-> t, result |-> "conflict"]

-----------------------------------------------------------------------------
NewBlock ==
    /\ aHeight < MaxHeight
    /\ aHeight' = aHeight + 1
    /\ UNCHANGED <<mempool, offers, faults>>

\* The oldest entry goes into the block under construction.
IncludeOffer ==
    /\ mempool # <<>>
    /\ Includable(Head(mempool))
    /\ mempool' = Tail(mempool)
    /\ \E r \in Result :
         offers' = Append(offers, [tx |-> Head(mempool).tx, result |-> r])
    /\ UNCHANGED <<aHeight, faults>>

\* An entry leaves the mempool without reaching a block, and the entries
\* behind it, whose sequence numbers no longer fit, go with it.
DropFrom(i) ==
    /\ mempool' = SubSeq(mempool, 1, i - 1)
    /\ UNCHANGED <<aHeight, offers>>

Expire ==
    \E i \in 1..Len(mempool) :
        /\ ~ Includable(mempool[i])
        /\ DropFrom(i)
        /\ UNCHANGED faults

Evict ==
    /\ Fault
    /\ \E i \in 1..Len(mempool) : DropFrom(i)

=============================================================================
