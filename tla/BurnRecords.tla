---------------------------- MODULE BurnRecords ------------------------------
(***************************************************************************)
(* What the watcher does with one DepositForBurn log                       *)
(* (processCCTPBurnEventLog in src/processor.ts) and the transactions it   *)
(* records (src/lib/db.ts), for one EVM chain.                             *)
(*                                                                         *)
(* Every caller leaves the parameter backfilling at its default, so the    *)
(* amount of the current window comes from memory and the code from the    *)
(* answer of getTransactionByHash to the call of addTransaction is one     *)
(* step.  The burns of the model go to an Agoric forwarding account of     *)
(* the settlement account that Noble already knows.                        *)
(***************************************************************************)
EXTENDS BlockWindow

CONSTANTS Thresholds,           \* txThresholds of the chain policy
          DefaultConfirmations, \* confirmations of the chain policy
          TxLimit,              \* rateLimits.tx
          WindowLimit,          \* rateLimits.blockWindow
          WindowSize            \* rateLimits.blockWindowSize

ASSUME ThresholdsAssumption ==
    /\ IsFiniteSet(Thresholds)
    /\ Thresholds \subseteq [maxAmount : Nat, confirmations : Nat]
    /\ \A a, b \in Thresholds : a.maxAmount = b.maxAmount => a = b
ASSUME PolicyAssumption ==
    /\ DefaultConfirmations \in Nat
    /\ TxLimit \in Nat
    /\ WindowLimit \in Nat
    /\ WindowSize \in Nat \ {0}

VARIABLES docs,        \* the transactions collection: per hash, oldest first
          removedTxs,  \* hashes in the collection of removed transactions
          entries      \* blockRangeAmountState of the chain

recordVars == <<docs, removedTxs, entries>>

Doc == [status : {"CONFIRMED", "REORGED"}, block : Nat, clean : BOOLEAN]

RecordsTypeOK ==
    /\ docs \in [Burns -> Seq(Doc)]
    /\ removedTxs \in SUBSET Burns
    /\ entries \in Seq(Entry)

RecordsInit ==
    /\ docs = [t \in Burns |-> <<>>]
    /\ removedTxs = {}
    /\ entries = <<>>

\* getConfirmations: of the smallest threshold that the amount fits in, -1
\* above all of them.
Confirmations(t) ==
    LET fitting == {th \in Thresholds : Amount[t] <= th.maxAmount}
        least   == CHOOSE th \in fitting :
                      \A other \in fitting : th.maxAmount <= other.maxAmount
    IN  IF Thresholds = {} THEN DefaultConfirmations
        ELSE IF fitting = {} THEN -1 ELSE least.confirmations

\* getTransactionByHash and the filter of updateTransactionStatus find the
\* oldest document of a hash.
Recorded(t)    == docs[t] # <<>>
FoundStatus(t) == IF Recorded(t) THEN docs[t][1].status ELSE "NONE"

\* No risk is identified for the burn.
Clean(t) ==
    /\ Amount[t] <= TxLimit
    /\ Amount[t] <= WindowLimit - TotalSum(entries)
    /\ Confirmations(t) # -1

\* The log is one that the database has already dealt with.
AlreadyProcessed(log) ==
    IF log.removed THEN FoundStatus(log.tx) = "REORGED"
                   ELSE FoundStatus(log.tx) = "CONFIRMED"

\* The amount of a burn without risks counts in the window.
Admit(log) ==
    entries' = IF Clean(log.tx)
               THEN IncrementOrCreate(entries, log.block, Amount[log.tx])
               ELSE entries

\* addTransaction inserts, whatever the collection holds by now.
AddTransaction(t, doc) == docs' = [docs EXCEPT ![t] = Append(docs[t], doc)]

\* updateTransactionStatus to REORGED: nothing happens without a document.
MarkReorged(t) ==
    docs' = IF Recorded(t) THEN [docs EXCEPT ![t][1].status = "REORGED"] ELSE docs

\* addRemovedTX.
AddRemovedTX(t) == removedTxs' = removedTxs \cup {t}

\* Faulty form: sends a burn one block too early.
ToBeSentEarly(height) ==
    {t \in Burns : \E i \in 1..Len(docs[t]) :
                      docs[t][i].block + Confirmations(t) <= height + 1}

\* getTransactionsToBeSentForChain, for burns without a submission.  The status
\* of the document plays no part.
ToBeSent(height) ==
    {t \in Burns : \E i \in 1..Len(docs[t]) :
                      docs[t][i].block + Confirmations(t) <= height}

=============================================================================
