---------------------------- MODULE BlockWindow ------------------------------
(***************************************************************************)
(* The window of recent blocks of one EVM chain (src/state.ts) and the     *)
(* sums of recorded amounts it is rebuilt from (getBlockSums in            *)
(* src/lib/db.ts).                                                         *)
(*                                                                         *)
(* The window is a sequence of entries [block, sum].  A block may have     *)
(* several entries, and the entries need not be sorted.                    *)
(***************************************************************************)
EXTENDS Integers, SequencesExt

CONSTANTS Burns,    \* hashes of the burn transactions
          Amount    \* the amount that each of them burns

ASSUME BurnsAssumption  == IsFiniteSet(Burns)
ASSUME AmountAssumption == Amount \in [Burns -> Nat]

Entry == [block : Int, sum : Nat]

TotalSum(entries) == SumFunction([i \in DOMAIN entries |-> entries[i].sum])

\* Faulty form: removes the oldest entry one block too early.
AddEntryShort(entries, block, maxEntries) ==
    LET longer == Append(entries, [block |-> block, sum |-> 0])
    IN  IF Len(longer) >= maxEntries THEN Tail(longer) ELSE longer

\* addBlockRangeStateEntry: a new entry for a new block; one entry, the oldest,
\* leaves when there are too many.
AddEntry(entries, block, maxEntries) ==
    LET longer == Append(entries, [block |-> block, sum |-> 0])
    IN  IF Len(longer) > maxEntries THEN Tail(longer) ELSE longer

\* Faulty form: takes the amount off.
DecrementOrCreate(entries, block, amount) ==
    LET found == SelectInSeq(entries, LAMBDA entry : entry.block = block)
    IN  IF found = 0
        THEN Append(entries, [block |-> block, sum |-> amount])
        ELSE [entries EXCEPT ![found].sum = entries[found].sum - amount]

\* incrementOrCreateBlock: the first entry of the block, or a new one, takes
\* the amount.
IncrementOrCreate(entries, block, amount) ==
    LET found == SelectInSeq(entries, LAMBDA entry : entry.block = block)
    IN  IF found = 0
        THEN Append(entries, [block |-> block, sum |-> amount])
        ELSE [entries EXCEPT ![found].sum = entries[found].sum + amount]

\* Recorded amounts without risks in one block; every document counts.
BlockSum(docs, block) ==
    SumFunction([t \in Burns |->
                   Amount[t] * Cardinality({i \in 1..Len(docs[t]) :
                                              docs[t][i].block = block /\ docs[t][i].clean})])

\* getBlockSums: an entry for each of the last blocks, oldest first.
BlockSums(docs, block, range) ==
    [i \in 1..range |->
        [block |-> block - range + i, sum |-> BlockSum(docs, block - range + i)]]

=============================================================================
