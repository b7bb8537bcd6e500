--------------------------- MODULE ClientMarshaller ---------------------------
(***************************************************************************)
(* The translation table behind the marshaller of the chain policy         *)
(* (src/utils/marshaller.ts).  A slot of a published record names a        *)
(* remotable object; the first time a slot is seen an object is made for   *)
(* it, so that the same brand or instance is the same object whenever it   *)
(* is read.  Objects are numbered as they are made.                        *)
(***************************************************************************)
EXTENDS Naturals

CONSTANTS Slots

VARIABLES slotToVal, \* objects by slot, for the slots seen so far
          valToSlot, \* slots by object
          made       \* objects made so far

vars == <<slotToVal, valToSlot, made>>

TypeOK ==
    /\ slotToVal \in [DOMAIN slotToVal -> 0..made]
    /\ DOMAIN slotToVal \subseteq Slots
    /\ valToSlot \in [DOMAIN valToSlot -> Slots]
    /\ DOMAIN valToSlot \subseteq 0..made
    /\ made \in Nat

Init ==
    /\ slotToVal = [s \in {} |-> 0]
    /\ valToSlot = [v \in {} |-> 0]
    /\ made = 0

\* synthesizeRemotable: an object that is none of those before.
MakeVal == made + 1

\* convertSlotToVal for a slot, known or new.
KnownSlot(slot) ==
    /\ slot \in DOMAIN slotToVal
    /\ UNCHANGED vars

NewSlot(slot) ==
    /\ slot \notin DOMAIN slotToVal
    /\ made' = MakeVal
    /\ slotToVal' = [s \in DOMAIN slotToVal \cup {slot} |->
                        IF s = slot THEN MakeVal ELSE slotToVal[s]]
    /\ valToSlot' = [v \in DOMAIN valToSlot \cup {MakeVal} |->
                        IF v = MakeVal THEN slot ELSE valToSlot[v]]

\* The slot is null: an object of no identity, which no table knows.
NullSlot ==
    /\ made' = MakeVal
    /\ UNCHANGED <<slotToVal, valToSlot>>

\* convertValToSlot never makes a slot (noNewSlots): an object that no table knows
\* is an error, and one that has a slot changes nothing.
ConvertValToSlot(val) == UNCHANGED vars

Next ==
    \/ \E slot \in Slots : KnownSlot(slot) \/ NewSlot(slot)
    \/ NullSlot
    \/ \E val \in 1..made : ConvertValToSlot(val)

Spec == Init /\ [][Next]_vars

-----------------------------------------------------------------------------
\* Reading a slot and writing the object that came of it gives the slot again, and
\* the other way round, however often records that share slots are read: two
\* slots are never the same object, nor is one object two slots.
TablesAgree ==
    /\ \A slot \in DOMAIN slotToVal : /\ slotToVal[slot] \in DOMAIN valToSlot
                                      /\ valToSlot[slotToVal[slot]] = slot
    /\ \A val \in DOMAIN valToSlot : /\ valToSlot[val] \in DOMAIN slotToVal
                                     /\ slotToVal[valToSlot[val]] = val

\* The object of a slot is the same for as long as the process runs.
IdentityKept ==
    [][\A slot \in DOMAIN slotToVal : /\ slot \in DOMAIN slotToVal'
                                      /\ slotToVal'[slot] = slotToVal[slot]]_vars

=============================================================================
