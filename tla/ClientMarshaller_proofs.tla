------------------------ MODULE ClientMarshaller_proofs ------------------------
(***************************************************************************)
(* Theorems about the translation table of ClientMarshaller, for any set   *)
(* of slots and any number of records read.                                *)
(***************************************************************************)
EXTENDS ClientMarshaller, TLAPS

\* A number that was not given to an object yet is in neither table.
Inv == TypeOK /\ TablesAgree

\* Empty tables are inverse to each other.
LEMMA InitInv == Init => Inv
  BY DEF Init, Inv, TypeOK, TablesAgree

\* A slot that no object has yet keeps them so.
LEMMA NewSlotInv ==
    ASSUME Inv, NEW slot \in Slots, NewSlot(slot)
    PROVE  Inv'
<1>1. made \in Nat /\ made + 1 \in Nat /\ MakeVal \notin 0..made /\ 0..made \subseteq 0..MakeVal
  BY DEF Inv, TypeOK, MakeVal
<1>2. MakeVal \in 0..MakeVal
  BY <1>1 DEF MakeVal
<1>3. MakeVal \notin DOMAIN valToSlot /\ slot \notin DOMAIN slotToVal
  BY <1>1 DEF Inv, TypeOK, NewSlot
<1>4. /\ DOMAIN slotToVal' = DOMAIN slotToVal \cup {slot}
      /\ DOMAIN valToSlot' = DOMAIN valToSlot \cup {MakeVal}
      /\ slotToVal'[slot] = MakeVal
      /\ valToSlot'[MakeVal] = slot
      /\ \A s \in DOMAIN slotToVal : slotToVal'[s] = slotToVal[s]
      /\ \A v \in DOMAIN valToSlot : valToSlot'[v] = valToSlot[v]
  BY <1>3 DEF NewSlot
<1>5. TypeOK'
  <2>1. made' = MakeVal /\ made' \in Nat
    BY <1>1 DEF NewSlot, MakeVal
  <2>2. slotToVal' \in [DOMAIN slotToVal' -> 0..made']
    BY <1>1, <1>2, <1>4, <2>1 DEF Inv, TypeOK, NewSlot
  <2>3. valToSlot' \in [DOMAIN valToSlot' -> Slots]
    BY <1>4 DEF Inv, TypeOK, NewSlot
  <2> QED
    BY <1>1, <1>2, <1>4, <2>1, <2>2, <2>3 DEF Inv, TypeOK
<1>6. TablesAgree'
  BY <1>3, <1>4 DEF Inv, TablesAgree
<1> QED
  BY <1>5, <1>6 DEF Inv

\* Every step keeps them so.
LEMMA NextInv == Inv /\ [Next]_vars => Inv'
<1> SUFFICES ASSUME Inv, [Next]_vars PROVE Inv'
  OBVIOUS
<1>1. CASE UNCHANGED vars
  BY <1>1 DEF vars, Inv, TypeOK, TablesAgree
<1>2. CASE NullSlot
  <2>1. made \in Nat /\ made' = made + 1 /\ UNCHANGED <<slotToVal, valToSlot>>
    BY <1>2 DEF NullSlot, MakeVal, Inv, TypeOK
  <2>2. made' \in Nat /\ 0..made \subseteq 0..made'
    BY <2>1
  <2>3. TypeOK'
    BY <2>1, <2>2 DEF Inv, TypeOK
  <2> QED
    BY <2>1, <2>3 DEF Inv, TablesAgree
<1> QED
  BY <1>1, <1>2, NewSlotInv DEF Next, KnownSlot, ConvertValToSlot

\* However often records that share slots are read, the table of slots and the
\* table of objects are inverse to each other (src/utils/marshaller.ts:28-59).
THEOREM TablesStayInverse == Spec => []TablesAgree
<1>1. Inv => TablesAgree
  BY DEF Inv
<1> QED
  BY <1>1, InitInv, NextInv, PTL DEF Spec

\* A brand or an instance that was read once is the same object ever after
\* (src/utils/marshaller.ts:46-56).
THEOREM ObjectsKeepIdentity == Spec => IdentityKept
<1>1. Inv /\ [Next]_vars => [\A slot \in DOMAIN slotToVal :
                                /\ slot \in DOMAIN slotToVal'
                                /\ slotToVal'[slot] = slotToVal[slot]]_vars
  BY DEF vars, Next, KnownSlot, NewSlot, NullSlot, ConvertValToSlot
<1> QED
  BY <1>1, InitInv, NextInv, PTL DEF Spec, IdentityKept

=============================================================================
