------------------------- MODULE NobleResolver_proofs -------------------------
(***************************************************************************)
(* Theorems about NobleAddress and NobleResolver, for every value of their *)
(* constants.                                                              *)
(***************************************************************************)
EXTENDS NobleResolver, TLAPS

-----------------------------------------------------------------------------
(***************************************************************************)
(* Addresses.                                                              *)
(***************************************************************************)

\* decodeToNoble gives back the address that encode put into a word, as
\* test/src/address.test.ts tries on one address.
THEOREM RoundTrip == \A address \in Addresses : DecodeToNoble(Encode(address)) = address
<1> SUFFICES ASSUME NEW address \in Addresses
             PROVE  DecodeToNoble(Encode(address)) = address
  OBVIOUS
<1> DEFINE Lead == Width - Size
<1>1. Lead \in Nat /\ Size \in Nat /\ Width = Lead + Size
  BY NobleAddressAssumption
<1>2. ASSUME NEW i \in 1..Size
      PROVE  Encode(address)[i + Lead] = address[i]
  <2>1. i + Lead \in 1..Width /\ ~ (i + Lead <= Lead) /\ (i + Lead) - Lead = i
    BY <1>1
  <2> QED
    BY <2>1 DEF Encode
<1>3. DecodeToNoble(Encode(address)) = [i \in 1..Size |-> address[i]]
  BY <1>2 DEF DecodeToNoble
<1> QED
  BY <1>3 DEF Addresses

\* Every word decodes to some address, so that every burn has one.
LEMMA AddressOfType == AddressOf \in [Burns -> Addresses]
<1>1. ASSUME NEW encoded \in Encoded
      PROVE  DecodeToNoble(encoded) \in Addresses
  <2>1. \A i \in 1..Size : i + (Width - Size) \in 1..Width
    BY NobleAddressAssumption
  <2> QED
    BY <2>1 DEF DecodeToNoble, Encoded, Addresses
<1> QED
  BY <1>1, BurnsAssumption DEF AddressOf

-----------------------------------------------------------------------------
(***************************************************************************)
(* The inductive invariant: what a call has in its hands is what the       *)
(* collection of accounts says, and a log is in one call's hands only,     *)
(* before its burn is recorded.                                            *)
(***************************************************************************)

\* The verdict a call goes on with is the one of known, unless it is "unknown".
HandOK(this, known) ==
    /\ this.pc = "query" => this.kind = "noble"
    /\ this.pc = "saveWorker" => this.verdict \in Recipient
    /\ this.pc = "saveLcd" => this.verdict \in {"settlement", "stranger", "other"}
    /\ this.pc \in {"lookup", "save"} =>
         /\ this.kind = "log"
         /\ this.verdict # "other"
         /\ this.verdict # "unknown" => this.verdict = known[AddressOf[this.burn]]
    /\ this.pc \in {"update", "remove"} =>
         /\ this.verdict # "unknown"
         /\ this.verdict = known[AddressOf[this.burn]]
         /\ this.pc = "remove" <=> this.verdict = "other"

\* The call handles a log.
HoldsLog(this) == this.pc # "idle" /\ this.kind = "log"

\* A log waits or has one handler, and has no document before that handler is done.
LogsAreOnce ==
    /\ \A b \in logs : recipient[b] = "none"
    /\ \A c \in Calls : HoldsLog(call[c]) => /\ recipient[call[c].burn] = "none"
                                             /\ call[c].burn \notin logs
    /\ \A c, d \in Calls : HoldsLog(call[c]) /\ HoldsLog(call[d]) /\ call[c].burn = call[d].burn
                              => c = d

\* The inductive form of RecipientsAgree and RecipientIsFinal.
Inv ==
    /\ TypeOK
    /\ RecipientsAgree
    /\ \A c \in Calls : HandOK(call[c], cached)
    /\ LogsAreOnce

\* What the accounts say of an address they go on to say.
KnownStays == \A a \in Addresses : cached[a] # "unknown" => cached'[a] = cached[a]

\* A call that resolves has a burn.
HasBurn(this) == this.pc \notin {"idle", "query"} => this.burn \in Burns

\* A call in which only the program counter and what it has in its hands change.
NextHand(this, next) ==
    /\ next \in Call
    /\ HasBurn(next)
    /\ HandOK(next, cached')
    /\ HoldsLog(next) => HoldsLog(this) /\ next.burn = this.burn

\* The first state has no call, no document and no account.
LEMMA InitInv == Init => Inv
<1> SUFFICES ASSUME Init PROVE Inv
  OBVIOUS
<1>1. IdleCall \in Call /\ HasBurn(IdleCall) /\ HandOK(IdleCall, cached) /\ ~ HoldsLog(IdleCall)
  BY DEF IdleCall, Call, Pc, Verdict, HandOK, HoldsLog, HasBurn
<1>2. TypeOK
  BY <1>1, BoundsAssumption DEF Init, AccountsInit, TypeOK, AccountsTypeOK, Recipient, Verdict, HasBurn
<1> QED
  BY <1>1, <1>2 DEF Init, Inv, RecipientsAgree, LogsAreOnce, Recipient

\* A step of one call that leaves the documents and the logs alone.
LEMMA OneCall ==
    ASSUME Inv, NEW c \in Calls, NEW next,
           call' = [call EXCEPT ![c] = next], NextHand(call[c], next),
           KnownStays, AccountsTypeOK', faults' \in Nat, open' \in BOOLEAN,
           UNCHANGED <<logs, docVars>>
    PROVE  Inv'
<1> USE DEF Inv, docVars
<1>1. TypeOK'
  BY DEF TypeOK, NextHand, HasBurn
<1>2. \A b \in Burns : AddressOf[b] \in Addresses
  BY AddressOfType
<1>3. RecipientsAgree'
  BY <1>2 DEF RecipientsAgree, KnownStays, Recipient
<1>4. ASSUME NEW d \in Calls PROVE HandOK(call'[d], cached')
  <2>1. CASE d = c
    BY <2>1 DEF TypeOK, NextHand
  <2>2. CASE d # c
    <3>1. call'[d] = call[d] /\ call[d] \in Call /\ HasBurn(call[d])
      BY <2>2 DEF TypeOK, HasBurn
    <3>2. call[d].pc \in {"lookup", "save", "update", "remove"} => AddressOf[call[d].burn] \in Addresses
      BY <1>2, <3>1 DEF HasBurn
    <3> QED
      BY <3>1, <3>2 DEF HandOK, KnownStays
  <2> QED
    BY <2>1, <2>2
<1>5. LogsAreOnce'
  <2>1. \A d \in Calls : HoldsLog(call'[d]) => HoldsLog(call[d]) /\ call'[d].burn = call[d].burn
    BY DEF TypeOK, NextHand
  <2> QED
    BY <2>1 DEF LogsAreOnce
<1> QED
  BY <1>1, <1>3, <1>4, <1>5

-----------------------------------------------------------------------------
(***************************************************************************)
(* The resolution keeps it.                                                *)
(***************************************************************************)

\* What a call goes on to do with a verdict that the accounts agree with.
LEMMA ConcludeHand ==
    ASSUME NEW this \in Call, this.burn \in Burns, this.pc \notin {"idle", "query"},
           NEW verdict \in Verdict,
           verdict # "unknown" => verdict = cached'[AddressOf[this.burn]],
           NEW next \in Conclude(this, verdict)
    PROVE  NextHand(this, next)
<1>1. CASE next = IdleCall
  BY <1>1 DEF NextHand, IdleCall, Call, Pc, Verdict, HandOK, HoldsLog, HasBurn
<1>2. CASE this.kind = "log" /\ next # IdleCall
  <2>1. verdict # "other" /\ next = [this EXCEPT !.pc = "lookup", !.verdict = verdict]
    BY <1>2 DEF Conclude
  <2> QED
    BY <1>2, <2>1 DEF NextHand, Call, Pc, HandOK, HoldsLog, HasBurn
<1>3. CASE this.kind # "log" /\ verdict = "unknown" /\ next # IdleCall
  <2>1. this.kind = "noble"
    BY <1>3 DEF Call
  <2>2. PICK b \in this.todo :
          next = [this EXCEPT !.pc = "cache", !.burn = b, !.verdict = "unknown",
                              !.todo = this.todo \ {b}]
    BY <1>3 DEF Conclude, NextTx
  <2> QED
    BY <2>1, <2>2 DEF NextHand, Call, Pc, Verdict, HandOK, HoldsLog, HasBurn
<1>4. CASE this.kind # "log" /\ verdict # "unknown"
  <2>1. this.kind = "noble"
    BY <1>4 DEF Call
  <2>2. next = [this EXCEPT !.pc = IF verdict = "other" THEN "remove" ELSE "update",
                            !.verdict = verdict]
    BY <1>4 DEF Conclude
  <2> QED
    BY <1>4, <2>1, <2>2 DEF NextHand, Call, Pc, HandOK, HoldsLog, HasBurn
<1> QED
  BY <1>1, <1>2, <1>3, <1>4

\* addNobleAccount does not touch an address that has a document.
LEMMA AddNobleAccountKeeps ==
    ASSUME AccountsTypeOK, NEW a \in Addresses, NEW verdict \in Verdict,
           AddNobleAccount(a, verdict), UNCHANGED partyVars
    PROVE  KnownStays /\ AccountsTypeOK' /\ cached'[a] = verdict
BY DEF AddNobleAccount, AccountsTypeOK, KnownStays, partyVars

\* A step of a resolution keeps what calls have in their hands in agreement with the
\* collection of accounts.
LEMMA ResolveInv ==
    ASSUME Inv, NEW c \in Calls, Resolve(c)
    PROVE  Inv'
<1> DEFINE this == call[c]
<1>1. this \in Call /\ HasBurn(this) /\ HandOK(this, cached)
  BY DEF Inv, TypeOK, HasBurn
<1>2. AccountsTypeOK /\ faults \in Nat /\ open \in BOOLEAN
  BY DEF Inv, TypeOK
<1>3. ASSUME this.burn \in Burns
      PROVE  /\ Address(c) = AddressOf[this.burn]
             /\ Address(c) \in Addresses
             /\ cached[Address(c)] \in Verdict
  BY <1>2, <1>3, AddressOfType DEF Address, AccountsTypeOK
<1>4. this.pc \notin {"idle", "query"}
  BY DEF Resolve, ReadCache, AskWorker, SaveWorkerAnswer, AskLcd, SaveLcdAnswer
<1>5. this.burn \in Burns
  BY <1>1, <1>4 DEF HasBurn
<1>6. /\ UNCHANGED <<logs, docVars>> /\ open' \in BOOLEAN /\ UNCHANGED partyVars
      /\ faults' \in Nat
  BY <1>2, BoundsAssumption
     DEF Resolve, ReadCache, AskWorker, SaveWorkerAnswer, AskLcd, SaveLcdAnswer,
         UnchangedByResolution, Fault
<1>7. ASSUME NEW next, call' = [call EXCEPT ![c] = next], NextHand(this, next),
             KnownStays, AccountsTypeOK'
      PROVE  Inv'
  BY <1>6, <1>7, OneCall
<1>8. ASSUME UNCHANGED cached
      PROVE  KnownStays /\ AccountsTypeOK'
  BY <1>2, <1>6, <1>8 DEF KnownStays, AccountsTypeOK, partyVars
<1>9. ASSUME NEW verdict \in Verdict, Return(c, verdict), KnownStays, AccountsTypeOK',
             verdict # "unknown" => verdict = cached'[AddressOf[this.burn]]
      PROVE  Inv'
  <2>1. PICK next \in Conclude(this, verdict) : call' = [call EXCEPT ![c] = next]
    BY <1>9 DEF Return
  <2>2. NextHand(this, next)
    BY <1>1, <1>4, <1>5, <1>9, ConcludeHand
  <2> QED
    BY <1>7, <1>9, <2>1, <2>2
<1>10. CASE ReadCache(c)
  <2>1. UNCHANGED cached
    BY <1>10 DEF ReadCache
  <2>2. CASE cached[Address(c)] = "unknown"
    <3>1. call' = [call EXCEPT ![c] = [this EXCEPT !.pc = "worker"]]
      BY <1>1, <1>10, <2>2 DEF ReadCache
    <3>2. NextHand(this, [this EXCEPT !.pc = "worker"])
      BY <1>1, <1>4, <1>5 DEF NextHand, Call, Pc, HandOK, HoldsLog, HasBurn
    <3> QED
      BY <1>7, <1>8, <2>1, <3>1, <3>2
  <2>3. CASE cached[Address(c)] # "unknown"
    BY <1>3, <1>5, <1>8, <1>9, <1>10, <2>1, <2>3 DEF ReadCache
  <2> QED
    BY <2>2, <2>3
<1>11. CASE AskWorker(c)
  <2>1. UNCHANGED cached
    BY <1>11 DEF AskWorker
  <2>2. CASE call' = [call EXCEPT ![c].pc = "lcd"]
    <3>1. NextHand(this, [this EXCEPT !.pc = "lcd"])
      BY <1>1, <1>4, <1>5 DEF NextHand, Call, Pc, HandOK, HoldsLog, HasBurn
    <3> QED
      BY <1>7, <1>8, <2>1, <2>2, <3>1
  <2>3. CASE call' # [call EXCEPT ![c].pc = "lcd"]
    <3>1. /\ worker[Address(c)] # "unknown"
          /\ call' = [call EXCEPT ![c].pc = "saveWorker", ![c].verdict = worker[Address(c)]]
      BY <1>11, <2>3 DEF AskWorker
    <3>2. worker[Address(c)] \in Recipient
      BY <1>2, <1>3, <1>5, <3>1 DEF AccountsTypeOK
    <3>3. NextHand(this, [this EXCEPT !.pc = "saveWorker", !.verdict = worker[Address(c)]])
      BY <1>1, <1>4, <1>5, <3>2 DEF NextHand, Call, Pc, Verdict, HandOK, HoldsLog, HasBurn
    <3>4. call' = [call EXCEPT ![c] = [this EXCEPT !.pc = "saveWorker",
                                                   !.verdict = worker[Address(c)]]]
      BY <3>1 DEF Inv, TypeOK
    <3> QED
      BY <1>7, <1>8, <2>1, <3>3, <3>4
  <2> QED
    BY <2>2, <2>3
<1>12. CASE SaveWorkerAnswer(c)
  <2>1. this.verdict \in Recipient /\ this.verdict \in Verdict
    BY <1>1, <1>12 DEF SaveWorkerAnswer, HandOK, Verdict
  <2>2. CASE AddNobleAccount(Address(c), this.verdict) /\ Return(c, this.verdict)
    BY <1>2, <1>3, <1>5, <1>6, <1>9, <2>1, <2>2, AddNobleAccountKeeps
  <2>3. CASE /\ UNCHANGED cached
             /\ call' = [call EXCEPT ![c].pc = "lcd", ![c].verdict = "unknown"]
    <3>1. NextHand(this, [this EXCEPT !.pc = "lcd", !.verdict = "unknown"])
      BY <1>1, <1>4, <1>5 DEF NextHand, Call, Pc, Verdict, HandOK, HoldsLog, HasBurn
    <3>2. call' = [call EXCEPT ![c] = [this EXCEPT !.pc = "lcd", !.verdict = "unknown"]]
      BY <2>3 DEF Inv, TypeOK
    <3> QED
      BY <1>7, <1>8, <2>3, <3>1, <3>2
  <2> QED
    BY <1>12, <2>2, <2>3 DEF SaveWorkerAnswer
<1>13. CASE AskLcd(c)
  <2>1. UNCHANGED cached
    BY <1>13 DEF AskLcd
  <2>2. CASE Return(c, "unknown")
    BY <1>8, <1>9, <2>1, <2>2 DEF Verdict
  <2>3. CASE ~ Return(c, "unknown")
    <3>1. /\ lcd[Address(c)] # "unknown"
          /\ call' = [call EXCEPT ![c].pc = "saveLcd", ![c].verdict = lcd[Address(c)]]
      BY <1>13, <2>3 DEF AskLcd
    <3>2. lcd[Address(c)] \in {"settlement", "stranger", "other"}
      BY <1>2, <1>3, <1>5, <3>1 DEF AccountsTypeOK
    <3>3. NextHand(this, [this EXCEPT !.pc = "saveLcd", !.verdict = lcd[Address(c)]])
      BY <1>1, <1>4, <1>5, <3>2
         DEF NextHand, Call, Pc, Verdict, Recipient, HandOK, HoldsLog, HasBurn
    <3>4. call' = [call EXCEPT ![c] = [this EXCEPT !.pc = "saveLcd",
                                                   !.verdict = lcd[Address(c)]]]
      BY <3>1 DEF Inv, TypeOK
    <3> QED
      BY <1>7, <1>8, <2>1, <3>3, <3>4
  <2> QED
    BY <2>2, <2>3
<1>14. CASE SaveLcdAnswer(c)
  <2>1. this.verdict \in Verdict /\ "unknown" \in Verdict
    BY <1>1, <1>14 DEF SaveLcdAnswer, HandOK, Verdict, Recipient
  <2>2. CASE AddNobleAccount(Address(c), this.verdict) /\ Return(c, this.verdict)
    BY <1>2, <1>3, <1>5, <1>6, <1>9, <2>1, <2>2, AddNobleAccountKeeps
  <2>3. CASE UNCHANGED cached /\ Return(c, "unknown")
    BY <1>8, <1>9, <2>1, <2>3
  <2> QED
    BY <1>14, <2>2, <2>3 DEF SaveLcdAnswer
<1> QED
  BY <1>10, <1>11, <1>12, <1>13, <1>14 DEF Resolve

-----------------------------------------------------------------------------
(***************************************************************************)
(* So does the rest of the two handlers.                                   *)
(***************************************************************************)

\* So does a step of a handler of a log or of a Noble block.
LEMMA HandleInv ==
    ASSUME Inv, NEW c \in Calls, Handle(c)
    PROVE  Inv'
<1> DEFINE this == call[c]
<1>1. /\ this \in Call /\ HasBurn(this) /\ HandOK(this, cached)
      /\ AccountsTypeOK /\ faults \in Nat /\ open \in BOOLEAN
  BY DEF Inv, TypeOK, HasBurn
<1>2. UNCHANGED <<cached, partyVars>> /\ open' \in BOOLEAN /\ faults' \in Nat /\ UNCHANGED logs
  BY <1>1 DEF Handle, AskEvm, LookUp, AddTransaction, QueryUnknown, UpdateRecipient,
     RemoveTransaction, CallFails, Fault
<1>3. KnownStays /\ AccountsTypeOK'
  BY <1>1, <1>2 DEF KnownStays, AccountsTypeOK, partyVars
<1>4. ASSUME NEW next, call' = [call EXCEPT ![c] = next], NextHand(this, next),
             UNCHANGED docVars
      PROVE  Inv'
  BY <1>2, <1>3, <1>4, OneCall
<1>5. NextHand(this, IdleCall)
  BY DEF NextHand, IdleCall, Call, Pc, Verdict, HandOK, HoldsLog, HasBurn
<1>6. CASE AskEvm(c)
  <2>1. this.pc \in {"timestamp", "sender"} /\ UNCHANGED docVars /\ this.burn \in Burns
    BY <1>1, <1>6 DEF AskEvm, HasBurn
  <2>2. ASSUME NEW next \in Call, next.pc \in {"timestamp", "sender", "cache"},
               next.kind = this.kind, next.burn = this.burn,
               call' = [call EXCEPT ![c] = next]
        PROVE  Inv'
    <3>1. NextHand(this, next)
      BY <2>1, <2>2 DEF NextHand, HandOK, HoldsLog, HasBurn
    <3> QED
      BY <1>4, <2>1, <2>2, <3>1
  <2>3. ASSUME NEW old \in Call
        PROVE  /\ Requests("sender", old) \in Call
               /\ Requests("sender", old).pc \in {"sender", "cache"}
               /\ Requests("sender", old).kind = old.kind
               /\ Requests("sender", old).burn = old.burn
    BY <2>3 DEF Requests, Call, Pc
  <2> DEFINE later == [this EXCEPT !.tries = @ + 1]
             blank == [this EXCEPT !.vague = TRUE]
             over  == [this EXCEPT !.pc = "cache", !.tries = 0]
             gone  == [this EXCEPT !.pc = "cache", !.tries = 0, !.vague = TRUE]
  <2>4. /\ later \in Call /\ later.pc = this.pc
        /\ later.kind = this.kind /\ later.burn = this.burn
    BY <1>1 DEF Call
  <2>5. blank \in Call /\ blank.kind = this.kind /\ blank.burn = this.burn
    BY <1>1 DEF Call
  <2>6. /\ over \in Call /\ over.pc = "cache" /\ over.kind = this.kind /\ over.burn = this.burn
        /\ gone \in Call /\ gone.pc = "cache" /\ gone.kind = this.kind /\ gone.burn = this.burn
    BY <1>1 DEF Call, Pc
  <2>7. PICK next : /\ call' = [call EXCEPT ![c] = next]
                    /\ \/ next = Requests("sender", this)
                       \/ next = Requests("sender", blank)
                       \/ next \in {later, over, gone}
    BY <1>6 DEF AskEvm, RequestFailed
  <2> HIDE DEF later, blank, over, gone
  <2>8. CASE next = Requests("sender", this)
    BY <1>1, <2>2, <2>3, <2>7, <2>8
  <2>9. CASE next = Requests("sender", blank)
    BY <2>2, <2>3, <2>5, <2>7, <2>9
  <2>10. CASE next \in {later, over, gone}
    BY <2>1, <2>2, <2>4, <2>6, <2>7, <2>10
  <2> QED
    BY <2>7, <2>8, <2>9, <2>10
<1>7. CASE LookUp(c)
  <2>1. CASE call' = [call EXCEPT ![c] = IdleCall]
    BY <1>4, <1>5, <1>7, <2>1 DEF LookUp
  <2>2. CASE call' = [call EXCEPT ![c].pc = "save"]
    <3>1. NextHand(this, [this EXCEPT !.pc = "save"])
      BY <1>1, <1>2, <1>7 DEF LookUp, NextHand, Call, Pc, HandOK, HoldsLog, HasBurn
    <3> QED
      BY <1>4, <1>7, <2>2, <3>1 DEF LookUp
  <2> QED
    BY <1>7, <2>1, <2>2 DEF LookUp
<1>8. CASE QueryUnknown(c)
  <2>1. PICK next \in NextTx(this, {b \in Burns : recipient[b] = "unknown"
                                                     /\ age[b] <= HoldTime}) :
          call' = [call EXCEPT ![c] = next]
    BY <1>8 DEF QueryUnknown
  <2>2. CASE next = IdleCall
    BY <1>4, <1>5, <1>8, <2>1, <2>2 DEF QueryUnknown
  <2>3. CASE next # IdleCall
    <3> DEFINE found == {b \in Burns : recipient[b] = "unknown" /\ age[b] <= HoldTime}
    <3>1. PICK b \in found :
            next = [this EXCEPT !.pc = "cache", !.burn = b, !.verdict = "unknown",
                                !.todo = found \ {b}]
      BY <2>1, <2>3 DEF NextTx
    <3>2. found \in SUBSET Burns
      OBVIOUS
    <3>3. NextHand(this, next) \/ this.kind = "log"
      <4>1. next \in Call
        BY <1>1, <3>1, <3>2 DEF Call, Pc, Verdict
      <4> QED
        BY <1>1, <3>1, <3>2, <4>1 DEF NextHand, Call, HandOK, HoldsLog, HasBurn
    <3>4. this.kind = "noble"
      BY <1>1, <1>8 DEF QueryUnknown, HandOK
    <3> QED
      BY <1>4, <1>8, <2>1, <3>3, <3>4 DEF QueryUnknown
  <2> QED
    BY <2>2, <2>3
<1>9. CASE CallFails(c)
  BY <1>4, <1>5, <1>9 DEF CallFails
<1>10. ASSUME call' = [call EXCEPT ![c] = IdleCall], RecipientsAgree', UNCHANGED cached,
              recipient' \in [Burns -> Recipient \cup {"none", "unknown"}],
              age' \in [Burns -> 0..(HoldTime + 1)], vague' \in SUBSET Burns,
              \A b \in Burns : \/ recipient'[b] = recipient[b]
                               \/ recipient[b] # "none"
                               \/ HoldsLog(this) /\ b = this.burn
       PROVE  Inv'
  <2>1. TypeOK'
    BY <1>1, <1>2, <1>3, <1>5, <1>10 DEF Inv, TypeOK, NextHand, HasBurn
  <2>2. \A d \in Calls : HandOK(call'[d], cached')
    BY <1>5, <1>10 DEF Inv, TypeOK, NextHand
  <2>3. ASSUME NEW d \in Calls, HoldsLog(call'[d])
        PROVE  /\ d # c /\ call'[d] = call[d] /\ call[d].burn \in Burns
               /\ HoldsLog(this) => call[d].burn # this.burn
    <3>1. d # c /\ call'[d] = call[d]
      BY <1>5, <1>10, <2>3 DEF Inv, TypeOK, HoldsLog, IdleCall
    <3>2. call[d].burn \in Burns
      BY <2>3, <3>1 DEF Inv, TypeOK, HandOK, HoldsLog
    <3> QED
      BY <2>3, <3>1, <3>2 DEF Inv, LogsAreOnce
  <2>4. LogsAreOnce'
    BY <1>2, <1>10, <2>3 DEF Inv, LogsAreOnce, TypeOK
  <2> QED
    BY <1>10, <2>1, <2>2, <2>4 DEF Inv
<1>11. CASE AddTransaction(c)
  <2>1. /\ this.verdict \in Recipient \cup {"unknown"}
        /\ this.verdict # "unknown" => this.verdict = cached[AddressOf[this.burn]]
        /\ this.burn \in Burns
        /\ HoldsLog(this)
    BY <1>1, <1>11 DEF AddTransaction, HandOK, HasBurn, HoldsLog, Call, Verdict
  <2> QED
    BY <1>2, <1>10, <1>11, <2>1, BoundsAssumption
       DEF AddTransaction, Inv, TypeOK, RecipientsAgree, Recipient
<1>12. CASE UpdateRecipient(c)
  <2>1. /\ this.verdict \in Recipient
        /\ this.verdict = cached[AddressOf[this.burn]]
        /\ this.burn \in Burns
    BY <1>1, <1>12 DEF UpdateRecipient, HandOK, HasBurn, Call, Verdict
  <2> QED
    BY <1>2, <1>10, <1>12, <2>1 DEF UpdateRecipient, Inv, TypeOK, RecipientsAgree, Recipient
<1>13. CASE RemoveTransaction(c)
  BY <1>2, <1>10, <1>13 DEF RemoveTransaction, Inv, TypeOK, RecipientsAgree, Recipient
<1> QED
  BY <1>6, <1>7, <1>8, <1>9, <1>11, <1>12, <1>13 DEF Handle

-----------------------------------------------------------------------------
(***************************************************************************)
(* And the steps that start, cut off or surround the handlers.             *)
(***************************************************************************)

\* A log that is taken has one handler from then on.
LEMMA TakeLogInv ==
    ASSUME Inv, NEW c \in Calls, TakeLog(c)
    PROVE  Inv'
<1>1. PICK b \in logs :
        /\ logs' = logs \ {b}
        /\ call' = [call EXCEPT ![c] = Requests("timestamp", [IdleCall EXCEPT !.burn = b])]
  BY DEF TakeLog
<1> DEFINE next == Requests("timestamp", [IdleCall EXCEPT !.burn = b])
<1>2. /\ next \in Call /\ HasBurn(next) /\ next.burn = b /\ b \in Burns
      /\ next.kind = "log" /\ HandOK(next, cached) /\ HoldsLog(next)
  BY DEF Inv, TypeOK, Requests, IdleCall, Call, Pc, Verdict, HasBurn, HandOK, HoldsLog
<1>3. /\ UNCHANGED <<cached, partyVars, docVars, open, faults>>
      /\ call[c].pc = "idle"
  BY DEF TakeLog
<1> HIDE DEF next
<1>4. TypeOK'
  BY <1>1, <1>2, <1>3 DEF Inv, TypeOK, AccountsTypeOK, HasBurn, partyVars, docVars, next
<1>5. \A d \in Calls : HandOK(call'[d], cached')
  BY <1>1, <1>2, <1>3 DEF Inv, TypeOK, next
<1>6. RecipientsAgree'
  BY <1>3 DEF Inv, RecipientsAgree, docVars
<1>7. LogsAreOnce'
  <2>1. call' = [call EXCEPT ![c] = next] /\ call \in [Calls -> Call]
    BY <1>1 DEF Inv, TypeOK, next
  <2>2. \A d \in Calls : d # c => call'[d] = call[d]
    BY <2>1
  <2>3. call'[c] = next
    BY <2>1
  <2> QED
    BY <1>1, <1>2, <1>3, <2>2, <2>3 DEF Inv, LogsAreOnce, docVars
<1> QED
  BY <1>4, <1>5, <1>6, <1>7 DEF Inv

\* A handler of a Noble block starts with empty hands.
LEMMA TakeNobleBlockInv ==
    ASSUME Inv, NEW c \in Calls, TakeNobleBlock(c)
    PROVE  Inv'
<1> DEFINE next == [IdleCall EXCEPT !.pc = "query", !.kind = "noble"]
<1>1. NextHand(call[c], next)
  BY DEF NextHand, IdleCall, Call, Pc, Verdict, HandOK, HoldsLog, HasBurn
<1>2. KnownStays /\ AccountsTypeOK'
  BY DEF TakeNobleBlock, Inv, TypeOK, KnownStays, AccountsTypeOK, partyVars
<1> QED
  BY <1>1, <1>2, OneCall DEF TakeNobleBlock, Inv, TypeOK

\* A stop takes calls and keeps the collections.
LEMMA RestartInv ==
    ASSUME Inv, Restart
    PROVE  Inv'
<1>1. IdleCall \in Call /\ HasBurn(IdleCall) /\ ~ HoldsLog(IdleCall)
  BY DEF IdleCall, Call, Pc, Verdict, HasBurn, HoldsLog
<1>2. \A d \in Calls : HandOK(call'[d], cached')
  BY DEF Restart, IdleCall, HandOK
<1>3. PICK again \in SUBSET {call[c].burn : c \in {k \in Calls : HoldsLog(call[k])}} :
        logs' = logs \cup again
  BY DEF Restart, HoldsLog
<1>4. \A b \in again : b \in Burns /\ recipient[b] = "none"
  <2>1. \A k \in Calls : HoldsLog(call[k]) => /\ call[k].burn \in Burns
                                              /\ recipient[call[k].burn] = "none"
    BY DEF Inv, TypeOK, HandOK, HoldsLog, LogsAreOnce
  <2> QED
    BY <2>1
<1>5. UNCHANGED <<cached, partyVars, docVars>> /\ faults' \in Nat /\ open' \in BOOLEAN
      /\ call' = [k \in Calls |-> IdleCall]
  BY DEF Restart, Fault, Inv, TypeOK
<1>6. TypeOK'
  BY <1>1, <1>3, <1>4, <1>5 DEF Inv, TypeOK, AccountsTypeOK, HasBurn, partyVars, docVars
<1>7. LogsAreOnce'
  BY <1>1, <1>3, <1>4, <1>5 DEF Inv, LogsAreOnce, docVars
<1>8. RecipientsAgree'
  BY <1>5 DEF Inv, RecipientsAgree, docVars
<1> QED
  BY <1>2, <1>6, <1>7, <1>8 DEF Inv

\* What nodes and the clock do touches neither calls nor accounts.
LEMMA SurroundingsInv ==
    ASSUME Inv, PartyStep \/ Disconnect \/ Reconnect \/ Tick
    PROVE  Inv'
<1>1. UNCHANGED <<cached, logs, recipient, vague, call>>
  BY DEF PartyStep, WorkerLearns, AccountCreated, Disconnect, Reconnect, Tick, docVars
<1>2. AccountsTypeOK'
  BY AnswersAssumption
     DEF Inv, TypeOK, AccountsTypeOK, PartyStep, WorkerLearns, AccountCreated, Disconnect,
         Reconnect, Tick, partyVars
<1>3. age' \in [Burns -> 0..(HoldTime + 1)]
  BY BoundsAssumption DEF Inv, TypeOK, PartyStep, Disconnect, Reconnect, Tick, docVars
<1>4. open' \in BOOLEAN /\ faults' \in Nat
  <2>1. open' \in {open, TRUE, FALSE} /\ (faults' = faults \/ Fault("disconnect"))
    BY Zenon DEF PartyStep, Disconnect, Reconnect, Tick
  <2>2. open \in BOOLEAN /\ faults \in Nat
    BY DEF Inv, TypeOK
  <2>3. open' \in BOOLEAN
    BY <2>1, <2>2, Zenon
  <2>4. faults' \in Nat
    BY <2>1, <2>2 DEF Fault
  <2> QED
    BY <2>3, <2>4
<1>5. TypeOK'
  BY <1>1, <1>2, <1>3, <1>4 DEF Inv, TypeOK
<1>6. RecipientsAgree' /\ LogsAreOnce'
  BY <1>1 DEF Inv, RecipientsAgree, LogsAreOnce
<1>7. \A c \in Calls : HandOK(call'[c], cached')
  BY <1>1 DEF Inv
<1> QED
  BY <1>5, <1>6, <1>7 DEF Inv

\* Every step keeps the invariant.
LEMMA NextInv == Inv /\ [Next]_vars => Inv'
<1> SUFFICES ASSUME Inv, [Next]_vars PROVE Inv'
  OBVIOUS
<1>1. CASE UNCHANGED vars
  BY <1>1 DEF vars, partyVars, docVars, Inv, TypeOK, AccountsTypeOK, RecipientsAgree, LogsAreOnce
<1>2. CASE \E c \in Calls : TakeLog(c) \/ TakeNobleBlock(c) \/ Resolve(c) \/ Handle(c)
  BY <1>2, TakeLogInv, TakeNobleBlockInv, ResolveInv, HandleInv
<1>3. CASE PartyStep \/ Disconnect \/ Reconnect \/ Tick
  BY <1>3, SurroundingsInv
<1> QED
  BY <1>1, <1>2, <1>3, RestartInv DEF Next

-----------------------------------------------------------------------------
(***************************************************************************)
(* The theorems.                                                           *)
(***************************************************************************)

\* Every variable of the resolver keeps its type.
THEOREM TypeCorrect == Spec => []TypeOK
<1>1. Inv => TypeOK
  BY DEF Inv
<1> QED
  BY <1>1, InitInv, NextInv, PTL DEF Spec

\* Documents of burns to one address never have different recipients, whoever
\* answers first and however the handlers overlap (src/lib/noble-lcd.ts:166-204).
THEOREM OneRecipient == Spec => []RecipientsAgree
<1>1. Inv => RecipientsAgree
  BY DEF Inv
<1> QED
  BY <1>1, InitInv, NextInv, PTL DEF Spec

\* A step that changes a document whose recipient is known does not exist.
LEMMA RecipientStep ==
    ASSUME Inv, [Next]_vars, NEW b \in Burns, recipient[b] \in Recipient
    PROVE  recipient'[b] = recipient[b]
<1>1. ASSUME NEW c \in Calls, AddTransaction(c)
      PROVE  recipient'[b] = recipient[b]
  BY <1>1 DEF AddTransaction, Inv, TypeOK, HandOK, LogsAreOnce, HoldsLog, Recipient
<1>2. ASSUME NEW c \in Calls, UpdateRecipient(c) \/ RemoveTransaction(c)
      PROVE  recipient'[b] = recipient[b]
  BY <1>2 DEF UpdateRecipient, RemoveTransaction, Inv, TypeOK, HandOK, RecipientsAgree, Recipient
<1>3. CASE UNCHANGED recipient
  BY <1>3
<1> QED
  BY <1>1, <1>2, <1>3
     DEF Next, vars, docVars, TakeLog, TakeNobleBlock, Resolve, ReadCache, AskWorker,
         SaveWorkerAnswer, AskLcd, SaveLcdAnswer, UnchangedByResolution, Handle, AskEvm, LookUp,
         QueryUnknown, CallFails, PartyStep, Disconnect, Reconnect, Restart, Tick

\* Once the recipient of a burn is known no handler changes it or removes its
\* document.
THEOREM RecipientStays == Spec => RecipientIsFinal
<1>1. Inv /\ [Next]_vars => [\A b \in Burns : recipient[b] \in Recipient
                                                => recipient'[b] = recipient[b]]_vars
  BY RecipientStep
<1> QED
  BY <1>1, InitInv, NextInv, PTL DEF Spec, RecipientIsFinal

-----------------------------------------------------------------------------
(***************************************************************************)
(* Requests: every failed try of a loop is a failure of its own.           *)
(***************************************************************************)

\* The tries of a call in its loop are no more than the failures so far, and it has
\* ended a loop without an answer only after as many failures as there are retries.
TriesOK(this, failed) ==
    /\ this.tries <= failed
    /\ this.vague => Retries <= failed

\* That holds of every call, and recorded values are vague no sooner either.
TriesInv ==
    /\ \A c \in Calls : TriesOK(call[c], faults)
    /\ VagueAfterRetries

\* What a call is taken to counts its tries as long as it has not ended one
\* without an answer that it had not ended before.
LEMMA TriesOf ==
    ASSUME NEW this \in Call, NEW pc, NEW tries \in Nat
    PROVE  /\ [this EXCEPT !.pc = pc, !.tries = tries].tries = tries
           /\ [this EXCEPT !.pc = pc, !.tries = tries].vague = this.vague
           /\ [this EXCEPT !.pc = pc, !.tries = tries, !.vague = TRUE].tries = tries
           /\ [this EXCEPT !.tries = @ + 1].tries = this.tries + 1
           /\ [this EXCEPT !.tries = @ + 1].vague = this.vague
           /\ [this EXCEPT !.vague = TRUE].tries = this.tries
           /\ [this EXCEPT !.pc = pc, !.vague = TRUE].tries = this.tries
           /\ [this EXCEPT !.vague = TRUE] \in Call
  BY DEF Call

\* A step of one call that counts no more tries than failures.
LEMMA OneCallTries ==
    ASSUME Inv, TriesInv, NEW c \in Calls, NEW next,
           call' = [call EXCEPT ![c] = next], TriesOK(next, faults'),
           faults' \in Nat, faults <= faults', UNCHANGED vague
    PROVE  TriesInv'
<1>1. faults \in Nat /\ Retries \in Nat /\ call \in [Calls -> Call]
  BY BoundsAssumption DEF Inv, TypeOK
<1>2. ASSUME NEW d \in Calls PROVE TriesOK(call'[d], faults')
  <2>1. CASE d = c
    BY <1>1, <2>1
  <2>2. CASE d # c
    <3>1. call'[d] = call[d] /\ call[d] \in Call
      BY <1>1, <2>2
    <3>2. call[d].tries \in Nat
      BY <3>1 DEF Call
    <3> QED
      BY <1>1, <3>1, <3>2 DEF TriesInv, TriesOK
  <2> QED
    BY <2>1, <2>2
<1>3. VagueAfterRetries'
  BY <1>1 DEF TriesInv, VagueAfterRetries
<1> QED
  BY <1>2, <1>3 DEF TriesInv

\* The loop begins with no tries; with no retries allowed it ends at once, vague.
LEMMA RequestsTries ==
    ASSUME NEW this \in Call, NEW pc, NEW failed \in Nat, TriesOK(this, failed)
    PROVE  TriesOK(Requests(pc, this), failed)
<1>1. this.tries \in Nat /\ Retries \in Nat
  BY BoundsAssumption DEF Call
<1>2. CASE Retries = 0
  BY <1>1, <1>2, TriesOf DEF Requests, TriesOK
<1>3. CASE Retries # 0
  BY <1>1, <1>3, TriesOf DEF Requests, TriesOK
<1> QED
  BY <1>2, <1>3

\* A request that fails is one failure and one try.
LEMMA RequestFailedTries ==
    ASSUME NEW this \in Call, NEW failed \in Nat, TriesOK(this, failed)
    PROVE  TriesOK(RequestFailed(this), failed + 1)
<1>1. this.tries \in Nat /\ Retries \in Nat /\ this.tries <= failed
  BY BoundsAssumption DEF Call, TriesOK
<1>2. CASE this.tries + 1 < Retries
  BY <1>1, <1>2, TriesOf DEF RequestFailed, TriesOK
<1>3. CASE ~ (this.tries + 1 < Retries)
  <2>1. Retries <= failed + 1 /\ failed + 1 \in Nat /\ this.tries <= failed + 1 /\ 0 <= failed + 1
    BY <1>1, <1>3
  <2>2. TriesOK([this EXCEPT !.vague = TRUE], failed + 1)
    BY <2>1, TriesOf DEF TriesOK
  <2>3. TriesOK([this EXCEPT !.pc = "cache", !.tries = 0, !.vague = TRUE], failed + 1)
    BY <2>1, TriesOf DEF TriesOK
  <2>4. TriesOK(Requests("sender", [this EXCEPT !.vague = TRUE]), failed + 1)
    BY <2>1, <2>2, TriesOf, RequestsTries
  <2> QED
    BY <1>3, <2>3, <2>4 DEF RequestFailed
<1> QED
  BY <1>2, <1>3

\* A request that is answered ends the loop; one that fails is a failure and a try.
LEMMA AskEvmTries ==
    ASSUME Inv, TriesInv, NEW c \in Calls, AskEvm(c)
    PROVE  TriesInv'
<1>1. call[c] \in Call /\ TriesOK(call[c], faults) /\ faults \in Nat
  BY DEF Inv, TypeOK, TriesInv
<1>2. PICK next : /\ call' = [call EXCEPT ![c] = next]
                  /\ \/ /\ UNCHANGED faults
                        /\ next \in {Requests("sender", call[c]),
                                     [call[c] EXCEPT !.pc = "cache", !.tries = 0]}
                     \/ /\ faults' = faults + 1
                        /\ next = RequestFailed(call[c])
  BY DEF AskEvm, Fault
<1>3. TriesOK(next, faults') /\ faults' \in Nat /\ faults <= faults'
  <2>1. CASE faults' = faults + 1 /\ next = RequestFailed(call[c])
    BY <1>1, <2>1, RequestFailedTries
  <2>2. CASE UNCHANGED faults /\ next = Requests("sender", call[c])
    BY <1>1, <2>2, RequestsTries
  <2>3. CASE UNCHANGED faults /\ next = [call[c] EXCEPT !.pc = "cache", !.tries = 0]
    BY <1>1, <2>3, TriesOf DEF TriesOK
  <2> QED
    BY <1>2, <2>1, <2>2, <2>3
<1>4. UNCHANGED vague
  BY DEF AskEvm, docVars
<1> QED
  BY <1>2, <1>3, <1>4, OneCallTries

\* The other steps count no more: they go on with the call or leave it.
Carries(this, next) == next = IdleCall \/ (next.tries = this.tries /\ next.vague = this.vague)

\* A call that goes on carries its tries along.
LEMMA CarriesTries ==
    ASSUME Inv, TriesInv, NEW c \in Calls, NEW next, Carries(call[c], next),
           call' = [call EXCEPT ![c] = next], faults' \in Nat, faults <= faults', UNCHANGED vague
    PROVE  TriesInv'
<1>1. faults \in Nat /\ Retries \in Nat /\ call[c] \in Call /\ TriesOK(call[c], faults)
  BY BoundsAssumption DEF Inv, TypeOK, TriesInv
<1>2. call[c].tries \in Nat
  BY <1>1 DEF Call
<1>3. TriesOK(next, faults')
  BY <1>1, <1>2 DEF TriesOK, Carries, IdleCall
<1> QED
  BY <1>3, OneCallTries

\* The next burn of a handler begins with no tries.
LEMMA NextTxCarries ==
    ASSUME NEW this \in Call, NEW todo, NEW next \in NextTx(this, todo)
    PROVE  Carries(this, next)
  BY DEF NextTx, Carries, Call

\* A conclusion carries the tries along.
LEMMA ConcludeCarries ==
    ASSUME NEW this \in Call, NEW verdict, NEW next \in Conclude(this, verdict)
    PROVE  Carries(this, next)
<1>1. CASE next = IdleCall
  BY <1>1 DEF Carries
<1>2. CASE next \in NextTx(this, this.todo)
  BY <1>2, NextTxCarries
<1>3. ASSUME NEW pc, next = [this EXCEPT !.pc = pc, !.verdict = verdict]
      PROVE  Carries(this, next)
  BY <1>3 DEF Carries, Call
<1> QED
  BY <1>1, <1>2, <1>3 DEF Conclude

\* A step of a resolution keeps the count.
LEMMA ResolveTries ==
    ASSUME Inv, TriesInv, NEW c \in Calls, Resolve(c)
    PROVE  TriesInv'
<1>1. call[c] \in Call /\ faults \in Nat /\ call \in [Calls -> Call]
  BY DEF Inv, TypeOK
<1>2. /\ UNCHANGED vague
      /\ faults' = faults \/ Fault("rpc") \/ Fault("db")
  BY DEF Resolve, ReadCache, AskWorker, SaveWorkerAnswer, AskLcd, SaveLcdAnswer,
         UnchangedByResolution, docVars
<1>3. faults' \in Nat /\ faults <= faults'
  BY <1>1, <1>2 DEF Fault
<1>4. \/ \E verdict : Return(c, verdict)
      \/ \E pc : call' = [call EXCEPT ![c].pc = pc]
      \/ \E pc, verdict : call' = [call EXCEPT ![c].pc = pc, ![c].verdict = verdict]
  BY DEF Resolve, ReadCache, AskWorker, SaveWorkerAnswer, AskLcd, SaveLcdAnswer
<1>5. CASE \E verdict : Return(c, verdict)
  <2>1. PICK verdict : Return(c, verdict)
    BY <1>5
  <2>2. PICK next \in Conclude(call[c], verdict) : call' = [call EXCEPT ![c] = next]
    BY <2>1 DEF Return
  <2> QED
    BY <1>1, <1>2, <1>3, <2>2, ConcludeCarries, CarriesTries
<1>6. CASE \E pc : call' = [call EXCEPT ![c].pc = pc]
  <2>1. PICK pc : call' = [call EXCEPT ![c].pc = pc]
    BY <1>6
  <2> DEFINE next == [call[c] EXCEPT !.pc = pc]
  <2>2. Carries(call[c], next)
    BY <1>1 DEF Carries, Call
  <2> QED
    BY <1>1, <1>2, <1>3, <2>1, <2>2, CarriesTries
<1>7. CASE \E pc, verdict : call' = [call EXCEPT ![c].pc = pc, ![c].verdict = verdict]
  <2>1. PICK pc, verdict : call' = [call EXCEPT ![c].pc = pc, ![c].verdict = verdict]
    BY <1>7
  <2> DEFINE next == [call[c] EXCEPT !.pc = pc, !.verdict = verdict]
  <2>2. call' = [call EXCEPT ![c] = next]
    BY <1>1, <2>1
  <2>3. Carries(call[c], next)
    BY <1>1 DEF Carries, Call
  <2> QED
    BY <1>1, <1>2, <1>3, <2>2, <2>3, CarriesTries
<1> QED
  BY <1>4, <1>5, <1>6, <1>7

\* So does a step of a handler.
LEMMA HandleTries ==
    ASSUME Inv, TriesInv, NEW c \in Calls, Handle(c)
    PROVE  TriesInv'
<1>1. call[c] \in Call /\ faults \in Nat /\ call \in [Calls -> Call]
  BY DEF Inv, TypeOK
<1>2. ASSUME NEW next, call' = [call EXCEPT ![c] = next], Carries(call[c], next),
             UNCHANGED vague, UNCHANGED faults \/ Fault("db")
      PROVE  TriesInv'
  <2>1. faults' \in Nat /\ faults <= faults'
    BY <1>1, <1>2 DEF Fault
  <2> QED
    BY <1>2, <2>1, CarriesTries
<1>3. Carries(call[c], IdleCall)
  BY DEF Carries
<1>4. CASE AskEvm(c)
  BY <1>4, AskEvmTries
<1>5. CASE LookUp(c)
  <2>1. PICK next : /\ call' = [call EXCEPT ![c] = next]
                    /\ next \in {IdleCall, [call[c] EXCEPT !.pc = "save"]}
    BY <1>5 DEF LookUp
  <2>2. Carries(call[c], next)
    BY <1>1, <2>1 DEF Carries, Call
  <2> QED
    BY <1>2, <1>5, <2>1, <2>2 DEF LookUp, docVars
<1>6. CASE QueryUnknown(c)
  <2> DEFINE unknown == {b \in Burns : recipient[b] = "unknown" /\ age[b] <= HoldTime}
  <2>1. PICK next \in NextTx(call[c], unknown) : call' = [call EXCEPT ![c] = next]
    BY <1>6 DEF QueryUnknown
  <2>2. Carries(call[c], next)
    BY <1>1, <2>1, NextTxCarries
  <2> QED
    BY <1>2, <1>6, <2>1, <2>2 DEF QueryUnknown, docVars
<1>7. CASE UpdateRecipient(c) \/ RemoveTransaction(c)
  BY <1>2, <1>3, <1>7 DEF UpdateRecipient, RemoveTransaction
<1>8. CASE CallFails(c)
  BY <1>2, <1>3, <1>8 DEF CallFails, docVars
<1>9. CASE AddTransaction(c)
  <2>1. /\ UNCHANGED faults /\ call' = [call EXCEPT ![c] = IdleCall]
        /\ vague' # vague => call[c].vague
    BY <1>9 DEF AddTransaction
  <2>2. vague' # {} => faults >= Retries
    BY <1>1, <2>1, BoundsAssumption DEF TriesInv, TriesOK, VagueAfterRetries
  <2>3. ASSUME NEW d \in Calls PROVE TriesOK(call'[d], faults')
    BY <1>1, <2>1, <2>3 DEF TriesInv, TriesOK, IdleCall
  <2> QED
    BY <2>1, <2>2, <2>3 DEF TriesInv, VagueAfterRetries
<1> QED
  BY <1>4, <1>5, <1>6, <1>7, <1>8, <1>9 DEF Handle

\* So does every step.
LEMMA NextTries == Inv /\ TriesInv /\ [Next]_vars => TriesInv'
<1> SUFFICES ASSUME Inv, TriesInv, [Next]_vars PROVE TriesInv'
  OBVIOUS
<1>1. faults \in Nat /\ Retries \in Nat /\ call \in [Calls -> Call]
  BY BoundsAssumption DEF Inv, TypeOK
<1>2. CASE UNCHANGED <<call, vague>> /\ faults' \in Nat /\ faults <= faults'
  <2>1. \A d \in Calls : call[d].tries \in Nat
    BY <1>1 DEF Call
  <2> QED
    BY <1>1, <1>2, <2>1 DEF TriesInv, TriesOK, VagueAfterRetries
<1>3. CASE PartyStep \/ Disconnect \/ Reconnect \/ Tick \/ UNCHANGED vars
  BY <1>1, <1>2, <1>3 DEF PartyStep, Disconnect, Reconnect, Tick, Fault, vars, docVars
<1>4. IdleCall.tries = 0 /\ IdleCall.vague = FALSE /\ IdleCall \in Call
  BY DEF IdleCall, Call, Pc, Verdict
<1>5. ASSUME NEW c \in Calls, TakeLog(c) \/ TakeNobleBlock(c)
      PROVE  TriesInv'
  <2>1. CASE TakeLog(c)
    <3>1. PICK b \in logs :
            call' = [call EXCEPT ![c] = Requests("timestamp", [IdleCall EXCEPT !.burn = b])]
      BY <2>1 DEF TakeLog
    <3> DEFINE first == [IdleCall EXCEPT !.burn = b]
    <3>2. first \in Call /\ first.tries = 0 /\ first.vague = FALSE
      <4>1. b \in Burns
        BY <3>1 DEF Inv, TypeOK
      <4> QED
        BY <1>4, <4>1 DEF Call, IdleCall
    <3>3. TriesOK(first, faults)
      BY <1>1, <3>2 DEF TriesOK
    <3>4. UNCHANGED <<faults, vague>>
      BY <2>1 DEF TakeLog, docVars
    <3> HIDE DEF first
    <3>5. TriesOK(Requests("timestamp", first), faults')
      BY <1>1, <3>2, <3>3, <3>4, RequestsTries
    <3>6. call' = [call EXCEPT ![c] = Requests("timestamp", first)]
      BY <3>1 DEF first
    <3>7. faults' \in Nat /\ faults <= faults'
      BY <1>1, <3>4
    <3> QED
      BY <3>4, <3>5, <3>6, <3>7, OneCallTries
  <2>2. CASE TakeNobleBlock(c)
    <3> DEFINE first == [IdleCall EXCEPT !.pc = "query", !.kind = "noble"]
    <3>1. TriesOK(first, faults)
      BY <1>1, <1>4 DEF TriesOK, IdleCall
    <3>2. call' = [call EXCEPT ![c] = first] /\ UNCHANGED <<faults, vague>>
      BY <2>2 DEF TakeNobleBlock, docVars
    <3> HIDE DEF first
    <3>3. TriesOK(first, faults') /\ faults' \in Nat /\ faults <= faults'
      BY <1>1, <3>1, <3>2
    <3> QED
      BY <3>2, <3>3, OneCallTries
  <2> QED
    BY <1>5, <2>1, <2>2
<1>6. CASE Restart
  <2>1. /\ call' = [d \in Calls |-> IdleCall] /\ UNCHANGED vague
        /\ faults' \in Nat /\ faults <= faults'
    BY <1>1, <1>6 DEF Restart, Fault, docVars
  <2> QED
    BY <1>1, <2>1 DEF TriesInv, TriesOK, VagueAfterRetries, IdleCall
<1> QED
  BY <1>3, <1>4, <1>5, <1>6, ResolveTries, HandleTries DEF Next

\* A burn is recorded without its timestamp or its sender only after as many
\* requests as REQUESTS_RETRIES have failed (src/lib/evm-client.ts:96-142).
THEOREM RetriesComeFirst == Spec => []VagueAfterRetries
<1>1. Init => TriesInv
  BY BoundsAssumption DEF Init, TriesInv, TriesOK, VagueAfterRetries, IdleCall
<1>2. TriesInv => VagueAfterRetries
  BY DEF TriesInv
<1> QED
  BY <1>1, <1>2, InitInv, NextInv, NextTries, PTL DEF Spec

=============================================================================
