---------------------------- MODULE NobleResolver -----------------------------
(***************************************************************************)
(* How a burn gets its recipient: the resolution of its Noble address      *)
(* (getOCWForwardingAccount in src/processor.ts, queryWorkerForNFA in      *)
(* src/lib/agoric.ts, getForwardingAccount in src/lib/noble-lcd.ts), the   *)
(* handler of its log, and the handler of Noble blocks, which asks again   *)
(* for the burns that nobody could resolve.                                *)
(*                                                                         *)
(* Nobody waits for a handler's promise: a member of Calls is a handler in *)
(* progress, of a log or of a Noble block, and its awaits are its program  *)
(* counters.  A log is handled once; EvmWatcher has the ones that come     *)
(* twice, the reorganizations and the risks.                               *)
(***************************************************************************)
EXTENDS NobleAccounts

CONSTANTS Burns,         \* burns sent to Noble
          MintRecipient, \* the encoded Noble address of each
          Trusted,       \* burns of a depositor that the chain policy lists
          Calls,         \* handlers that can be in progress together
          NoBurn,        \* the burn of a call that has none in its hands
          HoldTime,      \* MINUTES_HOLDING_UNKNOWN_FA
          Retries,       \* REQUESTS_RETRIES
          Failures,      \* what may go wrong in a run
          MaxFaults      \* bound: how often

ASSUME BurnsAssumption ==
    /\ MintRecipient \in [Burns -> Encoded]
    /\ Trusted \subseteq Burns
    /\ NoBurn \notin Burns
ASSUME BoundsAssumption ==
    /\ HoldTime \in Nat
    /\ Retries \in Nat
    /\ MaxFaults \in Nat
    /\ Failures \subseteq {"db", "rpc", "evm", "disconnect", "stop"}

VARIABLES logs,      \* logs of burns that no handler has taken
          recipient, \* recipientAddress of each burn's document, "none" without one
          age,       \* time since its document was created
          vague,     \* burns recorded with timestamp 0 or sender TIMEOUT
          open,      \* the websocket to Noble is open
          call,      \* the calls in progress
          faults     \* failures so far

AddressOf == [b \in Burns |-> DecodeToNoble(MintRecipient[b])]

docVars == <<recipient, age, vague>>

vars == <<cached, partyVars, logs, docVars, open, call, faults>>

\* timestamp, sender: getBlockTimestamp and getTxSender, by the handler of a log.
\* query: getUnknownFATransactionsSince.  cache, worker, saveWorker, lcd,
\* saveLcd: the resolution.  lookup, save: the rest of the handler of a log.
\* update, remove: those of the handler of a Noble block.
Pc == {"idle", "timestamp", "sender", "query", "cache", "worker", "saveWorker", "lcd", "saveLcd",
       "lookup", "save", "update", "remove"}

Call == [pc : Pc, kind : {"log", "noble"}, burn : Burns \cup {NoBurn},
         verdict : Verdict,   \* answer in hand
         todo : SUBSET Burns, \* burns the query returned, still to resolve
         tries : Nat,         \* failed requests of the loop
         vague : BOOLEAN]     \* a loop ended without an answer

IdleCall == [pc |-> "idle", kind |-> "log", burn |-> NoBurn,
             verdict |-> "unknown", todo |-> {}, tries |-> 0, vague |-> FALSE]

TypeOK ==
    /\ AccountsTypeOK
    /\ logs \in SUBSET Burns
    /\ recipient \in [Burns -> Recipient \cup {"none", "unknown"}]
    /\ age \in [Burns -> 0..(HoldTime + 1)]
    /\ vague \in SUBSET Burns
    /\ open \in BOOLEAN
    /\ call \in [Calls -> Call]
    /\ \A c \in Calls : call[c].pc \notin {"idle", "query"} => call[c].burn \in Burns
    /\ faults \in Nat

Init ==
    /\ AccountsInit
    /\ logs = Burns
    /\ recipient = [b \in Burns |-> "none"]
    /\ age = [b \in Burns |-> 0]
    /\ vague = {}
    /\ open = TRUE
    /\ call = [c \in Calls |-> IdleCall]
    /\ faults = 0

Fault(kind) ==
    /\ kind \in Failures
    /\ faults < MaxFaults
    /\ faults' = faults + 1

-----------------------------------------------------------------------------
(* The handlers start.                                                     *)

\* A loop of requests begins: with no retries it is over at once.
Requests(pc, this) ==
    IF Retries = 0 THEN [this EXCEPT !.pc = "cache", !.vague = TRUE]
    ELSE [this EXCEPT !.pc = pc, !.tries = 0]

\* Faulty form: the last try is left out.
RequestFailedEarly(this) ==
    IF this.tries + 2 < Retries THEN [this EXCEPT !.tries = @ + 1]
    ELSE IF this.pc = "timestamp" THEN Requests("sender", [this EXCEPT !.vague = TRUE])
    ELSE [this EXCEPT !.pc = "cache", !.tries = 0, !.vague = TRUE]

\* The request is repeated, or the loop ends without an answer.
RequestFailed(this) ==
    IF this.tries + 1 < Retries THEN [this EXCEPT !.tries = @ + 1]
    ELSE IF this.pc = "timestamp" THEN Requests("sender", [this EXCEPT !.vague = TRUE])
    ELSE [this EXCEPT !.pc = "cache", !.tries = 0, !.vague = TRUE]

\* getBlockTimestamp, then getTxSender.  A block or a transaction that the node
\* does not know is an error like any other.
AskEvm(c) ==
    /\ call[c].pc \in {"timestamp", "sender"}
    /\ \/ /\ call' = [call EXCEPT ![c] = IF call[c].pc = "timestamp"
                                         THEN Requests("sender", call[c])
                                         ELSE [call[c] EXCEPT !.pc = "cache", !.tries = 0]]
          /\ UNCHANGED faults
       \/ /\ Fault("evm")
          /\ call' = [call EXCEPT ![c] = RequestFailed(call[c])]
    /\ UNCHANGED <<cached, partyVars, logs, docVars, open>>

TakeLog(c) ==
    /\ call[c].pc = "idle"
    /\ \E b \in logs :
         /\ logs' = logs \ {b}
         /\ call' = [call EXCEPT ![c] = Requests("timestamp", [IdleCall EXCEPT !.burn = b])]
    /\ UNCHANGED <<cached, partyVars, docVars, open, faults>>

TakeNobleBlock(c) ==
    /\ call[c].pc = "idle"
    /\ open
    /\ call' = [call EXCEPT ![c] = [IdleCall EXCEPT !.pc = "query", !.kind = "noble"]]
    /\ UNCHANGED <<cached, partyVars, logs, docVars, open, faults>>

-----------------------------------------------------------------------------
(* The resolution, for either handler.                                     *)

Address(c) == AddressOf[call[c].burn]

\* The handler of a Noble block with the next burn of its query.
NextTx(this, todo) ==
    IF todo = {} THEN {IdleCall}
    ELSE {[this EXCEPT !.pc = "cache", !.burn = b, !.verdict = "unknown",
                       !.todo = todo \ {b}] : b \in todo}

\* Faulty form: the first burn that cannot be resolved ends the handler.
ConcludeFirst(this, verdict) ==
    IF this.kind = "log"
    THEN IF verdict = "other" \/ this.burn \notin Trusted THEN {IdleCall}
         ELSE {[this EXCEPT !.pc = "lookup", !.verdict = verdict]}
    ELSE IF verdict = "unknown" THEN {IdleCall}
         ELSE {[this EXCEPT !.pc = IF verdict = "other" THEN "remove" ELSE "update",
                            !.verdict = verdict]}

\* Faulty form: an address that is not for Agoric does not stop the log's handler.
ConcludeAny(this, verdict) ==
    IF this.kind = "log"
    THEN IF this.burn \notin Trusted THEN {IdleCall}
         ELSE {[this EXCEPT !.pc = "lookup", !.verdict = verdict]}
    ELSE IF verdict = "unknown" THEN NextTx(this, this.todo)
         ELSE {[this EXCEPT !.pc = IF verdict = "other" THEN "remove" ELSE "update",
                            !.verdict = verdict]}

\* What the call goes on to do with the verdict.
Conclude(this, verdict) ==
    IF this.kind = "log"
    THEN IF verdict = "other" \/ this.burn \notin Trusted THEN {IdleCall}
         ELSE {[this EXCEPT !.pc = "lookup", !.verdict = verdict]}
    ELSE IF verdict = "unknown" THEN NextTx(this, this.todo)
         ELSE {[this EXCEPT !.pc = IF verdict = "other" THEN "remove" ELSE "update",
                            !.verdict = verdict]}

Return(c, verdict) == \E next \in Conclude(call[c], verdict) : call' = [call EXCEPT ![c] = next]

UnchangedByResolution == UNCHANGED <<partyVars, logs, docVars, open>>

\* getNobleAccount.
ReadCache(c) ==
    /\ call[c].pc = "cache"
    /\ IF cached[Address(c)] = "unknown"
       THEN call' = [call EXCEPT ![c].pc = "worker"]
       ELSE Return(c, cached[Address(c)])
    /\ UnchangedByResolution
    /\ UNCHANGED <<cached, faults>>

\* queryWorkerForNFA answers null for an error as for an unknown address.
AskWorker(c) ==
    /\ call[c].pc = "worker"
    /\ \/ /\ worker[Address(c)] # "unknown"
          /\ call' = [call EXCEPT ![c].pc = "saveWorker", ![c].verdict = worker[Address(c)]]
          /\ UNCHANGED faults
       \/ /\ (worker[Address(c)] = "unknown" /\ UNCHANGED faults) \/ Fault("rpc")
          /\ call' = [call EXCEPT ![c].pc = "lcd"]
    /\ UnchangedByResolution
    /\ UNCHANGED cached

\* A document that cannot be added counts as an error too.
SaveWorkerAnswer(c) ==
    /\ call[c].pc = "saveWorker"
    /\ \/ /\ AddNobleAccount(Address(c), call[c].verdict)
          /\ Return(c, call[c].verdict)
          /\ UNCHANGED faults
       \/ /\ (cached[Address(c)] # "unknown" /\ UNCHANGED faults) \/ Fault("db")
          /\ call' = [call EXCEPT ![c].pc = "lcd", ![c].verdict = "unknown"]
          /\ UNCHANGED cached
    /\ UnchangedByResolution

\* getForwardingAccount answers UNKNOWN_FA for an error as for an address that
\* has no account.
AskLcd(c) ==
    /\ call[c].pc = "lcd"
    /\ \/ /\ lcd[Address(c)] # "unknown"
          /\ call' = [call EXCEPT ![c].pc = "saveLcd", ![c].verdict = lcd[Address(c)]]
          /\ UNCHANGED faults
       \/ /\ (lcd[Address(c)] = "unknown" /\ UNCHANGED faults) \/ Fault("rpc")
          /\ Return(c, "unknown")
    /\ UnchangedByResolution
    /\ UNCHANGED cached

SaveLcdAnswer(c) ==
    /\ call[c].pc = "saveLcd"
    /\ \/ /\ AddNobleAccount(Address(c), call[c].verdict)
          /\ Return(c, call[c].verdict)
          /\ UNCHANGED faults
       \/ /\ (cached[Address(c)] # "unknown" /\ UNCHANGED faults) \/ Fault("db")
          /\ Return(c, "unknown")
          /\ UNCHANGED cached
    /\ UnchangedByResolution

Resolve(c) ==
    \/ ReadCache(c)
    \/ AskWorker(c)
    \/ SaveWorkerAnswer(c)
    \/ AskLcd(c)
    \/ SaveLcdAnswer(c)

-----------------------------------------------------------------------------
(* The rest of the two handlers.                                           *)

\* A burn whose recipient is known to be another account than the settlement
\* account is not recorded; one without an EUD parameter is.
LookUp(c) ==
    /\ call[c].pc = "lookup"
    /\ call' = IF call[c].verdict = "stranger"
               THEN [call EXCEPT ![c] = IdleCall]
               ELSE [call EXCEPT ![c].pc = "save"]
    /\ UNCHANGED <<cached, partyVars, logs, docVars, open, faults>>

AddTransaction(c) ==
    /\ call[c].pc = "save"
    /\ recipient' = [recipient EXCEPT ![call[c].burn] = call[c].verdict]
    /\ age' = [age EXCEPT ![call[c].burn] = 0]
    /\ vague' = IF call[c].vague THEN vague \cup {call[c].burn} ELSE vague
    /\ call' = [call EXCEPT ![c] = IdleCall]
    /\ UNCHANGED <<cached, partyVars, logs, open, faults>>

\* Burns whose recipient is unknown, of the last HoldTime.
QueryUnknown(c) ==
    /\ call[c].pc = "query"
    /\ \E next \in NextTx(call[c], {b \in Burns : recipient[b] = "unknown"
                                                     /\ age[b] <= HoldTime}) :
         call' = [call EXCEPT ![c] = next]
    /\ UNCHANGED <<cached, partyVars, logs, docVars, open, faults>>

\* The handler writes to the document of the burn if there still is one, and
\* leaves the rest of its query to the next block.
UpdateRecipient(c) ==
    /\ call[c].pc = "update"
    /\ recipient' = IF recipient[call[c].burn] = "none" THEN recipient
                    ELSE [recipient EXCEPT ![call[c].burn] = call[c].verdict]
    /\ call' = [call EXCEPT ![c] = IdleCall]
    /\ UNCHANGED <<cached, partyVars, logs, age, vague, open, faults>>

RemoveTransaction(c) ==
    /\ call[c].pc = "remove"
    /\ recipient' = [recipient EXCEPT ![call[c].burn] = "none"]
    /\ call' = [call EXCEPT ![c] = IdleCall]
    /\ UNCHANGED <<cached, partyVars, logs, age, vague, open, faults>>

\* A query fails, and with it the handler.
CallFails(c) ==
    /\ call[c].pc \in {"query", "cache", "lookup", "save", "update", "remove"}
    /\ Fault("db")
    /\ call' = [call EXCEPT ![c] = IdleCall]
    /\ UNCHANGED <<cached, partyVars, logs, docVars, open>>

Handle(c) ==
    \/ AskEvm(c)
    \/ LookUp(c)
    \/ AddTransaction(c)
    \/ QueryUnknown(c)
    \/ UpdateRecipient(c)
    \/ RemoveTransaction(c)
    \/ CallFails(c)

-----------------------------------------------------------------------------
(* The websocket to Noble, the process and the clock.                      *)

Disconnect ==
    /\ open
    /\ Fault("disconnect")
    /\ open' = FALSE
    /\ UNCHANGED <<cached, partyVars, logs, docVars, call>>

Reconnect ==
    /\ ~ open
    /\ open' = TRUE
    /\ UNCHANGED <<cached, partyVars, logs, docVars, call, faults>>

\* The process stops and starts: the backfill may find the logs again that were
\* in a handler's hands.
Restart ==
    /\ Fault("stop")
    /\ \E again \in SUBSET {call[c].burn : c \in {k \in Calls : /\ call[k].kind = "log"
                                                                /\ call[k].pc # "idle"}} :
         logs' = logs \cup again
    /\ call' = [c \in Calls |-> IdleCall]
    /\ open' = TRUE
    /\ UNCHANGED <<cached, partyVars, docVars>>

Tick ==
    /\ \E b \in Burns : recipient[b] = "unknown" /\ age[b] <= HoldTime
    /\ age' = [b \in Burns |-> IF recipient[b] = "unknown" /\ age[b] <= HoldTime
                               THEN age[b] + 1 ELSE age[b]]
    /\ UNCHANGED <<cached, partyVars, logs, recipient, vague, open, call, faults>>

PartyStep ==
    /\ \E a \in Addresses : WorkerLearns(a) \/ AccountCreated(a)
    /\ UNCHANGED <<logs, docVars, open, call, faults>>

Next ==
    \/ \E c \in Calls : TakeLog(c) \/ TakeNobleBlock(c) \/ Resolve(c) \/ Handle(c)
    \/ PartyStep
    \/ Disconnect
    \/ Reconnect
    \/ Restart
    \/ Tick

Spec == Init /\ [][Next]_vars

-----------------------------------------------------------------------------
\* A call in progress goes on, Noble produces blocks and their announcements reach
\* a handler, a closed websocket is opened again.  Nothing is assumed of when
\* calls fail, of the clock, or of what the parties come to know.
Steady == UNCHANGED faults

Fairness ==
    /\ \A c \in Calls : WF_vars(Steady /\ (Resolve(c) \/ Handle(c)))
    /\ WF_vars(\E c \in Calls : TakeLog(c))
    /\ WF_vars(\E c \in Calls : TakeNobleBlock(c))
    /\ WF_vars(Reconnect)

FairSpec == Spec /\ Fairness

-----------------------------------------------------------------------------
\* Whoever answers first for an address, of the worker and Noble, and however the
\* handlers of logs and of Noble blocks overlap: documents of burns to one address
\* never have different recipients, and none of a burn that was found not to be
\* for Agoric has any.
RecipientsAgree ==
    \A b \in Burns : recipient[b] \in Recipient => recipient[b] = cached[AddressOf[b]]

\* The evidence of a burn is built from its document: once the recipient is known
\* no handler that resolved the address on its own, or has resolved it a second
\* time, changes it or removes the document.
RecipientIsFinal ==
    [][\A b \in Burns : recipient[b] \in Recipient => recipient'[b] = recipient[b]]_vars

\* A burn is recorded without its timestamp or its sender only after as many
\* requests as REQUESTS_RETRIES have failed.
VagueAfterRetries == vague # {} => faults >= Retries

\* The worker or Noble knows the address of the burn by now.
Resolvable(b) == worker[AddressOf[b]] # "unknown" \/ lcd[AddressOf[b]] # "unknown"

\* A burn whose address the worker or Noble comes to know is resolved or removed
\* before it is too old to be asked about, or grows too old: those that nobody can
\* resolve do not stand in its way, nor do requests and queries that fail.
UnknownGetsResolved ==
    \A b \in Burns :
        recipient[b] = "unknown" /\ Resolvable(b)
            ~> recipient[b] # "unknown" \/ age[b] > HoldTime

=============================================================================
