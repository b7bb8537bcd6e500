---------------------------- MODULE NobleAccounts -----------------------------
(***************************************************************************)
(* What a Noble address forwards to, as far as the watcher can tell: the   *)
(* collection of accounts it has asked about (NobleAccount in              *)
(* src/lib/db.ts) and the two parties it asks, the worker that predicts    *)
(* forwarding accounts and a Noble LCD node.                               *)
(*                                                                         *)
(* A verdict about an address is the class of the recipient that it        *)
(* forwards to ("settlement", "stranger" for another base account, "plain" *)
(* without an EUD parameter), "other" for an address that is not an Agoric *)
(* forwarding account, or "unknown" as long as nobody knows.               *)
(***************************************************************************)
EXTENDS NobleAddress, FiniteSets

CONSTANTS WorkerAnswers, \* recipients the worker may come to know, by address
          LcdAnswers     \* what Noble may come to say, by address

Recipient == {"settlement", "stranger", "plain"}
Verdict   == Recipient \cup {"other", "unknown"}

\* The answer of a node is checked for an EUD parameter, the worker's is not.
ASSUME AnswersAssumption ==
    /\ WorkerAnswers \in [Addresses -> SUBSET Recipient]
    /\ LcdAnswers \in [Addresses -> SUBSET {"settlement", "stranger", "other"}]

VARIABLES cached, \* the collection of Noble accounts: "unknown" without one
          worker, \* what the worker answers, "unknown" for 404
          lcd     \* what Noble answers, "unknown" while there is no account

partyVars == <<worker, lcd>>

AccountsTypeOK ==
    /\ cached \in [Addresses -> Verdict]
    /\ worker \in [Addresses -> Recipient \cup {"unknown"}]
    /\ lcd \in [Addresses -> {"settlement", "stranger", "other", "unknown"}]

AccountsInit ==
    /\ cached = [a \in Addresses |-> "unknown"]
    /\ worker = [a \in Addresses |-> "unknown"]
    /\ lcd = [a \in Addresses |-> "unknown"]

\* Faulty form: the later answer replaces the earlier one.
UpsertNobleAccount(a, verdict) == cached' = [cached EXCEPT ![a] = verdict]

\* addNobleAccount saves a new document; the unique index on nobleAddress
\* refuses another one for the address.
AddNobleAccount(a, verdict) ==
    /\ cached[a] = "unknown"
    /\ cached' = [cached EXCEPT ![a] = verdict]

\* The parties come to know an address, and do not change their minds.
WorkerLearns(a) ==
    /\ worker[a] = "unknown"
    /\ \E r \in WorkerAnswers[a] : worker' = [worker EXCEPT ![a] = r]
    /\ UNCHANGED <<cached, lcd>>

AccountCreated(a) ==
    /\ lcd[a] = "unknown"
    /\ \E v \in LcdAnswers[a] : lcd' = [lcd EXCEPT ![a] = v]
    /\ UNCHANGED <<cached, worker>>

=============================================================================
