----------------------------- MODULE Configuration ----------------------------
(***************************************************************************)
(* The environment variables that the process reads when it starts         *)
(* (src/config/config.ts), and which of them it refuses to start with.     *)
(***************************************************************************)
EXTENDS Faults

CONSTANTS Chains,
          Configured,  \* chains of chainConfig
          NumRpcs,     \* length of AGORIC_RPCS
          Environments \* environments that the operator may start the process in

\* A variable that should hold a number is not set, holds one, holds one with
\* something after it, or holds anything else.
Text == {"unset", "number", "prefixed", "other"}

\* numbers: stands for each of the variables that Number reads.
Environment == [startHeight : [Configured -> Text], urls : SUBSET Configured,
                wsRpcs : Nat, delay : Text, numbers : Text, wallet : BOOLEAN]

ASSUME ConfigurationAssumption ==
    /\ Configured \subseteq Chains
    /\ NumRpcs \in Nat \ {0}
    /\ Environments \subseteq Environment
    /\ Environments # {}

VARIABLE env \* of the process, until the operator changes it

\* Number accepts nothing but a number, parseInt one with anything after it.
IsNumber(text) == text \in {"unset", "number"}
ParsesAsInt(text) == text \in {"unset", "number", "prefixed"}

StartHeightsAreValid == \A ch \in Configured : IsNumber(env.startHeight[ch])
DelayIsValid         == ParsesAsInt(env.delay)
RpcListsMatch        == env.wsRpcs = NumRpcs
NumbersAreValid      == IsNumber(env.numbers)
WalletIsSet          == env.wallet

\* The process exits at the first one that is not as it should be.
ConfigurationIsValid ==
    /\ StartHeightsAreValid
    /\ DelayIsValid
    /\ RpcListsMatch
    /\ NumbersAreValid
    /\ WalletIsSet

\* getChainFromConfig finds the chain, whether or not it has a URL.
HasConfig(ch) == ch \in Configured
HasUrl(ch)    == ch \in env.urls

=============================================================================
