----------------------------- MODULE EvmConnection ----------------------------
(***************************************************************************)
(* The websockets to the EVM chains (src/lib/evm-client.ts): one provider  *)
(* per chain, replaced when its socket closes, the listeners on it         *)
(* (src/listener.ts), and the check that closes the connection of a chain  *)
(* that has not been heard of (src/state.ts).                              *)
(*                                                                         *)
(* A request over a socket that closes is never answered, so that what     *)
(* awaits it ends there; what awaits the database goes on.                 *)
(***************************************************************************)
EXTENDS Configuration

VARIABLES policy,    \* chains of the chain policy
          provider,  \* socket of the current provider: none, live or closed
          stray,     \* live sockets of providers that were replaced
          timers,    \* reconnections that wait for their delay
          asking,    \* the reconnection waits for getBlockNumber
          summing,   \* reconnections that wait for getBlockSums
          listeners, \* calls of listen on the current provider
          heard,     \* a block was handled since the last check
          stored,    \* chains with a height in the database
          checking   \* the timer of startRPCChecker runs

connectionVars == <<policy, provider, stray, timers, asking, summing,
                    listeners, heard, stored, checking>>

ConnectionTypeOK ==
    /\ policy \in SUBSET Chains
    /\ provider \in [Chains -> {"none", "live", "closed"}]
    /\ stray \in [Chains -> Nat]
    /\ timers \in [Chains -> Nat]
    /\ asking \in [Chains -> BOOLEAN]
    /\ summing \in [Chains -> Nat]
    /\ listeners \in [Chains -> Nat]
    /\ heard \in [Chains -> BOOLEAN]
    /\ stored \in SUBSET Chains
    /\ checking \in BOOLEAN

ConnectionInit ==
    /\ policy = {}
    /\ provider = [ch \in Chains |-> "none"]
    /\ stray = [ch \in Chains |-> 0]
    /\ timers = [ch \in Chains |-> 0]
    /\ asking = [ch \in Chains |-> FALSE]
    /\ summing = [ch \in Chains |-> 0]
    /\ listeners = [ch \in Chains |-> 0]
    /\ heard = [ch \in Chains |-> FALSE]
    /\ stored \in SUBSET Chains
    /\ checking = FALSE

\* getWsProvider, for a chain or several that have a URL.
WithProviders(chs) ==
    provider' = [ch \in Chains |-> IF ch \in chs /\ provider[ch] = "none"
                                   THEN "live" ELSE provider[ch]]

\* The sockets of these chains close.  A closed one does not close again.
Close(chs) ==
    LET closing == {ch \in chs : provider[ch] = "live"}
    IN  /\ provider' = [ch \in Chains |-> IF ch \in closing THEN "closed" ELSE provider[ch]]
        /\ timers' = [ch \in Chains |-> IF ch \in closing THEN timers[ch] + 1 ELSE timers[ch]]
        /\ asking' = [ch \in Chains |-> IF ch \in closing THEN FALSE ELSE asking[ch]]

Disconnect(ch) ==
    /\ provider[ch] = "live"
    /\ Fault("disconnect")
    /\ Close({ch})
    /\ UNCHANGED <<policy, stray, summing, listeners, heard, stored, checking>>

\* The delay is over: another provider takes the place of the current one.
MakeProvider(ch) ==
    /\ timers[ch] > 0
    /\ timers' = [timers EXCEPT ![ch] = @ - 1]
    /\ stray' = IF provider[ch] = "live" THEN [stray EXCEPT ![ch] = @ + 1] ELSE stray
    /\ provider' = [provider EXCEPT ![ch] = "live"]
    /\ listeners' = [listeners EXCEPT ![ch] = 0]
    /\ asking' = [asking EXCEPT ![ch] = TRUE]
    /\ UNCHANGED <<policy, summing, heard, stored, checking, faults>>

\* The answer of getBlockNumber, or an error that nobody catches: its own, or
\* that the policy does not have the chain any more.
LatestBlock(ch) ==
    /\ asking[ch]
    /\ asking' = [asking EXCEPT ![ch] = FALSE]
    /\ \/ /\ summing' = IF ch \in policy THEN [summing EXCEPT ![ch] = @ + 1] ELSE summing
          /\ UNCHANGED faults
       \/ Fault("rpc") /\ UNCHANGED summing
    /\ UNCHANGED <<policy, provider, stray, timers, listeners, heard, stored, checking>>

\* initialiseBlockRangeAmounts is done: listen, on whatever provider is the
\* current one by now.
ListenAgain(ch) ==
    /\ summing[ch] > 0
    /\ summing' = [summing EXCEPT ![ch] = @ - 1]
    /\ \/ listeners' = [listeners EXCEPT ![ch] = @ + 1] /\ UNCHANGED faults
       \/ Fault("db") /\ UNCHANGED listeners
    /\ UNCHANGED <<policy, provider, stray, timers, asking, heard, stored, checking>>

Watched(ch) == provider[ch] = "live" /\ listeners[ch] > 0

\* The handler of a block sets blockHeightUpdateTimestampState and the height.
Hear(ch) ==
    /\ Watched(ch)
    /\ ~ heard[ch]
    /\ heard' = [heard EXCEPT ![ch] = TRUE]
    /\ stored' = stored \cup {ch}
    /\ UNCHANGED <<policy, provider, stray, timers, asking, summing, listeners,
                   checking, faults>>

\* A minute is enough for a reconnection, and for a block to be handled.
Settled(ch) ==
    /\ timers[ch] = 0
    /\ ~ asking[ch]
    /\ summing[ch] = 0
    /\ Watched(ch) => heard[ch]

\* Faulty form: connects again without waiting for the socket to close.
RefreshTwice(chs) ==
    LET closing == {ch \in chs : provider[ch] = "live"}
    IN  /\ provider' = [ch \in Chains |-> IF ch \in closing THEN "closed" ELSE provider[ch]]
        /\ timers' = [ch \in Chains |-> IF ch \in closing THEN timers[ch] + 2 ELSE timers[ch]]
        /\ asking' = [ch \in Chains |-> IF ch \in closing THEN FALSE ELSE asking[ch]]

\* Faulty form: passes over a chain that nobody listens to.
RefreshListened(chs) == Close({ch \in chs : listeners[ch] > 0})

\* refreshConnection: the close handler does the rest.
Refresh(chs) == Close(chs)

\* No chain of the policy is without a provider.
RoundsAreWhole == \A ch \in policy : HasConfig(ch) => provider[ch] # "none"

\* startRPCChecker goes through the policy in an order of its own, and an error
\* at a chain that has no provider ends the round.
Check ==
    /\ checking
    /\ ((\A ch \in policy : Settled(ch)) /\ UNCHANGED faults) \/ Fault("slow")
    /\ \E round \in SUBSET (policy \cap Configured) :
         /\ RoundsAreWhole => round = policy \cap Configured
         /\ \A ch \in round : provider[ch] # "none"
         /\ Refresh({ch \in round : ~ heard[ch]})
    /\ heard' = [ch \in Chains |-> FALSE]
    /\ UNCHANGED <<policy, stray, summing, listeners, stored, checking>>

\* Memory of a process that has just started.
ConnectionsRestart ==
    /\ policy' = {}
    /\ provider' = [ch \in Chains |-> "none"]
    /\ stray' = [ch \in Chains |-> 0]
    /\ timers' = [ch \in Chains |-> 0]
    /\ asking' = [ch \in Chains |-> FALSE]
    /\ summing' = [ch \in Chains |-> 0]
    /\ listeners' = [ch \in Chains |-> 0]
    /\ heard' = [ch \in Chains |-> FALSE]
    /\ checking' = FALSE
    /\ UNCHANGED stored

ConnectionStep(ch) ==
    \/ MakeProvider(ch)
    \/ LatestBlock(ch)
    \/ ListenAgain(ch)
    \/ Hear(ch)

-----------------------------------------------------------------------------
\* A chain that has a provider has exactly one connection, open or about to be
\* opened, whatever closes it and whoever asks for it: neither does one get lost
\* for good nor do two announce every block twice.
OneConnection ==
    \A ch \in Chains :
        provider[ch] # "none" =>
            stray[ch] + timers[ch] + (IF provider[ch] = "live" THEN 1 ELSE 0) = 1

=============================================================================
