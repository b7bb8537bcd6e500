---------------------------- MODULE WatcherProcess ----------------------------
(***************************************************************************)
(* The start of the process (main in src/index.ts) with its connections to *)
(* Agoric and the EVM chains and its counters.  What main awaits is its    *)
(* program counter: an answer that is missing ends the process, which the  *)
(* container starts again, but a rejection only ends main, because the     *)
(* handler of uncaughtException keeps the process going with whatever it   *)
(* has started so far.                                                     *)
(***************************************************************************)
EXTENDS AgoricRpc, EvmConnection, Gauges

VARIABLES main,     \* what main is waiting for
          backfills, \* chains that backfill has still to do, the current one included
          isConnected, \* to the database
          accepted     \* the wallet has accepted the watcher's invitation

startVars == <<backfills, isConnected, accepted>>
mainVars  == <<main, startVars>>

vars == <<env, rpcVars, connectionVars, gaugeVars, mainVars, faults>>

\* failed: main has rejected.  hung: it waits for an answer that never comes.
Main == {"config", "account", "policy", "offerId", "invitation", "gauges", "heights",
         "backfill", "hung", "failed", "done", "exited"}

TypeOK ==
    /\ env \in Environments
    /\ RpcTypeOK
    /\ ConnectionTypeOK
    /\ GaugesTypeOK
    /\ main \in Main
    /\ backfills \in SUBSET Chains
    /\ isConnected \in BOOLEAN
    /\ accepted \in BOOLEAN
    /\ faults \in Nat

Init ==
    /\ env \in Environments
    /\ RpcInit
    /\ ConnectionInit
    /\ count = 0
    /\ writes = {}
    /\ states = IF stored = {} THEN <<>> ELSE <<[node |-> TRUE, value |-> 0]>>
    /\ counted = 0
    /\ main = "config"
    /\ backfills = {}
    /\ isConnected = FALSE
    /\ accepted \in BOOLEAN
    /\ faults = 0

-----------------------------------------------------------------------------
(* The modules are loaded, then main, up to the gauges.                    *)

ReadConfiguration ==
    /\ main = "config"
    /\ main' = IF ConfigurationIsValid THEN "account" ELSE "exited"
    /\ UNCHANGED <<rpcVars, connectionVars, gaugeVars, startVars, faults>>

\* connectDB, which main does not wait for: queries do.
ConnectDB ==
    /\ main # "config"
    /\ ~ isConnected
    /\ \/ isConnected' = TRUE /\ UNCHANGED <<main, faults>>
       \/ Fault("db") /\ main' = "exited" /\ UNCHANGED isConnected
    /\ UNCHANGED <<rpcVars, connectionVars, gaugeVars, backfills, accepted>>

\* getAgoricWatcherAccountDetails.
Account ==
    /\ main = "account"
    /\ \/ main' = "policy" /\ UNCHANGED faults
       \/ Fault("rpc") /\ main' = "exited"
    /\ UNCHANGED <<rpcVars, connectionVars, gaugeVars, startVars>>

\* initChainPolicyScraper.  A policy that cannot be read is null and ends the
\* process; the connection it is read over rejects.
ReadPolicy ==
    /\ main = "policy"
    /\ \/ /\ \E chs \in SUBSET Chains : chs # {} /\ policy' = chs
          /\ main' = "offerId"
          /\ UNCHANGED faults
       \/ /\ Fault("rpc")
          /\ main' \in {"exited", "failed"}
          /\ UNCHANGED policy
    /\ UNCHANGED <<rpcVars, provider, stray, timers, asking, summing, listeners,
                   heard, stored, checking, gaugeVars, startVars>>

\* initAgoricState.
ReadOfferId ==
    /\ main = "offerId"
    /\ isConnected
    /\ \/ main' = "invitation" /\ UNCHANGED faults
       \/ Fault("db") /\ main' = "failed"
    /\ UNCHANGED <<rpcVars, connectionVars, gaugeVars, startVars>>

\* getInvitation, then the sockets to Agoric and to Noble.
ReadInvitation ==
    /\ main = "invitation"
    /\ \/ accepted /\ main' = "gauges" /\ OpenSocket(active) /\ UNCHANGED faults
       \/ ~ accepted /\ main' = "exited" /\ UNCHANGED <<socket, faults>>
       \/ Fault("rpc") /\ main' \in {"exited", "failed"} /\ UNCHANGED socket
    /\ UNCHANGED <<active, check, monitoring, synced, connectionVars, gaugeVars,
                   startVars>>

\* intialiseGauges.
ReadGauges ==
    /\ main = "gauges"
    /\ \/ main' = "heights" /\ count' \in Loaded /\ UNCHANGED faults
       \/ Fault("db") /\ main' = "failed" /\ UNCHANGED count
    /\ UNCHANGED <<rpcVars, connectionVars, writes, states, counted, startVars>>

-----------------------------------------------------------------------------
(* main, from the backfill on.                                             *)

\* Chains without a height, without a policy or without a configuration are
\* left out.
ReadHeights ==
    /\ main = "heights"
    /\ \/ /\ main' = "backfill"
          /\ backfills' = {ch \in stored \cap policy : HasConfig(ch)}
          /\ UNCHANGED faults
       \/ /\ Fault("db")
          /\ main' = "failed"
          /\ UNCHANGED backfills
    /\ UNCHANGED <<rpcVars, connectionVars, gaugeVars, isConnected, accepted>>

\* One chain at a time: its provider is made when its turn comes, and without a
\* URL the websocket throws.
Backfill(ch) ==
    /\ main = "backfill"
    /\ ch \in backfills
    /\ \A other \in backfills \ {ch} : provider[other] = "none"
    /\ \/ /\ provider[ch] = "none"
          /\ HasUrl(ch)
          /\ WithProviders({ch})
          /\ UNCHANGED <<main, backfills>>
       \/ /\ provider[ch] = "none"
          /\ ~ HasUrl(ch)
          /\ main' = "failed"
          /\ UNCHANGED <<provider, backfills>>
       \/ /\ provider[ch] # "none"
          /\ backfills' = backfills \ {ch}
          /\ UNCHANGED <<main, provider>>
    /\ UNCHANGED <<rpcVars, policy, stray, timers, asking, summing, listeners, heard,
                   stored, checking, gaugeVars, isConnected, accepted, faults>>

Listen(chs) ==
    /\ WithProviders(chs)
    /\ listeners' = [ch \in Chains |-> IF ch \in chs THEN listeners[ch] + 1 ELSE listeners[ch]]

\* monitorAgoric, startMultiChainListener and startRPCChecker.  In the order of the
\* policy, the first chain that is not configured ends the process, and the
\* first one that has no URL ends main.
StartListening ==
    /\ main = "backfill"
    /\ backfills = {}
    /\ monitoring' = TRUE
    /\ \/ /\ \A ch \in policy : HasConfig(ch) /\ HasUrl(ch)
          /\ Listen(policy)
          /\ checking' = TRUE
          /\ main' = "done"
       \/ /\ \E ch \in policy :
               /\ ~ (HasConfig(ch) /\ HasUrl(ch))
               /\ main' = IF HasConfig(ch) THEN "failed" ELSE "exited"
          /\ \E before \in SUBSET {ch \in policy : HasConfig(ch) /\ HasUrl(ch)} : Listen(before)
          /\ UNCHANGED checking
    /\ UNCHANGED <<active, check, socket, synced, policy, stray, timers, asking,
                   summing, heard, stored, gaugeVars, startVars, faults>>

MainStep ==
    \/ ReadConfiguration
    \/ ConnectDB
    \/ Account
    \/ ReadPolicy
    \/ ReadOfferId
    \/ ReadInvitation
    \/ ReadGauges
    \/ ReadHeights
    \/ \E ch \in Chains : Backfill(ch)
    \/ StartListening

-----------------------------------------------------------------------------
(* The connections and the counters, while the process runs.               *)

\* A backfill that has a request under way when its socket closes waits for ever.
EvmDisconnects(ch) ==
    /\ Disconnect(ch)
    /\ main' \in {main} \cup (IF main = "backfill" /\ ch \in backfills THEN {"hung"} ELSE {})
    /\ UNCHANGED <<rpcVars, gaugeVars, startVars>>

EvmStep(ch) ==
    /\ ConnectionStep(ch)
    /\ states' = IF stored' = stored THEN states ELSE WithNodeState(states)
    /\ UNCHANGED <<rpcVars, count, writes, counted, mainVars>>

CheckStep == Check /\ UNCHANGED <<rpcVars, gaugeVars, mainVars>>

\* setParams, later on.
PolicyChanges ==
    /\ policy # {}
    /\ Fault("policy")
    /\ \E chs \in SUBSET Chains : chs # {} /\ policy' = chs
    /\ UNCHANGED <<rpcVars, provider, stray, timers, asking, summing, listeners,
                   heard, stored, checking, gaugeVars, mainVars>>

Elsewhere == UNCHANGED <<connectionVars, gaugeVars, mainVars>>

\* Handlers of logs and of Noble blocks count once the sockets are open.
GaugeStep ==
    /\ (socket.state # "none" /\ Increment) \/ SaveGauge
    /\ UNCHANGED <<rpcVars, connectionVars, mainVars>>

\* A signal.
Stop ==
    /\ Fault("stop")
    /\ main' = "exited"
    /\ states' \in Saved
    /\ UNCHANGED <<rpcVars, connectionVars, count, writes, counted, startVars>>

\* The operator runs scripts/accept.ts and has the wallet send its offer.
Accept ==
    /\ ~ accepted
    /\ accepted' = TRUE
    /\ UNCHANGED <<env, rpcVars, connectionVars, gaugeVars, main, backfills,
                   isConnected, faults>>

\* The container starts the process again, in an environment that the operator may
\* have changed.
Restart ==
    /\ main = "exited"
    /\ main' = "config"
    /\ env' \in Environments
    /\ RpcRestarts
    /\ ConnectionsRestart
    /\ count' = 0
    /\ writes' = {}
    /\ backfills' = {}
    /\ isConnected' = FALSE
    /\ UNCHANGED <<accepted, states, counted, faults>>

Next ==
    \/ /\ main # "exited"
       /\ UNCHANGED env
       /\ \/ MainStep
          \/ \E ch \in Chains : EvmDisconnects(ch) \/ EvmStep(ch)
          \/ CheckStep
          \/ PolicyChanges
          \/ RpcStep /\ Elsewhere
          \/ GaugeStep
          \/ Stop
    \/ Restart
    \/ Accept

Spec == Init /\ [][Next]_vars

-----------------------------------------------------------------------------
\* Answers come, delays and timers run out, blocks are announced to whoever
\* listens, the container restarts the process.
Steadily(A) == main # "exited" /\ UNCHANGED <<env, faults>> /\ A

Fairness ==
    /\ WF_vars(Steadily(MainStep))
    /\ WF_vars(Steadily(CheckStep))
    /\ WF_vars(Steadily(ReopenSocket /\ Elsewhere))
    /\ \A ch \in Chains : WF_vars(Steadily(EvmStep(ch)))
    /\ \A c \in Checks : /\ WF_vars(Steadily(StartCheck(c) /\ Elsewhere))
                         /\ WF_vars(Steadily(EndCheck(c) /\ Elsewhere))
    /\ WF_vars(Restart)

FairSpec == Spec /\ Fairness

-----------------------------------------------------------------------------
\* Once the process has started, every chain of the policy has, again and again,
\* an open connection with a listener, whatever closed the one before and
\* whatever failed while it was replaced.  A chain that joins the policy later has
\* no provider, and ends every round of the check.
ChainIsWatched ==
    \A ch \in Configured :
        []<>(main = "done" /\ ch \in policy /\ RoundsAreWhole => Watched(ch))

\* Once the process has started, the active Agoric node is, again and again, one
\* that answers and is not syncing, if there is any: the check and the close
\* handler do not leave out a node, however their steps fall.
SyncedNodeIsActive ==
    []<>(main = "done" /\ synced # {} => active \in synced)

=============================================================================
