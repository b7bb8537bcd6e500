------------------------ MODULE WatcherProcess_proofs -------------------------
(***************************************************************************)
(* Theorems about WatcherProcess, for any number of chains, nodes, checks  *)
(* and failures: the connections to the EVM chains and the counters.       *)
(***************************************************************************)
EXTENDS WatcherProcess, TLAPS

-----------------------------------------------------------------------------
(***************************************************************************)
(* Connections.  OneConnection is not inductive: a chain without a         *)
(* provider must have no socket and no timer either, or the first provider *)
(* would be its second connection.                                         *)
(***************************************************************************)

\* The connections of a chain: one if its provider is live.
Connection(ch) == IF provider[ch] = "live" THEN 1 ELSE 0

\* A chain without a provider has no connection and no timer; every other has one of
\* them.
OneEach ==
    \A ch \in Chains :
        IF provider[ch] = "none" THEN stray[ch] = 0 /\ timers[ch] = 0
        ELSE stray[ch] + timers[ch] + Connection(ch) = 1

\* The inductive form of OneConnection.
ConnInv == ConnectionTypeOK /\ OneEach

\* A chain that gets its provider has one connection, and no timer.
LEMMA WithProvidersInv ==
    ASSUME ConnInv, NEW chs, WithProviders(chs), UNCHANGED <<stray, timers>>
    PROVE  provider' \in [Chains -> {"none", "live", "closed"}] /\ OneEach'
<1>1. provider' \in [Chains -> {"none", "live", "closed"}]
  BY DEF ConnInv, ConnectionTypeOK, WithProviders
<1>2. ASSUME NEW ch \in Chains, provider[ch] = "none"
      PROVE  /\ stray'[ch] = 0 /\ timers'[ch] = 0
             /\ provider'[ch] \in {"none", "live"}
  BY <1>2 DEF ConnInv, OneEach, WithProviders
<1>3. ASSUME NEW ch \in Chains, provider[ch] # "none"
      PROVE  provider'[ch] = provider[ch]
  BY <1>3 DEF WithProviders
<1> QED
  BY <1>1, <1>2, <1>3 DEF ConnInv, OneEach, Connection

\* A socket that closes leaves a timer in its place.
LEMMA CloseInv ==
    ASSUME ConnInv, NEW chs, Close(chs), UNCHANGED stray
    PROVE  /\ provider' \in [Chains -> {"none", "live", "closed"}]
           /\ timers' \in [Chains -> Nat]
           /\ asking' \in [Chains -> BOOLEAN]
           /\ OneEach'
<1> DEFINE closing == {ch \in chs : provider[ch] = "live"}
<1>1. /\ provider' = [ch \in Chains |-> IF ch \in closing THEN "closed" ELSE provider[ch]]
      /\ timers' = [ch \in Chains |-> IF ch \in closing THEN timers[ch] + 1 ELSE timers[ch]]
      /\ asking' = [ch \in Chains |-> IF ch \in closing THEN FALSE ELSE asking[ch]]
  BY DEF Close
<1>2. \A ch \in closing : provider[ch] = "live"
  OBVIOUS
<1> HIDE DEF closing
<1>3. provider' \in [Chains -> {"none", "live", "closed"}] /\ timers' \in [Chains -> Nat]
  BY <1>1 DEF ConnInv, ConnectionTypeOK
<1>4. asking' \in [Chains -> BOOLEAN]
  BY <1>1 DEF ConnInv, ConnectionTypeOK
<1>5. ASSUME NEW ch \in Chains
      PROVE  IF provider'[ch] = "none" THEN stray'[ch] = 0 /\ timers'[ch] = 0
             ELSE stray'[ch] + timers'[ch] + Connection(ch)' = 1
  <2>1. stray[ch] \in Nat /\ timers[ch] \in Nat
    BY DEF ConnInv, ConnectionTypeOK
  <2>2. CASE ch \in closing
    BY <1>1, <1>2, <2>1, <2>2 DEF ConnInv, OneEach, Connection
  <2>3. CASE ch \notin closing
    BY <1>1, <2>1, <2>3 DEF ConnInv, OneEach, Connection
  <2> QED
    BY <2>2, <2>3
<1> QED
  BY <1>3, <1>4, <1>5 DEF OneEach

\* The delay of a reconnection ends: there was one of them, and no connection.
LEMMA MakeProviderInv ==
    ASSUME ConnInv, NEW ch \in Chains, MakeProvider(ch)
    PROVE  ConnInv'
<1>1. /\ stray[ch] = 0 /\ timers[ch] = 1 /\ provider[ch] = "closed"
      /\ provider \in [Chains -> {"none", "live", "closed"}]
      /\ stray \in [Chains -> Nat] /\ timers \in [Chains -> Nat]
  <2>1. /\ provider \in [Chains -> {"none", "live", "closed"}]
        /\ stray \in [Chains -> Nat] /\ timers \in [Chains -> Nat]
    BY DEF ConnInv, ConnectionTypeOK
  <2>2. stray[ch] \in Nat /\ timers[ch] \in Nat /\ timers[ch] > 0
    BY <2>1 DEF MakeProvider
  <2>3. provider[ch] # "none" /\ stray[ch] + timers[ch] + Connection(ch) = 1
    BY <2>2 DEF ConnInv, OneEach
  <2> QED
    BY <2>1, <2>2, <2>3 DEF Connection
<1>2. /\ provider' = [provider EXCEPT ![ch] = "live"]
      /\ timers' = [timers EXCEPT ![ch] = 0]
      /\ UNCHANGED stray
  BY <1>1 DEF MakeProvider
<1>3. OneEach'
  BY <1>1, <1>2 DEF ConnInv, OneEach, Connection
<1>4. listeners' \in [Chains -> Nat] /\ provider' \in [Chains -> {"none", "live", "closed"}]
      /\ timers' \in [Chains -> Nat]
  BY <1>1, <1>2 DEF ConnInv, ConnectionTypeOK, MakeProvider
<1>5. asking' \in [Chains -> BOOLEAN]
  BY DEF ConnInv, ConnectionTypeOK, MakeProvider
<1> QED
  BY <1>2, <1>3, <1>4, <1>5 DEF ConnInv, ConnectionTypeOK, MakeProvider

\* A reconnection takes the timer's place.
LEMMA ConnectionStepInv ==
    ASSUME ConnInv, NEW ch \in Chains, ConnectionStep(ch)
    PROVE  ConnInv'
<1>1. CASE MakeProvider(ch)
  BY <1>1, MakeProviderInv
<1>2. CASE LatestBlock(ch)
  <2>1. UNCHANGED <<policy, provider, stray, timers, listeners, heard, stored, checking>>
    BY <1>2 DEF LatestBlock
  <2>2. asking' \in [Chains -> BOOLEAN]
    BY <1>2 DEF LatestBlock, ConnInv, ConnectionTypeOK
  <2>3. summing' \in [Chains -> Nat]
    BY <1>2 DEF LatestBlock, ConnInv, ConnectionTypeOK
  <2> QED
    BY <2>1, <2>2, <2>3 DEF ConnInv, ConnectionTypeOK, OneEach, Connection
<1>3. CASE ListenAgain(ch)
  <2>1. UNCHANGED <<policy, provider, stray, timers, asking, heard, stored, checking>>
    BY <1>3 DEF ListenAgain
  <2>2. summing' \in [Chains -> Nat] /\ listeners' \in [Chains -> Nat]
    BY <1>3 DEF ListenAgain, ConnInv, ConnectionTypeOK
  <2> QED
    BY <2>1, <2>2 DEF ConnInv, ConnectionTypeOK, OneEach, Connection
<1>4. CASE Hear(ch)
  <2>1. UNCHANGED <<policy, provider, stray, timers, asking, summing, listeners, checking>>
    BY <1>4 DEF Hear
  <2>2. heard' \in [Chains -> BOOLEAN]
    BY <1>4 DEF Hear, ConnInv, ConnectionTypeOK
  <2>3. stored' \in SUBSET Chains
    BY <1>4 DEF Hear, ConnInv, ConnectionTypeOK
  <2> QED
    BY <2>1, <2>2, <2>3 DEF ConnInv, ConnectionTypeOK, OneEach, Connection
<1> QED
  BY <1>1, <1>2, <1>3, <1>4 DEF ConnectionStep

\* A disconnection closes what is live.
LEMMA DisconnectInv ==
    ASSUME ConnInv, NEW ch \in Chains, Disconnect(ch)
    PROVE  ConnInv'
<1>1. Close({ch}) /\ UNCHANGED <<policy, stray, summing, listeners, heard, stored, checking>>
  BY DEF Disconnect
<1> QED
  BY <1>1, CloseInv DEF ConnInv, ConnectionTypeOK

\* The staleness check closes sockets only.
LEMMA CheckInv ==
    ASSUME ConnInv, Check
    PROVE  ConnInv'
<1>1. /\ \E chs : Close(chs)
      /\ UNCHANGED <<policy, stray, summing, listeners, stored, checking>>
      /\ heard' = [ch \in Chains |-> FALSE]
  BY DEF Check, Refresh
<1>2. heard' \in [Chains -> BOOLEAN]
  BY <1>1
<1> QED
  BY <1>1, <1>2, CloseInv DEF ConnInv, ConnectionTypeOK

\* The first connections of a process.
LEMMA FirstConnections ==
    ASSUME ConnInv, NEW chs, WithProviders(chs), UNCHANGED <<policy, stray, timers, asking, summing,
                                                             heard, stored>>,
           listeners' \in [Chains -> Nat], checking' \in BOOLEAN
    PROVE  ConnInv'
  BY WithProvidersInv DEF ConnInv, ConnectionTypeOK

\* A backfill touches no connection.
LEMMA BackfillInv ==
    ASSUME ConnInv, NEW ch \in Chains, Backfill(ch)
    PROVE  ConnInv'
<1>1. UNCHANGED <<policy, stray, timers, asking, summing, listeners, heard, stored, checking>>
  BY DEF Backfill
<1>2. CASE WithProviders({ch})
  BY <1>1, <1>2, FirstConnections DEF ConnInv, ConnectionTypeOK
<1>3. CASE UNCHANGED provider
  BY <1>1, <1>3 DEF ConnInv, ConnectionTypeOK, OneEach, Connection
<1> QED
  BY <1>2, <1>3 DEF Backfill

\* Listeners come to connections that are there.
LEMMA StartListeningInv ==
    ASSUME ConnInv, StartListening
    PROVE  ConnInv'
<1>1. PICK chs : Listen(chs)
  BY DEF StartListening
<1>2. listeners' \in [Chains -> Nat]
  BY <1>1 DEF Listen, ConnInv, ConnectionTypeOK
<1>3. checking' \in BOOLEAN
  BY DEF StartListening, ConnInv, ConnectionTypeOK
<1> QED
  BY <1>1, <1>2, <1>3, FirstConnections DEF StartListening, Listen

\* A stop leaves neither connections nor timers.
LEMMA ConnectionsRestartInv ==
    ASSUME ConnInv, ConnectionsRestart
    PROVE  ConnInv'
<1>1. OneEach'
  BY DEF ConnectionsRestart, OneEach
<1> QED
  BY <1>1 DEF ConnectionsRestart, ConnInv, ConnectionTypeOK

\* A chain that joins the policy gets no provider.
LEMMA PolicyInv ==
    ASSUME ConnInv, policy' \in SUBSET Chains,
           UNCHANGED <<provider, stray, timers, asking, summing, listeners, heard, stored, checking>>
    PROVE  ConnInv'
  BY DEF ConnInv, ConnectionTypeOK, OneEach, Connection

\* The first state has no connection.
LEMMA InitConnections == Init => ConnInv
<1>1. Init => OneEach
  BY DEF Init, ConnectionInit, OneEach
<1>2. Init => ConnectionTypeOK
  <2> SUFFICES ASSUME Init PROVE ConnectionTypeOK
    OBVIOUS
  <2>1. asking \in [Chains -> BOOLEAN] /\ heard \in [Chains -> BOOLEAN] /\ checking \in BOOLEAN
    BY DEF Init, ConnectionInit
  <2>2. /\ policy \in SUBSET Chains /\ stored \in SUBSET Chains
        /\ provider \in [Chains -> {"none", "live", "closed"}]
        /\ stray \in [Chains -> Nat] /\ timers \in [Chains -> Nat]
        /\ summing \in [Chains -> Nat] /\ listeners \in [Chains -> Nat]
    BY DEF Init, ConnectionInit
  <2> QED
    BY <2>1, <2>2 DEF ConnectionTypeOK
<1> QED
  BY <1>1, <1>2 DEF ConnInv

\* Every step keeps one each.
LEMMA NextConnections == ConnInv /\ [Next]_vars => ConnInv'
<1> SUFFICES ASSUME ConnInv, [Next]_vars PROVE ConnInv'
  OBVIOUS
<1>1. CASE UNCHANGED connectionVars
  BY <1>1 DEF connectionVars, ConnInv, ConnectionTypeOK, OneEach, Connection
<1>2. CASE ReadPolicy \/ PolicyChanges
  <2>1. policy' \in SUBSET Chains
    BY <1>2 DEF ReadPolicy, PolicyChanges, ConnInv, ConnectionTypeOK
  <2> QED
    BY <1>2, <2>1, PolicyInv DEF ReadPolicy, PolicyChanges
<1>3. ASSUME NEW ch \in Chains, Backfill(ch) PROVE ConnInv'
  BY <1>3, BackfillInv
<1>4. CASE StartListening
  BY <1>4, StartListeningInv
<1>5. ASSUME NEW ch \in Chains, EvmDisconnects(ch) PROVE ConnInv'
  BY <1>5, DisconnectInv DEF EvmDisconnects
<1>6. ASSUME NEW ch \in Chains, EvmStep(ch) PROVE ConnInv'
  BY <1>6, ConnectionStepInv DEF EvmStep
<1>7. CASE CheckStep
  BY <1>7, CheckInv DEF CheckStep
<1>8. CASE Restart
  BY <1>8, ConnectionsRestartInv DEF Restart
<1>9. CASE \/ ReadConfiguration \/ ConnectDB \/ Account \/ ReadOfferId \/ ReadInvitation
           \/ ReadGauges \/ ReadHeights \/ (RpcStep /\ Elsewhere) \/ GaugeStep \/ Stop \/ Accept
           \/ UNCHANGED vars
  BY <1>1, <1>9 DEF ReadConfiguration, ConnectDB, Account, ReadOfferId, ReadInvitation, ReadGauges,
     ReadHeights, Elsewhere, GaugeStep, Stop, Accept, vars
<1> QED
  BY <1>2, <1>3, <1>4, <1>5, <1>6, <1>7, <1>8, <1>9 DEF Next, MainStep

\* A chain that has a provider has exactly one connection, open or about to be
\* opened, whatever closes it and whoever asks for it (src/lib/evm-client.ts:31-61
\* and 150-163, src/state.ts).
THEOREM OneConnectionEach == Spec => []OneConnection
<1>1. ConnInv => OneConnection
  BY DEF ConnInv, OneEach, OneConnection, Connection
<1> QED
  BY <1>1, InitConnections, NextConnections, PTL DEF Spec

-----------------------------------------------------------------------------
(***************************************************************************)
(* Counters.  No value in memory, on its way or saved is above the history *)
(* of increments, so neither is one that is loaded.                        *)
(***************************************************************************)

\* The inductive form of NeverOvercounts.
CountInv == GaugesTypeOK /\ NeverOvercounts

\* A step that at most makes the node-state document counts nothing.
LEMMA StatesInv ==
    ASSUME CountInv, states' \in Saved \/ UNCHANGED states,
           UNCHANGED <<count, writes, counted>>
    PROVE  CountInv'
<1>1. WithNodeState(states) \in Seq(State)
  <2>1. states \in Seq(State)
    BY DEF CountInv, GaugesTypeOK
  <2>2. [node |-> TRUE, value |-> 0] \in State
    BY ZenonT(20) DEF State
  <2>3. Append(states, [node |-> TRUE, value |-> 0]) \in Seq(State)
    BY <2>1, <2>2
  <2> QED
    BY <2>1, <2>3 DEF WithNodeState
<1>2. ASSUME NEW i \in DOMAIN WithNodeState(states)
      PROVE  WithNodeState(states)[i].value <= counted
  <2>1. states \in Seq(State) /\ counted \in Nat
    BY DEF CountInv, GaugesTypeOK
  <2>2. CASE WithNodeState(states) = states
    BY <1>2, <2>2 DEF CountInv, NeverOvercounts
  <2>3. CASE WithNodeState(states) = Append(states, [node |-> TRUE, value |-> 0])
    <3>1. CASE i = Len(states) + 1
      BY <2>1, <2>3, <3>1
    <3>2. CASE i # Len(states) + 1
      <4>1. i \in DOMAIN states /\ WithNodeState(states)[i] = states[i]
        BY <1>2, <2>1, <2>3, <3>2
      <4> QED
        BY <4>1 DEF CountInv, NeverOvercounts
    <3> QED
      BY <3>1, <3>2
  <2> QED
    BY <2>2, <2>3 DEF WithNodeState
<1> QED
  BY <1>1, <1>2 DEF Saved, CountInv, GaugesTypeOK, NeverOvercounts

\* A value that is written was counted before it.
LEMMA SaveGaugeInv ==
    ASSUME CountInv, SaveGauge
    PROVE  CountInv'
<1>1. /\ states \in Seq(State) /\ counted \in Nat /\ count \in Nat /\ writes \in SUBSET Nat
      /\ UNCHANGED <<count, counted>>
  BY DEF CountInv, GaugesTypeOK, SaveGauge
<1>2. PICK value \in writes : /\ writes' = writes \ {value}
                              /\ states' = WithGauge(states, value) \/ UNCHANGED states
  BY DEF SaveGauge
<1>3. value \in Nat /\ value <= counted
  BY <1>1, <1>2 DEF CountInv, NeverOvercounts
<1>4. states' \in Seq(State) /\ \A i \in DOMAIN states' : states'[i].value <= counted
  <2>1. CASE UNCHANGED states
    BY <1>1, <2>1 DEF CountInv, NeverOvercounts
  <2>2. CASE states = <<>> /\ states' = <<[node |-> FALSE, value |-> value]>>
    BY <1>3, <2>2 DEF State
  <2>3. CASE states # <<>> /\ states' = [states EXCEPT ![1].value = value]
    <3>1. 1 \in DOMAIN states /\ states[1] \in State
      BY <1>1, <2>3
    <3>2. [states[1] EXCEPT !.value = value] \in State
      BY <1>3, <3>1 DEF State
    <3>3. states' = [states EXCEPT ![1] = [states[1] EXCEPT !.value = value]]
      BY <2>3, <3>1
    <3>4. DOMAIN states' = DOMAIN states /\ states' \in Seq(State)
      <4>1. Len(states) \in Nat /\ states \in [1..Len(states) -> State]
        BY <1>1
      <4>2. states' \in [1..Len(states) -> State]
        BY <3>2, <3>3, <4>1
      <4> QED
        BY <4>1, <4>2
    <3>5. ASSUME NEW i \in DOMAIN states PROVE states'[i].value <= counted
      <4>1. CASE i = 1
        BY <1>3, <3>1, <3>3, <4>1 DEF State
      <4>2. CASE i # 1
        BY <3>3, <3>5, <4>2 DEF CountInv, NeverOvercounts
      <4> QED
        BY <4>1, <4>2
    <3> QED
      BY <3>4, <3>5
  <2> QED
    BY <1>2, <2>1, <2>2, <2>3 DEF WithGauge
<1> QED
  BY <1>1, <1>2, <1>4 DEF CountInv, GaugesTypeOK, NeverOvercounts

\* Nothing is counted at first.
LEMMA InitCounts == Init => CountInv
<1> SUFFICES ASSUME Init PROVE CountInv
  OBVIOUS
<1>1. states \in Seq(State) /\ \A i \in DOMAIN states : states[i].value = 0
  <2>1. [node |-> TRUE, value |-> 0] \in State
    BY DEF State
  <2>2. states = <<>> \/ states = <<[node |-> TRUE, value |-> 0]>>
    BY DEF Init
  <2>3. CASE states = <<>>
    BY <2>3
  <2>4. CASE states = <<[node |-> TRUE, value |-> 0]>>
    <3>1. DOMAIN states = {1} /\ states[1] = [node |-> TRUE, value |-> 0]
      BY <2>4
    <3> QED
      BY <2>1, <2>4, <3>1
  <2> QED
    BY <2>2, <2>3, <2>4
<1> QED
  BY <1>1 DEF Init, CountInv, GaugesTypeOK, NeverOvercounts

\* Every step keeps the counters behind.
LEMMA NextCounts == CountInv /\ [Next]_vars => CountInv'
<1> SUFFICES ASSUME CountInv, [Next]_vars PROVE CountInv'
  OBVIOUS
<1>1. CASE UNCHANGED gaugeVars
  BY <1>1 DEF gaugeVars, CountInv, GaugesTypeOK, NeverOvercounts
<1>2. CASE ReadGauges
  <2>1. UNCHANGED <<writes, states, counted>> /\ (count' \in Loaded \/ UNCHANGED count)
    BY <1>2 DEF ReadGauges
  <2>2. \A value \in Loaded : value \in Nat /\ value <= counted
    <3>1. \A i \in DOMAIN states : states[i].value \in Nat /\ states[i].value <= counted
      <4>1. states \in Seq(State)
        BY DEF CountInv, GaugesTypeOK
      <4>2. \A i \in DOMAIN states : states[i] \in State
        BY <4>1
      <4> QED
        BY <4>2 DEF CountInv, NeverOvercounts, State
    <3>2. counted \in Nat
      BY DEF CountInv, GaugesTypeOK
    <3> QED
      BY <3>1, <3>2 DEF Loaded, AllGauges, InitialMetrics
  <2> QED
    BY <2>1, <2>2 DEF CountInv, GaugesTypeOK, NeverOvercounts
<1>3. CASE Increment
  <2>1. /\ count \in Nat /\ counted \in Nat /\ writes \in SUBSET Nat /\ states \in Seq(State)
        /\ count' = count + 1 /\ counted' = counted + 1 /\ writes' = writes \cup {count + 1}
        /\ UNCHANGED states
    BY <1>3 DEF Increment, CountInv, GaugesTypeOK
  <2>2. GaugesTypeOK'
    BY <2>1 DEF GaugesTypeOK
  <2>3. count' <= counted' /\ \A value \in writes' : value <= counted'
    BY <2>1 DEF CountInv, NeverOvercounts
  <2>4. \A i \in DOMAIN states' : states'[i].value <= counted'
    <3>1. \A i \in DOMAIN states : states[i] \in State
      BY <2>1
    <3>2. \A i \in DOMAIN states : states[i].value \in Nat
      BY <3>1 DEF State
    <3> QED
      BY <2>1, <3>2 DEF CountInv, NeverOvercounts
  <2> QED
    BY <2>2, <2>3, <2>4 DEF CountInv, NeverOvercounts
<1>4. CASE SaveGauge
  BY <1>4, SaveGaugeInv
<1>5. CASE GaugeStep
  BY <1>3, <1>4, <1>5 DEF GaugeStep
<1>6. ASSUME NEW ch \in Chains, EvmStep(ch) PROVE CountInv'
  BY <1>6, StatesInv DEF EvmStep, Saved
<1>7. CASE Stop
  BY <1>7, StatesInv DEF Stop
<1>8. CASE Restart
  BY <1>8 DEF Restart, CountInv, GaugesTypeOK, NeverOvercounts
<1>9. ASSUME NEW ch \in Chains, Backfill(ch) \/ EvmDisconnects(ch) PROVE CountInv'
  BY <1>1, <1>9 DEF Backfill, EvmDisconnects
<1>10. CASE \/ ReadConfiguration \/ ConnectDB \/ Account \/ ReadPolicy \/ ReadOfferId
            \/ ReadInvitation \/ ReadHeights \/ StartListening \/ CheckStep \/ PolicyChanges
            \/ (RpcStep /\ Elsewhere) \/ Accept \/ UNCHANGED vars
  BY <1>1, <1>10 DEF ReadConfiguration, ConnectDB, Account, ReadPolicy, ReadOfferId, ReadInvitation,
     ReadHeights, StartListening, CheckStep, PolicyChanges, Elsewhere, Accept, vars, gaugeVars
<1> QED
  BY <1>2, <1>5, <1>6, <1>7, <1>8, <1>9, <1>10 DEF Next, MainStep

\* No counter ever shows more than the increments made, whatever is lost, restarted
\* or reordered between memory and the database (src/metrics.ts, src/lib/db.ts:430-470).
THEOREM CountersStayBehind == Spec => []NeverOvercounts
<1>1. CountInv => NeverOvercounts
  BY DEF CountInv
<1> QED
  BY <1>1, InitCounts, NextCounts, PTL DEF Spec

-----------------------------------------------------------------------------
(***************************************************************************)
(* Types: those of the connections and the counters are in their           *)
(* invariants; the others depend on nothing but the chains that are known. *)
(***************************************************************************)

\* The types of what neither the connections nor the counters have.
OthersOK ==
    /\ env \in Environments
    /\ RpcTypeOK
    /\ main \in Main
    /\ backfills \in SUBSET Chains
    /\ isConnected \in BOOLEAN
    /\ accepted \in BOOLEAN
    /\ faults \in Nat

\* The next node of the rotation is a node.
LEMMA NextRpcType == \A i \in Node : NextRpc(i) \in Node
  BY ConfigurationAssumption DEF Node, NextRpc

\* The nodes when a process starts.
LEMMA FirstNode ==
    /\ 0 \in Node
    /\ [c \in Checks |-> NoNode] \in [Checks -> Node \cup {NoNode}]
    /\ [state |-> "none", node |-> 0] \in [state : {"none", "open", "closed"}, node : Node]
<1>1. 0 \in Node
  BY ConfigurationAssumption DEF Node
<1> QED
  BY <1>1

\* A check keeps the index within the nodes.
LEMMA RpcStepType ==
    ASSUME RpcTypeOK, faults \in Nat, RpcStep
    PROVE  RpcTypeOK' /\ faults' \in Nat
<1>1. ASSUME NEW c \in Checks, StartCheck(c) \/ EndCheck(c) PROVE RpcTypeOK' /\ faults' \in Nat
  BY <1>1, NextRpcType DEF RpcTypeOK, StartCheck, EndCheck
<1>2. CASE SocketCloses
  BY <1>2 DEF RpcTypeOK, SocketCloses, Fault
<1>3. CASE ReopenSocket
  BY <1>3, NextRpcType DEF RpcTypeOK, ReopenSocket, OpenSocket
<1>4. CASE HealthChanges
  BY <1>4 DEF RpcTypeOK, HealthChanges, Fault
<1> QED
  BY <1>1, <1>2, <1>3, <1>4 DEF RpcStep

\* Every step keeps these types.
LEMMA NextOthers == ConnInv /\ OthersOK /\ [Next]_vars => OthersOK'
<1> SUFFICES ASSUME ConnInv, OthersOK, [Next]_vars PROVE OthersOK'
  OBVIOUS
<1>1. policy \in SUBSET Chains /\ stored \in SUBSET Chains
  BY DEF ConnInv, ConnectionTypeOK
<1>2. faults' \in Nat
  <2>1. UNCHANGED faults \/ faults' = faults + 1
    BY DEF Next, MainStep, ReadConfiguration, ConnectDB, Account, ReadPolicy, ReadOfferId,
       ReadInvitation, ReadGauges, ReadHeights, Backfill, StartListening, EvmDisconnects, Disconnect,
       EvmStep, ConnectionStep, MakeProvider, LatestBlock, ListenAgain, Hear, CheckStep, Check,
       PolicyChanges, RpcStep, StartCheck, EndCheck, SocketCloses, ReopenSocket, HealthChanges,
       GaugeStep, Increment, SaveGauge, Stop, Accept, Restart, Fault, vars
  <2> QED
    BY <2>1 DEF OthersOK
<1>3. env' \in Environments
  BY DEF OthersOK, Next, Restart, Accept, vars
<1>4. isConnected' \in BOOLEAN /\ accepted' \in BOOLEAN
  BY DEF OthersOK, Next, MainStep, ReadConfiguration, ConnectDB, Account, ReadPolicy, ReadOfferId,
     ReadInvitation, ReadGauges, ReadHeights, Backfill, StartListening, EvmDisconnects, EvmStep,
     CheckStep, PolicyChanges, Elsewhere, GaugeStep, Stop, Accept, Restart, mainVars, startVars, vars
<1>5. main' \in Main /\ backfills' \in SUBSET Chains
  BY <1>1
     DEF OthersOK, Main, Next, MainStep, ReadConfiguration, ConnectDB, Account, ReadPolicy,
         ReadOfferId, ReadInvitation, ReadGauges, ReadHeights, Backfill, StartListening,
         EvmDisconnects, EvmStep, CheckStep, PolicyChanges, Elsewhere, GaugeStep, Stop, Accept,
         Restart, mainVars, startVars, vars
<1>6. RpcTypeOK'
  <2>1. CASE UNCHANGED rpcVars
    BY <2>1 DEF OthersOK, RpcTypeOK, rpcVars
  <2>2. CASE RpcStep
    BY <2>2, RpcStepType DEF OthersOK
  <2>3. CASE ReadInvitation
    BY <2>3 DEF ReadInvitation, OpenSocket, OthersOK, RpcTypeOK
  <2>4. CASE StartListening
    BY <2>4 DEF StartListening, OthersOK, RpcTypeOK
  <2>5. CASE Restart
    <3>1. /\ active' = 0 /\ check' = [c \in Checks |-> NoNode] /\ monitoring' = FALSE
          /\ socket' = [state |-> "none", node |-> 0] /\ UNCHANGED synced
      BY <2>5 DEF Restart, RpcRestarts
    <3>2. monitoring' \in BOOLEAN
      BY <3>1
    <3>3. Node' = Node /\ NoNode' = NoNode
      BY DEF Node, NoNode
    <3> QED
      BY <3>1, <3>2, <3>3, FirstNode DEF OthersOK, RpcTypeOK
  <2> QED
    BY <2>1, <2>2, <2>3, <2>4, <2>5
       DEF Next, MainStep, ReadConfiguration, ConnectDB, Account, ReadPolicy, ReadOfferId,
           ReadGauges, ReadHeights, Backfill, EvmDisconnects, EvmStep, CheckStep, PolicyChanges,
           GaugeStep, Stop, Accept, vars
<1> QED
  BY <1>2, <1>3, <1>4, <1>5, <1>6 DEF OthersOK

\* The variables keep their types; the active node is always one of the list.
THEOREM TypeCorrect == Spec => []TypeOK
<1>1. Init => OthersOK
  <2> SUFFICES ASSUME Init PROVE OthersOK
    OBVIOUS
  <2>1. RpcTypeOK
    BY FirstNode DEF Init, RpcInit, RpcTypeOK
  <2>2. main \in Main /\ faults \in Nat /\ backfills \in SUBSET Chains
    BY DEF Init, Main
  <2> QED
    BY <2>1, <2>2 DEF Init, OthersOK
<1>2. ConnInv /\ CountInv /\ OthersOK => TypeOK
  BY DEF ConnInv, CountInv, OthersOK, TypeOK
<1> QED
  BY <1>1, <1>2, InitConnections, InitCounts, NextConnections, NextCounts, NextOthers, PTL DEF Spec

=============================================================================
