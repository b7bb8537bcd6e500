------------------------------- MODULE AgoricRpc ------------------------------
(***************************************************************************)
(* Which Agoric node the watcher uses: the active index                    *)
(* (src/config/config.ts), the periodic check of the active node           *)
(* (monitorAgoric in src/submitter.ts) and the websocket                   *)
(* (createAgoricWebSocket in src/lib/agoric.ts), which both advance it.    *)
(* A check waits for the answer of the node that was active when it began; *)
(* the timer does not wait for checks, and they overlap.                   *)
(***************************************************************************)
EXTENDS Configuration

CONSTANT Checks \* checks that can be in progress together

VARIABLES active,     \* ACTIVE_AGORIC_RPC_INDEX
          check,      \* the node each check has asked, NoNode for no check
          monitoring, \* the timer of monitorAgoric runs
          socket,     \* the websocket: state and node
          synced      \* nodes that answer and are not syncing

rpcVars == <<active, check, monitoring, socket, synced>>

Node   == 0..(NumRpcs - 1)
NoNode == NumRpcs

RpcTypeOK ==
    /\ active \in Node
    /\ check \in [Checks -> Node \cup {NoNode}]
    /\ monitoring \in BOOLEAN
    /\ socket \in [state : {"none", "open", "closed"}, node : Node]
    /\ synced \in SUBSET Node

RpcInit ==
    /\ active = 0
    /\ check = [c \in Checks |-> NoNode]
    /\ monitoring = FALSE
    /\ socket = [state |-> "none", node |-> 0]
    /\ synced = Node

\* Faulty form: does not go back to the first one.
NextRpcStuck(i) == IF i < NumRpcs - 1 THEN i + 1 ELSE i

\* Faulty form: goes one past the last one.
NextRpcPast(i) == IF i < NumRpcs THEN i + 1 ELSE 0

\* nextActiveAgoricRPC.
NextRpc(i) == IF i < NumRpcs - 1 THEN i + 1 ELSE 0

OpenSocket(node) == socket' = [state |-> "open", node |-> node]

StartCheck(c) ==
    /\ monitoring
    /\ check[c] = NoNode
    /\ check' = [check EXCEPT ![c] = active]
    /\ UNCHANGED <<active, monitoring, socket, synced, faults>>

\* Whatever node the answer is about, a bad one moves on from the active node.
EndCheck(c) ==
    /\ check[c] # NoNode
    /\ active' = IF check[c] \in synced THEN active ELSE NextRpc(active)
    /\ check' = [check EXCEPT ![c] = NoNode]
    /\ UNCHANGED <<monitoring, socket, synced, faults>>

SocketCloses ==
    /\ socket.state = "open"
    /\ Fault("disconnect")
    /\ socket' = [socket EXCEPT !.state = "closed"]
    /\ UNCHANGED <<active, check, monitoring, synced>>

\* The timer that the close handler starts.
ReopenSocket ==
    /\ socket.state = "closed"
    /\ active' = NextRpc(active)
    /\ OpenSocket(active')
    /\ UNCHANGED <<check, monitoring, synced, faults>>

\* A node falls behind or catches up.
HealthChanges ==
    /\ Fault("sync")
    /\ \E n \in Node : synced' = (synced \ {n}) \cup ({n} \ synced)
    /\ UNCHANGED <<active, check, monitoring, socket>>

\* Memory of a process that has just started.
RpcRestarts ==
    /\ active' = 0
    /\ check' = [c \in Checks |-> NoNode]
    /\ monitoring' = FALSE
    /\ socket' = [state |-> "none", node |-> 0]
    /\ UNCHANGED synced

RpcStep ==
    \/ \E c \in Checks : StartCheck(c) \/ EndCheck(c)
    \/ SocketCloses
    \/ ReopenSocket
    \/ HealthChanges

=============================================================================
