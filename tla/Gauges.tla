-------------------------------- MODULE Gauges --------------------------------
(***************************************************************************)
(* A counter that survives restarts: a gauge in memory (src/metrics.ts)    *)
(* and the documents of the State collection it is saved to and loaded     *)
(* from (src/lib/db.ts).  eventsCount stands for the three of them, of one *)
(* network.                                                                *)
(*                                                                         *)
(* An increment saves the new value without waiting, so several writes may *)
(* be under way and land in any order.  They go to whichever document is   *)
(* the first of the collection; heights and the load go by the id          *)
(* node-state.                                                             *)
(***************************************************************************)
EXTENDS Faults, Sequences

CONSTANT MaxCount \* bound: increments

ASSUME CountAssumption == MaxCount \in Nat

VARIABLES count,   \* the gauge
          writes,  \* values of setGaugeValue under way
          states,  \* the State collection, oldest first
          counted  \* history: increments so far

gaugeVars == <<count, writes, states, counted>>

\* Documents hold the saved value; only one has the id node-state.
State == [node : BOOLEAN, value : Nat]

GaugesTypeOK ==
    /\ count \in Nat
    /\ writes \in SUBSET Nat
    /\ states \in Seq(State)
    /\ counted \in Nat

\* setHeightForChain: an upsert by the id.
WithNodeState(docs) ==
    IF \E i \in DOMAIN docs : docs[i].node THEN docs
    ELSE Append(docs, [node |-> TRUE, value |-> 0])

\* setGaugeValue: an upsert by no condition at all.
WithGauge(docs, value) ==
    IF docs = <<>> THEN <<[node |-> FALSE, value |-> value]>>
    ELSE [docs EXCEPT ![1].value = value]

\* getAllGauges: the gauges of node-state, if there is one.
AllGauges == {states[i].value : i \in {j \in DOMAIN states : states[j].node}}

\* Faulty form: adds the saved value to the gauge.
LoadedOnTop == IF AllGauges = {} THEN {count} ELSE {count + value : value \in AllGauges}

\* initialiseMetricsForNetwork.
InitialMetrics == {0}

\* What intialiseGauges sets the gauge to.
Loaded == IF AllGauges = {} THEN InitialMetrics ELSE AllGauges

\* saveRPCStates, on a signal: the heights are saved if there is time.
Saved == {states, WithNodeState(states)}

\* incrementEventsCount.
Increment ==
    /\ counted < MaxCount
    /\ counted' = counted + 1
    /\ count' = count + 1
    /\ writes' = writes \cup {count + 1}
    /\ UNCHANGED <<states, faults>>

SaveGauge ==
    /\ \E value \in writes :
         /\ writes' = writes \ {value}
         /\ \/ states' = WithGauge(states, value) /\ UNCHANGED faults
            \/ Fault("db") /\ UNCHANGED states
    /\ UNCHANGED <<count, counted>>

-----------------------------------------------------------------------------
\* What the gauge shows, what is on its way to the database and what is saved never
\* exceed the increments made: loading a saved value, on a start or after
\* increments, and writes that land in another order count none of them twice.
\* They may fall behind: by restarts, lost and reordered writes, an increment
\* before the load, a second document.  An event may have several increments.
NeverOvercounts ==
    /\ count <= counted
    /\ \A value \in writes : value <= counted
    /\ \A i \in DOMAIN states : states[i].value <= counted

=============================================================================
