-------------------------------- MODULE Faults --------------------------------
(***************************************************************************)
(* A bound on what goes wrong in a run of the modules about connections    *)
(* and the start of the process.  Not code: the environment.               *)
(***************************************************************************)
EXTENDS Naturals, FiniteSets

CONSTANTS Failures,  \* what may go wrong in a run
          MaxFaults  \* bound: how often

FaultKind == {"disconnect", "rpc", "db", "sync", "slow", "policy", "stop"}

ASSUME FaultsAssumption == Failures \subseteq FaultKind /\ MaxFaults \in Nat

VARIABLE faults \* failures so far

Fault(kind) ==
    /\ kind \in Failures
    /\ faults < MaxFaults
    /\ faults' = faults + 1

=============================================================================
