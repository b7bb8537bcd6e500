---------------------------- MODULE MCEvmWatcher -----------------------------
(***************************************************************************)
(* Values of the constants of EvmWatcher that a configuration file cannot  *)
(* spell out.                                                              *)
(***************************************************************************)
EXTENDS EvmWatcher

CONSTANTS t1, t2

\* Every burn is of one unit.
UnitAmount == [t \in Burns |-> 1]

\* t1 burns one unit, every other burn ten.
MixedAmount == [t \in Burns |-> IF t = t1 THEN 1 ELSE 10]

\* A unit needs no confirmation, up to ten units need one.
TwoThresholds == {[maxAmount |-> 1, confirmations |-> 0],
                  [maxAmount |-> 10, confirmations |-> 1]}

NoThresholds == {}

Symmetry == Permutations(Tasks)

=============================================================================
