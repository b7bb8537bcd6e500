--------------------------- MODULE MCNobleResolver ----------------------------
(***************************************************************************)
(* Values of the constants of NobleResolver that a configuration file      *)
(* cannot spell out.                                                       *)
(***************************************************************************)
EXTENDS NobleResolver

CONSTANTS b1, b2

\* Each burn goes to an address of its own, one of them encoded carelessly.
OwnAddress == [b \in Burns |-> IF b = b1 THEN <<0, 0>> ELSE <<1, 1>>]

\* Worker and Noble disagree about <<0>>; <<1>> turns out not to be for Agoric.
WorkerMay == [a \in Addresses |-> IF a = <<0>> THEN {"settlement"} ELSE {}]
LcdMay    == [a \in Addresses |-> IF a = <<0>> THEN {"stranger"} ELSE {"other"}]

=============================================================================
