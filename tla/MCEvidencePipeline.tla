------------------------- MODULE MCEvidencePipeline --------------------------
(***************************************************************************)
(* Symmetry for the runs that check safety only.                           *)
(***************************************************************************)
EXTENDS EvidencePipeline

Symmetry == Permutations(Txs) \cup Permutations(Workers)
                \cup Permutations(Monitors) \cup Permutations(EvmHandlers)

=============================================================================
