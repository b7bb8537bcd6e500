---------------------------- MODULE MCEvmHistory -----------------------------
(***************************************************************************)
(* EvmHistory with the constants of MCEvmWatcher.                          *)
(***************************************************************************)
EXTENDS EvmHistory, MCEvmWatcher

=============================================================================
