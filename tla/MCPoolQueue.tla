---------------------------- MODULE MCPoolQueue ----------------------------
(* Small instances of PoolQueue for TLC. *)
EXTENDS PoolQueue
=============================================================================
