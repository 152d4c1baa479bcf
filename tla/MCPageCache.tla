---------------------------- MODULE MCPageCache ----------------------------
(* Small instances of PageCache for TLC; the constants are in the .cfg.    *)
EXTENDS PageCache
=============================================================================
