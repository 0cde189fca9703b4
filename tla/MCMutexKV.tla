------------------------------ MODULE MCMutexKV ------------------------------
(* MutexKV on a few threads and keys, the keys nested in one order. *)
EXTENDS MutexKV

CONSTANTS k1, k2

MCNesting == {<<k1, k2>>}
=============================================================================
