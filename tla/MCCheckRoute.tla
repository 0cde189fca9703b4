---------------------------- MODULE MCCheckRoute ----------------------------
(* CheckRoute with a few requests, which are alike. *)
EXTENDS CheckRoute, TLC

MCSymmetry == Permutations(Request)
=============================================================================
