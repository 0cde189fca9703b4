----------------------------- MODULE MCInventory -----------------------------
(* Inventory with provider-sync, health checks and users at the same time. *)
EXTENDS Inventory, TLC

CONSTANTS i1, m1, none

MCResources == <<[id |-> i1, meta |-> m1], [id |-> none, meta |-> m1]>>
MCProc == Syncer \cup Checker \cup Caller
=============================================================================
