----------------------------- MODULE MCCatalogSync -----------------------------
(* CatalogSync with five task IDs. *)
EXTENDS CatalogSync

CONSTANTS t1, t2, t3, t4, t5
===============================================================================
