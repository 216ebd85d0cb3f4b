--------------------------- MODULE MCOrderHistory ---------------------------
(* The instances of MCOrderStore, with what was on record before each call. *)
EXTENDS MCOrderStore, OrderHistory
=============================================================================
