---------------------------- MODULE MCOrderQueue ----------------------------
(* A small instance of the order queue for TLC. *)
EXTENDS OrderQueue, TLC
=============================================================================
