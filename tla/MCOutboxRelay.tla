---------------------------- MODULE MCOutboxRelay ----------------------------
(* Small instances of the outbox relay for TLC. *)
EXTENDS OutboxRelay, TLC

Symmetry == Permutations(Events) \cup Permutations(Publishers)
=============================================================================
