-------------------------- MODULE MCChannelWorker --------------------------
(* Small instances of a channel worker for TLC. *)
EXTENDS AttemptSummary
=============================================================================
