---------------------------- MODULE MCRequestRouting ----------------------------
(* Small instances of request routing for TLC. *)
EXTENDS RequestRouting, TLC

CONSTANTS n1, n2, email, inapp, sms

\* n1 asks for the two channels there are, n2 for one of them and one there is not.
GoodAndBad == (n1 :> <<email, inapp>>) @@ (n2 :> <<email, sms>>)

\* Behind the request that cannot be routed comes one that can, or a copy of it.
UnroutableFirst == {<<n2, n1>>, <<n2, n2>>}
=============================================================================
