-------------------------- MODULE MCCallbackServer --------------------------
(* TLC instances of CallbackServer. *)
EXTENDS CallbackServer
=============================================================================
