-------------------------- MODULE MCReverseTraffic --------------------------
(* TLC instances of ReverseTraffic. *)
EXTENDS ReverseTraffic
=============================================================================
