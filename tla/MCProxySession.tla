--------------------------- MODULE MCProxySession ---------------------------
(* TLC instances of ProxySession. *)
EXTENDS ProxySession
=============================================================================
