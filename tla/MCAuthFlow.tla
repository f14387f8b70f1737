----------------------------- MODULE MCAuthFlow -----------------------------
(* TLC instances of AuthFlow. *)
EXTENDS AuthFlow, TLC

AllOptions == {"no_auth", "reset_auth", "client_id_url"}
AllFaults  == {"store", "delete", "metadata", "network", "revoke", "crash"}
AllProbes  == {"none", "required", "error"}

Interchangeable == Permutations(Proc)
=============================================================================
