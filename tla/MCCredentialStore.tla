-------------------------- MODULE MCCredentialStore --------------------------
(* TLC instances of CredentialStore. *)
EXTENDS CredentialStore, TLC

AllKeyringOps == {"get", "set", "delete"}
AllFileOps    == {"read", "stat", "remove", "open", "write", "rename"}

\* Inodes are interchangeable, and so are credentials.
Interchangeable == Permutations(Inode) \cup Permutations(Cred)
=============================================================================
