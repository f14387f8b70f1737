------------------------- MODULE CredentialRegister -------------------------
(***************************************************************************)
(* What a caller of rmcp's CredentialStore trait may rely on: an atomic    *)
(* register holding at most one serialized credential, shared by every     *)
(* process started for the same server.  A call takes effect at one        *)
(* instant between its invocation and its return; a call that returns an   *)
(* error, or whose process dies first, has had no partial effect.          *)
(*                                                                         *)
(* CredentialStore implements this register in two deployments (a keyring  *)
(* that always answers; no keyring and one writing process).  ClearsMiss   *)
(* weakens its clear: it may return "ok" without having had an effect.     *)
(***************************************************************************)
CONSTANTS Proc,     \* processes launched for one server
          Writers,  \* those of them that save
          Cred,     \* serialized credentials
          ClearsMiss  \* whether a clear may miss the credential held

VARIABLES value,    \* the credential held, or "absent"
          call      \* what each process is doing

vars == <<value, call>>

Idle == [at |-> "idle", op |-> "none", arg |-> "absent"]
Called(op, arg) == [at |-> "called", op |-> op, arg |-> arg]
Returning(result) == [at |-> "returning", op |-> "none", arg |-> result]

Init == /\ value = "absent"
        /\ call = [p \in Proc |-> Idle]

Invoke(p) == /\ call[p] = Idle
             /\ \/ call' = [call EXCEPT ![p] = Called("load", "absent")]
                \/ call' = [call EXCEPT ![p] = Called("clear", "absent")]
                \/ /\ p \in Writers
                   /\ \E c \in Cred : call' = [call EXCEPT ![p] = Called("save", c)]
             /\ UNCHANGED value

\* The instant a load, a save or a clear takes effect.
LoadEffect(p) == /\ call[p].at = "called" /\ call[p].op = "load"
                 /\ call' = [call EXCEPT ![p] = Returning(value)]
                 /\ UNCHANGED value

SaveEffect(p) == /\ call[p].at = "called" /\ call[p].op = "save"
                 /\ value' = call[p].arg
                 /\ call' = [call EXCEPT ![p] = Returning("ok")]

ClearEffect(p) == /\ call[p].at = "called" /\ call[p].op = "clear"
                  /\ value' = "absent"
                  /\ call' = [call EXCEPT ![p] = Returning("ok")]

\* The store could not see what it holds and took it for nothing.
ClearMissed(p) == /\ ClearsMiss
                  /\ call[p].at = "called" /\ call[p].op = "clear"
                  /\ call' = [call EXCEPT ![p] = Returning("ok")]
                  /\ UNCHANGED value

\* An error (disk full, permission, ...) leaves the register as it was.
Fail(p) == /\ call[p].at = "called"
           /\ call' = [call EXCEPT ![p] = Returning("err")]
           /\ UNCHANGED value

Return(p) == /\ call[p].at = "returning"
             /\ call' = [call EXCEPT ![p] = Idle]
             /\ UNCHANGED value

\* The process dies in the middle of a call; its successor starts afresh.
Crash(p) == /\ call[p] # Idle
            /\ call' = [call EXCEPT ![p] = Idle]
            /\ UNCHANGED value

Next == \E p \in Proc : \/ Invoke(p) \/ LoadEffect(p) \/ SaveEffect(p)
                        \/ ClearEffect(p) \/ ClearMissed(p) \/ Fail(p) \/ Return(p) \/ Crash(p)

Spec == Init /\ [][Next]_vars
=============================================================================
