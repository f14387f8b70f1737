--------------------------- MODULE CallbackPromise ---------------------------
(***************************************************************************)
(* What the OAuth flow may rely on when it waits for the redirect: one     *)
(* answer, which is what the first callback said, or a timeout although    *)
(* nobody has called.  AuthFlow takes its Approve and WaitFails steps from *)
(* this promise; CallbackServer implements it.                             *)
(***************************************************************************)
CONSTANT Query      \* what a callback may say

VARIABLES owner,    \* the flow: "preparing", "waiting", "returned" or "dropped"
          heard,    \* what the first callback said, or "none"
          outcome   \* what the wait comes to, or "none"

vars == <<owner, heard, outcome>>

Init == owner = "preparing" /\ heard = "none" /\ outcome = "none"

Wait == /\ owner = "preparing" /\ owner' = "waiting"
        /\ UNCHANGED <<heard, outcome>>

Drop == /\ owner = "preparing" /\ owner' = "dropped"
        /\ UNCHANGED <<heard, outcome>>

\* At any time, also before the wait and after it.
Hear == /\ heard = "none" /\ heard' \in Query
        /\ UNCHANGED <<owner, outcome>>

Settle == /\ owner = "waiting" /\ outcome = "none"
          /\ outcome' = IF heard = "none" THEN "timeout" ELSE heard
          /\ UNCHANGED <<owner, heard>>

Return == /\ owner = "waiting" /\ outcome # "none" /\ owner' = "returned"
          /\ UNCHANGED <<heard, outcome>>

Next == Wait \/ Drop \/ Hear \/ Settle \/ Return

Spec == Init /\ [][Next]_vars
=============================================================================
