------------------------------ MODULE AuthFlow ------------------------------
(***************************************************************************)
(* src/auth/mod.rs: acquire_auth_client, from launch to a usable client,   *)
(* for processes that share one credential store and one authorization     *)
(* server, and the token refreshes of their running sessions.              *)
(*                                                                         *)
(* A grant is one token response: an access token that lives Lifetime time *)
(* units and a refresh token.  The store is the atomic register of module  *)
(* CredentialRegister; an await point of the code separates two actions.   *)
(* rmcp's OAuthState keeps no token of its own: it reads and writes the    *)
(* store it was given (install_credential_store).                          *)
(*                                                                         *)
(* Faults names what may go wrong: "store" (an I/O error of the store),    *)
(* "delete" (clear_sync returns Ok and the credential is still there: the  *)
(* register's ClearMissed, or a keyring delete that is only logged),       *)
(* "metadata" (set_credentials persists, then its metadata fetch fails),   *)
(* "network" (a request fails, the callback server cannot be bound, or the *)
(* response to a refresh is lost), "revoke" (the server forgets a refresh  *)
(* token) and "crash".                                                     *)
(***************************************************************************)
EXTENDS Naturals

CONSTANTS Proc, Options, ProbeResults, Faults,
          Rotates,     \* whether a refresh invalidates the refresh token it used
          Lifetime, RefreshBuffer,
          MaxTime, MaxGrants   \* bounds on the clock and on token responses

ASSUME AuthAssumption ==
  /\ Options \subseteq {"no_auth", "reset_auth", "client_id_url"}
  /\ ProbeResults \subseteq {"none", "required", "error"}
  /\ Faults \subseteq {"store", "delete", "metadata", "network", "revoke", "crash"}
  /\ Rotates \in BOOLEAN
  /\ Lifetime \in Nat /\ RefreshBuffer \in Nat \ {0} /\ MaxTime \in Nat /\ MaxGrants \in Nat

VARIABLES
  now,          \* wall clock
  store,        \* the stored credentials
  issued,       \* token responses issued so far
  issuedAt,     \* when each was issued
  refreshable,  \* grants whose refresh token the server honours
  pc, opts, cached, stale, minted

server  == <<issued, issuedAt, refreshable>>
process == <<opts, cached, stale, minted>>
vars    == <<now, store, server, pc, process>>

Time  == 0 .. MaxTime
Grant == 1 .. MaxGrants

\* StoredCredentials; grant 0 stands for an entry without token_response.
Stored == [grant : Grant \cup {0}, received : Time]
Absent == [grant |-> 0, received |-> 0]   \* no entry, or no token in it

AcquirePc == {"clear", "discover", "load", "assess", "set_credentials", "fetch_metadata",
              "restore", "refresh", "persist_refresh", "wipe", "start_flow", "client_id",
              "prepare", "browser", "join_answered", "join_failed", "exchange",
              "persist_code"}
OutcomePc == {"anonymous", "running", "failed"}
\* What nothing in the program limits: the fetch of the client id document,
\* and the callback server's wait for requests that a browser has begun.
Unbounded == {"client_id", "join_answered", "join_failed"}
\* A token response is on its way from the server to the store.
PersistPc == {"persist_refresh", "persist_code", "persist_session"}

TypeOK ==
  /\ now \in Time
  /\ store \in Stored
  /\ issued \in 0 .. MaxGrants
  /\ issuedAt \in [Grant -> Time]
  /\ refreshable \subseteq 1 .. issued
  /\ pc \in [Proc -> AcquirePc \cup OutcomePc \cup {"idle", "persist_session"}]
  /\ opts \in [Proc -> SUBSET Options]
  /\ cached \in [Proc -> Stored]
  /\ stale \in [Proc -> BOOLEAN]
  /\ minted \in [Proc -> Grant \cup {0}]

Init ==
  /\ now = 0
  /\ store = Absent
  /\ issued = 0 /\ issuedAt = [g \in Grant |-> 0] /\ refreshable = {}
  /\ pc = [p \in Proc |-> "idle"]
  /\ opts = [p \in Proc |-> {}]
  /\ cached = [p \in Proc |-> Absent]
  /\ stale = [p \in Proc |-> FALSE]
  /\ minted = [p \in Proc |-> 0]

Goto(p, label) == pc' = [pc EXCEPT ![p] = label]
At(p, label)   == pc[p] = label
Faulty(fault)  == fault \in Faults

Minus(m, n) == IF m > n THEN m - n ELSE 0      \* u64::saturating_sub

\* The access token is dead at the resource server.
Expired(g) == now >= issuedAt[g] + Lifetime

\* cached_access_token_is_stale, from the recorded time of receipt.
Stale(creds) == Minus(Lifetime, Minus(now, creds.received)) < RefreshBuffer

-----------------------------------------------------------------------------
(* Launch, --no-auth, --reset-auth and discovery.                          *)

Launch(p) ==
  /\ At(p, "idle")
  /\ \E o \in SUBSET Options :
       /\ opts' = [opts EXCEPT ![p] = o]
       /\ Goto(p, IF "no_auth" \in o THEN "anonymous"
                  ELSE IF "reset_auth" \in o THEN "clear" ELSE "discover")
  /\ UNCHANGED <<now, store, server, cached, stale, minted>>

\* Faulty variant: --reset-auth is parsed and forgotten.
ClearCacheForgotten(p) ==
  /\ At(p, "clear")
  /\ Goto(p, "discover")
  /\ UNCHANGED <<now, store, server, process>>

ClearCache(p) ==
  /\ At(p, "clear")
  /\ \/ store' = Absent /\ Goto(p, "discover")
     \/ Faulty("delete") /\ UNCHANGED store /\ Goto(p, "discover")
     \/ Faulty("store") /\ UNCHANGED store /\ Goto(p, "failed")
  /\ UNCHANGED <<now, server, process>>

Discover(p) ==
  /\ At(p, "discover")
  /\ \E r \in ProbeResults :
       Goto(p, CASE r = "none" -> "anonymous" [] r = "error" -> "failed" [] OTHER -> "load")
  /\ UNCHANGED <<now, store, server, process>>

-----------------------------------------------------------------------------
(* try_cached_credentials                                                  *)

LoadCached(p) ==
  /\ At(p, "load")
  /\ \/ store = Absent /\ Goto(p, "start_flow") /\ UNCHANGED cached
     \/ /\ store # Absent
        /\ cached' = [cached EXCEPT ![p] = store]
        /\ Goto(p, "assess")
     \/ Faulty("store") /\ Goto(p, "failed") /\ UNCHANGED cached
  /\ UNCHANGED <<now, store, server, opts, stale, minted>>

\* Faulty variant: staleness is asked after set_credentials has restamped.
AssessRestamped(p) ==
  /\ At(p, "assess")
  /\ stale' = [stale EXCEPT ![p] = Stale([cached[p] EXCEPT !.received = now])]
  /\ Goto(p, "set_credentials")
  /\ UNCHANGED <<now, store, server, opts, cached, minted>>

Assess(p) ==
  /\ At(p, "assess")
  /\ stale' = [stale EXCEPT ![p] = Stale(cached[p])]
  /\ Goto(p, "set_credentials")
  /\ UNCHANGED <<now, store, server, opts, cached, minted>>

\* rmcp persists the restored token as if received now, and only then
\* fetches the authorization server's metadata.
SetCredentials(p) ==
  /\ At(p, "set_credentials")
  /\ \/ /\ store' = [grant |-> cached[p].grant, received |-> now]
        /\ Goto(p, "fetch_metadata")
     \/ Faulty("store") /\ UNCHANGED store /\ Goto(p, "failed")
  /\ UNCHANGED <<now, server, process>>

FetchMetadata(p) ==
  /\ At(p, "fetch_metadata")
  /\ \/ Goto(p, "restore")
     \/ Faulty("metadata") /\ Goto(p, "failed")
  /\ UNCHANGED <<now, store, server, process>>

\* Faulty variant: no write-back.
RestoreForgotten(p) ==
  /\ At(p, "restore")
  /\ Goto(p, IF stale[p] THEN "refresh" ELSE "running")
  /\ UNCHANGED <<now, store, server, process>>

\* Faulty variant: the write-back comes last, after the refresh.
RestoreCachedLast(p) ==
  /\ \/ At(p, "restore") /\ Goto(p, IF stale[p] THEN "refresh" ELSE "running") /\ UNCHANGED store
     \/ At(p, "running") /\ stale[p] /\ store' = cached[p] /\ UNCHANGED pc
  /\ UNCHANGED <<now, server, process>>

\* Faulty variant: the time of expiry is written back for that of receipt.
RestoreExpiry(p) ==
  /\ At(p, "restore")
  /\ store' = [cached[p] EXCEPT !.received = @ + Lifetime]
  /\ Goto(p, IF stale[p] THEN "refresh" ELSE "running")
  /\ UNCHANGED <<now, server, process>>

\* The write-back of the credentials as loaded; a failure is only logged.
\* Nothing after it looks at what was loaded.
RestoreCached(p) ==
  /\ At(p, "restore")
  /\ \/ store' = cached[p]
     \/ Faulty("store") /\ UNCHANGED store
  /\ Goto(p, IF stale[p] THEN "refresh" ELSE "running")
  /\ cached' = [cached EXCEPT ![p] = Absent]
  /\ stale' = [stale EXCEPT ![p] = FALSE]
  /\ UNCHANGED <<now, server, opts, minted>>

Issue(p) ==
  /\ issued < MaxGrants
  /\ issued' = issued + 1
  /\ issuedAt' = [issuedAt EXCEPT ![issued + 1] = now]

\* The token endpoint's answer to the stored refresh token.
TokenRefresh(p, granted, refused) ==
  \/ /\ store # Absent /\ store.grant \in refreshable
     /\ Issue(p)
     /\ refreshable' = (IF Rotates THEN refreshable \ {store.grant} ELSE refreshable)
                          \cup {issued + 1}
     /\ \/ minted' = [minted EXCEPT ![p] = issued + 1] /\ Goto(p, granted)
        \/ Faulty("network") /\ UNCHANGED minted /\ Goto(p, refused)
  \/ /\ store = Absent \/ store.grant \notin refreshable \/ issued = MaxGrants
        \/ Faulty("network")
     /\ Goto(p, refused)
     /\ UNCHANGED <<server, minted>>

\* rmcp records the token response it has just received.
Persist(p, saved, notSaved) ==
  /\ \/ /\ store' = [grant |-> minted[p], received |-> now]
        /\ Goto(p, saved)
     \/ Faulty("store") /\ UNCHANGED store /\ Goto(p, notSaved)
  /\ minted' = [minted EXCEPT ![p] = 0]
  /\ UNCHANGED <<now, server, opts, cached, stale>>

Refresh(p) ==
  /\ At(p, "refresh")
  /\ TokenRefresh(p, "persist_refresh", "wipe")
  /\ UNCHANGED <<now, store, opts, cached, stale>>

PersistRefresh(p) == At(p, "persist_refresh") /\ Persist(p, "running", "wipe")

\* A refresh that fails for whatever reason clears the cache; a clear that
\* fails is only logged.
Wipe(p) ==
  /\ At(p, "wipe")
  /\ \/ store' = Absent
     \/ Faulty("delete") /\ UNCHANGED store
     \/ Faulty("store") /\ UNCHANGED store
  /\ Goto(p, "start_flow")
  /\ UNCHANGED <<now, server, process>>

-----------------------------------------------------------------------------
(* run_interactive_flow and run_preregistered_flow: the two differ in how  *)
(* the client id is obtained before the browser is opened.                 *)

\* A --client-id that is a URL names a document to fetch first.
StartFlow(p) ==
  /\ At(p, "start_flow")
  /\ Goto(p, IF "client_id_url" \in opts[p] THEN "client_id" ELSE "prepare")
  /\ UNCHANGED <<now, store, server, process>>

\* resolve_client_id, with an HTTP client that has no timeout.
FetchClientId(p) ==
  /\ At(p, "client_id")
  /\ \/ Goto(p, "prepare")
     \/ Faulty("network") /\ Goto(p, "failed")
  /\ UNCHANGED <<now, store, server, process>>

\* Bind the callback server, then fetch metadata and register, or not.
Prepare(p) ==
  /\ At(p, "prepare")
  /\ \/ Goto(p, "browser")
     \/ Faulty("network") /\ Goto(p, "failed")
  /\ UNCHANGED <<now, store, server, process>>

Approve(p) ==
  /\ At(p, "browser")
  /\ Goto(p, "join_answered")
  /\ UNCHANGED <<now, store, server, process>>

\* Faulty variant: the wait for the browser has no timeout.
WaitForever(p) == FALSE

\* The user refuses, or auth_timeout_secs pass.
WaitFails(p) ==
  /\ At(p, "browser")
  /\ Goto(p, "join_failed")
  /\ UNCHANGED <<now, store, server, process>>

\* Answer or not, wait returns once the callback server has shut down
\* (module CallbackServer), whose join has no timeout.
Joined(p) ==
  /\ \/ At(p, "join_answered") /\ Goto(p, "exchange")
     \/ At(p, "join_failed") /\ Goto(p, "failed")
  /\ UNCHANGED <<now, store, server, process>>

Exchange(p) ==
  /\ At(p, "exchange")
  /\ \/ /\ Issue(p)
        /\ refreshable' = refreshable \cup {issued + 1}
        /\ minted' = [minted EXCEPT ![p] = issued + 1]
        /\ Goto(p, "persist_code")
     \/ /\ issued = MaxGrants \/ Faulty("network")
        /\ Goto(p, "failed")
        /\ UNCHANGED <<server, minted>>
  /\ UNCHANGED <<now, store, opts, cached, stale>>

PersistCode(p) == At(p, "persist_code") /\ Persist(p, "running", "failed")

-----------------------------------------------------------------------------
(* A running session: AuthClient asks for an access token before every     *)
(* request and refreshes the stored one when it is stale.                  *)

SessionRefresh(p) ==
  /\ At(p, "running")
  /\ store # Absent /\ Stale(store)
  /\ TokenRefresh(p, "persist_session", "running")
  /\ UNCHANGED <<now, store, opts, cached, stale>>

PersistSession(p) == At(p, "persist_session") /\ Persist(p, "running", "running")

Exit(p) ==
  /\ pc[p] \in OutcomePc \/ (Faulty("crash") /\ ~At(p, "idle"))
  /\ Goto(p, "idle")
  /\ opts' = [opts EXCEPT ![p] = {}]
  /\ cached' = [cached EXCEPT ![p] = Absent]
  /\ stale' = [stale EXCEPT ![p] = FALSE]
  /\ minted' = [minted EXCEPT ![p] = 0]
  /\ UNCHANGED <<now, store, server>>

-----------------------------------------------------------------------------
(* The environment.  A unit of time is longer than it takes to store a     *)
(* token response, and RefreshBuffer covers what remains.                  *)

Tick ==
  /\ now < MaxTime
  /\ \A p \in Proc : pc[p] \notin PersistPc
  /\ now' = now + 1
  /\ UNCHANGED <<store, server, pc, process>>

Revoke ==
  /\ Faulty("revoke")
  /\ \E g \in refreshable : refreshable' = refreshable \ {g}
  /\ UNCHANGED <<now, store, issued, issuedAt, pc, process>>

Acquire(p) ==
  \/ ClearCache(p) \/ Discover(p)
  \/ LoadCached(p) \/ Assess(p) \/ SetCredentials(p) \/ FetchMetadata(p) \/ RestoreCached(p)
  \/ Refresh(p) \/ PersistRefresh(p) \/ Wipe(p)
  \/ StartFlow(p) \/ Prepare(p) \/ WaitFails(p) \/ Exchange(p) \/ PersistCode(p)

Next == \/ \E p \in Proc : \/ Launch(p) \/ Acquire(p)
                           \/ FetchClientId(p) \/ Approve(p) \/ Joined(p)
                           \/ SessionRefresh(p) \/ PersistSession(p) \/ Exit(p)
        \/ Tick
        \/ Revoke

Spec == Init /\ [][Next]_vars

\* tokio runs a ready task, the probe and rmcp's requests answer or time out,
\* and so does the wait for the browser.  Nobody has to answer the browser,
\* to serve the client id document or to let the callback server shut down:
\* FetchClientId, Approve and Joined are not fair.
FairSpec == Spec /\ \A p \in Proc : WF_vars(Acquire(p))
-----------------------------------------------------------------------------
(* Properties                                                              *)

\* The recorded time of receipt is the true one except while a launch is
\* between set_credentials and its write-back: "write the original
\* StoredCredentials back so the next launch sees the truth".
StoredTimeGenuine ==
  (\A p \in Proc : pc[p] \notin {"fetch_metadata", "restore"})
    => store = Absent \/ store.received = issuedAt[store.grant]

\* The refresh token on disk is one the server still honours: a rotated
\* refresh token replaces the one it was obtained with, for good.
StoreHoldsLiveGrant ==
  (\A p \in Proc : pc[p] \notin PersistPc) => store = Absent \/ store.grant \in refreshable

\* A launch that takes the cached access token for fresh is right about it
\* (cached_access_token_is_stale).
FreshMeansUnexpired ==
  [][\A p \in Proc : pc[p] = "assess" /\ pc'[p] = "set_credentials" /\ ~stale'[p]
       => ~Expired(cached[p].grant)]_vars

\* A launch with --reset-auth gets its client from a code exchange of its
\* own, never from what an earlier launch left in the cache.
ResetForcesFreshFlow ==
  [][\A p \in Proc : "reset_auth" \in opts[p] /\ pc[p] \in AcquirePc /\ pc'[p] = "running"
       => pc[p] = "persist_code"]_vars

\* Every launch ends, with a client or with an error the host can report,
\* unless it is for ever in one of the two waits without a limit.  A user who
\* never answers the browser is not among the reasons (auth_timeout_secs).
LaunchResolves ==
  \A p \in Proc :
    (pc[p] \in AcquirePc)
      ~> (pc[p] \in OutcomePc \cup {"idle"} \/ [](pc[p] \in Unbounded))
=============================================================================
