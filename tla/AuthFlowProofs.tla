---------------------------- MODULE AuthFlowProofs ----------------------------
(***************************************************************************)
(* AuthFlow is type correct for all processes and all faults.  For the     *)
(* launches and sessions of one process, which follow one another without  *)
(* bound, any lifetime and any number of grants:                           *)
(*   - the recorded time of receipt is the true one outside the restore;   *)
(*   - a token taken for fresh has not expired;                            *)
(*   - the refresh token on disk is one the server honours;                *)
(*   - --reset-auth ends in a code exchange of its own.                    *)
(* If the server does not rotate refresh tokens, the one on disk is        *)
(* honoured for any number of processes.                                   *)
(* Each theorem names the faults under which it holds.                     *)
(***************************************************************************)
EXTENDS AuthFlow, TLAPS

\* Two launches that overlap can spoil each other's restore (see AuthRotation).
SingleProcess == \A p, q \in Proc : p = q

\* What a launch does from the interactive flow's start to its code.
Interactive(p) ==
  StartFlow(p) \/ FetchClientId(p) \/ Prepare(p) \/ Approve(p) \/ WaitFails(p) \/ Joined(p)

\* Such a step moves from one label to the next and changes nothing else.
LEMMA InteractiveMoves ==
  ASSUME NEW p \in Proc, Interactive(p)
  PROVE  /\ \E label \in {"client_id", "prepare", "browser", "join_answered", "join_failed",
                          "exchange", "failed"} : Goto(p, label)
         /\ pc[p] \in {"start_flow", "client_id", "prepare", "browser", "join_answered",
                       "join_failed"}
         /\ UNCHANGED <<now, store, issued, issuedAt, refreshable, opts, cached, stale, minted>>
  BY DEF Interactive, StartFlow, FetchClientId, Prepare, Approve, WaitFails, Joined, At,
         server, process

-----------------------------------------------------------------------------
(* Type correctness.                                                       *)

LEMMA TypeInit == Init => TypeOK
  BY AuthAssumption DEF Init, TypeOK, Absent, Stored, Grant, Time

\* Issuing a grant keeps the types of what the server knows.
LEMMA IssueTypes ==
  ASSUME TypeOK, NEW p \in Proc, Issue(p)
  PROVE  /\ issued' \in 0 .. MaxGrants /\ issued + 1 \in Grant
         /\ issuedAt' \in [Grant -> Time]
  BY AuthAssumption DEF TypeOK, Issue, Grant

LEMMA TokenRefreshTypes ==
  ASSUME TypeOK, NEW p \in Proc, NEW granted, NEW refused,
         {granted, refused} \subseteq AcquirePc \cup OutcomePc \cup {"idle", "persist_session"},
         TokenRefresh(p, granted, refused), UNCHANGED <<now, store, opts, cached, stale>>
  PROVE  TypeOK'
<1>1. CASE UNCHANGED <<server, minted>> /\ Goto(p, refused)
  <2>1. pc' \in [Proc -> AcquirePc \cup OutcomePc \cup {"idle", "persist_session"}]
    BY <1>1 DEF TypeOK, Goto
  <2> QED
    BY <1>1, <2>1 DEF TypeOK, server
<1>2. CASE /\ Issue(p)
           /\ refreshable' = (IF Rotates THEN refreshable \ {store.grant} ELSE refreshable)
                                \cup {issued + 1}
           /\ \/ minted' = [minted EXCEPT ![p] = issued + 1] /\ Goto(p, granted)
              \/ UNCHANGED minted /\ Goto(p, refused)
  <2>1. refreshable' \subseteq 1 .. issued'
    <3>1. issued \in Nat /\ issued' = issued + 1 /\ refreshable \subseteq 1 .. issued
      BY <1>2, AuthAssumption DEF Issue, TypeOK
    <3>2. refreshable' \subseteq refreshable \cup {issued + 1}
      BY <1>2
    <3> QED
      BY <3>1, <3>2
  <2>2. minted' \in [Proc -> Grant \cup {0}]
    BY <1>2, IssueTypes DEF TypeOK
  <2>3. pc' \in [Proc -> AcquirePc \cup OutcomePc \cup {"idle", "persist_session"}]
    BY <1>2 DEF TypeOK, Goto
  <2> QED
    BY <1>2, <2>1, <2>2, <2>3, IssueTypes DEF TypeOK
<1> QED
  BY <1>1, <1>2 DEF TokenRefresh

LEMMA PersistTypes ==
  ASSUME TypeOK, NEW p \in Proc, NEW saved, NEW notSaved,
         {saved, notSaved} \subseteq AcquirePc \cup OutcomePc \cup {"idle", "persist_session"},
         Persist(p, saved, notSaved)
  PROVE  TypeOK'
  BY DEF Persist, TypeOK, Goto, Stored, server

LEMMA TypeStep == TypeOK /\ [Next]_vars => TypeOK'
<1> SUFFICES ASSUME TypeOK, [Next]_vars PROVE TypeOK'
  OBVIOUS
<1> USE DEF AcquirePc, OutcomePc
<1>1. ASSUME NEW p \in Proc, Launch(p) PROVE TypeOK'
  <2>1. opts' \in [Proc -> SUBSET Options] /\ pc' \in [Proc -> AcquirePc \cup OutcomePc \cup {"idle", "persist_session"}]
    BY <1>1 DEF TypeOK, Launch, Goto
  <2> QED
    BY <1>1, <2>1 DEF TypeOK, Launch, server
<1>2. ASSUME NEW p \in Proc, ClearCache(p) \/ Wipe(p) PROVE TypeOK'
  <2>1. pc' \in [Proc -> AcquirePc \cup OutcomePc \cup {"idle", "persist_session"}]
    BY <1>2 DEF TypeOK, ClearCache, Wipe, Goto
  <2>2. store' \in Stored
    BY <1>2, AuthAssumption DEF TypeOK, ClearCache, Wipe, Absent, Stored, Time
  <2> QED
    BY <1>2, <2>1, <2>2 DEF TypeOK, ClearCache, Wipe, server, process
<1>3. ASSUME NEW p \in Proc, Discover(p) PROVE TypeOK'
  BY <1>3 DEF TypeOK, Discover, Goto, server, process
<1>4. ASSUME NEW p \in Proc, LoadCached(p) PROVE TypeOK'
  BY <1>4 DEF TypeOK, LoadCached, Goto, server
<1>5. ASSUME NEW p \in Proc, Assess(p) PROVE TypeOK'
  BY <1>5 DEF TypeOK, Assess, Goto, server, Stale
<1>6. ASSUME NEW p \in Proc, SetCredentials(p) \/ RestoreCached(p) PROVE TypeOK'
  <2>1. pc' \in [Proc -> AcquirePc \cup OutcomePc \cup {"idle", "persist_session"}]
    BY <1>6 DEF TypeOK, SetCredentials, RestoreCached, Goto
  <2>2. store' \in Stored
    BY <1>6 DEF TypeOK, SetCredentials, RestoreCached, Stored
  <2>3. cached' \in [Proc -> Stored] /\ stale' \in [Proc -> BOOLEAN]
    <3>1. Absent \in Stored
      BY AuthAssumption DEF Absent, Stored, Time
    <3> QED
      BY <1>6, <3>1 DEF TypeOK, SetCredentials, RestoreCached, process
  <2> QED
    BY <1>6, <2>1, <2>2, <2>3 DEF TypeOK, SetCredentials, RestoreCached, server, process
<1>7. ASSUME NEW p \in Proc, FetchMetadata(p) PROVE TypeOK'
  BY <1>7 DEF TypeOK, FetchMetadata, Goto, server, process
<1>8. ASSUME NEW p \in Proc, Refresh(p) \/ SessionRefresh(p) PROVE TypeOK'
  BY <1>8, TokenRefreshTypes DEF Refresh, SessionRefresh
<1>9. ASSUME NEW p \in Proc, PersistRefresh(p) \/ PersistCode(p) \/ PersistSession(p)
      PROVE  TypeOK'
  BY <1>9, PersistTypes DEF PersistRefresh, PersistCode, PersistSession
<1>10. ASSUME NEW p \in Proc, Exchange(p) PROVE TypeOK'
  <2>1. pc' \in [Proc -> AcquirePc \cup OutcomePc \cup {"idle", "persist_session"}]
    BY <1>10 DEF TypeOK, Exchange, Goto
  <2>2. CASE UNCHANGED <<server, minted>>
    BY <1>10, <2>1, <2>2 DEF TypeOK, Exchange, server
  <2>3. CASE Issue(p) /\ refreshable' = refreshable \cup {issued + 1}
                     /\ minted' = [minted EXCEPT ![p] = issued + 1]
    <3>1. refreshable' \subseteq 1 .. issued'
      BY <2>3 DEF Issue, TypeOK
    <3>2. minted' \in [Proc -> Grant \cup {0}]
      BY <2>3, IssueTypes DEF TypeOK
    <3> QED
      BY <1>10, <2>1, <2>3, <3>1, <3>2, IssueTypes DEF TypeOK, Exchange
  <2> QED
    BY <1>10, <2>2, <2>3 DEF Exchange
<1>11. ASSUME NEW p \in Proc, Exit(p) PROVE TypeOK'
  BY <1>11, AuthAssumption DEF TypeOK, Exit, Goto, server, Absent, Stored, Time
<1>12. CASE Tick
  BY <1>12, AuthAssumption DEF TypeOK, Tick, server, process, Time
<1>13. CASE Revoke
  BY <1>13 DEF TypeOK, Revoke, process
<1>14. CASE UNCHANGED vars
  BY <1>14 DEF TypeOK, vars, server, process
<1>15. ASSUME NEW p \in Proc, Interactive(p) PROVE TypeOK'
  <2>1. pc' \in [Proc -> AcquirePc \cup OutcomePc \cup {"idle", "persist_session"}]
    BY <1>15, InteractiveMoves DEF TypeOK, Goto
  <2> QED
    BY <1>15, <2>1, InteractiveMoves DEF TypeOK
<1> QED
  BY <1>1, <1>2, <1>3, <1>4, <1>5, <1>6, <1>7, <1>8, <1>9, <1>10, <1>11, <1>12, <1>13, <1>14,
     <1>15 DEF Next, Acquire, Interactive

\* Every value the launches, the sessions, the server and the store pass
\* around has its type, for all processes and all faults.
THEOREM TypeCorrect == Spec => []TypeOK
  BY TypeInit, TypeStep, PTL DEF Spec

-----------------------------------------------------------------------------
(* The time of receipt.  TimeInv adds to StoredTimeGenuine what is true of *)
(* the copies of a credential that are on their way to the store: the one  *)
(* a launch has loaded and not yet written back, and the token response    *)
(* about to be recorded.                                                   *)

TimeFaults == Faults \subseteq {"delete", "network", "revoke"}

StoreHolds == store # Absent => store.grant \in 1 .. issued

CachedHolds ==
  \A p \in Proc : pc[p] \in {"assess", "set_credentials", "fetch_metadata", "restore"}
    => cached[p].grant \in 1 .. issued /\ cached[p].received = issuedAt[cached[p].grant]

MintedHolds ==
  \A p \in Proc : pc[p] \in PersistPc
    => minted[p] \in 1 .. issued /\ issuedAt[minted[p]] = now

TimeInv == TypeOK /\ StoreHolds /\ CachedHolds /\ MintedHolds /\ StoredTimeGenuine

LEMMA TimeInit == Init => TimeInv
  BY TypeInit DEF Init, TimeInv, StoreHolds, CachedHolds, MintedHolds, StoredTimeGenuine, PersistPc

\* A token response: the grants issued before it keep their time.
LEMMA RefreshKeepsTime ==
  ASSUME SingleProcess, TimeInv, TypeOK', NEW p \in Proc, pc[p] \in {"refresh", "running"},
         NEW granted \in PersistPc, NEW refused \in {"wipe", "running"},
         TokenRefresh(p, granted, refused), UNCHANGED <<now, store, opts, cached, stale>>
  PROVE  TimeInv'
<1> USE DEF TimeInv, TypeOK, StoreHolds, CachedHolds, MintedHolds, StoredTimeGenuine,
            SingleProcess, Goto, PersistPc, server
<1>1. CASE UNCHANGED <<server, minted>> /\ Goto(p, refused)
  BY <1>1
<1>2. CASE /\ Issue(p)
           /\ \/ minted' = [minted EXCEPT ![p] = issued + 1] /\ Goto(p, granted)
              \/ UNCHANGED minted /\ Goto(p, refused)
  BY <1>2, IssueTypes, AuthAssumption DEF Issue, Grant
<1> QED
  BY <1>1, <1>2 DEF TokenRefresh

LEMMA TimeStep ==
  ASSUME SingleProcess, TimeFaults
  PROVE  TimeInv /\ [Next]_vars => TimeInv'
<1> SUFFICES ASSUME TimeInv, [Next]_vars PROVE TimeInv'
  OBVIOUS
<1>0. TypeOK'
  BY TypeStep DEF TimeInv
<1> USE <1>0 DEF TimeInv, StoreHolds, CachedHolds, MintedHolds, StoredTimeGenuine,
                 SingleProcess, PersistPc, server, process, At, Goto
<1>1. ASSUME NEW p \in Proc, Launch(p) PROVE TimeInv'
  BY <1>1 DEF TypeOK, Launch
<1>2. ASSUME NEW p \in Proc, ClearCache(p) \/ Wipe(p) PROVE TimeInv'
  BY <1>2 DEF TypeOK, ClearCache, Wipe
<1>3. ASSUME NEW p \in Proc, Discover(p) PROVE TimeInv'
  BY <1>3 DEF TypeOK, Discover
<1>4. ASSUME NEW p \in Proc, LoadCached(p) PROVE TimeInv'
  BY <1>4 DEF TypeOK, LoadCached
<1>5. ASSUME NEW p \in Proc, Assess(p) PROVE TimeInv'
  BY <1>5 DEF TypeOK, Assess
<1>6. ASSUME NEW p \in Proc, SetCredentials(p) PROVE TimeInv'
  BY <1>6 DEF TypeOK, SetCredentials
<1>7. ASSUME NEW p \in Proc, RestoreCached(p) PROVE TimeInv'
  BY <1>7 DEF TypeOK, RestoreCached, TimeFaults, Faulty
<1>8. ASSUME NEW p \in Proc, FetchMetadata(p) PROVE TimeInv'
  BY <1>8 DEF TypeOK, FetchMetadata, TimeFaults, Faulty
<1>9. ASSUME NEW p \in Proc, Interactive(p) PROVE TimeInv'
  BY <1>9, InteractiveMoves DEF TypeOK
<1>10. ASSUME NEW p \in Proc, Refresh(p) \/ SessionRefresh(p) PROVE TimeInv'
  BY <1>10, RefreshKeepsTime DEF Refresh, SessionRefresh
<1>11. ASSUME NEW p \in Proc, PersistRefresh(p) \/ PersistCode(p) \/ PersistSession(p)
       PROVE  TimeInv'
  BY <1>11 DEF TypeOK, PersistRefresh, PersistCode, PersistSession, Persist, TimeFaults, Faulty
<1>12. ASSUME NEW p \in Proc, Exchange(p) PROVE TimeInv'
  BY <1>12, IssueTypes, AuthAssumption DEF TypeOK, Exchange, Issue, Grant
<1>13. ASSUME NEW p \in Proc, Exit(p) PROVE TimeInv'
  BY <1>13 DEF TypeOK, Exit, TimeFaults, Faulty, OutcomePc
<1>14. CASE Tick
  BY <1>14 DEF TypeOK, Tick
<1>15. CASE Revoke
  BY <1>15 DEF TypeOK, Revoke
<1>16. CASE UNCHANGED vars
  BY <1>16 DEF TypeOK, vars
<1> QED
  BY <1>1, <1>2, <1>3, <1>4, <1>5, <1>6, <1>7, <1>8, <1>9, <1>10, <1>11, <1>12, <1>13, <1>14,
     <1>15, <1>16 DEF Next, Acquire, Interactive

LEMMA TimeInvariant ==
  ASSUME SingleProcess, TimeFaults
  PROVE  Spec => []TimeInv
<1>1. TimeInv /\ [Next]_vars => TimeInv'
  BY TimeStep
<1> QED
  BY <1>1, TimeInit, PTL DEF Spec

\* Launch after launch, whatever the refreshes and the wipes do: the time of
\* receipt on disk is that of the token on disk, save while a launch is
\* between set_credentials and its write-back.
THEOREM TimeIsGenuine ==
  ASSUME SingleProcess, TimeFaults
  PROVE  Spec => []StoredTimeGenuine
<1>1. TimeInv => StoredTimeGenuine
  BY DEF TimeInv
<1> QED
  BY <1>1, TimeInvariant, PTL

\* cached_access_token_is_stale never takes an expired token for a fresh one.
THEOREM FreshnessIsHonest ==
  ASSUME SingleProcess, TimeFaults
  PROVE  Spec => FreshMeansUnexpired
<1>1. ASSUME TimeInv, [Next]_vars, NEW p \in Proc,
             pc[p] = "assess", pc'[p] = "set_credentials", ~stale'[p]
      PROVE  ~Expired(cached[p].grant)
  <2> USE DEF TimeInv, TypeOK, SingleProcess, At, Goto
  <2>1. ASSUME Assess(p) PROVE ~Expired(cached[p].grant)
    <3>1. ~Stale(cached[p]) /\ cached[p].received = issuedAt[cached[p].grant]
      BY <1>1, <2>1 DEF Assess, CachedHolds
    <3>2. cached[p].received \in Nat /\ now \in Nat
      BY <1>1, AuthAssumption DEF Stored, Time
    <3> QED
      BY <3>1, <3>2, AuthAssumption DEF Stale, Minus, Expired
  <2>2. Assess(p)
    <3>1. \A q \in Proc : ~Interactive(q)
      BY <1>1, InteractiveMoves
    <3> QED
      BY <1>1, <3>1
         DEF Next, Acquire, Interactive, Launch, ClearCache, Discover, LoadCached,
             SetCredentials, FetchMetadata, RestoreCached, Refresh, PersistRefresh, Wipe,
             Exchange, PersistCode, SessionRefresh, PersistSession, Exit, Tick, Revoke, vars,
             server, process
  <2> QED
    BY <2>1, <2>2
<1>2. TimeInv /\ [Next]_vars
       => [\A p \in Proc : pc[p] = "assess" /\ pc'[p] = "set_credentials" /\ ~stale'[p]
             => ~Expired(cached[p].grant)]_vars
  BY <1>1
<1> QED
  BY <1>2, TimeInvariant, PTL DEF Spec, FreshMeansUnexpired

-----------------------------------------------------------------------------
(* The refresh token on disk.                                              *)

LiveFaults == Faults \subseteq {"delete", "metadata"}

CachedLive ==
  \A p \in Proc : pc[p] \in {"assess", "set_credentials", "fetch_metadata", "restore"}
    => cached[p].grant \in refreshable

MintedLive == \A p \in Proc : pc[p] \in PersistPc => minted[p] \in refreshable

LiveInv == TypeOK /\ CachedLive /\ MintedLive /\ StoreHoldsLiveGrant

LEMMA LiveInit == Init => LiveInv
  BY TypeInit DEF Init, LiveInv, CachedLive, MintedLive, StoreHoldsLiveGrant, PersistPc

LEMMA LiveStep ==
  ASSUME SingleProcess, LiveFaults
  PROVE  LiveInv /\ [Next]_vars => LiveInv'
<1> SUFFICES ASSUME LiveInv, [Next]_vars PROVE LiveInv'
  OBVIOUS
<1>0. TypeOK'
  BY TypeStep DEF LiveInv
<1> USE <1>0 DEF LiveInv, CachedLive, MintedLive, StoreHoldsLiveGrant,
                 SingleProcess, PersistPc, server, process, At, Goto
<1>1. ASSUME NEW p \in Proc, Launch(p) PROVE LiveInv'
  BY <1>1 DEF TypeOK, Launch
<1>2. ASSUME NEW p \in Proc, ClearCache(p) \/ Wipe(p) PROVE LiveInv'
  BY <1>2 DEF TypeOK, ClearCache, Wipe
<1>3. ASSUME NEW p \in Proc, Discover(p) PROVE LiveInv'
  BY <1>3 DEF TypeOK, Discover
<1>4. ASSUME NEW p \in Proc, LoadCached(p) PROVE LiveInv'
  BY <1>4 DEF TypeOK, LoadCached
<1>5. ASSUME NEW p \in Proc, Assess(p) PROVE LiveInv'
  BY <1>5 DEF TypeOK, Assess
<1>6. ASSUME NEW p \in Proc, SetCredentials(p) \/ RestoreCached(p) PROVE LiveInv'
  BY <1>6 DEF TypeOK, SetCredentials, RestoreCached
<1>7. ASSUME NEW p \in Proc, FetchMetadata(p) PROVE LiveInv'
  BY <1>7 DEF TypeOK, FetchMetadata
<1>8. ASSUME NEW p \in Proc, Refresh(p) \/ SessionRefresh(p) PROVE LiveInv'
  BY <1>8, AuthAssumption
     DEF TypeOK, Refresh, SessionRefresh, TokenRefresh, Issue, LiveFaults, Faulty
<1>9. ASSUME NEW p \in Proc, PersistRefresh(p) \/ PersistCode(p) \/ PersistSession(p)
      PROVE  LiveInv'
  BY <1>9 DEF TypeOK, PersistRefresh, PersistCode, PersistSession, Persist, LiveFaults, Faulty
<1>10. ASSUME NEW p \in Proc, Exchange(p) PROVE LiveInv'
  BY <1>10, AuthAssumption DEF TypeOK, Exchange, Issue
<1>11. ASSUME NEW p \in Proc, Exit(p) PROVE LiveInv'
  BY <1>11 DEF TypeOK, Exit, LiveFaults, Faulty, OutcomePc
<1>12. CASE Tick
  BY <1>12 DEF TypeOK, Tick
<1>13. CASE Revoke
  BY <1>13 DEF Revoke, LiveFaults, Faulty
<1>14. CASE UNCHANGED vars
  BY <1>14 DEF TypeOK, vars
<1>15. ASSUME NEW p \in Proc, Interactive(p) PROVE LiveInv'
  BY <1>15, InteractiveMoves DEF TypeOK
<1> QED
  BY <1>1, <1>2, <1>3, <1>4, <1>5, <1>6, <1>7, <1>8, <1>9, <1>10, <1>11, <1>12, <1>13, <1>14,
     <1>15 DEF Next, Acquire, Interactive

\* Whether or not the server rotates refresh tokens, the one on disk is one
\* it still honours, however many refreshes launches and sessions have made.
THEOREM RefreshTokenIsLive ==
  ASSUME SingleProcess, LiveFaults
  PROVE  Spec => []StoreHoldsLiveGrant
<1>1. LiveInv /\ [Next]_vars => LiveInv'
  BY LiveStep
<1>2. LiveInv => StoreHoldsLiveGrant
  BY DEF LiveInv
<1> QED
  BY <1>1, <1>2, LiveInit, PTL DEF Spec

-----------------------------------------------------------------------------
(* A server that does not rotate.  What was honoured stays so, and so it   *)
(* does not matter who overwrites what.                                    *)

StoreLive == store = Absent \/ store.grant \in refreshable

SharedInv == TypeOK /\ CachedLive /\ MintedLive /\ StoreLive

LEMMA SharedStep ==
  ASSUME ~Rotates, "revoke" \notin Faults
  PROVE  SharedInv /\ [Next]_vars => SharedInv'
<1> SUFFICES ASSUME SharedInv, [Next]_vars PROVE SharedInv'
  OBVIOUS
<1>0. TypeOK'
  BY TypeStep DEF SharedInv
<1> USE <1>0 DEF SharedInv, CachedLive, MintedLive, StoreLive,
                 PersistPc, server, process, At, Goto
<1>1. ASSUME NEW p \in Proc, Launch(p) PROVE SharedInv'
  BY <1>1 DEF TypeOK, Launch
<1>2. ASSUME NEW p \in Proc, ClearCache(p) \/ Wipe(p) PROVE SharedInv'
  BY <1>2 DEF TypeOK, ClearCache, Wipe
<1>3. ASSUME NEW p \in Proc, Discover(p) PROVE SharedInv'
  BY <1>3 DEF TypeOK, Discover
<1>4. ASSUME NEW p \in Proc, LoadCached(p) PROVE SharedInv'
  BY <1>4 DEF TypeOK, LoadCached
<1>5. ASSUME NEW p \in Proc, Assess(p) PROVE SharedInv'
  BY <1>5 DEF TypeOK, Assess
<1>6. ASSUME NEW p \in Proc, SetCredentials(p) \/ RestoreCached(p) PROVE SharedInv'
  BY <1>6 DEF TypeOK, SetCredentials, RestoreCached
<1>7. ASSUME NEW p \in Proc, FetchMetadata(p) PROVE SharedInv'
  BY <1>7 DEF TypeOK, FetchMetadata
<1>8. ASSUME NEW p \in Proc, Refresh(p) \/ SessionRefresh(p) PROVE SharedInv'
  BY <1>8, AuthAssumption DEF TypeOK, Refresh, SessionRefresh, TokenRefresh, Issue
<1>9. ASSUME NEW p \in Proc, PersistRefresh(p) \/ PersistCode(p) \/ PersistSession(p)
      PROVE  SharedInv'
  BY <1>9 DEF TypeOK, PersistRefresh, PersistCode, PersistSession, Persist
<1>10. ASSUME NEW p \in Proc, Exchange(p) PROVE SharedInv'
  BY <1>10, AuthAssumption DEF TypeOK, Exchange, Issue
<1>11. ASSUME NEW p \in Proc, Exit(p) PROVE SharedInv'
  BY <1>11 DEF TypeOK, Exit, OutcomePc
<1>12. CASE Tick
  BY <1>12 DEF TypeOK, Tick
<1>13. CASE Revoke
  BY <1>13 DEF Revoke, Faulty
<1>14. CASE UNCHANGED vars
  BY <1>14 DEF TypeOK, vars
<1>15. ASSUME NEW p \in Proc, Interactive(p) PROVE SharedInv'
  BY <1>15, InteractiveMoves DEF TypeOK
<1> QED
  BY <1>1, <1>2, <1>3, <1>4, <1>5, <1>6, <1>7, <1>8, <1>9, <1>10, <1>11, <1>12, <1>13, <1>14,
     <1>15 DEF Next, Acquire, Interactive

\* What AuthRotation finds needs rotation: of a server that leaves used
\* refresh tokens valid, any number of overlapping launches and sessions keep
\* a live one on disk, whatever is lost, fails or crashes.
THEOREM WithoutRotationTokensLive ==
  ASSUME ~Rotates, "revoke" \notin Faults
  PROVE  Spec => []StoreHoldsLiveGrant
<1>1. Init => SharedInv
  BY TypeInit DEF Init, SharedInv, CachedLive, MintedLive, StoreLive, PersistPc
<1>2. SharedInv /\ [Next]_vars => SharedInv'
  BY SharedStep
<1>3. SharedInv => StoreHoldsLiveGrant
  BY DEF SharedInv, StoreLive, StoreHoldsLiveGrant
<1> QED
  BY <1>1, <1>2, <1>3, PTL DEF Spec

-----------------------------------------------------------------------------
(* --reset-auth.                                                           *)

ResetHolds ==
  \A p \in Proc : "reset_auth" \in opts[p] /\ pc[p] \in AcquirePc
    => /\ pc[p] \in {"clear", "discover", "load", "start_flow", "client_id", "prepare",
                     "browser", "join_answered", "join_failed", "exchange", "persist_code"}
       /\ pc[p] \in {"discover", "load"} => store = Absent

IdleHolds == \A p \in Proc : pc[p] = "idle" => opts[p] = {}

ResetInv == TypeOK /\ ResetHolds /\ IdleHolds

LEMMA ResetInit == Init => ResetInv
  BY TypeInit DEF Init, ResetInv, ResetHolds, IdleHolds

LEMMA ResetStep ==
  ASSUME SingleProcess, "delete" \notin Faults
  PROVE  ResetInv /\ [Next]_vars => ResetInv'
<1> SUFFICES ASSUME ResetInv, [Next]_vars PROVE ResetInv'
  OBVIOUS
<1>0. TypeOK'
  BY TypeStep DEF ResetInv
<1> USE <1>0 DEF ResetInv, ResetHolds, IdleHolds, AcquirePc, SingleProcess, server, process,
                 At, Goto
<1>1. ASSUME NEW p \in Proc, Launch(p) PROVE ResetInv'
  BY <1>1 DEF TypeOK, Launch
<1>2. ASSUME NEW p \in Proc, ClearCache(p) \/ Wipe(p) PROVE ResetInv'
  BY <1>2 DEF TypeOK, ClearCache, Wipe, Faulty
<1>3. ASSUME NEW p \in Proc, Discover(p) PROVE ResetInv'
  BY <1>3 DEF TypeOK, Discover
<1>4. ASSUME NEW p \in Proc, LoadCached(p) PROVE ResetInv'
  BY <1>4 DEF TypeOK, LoadCached
<1>5. ASSUME NEW p \in Proc, Assess(p) PROVE ResetInv'
  BY <1>5 DEF TypeOK, Assess
<1>6. ASSUME NEW p \in Proc, SetCredentials(p) \/ RestoreCached(p) PROVE ResetInv'
  BY <1>6 DEF TypeOK, SetCredentials, RestoreCached
<1>7. ASSUME NEW p \in Proc, FetchMetadata(p) PROVE ResetInv'
  BY <1>7 DEF TypeOK, FetchMetadata
<1>8. ASSUME NEW p \in Proc, Refresh(p) \/ SessionRefresh(p) PROVE ResetInv'
  BY <1>8 DEF TypeOK, Refresh, SessionRefresh, TokenRefresh, Issue
<1>9. ASSUME NEW p \in Proc, PersistRefresh(p) \/ PersistCode(p) \/ PersistSession(p)
      PROVE  ResetInv'
  BY <1>9 DEF TypeOK, PersistRefresh, PersistCode, PersistSession, Persist
<1>10. ASSUME NEW p \in Proc, Exchange(p) PROVE ResetInv'
  BY <1>10 DEF TypeOK, Exchange, Issue
<1>11. ASSUME NEW p \in Proc, Exit(p) PROVE ResetInv'
  BY <1>11 DEF TypeOK, Exit
<1>12. CASE Tick
  BY <1>12 DEF TypeOK, Tick
<1>13. CASE Revoke
  BY <1>13 DEF TypeOK, Revoke
<1>14. CASE UNCHANGED vars
  BY <1>14 DEF TypeOK, vars
<1>15. ASSUME NEW p \in Proc, Interactive(p) PROVE ResetInv'
  BY <1>15, InteractiveMoves DEF TypeOK
<1> QED
  BY <1>1, <1>2, <1>3, <1>4, <1>5, <1>6, <1>7, <1>8, <1>9, <1>10, <1>11, <1>12, <1>13, <1>14,
     <1>15 DEF Next, Acquire, Interactive

\* A launch with --reset-auth becomes a running session only by recording the
\* token response of a code exchange of its own.
THEOREM ResetStartsOver ==
  ASSUME SingleProcess, "delete" \notin Faults
  PROVE  Spec => ResetForcesFreshFlow
<1>1. ASSUME ResetInv, [Next]_vars, NEW p \in Proc,
             "reset_auth" \in opts[p], pc[p] \in AcquirePc, pc'[p] = "running"
      PROVE  pc[p] = "persist_code"
  <2>1. pc[p] \in {"clear", "discover", "load", "start_flow", "client_id", "prepare",
                  "browser", "join_answered", "join_failed", "exchange", "persist_code"}
    BY <1>1 DEF ResetInv, ResetHolds
  <2>2. \A q \in Proc : ~Interactive(q)
    BY <1>1, InteractiveMoves DEF ResetInv, TypeOK, SingleProcess, Goto
  <2> QED
    BY <1>1, <2>1, <2>2
       DEF ResetInv, TypeOK, SingleProcess, At, Goto, Next, Acquire, Interactive, Launch, ClearCache, Discover,
           LoadCached, Assess, SetCredentials, FetchMetadata, RestoreCached, Refresh,
           PersistRefresh, Wipe, Exchange, PersistCode,
           SessionRefresh, PersistSession, Exit, Tick, Revoke, vars, server, process
<1>2. ResetInv /\ [Next]_vars
       => [\A p \in Proc : "reset_auth" \in opts[p] /\ pc[p] \in AcquirePc /\ pc'[p] = "running"
             => pc[p] = "persist_code"]_vars
  BY <1>1
<1>3. ResetInv /\ [Next]_vars => ResetInv'
  BY ResetStep
<1> QED
  BY <1>2, <1>3, ResetInit, PTL DEF Spec, ResetForcesFreshFlow
=============================================================================
