------------------------- MODULE ReverseTrafficProofs -------------------------
(***************************************************************************)
(* For every set of capabilities and calls, and any number of asks and     *)
(* changes, whoever goes away and in whatever order rmcp's tasks run:      *)
(*   - ReverseTraffic is type correct;                                     *)
(*   - the remote sees one initialized, before any call;                   *)
(*   - no call comes before the session is initialized;                    *)
(*   - the remote does not keep an outdated list of roots, unless telling  *)
(*     it of the change failed;                                            *)
(*   - no change the remote announces is lost or heard twice.              *)
(***************************************************************************)
EXTENDS ReverseTraffic, FiniteSetTheorems, TLAPS

Live == {"proxy", "host", "answered"}

AskRecord == [at : {"none", "proxy", "host", "answered", "over"}, kind : Kind \cup {"none"},
              serves : SUBSET Call, number : Ask \cup {None}, roots : (0 .. MaxChange) \cup {None}]

-----------------------------------------------------------------------------
(* The inductive invariant.                                                *)

\* Asks not yet relayed: what is left of asks for new numbers.
Waiting == {a \in Ask : ask[a].at = "proxy"}

CountHolds ==
  /\ toolNotes \in Nat /\ heard \in Nat
  /\ relayed + Cardinality(Waiting) <= asks

\* Where initialize has got to: there is one connection, the cell is filled
\* after its handshake, and the client has its result after that.
HandshakeHolds ==
  /\ Running /\ host = "starting" => service = "none"
  /\ service = "none" => hello = 0 /\ offered = {} /\ known = None
  /\ service = "up" => hello = 1
  /\ cell => hello = 1
  /\ host \in {"ready", "settled"} => cell
  /\ \A c \in Call : call[c] = "received" => cell

\* What is under way was offered before it was asked for; before there is a
\* connection nothing is.
AsksHold == \A a \in Ask : ask[a].at \in Live => ask[a].kind \in offered

\* A list of roots on its way to the remote is the client's, or a
\* notification that it changed is on its way as well, and will find a peer.
RootsHold ==
  /\ rootNotes > 0 => cell
  /\ \A a \in Ask \ withdrawn :
       service = "up" /\ told = "no" /\ ask[a].at = "answered" /\ ask[a].kind = "roots"
         => ask[a].roots = roots \/ rootNotes > 0

\* Nothing is announced to a client that cannot listen yet.
ChangesHold == Running /\ host = "starting" => tools = 0

ReverseInv ==
  /\ TypeOK /\ CountHolds
  /\ HandshakeHolds /\ InitializedOnceAndFirst /\ NoCallIsRefused
  /\ AsksHold
  /\ RootsHold /\ RootsNotStale
  /\ ChangesHold /\ NoChangeIsLost

-----------------------------------------------------------------------------
LEMMA WaitingIsFinite ==
  /\ IsFiniteSet(Waiting) /\ Cardinality(Waiting) \in Nat
  /\ IsFiniteSet(Waiting') /\ Cardinality(Waiting') \in Nat
<1>1. IsFiniteSet(Ask)
  BY FS_Interval, ReverseAssumption DEF Ask
<1>2. Waiting \subseteq Ask /\ Waiting' \subseteq Ask
  BY DEF Waiting
<1> QED
  BY <1>1, <1>2, FS_Subset, FS_CardinalityType

LEMMA ReverseInit == Init => ReverseInv
<1> SUFFICES ASSUME Init PROVE ReverseInv
  OBVIOUS
<1> USE ReverseAssumption DEF Init
<1>1. Waiting = {} /\ Cardinality(Waiting) = 0
  BY FS_EmptySet DEF Waiting, NoAsk
<1>2. TypeOK
  <2>1. ask \in [Ask -> AskRecord]
    BY DEF NoAsk, None, AskRecord
  <2>2. /\ asks \in 0 .. MaxAsk + 1 /\ relayed \in 0 .. asks /\ hello \in 0 .. 1
        /\ roots \in 0 .. MaxChange /\ tools \in 0 .. MaxChange
        /\ rootNotes \in 0 .. roots /\ toolNotes + heard \in 0 .. tools
    OBVIOUS
  <2>3. call \in [Call -> {"idle", "received", "remote", "done", "failed", "refused"}]
    OBVIOUS
  <2>4. /\ process \in {"running", "exited"}
        /\ host \in {"starting", "initializing", "ready", "settled", "refused", "closed"}
        /\ service \in {"none", "up", "ended"} /\ cell \in BOOLEAN /\ told \in {"no", "yes", "failed"}
        /\ known \in (0 .. MaxChange) \cup {None}
        /\ caps \subseteq Kind /\ offered \subseteq Kind
        /\ withdrawn \subseteq Ask /\ stops \subseteq Ask
    OBVIOUS
  <2> QED
    BY <2>1, <2>2, <2>3, <2>4, Zenon DEF TypeOK, AskRecord
<1> QED
  BY <1>1, <1>2
     DEF ReverseInv, CountHolds, HandshakeHolds, InitializedOnceAndFirst, NoCallIsRefused,
         AsksHold, RootsHold, RootsNotStale, ChangesHold, NoChangeIsLost, NoAsk, None, Live

-----------------------------------------------------------------------------
(* Types and counts.                                                       *)

AskTyped == ask \in [Ask -> AskRecord]

\* An action that does not add to the asks that wait, and relays none.
LEMMA NoMoreWaiting ==
  ASSUME TypeOK, CountHolds, Waiting' \subseteq Waiting,
         UNCHANGED <<asks, relayed>>
  PROVE  relayed' + Cardinality(Waiting') <= asks'
BY WaitingIsFinite, FS_Subset DEF TypeOK, CountHolds

LEMMA CountStep == TypeOK /\ CountHolds /\ HandshakeHolds /\ [Next]_vars => TypeOK' /\ CountHolds'
<1> SUFFICES ASSUME TypeOK, CountHolds, HandshakeHolds, [Next]_vars PROVE TypeOK' /\ CountHolds'
  OBVIOUS
<1> USE ReverseAssumption
<1>a. ask \in [Ask -> AskRecord]
  BY DEF TypeOK, AskRecord
<1>b. ask' = ask => Waiting' = Waiting
  BY DEF Waiting
<1>c. Cardinality(Waiting) \in Nat
  BY WaitingIsFinite
<1> USE DEF link, asking, news
<1>1. CASE Initialize \/ Close \/ Handshake
  <2>1. CountHolds'
    BY <1>1, <1>b DEF Initialize, Close, Handshake, Connect, ConnectFails, FillCell,
       InitializeReturns, OnInitialized, CountHolds
  <2>2. hello' \in 0 .. 1 /\ caps' \subseteq Kind /\ offered' \subseteq Kind
    BY <1>1 DEF Initialize, Close, Handshake, Connect, ConnectFails, FillCell,
       InitializeReturns, OnInitialized, TypeOK, ProxiedInfo, HandshakeHolds
  <2> QED
    BY <1>1, <2>1, <2>2 DEF Initialize, Close, Handshake, Connect, ConnectFails, FillCell,
       InitializeReturns, OnInitialized, TypeOK
<1>2. CASE ChangeRoots \/ RemoteChangesTools \/ OnRootsListChanged \/ OnToolListChanged
  BY <1>2, <1>b DEF ChangeRoots, RemoteChangesTools, OnRootsListChanged, OnToolListChanged,
     TypeOK, CountHolds
<1>3. ASSUME NEW c \in Call, SendCall(c) \/ CallTask(c) \/ RemoteAnswers(c)
      PROVE  TypeOK' /\ CountHolds'
  BY <1>3, <1>b DEF SendCall, CallTask, ForwardCall, Forwarded, CallFails, RemoteAnswers, MoveCall,
     TypeOK, CountHolds
<1>4. CASE ServiceEnds
  BY <1>4, <1>b DEF ServiceEnds, TypeOK, CountHolds
<1>5. ASSUME NEW a \in Ask, HostAnswers(a) PROVE TypeOK' /\ CountHolds'
  <2>1. ask' \in [Ask -> AskRecord]
    <3>1. [ask[a] EXCEPT !.at = "answered", !.roots = IF ask[a].kind = "roots" THEN roots ELSE None]
            \in AskRecord
      BY <1>a DEF AskRecord, TypeOK
    <3> QED
      BY <1>5, <1>a, <3>1 DEF HostAnswers
  <2>2. Waiting' \subseteq Waiting
    BY <1>5, <1>a DEF HostAnswers, Waiting, AskRecord
  <2> QED
    BY <1>5, <2>1, <2>2, NoMoreWaiting DEF HostAnswers, TypeOK, CountHolds, AskRecord
<1>6. ASSUME NEW kind \in Kind, NEW serves \in {{}} \cup {{c} : c \in Call},
             RemoteAsks(kind, serves)
      PROVE  TypeOK' /\ CountHolds'
  <2>0. asks \in Ask /\ asks' = asks + 1 /\ asks' \in 0 .. MaxAsk + 1
    BY <1>6 DEF RemoteAsks, Ask
  <2>1. ask' \in [Ask -> AskRecord]
    <3>1. [ask[asks] EXCEPT !.at = "proxy", !.kind = kind, !.serves = serves] \in AskRecord
      BY <1>a, <2>0 DEF AskRecord
    <3> QED
      BY <1>6, <1>a, <2>0, <3>1 DEF RemoteAsks
  <2>2. Waiting' = Waiting \cup {asks}
    BY <1>6, <1>a, <2>0 DEF RemoteAsks, Waiting, AskRecord
  <2>3. Cardinality(Waiting') <= Cardinality(Waiting) + 1
    BY <1>c, <2>2, WaitingIsFinite, FS_AddElement
  <2>4. CountHolds'
    BY <1>6, <1>c, <2>0, <2>3, WaitingIsFinite DEF RemoteAsks, CountHolds, TypeOK
  <2>5. known' \in (0 .. MaxChange) \cup {None} /\ told' \in {"no", "yes", "failed"}
    BY <1>6 DEF RemoteAsks, TypeOK
  <2> QED
    BY <1>6, <2>0, <2>1, <2>4, <2>5 DEF RemoteAsks, TypeOK, AskRecord
<1>7. ASSUME NEW a \in Ask, RemoteCancels(a) PROVE TypeOK' /\ CountHolds'
  BY <1>7, <1>b DEF RemoteCancels, TypeOK, CountHolds
<1>8. ASSUME NEW a \in Ask, RelayAsk(a) PROVE TypeOK' /\ CountHolds'
  <2>0. Waiting' = Waiting \ {a} /\ a \in Waiting
    BY <1>8, <1>a DEF RelayAsk, EndAsk, NoAsk, Waiting, AskRecord
  <2>1. Cardinality(Waiting') = Cardinality(Waiting) - 1
    BY <2>0, WaitingIsFinite, FS_RemoveElement
  <2>2. relayed + 1 + Cardinality(Waiting') <= asks /\ relayed + 1 \in 0 .. asks /\ relayed \in Ask
    BY <1>c, <2>1, WaitingIsFinite DEF CountHolds, TypeOK, Ask
  <2>3. ask' \in [Ask -> AskRecord]
    BY <1>8, <1>a, <2>2 DEF RelayAsk, EndAsk, NoAsk, AskRecord
  <2>4. withdrawn' \subseteq Ask
    BY <1>8 DEF RelayAsk, EndAsk, TypeOK
  <2>5. relayed' \in 0 .. asks /\ relayed' + Cardinality(Waiting') <= asks
    BY <1>8, <2>2, WaitingIsFinite DEF RelayAsk, TypeOK
  <2> QED
    BY <1>8, <2>3, <2>4, <2>5 DEF RelayAsk, TypeOK, CountHolds, AskRecord
<1>9. ASSUME NEW a \in Ask, ReturnAnswer(a) \/ AskFails(a) PROVE TypeOK' /\ CountHolds'
  <2>1. ask' \in [Ask -> AskRecord] /\ withdrawn' \subseteq Ask
    BY <1>9, <1>a DEF ReturnAnswer, AskFails, EndAsk, NoAsk, AskRecord, TypeOK
  <2>2. Waiting' \subseteq Waiting
    BY <1>9, <1>a DEF ReturnAnswer, AskFails, EndAsk, NoAsk, Waiting, AskRecord
  <2>3. known' \in (0 .. MaxChange) \cup {None}
    BY <1>9, <1>a DEF ReturnAnswer, AskFails, AskRecord, TypeOK
  <2> QED
    BY <1>9, <2>1, <2>2, <2>3, NoMoreWaiting
       DEF ReturnAnswer, AskFails, TypeOK, CountHolds, AskRecord
<1>10. ASSUME NEW n \in Ask, RelayStop(n) PROVE TypeOK' /\ CountHolds'
  <2>1. ask' \in [Ask -> AskRecord]
    BY <1>10, <1>a DEF RelayStop, NoAsk, AskRecord
  <2>2. Waiting' \subseteq Waiting
    BY <1>10, <1>a DEF RelayStop, NoAsk, Waiting, AskRecord
  <2>3. withdrawn' \subseteq Ask /\ stops' \subseteq Ask
    BY <1>10 DEF RelayStop, TypeOK
  <2> QED
    BY <1>10, <2>1, <2>2, <2>3, NoMoreWaiting DEF RelayStop, TypeOK, CountHolds, AskRecord
<1>11. CASE Exit
  <2>1. ask' \in [Ask -> AskRecord]
    BY <1>11 DEF Exit, NoAsk, AskRecord
  <2>2. Waiting' \subseteq Waiting
    BY <1>11 DEF Exit, NoAsk, Waiting
  <2>3. CountHolds'
    BY <1>11, <2>2, NoMoreWaiting DEF Exit, CountHolds
  <2>4. toolNotes' + heard' \in 0 .. tools' /\ rootNotes' \in 0 .. roots'
    BY <1>11 DEF Exit, TypeOK, CountHolds
  <2>5. call' \in [Call -> {"idle", "received", "remote", "done", "failed", "refused"}]
    BY <1>11 DEF Exit
  <2> QED
    BY <1>11, <2>1, <2>3, <2>4, <2>5 DEF Exit, TypeOK, AskRecord
<1>12. CASE UNCHANGED vars
  BY <1>12, <1>b DEF vars, TypeOK, CountHolds
<1> QED
  BY <1>1, <1>2, <1>3, <1>4, <1>5, <1>6, <1>7, <1>8, <1>9, <1>10, <1>11, <1>12
     DEF Next, Host, Remote, Proxy, NoteTask, AskTask, MainReturns, CtrlC

-----------------------------------------------------------------------------
(* The handshake.                                                          *)

LEMMA HandshakeStep ==
  ASSUME TypeOK, HandshakeHolds, InitializedOnceAndFirst, NoCallIsRefused, [Next]_vars
  PROVE  HandshakeHolds' /\ InitializedOnceAndFirst' /\ NoCallIsRefused'
<1> USE DEF HandshakeHolds, InitializedOnceAndFirst, NoCallIsRefused, link, asking, news, Running
<1>1. CASE Initialize \/ Close \/ Handshake
  BY <1>1 DEF Initialize, Close, Handshake, Connect, ConnectFails, FillCell, InitializeReturns,
     OnInitialized, TypeOK
<1>2. CASE ChangeRoots \/ RemoteChangesTools \/ OnRootsListChanged \/ OnToolListChanged
  BY <1>2 DEF ChangeRoots, RemoteChangesTools, OnRootsListChanged, OnToolListChanged
<1>3. ASSUME NEW c \in Call, SendCall(c) \/ CallTask(c) \/ RemoteAnswers(c)
      PROVE  HandshakeHolds' /\ InitializedOnceAndFirst' /\ NoCallIsRefused'
  BY <1>3 DEF SendCall, CallTask, ForwardCall, Forwarded, CallFails, RemoteAnswers, MoveCall, TypeOK
<1>4. CASE ServiceEnds \/ Exit
  BY <1>4 DEF ServiceEnds, Exit, Up
<1>5. ASSUME NEW a \in Ask, HostAnswers(a) \/ RemoteCancels(a) \/ RelayAsk(a) \/ ReturnAnswer(a)
                            \/ AskFails(a) \/ RelayStop(a)
      PROVE  HandshakeHolds' /\ InitializedOnceAndFirst' /\ NoCallIsRefused'
  BY <1>5 DEF HostAnswers, RemoteCancels, RelayAsk, ReturnAnswer, AskFails, RelayStop
<1>6. ASSUME NEW kind \in Kind, NEW serves \in {{}} \cup {{c} : c \in Call},
             RemoteAsks(kind, serves)
      PROVE  HandshakeHolds' /\ InitializedOnceAndFirst' /\ NoCallIsRefused'
  BY <1>6 DEF RemoteAsks, Up
<1>7. CASE UNCHANGED vars
  BY <1>7 DEF vars
<1> QED
  BY <1>1, <1>2, <1>3, <1>4, <1>5, <1>6, <1>7
     DEF Next, Host, Remote, Proxy, NoteTask, AskTask, MainReturns, CtrlC

-----------------------------------------------------------------------------
(* Asks.                                                                   *)

LEMMA AsksStep ==
  ASSUME TypeOK, HandshakeHolds, AsksHold, [Next]_vars
  PROVE  AsksHold'
<1>a. ask \in [Ask -> AskRecord]
  BY DEF TypeOK, AskRecord
<1> USE <1>a DEF AsksHold, AskRecord, NoAsk, Live, link, asking, news, Running
<1>1. CASE Initialize \/ Close \/ Handshake
  BY <1>1 DEF HandshakeHolds, Initialize, Close, Handshake, Connect, ConnectFails, FillCell,
     InitializeReturns, OnInitialized, ProxiedInfo
<1>2. CASE ChangeRoots \/ RemoteChangesTools \/ OnRootsListChanged \/ OnToolListChanged
  BY <1>2 DEF ChangeRoots, RemoteChangesTools, OnRootsListChanged, OnToolListChanged
<1>3. ASSUME NEW c \in Call, SendCall(c) \/ CallTask(c) \/ RemoteAnswers(c)
      PROVE  AsksHold'
  BY <1>3 DEF SendCall, CallTask, ForwardCall, CallFails, RemoteAnswers
<1>4. CASE ServiceEnds \/ Exit
  BY <1>4 DEF ServiceEnds, Exit
<1>5. ASSUME NEW a \in Ask, HostAnswers(a) PROVE AsksHold'
  BY <1>5 DEF HostAnswers
<1>6. ASSUME NEW a \in Ask, RemoteCancels(a) PROVE AsksHold'
  BY <1>6 DEF RemoteCancels
<1>7. ASSUME NEW a \in Ask, RelayAsk(a) PROVE AsksHold'
  BY <1>7 DEF RelayAsk, EndAsk
<1>8. ASSUME NEW a \in Ask, ReturnAnswer(a) \/ AskFails(a) PROVE AsksHold'
  BY <1>8 DEF ReturnAnswer, AskFails, EndAsk
<1>9. ASSUME NEW n \in Ask, RelayStop(n) PROVE AsksHold'
  BY <1>9 DEF RelayStop
<1>10. ASSUME NEW kind \in Kind, NEW serves \in {{}} \cup {{c} : c \in Call},
              RemoteAsks(kind, serves)
       PROVE  AsksHold'
  BY <1>10 DEF RemoteAsks
<1>11. CASE UNCHANGED vars
  BY <1>11 DEF vars
<1> QED
  BY <1>1, <1>2, <1>3, <1>4, <1>5, <1>6, <1>7, <1>8, <1>9, <1>10, <1>11
     DEF Next, Host, Remote, Proxy, NoteTask, AskTask, MainReturns, CtrlC

-----------------------------------------------------------------------------
(* Roots.                                                                  *)

LEMMA RootsStep ==
  ASSUME TypeOK, HandshakeHolds, AsksHold, RootsHold, RootsNotStale, [Next]_vars
  PROVE  RootsHold' /\ RootsNotStale'
<1>a. ask \in [Ask -> AskRecord] /\ roots \in Nat /\ rootNotes \in Nat
  BY ReverseAssumption DEF TypeOK, AskRecord
<1> USE <1>a DEF RootsHold, RootsNotStale, AskRecord, NoAsk, link, asking, news, Running
<1>1. CASE Initialize \/ Close \/ Handshake
  BY <1>1 DEF HandshakeHolds, AsksHold, Live, Initialize, Close, Handshake, Connect,
     ConnectFails, FillCell, InitializeReturns, OnInitialized
<1>2. CASE ChangeRoots
  BY <1>2 DEF HandshakeHolds, ChangeRoots
<1>3. CASE OnRootsListChanged
  BY <1>3 DEF OnRootsListChanged
<1>4. CASE RemoteChangesTools \/ OnToolListChanged
  BY <1>4 DEF RemoteChangesTools, OnToolListChanged
<1>5. ASSUME NEW c \in Call, SendCall(c) \/ CallTask(c) \/ RemoteAnswers(c)
      PROVE  RootsHold' /\ RootsNotStale'
  BY <1>5 DEF SendCall, CallTask, ForwardCall, CallFails, RemoteAnswers
<1>6. CASE ServiceEnds \/ Exit
  BY <1>6 DEF ServiceEnds, Exit
<1>7. ASSUME NEW a \in Ask, HostAnswers(a) PROVE RootsHold' /\ RootsNotStale'
  BY <1>7 DEF HostAnswers
<1>8. ASSUME NEW a \in Ask, RemoteCancels(a) PROVE RootsHold' /\ RootsNotStale'
  BY <1>8 DEF RemoteCancels
<1>9. ASSUME NEW a \in Ask, RelayAsk(a) PROVE RootsHold' /\ RootsNotStale'
  BY <1>9 DEF RelayAsk, EndAsk
<1>10. ASSUME NEW a \in Ask, ReturnAnswer(a) \/ AskFails(a) PROVE RootsHold' /\ RootsNotStale'
  BY <1>10 DEF ReturnAnswer, AskFails, EndAsk
<1>11. ASSUME NEW n \in Ask, RelayStop(n) PROVE RootsHold' /\ RootsNotStale'
  BY <1>11 DEF RelayStop
<1>12. ASSUME NEW kind \in Kind, NEW serves \in {{}} \cup {{c} : c \in Call},
              RemoteAsks(kind, serves)
       PROVE  RootsHold' /\ RootsNotStale'
  BY <1>12 DEF RemoteAsks, DoneWith
<1>13. CASE UNCHANGED vars
  BY <1>13 DEF vars
<1> QED
  BY <1>1, <1>2, <1>3, <1>4, <1>5, <1>6, <1>7, <1>8, <1>9, <1>10, <1>11, <1>12, <1>13
     DEF Next, Host, Remote, Proxy, NoteTask, AskTask, MainReturns, CtrlC

-----------------------------------------------------------------------------
(* Changes.                                                                *)

LEMMA ChangesStep ==
  ASSUME TypeOK, CountHolds, HandshakeHolds, ChangesHold, NoChangeIsLost, [Next]_vars
  PROVE  ChangesHold' /\ NoChangeIsLost'
<1>a. tools \in Nat /\ toolNotes \in Nat /\ heard \in Nat /\ toolNotes + heard \in 0 .. tools
  BY ReverseAssumption DEF TypeOK, CountHolds
<1> USE <1>a DEF ChangesHold, NoChangeIsLost, link, asking, news, Running
<1>1. CASE Initialize \/ Close \/ Handshake
  BY <1>1 DEF Initialize, Close, Handshake, Connect, ConnectFails, FillCell, InitializeReturns,
     OnInitialized
<1>2. CASE RemoteChangesTools
  BY <1>2 DEF RemoteChangesTools, Up, HandshakeHolds
<1>3. CASE OnToolListChanged
  BY <1>3 DEF OnToolListChanged, Listening
<1>4. CASE ChangeRoots \/ OnRootsListChanged
  BY <1>4 DEF ChangeRoots, OnRootsListChanged
<1>5. ASSUME NEW c \in Call, SendCall(c) \/ CallTask(c) \/ RemoteAnswers(c)
      PROVE  ChangesHold' /\ NoChangeIsLost'
  BY <1>5 DEF SendCall, CallTask, ForwardCall, CallFails, RemoteAnswers
<1>6. CASE ServiceEnds \/ Exit
  BY <1>6 DEF ServiceEnds, Exit
<1>7. ASSUME NEW a \in Ask, HostAnswers(a) \/ RemoteCancels(a) \/ AskTask(a)
      PROVE  ChangesHold' /\ NoChangeIsLost'
  BY <1>7 DEF HostAnswers, RemoteCancels, AskTask, RelayAsk, ReturnAnswer, AskFails, RelayStop
<1>8. ASSUME NEW kind \in Kind, NEW serves \in {{}} \cup {{c} : c \in Call},
             RemoteAsks(kind, serves)
      PROVE  ChangesHold' /\ NoChangeIsLost'
  BY <1>8 DEF RemoteAsks
<1>9. CASE UNCHANGED vars
  BY <1>9 DEF vars
<1> QED
  BY <1>1, <1>2, <1>3, <1>4, <1>5, <1>6, <1>7, <1>8, <1>9
     DEF Next, Host, Remote, Proxy, NoteTask, MainReturns, CtrlC

-----------------------------------------------------------------------------
LEMMA ReverseInvariant == Spec => []ReverseInv
<1>1. ReverseInv /\ [Next]_vars => ReverseInv'
  BY CountStep, HandshakeStep, AsksStep, RootsStep, ChangesStep DEF ReverseInv
<1> QED
  BY <1>1, ReverseInit, PTL DEF Spec

\* Every variable keeps its type; in particular the asks that are relayed get
\* no more numbers on the local connection than there were asks.
THEOREM TypeCorrect == Spec => []TypeOK
<1>1. ReverseInv => TypeOK
  BY DEF ReverseInv
<1> QED
  BY <1>1, ReverseInvariant, PTL

\* The remote sees initialized once and before any call (on_initialized).
THEOREM InitializedIsSeenOnce == Spec => []InitializedOnceAndFirst
<1>1. ReverseInv => InitializedOnceAndFirst
  BY DEF ReverseInv
<1> QED
  BY <1>1, ReverseInvariant, PTL

\* No call of a client that waits for the result of initialize finds the cell
\* empty (peer).
THEOREM NoCallComesTooEarly == Spec => []NoCallIsRefused
<1>1. ReverseInv => NoCallIsRefused
  BY DEF ReverseInv
<1> QED
  BY <1>1, ReverseInvariant, PTL

\* However list_roots, its cancellation and roots/list_changed overtake one
\* another, the remote is not left with an outdated list, unless sending the
\* notification failed (on_roots_list_changed logs that and drops it).
THEOREM RootsStayCurrent == Spec => []RootsNotStale
<1>1. ReverseInv => RootsNotStale
  BY DEF ReverseInv
<1> QED
  BY <1>1, ReverseInvariant, PTL

\* While the client is there, what the remote announced has been heard once or
\* is about to be relayed, from the handshake on (on_tool_list_changed).
THEOREM EveryChangeIsCounted == Spec => []NoChangeIsLost
<1>1. ReverseInv => NoChangeIsLost
  BY DEF ReverseInv
<1> QED
  BY <1>1, ReverseInvariant, PTL
=============================================================================
