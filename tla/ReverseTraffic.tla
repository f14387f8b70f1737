--------------------------- MODULE ReverseTraffic ---------------------------
(***************************************************************************)
(* src/proxy.rs, RemoteClientHandler and the notifications of ProxyHandler,*)
(* with the end of src/main.rs: what the remote asks of the local client   *)
(* while it works on the client's calls, and how the process ends.         *)
(*                                                                         *)
(* rmcp runs a task per request and per notification, so that what is      *)
(* relayed is unordered.  A request of the remote is an ask; it is         *)
(* numbered by the remote, in order, and by the proxy anew when it is      *)
(* relayed.  An ask may serve a call: the remote answers the call after    *)
(* its asks are done with.  ProxySession has the numbering, cancellation   *)
(* and pings of the other direction; here a call is only on its way.       *)
(* Tools stand for everything the remote announces a change of.            *)
(*                                                                         *)
(* Sending to the remote is a POST, which may fail while the connection    *)
(* stays up: a call then fails, an answer or a notification is lost.  What *)
(* is sent to the client goes to a pipe, and is lost when it is gone.      *)
(***************************************************************************)
EXTENDS Integers

CONSTANTS Kind,      \* what a remote may ask for: "roots", "sampling", "elicitation"
          Call,      \* requests of the local client
          MaxAsk,    \* asks are numbered 0 .. MaxAsk
          MaxChange  \* bound on the changes of the roots and the tools together

ASSUME ReverseAssumption == MaxAsk \in Nat /\ MaxChange \in Nat

Ask == 0 .. MaxAsk
None == -1

VARIABLES
  process,   \* "running" or "exited"
  host,      \* the local client
  caps,      \* the capabilities of its initialize request
  service,   \* the remote connection: "none", "up" or "ended"
  cell,      \* ProxyHandler.remote is set
  offered,   \* the capabilities the remote was told
  hello,     \* initialized notifications the remote has seen
  call,      \* where each call is
  asks,      \* asks sent by the remote so far
  ask,       \* where each is, what it wants, the call it serves if any, its
             \* number on the local connection, and what its answer says
  relayed,   \* asks relayed so far
  withdrawn, \* asks the remote has cancelled
  stops,     \* cancelled notifications still to be relayed
  roots,     \* version of the client's roots
  known,     \* the version the remote holds, None while it has asked for it
  told,      \* has the remote been told of a change since it asked: "no", "yes",
             \* or "failed" when telling it was tried in vain
  rootNotes, \* roots/list_changed notifications still to be relayed
  tools,     \* version of the remote's tools
  toolNotes, \* tools/list_changed notifications still to be relayed
  heard      \* changes of the tools the client has heard of

link == <<process, host, caps, service, cell, offered, hello>>
asking == <<asks, ask, relayed, withdrawn, stops>>
news == <<roots, known, told, rootNotes, tools, toolNotes, heard>>
vars == <<link, call, asking, news>>

TypeOK ==
  /\ process \in {"running", "exited"}
  /\ host \in {"starting", "initializing", "ready", "settled", "refused", "closed"}
  /\ caps \subseteq Kind /\ offered \subseteq Kind
  /\ service \in {"none", "up", "ended"} /\ cell \in BOOLEAN /\ hello \in 0 .. 1
  /\ call \in [Call -> {"idle", "received", "remote", "done", "failed", "refused"}]
  /\ asks \in 0 .. MaxAsk + 1 /\ relayed \in 0 .. asks
  /\ ask \in [Ask -> [at : {"none", "proxy", "host", "answered", "over"}, kind : Kind \cup {"none"},
                      serves : SUBSET Call, number : Ask \cup {None},
                      roots : (0 .. MaxChange) \cup {None}]]
  /\ withdrawn \subseteq Ask /\ stops \subseteq Ask
  /\ roots \in 0 .. MaxChange /\ tools \in 0 .. MaxChange
  /\ known \in (0 .. MaxChange) \cup {None}
  /\ told \in {"no", "yes", "failed"}
  /\ rootNotes \in 0 .. roots /\ toolNotes + heard \in 0 .. tools

\* An ask that has not been made, or is over.
NoAsk(place) == [at |-> place, kind |-> "none", serves |-> {}, number |-> None, roots |-> None]

Init ==
  /\ process = "running" /\ host = "starting" /\ caps = {}
  /\ service = "none" /\ cell = FALSE /\ offered = {} /\ hello = 0
  /\ call = [c \in Call |-> "idle"]
  /\ asks = 0 /\ relayed = 0 /\ withdrawn = {} /\ stops = {}
  /\ ask = [a \in Ask |-> NoAsk("none")]
  /\ roots = 0 /\ known = None /\ told = "no" /\ rootNotes = 0
  /\ tools = 0 /\ toolNotes = 0 /\ heard = 0

Running == process = "running"
Listening == host \notin {"starting", "closed"}
MoveCall(c, place) == call' = [call EXCEPT ![c] = place]
\* Whatever is left of its cancellation no longer matters to the remote.
EndAsk(a) == ask' = [ask EXCEPT ![a] = NoAsk("over")] /\ withdrawn' = withdrawn \ {a}

-----------------------------------------------------------------------------
(* The local client.  It follows MCP: nothing but answers before the       *)
(* result of initialize.                                                   *)

Initialize ==
  /\ Running /\ host = "starting"
  /\ host' = "initializing"
  /\ caps' \in SUBSET Kind
  /\ UNCHANGED <<process, service, cell, offered, hello, call, asking, news>>

SendCall(c) ==
  /\ Running /\ host = "settled" /\ call[c] = "idle"
  /\ MoveCall(c, "received")
  /\ UNCHANGED <<link, asking, news>>

ChangeRoots ==
  /\ Running /\ host = "settled" /\ roots + tools < MaxChange
  /\ roots' = roots + 1 /\ rootNotes' = rootNotes + 1
  /\ UNCHANGED <<link, call, asking, known, told, tools, toolNotes, heard>>

\* With a result or an error, which the relay treats alike.
HostAnswers(a) ==
  /\ Running /\ Listening /\ ask[a].at = "host"
  /\ ask' = [ask EXCEPT ![a].at = "answered",
                        ![a].roots = IF ask[a].kind = "roots" THEN roots ELSE None]
  /\ UNCHANGED <<link, call, asks, relayed, withdrawn, stops, news>>

Close ==
  /\ Running /\ host # "closed"
  /\ host' = "closed"
  /\ UNCHANGED <<process, caps, service, cell, offered, hello, call, asking, news>>

-----------------------------------------------------------------------------
(* initialize and initialized.                                             *)

\* build_proxied_client_info: the client's own capabilities.
ProxiedInfo(declared) == declared

\* handler.serve: the handshake, which ends with initialized.
Connect ==
  /\ Running /\ host = "initializing" /\ service = "none"
  /\ service' = "up" /\ offered' = ProxiedInfo(caps) /\ hello' = hello + 1
  /\ UNCHANGED <<process, host, caps, cell, call, asking, news>>

\* The transport is gone with the attempt.
ConnectFails ==
  /\ Running /\ host = "initializing" /\ service = "none"
  /\ service' = "ended" /\ host' = "refused"
  /\ UNCHANGED <<process, caps, cell, offered, hello, call, asking, news>>

\* The OnceCell is filled; the remote is already talking to the handler.
FillCell ==
  /\ Running /\ hello > 0 /\ ~cell
  /\ cell' = TRUE
  /\ UNCHANGED <<process, host, caps, service, offered, hello, call, asking, news>>

\* Faulty variant: the client has its result before the cell is filled.
InitializeReturnsEarly ==
  /\ Running /\ host = "initializing" /\ hello > 0
  /\ host' = "ready"
  /\ UNCHANGED <<process, caps, service, cell, offered, hello, call, asking, news>>

InitializeReturns ==
  /\ Running /\ host = "initializing" /\ cell
  /\ host' = "ready"
  /\ UNCHANGED <<process, caps, service, cell, offered, hello, call, asking, news>>

\* Faulty variant: initialized is forwarded like every other notification.
OnInitializedForwards ==
  /\ Running /\ host = "ready"
  /\ host' = "settled"
  /\ hello' = IF cell /\ service = "up" THEN hello + 1 ELSE hello
  /\ UNCHANGED <<process, caps, service, cell, offered, call, asking, news>>

\* on_initialized swallows it.
OnInitialized ==
  /\ Running /\ host = "ready"
  /\ host' = "settled"
  /\ UNCHANGED <<process, caps, service, cell, offered, hello, call, asking, news>>

-----------------------------------------------------------------------------
(* Calls, seen from the proxy.                                             *)

\* peer() refuses a call while the cell is empty: "proxy session not yet
\* initialized".  Otherwise the call is sent, which may fail.
Forwarded == IF ~cell THEN {"refused"}
             ELSE IF service = "up" THEN {"remote", "failed"} ELSE {"failed"}

ForwardCall(c) ==
  /\ Running /\ call[c] = "received"
  /\ \E place \in Forwarded : MoveCall(c, place)
  /\ UNCHANGED <<link, asking, news>>

CallFails(c) ==
  /\ Running /\ call[c] = "remote" /\ service = "ended"
  /\ MoveCall(c, "failed")
  /\ UNCHANGED <<link, asking, news>>

-----------------------------------------------------------------------------
(* The remote server.                                                      *)

DoneWith(a) == ask[a].at = "over" \/ a \in withdrawn
Up == Running /\ service = "up"

\* It asks only for what it was offered, and for the roots once at a time.
RemoteAsks(kind, serves) ==
  /\ Up /\ asks \in Ask /\ kind \in offered
  /\ \A c \in serves : call[c] = "remote"
  /\ kind = "roots" => \A a \in Ask : ask[a].kind = "roots" => DoneWith(a)
  /\ asks' = asks + 1
  /\ ask' = [ask EXCEPT ![asks].at = "proxy", ![asks].kind = kind, ![asks].serves = serves]
  /\ IF kind = "roots" THEN known' = None /\ told' = "no" ELSE UNCHANGED <<known, told>>
  /\ UNCHANGED <<link, call, relayed, withdrawn, stops, roots, rootNotes, tools, toolNotes, heard>>

RemoteCancels(a) ==
  /\ Up /\ ask[a].at \in {"proxy", "host", "answered"} /\ a \notin withdrawn
  /\ withdrawn' = withdrawn \cup {a} /\ stops' = stops \cup {a}
  /\ UNCHANGED <<link, call, asks, ask, relayed, news>>

RemoteAnswers(c) ==
  /\ Up /\ call[c] = "remote"
  /\ \A a \in Ask : c \in ask[a].serves => DoneWith(a)
  /\ MoveCall(c, "done")
  /\ UNCHANGED <<link, asking, news>>

RemoteChangesTools ==
  /\ Up /\ roots + tools < MaxChange
  /\ tools' = tools + 1 /\ toolNotes' = toolNotes + 1
  /\ UNCHANGED <<link, call, asking, roots, known, told, rootNotes, heard>>

\* The connection is gone, and what the remote thought with it.
ServiceEnds ==
  /\ Up /\ service' = "ended"
  /\ known' = None /\ told' = "no" /\ withdrawn' = {}
  /\ UNCHANGED <<process, host, caps, cell, offered, hello, call, asks, ask, relayed, stops,
                 roots, rootNotes, tools, toolNotes, heard>>

-----------------------------------------------------------------------------
(* RemoteClientHandler: create_message, list_roots, create_elicitation.    *)

\* Faulty variant: requests of the two directions are worked off one by one.
RelayAskInTurn(a) ==
  /\ Running /\ ask[a].at = "proxy" /\ \A c \in Call : call[c] # "remote"
  /\ IF host = "closed" THEN EndAsk(a) /\ UNCHANGED relayed
     ELSE /\ ask' = [ask EXCEPT ![a].at = "host", ![a].number = relayed]
          /\ relayed' = relayed + 1 /\ UNCHANGED withdrawn
  /\ UNCHANGED <<link, call, asks, stops, news>>

\* upstream.create_message and its like; a client that is gone is an error.
RelayAsk(a) ==
  /\ Running /\ ask[a].at = "proxy"
  /\ IF host = "closed" THEN EndAsk(a) /\ UNCHANGED relayed
     ELSE /\ ask' = [ask EXCEPT ![a].at = "host", ![a].number = relayed]
          /\ relayed' = relayed + 1 /\ UNCHANGED withdrawn
  /\ UNCHANGED <<link, call, asks, stops, news>>

\* Faulty variant: an answer is kept for a connection that has ended.
ReturnAnswerWhileUp(a) ==
  /\ Running /\ ask[a].at = "answered" /\ service = "up"
  /\ EndAsk(a)
  /\ known' = IF ask[a].kind = "roots" /\ a \notin withdrawn THEN ask[a].roots ELSE known
  /\ UNCHANGED <<link, call, asks, relayed, stops, roots, told, rootNotes, tools, toolNotes, heard>>

\* The answer reaches the remote, unless the connection has ended or sending
\* it fails, when the remote is left to give up.
ReturnAnswer(a) ==
  /\ Running /\ ask[a].at = "answered"
  /\ EndAsk(a)
  /\ \/ known' = known
     \/ /\ service = "up" /\ ask[a].kind = "roots" /\ a \notin withdrawn
        /\ known' = ask[a].roots
  /\ UNCHANGED <<link, call, asks, relayed, stops, roots, told, rootNotes, tools, toolNotes, heard>>

\* upstream_error: the client is gone while its answer is awaited.
AskFails(a) ==
  /\ Running /\ ask[a].at = "host" /\ host = "closed"
  /\ EndAsk(a)
  /\ UNCHANGED <<link, call, asks, relayed, stops, news>>

\* on_cancelled relays the notification with the number the remote gave; rmcp
\* stops waiting for the request that has this number on the local side.
RelayStop(n) ==
  /\ Running /\ n \in stops
  /\ stops' = stops \ {n}
  /\ LET hit == {a \in Ask : ask[a].at = "host" /\ ask[a].number = n}
     IN  /\ ask' = [a \in Ask |-> IF a \in hit THEN NoAsk("over") ELSE ask[a]]
         /\ withdrawn' = withdrawn \ hit
  /\ UNCHANGED <<link, call, asks, relayed, news>>

-----------------------------------------------------------------------------
(* Notifications.                                                          *)

\* on_roots_list_changed: without a peer the notification is dropped; a
\* failure to send it is logged, and the notification is lost as well.
OnRootsListChanged ==
  /\ Running /\ rootNotes > 0
  /\ rootNotes' = rootNotes - 1
  /\ told' \in IF cell /\ service = "up" /\ told # "yes" THEN {"yes", "failed"} ELSE {told}
  /\ UNCHANGED <<link, call, asking, roots, known, tools, toolNotes, heard>>

\* Faulty variant: a notification that was relayed is relayed again.
OnToolListChangedAgain ==
  /\ Running /\ toolNotes > 0 /\ heard < MaxChange
  /\ heard' = IF Listening THEN heard + 1 ELSE heard
  /\ UNCHANGED <<link, call, asking, roots, known, told, rootNotes, tools, toolNotes>>

\* Faulty variant: notifications are relayed once the session is set up.
OnToolListChangedLater ==
  /\ Running /\ toolNotes > 0
  /\ toolNotes' = toolNotes - 1
  /\ heard' = IF Listening /\ cell THEN heard + 1 ELSE heard
  /\ UNCHANGED <<link, call, asking, roots, known, told, rootNotes, tools>>

\* on_tool_list_changed, and the other seven: a failure is only logged.
OnToolListChanged ==
  /\ Running /\ toolNotes > 0
  /\ toolNotes' = toolNotes - 1
  /\ heard' = IF Listening THEN heard + 1 ELSE heard
  /\ UNCHANGED <<link, call, asking, roots, known, told, rootNotes, tools>>

-----------------------------------------------------------------------------
(* The end of main.                                                        *)

\* The tasks end with the runtime, and the remote loses its connection.
Exit ==
  /\ process' = "exited" /\ service' = "ended"
  /\ call' = [c \in Call |-> "failed"] /\ ask' = [a \in Ask |-> NoAsk("over")]
  /\ withdrawn' = {} /\ stops' = {}
  /\ known' = None /\ told' = "no" /\ rootNotes' = 0 /\ toolNotes' = 0
  /\ UNCHANGED <<host, caps, cell, offered, hello, asks, relayed, roots, tools, heard>>

\* Faulty variant: main waits for the remote connection as well.
MainReturnsAfterRemote == Running /\ host = "closed" /\ service # "up" /\ Exit

\* running.waiting() returns when the local transport is closed.
MainReturns == Running /\ host = "closed" /\ Exit

\* The other arm of the select.
CtrlC == Running /\ Exit

-----------------------------------------------------------------------------
Host == \/ Initialize \/ ChangeRoots \/ Close
        \/ \E c \in Call : SendCall(c)
        \/ \E a \in Ask : HostAnswers(a)

Remote == \/ \E kind \in Kind, serves \in {{}} \cup {{c} : c \in Call} : RemoteAsks(kind, serves)
          \/ \E a \in Ask : RemoteCancels(a)
          \/ \E c \in Call : RemoteAnswers(c)
          \/ RemoteChangesTools \/ ServiceEnds

Handshake == Connect \/ ConnectFails \/ FillCell \/ InitializeReturns \/ OnInitialized

CallTask(c) == ForwardCall(c) \/ CallFails(c)
AskTask(a) == RelayAsk(a) \/ ReturnAnswer(a) \/ AskFails(a) \/ RelayStop(a)
NoteTask == OnRootsListChanged \/ OnToolListChanged

Proxy == \/ Handshake \/ NoteTask \/ MainReturns
         \/ \E c \in Call : CallTask(c)
         \/ \E a \in Ask : AskTask(a)

Next == Host \/ Remote \/ Proxy \/ CtrlC

Spec == Init /\ [][Next]_vars

\* tokio does not idle while a task can go on.  Which of the tasks it runs is
\* left open: with bounded inputs none can be put off for ever.
FairSpec == Spec /\ WF_vars(Proxy)

\* In addition the client answers what it is asked, and the remote the calls
\* whose asks are done with, which includes giving up an ask whose answer was
\* lost on the way.
Peers == (\E a \in Ask : HostAnswers(a)) \/ (\E c \in Call : RemoteAnswers(c))
ResponsiveSpec == FairSpec /\ WF_vars(Peers)

-----------------------------------------------------------------------------
(* Properties                                                              *)

Over == process = "exited"

\* "We deliberately do not forward the local client's `initialized` again":
\* the remote sees exactly one, before any call of the client reaches it.
InitializedOnceAndFirst ==
  /\ hello <= 1
  /\ \A c \in Call : call[c] = "remote" => hello = 1

\* A client that waits for the result of initialize before it calls, as MCP
\* asks of it, is never told that the session is "not yet initialized",
\* however the handshake, the filling of the cell and the call are interleaved.
NoCallIsRefused == \A c \in Call : call[c] # "refused"

\* A list of roots the remote takes for current is the client's, or a
\* notification that it changed is on its way, or could not be sent: also when
\* the remote asked for it while initialize was pending, and however tasks
\* overtake one another.  Nothing but a failed POST leaves it outdated.
RootsNotStale ==
  service = "up" /\ known # None /\ told = "no" => known = roots \/ rootNotes > 0

\* Between the remote's announcement and the client nothing is lost, and
\* nothing is relayed twice, from the handshake on and before initialize is
\* answered: what the client has not heard of, a task is about to relay.
NoChangeIsLost ==
  process = "running" /\ host # "closed" => heard + toolNotes = tools

\* Every ask of the remote is answered or fails, whoever goes away, and also
\* when a cancellation of another ask hits its number.
EveryAskEnds ==
  \A a \in Ask : (ask[a].at = "proxy") ~> (ask[a].at = "over" \/ Over)

\* A call that needs an answer of the client on the way is not stuck behind
\* itself: the two directions do not wait for one another.
NestedCallsReturn ==
  \A c \in Call : (call[c] = "received") ~> (call[c] \in {"done", "failed", "refused"} \/ Over)

\* A client that goes away takes the process with it, whatever the remote
\* does or fails to do.
HostGoneMeansExit == (host = "closed") ~> Over
=============================================================================
