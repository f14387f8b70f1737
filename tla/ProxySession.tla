---------------------------- MODULE ProxySession ----------------------------
(***************************************************************************)
(* src/proxy.rs: ProxyHandler between the local stdio client and the       *)
(* remote MCP server.                                                      *)
(*                                                                         *)
(* Every local request is a task of its own.  The first `initialize` takes *)
(* the transport and performs the remote handshake inside a OnceCell;      *)
(* other requests are forwarded through the peer the cell holds.  rmcp     *)
(* numbers the requests of each connection separately, so the request the  *)
(* local client calls r travels under another number to the remote; the    *)
(* keepalive pings of the same peer draw from the same numbers.            *)
(*                                                                         *)
(* Not modelled here: the contents of requests and results, reverse        *)
(* requests, and progress and roots notifications, which are relayed       *)
(* without touching this state.                                            *)
(***************************************************************************)
EXTENDS Integers

CONSTANTS MaxRequest,  \* local requests are numbered 0 .. MaxRequest, in order
          MaxPing,     \* bound on the pings sent
          Pings,       \* whether keepalive is enabled
          Cancels,     \* whether the local client cancels requests
          Breaks       \* whether sending to the remote can fail, and the
                       \* connection break

ASSUME ProxyAssumption ==
  /\ MaxRequest \in Nat /\ MaxPing \in Nat
  /\ Pings \in BOOLEAN /\ Cancels \in BOOLEAN /\ Breaks \in BOOLEAN

Request  == 0 .. MaxRequest
RemoteId == 0 .. MaxRequest + MaxPing
NoId     == -1

\* initialize; a tools/call the filter admits or not; anything else, which is
\* forwarded unconditionally.
Kind == {"initialize", "call", "denied_call", "other"}

VARIABLES
  sent,       \* how many requests the local client has sent
  kind,       \* what each asks
  at,         \* where each is
  rid,        \* the number it travels under to the remote
  transport,  \* the transport is still there to be taken
  cell,       \* the OnceCell: "empty", "busy" or "set"
  service,    \* the rmcp client service of the remote connection
  nextId,     \* the next number of the remote connection
  inflight,   \* numbers the remote is working on
  replies,    \* numbers the remote has answered, not yet received
  notes,      \* cancelled notifications on their way to the remote
  cancelled,  \* local requests the local client has cancelled
  pinger,     \* the keepalive task
  pingId,     \* the number of its outstanding ping
  pings,      \* pings sent
  stopPings   \* the keepalive cancellation token

request    == <<sent, kind, at, rid>>
connection == <<transport, cell, service>>
remote     == <<nextId, inflight, replies, notes>>
keepalive  == <<pinger, pingId, pings, stopPings>>
vars       == <<request, connection, remote, cancelled, keepalive>>

TypeOK ==
  /\ sent \in 0 .. MaxRequest + 1
  /\ kind \in [Request -> Kind \cup {"none"}]
  /\ at \in [Request -> {"unsent", "received", "connecting", "forwarded", "ok", "error"}]
  /\ rid \in [Request -> RemoteId \cup {NoId}]
  /\ transport \in BOOLEAN
  /\ cell \in {"empty", "busy", "set"}
  /\ service \in {"none", "up", "ended"}
  /\ nextId \in RemoteId \cup {MaxRequest + MaxPing + 1}
  /\ inflight \subseteq RemoteId
  /\ replies \subseteq RemoteId
  /\ notes \subseteq Request
  /\ cancelled \subseteq Request
  /\ pinger \in {"off", "waiting", "pinging", "stopped"}
  /\ pingId \in RemoteId \cup {NoId}
  /\ pings \in 0 .. MaxPing
  /\ stopPings \in BOOLEAN

Init ==
  /\ sent = 0
  /\ kind = [r \in Request |-> "none"]
  /\ at = [r \in Request |-> "unsent"]
  /\ rid = [r \in Request |-> NoId]
  /\ transport = TRUE /\ cell = "empty" /\ service = "none"
  /\ nextId = 0 /\ inflight = {} /\ replies = {} /\ notes = {}
  /\ cancelled = {}
  /\ pinger = "off" /\ pingId = NoId /\ pings = 0 /\ stopPings = FALSE

Move(r, place) == at' = [at EXCEPT ![r] = place]

-----------------------------------------------------------------------------
(* The local client.                                                       *)

Send ==
  /\ sent \in Request
  /\ \E k \in Kind :
       /\ kind' = [kind EXCEPT ![sent] = k]
       /\ Move(sent, "received")
  /\ sent' = sent + 1
  /\ UNCHANGED <<rid, connection, remote, cancelled, keepalive>>

\* Faulty variant: whoever waits under the number that is cancelled goes on
\* waiting.
CancelUnheeded(r) ==
  /\ Cancels
  /\ r \notin cancelled /\ at[r] \in {"received", "forwarded"} /\ kind[r] # "initialize"
  /\ cancelled' = cancelled \cup {r}
  /\ notes' = IF cell = "set" /\ service = "up" /\ r < nextId THEN notes \cup {r} ELSE notes
  /\ UNCHANGED <<sent, kind, at, rid, connection, nextId, inflight, replies, keepalive>>

\* on_cancelled forwards the notification as it came, with the local number,
\* once there is a peer; rmcp stops waiting for the number it names.  The
\* transport keeps the order of what it sends, so the note precedes, and the
\* remote ignores it for, a number that has not been used yet.  A note that
\* cannot be sent is only logged.
Cancel(r) ==
  /\ Cancels
  /\ r \notin cancelled /\ at[r] \in {"received", "forwarded"}
  /\ kind[r] # "initialize"          \* MCP: initialize is not to be cancelled
  /\ cancelled' = cancelled \cup {r}
  /\ IF cell = "set" /\ service = "up"
       THEN /\ \/ notes' = IF r < nextId THEN notes \cup {r} ELSE notes
               \/ Breaks /\ UNCHANGED notes
            /\ at' = [q \in Request |->
                       IF at[q] = "forwarded" /\ rid[q] = r THEN "error" ELSE at[q]]
       ELSE UNCHANGED <<notes, at>>
  /\ UNCHANGED <<sent, kind, rid, connection, nextId, inflight, replies, keepalive>>

-----------------------------------------------------------------------------
(* initialize and connect: OnceCell::get_or_try_init.                      *)

\* A later initialize, or one that waited for the first, is answered from
\* the cell.
InitializeAgain(r) ==
  /\ at[r] = "received" /\ kind[r] = "initialize" /\ cell = "set"
  /\ Move(r, "ok")
  /\ UNCHANGED <<sent, kind, rid, connection, remote, cancelled, keepalive>>

\* Faulty variant: the transport is cloned, not taken.
ConnectClones(r) ==
  /\ at[r] = "received" /\ kind[r] = "initialize" /\ cell = "empty"
  /\ cell' = "busy"
  /\ Move(r, "connecting")
  /\ rid' = [rid EXCEPT ![r] = nextId]
  /\ inflight' = inflight \cup {nextId}
  /\ nextId' = nextId + 1
  /\ UNCHANGED <<sent, kind, transport, service, replies, notes, cancelled, keepalive>>

\* One caller at a time runs the initializer, and only one ever finds the
\* transport.
Connect(r) ==
  /\ at[r] = "received" /\ kind[r] = "initialize" /\ cell = "empty"
  /\ \/ /\ transport
        /\ transport' = FALSE
        /\ cell' = "busy"
        /\ Move(r, "connecting")
        /\ rid' = [rid EXCEPT ![r] = nextId]
        /\ inflight' = inflight \cup {nextId}
        /\ nextId' = nextId + 1
     \/ /\ ~transport                          \* "remote transport already consumed"
        /\ Move(r, "error")
        /\ UNCHANGED <<rid, transport, cell, inflight, nextId>>
  /\ UNCHANGED <<sent, kind, service, replies, notes, cancelled, keepalive>>

\* The remote's initialize result has arrived: spawn_keepalive, spawn the
\* supervisor, set the cell.
Connected(r) ==
  /\ at[r] = "connecting" /\ rid[r] \in replies
  /\ replies' = replies \ {rid[r]}
  /\ Move(r, "ok")
  /\ cell' = "set" /\ service' = "up"
  /\ pinger' = IF Pings THEN "waiting" ELSE "off"
  /\ UNCHANGED <<sent, kind, rid, transport, nextId, inflight, notes, cancelled,
                 pingId, pings, stopPings>>

\* Faulty variant: a failed initializer does not release the cell.
ConnectFailsBusy(r) ==
  /\ Breaks /\ at[r] = "connecting"
  /\ Move(r, "error")
  /\ inflight' = {} /\ replies' = {}
  /\ UNCHANGED <<sent, kind, rid, connection, nextId, notes, cancelled, keepalive>>

\* The handshake fails: the cell stays empty, the transport is gone.
ConnectFails(r) ==
  /\ Breaks /\ at[r] = "connecting"
  /\ Move(r, "error")
  /\ cell' = "empty"
  /\ inflight' = {} /\ replies' = {}
  /\ UNCHANGED <<sent, kind, rid, transport, service, nextId, notes, cancelled, keepalive>>

-----------------------------------------------------------------------------
(* Every other request.                                                    *)

\* enforce_tool_filter comes before the peer is looked at.
Refuse(r) ==
  /\ at[r] = "received"
  /\ \/ kind[r] = "denied_call"
     \/ kind[r] \in {"call", "other"} /\ cell # "set"   \* "not yet initialized"
     \/ kind[r] \in {"call", "other"} /\ service = "ended"
  /\ Move(r, "error")
  /\ UNCHANGED <<sent, kind, rid, connection, remote, cancelled, keepalive>>

\* Faulty variant: the filter is applied to listings only.
ForwardUnfiltered(r) ==
  /\ at[r] = "received" /\ kind[r] \in {"call", "denied_call", "other"}
  /\ cell = "set" /\ service = "up"
  /\ Move(r, "forwarded")
  /\ rid' = [rid EXCEPT ![r] = nextId]
  /\ inflight' = inflight \cup {nextId}
  /\ nextId' = nextId + 1
  /\ UNCHANGED <<sent, kind, connection, replies, notes, cancelled, keepalive>>

\* Faulty variant: every request is sent to the remote twice.
ForwardTwice(r) ==
  /\ at[r] = "received" /\ kind[r] \in {"call", "other"}
  /\ cell = "set" /\ service = "up"
  /\ Move(r, "forwarded")
  /\ rid' = [rid EXCEPT ![r] = nextId]
  /\ inflight' = inflight \cup {nextId, nextId + 1}
  /\ nextId' = nextId + 2
  /\ UNCHANGED <<sent, kind, connection, replies, notes, cancelled, keepalive>>

\* The number is drawn before the request is sent; a POST that fails is an
\* error for this request and leaves the connection as it is.
Forward(r) ==
  /\ at[r] = "received" /\ kind[r] \in {"call", "other"}
  /\ cell = "set" /\ service = "up"
  /\ rid' = [rid EXCEPT ![r] = nextId]
  /\ nextId' = nextId + 1
  /\ \/ Move(r, "forwarded") /\ inflight' = inflight \cup {nextId}
     \/ Breaks /\ Move(r, "error") /\ UNCHANGED inflight
  /\ UNCHANGED <<sent, kind, connection, replies, notes, cancelled, keepalive>>

Answer(r) ==
  /\ at[r] = "forwarded" /\ service = "up" /\ rid[r] \in replies
  /\ replies' = replies \ {rid[r]}
  /\ Move(r, "ok")
  /\ UNCHANGED <<sent, kind, rid, connection, nextId, inflight, notes, cancelled, keepalive>>

\* The service has ended and dropped the callers waiting in it.
Abandon(r) ==
  /\ at[r] = "forwarded" /\ service = "ended"
  /\ Move(r, "error")
  /\ UNCHANGED <<sent, kind, rid, connection, remote, cancelled, keepalive>>

-----------------------------------------------------------------------------
(* The remote server and its connection.                                   *)

RemoteAnswers(i) ==
  /\ i \in inflight
  /\ inflight' = inflight \ {i}
  /\ replies' = replies \cup {i}
  /\ UNCHANGED <<request, connection, nextId, notes, cancelled, keepalive>>

\* A cancelled request is dropped and gets no answer (MCP cancellation); a
\* number the remote is not working on is ignored.
RemoteCancels(i) ==
  /\ i \in notes
  /\ notes' = notes \ {i}
  /\ inflight' = inflight \ {i}
  /\ UNCHANGED <<request, connection, nextId, replies, cancelled, keepalive>>

\* The connection ends and running.waiting() returns.
ServiceEnds ==
  /\ Breaks /\ service = "up"
  /\ service' = "ended"
  /\ inflight' = {} /\ replies' = {} /\ notes' = {}
  /\ UNCHANGED <<request, transport, cell, nextId, cancelled, keepalive>>

\* Faulty variant: the supervisor does not cancel the token.
SuperviseSilently == FALSE

\* The supervisor task then cancels the keepalive token.
Supervise ==
  /\ service = "ended" /\ ~stopPings
  /\ stopPings' = TRUE
  /\ UNCHANGED <<request, connection, remote, cancelled, pinger, pingId, pings>>

-----------------------------------------------------------------------------
(* spawn_keepalive: select! between the token and the ticker, then         *)
(* ping_remote, which does not look at the token.                          *)

PingerStops ==
  /\ pinger = "waiting" /\ stopPings
  /\ pinger' = "stopped"
  /\ UNCHANGED <<request, connection, remote, cancelled, pingId, pings, stopPings>>

\* A tick.  Sending to a service that has ended fails at once.
Ping ==
  /\ pinger = "waiting" /\ pings < MaxPing
  /\ pings' = pings + 1
  /\ IF service = "up"
       THEN /\ pinger' = "pinging" /\ pingId' = nextId
            /\ inflight' = inflight \cup {nextId}
            /\ nextId' = nextId + 1
       ELSE UNCHANGED <<pinger, pingId, inflight, nextId>>
  /\ UNCHANGED <<request, connection, replies, notes, cancelled, stopPings>>

\* An answer, an error or the timeout: all are logged and forgotten.
PingEnds ==
  /\ pinger = "pinging"
  /\ pinger' = "waiting" /\ pingId' = NoId
  /\ replies' = replies \ {pingId}
  /\ UNCHANGED <<request, connection, nextId, inflight, notes, cancelled, pings, stopPings>>

-----------------------------------------------------------------------------
Handle(r) == \/ InitializeAgain(r) \/ Connect(r) \/ Connected(r)
             \/ Refuse(r) \/ Forward(r) \/ Answer(r) \/ Abandon(r)

Next ==
  \/ Send
  \/ \E r \in Request : Handle(r) \/ ConnectFails(r) \/ Cancel(r)
  \/ \E i \in RemoteId : RemoteAnswers(i) \/ RemoteCancels(i)
  \/ ServiceEnds \/ Supervise
  \/ PingerStops \/ Ping \/ PingEnds

Spec == Init /\ [][Next]_vars

\* tokio runs every ready task, pings time out, and the remote works on what
\* it has received.  Neither the client nor the ticker is obliged to go on.
FairSpec == /\ Spec
            /\ \A r \in Request : WF_vars(Handle(r))
            /\ \A i \in RemoteId : WF_vars(RemoteAnswers(i)) /\ WF_vars(RemoteCancels(i))
            /\ WF_vars(Supervise) /\ WF_vars(PingerStops) /\ WF_vars(PingEnds)
-----------------------------------------------------------------------------
(* Properties                                                              *)

\* The remote sees one handshake at most, however many initialize requests
\* race for the OnceCell and whether or not the first one succeeds.
OneHandshake ==
  \A q, r \in Request :
    /\ kind[q] = "initialize" /\ rid[q] # NoId
    /\ kind[r] = "initialize" /\ rid[r] # NoId
    => q = r

\* Nothing is forwarded before a handshake has been completed, and nothing
\* the filter refuses is forwarded at all.
RemoteSeesOnlyPermitted ==
  \A r \in Request : rid[r] # NoId /\ kind[r] # "initialize" =>
    /\ kind[r] # "denied_call"
    /\ \E q \in Request : kind[q] = "initialize" /\ at[q] = "ok"

\* Nobody waits for an answer that cannot come: whoever waits for the remote
\* over a live connection has a number the remote works on or has answered,
\* although notes carry the wrong number and pings draw from the same ones.
AnswerOnItsWay ==
  \A r \in Request :
    at[r] = "connecting" \/ (at[r] = "forwarded" /\ service = "up")
      => rid[r] \in inflight \cup replies

\* ping_remote: "A failed keepalive on its own should never be the reason we
\* kill an otherwise usable connection", nor the reason that the keepalive
\* stops: a live connection keeps its pinger, only the supervisor stops it.
KeepaliveOutlastsPings ==
  Pings /\ service = "up" => pinger \in {"waiting", "pinging"}

\* Every request the local client sends is answered, if only with an error:
\* during a handshake that fails, after the connection is lost, and whatever
\* else is cancelled.
EveryRequestAnswered ==
  \A r \in Request : (at[r] = "received") ~> (at[r] \in {"ok", "error"})

\* When the remote service has ended the keepalive task ends too.
PingerEndsWithService == (service = "ended") ~> (pinger \in {"off", "stopped"})

\* README: cancellation is forwarded.  What the remote drops on a cancelled
\* notification is a request the local client has cancelled.
CancelHitsItsTarget ==
  [][\A i \in RemoteId : RemoteCancels(i) /\ i \in inflight =>
       \E r \in cancelled : rid[r] = i]_vars
=============================================================================
