--------------------------- MODULE CallbackServer ---------------------------
(***************************************************************************)
(* src/auth/callback.rs: the local server that waits for the OAuth         *)
(* redirect, from bind to the end of wait.                                 *)
(*                                                                         *)
(* Actors: the flow that owns the CallbackServer handle, the axum server   *)
(* task, one handler task per request, and the delayed shutdown task each  *)
(* handler spawns.  They share a oneshot channel and a cancellation token. *)
(* Requests on other paths never reach the handler, and connections on     *)
(* which no request was begun are closed by the shutdown: both are left    *)
(* out.                                                                    *)
(***************************************************************************)
EXTENDS Naturals, Sequences

CONSTANTS Request,    \* connections a browser may open
          FlowCanFail \* whether the flow can fail between bind and wait

ASSUME CallbackAssumption == FlowCanFail \in BOOLEAN

\* What the query string of a callback says.
Query == {"error", "code", "incomplete"}

VARIABLES
  owner,      \* the flow: "preparing" between bind and wait, ...
  server,     \* the server task
  cancelled,  \* the cancellation token
  sender,     \* code_tx still holds the sending half
  channel,    \* the value sent and not yet received, or "empty"
  result,     \* what wait is going to return
  conn,       \* state of each connection
  query,      \* what each request asked
  timer,      \* delayed shutdown tasks, by the request that spawned them
  order       \* history: requests in the order their handlers reached code_tx

vars == <<owner, server, cancelled, sender, channel, result, conn, query, timer, order>>
wire == <<sender, channel>>

TypeOK ==
  /\ owner \in {"preparing", "waiting", "joining", "returned", "dropped"}
  /\ server \in {"listening", "draining", "stopped"}
  /\ cancelled \in BOOLEAN
  /\ sender \in BOOLEAN
  /\ channel \in Query \cup {"empty"}
  /\ result \in Query \cup {"none", "timeout"}
  /\ conn \in [Request -> {"none", "open", "handling", "handled", "success", "failure"}]
  /\ query \in [Request -> Query \cup {"none"}]
  /\ timer \subseteq Request
  /\ order \in Seq(Request)

\* bind: the listener accepts connections from here on.
Init ==
  /\ owner = "preparing" /\ server = "listening" /\ cancelled = FALSE
  /\ sender = TRUE /\ channel = "empty" /\ result = "none"
  /\ conn = [r \in Request |-> "none"]
  /\ query = [r \in Request |-> "none"]
  /\ timer = {} /\ order = <<>>

-----------------------------------------------------------------------------
(* The flow between bind and wait, and wait itself.                        *)

StartWait ==
  /\ owner = "preparing"
  /\ owner' = "waiting"
  /\ UNCHANGED <<server, cancelled, wire, result, conn, query, timer, order>>

\* start_authorization fails and the handle is dropped: the server task is
\* detached and nobody cancels the token.
DropHandle ==
  /\ FlowCanFail /\ owner = "preparing"
  /\ owner' = "dropped"
  /\ UNCHANGED <<server, cancelled, wire, result, conn, query, timer, order>>

\* timeout(code_rx): a value that is there wins over the deadline.
Answered ==
  /\ owner = "waiting" /\ channel # "empty"
  /\ result' = channel /\ channel' = "empty"
  /\ cancelled' = TRUE
  /\ owner' = "joining"
  /\ UNCHANGED <<server, sender, conn, query, timer, order>>

\* Faulty variant: a timeout returns without shutting the server down.
TimedOutQuietly ==
  /\ owner = "waiting" /\ channel = "empty"
  /\ result' = "timeout"
  /\ owner' = "joining"
  /\ UNCHANGED <<server, cancelled, wire, conn, query, timer, order>>

\* Faulty variant: the deadline is looked at before the channel.
TimedOutFirst ==
  /\ owner = "waiting"
  /\ result' = "timeout"
  /\ cancelled' = TRUE
  /\ owner' = "joining"
  /\ UNCHANGED <<server, wire, conn, query, timer, order>>

TimedOut ==
  /\ owner = "waiting" /\ channel = "empty"
  /\ result' = "timeout"
  /\ cancelled' = TRUE
  /\ owner' = "joining"
  /\ UNCHANGED <<server, wire, conn, query, timer, order>>

\* Faulty variant: server_task is not awaited.
JoinedAtOnce ==
  /\ owner = "joining"
  /\ owner' = "returned"
  /\ UNCHANGED <<server, cancelled, wire, result, conn, query, timer, order>>

\* server_task.await, without a timeout.
Joined ==
  /\ owner = "joining" /\ server = "stopped"
  /\ owner' = "returned"
  /\ UNCHANGED <<server, cancelled, wire, result, conn, query, timer, order>>

-----------------------------------------------------------------------------
(* The server task: axum's graceful shutdown stops accepting and then      *)
(* waits for the connections it has accepted.                              *)

\* A connection on which a request has begun to arrive.
Accept(r) ==
  /\ server = "listening" /\ conn[r] = "none"
  /\ conn' = [conn EXCEPT ![r] = "open"]
  /\ UNCHANGED <<owner, server, cancelled, wire, result, query, timer, order>>

\* Faulty variant: the query is passed on without being looked at.
ReceiveUnread(r, q) ==
  /\ server # "stopped" /\ conn[r] = "open"
  /\ conn' = [conn EXCEPT ![r] = "handling"]
  /\ UNCHANGED <<owner, server, cancelled, wire, result, query, timer, order>>

\* The request head has arrived and the handler starts.
Receive(r, q) ==
  /\ server # "stopped" /\ conn[r] = "open"
  /\ conn' = [conn EXCEPT ![r] = "handling"]
  /\ query' = [query EXCEPT ![r] = q]
  /\ UNCHANGED <<owner, server, cancelled, wire, result, timer, order>>

Drain ==
  /\ server = "listening" /\ cancelled
  /\ server' = "draining"
  /\ UNCHANGED <<owner, cancelled, wire, result, conn, query, timer, order>>

Stop ==
  /\ server = "draining"
  /\ \A r \in Request : conn[r] \in {"none", "success", "failure"}
  /\ server' = "stopped"
  /\ UNCHANGED <<owner, cancelled, wire, result, conn, query, timer, order>>

-----------------------------------------------------------------------------
(* handle_callback                                                         *)

\* Faulty variant: the channel is read only by wait.
ReceivedByWait == owner = "waiting"

\* A send after the receiver is gone returns an error that is ignored.
Received == owner \in {"preparing", "waiting"}

\* Faulty variant: the sender is not taken, and the last callback wins.
DeliverLast(r) ==
  /\ conn[r] = "handling"
  /\ conn' = [conn EXCEPT ![r] = "handled"]
  /\ channel' = IF Received THEN query[r] ELSE channel
  /\ order' = Append(order, r)
  /\ UNCHANGED <<owner, server, cancelled, sender, result, query, timer>>

\* code_tx.lock().await.take(), and send if the sender was still there.
Deliver(r) ==
  /\ conn[r] = "handling"
  /\ conn' = [conn EXCEPT ![r] = "handled"]
  /\ sender' = FALSE
  /\ channel' = IF sender /\ Received THEN query[r] ELSE channel
  /\ order' = Append(order, r)
  /\ UNCHANGED <<owner, server, cancelled, result, query, timer>>

\* Spawn the delayed shutdown, and answer by what the query was.
Respond(r) ==
  /\ conn[r] = "handled"
  /\ timer' = timer \cup {r}
  /\ conn' = [conn EXCEPT ![r] = IF query[r] = "code" THEN "success" ELSE "failure"]
  /\ UNCHANGED <<owner, server, cancelled, wire, result, query, order>>

\* 100 ms later.
DelayedCancel(r) ==
  /\ r \in timer
  /\ timer' = timer \ {r}
  /\ cancelled' = TRUE
  /\ UNCHANGED <<owner, server, wire, result, conn, query, order>>

-----------------------------------------------------------------------------
Browser == \E r \in Request : Accept(r) \/ \E q \in Query : Receive(r, q)

Handler(r) == Deliver(r) \/ Respond(r) \/ DelayedCancel(r)

Flow == StartWait \/ DropHandle \/ Answered \/ TimedOut \/ Joined

Next == Browser \/ Flow \/ Drain \/ Stop \/ \E r \in Request : Handler(r)

Spec == Init /\ [][Next]_vars

\* tokio runs every ready task and fires every timer; no browser has to
\* complete what it has begun.
FairSpec == /\ Spec
            /\ WF_vars(Flow) /\ WF_vars(Drain) /\ WF_vars(Stop)
            /\ \A r \in Request : WF_vars(Handler(r))

-----------------------------------------------------------------------------
(* Properties                                                              *)

\* wait returns what the first callback said, whichever handler tasks race
\* for the channel and however late the others are.
AnswerIsFirstCallback ==
  result \in Query => Len(order) > 0 /\ result = query[order[1]]

\* When wait returns, the port is free and every browser that was let in has
\* its page: nothing is cut off by the process going on or exiting.
NobodyCutOff ==
  owner = "returned" =>
    server = "stopped" /\ \A r \in Request : conn[r] \in {"none", "success", "failure"}

\* A wait that times out has missed no callback, not even one that came
\* before wait was called.
TimeoutMeansSilence ==
  [][result = "none" /\ result' = "timeout" => order = <<>>]_vars

\* wait returns, answer or not, unless some request is begun and for ever
\* left unfinished: the join of the server task waits for that one, past any
\* timeout.  Nothing else holds it up, whichever task runs first.
WaitReturns ==
  (owner = "waiting")
    ~> (owner = "returned" \/ \E r \in Request : [](conn[r] = "open"))

\* Seen from the flow, the two tasks, the channel and the token come to one
\* answer or a timeout: the server implements CallbackPromise.
Promise == INSTANCE CallbackPromise WITH
             owner <- IF owner = "joining" THEN "waiting" ELSE owner,
             heard <- IF order = <<>> THEN "none" ELSE query[order[1]],
             outcome <- result
ImplementsPromise == Promise!Spec
=============================================================================
