------------------------- MODULE CallbackServerProofs -------------------------
(***************************************************************************)
(* For every set of connections a browser may open, and whether or not the *)
(* flow gives up before it waits:                                          *)
(*   - CallbackServer is type correct;                                     *)
(*   - the answer of wait is the first callback, and a wait that times out *)
(*     has missed none;                                                    *)
(*   - when wait returns nobody is cut off;                                *)
(*   - the server implements CallbackPromise.                              *)
(***************************************************************************)
EXTENDS CallbackServer, SequenceTheorems, TLAPS

-----------------------------------------------------------------------------
(* The inductive invariant, by what it relates.                            *)

Delivered(r) == conn[r] \in {"handled", "success", "failure"}

\* A handler knows its query before it looks for the sender.
QueryHolds ==
  \A r \in Request : conn[r] = "handling" \/ Delivered(r) => query[r] \in Query

\* The sender is taken by the first handler, and what has been sent and not
\* received is what that handler sent.
SenderHolds ==
  /\ sender <=> order = <<>>
  /\ sender => channel = "empty"
  /\ order # <<>> => Delivered(order[1])
  /\ channel # "empty" => channel = query[order[1]]
  /\ order # <<>> /\ Received => channel # "empty"

\* The result is set where wait leaves the select.
WaitHolds ==
  /\ result = "none" <=> owner \in {"preparing", "waiting", "dropped"}
  /\ result \in Query => order # <<>> /\ result = query[order[1]]

\* A server that has stopped has no request in it.
StopHolds ==
  /\ server = "stopped" => \A r \in Request : conn[r] \in {"none", "success", "failure"}
  /\ owner = "returned" => server = "stopped"

ServerInv == TypeOK /\ QueryHolds /\ SenderHolds /\ WaitHolds /\ StopHolds

-----------------------------------------------------------------------------
\* The first of a sequence stays the first when another is appended to it.
LEMMA AppendKeepsFirst ==
  ASSUME NEW S, NEW seq \in Seq(S), NEW e \in S
  PROVE  /\ Append(seq, e) \in Seq(S)
         /\ Append(seq, e) # <<>>
         /\ seq = <<>> => Append(seq, e)[1] = e
         /\ seq # <<>> => Append(seq, e)[1] = seq[1] /\ seq[1] \in S
  BY EmptySeq, ElementOfSeq

LEMMA ServerInit == Init => ServerInv
  BY EmptySeq DEF Init, ServerInv, TypeOK, QueryHolds, SenderHolds, WaitHolds, StopHolds,
         Delivered, Received, Query

LEMMA ServerStep == ServerInv /\ [Next]_vars => ServerInv'
<1> SUFFICES ASSUME ServerInv, [Next]_vars PROVE ServerInv'
  OBVIOUS
<1> USE DEF ServerInv, TypeOK, QueryHolds, SenderHolds, WaitHolds, StopHolds,
            Delivered, Received, Query, wire
<1>0. order # <<>> => order[1] \in Request
  BY EmptySeq, ElementOfSeq
<1>1. CASE StartWait
  BY <1>0, <1>1 DEF StartWait
<1>2. CASE DropHandle
  BY <1>0, <1>2 DEF DropHandle
<1>3. CASE Answered
  BY <1>0, <1>3 DEF Answered
<1>4. CASE TimedOut
  BY <1>0, <1>4 DEF TimedOut
<1>5. CASE Joined
  BY <1>0, <1>5 DEF Joined
<1>6. ASSUME NEW r \in Request, Accept(r) PROVE ServerInv'
  BY <1>0, <1>6 DEF Accept
<1>7. ASSUME NEW r \in Request, NEW q \in Query, Receive(r, q) PROVE ServerInv'
  BY <1>0, <1>7 DEF Receive
<1>8. CASE Drain
  BY <1>0, <1>8 DEF Drain
<1>9. CASE Stop
  BY <1>0, <1>9 DEF Stop
<1>10. ASSUME NEW r \in Request, Deliver(r) PROVE ServerInv'
  <2>1. /\ order' \in Seq(Request) /\ order' # <<>>
        /\ order = <<>> => order'[1] = r
        /\ order # <<>> => order'[1] = order[1]
    BY <1>10, AppendKeepsFirst DEF Deliver
  <2>2. TypeOK' /\ QueryHolds'
    BY <1>10, <2>1 DEF Deliver
  <2>3. SenderHolds'
    BY <1>0, <1>10, <2>1 DEF Deliver
  <2>4. WaitHolds' /\ StopHolds'
    BY <1>0, <1>10, <2>1 DEF Deliver
  <2> QED
    BY <2>2, <2>3, <2>4
<1>11. ASSUME NEW r \in Request, Respond(r) PROVE ServerInv'
  BY <1>0, <1>11 DEF Respond
<1>12. ASSUME NEW r \in Request, DelayedCancel(r) PROVE ServerInv'
  BY <1>0, <1>12 DEF DelayedCancel
<1>13. CASE UNCHANGED vars
  BY <1>13 DEF vars
<1> QED
  BY <1>1, <1>2, <1>3, <1>4, <1>5, <1>6, <1>7, <1>8, <1>9, <1>10, <1>11, <1>12, <1>13
     DEF Next, Browser, Flow, Handler

LEMMA ServerInvariant == Spec => []ServerInv
  BY ServerInit, ServerStep, PTL DEF Spec

-----------------------------------------------------------------------------
\* Every variable keeps its type: a handler never sends what it has not read.
THEOREM TypeCorrect == Spec => []TypeOK
<1>1. ServerInv => TypeOK
  BY DEF ServerInv
<1> QED
  BY ServerInvariant, <1>1, PTL

\* wait returns what the first callback said, however many race for the
\* sender and whenever they come.
THEOREM FirstCallbackAnswers == Spec => []AnswerIsFirstCallback
<1>1. ServerInv => AnswerIsFirstCallback
  BY EmptySeq DEF ServerInv, WaitHolds, AnswerIsFirstCallback, TypeOK
<1> QED
  BY ServerInvariant, <1>1, PTL

\* The join of the server task is what makes a return from wait safe: the
\* server has stopped, and it stops only without unanswered requests.
THEOREM EverybodyIsAnswered == Spec => []NobodyCutOff
<1>1. ServerInv => NobodyCutOff
  BY DEF ServerInv, StopHolds, NobodyCutOff
<1> QED
  BY ServerInvariant, <1>1, PTL

\* A deadline that finds the channel empty has been overtaken by no callback.
THEOREM TimeoutIsHonest == Spec => TimeoutMeansSilence
<1>1. ServerInv /\ [Next]_vars => [result = "none" /\ result' = "timeout" => order = <<>>]_vars
  <2> SUFFICES ASSUME ServerInv, Next, result = "none", result' = "timeout"
               PROVE  order = <<>>
    BY DEF vars
  <2>1. CASE TimedOut
    BY <2>1 DEF TimedOut, ServerInv, SenderHolds, Received
  <2>2. CASE Answered
    BY <2>2 DEF Answered, ServerInv, TypeOK, Query
  <2>3. ASSUME ~TimedOut, ~Answered PROVE result' = result
    BY <2>3 DEF Next, Browser, Flow, Handler, StartWait, DropHandle, Joined, Accept, Receive,
                Drain, Stop, Deliver, Respond, DelayedCancel
  <2> QED
    BY <2>1, <2>2, <2>3
<1> QED
  BY ServerInvariant, <1>1, PTL DEF Spec, TimeoutMeansSilence

-----------------------------------------------------------------------------
(* The refinement.  Every step of the flow is one of the promise, the first*)
(* delivery is its Hear, and all others are stutters.                      *)

LEMMA PromiseStep ==
  ServerInv /\ ServerInv' /\ [Next]_vars => [Promise!Next]_Promise!vars
<1> SUFFICES ASSUME ServerInv, ServerInv', [Next]_vars
             PROVE  [Promise!Next]_Promise!vars
  OBVIOUS
<1> USE DEF Promise!Next, Promise!vars, Promise!Wait, Promise!Drop, Promise!Hear,
            Promise!Settle, Promise!Return
<1>0. order # <<>> => order[1] \in Request /\ query[order[1]] \in Query
  BY EmptySeq, ElementOfSeq DEF ServerInv, TypeOK, QueryHolds, SenderHolds
<1>1. CASE StartWait
  BY <1>1 DEF StartWait, wire
<1>2. CASE DropHandle
  BY <1>2 DEF DropHandle, wire
<1>3. CASE Answered
  <2>1. order # <<>> /\ channel = query[order[1]]
    BY <1>3 DEF Answered, ServerInv, SenderHolds
  <2>2. result = "none"
    BY <1>3 DEF Answered, ServerInv, WaitHolds
  <2>3. query[order[1]] # "none"
    BY <1>0, <2>1 DEF Query
  <2> QED
    BY <1>3, <2>1, <2>2, <2>3 DEF Answered
<1>4. CASE TimedOut
  <2>1. order = <<>> /\ result = "none"
    BY <1>4 DEF TimedOut, ServerInv, SenderHolds, WaitHolds, Received
  <2> QED
    BY <1>4, <2>1 DEF TimedOut, wire
<1>5. CASE Joined
  <2>1. result # "none"
    BY <1>5 DEF Joined, ServerInv, WaitHolds
  <2> QED
    BY <1>5, <2>1 DEF Joined, wire
<1>6. ASSUME NEW r \in Request, Deliver(r) PROVE [Promise!Next]_Promise!vars
  <2>1. CASE order = <<>>
    <3>1. order' # <<>> /\ order'[1] = r
      BY <1>6, <2>1, AppendKeepsFirst DEF Deliver, ServerInv, TypeOK
    <3>2. query[r] \in Query
      BY <1>6 DEF Deliver, ServerInv, QueryHolds
    <3> QED
      BY <1>6, <2>1, <3>1, <3>2 DEF Deliver
  <2>2. CASE order # <<>>
    <3>1. order' # <<>> /\ order'[1] = order[1]
      BY <1>6, <2>2, AppendKeepsFirst DEF Deliver, ServerInv, TypeOK
    <3> QED
      BY <1>6, <2>2, <3>1 DEF Deliver
  <2> QED
    BY <2>1, <2>2
<1>7. ASSUME NEW r \in Request, NEW q \in Query, Receive(r, q)
      PROVE  [Promise!Next]_Promise!vars
  <2>1. order # <<>> => order[1] # r
    BY <1>7 DEF Receive, ServerInv, SenderHolds, Delivered
  <2>2. order # <<>> => query'[order[1]] = query[order[1]]
    BY <1>0, <1>7, <2>1 DEF Receive, ServerInv, TypeOK
  <2> QED
    BY <1>7, <2>2 DEF Receive, wire
<1>8. CASE UNCHANGED <<owner, order, query, result>>
  BY <1>8
<1> QED
  BY <1>1, <1>2, <1>3, <1>4, <1>5, <1>6, <1>7, <1>8
     DEF Next, Browser, Flow, Handler, Accept, Drain, Stop, Respond, DelayedCancel, vars

\* What AuthFlow takes a redirect to be is what the two tasks, the channel and
\* the token amount to, for any number of requests.
THEOREM ServerImplementsPromise == Spec => ImplementsPromise
<1>1. Init => Promise!Init
  BY DEF Init, Promise!Init
<1> QED
  BY <1>1, ServerInvariant, PromiseStep, PTL DEF Spec, ImplementsPromise, Promise!Spec
=============================================================================
