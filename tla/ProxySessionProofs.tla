-------------------------- MODULE ProxySessionProofs --------------------------
(***************************************************************************)
(* For every number of requests and pings, with or without keepalive,      *)
(* cancellations and a breaking connection:                                *)
(*   - ProxySession is type correct;                                       *)
(*   - the remote sees one handshake at most;                              *)
(*   - what is forwarded has passed the filter, after a handshake;         *)
(*   - nobody waits for an answer that cannot come;                        *)
(*   - pings do not end the task that sends them.                          *)
(***************************************************************************)
EXTENDS ProxySession, FiniteSetTheorems, TLAPS

-----------------------------------------------------------------------------
(* The inductive invariant.                                                *)

Numbered == {r \in Request : rid[r] # NoId}

\* A request gets its remote number when it leaves "received", and the one
\* that is connecting holds the cell.
RequestHolds ==
  \A r \in Request :
    /\ at[r] = "unsent" <=> r >= sent
    /\ at[r] \in {"unsent", "received"} => rid[r] = NoId
    /\ at[r] = "connecting" => kind[r] = "initialize" /\ rid[r] # NoId /\ cell = "busy"

\* Nobody has a number while the transport is there to be taken.
TransportHolds == transport => cell = "empty" /\ Numbered = {}

\* The cell is set by an initialize that succeeded, and forwarding needs it.
PeerHolds ==
  /\ cell = "set" => \E q \in Request : kind[q] = "initialize" /\ at[q] = "ok"
  /\ \A r \in Request : rid[r] # NoId /\ kind[r] # "initialize" =>
       cell = "set" /\ kind[r] # "denied_call"

\* The numbers of the remote connection go to requests, one each, and pings.
CountHolds == nextId \in Nat /\ nextId <= Cardinality(Numbered) + pings

SessionInv ==
  TypeOK /\ RequestHolds /\ TransportHolds /\ PeerHolds /\ CountHolds /\ OneHandshake

-----------------------------------------------------------------------------
\* There are no more numbered requests than requests.
LEMMA NumberedIsBounded ==
  /\ IsFiniteSet(Numbered)
  /\ Cardinality(Numbered) \in Nat
  /\ Cardinality(Numbered) <= MaxRequest + 1
<1>1. IsFiniteSet(Request) /\ Cardinality(Request) = MaxRequest + 1
  BY FS_Interval, ProxyAssumption DEF Request
<1>2. Numbered \subseteq Request
  BY DEF Numbered
<1> QED
  BY <1>1, <1>2, FS_Subset, FS_CardinalityType

\* Numbering one more request counts one more.
LEMMA NumberingCounts ==
  ASSUME SessionInv, NEW r \in Request, rid[r] = NoId, rid' = [rid EXCEPT ![r] = nextId]
  PROVE  Cardinality(Numbered') = Cardinality(Numbered) + 1
<1>1. Numbered' = Numbered \cup {r}
  BY ProxyAssumption DEF Numbered, SessionInv, TypeOK, CountHolds, NoId, RemoteId, Request
<1>2. r \notin Numbered
  BY DEF Numbered
<1> QED
  BY <1>1, <1>2, NumberedIsBounded, FS_AddElement

\* While a request has no number, one is left to be given.
LEMMA NumberedLeavesOne ==
  ASSUME NEW r \in Request, rid[r] = NoId
  PROVE  Cardinality(Numbered) <= MaxRequest
<1>1. IsFiniteSet(Request) /\ Cardinality(Request) = MaxRequest + 1
  BY FS_Interval, ProxyAssumption DEF Request
<1>2. Numbered \subseteq Request \ {r}
  BY DEF Numbered
<1>3. IsFiniteSet(Request \ {r}) /\ Cardinality(Request \ {r}) = MaxRequest
  BY <1>1, FS_RemoveElement, ProxyAssumption
<1> QED
  BY <1>2, <1>3, FS_Subset

LEMMA SessionInit == Init => SessionInv
<1> SUFFICES ASSUME Init PROVE SessionInv
  OBVIOUS
<1> USE ProxyAssumption DEF Init, Request, RemoteId, NoId
<1>1. Numbered = {} /\ Cardinality(Numbered) = 0
  BY FS_EmptySet DEF Numbered
<1>2. TypeOK
  <2>1. sent \in 0 .. MaxRequest + 1 /\ nextId \in RemoteId /\ pings \in 0 .. MaxPing
    OBVIOUS
  <2>2. /\ at \in [Request -> {"unsent", "received", "connecting", "forwarded", "ok", "error"}]
        /\ kind \in [Request -> Kind \cup {"none"}]
        /\ rid \in [Request -> RemoteId \cup {NoId}]
    OBVIOUS
  <2> QED
    BY <2>1, <2>2 DEF TypeOK
<1>3. RequestHolds /\ TransportHolds /\ PeerHolds /\ CountHolds /\ OneHandshake
  BY <1>1 DEF RequestHolds, TransportHolds, PeerHolds, CountHolds, OneHandshake, Kind
<1> QED
  BY <1>2, <1>3 DEF SessionInv

\* One case per action; those that number a request or a ping have to find a
\* number left.
LEMMA SessionStep == SessionInv /\ [Next]_vars => SessionInv'
<1> SUFFICES ASSUME SessionInv, [Next]_vars PROVE SessionInv'
  OBVIOUS
<1> USE ProxyAssumption
<1>a. Cardinality(Numbered) \in Nat /\ Cardinality(Numbered) <= MaxRequest + 1
  BY NumberedIsBounded
<1>b. rid' = rid => Numbered' = Numbered
  BY DEF Numbered
<1> USE DEF SessionInv, TypeOK, RequestHolds, TransportHolds, PeerHolds, CountHolds,
            OneHandshake, Kind, Request, RemoteId, NoId, Move,
            request, connection, remote, keepalive
<1>1. CASE Send
  BY <1>a, <1>b, <1>1 DEF Send
<1>2. ASSUME NEW r \in Request, Cancel(r) PROVE SessionInv'
  <2>1. \A q \in Request : at'[q] = at[q] \/ (at[q] = "forwarded" /\ at'[q] = "error")
    BY <1>2 DEF Cancel
  <2>2. at' \in [Request -> {"unsent", "received", "connecting", "forwarded", "ok", "error"}]
    BY <1>2 DEF Cancel
  <2>3. notes' \subseteq Request /\ cancelled' \subseteq Request
    BY <1>2 DEF Cancel
  <2>4. TypeOK'
    BY <1>2, <2>2, <2>3 DEF Cancel
  <2>5. RequestHolds' /\ PeerHolds'
    BY <1>2, <2>1 DEF Cancel
  <2> QED
    BY <1>a, <1>b, <1>2, <2>4, <2>5 DEF Cancel
<1>3. ASSUME NEW r \in Request, InitializeAgain(r) PROVE SessionInv'
  BY <1>a, <1>b, <1>3 DEF InitializeAgain
<1>4. ASSUME NEW r \in Request, Connect(r) PROVE SessionInv'
  <2>1. CASE transport
    <3>0. rid[r] = NoId
      BY <1>4 DEF Connect
    <3>1. /\ Cardinality(Numbered') = Cardinality(Numbered) + 1
          /\ Cardinality(Numbered) <= MaxRequest
      BY <1>4, <2>1, <3>0, NumberingCounts, NumberedLeavesOne DEF Connect
    <3>2. CountHolds' /\ nextId \in RemoteId
      BY <1>a, <1>4, <2>1, <3>1 DEF Connect
    <3>3. TypeOK'
      <4>1. nextId' \in RemoteId \cup {MaxRequest + MaxPing + 1}
        BY <1>4, <2>1, <3>2 DEF Connect
      <4>2. inflight' \subseteq RemoteId
        BY <1>4, <2>1, <3>2 DEF Connect
      <4>3. /\ at' \in [Request -> {"unsent", "received", "connecting", "forwarded", "ok", "error"}]
            /\ rid' \in [Request -> RemoteId \cup {NoId}]
        BY <1>4, <2>1, <3>2 DEF Connect
      <4> QED
        BY <1>4, <2>1, <4>1, <4>2, <4>3 DEF Connect
    <3>4. \A q \in Request : rid'[q] # NoId => q = r
      BY <1>4, <2>1 DEF Connect, Numbered
    <3>5. RequestHolds' /\ TransportHolds' /\ PeerHolds' /\ OneHandshake'
      BY <1>4, <2>1, <3>4, <3>2 DEF Connect
    <3> QED
      BY <3>2, <3>3, <3>5
  <2>2. CASE ~transport
    <3>1. at' = [at EXCEPT ![r] = "error"] /\ UNCHANGED <<kind, rid, sent, transport, cell, nextId, pings>>
      BY <1>4, <2>2 DEF Connect
    <3>2. TypeOK'
      BY <1>4, <2>2 DEF Connect
    <3>3. RequestHolds' /\ TransportHolds' /\ PeerHolds' /\ CountHolds' /\ OneHandshake'
      BY <1>b, <1>4, <3>1 DEF Connect
    <3> QED
      BY <3>2, <3>3
  <2> QED
    BY <2>1, <2>2
<1>5. ASSUME NEW r \in Request, Connected(r) PROVE SessionInv'
  BY <1>a, <1>b, <1>5 DEF Connected
<1>6. ASSUME NEW r \in Request, ConnectFails(r) PROVE SessionInv'
  BY <1>a, <1>b, <1>6 DEF ConnectFails
<1>7. ASSUME NEW r \in Request, Refuse(r) PROVE SessionInv'
  BY <1>a, <1>b, <1>7 DEF Refuse
<1>8. ASSUME NEW r \in Request, Forward(r) PROVE SessionInv'
  <2>1. Cardinality(Numbered') = Cardinality(Numbered) + 1
    BY <1>8, NumberingCounts DEF Forward
  <2>2. Cardinality(Numbered) <= MaxRequest
    BY <1>a, <1>8, NumberedLeavesOne DEF Forward
  <2>3. CountHolds' /\ nextId \in RemoteId
    BY <1>a, <1>8, <2>1, <2>2 DEF Forward
  <2>4. TypeOK'
    <3>1. \E place \in {"forwarded", "error"} : Move(r, place)
      BY <1>8 DEF Forward
    <3>2. at' \in [Request -> {"unsent", "received", "connecting", "forwarded", "ok", "error"}]
      BY <3>1
    <3>3. inflight' \subseteq RemoteId
      BY <1>8, <2>3 DEF Forward
    <3>4. rid' \in [Request -> RemoteId \cup {NoId}] /\ nextId' \in RemoteId \cup {MaxRequest + MaxPing + 1}
      BY <1>8, <2>3 DEF Forward
    <3> QED
      BY <1>8, <3>2, <3>3, <3>4 DEF Forward
  <2>5. RequestHolds' /\ TransportHolds' /\ PeerHolds' /\ OneHandshake'
    BY <1>8, <2>3 DEF Forward
  <2> QED
    BY <2>3, <2>4, <2>5
<1>9. ASSUME NEW r \in Request, Answer(r) PROVE SessionInv'
  BY <1>a, <1>b, <1>9 DEF Answer
<1>10. ASSUME NEW r \in Request, Abandon(r) PROVE SessionInv'
  BY <1>a, <1>b, <1>10 DEF Abandon
<1>11. ASSUME NEW i \in RemoteId, RemoteAnswers(i) PROVE SessionInv'
  BY <1>a, <1>b, <1>11 DEF RemoteAnswers
<1>12. ASSUME NEW i \in RemoteId, RemoteCancels(i) PROVE SessionInv'
  BY <1>a, <1>b, <1>12 DEF RemoteCancels
<1>13. CASE ServiceEnds
  BY <1>a, <1>b, <1>13 DEF ServiceEnds
<1>14. CASE Supervise
  BY <1>a, <1>b, <1>14 DEF Supervise
<1>15. CASE PingerStops
  BY <1>a, <1>b, <1>15 DEF PingerStops
<1>16. CASE Ping
  <2>1. nextId \in RemoteId /\ nextId <= Cardinality(Numbered) + pings
    BY <1>a, <1>16 DEF Ping
  <2>2. TypeOK'
    <3>1. nextId' \in RemoteId \cup {MaxRequest + MaxPing + 1} /\ pings' \in 0 .. MaxPing
      BY <1>16, <2>1 DEF Ping
    <3>2. inflight' \subseteq RemoteId
      BY <1>16, <2>1 DEF Ping
    <3>3. pinger' \in {"off", "waiting", "pinging", "stopped"} /\ pingId' \in RemoteId \cup {NoId}
      BY <1>16, <2>1 DEF Ping
    <3> QED
      BY <1>16, <3>1, <3>2, <3>3 DEF Ping
  <2>3. CountHolds'
    BY <1>a, <1>b, <1>16, <2>1 DEF Ping
  <2> QED
    BY <1>b, <1>16, <2>2, <2>3 DEF Ping
<1>17. CASE PingEnds
  BY <1>a, <1>b, <1>17 DEF PingEnds
<1>18. CASE UNCHANGED vars
  BY <1>a, <1>b, <1>18 DEF vars
<1> QED
  BY <1>1, <1>2, <1>3, <1>4, <1>5, <1>6, <1>7, <1>8, <1>9, <1>10, <1>11, <1>12, <1>13,
     <1>14, <1>15, <1>16, <1>17, <1>18 DEF Next, Handle

LEMMA SessionInvariant == Spec => []SessionInv
  BY SessionInit, SessionStep, PTL DEF Spec

-----------------------------------------------------------------------------
(* Who waits for which number.                                             *)

\* A number of the remote connection is drawn once, for one request or one
\* ping, and a note names one that has been drawn.
NumbersHold ==
  /\ \A r \in Request : rid[r] # NoId => rid[r] < nextId
  /\ \A q, r \in Request : rid[q] # NoId /\ rid[q] = rid[r] => q = r
  /\ pingId # NoId => pingId < nextId /\ \A r \in Request : rid[r] # pingId
  /\ \A n \in notes : n < nextId

\* Whoever is forwarded has a number no note is about: the one that waited
\* under the number of a note was given up when the note was sent.
WaitHolds ==
  /\ \A r \in Request : at[r] = "forwarded" =>
       kind[r] # "initialize" /\ rid[r] # NoId /\ rid[r] \notin notes
  /\ cell # "set" => service = "none" /\ notes = {}
  /\ cell = "set" => service # "none"

LEMMA NumbersStep ==
  ASSUME SessionInv, NumbersHold, [Next]_vars
  PROVE  NumbersHold'
<1> USE ProxyAssumption
<1>0. /\ rid \in [Request -> RemoteId \cup {NoId}] /\ nextId \in Nat
      /\ pingId \in RemoteId \cup {NoId} /\ notes \subseteq Request
  BY DEF SessionInv, TypeOK, CountHolds
<1>1. CASE UNCHANGED <<rid, nextId, pingId, notes>>
  BY <1>1 DEF NumbersHold
<1>2. ASSUME NEW r \in Request, rid' = [rid EXCEPT ![r] = nextId], nextId' = nextId + 1,
             UNCHANGED <<pingId, notes>>
      PROVE  NumbersHold'
  BY <1>0, <1>2 DEF NumbersHold, Request, RemoteId, NoId
<1>3. CASE UNCHANGED <<rid, nextId, pingId>> /\ notes' \subseteq notes
  BY <1>3 DEF NumbersHold
<1>4. CASE UNCHANGED <<rid, nextId, pingId>> /\ \E r \in Request : r < nextId /\ notes' = notes \cup {r}
  BY <1>4 DEF NumbersHold
<1>5. CASE UNCHANGED <<rid, notes>> /\ pingId' = nextId /\ nextId' = nextId + 1
  BY <1>0, <1>5 DEF NumbersHold, Request, RemoteId, NoId
<1>6. CASE UNCHANGED <<rid, nextId, notes>> /\ pingId' = NoId
  BY <1>6 DEF NumbersHold
<1> USE DEF request, connection, remote, keepalive, Move
<1>7. ASSUME NEW r \in Request, Cancel(r) PROVE NumbersHold'
  <2>1. \/ UNCHANGED notes
        \/ r < nextId /\ notes' = notes \cup {r}
    BY <1>7 DEF Cancel
  <2> QED
    BY <1>1, <1>4, <1>7, <2>1 DEF Cancel
<1>8. ASSUME NEW r \in Request, Connect(r) \/ Forward(r) PROVE NumbersHold'
  BY <1>1, <1>2, <1>8 DEF Connect, Forward
<1>9. ASSUME NEW r \in Request, InitializeAgain(r) \/ Connected(r) \/ ConnectFails(r) \/ Refuse(r)
                                \/ Answer(r) \/ Abandon(r)
      PROVE  NumbersHold'
  BY <1>1, <1>9 DEF InitializeAgain, Connected, ConnectFails, Refuse, Answer, Abandon
<1>10. ASSUME NEW i \in RemoteId, RemoteAnswers(i) \/ RemoteCancels(i) PROVE NumbersHold'
  BY <1>1, <1>3, <1>10 DEF RemoteAnswers, RemoteCancels
<1>11. CASE Send \/ Supervise \/ PingerStops
  BY <1>1, <1>11 DEF Send, Supervise, PingerStops
<1>12. CASE ServiceEnds
  BY <1>3, <1>12 DEF ServiceEnds
<1>13. CASE Ping
  BY <1>1, <1>5, <1>13 DEF Ping
<1>14. CASE PingEnds
  BY <1>6, <1>14 DEF PingEnds
<1>15. CASE UNCHANGED vars
  BY <1>1, <1>15 DEF vars
<1> QED
  BY <1>7, <1>8, <1>9, <1>10, <1>11, <1>12, <1>13, <1>14, <1>15 DEF Next, Handle

LEMMA WaitStep ==
  ASSUME SessionInv, NumbersHold, WaitHolds, [Next]_vars
  PROVE  WaitHolds'
<1> USE ProxyAssumption
<1>0. /\ rid \in [Request -> RemoteId \cup {NoId}] /\ nextId \in Nat
      /\ at \in [Request -> {"unsent", "received", "connecting", "forwarded", "ok", "error"}]
      /\ notes \subseteq Request
      /\ kind \in [Request -> Kind \cup {"none"}]
      /\ cell \in {"empty", "busy", "set"} /\ service \in {"none", "up", "ended"}
  BY DEF SessionInv, TypeOK, CountHolds
<1>a. \A r \in Request : at[r] = "connecting" => cell = "busy"
  BY DEF SessionInv, RequestHolds
<1>b. \A n \in notes : n < nextId
  BY DEF NumbersHold
<1>c. \A r \in Request : r >= sent => at[r] = "unsent"
  BY DEF SessionInv, RequestHolds
<1> USE <1>0 DEF WaitHolds, request, connection, remote, keepalive, Move
<1>1. CASE Send
  BY <1>1 DEF Send
<1>2. ASSUME NEW r \in Request, Cancel(r) PROVE WaitHolds'
  BY <1>2 DEF Cancel
<1>3. ASSUME NEW r \in Request, Connect(r) PROVE WaitHolds'
  BY <1>3 DEF Connect
<1>4. ASSUME NEW r \in Request, Connected(r) PROVE WaitHolds'
  BY <1>4, <1>a DEF Connected
<1>5. ASSUME NEW r \in Request, ConnectFails(r) PROVE WaitHolds'
  BY <1>5, <1>a DEF ConnectFails
<1>6. ASSUME NEW r \in Request, InitializeAgain(r) \/ Refuse(r) \/ Answer(r) \/ Abandon(r)
      PROVE  WaitHolds'
  BY <1>6 DEF InitializeAgain, Refuse, Answer, Abandon
<1>7. ASSUME NEW r \in Request, Forward(r) PROVE WaitHolds'
  <2>1. nextId \notin notes /\ nextId # NoId
    BY <1>b DEF NoId, Request
  <2> QED
    BY <1>7, <2>1 DEF Forward
<1>8. ASSUME NEW i \in RemoteId, RemoteAnswers(i) \/ RemoteCancels(i) PROVE WaitHolds'
  BY <1>8 DEF RemoteAnswers, RemoteCancels
<1>9. CASE ServiceEnds
  BY <1>9 DEF ServiceEnds
<1>10. CASE Supervise \/ PingerStops \/ Ping \/ PingEnds
  BY <1>10 DEF Supervise, PingerStops, Ping, PingEnds
<1>11. CASE UNCHANGED vars
  BY <1>11 DEF vars
<1> QED
  BY <1>1, <1>2, <1>3, <1>4, <1>5, <1>6, <1>7, <1>8, <1>9, <1>10, <1>11 DEF Next, Handle

\* An answer is taken by the one it is for, a note withdraws nobody's number,
\* and a handshake that fails has nobody waiting beside it.
LEMMA AnswerStep ==
  ASSUME SessionInv, NumbersHold, WaitHolds, AnswerOnItsWay, [Next]_vars
  PROVE  AnswerOnItsWay'
<1> USE ProxyAssumption
<1>0. /\ rid \in [Request -> RemoteId \cup {NoId}] /\ nextId \in Nat
      /\ at \in [Request -> {"unsent", "received", "connecting", "forwarded", "ok", "error"}]
      /\ cell \in {"empty", "busy", "set"} /\ service \in {"none", "up", "ended"}
  BY DEF SessionInv, TypeOK, CountHolds
<1>a. /\ \A r \in Request : at[r] = "connecting" =>
           kind[r] = "initialize" /\ rid[r] # NoId /\ cell = "busy"
      /\ \A q, r \in Request : at[q] = "connecting" /\ at[r] = "connecting" => q = r
  BY DEF SessionInv, RequestHolds, OneHandshake
<1>b. /\ \A r \in Request : at[r] = "forwarded" => rid[r] # NoId /\ rid[r] \notin notes
      /\ cell # "set" => service = "none" /\ notes = {}
  BY DEF WaitHolds
<1>c. /\ \A q, r \in Request : rid[q] # NoId /\ rid[q] = rid[r] => q = r
      /\ pingId # NoId => \A r \in Request : rid[r] # pingId
  BY DEF NumbersHold
<1>d. \A r \in Request : r >= sent => at[r] = "unsent"
  BY DEF SessionInv, RequestHolds
<1> USE <1>0 DEF AnswerOnItsWay, request, connection, remote, keepalive, Move
<1>1. CASE Send
  BY <1>1 DEF Send
<1>2. ASSUME NEW r \in Request, Cancel(r) PROVE AnswerOnItsWay'
  BY <1>2 DEF Cancel
<1>3. ASSUME NEW r \in Request, Connect(r) PROVE AnswerOnItsWay'
  BY <1>3 DEF Connect
<1>4. ASSUME NEW r \in Request, Connected(r) PROVE AnswerOnItsWay'
  <2>1. \A q \in Request : at[q] = "forwarded" => FALSE
    BY <1>4, <1>a DEF Connected, WaitHolds, SessionInv, PeerHolds
  <2>2. \A q \in Request : at'[q] \notin {"connecting", "forwarded"}
    BY <1>4, <1>a, <2>1 DEF Connected
  <2> QED
    BY <2>2
<1>5. ASSUME NEW r \in Request, ConnectFails(r) PROVE AnswerOnItsWay'
  BY <1>5, <1>a, <1>b DEF ConnectFails
<1>6. ASSUME NEW r \in Request, InitializeAgain(r) \/ Refuse(r) \/ Abandon(r)
      PROVE  AnswerOnItsWay'
  BY <1>6 DEF InitializeAgain, Refuse, Abandon
<1>7. ASSUME NEW r \in Request, Forward(r) PROVE AnswerOnItsWay'
  BY <1>7 DEF Forward
<1>8. ASSUME NEW r \in Request, Answer(r) PROVE AnswerOnItsWay'
  BY <1>8, <1>a, <1>b, <1>c DEF Answer
<1>9. ASSUME NEW i \in RemoteId, RemoteAnswers(i) PROVE AnswerOnItsWay'
  BY <1>9 DEF RemoteAnswers
<1>10. ASSUME NEW i \in RemoteId, RemoteCancels(i) PROVE AnswerOnItsWay'
  BY <1>10, <1>a, <1>b DEF RemoteCancels
<1>11. CASE ServiceEnds
  BY <1>11, <1>a, <1>b DEF ServiceEnds
<1>12. CASE Supervise \/ PingerStops \/ Ping
  BY <1>12 DEF Supervise, PingerStops, Ping
<1>13. CASE PingEnds
  BY <1>13, <1>a, <1>b, <1>c DEF PingEnds
<1>14. CASE UNCHANGED vars
  BY <1>14 DEF vars
<1> QED
  BY <1>1, <1>2, <1>3, <1>4, <1>5, <1>6, <1>7, <1>8, <1>9, <1>10, <1>11, <1>12, <1>13, <1>14
     DEF Next, Handle

-----------------------------------------------------------------------------
(* Who stops the pinger.                                                   *)

\* The token is cancelled after the end of the service, and nothing else
\* stops a pinger that was spawned.
PingerHolds ==
  /\ stopPings => service = "ended"
  /\ pinger = "stopped" => stopPings
  /\ Pings /\ service # "none" => pinger # "off"

LEMMA PingerStep ==
  ASSUME SessionInv, WaitHolds, PingerHolds, [Next]_vars
  PROVE  PingerHolds'
<1>a. \A r \in Request : at[r] = "connecting" => service = "none"
  BY DEF SessionInv, RequestHolds, WaitHolds
<1> USE ProxyAssumption DEF PingerHolds, request, connection, remote, keepalive
<1>1. ASSUME NEW r \in Request, Connected(r) PROVE PingerHolds'
  BY <1>1, <1>a DEF Connected
<1>2. ASSUME NEW r \in Request, InitializeAgain(r) \/ Connect(r) \/ ConnectFails(r) \/ Refuse(r)
                                \/ Forward(r) \/ Answer(r) \/ Abandon(r) \/ Cancel(r)
      PROVE  PingerHolds'
  BY <1>2 DEF InitializeAgain, Connect, ConnectFails, Refuse, Forward, Answer, Abandon, Cancel
<1>3. ASSUME NEW i \in RemoteId, RemoteAnswers(i) \/ RemoteCancels(i) PROVE PingerHolds'
  BY <1>3 DEF RemoteAnswers, RemoteCancels
<1>4. CASE Send \/ ServiceEnds \/ Supervise
  BY <1>4 DEF Send, ServiceEnds, Supervise
<1>5. CASE PingerStops \/ Ping \/ PingEnds
  BY <1>5 DEF PingerStops, Ping, PingEnds
<1>6. CASE UNCHANGED vars
  BY <1>6 DEF vars
<1> QED
  BY <1>1, <1>2, <1>3, <1>4, <1>5, <1>6 DEF Next, Handle

-----------------------------------------------------------------------------
TrackInv == SessionInv /\ NumbersHold /\ WaitHolds /\ AnswerOnItsWay /\ PingerHolds

LEMMA TrackInvariant == Spec => []TrackInv
<1>1. Init => TrackInv
  BY SessionInit DEF Init, TrackInv, NumbersHold, WaitHolds, AnswerOnItsWay, PingerHolds, NoId
<1>2. TrackInv /\ [Next]_vars => TrackInv'
  BY SessionStep, NumbersStep, WaitStep, AnswerStep, PingerStep DEF TrackInv
<1> QED
  BY <1>1, <1>2, PTL DEF Spec

-----------------------------------------------------------------------------
\* Every variable keeps its type; in particular the numbers of the remote
\* connection never run past one for each request and each ping.
THEOREM TypeCorrect == Spec => []TypeOK
<1>1. SessionInv => TypeOK
  BY DEF SessionInv
<1> QED
  BY SessionInvariant, <1>1, PTL

\* However many initialize requests race, one takes the transport, and what
\* it sends is the only handshake the remote sees (connect).
THEOREM HandshakeIsUnique == Spec => []OneHandshake
<1>1. SessionInv => OneHandshake
  BY DEF SessionInv
<1> QED
  BY SessionInvariant, <1>1, PTL

\* No request the filter refuses reaches the remote, and none at all before an
\* initialize was answered (enforce_tool_filter, peer).
THEOREM OnlyPermittedIsForwarded == Spec => []RemoteSeesOnlyPermitted
<1>1. SessionInv => RemoteSeesOnlyPermitted
  BY DEF SessionInv, PeerHolds, RemoteSeesOnlyPermitted
<1> QED
  BY SessionInvariant, <1>1, PTL

\* Whoever waits for the remote over a live connection will be answered by a
\* remote that answers: its number is the remote's to work on or answered,
\* however cancellations, pings and handshakes interleave.
THEOREM NobodyWaitsInVain == Spec => []AnswerOnItsWay
<1>1. TrackInv => AnswerOnItsWay
  BY DEF TrackInv
<1> QED
  BY TrackInvariant, <1>1, PTL

\* No ping, answered or not, ends the keepalive of a live connection
\* (spawn_keepalive, ping_remote).
THEOREM PingsDoNotEndKeepalive == Spec => []KeepaliveOutlastsPings
<1>1. TrackInv => KeepaliveOutlastsPings
  BY DEF TrackInv, SessionInv, TypeOK, PingerHolds, KeepaliveOutlastsPings
<1> QED
  BY TrackInvariant, <1>1, PTL
=============================================================================
