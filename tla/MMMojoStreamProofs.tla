------------------------- MODULE MMMojoStreamProofs -------------------------
(***************************************************************************)
(* What holds of MMMojoStream for every set of requests, streams, read     *)
(* callbacks and faults.                                                   *)
(***************************************************************************)
EXTENDS MMMojoStream, SequenceElements, TLAPS

-----------------------------------------------------------------------------
(* Ends and tasks                                                          *)

\* The ends of a stream are each other's peers.
LEMMA PeerEnd ==
    ASSUME NEW e \in End
    PROVE  /\ Peer(e) \in End
           /\ Peer(Peer(e)) = e
           /\ e[1] \in Side /\ e[2] \in Stream
           /\ Peer(e)[2] = e[2]
  BY ParamAssumption DEF End, Peer, Other, Side

\* A request travels between two ends of the stream chosen for it.
LEMMA RequestEnds ==
    ASSUME NEW r \in Req
    PROVE  /\ From(r) \in End /\ To(r) \in End
           /\ r.side \in Side
           /\ From(r)[2] = StreamOf(r) /\ To(r)[2] = StreamOf(r)
  BY ParamAssumption DEF From, To, Peer, Other, Side, End, Stream, Requests

\* Which requests the tasks of a thread are about.
LEMMA TaskType ==
    /\ [op |-> "Create", req |-> None] \in Task
    /\ [op |-> "Remove", req |-> None] \in Task
    /\ \A r \in Req : \A op \in {"RaiseError", "Write", "PullResp"} :
          [op |-> op, req |-> r] \in Task
    /\ \A t \in Task : t.op \in {"RaiseError", "Write", "PullResp"} => t.req \in Req
  BY DEF Task
-----------------------------------------------------------------------------
(* What the building blocks of the actions do to queues and pipes          *)

\* Posting adds one task at the end of one queue and leaves the others alone.
LEMMA PostEffect ==
    ASSUME TypeOK, NEW e \in End, NEW op, NEW r,
           [op |-> op, req |-> r] \in Task, Post(e, op, r)
    PROVE  /\ queue' \in [End -> Seq(Task)]
           /\ \A d \in End : d # e => queue'[d] = queue[d]
           /\ queue[e] \in Seq(Task)
           /\ queue'[e] = Append(queue[e], [op |-> op, req |-> r])
           /\ \A d \in End : \A x \in ToSet(queue'[d]) :
                 x \in ToSet(queue[d]) \/ (d = e /\ x = [op |-> op, req |-> r])
<1> DEFINE t == [op |-> op, req |-> r]
<1>1. t \in Task /\ queue' = [queue EXCEPT ![e] = Append(@, t)]
  BY DEF Post
<1> HIDE DEF t
<1>2. /\ queue' \in [End -> Seq(Task)]
      /\ \A d \in End : d # e => queue'[d] = queue[d]
      /\ queue'[e] = Append(queue[e], t)
      /\ queue[e] \in Seq(Task)
  BY <1>1 DEF TypeOK
<1>3. ToSet(queue'[e]) = ToSet(queue[e]) \cup {t}
  BY <1>1, <1>2, AppendElements
<1> QED
  BY <1>2, <1>3 DEF t

\* Running a task takes the first one off one queue, of a thread that is idle.
LEMMA RunEffect ==
    ASSUME TypeOK, NEW e \in End, NEW op, RunsTask(e, op)
    PROVE  /\ queue[e] \in Seq(Task) /\ queue[e] # <<>>
           /\ Head(queue[e]) \in Task /\ Head(queue[e]) \in ToSet(queue[e])
           /\ Head(queue[e]).op = op
           /\ op \in {"RaiseError", "Write", "PullResp"} => Head(queue[e]).req \in Req
           /\ queue' \in [End -> Seq(Task)]
           /\ \A d \in End : d # e => queue'[d] = queue[d]
           /\ queue'[e] = Tail(queue[e])
           /\ \A d \in End : ToSet(queue'[d]) \subseteq ToSet(queue[d])
           /\ Idle(e)
<1>1. queue[e] \in Seq(Task) /\ queue[e] # <<>>
  BY DEF TypeOK, RunsTask
<1>2. /\ Head(queue[e]) \in Task /\ Head(queue[e]) \in ToSet(queue[e])
      /\ Tail(queue[e]) \in Seq(Task)
      /\ ToSet(Tail(queue[e])) \subseteq ToSet(queue[e])
  BY <1>1, TailElements
<1>3. Head(queue[e]).op = op /\ queue' = [queue EXCEPT ![e] = Tail(@)] /\ Idle(e)
  BY DEF RunsTask
<1>4. /\ queue' \in [End -> Seq(Task)]
      /\ \A d \in End : d # e => queue'[d] = queue[d]
      /\ queue'[e] = Tail(queue[e])
  BY <1>2, <1>3 DEF TypeOK
<1> QED
  BY <1>1, <1>2, <1>3, <1>4, TaskType

\* What travels from remote_ to receiver_ are requests of the applications.
LEMMA SendEffect ==
    ASSUME TypeOK, NEW e \in End, NEW r \in Req,
           SendMessage(e, r) \/ UNCHANGED requests
    PROVE  requests' \in [End -> Seq(Req)]
<1>1. requests \in [End -> Seq(Req)]
  BY DEF TypeOK
<1>2. Append(requests[e], r) \in Seq(Req)
  BY <1>1, AppendElements
<1> QED
  BY <1>1, <1>2 DEF SendMessage

Response == [req : Req, success : BOOLEAN]

\* Answering adds at most the one response to the pipe back to the sender.
LEMMA RespondEffect ==
    ASSUME TypeOK, NEW e \in End, NEW r \in Req, NEW b \in BOOLEAN,
           Respond(e, r, b) \/ UNCHANGED responses
    PROVE  /\ responses' \in [End -> Seq(Response)]
           /\ \A d \in End : ToSet(responses'[d]) \subseteq
                               ToSet(responses[d]) \cup {[req |-> r, success |-> b]}
<1> DEFINE m == [req |-> r, success |-> b]
<1>1. m \in Response
  BY DEF Response
<1>2. responses \in [End -> Seq(Response)]
  BY DEF TypeOK, Response
<1>3. \/ responses' = responses
      \/ responses' = [responses EXCEPT ![Peer(e)] = Append(@, m)]
  BY DEF Respond
<1> HIDE DEF m
<1>4. CASE responses' = responses
  BY <1>4, <1>2 DEF m
<1>5. CASE responses' = [responses EXCEPT ![Peer(e)] = Append(@, m)]
  <2>1. Peer(e) \in End
    BY PeerEnd
  <2>2. responses[Peer(e)] \in Seq(Response)
    BY <2>1, <1>2
  <2>3. /\ Append(responses[Peer(e)], m) \in Seq(Response)
        /\ ToSet(Append(responses[Peer(e)], m)) = ToSet(responses[Peer(e)]) \cup {m}
    BY <2>2, <1>1, AppendElements
  <2>4. /\ responses' \in [End -> Seq(Response)]
        /\ \A d \in End : d # Peer(e) => responses'[d] = responses[d]
        /\ responses'[Peer(e)] = Append(responses[Peer(e)], m)
    BY <1>5, <1>2, <2>1, <2>3
  <2> QED
    BY <2>3, <2>4 DEF m
<1> QED
  BY <1>3, <1>4, <1>5

\* A message that was dispatched was one of those on the pipe.
LEMMA DispatchEffect ==
    ASSUME TypeOK, NEW e \in End, NEW i \in Deliverable(e), NEW m, NEW b, Dispatch(e, i, m, b)
    PROVE  /\ requests[Peer(e)][i] \in Req
           /\ requests' \in [End -> Seq(Req)]
           /\ dispatched' \in [Req -> Nat]
           /\ dispatched'[requests[Peer(e)][i]] > 0
           /\ \A r \in Req : dispatched'[r] >= dispatched[r]
<1> DEFINE q == requests[Peer(e)]
<1>1. Peer(e) \in End /\ q \in Seq(Req) /\ i \in 1..Len(q)
  <2>1. Peer(e) \in End
    BY PeerEnd
  <2>2. requests \in [End -> Seq(Req)]
    BY DEF TypeOK
  <2>3. q \in Seq(Req)
    BY <2>1, <2>2
  <2>4. i \in DOMAIN q
    BY DEF Deliverable
  <2> QED
    BY <2>1, <2>3, <2>4
<1>2. RemoveAt(q, i) \in Seq(Req) /\ q[i] \in Req
  BY <1>1, RemoveAtElements
<1>3. /\ requests' = [requests EXCEPT ![Peer(e)] = RemoveAt(q, i)]
      /\ dispatched' = [dispatched EXCEPT ![q[i]] = @ + 1]
  BY DEF Dispatch
<1> HIDE DEF q
<1>4. requests' \in [End -> Seq(Req)]
  BY <1>1, <1>2, <1>3 DEF TypeOK
<1>5. /\ dispatched' \in [Req -> Nat]
      /\ dispatched'[q[i]] > 0
      /\ \A r \in Req : dispatched'[r] >= dispatched[r]
  BY <1>2, <1>3 DEF TypeOK
<1> QED
  BY <1>2, <1>4, <1>5 DEF q
-----------------------------------------------------------------------------
(* The steps one by one; the actions that only differ in the method or the *)
(* sync flag they are for are taken together                               *)

\* A step of the two processes, action by action.
LEMMA NextCases ==
    ASSUME [Next]_vars
    PROVE  \/ \E r \in Req : SendMMMojoWriteInfo(r)
           \/ \E r \in Req : SendPullResp(r)
           \/ \E r \in Req : RemoveMMMojoReadInfo(r)
           \/ \E r \in Req : RemoveMMMojoReadInfoInCallback(r)
           \/ \E e \in End : StopStream(e)
           \/ \E e \in End : CreateRemoteAndReceiverStream(e)
           \/ \E e \in End : RemoveRemoteAndReceiverStream(e)
           \/ \E e \in End : RaiseError(e)
           \/ \E e \in End : \E m \in Method : AsyncWrite(e, m)
           \/ \E e \in End : \E m \in Method : SyncWrite(e, m)
           \/ \E e \in End : PullReqWithCallback(e)
           \/ \E e \in End : \E b \in BOOLEAN : AnswerPull(e, b)
           \/ \E e \in End : SyncResponse(e)
           \/ \E e \in End : SyncDisconnect(e)
           \/ \E e \in End : \E m \in Method : OneWay(e, m)
           \/ \E e \in End : \E m \in Method : Acknowledge(e, m)
           \/ \E e \in End : \E b \in BOOLEAN : ReadPull(e, b)
           \/ \E e \in End : ReadResponse(e)
           \/ \E e \in End : OnMojoDisconnect(e)
           \/ \E p \in Side : Crash(p)
           \/ \E e \in End : LoseRequest(e)
           \/ \E e \in End : LoseResponse(e)
           \/ UNCHANGED vars
<1>1. CASE \E r \in Req : AppStep(r)
  BY <1>1 DEF AppStep
<1>2. CASE \E e \in End : RunTask(e)
  BY <1>2 DEF RunTask, Method, PushMMMojoWriteInfo, PullReqMMMojoWriteInfo,
         SharedMMMojoWriteInfo, PushMMMojoWriteInfoSync,
         PullReqMMMojoWriteInfoSync, SharedMMMojoWriteInfoSync,
         PullRespMMMojoWriteInfo, PullRespMMMojoWriteInfoSync
<1>3. CASE \E e \in End : ReadRequest(e)
  BY <1>3 DEF ReadRequest, Method, Hello, Hi, Hey, ShakeHandHello,
         ShakeHandHi, ShakeHandHey
<1>4. CASE \E e \in End : EndSyncCall(e)
  BY <1>4 DEF EndSyncCall
<1> QED
  BY <1>1, <1>2, <1>3, <1>4 DEF Next, ThreadStep
-----------------------------------------------------------------------------
(* Type correctness                                                        *)

\* The initial state is well typed.
LEMMA InitType == Init => TypeOK
  BY DEF Init, TypeOK, Task, ImplState

\* Every action keeps every variable in its type.
LEMMA StepType == TypeOK /\ [Next]_vars => TypeOK'
<1> SUFFICES ASSUME TypeOK, [Next]_vars
             PROVE  TypeOK'
  OBVIOUS
<1> USE DEF threadVars, wireVars, endVars, callVars, histVars
<1>1. ASSUME NEW r \in Req, SendMMMojoWriteInfo(r)
      PROVE  TypeOK'
  <2>1. /\ From(r) \in End
        /\ [op |-> "Write", req |-> r] \in Task
    BY RequestEnds, TaskType
  <2>2. Post(From(r), "Write", r) \/ UNCHANGED queue
    BY <1>1 DEF SendMMMojoWriteInfo
  <2>3. queue' \in [End -> Seq(Task)]
    BY <2>1, <2>2, PostEffect DEF TypeOK
  <2>4. Append(sent[From(r)], r) \in Seq(Req)
    BY <2>1, AppendElements DEF TypeOK
  <2>5. sent' \in [End -> Seq(Req)]
    BY <1>1, <2>1, <2>4 DEF SendMMMojoWriteInfo, TypeOK
  <2> QED
    BY <1>1, <2>3, <2>5 DEF SendMMMojoWriteInfo, TypeOK
<1>2. ASSUME NEW r \in Req, SendPullResp(r)
      PROVE  TypeOK'
  <2>1. /\ To(r) \in End
        /\ [op |-> "PullResp", req |-> r] \in Task
    BY RequestEnds, TaskType
  <2>2. Post(To(r), "PullResp", r) \/ UNCHANGED queue
    BY <1>2 DEF SendPullResp
  <2>3. queue' \in [End -> Seq(Task)]
    BY <2>1, <2>2, PostEffect DEF TypeOK
  <2> QED
    BY <1>2, <2>3 DEF SendPullResp, TypeOK
<1>3. ASSUME NEW r \in Req, RemoveMMMojoReadInfo(r)
      PROVE  TypeOK'
  <2>1. /\ To(r) \in End
        /\ [op |-> "RaiseError", req |-> r] \in Task
    BY RequestEnds, TaskType
  <2>2. Post(To(r), "RaiseError", r) \/ UNCHANGED queue
    BY <1>3 DEF RemoveMMMojoReadInfo
  <2>3. queue' \in [End -> Seq(Task)]
    BY <2>1, <2>2, PostEffect DEF TypeOK
  <2> QED
    BY <1>3, <2>3 DEF RemoveMMMojoReadInfo, TypeOK
<1>4. ASSUME NEW e \in End, StopStream(e)
      PROVE  TypeOK'
  <2>1. queue' \in [End -> Seq(Task)]
    BY <1>4, PostEffect, TaskType DEF StopStream
  <2> QED
    BY <1>4, <2>1 DEF StopStream, TypeOK
<1>5. ASSUME NEW e \in End, CreateRemoteAndReceiverStream(e)
      PROVE  TypeOK'
  <2>1. queue' \in [End -> Seq(Task)]
    BY <1>5, RunEffect DEF CreateRemoteAndReceiverStream
  <2> QED
    BY <1>5, <2>1 DEF CreateRemoteAndReceiverStream, TypeOK, ImplState
<1>6. ASSUME NEW e \in End, RemoveRemoteAndReceiverStream(e)
      PROVE  TypeOK'
  <2>1. queue' \in [End -> Seq(Task)]
    BY <1>6, RunEffect DEF RemoveRemoteAndReceiverStream
  <2>2. /\ requests' \in [End -> Seq(Req)]
        /\ responses' \in [End -> Seq([req : Req, success : BOOLEAN])]
    BY <1>6, EmptyElements DEF RemoveRemoteAndReceiverStream, TypeOK
  <2> QED
    BY <1>6, <2>1, <2>2 DEF RemoveRemoteAndReceiverStream, TypeOK, ImplState
<1>7. ASSUME NEW e \in End, RaiseError(e)
      PROVE  TypeOK'
  <2>1. queue' \in [End -> Seq(Task)]
    BY <1>7, RunEffect DEF RaiseError
  <2>2. requests' \in [End -> Seq(Req)]
    BY <1>7, EmptyElements DEF RaiseError, TypeOK
  <2> QED
    BY <1>7, <2>1, <2>2 DEF RaiseError, TypeOK
<1>8. ASSUME NEW e \in End, NEW m \in Method, AsyncWrite(e, m)
      PROVE  TypeOK'
  <2>1. queue' \in [End -> Seq(Task)] /\ Head(queue[e]).req \in Req
    BY <1>8, RunEffect DEF AsyncWrite
  <2>2. requests' \in [End -> Seq(Req)]
    BY <1>8, <2>1, SendEffect DEF AsyncWrite
  <2> QED
    BY <1>8, <2>1, <2>2 DEF AsyncWrite, TypeOK
<1>9. ASSUME NEW e \in End, NEW m \in Method, SyncWrite(e, m)
      PROVE  TypeOK'
  <2>1. queue' \in [End -> Seq(Task)] /\ Head(queue[e]).req \in Req
    BY <1>9, RunEffect DEF SyncWrite
  <2>2. requests' \in [End -> Seq(Req)]
    BY <1>9, <2>1, SendEffect DEF SyncWrite
  <2> QED
    BY <1>9, <2>1, <2>2 DEF SyncWrite, TypeOK
<1>10. ASSUME NEW e \in End, PullReqWithCallback(e)
       PROVE  TypeOK'
  <2>1. queue' \in [End -> Seq(Task)] /\ Head(queue[e]).req \in Req
    BY <1>10, RunEffect DEF PullReqWithCallback
  <2>2. requests' \in [End -> Seq(Req)]
    BY <1>10, <2>1, SendEffect DEF PullReqWithCallback
  <2> QED
    BY <1>10, <2>1, <2>2 DEF PullReqWithCallback, TypeOK
<1>11. ASSUME NEW e \in End, NEW b \in BOOLEAN, AnswerPull(e, b)
       PROVE  TypeOK'
  <2>1. queue' \in [End -> Seq(Task)] /\ Head(queue[e]).req \in Req
    BY <1>11, RunEffect DEF AnswerPull
  <2>2. responses' \in [End -> Seq(Response)]
    BY <1>11, <2>1, RespondEffect DEF AnswerPull
  <2> QED
    BY <1>11, <2>1, <2>2 DEF AnswerPull, TypeOK, Response
<1>12. ASSUME NEW e \in End, SyncResponse(e)
       PROVE  TypeOK'
  <2>1. PICK i \in DOMAIN responses[e] :
            /\ responses[e][i].req = waiting[e]
            /\ responses' = [responses EXCEPT ![e] = RemoveAt(@, i)]
            /\ outcome' = [outcome EXCEPT ![responses[e][i].req] =
                               IF responses[e][i].success THEN "true" ELSE "false"]
            /\ info' = IF responses[e][i].req.method # "kMMPullReq" THEN info
                       ELSE [info EXCEPT ![responses[e][i].req] =
                                 IF responses[e][i].success THEN "reply" ELSE "empty"]
    BY <1>12 DEF SyncResponse
  <2>2. responses[e] \in Seq([req : Req, success : BOOLEAN])
    BY DEF TypeOK
  <2>3. RemoveAt(responses[e], i) \in Seq([req : Req, success : BOOLEAN])
    BY <2>2, RemoveAtElements
  <2>4. responses' \in [End -> Seq([req : Req, success : BOOLEAN])]
    BY <2>1, <2>3 DEF TypeOK
  <2>5. /\ outcome' \in [Req -> {"idle", "blocked", "true", "false", "dead"}]
        /\ info' \in [Req -> {"unset", "empty", "reply"}]
    BY <2>1 DEF TypeOK
  <2>6. waiting' \in [End -> Req \cup {None}]
    BY <1>12 DEF SyncResponse, TypeOK
  <2> QED
    BY <1>12, <2>4, <2>5, <2>6 DEF SyncResponse, TypeOK
<1>13. ASSUME NEW e \in End, SyncDisconnect(e)
       PROVE  TypeOK'
  BY <1>13 DEF SyncDisconnect, TypeOK
<1>14. ASSUME NEW e \in End, NEW m \in Method, OneWay(e, m)
       PROVE  TypeOK'
  <2>1. PICK i \in Deliverable(e) : Dispatch(e, i, m, FALSE) /\ UNCHANGED <<responses, held>>
    BY <1>14 DEF OneWay
  <2>2. requests' \in [End -> Seq(Req)] /\ dispatched' \in [Req -> Nat]
    BY <2>1, DispatchEffect
  <2> QED
    BY <2>1, <2>2 DEF Dispatch, TypeOK
<1>15. ASSUME NEW e \in End, NEW m \in Method, Acknowledge(e, m)
       PROVE  TypeOK'
  <2>1. PICK i \in Deliverable(e) :
            /\ Dispatch(e, i, m, TRUE)
            /\ LET r == requests[Peer(e)][i] IN Respond(e, r, HasReader(r))
            /\ UNCHANGED held
    BY <1>15 DEF Acknowledge
  <2>2. /\ requests[Peer(e)][i] \in Req
        /\ requests' \in [End -> Seq(Req)] /\ dispatched' \in [Req -> Nat]
    BY <2>1, DispatchEffect
  <2>3. HasReader(requests[Peer(e)][i]) \in BOOLEAN
    BY DEF HasReader
  <2>4. responses' \in [End -> Seq(Response)]
    BY <2>1, <2>2, <2>3, RespondEffect
  <2> QED
    BY <2>1, <2>2, <2>4 DEF Dispatch, TypeOK, Response
<1>16. ASSUME NEW e \in End, NEW b \in BOOLEAN, ReadPull(e, b)
       PROVE  TypeOK'
  <2>1. PICK i \in Deliverable(e) :
            /\ Dispatch(e, i, "kMMPullReq", b)
            /\ LET r == requests[Peer(e)][i]
               IN  \/ HasReader(r) /\ held' = held \cup {r} /\ UNCHANGED responses
                   \/ ~HasReader(r) /\ Respond(e, r, FALSE) /\ UNCHANGED held
    BY <1>16 DEF ReadPull
  <2>2. /\ requests[Peer(e)][i] \in Req
        /\ requests' \in [End -> Seq(Req)] /\ dispatched' \in [Req -> Nat]
    BY <2>1, DispatchEffect
  <2>3. responses' \in [End -> Seq(Response)]
    BY <2>1, <2>2, RespondEffect
  <2>4. held' \subseteq Req
    BY <2>1, <2>2 DEF TypeOK
  <2> QED
    BY <2>1, <2>2, <2>3, <2>4 DEF Dispatch, TypeOK, Response
<1>17. ASSUME NEW e \in End, ReadResponse(e)
       PROVE  TypeOK'
  <2>1. /\ responses[e] \in Seq(Response) /\ responses[e] # <<>>
        /\ responses' = [responses EXCEPT ![e] = Tail(@)]
    BY <1>17 DEF ReadResponse, OnPushReqMMMojoReadInfo,
                 OnPushReqMMMojoReadInfoSync, TakeResponse, TypeOK, Response
  <2>2. Head(responses[e]) \in Response /\ Tail(responses[e]) \in Seq(Response)
    BY <2>1, TailElements
  <2>3. responses' \in [End -> Seq(Response)]
    BY <2>1, <2>2 DEF TypeOK, Response
  <2>4. answered' = answered \/ CallReader(e, Head(responses[e]).req)
    BY <1>17 DEF ReadResponse, OnPushReqMMMojoReadInfo, OnPushReqMMMojoReadInfoSync
  <2>5. answered' \in [Req -> Nat]
    BY <2>2, <2>4 DEF CallReader, TypeOK, Response
  <2> QED
    BY <1>17, <2>3, <2>5 DEF ReadResponse, OnPushReqMMMojoReadInfo,
                 OnPushReqMMMojoReadInfoSync, TakeResponse, TypeOK, Response
<1>18. ASSUME NEW e \in End, OnMojoDisconnect(e)
       PROVE  TypeOK'
  <2>1. requests' \in [End -> Seq(Req)]
    BY <1>18, EmptyElements DEF OnMojoDisconnect, TypeOK
  <2> QED
    BY <1>18, <2>1 DEF OnMojoDisconnect, TypeOK, ImplState
<1>19. ASSUME NEW p \in Side, Crash(p)
       PROVE  TypeOK'
  <2>1. queue' \in [End -> Seq(Task)]
    BY <1>19, EmptyElements DEF Crash, TypeOK
  <2>2. /\ requests' \in [End -> Seq(Req)]
        /\ responses' \in [End -> Seq([req : Req, success : BOOLEAN])]
    BY <1>19, EmptyElements DEF Crash, TypeOK
  <2> QED
    BY <1>19, <2>1, <2>2 DEF Crash, TypeOK, ImplState
<1>20. ASSUME NEW e \in End, LoseRequest(e)
       PROVE  TypeOK'
  <2>1. SubSeq(requests[e], 1, Len(requests[e]) - 1) \in Seq(Req)
    BY <1>20, FrontElements DEF LoseRequest, TypeOK
  <2>2. requests' \in [End -> Seq(Req)]
    BY <1>20, <2>1 DEF LoseRequest, TypeOK
  <2> QED
    BY <1>20, <2>2 DEF LoseRequest, TypeOK
<1>21. ASSUME NEW e \in End, LoseResponse(e)
       PROVE  TypeOK'
  <2>1. responses \in [End -> Seq(Response)]
    BY DEF TypeOK, Response
  <2>2. SubSeq(responses[e], 1, Len(responses[e]) - 1) \in Seq(Response)
    BY <1>21, <2>1, FrontElements DEF LoseResponse
  <2>3. responses' \in [End -> Seq(Response)]
    BY <1>21, <2>1, <2>2 DEF LoseResponse
  <2> QED
    BY <1>21, <2>3 DEF LoseResponse, TypeOK, Response
<1>22. ASSUME NEW r \in Req, RemoveMMMojoReadInfoInCallback(r)
       PROVE  TypeOK'
  <2>1. requests' \in [End -> Seq(Req)]
    BY <1>22, EmptyElements DEF RemoveMMMojoReadInfoInCallback, TypeOK
  <2> QED
    BY <1>22, <2>1 DEF RemoveMMMojoReadInfoInCallback, TypeOK
<1>23. CASE UNCHANGED vars
  BY <1>23 DEF vars, TypeOK
<1> QED
  BY <1>1, <1>2, <1>3, <1>4, <1>5, <1>6, <1>7, <1>8, <1>9, <1>10, <1>11, <1>12,
     <1>13, <1>14, <1>15, <1>16, <1>17, <1>18, <1>19, <1>20, <1>21, <1>22, <1>23,
     NextCases

\* Every variable keeps the values the code can give it.
THEOREM TypeCorrect == Spec => []TypeOK
  BY InitType, StepType, PTL DEF Spec
-----------------------------------------------------------------------------
(* The inductive invariant behind SyncResultTruthful                       *)

Read(r) == dispatched[r] > 0 /\ HasReader(r)

\* A task writes the requests of its own end, and answers a pull that was read.
TaskHome(e, t) ==
    /\ t.op = "Write" => From(t.req) = e
    /\ t.op = "PullResp" => Read(t.req)

\* A response tells whether the peer's read callback got the request.
ResponseTrue(m) ==
    dispatched[m.req] > 0 /\ (m.success <=> HasReader(m.req))

AnswerInv ==
    /\ \A r \in held : Read(r)
    /\ \A e \in End : \A t \in ToSet(queue[e]) : TaskHome(e, t)
    /\ \A e \in End : \A m \in ToSet(responses[e]) : ResponseTrue(m)
    /\ \A e \in End : waiting[e] # None => From(waiting[e]) = e

\* impl_ is created by the first task of its thread, once, and the receiving
\* end is never open without it.
CreateFirst(e) ==
    /\ impl[e] = "absent" => queue[e] # <<>> /\ recv[e] = "fresh"
    /\ \A i \in 1..Len(queue[e]) :
          queue[e][i].op = "Create" <=> (i = 1 /\ impl[e] = "absent")
    /\ impl[e] \in {"reset", "removed"} => recv[e] = "closed"

CreateInv == \A e \in End : CreateFirst(e)

ResultInv ==
    \A r \in Req : Blocking(r) =>
        /\ outcome[r] = "true" => Read(r) /\ (r.method = "kMMPullReq" => info[r] = "reply")
        /\ outcome[r] = "false" => Broken(StreamOf(r)) \/ ~HasReader(r)

IInv == TypeOK /\ AnswerInv /\ CreateInv /\ ResultInv

\* The inductive invariant holds at the start.
LEMMA InitIInv == Init => IInv
<1> SUFFICES ASSUME Init
             PROVE  IInv
  OBVIOUS
<1>1. TypeOK
  BY InitType
<1>2. \A e \in End : /\ queue[e] = <<[op |-> "Create", req |-> None]>>
                     /\ responses[e] = <<>> /\ waiting[e] = None
                     /\ impl[e] = "absent" /\ recv[e] = "fresh"
  BY DEF Init
<1>3. \A e \in End : ToSet(responses[e]) = {}
  BY <1>2, EmptyElements
<1>4. \A e \in End : \A t \in ToSet(queue[e]) : t = [op |-> "Create", req |-> None]
  <2>1. SUFFICES ASSUME NEW e \in End, NEW t \in ToSet(queue[e])
                 PROVE  t = [op |-> "Create", req |-> None]
    OBVIOUS
  <2> DEFINE c == [op |-> "Create", req |-> None]
  <2>2. queue[e] \in Seq(Task) /\ \A i \in 1..Len(queue[e]) : queue[e][i] \in {c}
    BY <1>1, <1>2 DEF TypeOK
  <2> HIDE DEF c
  <2>3. ToSet(queue[e]) \subseteq {c}
    BY <2>2, ElementsWithin
  <2> QED
    BY <2>3 DEF c
<1>5. AnswerInv
  BY <1>2, <1>3, <1>4 DEF AnswerInv, TaskHome, Init
<1>6. CreateInv
  BY <1>2 DEF CreateInv, CreateFirst
<1>7. ResultInv
  BY DEF Init, ResultInv
<1> QED
  BY <1>1, <1>5, <1>6, <1>7 DEF IInv

\* The count of dispatches of a request never goes down.
LEMMA DispatchedGrows ==
    ASSUME TypeOK, [Next]_vars
    PROVE  \A r \in Req : /\ dispatched'[r] >= dispatched[r]
                          /\ dispatched[r] > 0 => dispatched'[r] > 0
                          /\ Read(r) => Read(r)'
<1> USE DEF threadVars, wireVars, endVars, callVars, histVars
<1>1. CASE UNCHANGED dispatched
  BY <1>1 DEF TypeOK, Read
<1>2. ASSUME NEW e \in End, NEW i \in Deliverable(e), NEW m, NEW b, Dispatch(e, i, m, b)
      PROVE  \A r \in Req : dispatched'[r] >= dispatched[r]
  BY <1>2, DispatchEffect
<1>3. \/ UNCHANGED dispatched
      \/ \E e \in End : \E i \in Deliverable(e) : \E m, b : Dispatch(e, i, m, b)
  <2>1. ASSUME NEW e \in End, NEW m \in Method, OneWay(e, m)
        PROVE  \E i \in Deliverable(e) : Dispatch(e, i, m, FALSE)
    BY <2>1 DEF OneWay
  <2>2. ASSUME NEW e \in End, NEW m \in Method, Acknowledge(e, m)
        PROVE  \E i \in Deliverable(e) : Dispatch(e, i, m, TRUE)
    BY <2>2 DEF Acknowledge
  <2>3. ASSUME NEW e \in End, NEW b \in BOOLEAN, ReadPull(e, b)
        PROVE  \E i \in Deliverable(e) : Dispatch(e, i, "kMMPullReq", b)
    BY <2>3 DEF ReadPull
  <2>4. ASSUME NEW r \in Req,
               \/ SendMMMojoWriteInfo(r) \/ SendPullResp(r)
               \/ RemoveMMMojoReadInfo(r) \/ RemoveMMMojoReadInfoInCallback(r)
        PROVE  UNCHANGED dispatched
    BY <2>4 DEF SendMMMojoWriteInfo, SendPullResp, RemoveMMMojoReadInfo,
           RemoveMMMojoReadInfoInCallback
  <2>5. ASSUME NEW e \in End,
               \/ StopStream(e) \/ CreateRemoteAndReceiverStream(e)
               \/ RemoveRemoteAndReceiverStream(e) \/ RaiseError(e)
               \/ PullReqWithCallback(e) \/ SyncResponse(e) \/ SyncDisconnect(e)
               \/ ReadResponse(e) \/ OnMojoDisconnect(e)
               \/ LoseRequest(e) \/ LoseResponse(e)
        PROVE  UNCHANGED dispatched
    BY <2>5 DEF StopStream, CreateRemoteAndReceiverStream,
           RemoveRemoteAndReceiverStream, RaiseError, PullReqWithCallback,
           SyncResponse, SyncDisconnect, ReadResponse, OnPushReqMMMojoReadInfo,
           OnPushReqMMMojoReadInfoSync, TakeResponse, OnMojoDisconnect,
           LoseRequest, LoseResponse
  <2>6. ASSUME NEW e \in End, NEW m \in Method, AsyncWrite(e, m) \/ SyncWrite(e, m)
        PROVE  UNCHANGED dispatched
    BY <2>6 DEF AsyncWrite, SyncWrite
  <2>7. ASSUME NEW e \in End, NEW b \in BOOLEAN, AnswerPull(e, b)
        PROVE  UNCHANGED dispatched
    BY <2>7 DEF AnswerPull
  <2>8. ASSUME NEW p \in Side, Crash(p)
        PROVE  UNCHANGED dispatched
    BY <2>8 DEF Crash
  <2>9. CASE UNCHANGED vars
    BY <2>9 DEF vars
  <2> QED
    BY <2>1, <2>2, <2>3, <2>4, <2>5, <2>6, <2>7, <2>8, <2>9, NextCases
<1>4. \A r \in Req : dispatched'[r] >= dispatched[r]
  BY <1>1, <1>2, <1>3
<1>5. \A r \in Req : dispatched'[r] \in Nat /\ dispatched[r] \in Nat
  BY StepType DEF TypeOK
<1> QED
  BY <1>4, <1>5 DEF Read, HasReader

\* The four parts of AnswerInv after a step: what is there was there before,
\* or the step put it there rightly.
HeldStep  == \A r \in held' : r \in held \/ Read(r)'
QueueStep == \A e \in End : \A t \in ToSet(queue'[e]) :
                 t \in ToSet(queue[e]) \/ TaskHome(e, t)'
ResponseStep == \A e \in End : \A m \in ToSet(responses'[e]) :
                 m \in ToSet(responses[e]) \/ ResponseTrue(m)'
WaitStep == \A e \in End :
                 waiting'[e] \in {waiting[e], None} \/ From(waiting'[e]) = e

\* Every step keeps the answers that are held, queued or on their way truthful.
LEMMA AnswerStep ==
    ASSUME TypeOK, AnswerInv, [Next]_vars
    PROVE  AnswerInv'
<1> USE DEF threadVars, wireVars, endVars, callVars, histVars
<1>a. TypeOK'
  BY StepType
<1>b. /\ \A r \in Req : Read(r) => Read(r)'
      /\ \A r \in Req : dispatched[r] > 0 => dispatched'[r] > 0
  BY DispatchedGrows
<1>c. ASSUME HeldStep, QueueStep, ResponseStep, WaitStep
      PROVE  AnswerInv'
  <2>1. \A r \in held' : Read(r)'
    BY <1>a, <1>b, <1>c DEF HeldStep, AnswerInv, TypeOK
  <2>2. ASSUME NEW e \in End, NEW t \in ToSet(queue'[e])
        PROVE  TaskHome(e, t)'
    <3>1. CASE t \in ToSet(queue[e])
      <4>1. t \in Task
        BY <3>1, ElementIndex DEF TypeOK
      <4>2. TaskHome(e, t)
        BY <3>1 DEF AnswerInv
      <4>3. t.op = "PullResp" => t.req \in Req
        BY <4>1, TaskType
      <4> QED
        BY <4>2, <4>3, <1>b DEF TaskHome
    <3> QED
      BY <3>1, <1>c DEF QueueStep
  <2>3. ASSUME NEW e \in End, NEW m \in ToSet(responses'[e])
        PROVE  ResponseTrue(m)'
    <3>1. CASE m \in ToSet(responses[e])
      <4>1. m \in Response
        <5>1. responses[e] \in Seq(Response)
          BY DEF TypeOK, Response
        <5> QED
          BY <3>1, <5>1, ElementIndex
      <4>2. ResponseTrue(m)
        BY <3>1 DEF AnswerInv
      <4>3. m.req \in Req
        BY <4>1 DEF Response
      <4> QED
        BY <4>2, <4>3, <1>b DEF ResponseTrue, HasReader
    <3> QED
      BY <3>1, <1>c DEF ResponseStep
  <2>4. \A e \in End : waiting'[e] # None => From(waiting'[e]) = e
    BY <1>c DEF WaitStep, AnswerInv
  <2> QED
    BY <2>1, <2>2, <2>3, <2>4 DEF AnswerInv
<1>1. ASSUME NEW r \in Req, SendMMMojoWriteInfo(r)
      PROVE  AnswerInv'
  <2>1. From(r) \in End /\ [op |-> "Write", req |-> r] \in Task
    BY RequestEnds, TaskType
  <2>2. Post(From(r), "Write", r) \/ UNCHANGED queue
    BY <1>1 DEF SendMMMojoWriteInfo
  <2>3. QueueStep
    BY <2>1, <2>2, PostEffect DEF QueueStep, TaskHome
  <2> QED
    BY <1>1, <1>c, <2>3 DEF SendMMMojoWriteInfo, HeldStep, ResponseStep, WaitStep
<1>2. ASSUME NEW r \in Req, SendPullResp(r)
      PROVE  AnswerInv'
  <2>1. To(r) \in End /\ [op |-> "PullResp", req |-> r] \in Task
    BY RequestEnds, TaskType
  <2>2. Post(To(r), "PullResp", r) \/ UNCHANGED queue
    BY <1>2 DEF SendPullResp
  <2>3. Read(r)'
    BY <1>2, <1>b DEF SendPullResp, AnswerInv
  <2>4. QueueStep
    BY <2>1, <2>2, <2>3, PostEffect DEF QueueStep, TaskHome
  <2> QED
    BY <1>2, <1>c, <2>4 DEF SendPullResp, HeldStep, ResponseStep, WaitStep
<1>3. ASSUME NEW r \in Req, RemoveMMMojoReadInfo(r)
      PROVE  AnswerInv'
  <2>1. To(r) \in End /\ [op |-> "RaiseError", req |-> r] \in Task
    BY RequestEnds, TaskType
  <2>2. Post(To(r), "RaiseError", r) \/ UNCHANGED queue
    BY <1>3 DEF RemoveMMMojoReadInfo
  <2>3. QueueStep
    BY <2>1, <2>2, PostEffect DEF QueueStep, TaskHome
  <2> QED
    BY <1>3, <1>c, <2>3 DEF RemoveMMMojoReadInfo, HeldStep, ResponseStep, WaitStep
<1>4. ASSUME NEW e \in End, StopStream(e)
      PROVE  AnswerInv'
  <2>1. Post(e, "Remove", None) /\ [op |-> "Remove", req |-> None] \in Task
    BY <1>4, TaskType DEF StopStream
  <2>2. QueueStep
    BY <2>1, PostEffect DEF QueueStep, TaskHome
  <2> QED
    BY <1>4, <1>c, <2>2 DEF StopStream, HeldStep, ResponseStep, WaitStep
<1>5. ASSUME NEW e \in End, NEW op, RunsTask(e, op)
      PROVE  QueueStep
  BY <1>5, RunEffect DEF QueueStep
<1>6. ASSUME NEW e \in End, CreateRemoteAndReceiverStream(e)
      PROVE  AnswerInv'
  BY <1>6, <1>5, <1>c DEF CreateRemoteAndReceiverStream, HeldStep, ResponseStep, WaitStep
<1>7. ASSUME NEW e \in End, RemoveRemoteAndReceiverStream(e)
      PROVE  AnswerInv'
  <2>1. ResponseStep
    BY <1>7, EmptyElements DEF RemoveRemoteAndReceiverStream, ResponseStep, TypeOK
  <2> QED
    BY <1>7, <1>5, <1>c, <2>1 DEF RemoveRemoteAndReceiverStream, HeldStep, WaitStep
<1>8. ASSUME NEW e \in End, RaiseError(e)
      PROVE  AnswerInv'
  BY <1>8, <1>5, <1>c DEF RaiseError, HeldStep, ResponseStep, WaitStep
<1>9. ASSUME NEW e \in End, NEW m \in Method, AsyncWrite(e, m)
      PROVE  AnswerInv'
  BY <1>9, <1>5, <1>c DEF AsyncWrite, HeldStep, ResponseStep, WaitStep
<1>10. ASSUME NEW e \in End, NEW m \in Method, SyncWrite(e, m)
       PROVE  AnswerInv'
  <2>1. RunsTask(e, "Write")
    BY <1>10 DEF SyncWrite
  <2>2. From(Head(queue[e]).req) = e
    BY <2>1, RunEffect DEF AnswerInv, TaskHome
  <2>3. WaitStep
    BY <1>10, <2>2 DEF SyncWrite, WaitStep, TypeOK
  <2> QED
    BY <1>10, <2>1, <2>3, <1>5, <1>c DEF SyncWrite, HeldStep, ResponseStep
<1>11. ASSUME NEW e \in End, PullReqWithCallback(e)
       PROVE  AnswerInv'
  BY <1>11, <1>5, <1>c DEF PullReqWithCallback, HeldStep, ResponseStep, WaitStep
<1>12. ASSUME NEW e \in End, NEW b \in BOOLEAN, AnswerPull(e, b)
       PROVE  AnswerInv'
  <2>1. RunsTask(e, "PullResp")
    BY <1>12 DEF AnswerPull
  <2>2. PICK r \in Req : r = Head(queue[e]).req /\ Read(r)
    BY <2>1, RunEffect DEF AnswerInv, TaskHome
  <2>r. Respond(e, r, TRUE) \/ UNCHANGED responses
    BY <1>12, <2>2 DEF AnswerPull
  <2>3. ResponseTrue([req |-> r, success |-> TRUE])'
    BY <2>2, <1>b DEF Read, ResponseTrue, HasReader
  <2>4. \A d \in End : \A x \in ToSet(responses'[d]) :
           x \in ToSet(responses[d]) \/ x = [req |-> r, success |-> TRUE]
    BY <2>r, <2>2, RespondEffect
  <2>5. ResponseStep
    BY <2>3, <2>4 DEF ResponseStep, ResponseTrue
  <2> QED
    BY <1>12, <2>1, <2>5, <1>5, <1>c DEF AnswerPull, HeldStep, WaitStep
<1>13. ASSUME NEW e \in End, SyncResponse(e)
       PROVE  AnswerInv'
  <2>1. PICK i \in DOMAIN responses[e] :
            responses' = [responses EXCEPT ![e] = RemoveAt(@, i)]
    BY <1>13 DEF SyncResponse
  <2>2. responses \in [End -> Seq(Response)]
    BY DEF TypeOK, Response
  <2>3. ToSet(RemoveAt(responses[e], i)) \subseteq ToSet(responses[e])
    BY <2>1, <2>2, RemoveAtElements
  <2>4. ResponseStep
    BY <2>1, <2>2, <2>3 DEF ResponseStep
  <2>5. WaitStep
    BY <1>13 DEF SyncResponse, WaitStep, TypeOK
  <2> QED
    BY <1>13, <2>4, <2>5, <1>c DEF SyncResponse, HeldStep, QueueStep
<1>14. ASSUME NEW e \in End, SyncDisconnect(e)
       PROVE  AnswerInv'
  <2>1. WaitStep
    BY <1>14 DEF SyncDisconnect, WaitStep, TypeOK
  <2> QED
    BY <1>14, <2>1, <1>c DEF SyncDisconnect, HeldStep, QueueStep, ResponseStep
<1>15. ASSUME NEW e \in End, NEW m \in Method, OneWay(e, m)
       PROVE  AnswerInv'
  BY <1>15, <1>c DEF OneWay, Dispatch, HeldStep, QueueStep, ResponseStep, WaitStep
<1>16. ASSUME NEW e \in End, NEW m \in Method, Acknowledge(e, m)
       PROVE  AnswerInv'
  <2>1. PICK i \in Deliverable(e) :
            /\ Dispatch(e, i, m, TRUE)
            /\ LET r == requests[Peer(e)][i] IN Respond(e, r, HasReader(r))
            /\ UNCHANGED held
    BY <1>16 DEF Acknowledge
  <2>2. PICK r \in Req : r = requests[Peer(e)][i] /\ dispatched'[r] > 0
    BY <2>1, DispatchEffect
  <2>r. HasReader(r) \in BOOLEAN
    BY DEF HasReader
  <2>3. PICK b \in BOOLEAN : b = HasReader(r) /\ Respond(e, r, b)
    BY <2>1, <2>2, <2>r
  <2>4. ResponseTrue([req |-> r, success |-> b])'
    BY <2>2, <2>3 DEF ResponseTrue, HasReader
  <2>5. \A d \in End : \A x \in ToSet(responses'[d]) :
           x \in ToSet(responses[d]) \/ x = [req |-> r, success |-> b]
    BY <2>2, <2>3, RespondEffect
  <2>6. ResponseStep
    BY <2>4, <2>5 DEF ResponseStep, ResponseTrue
  <2> QED
    BY <2>1, <2>6, <1>c DEF Dispatch, HeldStep, QueueStep, WaitStep
<1>17. ASSUME NEW e \in End, NEW b \in BOOLEAN, ReadPull(e, b)
       PROVE  AnswerInv'
  <2>1. PICK i \in Deliverable(e) :
            /\ Dispatch(e, i, "kMMPullReq", b)
            /\ LET r == requests[Peer(e)][i]
               IN  \/ HasReader(r) /\ held' = held \cup {r} /\ UNCHANGED responses
                   \/ ~HasReader(r) /\ Respond(e, r, FALSE) /\ UNCHANGED held
    BY <1>17 DEF ReadPull
  <2>2. PICK r \in Req : r = requests[Peer(e)][i] /\ dispatched'[r] > 0
    BY <2>1, DispatchEffect
  <2>3. CASE HasReader(r) /\ held' = held \cup {r} /\ UNCHANGED responses
    <3>1. HeldStep
      BY <2>2, <2>3 DEF HeldStep, Read, HasReader
    <3> QED
      BY <2>1, <2>3, <3>1, <1>c DEF Dispatch, QueueStep, ResponseStep, WaitStep
  <2>4. CASE ~HasReader(r) /\ Respond(e, r, FALSE) /\ UNCHANGED held
    <3>1. ResponseTrue([req |-> r, success |-> FALSE])'
      BY <2>2, <2>4 DEF ResponseTrue, HasReader
    <3>2. \A d \in End : \A x \in ToSet(responses'[d]) :
             x \in ToSet(responses[d]) \/ x = [req |-> r, success |-> FALSE]
      BY <2>2, <2>4, RespondEffect
    <3>3. ResponseStep
      BY <3>1, <3>2 DEF ResponseStep, ResponseTrue
    <3> QED
      BY <2>1, <2>4, <3>3, <1>c DEF Dispatch, HeldStep, QueueStep, WaitStep
  <2> QED
    BY <2>1, <2>2, <2>3, <2>4
<1>18. ASSUME NEW e \in End, ReadResponse(e)
       PROVE  AnswerInv'
  <2>1. /\ responses \in [End -> Seq(Response)] /\ responses[e] # <<>>
        /\ responses' = [responses EXCEPT ![e] = Tail(@)]
        /\ UNCHANGED <<queue, waiting, held>>
    BY <1>18 DEF ReadResponse, OnPushReqMMMojoReadInfo,
                 OnPushReqMMMojoReadInfoSync, TakeResponse, TypeOK, Response
  <2>2. ToSet(Tail(responses[e])) \subseteq ToSet(responses[e])
    BY <2>1, TailElements
  <2>3. ResponseStep
    BY <2>1, <2>2 DEF ResponseStep
  <2> QED
    BY <2>1, <2>3, <1>c DEF HeldStep, QueueStep, WaitStep
<1>19. ASSUME NEW e \in End, OnMojoDisconnect(e) \/ LoseRequest(e)
       PROVE  AnswerInv'
  BY <1>19, <1>c DEF OnMojoDisconnect, LoseRequest, HeldStep, QueueStep, ResponseStep, WaitStep
<1>20. ASSUME NEW p \in Side, Crash(p)
       PROVE  AnswerInv'
  <2>1. QueueStep /\ ResponseStep
    BY <1>20, EmptyElements DEF Crash, QueueStep, ResponseStep
  <2> QED
    BY <1>20, <2>1, <1>c DEF Crash, HeldStep, WaitStep
<1>21. ASSUME NEW e \in End, LoseResponse(e)
       PROVE  AnswerInv'
  <2>1. responses \in [End -> Seq(Response)]
    BY DEF TypeOK, Response
  <2>2. ToSet(SubSeq(responses[e], 1, Len(responses[e]) - 1)) \subseteq ToSet(responses[e])
    BY <1>21, <2>1, FrontElements DEF LoseResponse
  <2>3. ResponseStep
    BY <1>21, <2>1, <2>2 DEF LoseResponse, ResponseStep
  <2> QED
    BY <1>21, <2>3, <1>c DEF LoseResponse, HeldStep, QueueStep, WaitStep
<1>22. ASSUME NEW r \in Req, RemoveMMMojoReadInfoInCallback(r)
       PROVE  AnswerInv'
  BY <1>22, <1>c DEF RemoveMMMojoReadInfoInCallback, HeldStep, QueueStep,
         ResponseStep, WaitStep
<1>23. CASE UNCHANGED vars
  BY <1>23, <1>c DEF vars, HeldStep, QueueStep, ResponseStep, WaitStep
<1> QED
  BY <1>1, <1>2, <1>3, <1>4, <1>6, <1>7, <1>8, <1>9, <1>10, <1>11, <1>12, <1>13,
     <1>14, <1>15, <1>16, <1>17, <1>18, <1>19, <1>20, <1>21, <1>22, <1>23,
     NextCases

\* The actions that leave the tasks and the ends of the streams alone.
LEMMA QuietSteps ==
    ASSUME [Next]_vars
    PROVE  \/ UNCHANGED <<queue, endVars>>
           \/ \E r \in Req : SendMMMojoWriteInfo(r)
           \/ \E r \in Req : SendPullResp(r)
           \/ \E r \in Req : RemoveMMMojoReadInfo(r)
           \/ \E r \in Req : RemoveMMMojoReadInfoInCallback(r)
           \/ \E e \in End : StopStream(e)
           \/ \E e \in End : CreateRemoteAndReceiverStream(e)
           \/ \E e \in End : RemoveRemoteAndReceiverStream(e)
           \/ \E e \in End : RaiseError(e)
           \/ \E e \in End : \E m \in Method : AsyncWrite(e, m)
           \/ \E e \in End : \E m \in Method : SyncWrite(e, m)
           \/ \E e \in End : PullReqWithCallback(e)
           \/ \E e \in End : \E b \in BOOLEAN : AnswerPull(e, b)
           \/ \E e \in End : OnMojoDisconnect(e)
           \/ \E p \in Side : Crash(p)
<1> USE DEF threadVars, wireVars, endVars, callVars, histVars
<1>1. ASSUME NEW e \in End, SyncResponse(e) \/ SyncDisconnect(e)
      PROVE  UNCHANGED <<queue, endVars>>
  BY <1>1 DEF SyncResponse, SyncDisconnect
<1>2. ASSUME NEW e \in End, NEW m \in Method, OneWay(e, m) \/ Acknowledge(e, m)
      PROVE  UNCHANGED <<queue, endVars>>
  BY <1>2 DEF OneWay, Acknowledge, Dispatch
<1>3. ASSUME NEW e \in End, NEW b \in BOOLEAN, ReadPull(e, b)
      PROVE  UNCHANGED <<queue, endVars>>
  BY <1>3 DEF ReadPull, Dispatch
<1>4. ASSUME NEW e \in End, ReadResponse(e)
      PROVE  UNCHANGED <<queue, endVars>>
  BY <1>4 DEF ReadResponse, OnPushReqMMMojoReadInfo,
         OnPushReqMMMojoReadInfoSync, TakeResponse
<1>5. ASSUME NEW e \in End, LoseRequest(e) \/ LoseResponse(e)
      PROVE  UNCHANGED <<queue, endVars>>
  BY <1>5 DEF LoseRequest, LoseResponse
<1>6. CASE UNCHANGED vars
  BY <1>6 DEF vars
<1> QED
  BY <1>1, <1>2, <1>3, <1>4, <1>5, <1>6, NextCases

\* A thread that runs a task has no Create task left.
LEMMA RunCreate ==
    ASSUME TypeOK, CreateInv, NEW e \in End, NEW op, RunsTask(e, op)
    PROVE  /\ op = "Create" <=> impl[e] = "absent"
           /\ \A i \in 1..Len(queue'[e]) : queue'[e][i].op # "Create"
           /\ \A d \in End : d # e => queue'[d] = queue[d]
           /\ CreateFirst(e)
<1>1. /\ queue[e] \in Seq(Task) /\ queue[e] # <<>>
      /\ Head(queue[e]).op = op /\ queue'[e] = Tail(queue[e])
      /\ \A d \in End : d # e => queue'[d] = queue[d]
  BY RunEffect
<1>2. /\ Head(queue[e]) = queue[e][1] /\ Len(queue[e]) > 0 /\ Len(queue[e]) \in Nat
      /\ Len(Tail(queue[e])) = Len(queue[e]) - 1
      /\ \A i \in 1..Len(queue[e]) - 1 : Tail(queue[e])[i] = queue[e][i + 1]
  BY <1>1, TailElements
<1>3. CreateFirst(e)
  BY DEF CreateInv
<1>4. op = "Create" <=> impl[e] = "absent"
  BY <1>1, <1>2, <1>3 DEF CreateFirst
<1>5. ASSUME NEW i \in 1..Len(Tail(queue[e]))
      PROVE  Tail(queue[e])[i].op # "Create"
  <2>1. i + 1 \in 1..Len(queue[e]) /\ i + 1 # 1 /\ Tail(queue[e])[i] = queue[e][i + 1]
    BY <1>2
  <2> QED
    BY <2>1, <1>3 DEF CreateFirst
<1> QED
  BY <1>1, <1>3, <1>4, <1>5

\* Every step keeps CreateRemoteAndReceiverStream the first task of a thread.
LEMMA CreateStep ==
    ASSUME TypeOK, CreateInv, [Next]_vars
    PROVE  CreateInv'
<1> USE DEF threadVars, wireVars, endVars, callVars, histVars
<1>0. CASE UNCHANGED <<queue, endVars>>
  BY <1>0 DEF CreateInv, CreateFirst
<1>1. ASSUME NEW e \in End, NEW op \in {"Write", "PullResp", "RaiseError", "Remove"}, NEW r,
             [op |-> op, req |-> r] \in Task,
             Post(e, op, r) \/ UNCHANGED queue, UNCHANGED <<impl, recv>>
      PROVE  CreateInv'
  <2>1. CASE UNCHANGED queue
    BY <2>1, <1>1 DEF CreateInv, CreateFirst
  <2>2. CASE Post(e, op, r)
    <3> DEFINE t == [op |-> op, req |-> r]
    <3>1. /\ \A d \in End : d # e => queue'[d] = queue[d]
          /\ queue[e] \in Seq(Task)
          /\ queue'[e] = Append(queue[e], t)
      BY <1>1, <2>2, PostEffect
    <3>2. t.op # "Create"
      OBVIOUS
    <3> HIDE DEF t
    <3>3. CreateFirst(e)
      BY DEF CreateInv
    <3>4. /\ Len(queue[e]) \in Nat
          /\ queue[e] # <<>> => Len(queue[e]) > 0
          /\ queue'[e] # <<>> /\ Len(queue'[e]) = Len(queue[e]) + 1
          /\ \A i \in 1..Len(queue[e]) : queue'[e][i] = queue[e][i]
          /\ queue'[e][Len(queue[e]) + 1] = t
      BY <3>1
    <3>5. ASSUME NEW i \in 1..Len(queue'[e])
          PROVE  queue'[e][i].op = "Create" <=> (i = 1 /\ impl[e] = "absent")
      <4>1. CASE i \in 1..Len(queue[e])
        BY <4>1, <3>3, <3>4 DEF CreateFirst
      <4>2. CASE i = Len(queue[e]) + 1
        BY <4>2, <3>2, <3>3, <3>4 DEF CreateFirst
      <4> QED
        BY <4>1, <4>2, <3>4
    <3>6. CreateFirst(e)'
      BY <3>3, <3>4, <3>5, <1>1 DEF CreateFirst
    <3>7. ASSUME NEW d \in End, d # e
          PROVE  CreateFirst(d)'
      BY <3>1, <3>7, <1>1 DEF CreateInv, CreateFirst
    <3> QED
      BY <3>6, <3>7 DEF CreateInv
  <2> QED
    BY <1>1, <2>1, <2>2
<1>2. ASSUME NEW r \in Req,
             SendMMMojoWriteInfo(r) \/ SendPullResp(r) \/ RemoveMMMojoReadInfo(r)
      PROVE  CreateInv'
  <2>1. /\ UNCHANGED <<impl, recv>>
        /\ \/ Post(From(r), "Write", r)
           \/ Post(To(r), "PullResp", r)
           \/ Post(To(r), "RaiseError", r)
           \/ UNCHANGED queue
    BY <1>2 DEF SendMMMojoWriteInfo, SendPullResp, RemoveMMMojoReadInfo
  <2>2. From(r) \in End /\ To(r) \in End
    BY RequestEnds
  <2>3. /\ [op |-> "Write", req |-> r] \in Task
        /\ [op |-> "PullResp", req |-> r] \in Task
        /\ [op |-> "RaiseError", req |-> r] \in Task
    BY TaskType
  <2> QED
    BY <1>1, <2>1, <2>2, <2>3
<1>3. ASSUME NEW e \in End, StopStream(e)
      PROVE  CreateInv'
  BY <1>3, <1>1, TaskType DEF StopStream
<1>4. ASSUME NEW e \in End, NEW op, RunsTask(e, op), op # "Create",
             \/ UNCHANGED <<impl, recv>>
             \/ /\ impl' = impl \/ impl' = [impl EXCEPT ![e] = "removed"]
                /\ recv' = [recv EXCEPT ![e] = "closed"]
      PROVE  CreateInv'
  <2>1. /\ impl[e] # "absent" /\ CreateFirst(e)
        /\ \A i \in 1..Len(queue'[e]) : queue'[e][i].op # "Create"
        /\ \A d \in End : d # e => queue'[d] = queue[d]
    BY <1>4, RunCreate
  <2>2. /\ impl'[e] # "absent"
        /\ impl'[e] \in {"reset", "removed"} => recv'[e] = "closed"
        /\ \A d \in End : d # e => impl'[d] = impl[d] /\ recv'[d] = recv[d]
    BY <1>4, <2>1 DEF TypeOK, CreateFirst
  <2>3. CreateFirst(e)'
    BY <2>1, <2>2 DEF CreateFirst
  <2>4. ASSUME NEW d \in End, d # e
        PROVE  CreateFirst(d)'
    BY <2>1, <2>2, <2>4 DEF CreateInv, CreateFirst
  <2> QED
    BY <2>3, <2>4 DEF CreateInv
<1>5. ASSUME NEW e \in End, CreateRemoteAndReceiverStream(e)
      PROVE  CreateInv'
  <2>1. /\ \A i \in 1..Len(queue'[e]) : queue'[e][i].op # "Create"
        /\ \A d \in End : d # e => queue'[d] = queue[d]
    BY <1>5, RunCreate DEF CreateRemoteAndReceiverStream
  <2>2. /\ impl'[e] = "bound"
        /\ \A d \in End : d # e => impl'[d] = impl[d] /\ recv'[d] = recv[d]
    BY <1>5 DEF CreateRemoteAndReceiverStream, TypeOK
  <2>3. CreateFirst(e)'
    BY <2>1, <2>2 DEF CreateFirst
  <2>4. ASSUME NEW d \in End, d # e
        PROVE  CreateFirst(d)'
    BY <2>1, <2>2, <2>4 DEF CreateInv, CreateFirst
  <2> QED
    BY <2>3, <2>4 DEF CreateInv
<1>6. ASSUME NEW e \in End, RemoveRemoteAndReceiverStream(e) \/ RaiseError(e)
      PROVE  CreateInv'
  BY <1>6, <1>4 DEF RemoveRemoteAndReceiverStream, RaiseError
<1>7. ASSUME NEW e \in End, NEW m \in Method, AsyncWrite(e, m) \/ SyncWrite(e, m)
      PROVE  CreateInv'
  BY <1>7, <1>4 DEF AsyncWrite, SyncWrite
<1>8. ASSUME NEW e \in End, PullReqWithCallback(e)
      PROVE  CreateInv'
  BY <1>8, <1>4 DEF PullReqWithCallback
<1>9. ASSUME NEW e \in End, NEW b \in BOOLEAN, AnswerPull(e, b)
      PROVE  CreateInv'
  BY <1>9, <1>4 DEF AnswerPull
<1>10. ASSUME NEW e \in End, OnMojoDisconnect(e)
       PROVE  CreateInv'
  <2>1. /\ impl[e] = "bound" /\ UNCHANGED queue
        /\ impl' = [impl EXCEPT ![e] = "reset"]
        /\ recv' = [recv EXCEPT ![e] = "closed"]
    BY <1>10 DEF OnMojoDisconnect
  <2>2. /\ impl'[e] = "reset" /\ recv'[e] = "closed"
        /\ \A d \in End : d # e => impl'[d] = impl[d] /\ recv'[d] = recv[d]
    BY <2>1 DEF TypeOK
  <2>3. ASSUME NEW d \in End
        PROVE  CreateFirst(d)'
    BY <2>1, <2>2 DEF CreateInv, CreateFirst
  <2> QED
    BY <2>3 DEF CreateInv
<1>11. ASSUME NEW p \in Side, Crash(p)
       PROVE  CreateInv'
  <2>1. ASSUME NEW d \in End
        PROVE  \/ queue'[d] = queue[d] /\ impl'[d] = impl[d] /\ recv'[d] = recv[d]
               \/ queue'[d] = <<>> /\ impl'[d] = "removed" /\ recv'[d] = "closed"
    BY <1>11 DEF Crash
  <2>2. ASSUME NEW d \in End
        PROVE  CreateFirst(d)'
    BY <2>1 DEF CreateInv, CreateFirst
  <2> QED
    BY <2>2 DEF CreateInv
<1>12. ASSUME NEW r \in Req, RemoveMMMojoReadInfoInCallback(r)
       PROVE  CreateInv'
  <2>1. /\ UNCHANGED <<queue, impl>>
        /\ recv' = [recv EXCEPT ![To(r)] = "closed"] /\ recv[To(r)] = "open"
    BY <1>12 DEF RemoveMMMojoReadInfoInCallback
  <2>2. ASSUME NEW d \in End
        PROVE  CreateFirst(d)'
    BY <2>1 DEF CreateInv, CreateFirst, TypeOK
  <2> QED
    BY <2>2 DEF CreateInv
<1> QED
  BY <1>0, <1>2, <1>3, <1>5, <1>6, <1>7, <1>8, <1>9, <1>10, <1>11, <1>12, QuietSteps

\* A stream that is broken stays broken.
LEMMA BrokenStays ==
    ASSUME TypeOK, CreateInv, [Next]_vars
    PROVE  \A s \in Stream : Broken(s) => Broken(s)'
<1> USE DEF threadVars, wireVars, endVars, callVars, histVars
<1> DEFINE Lasting == /\ \A p \in Side : ~alive[p] => ~alive'[p]
                      /\ \A e \in End : ~stream[e] => ~stream'[e]
                      /\ \A e \in End : recv[e] = "closed" => recv'[e] = "closed"
<1>0. ASSUME Lasting
      PROVE  \A s \in Stream : Broken(s) => Broken(s)'
  BY <1>0 DEF Broken, End
<1>1. CASE UNCHANGED <<queue, endVars>>
  BY <1>1, <1>0
<1>2. ASSUME NEW r \in Req,
             \/ SendMMMojoWriteInfo(r) \/ SendPullResp(r)
             \/ RemoveMMMojoReadInfo(r) \/ RemoveMMMojoReadInfoInCallback(r)
      PROVE  Lasting
  BY <1>2 DEF SendMMMojoWriteInfo, SendPullResp, RemoveMMMojoReadInfo,
         RemoveMMMojoReadInfoInCallback, TypeOK
<1>3. ASSUME NEW e \in End,
             \/ StopStream(e) \/ RemoveRemoteAndReceiverStream(e) \/ RaiseError(e)
             \/ PullReqWithCallback(e) \/ OnMojoDisconnect(e)
      PROVE  Lasting
  BY <1>3 DEF StopStream, RemoveRemoteAndReceiverStream, RaiseError,
              PullReqWithCallback, OnMojoDisconnect, TypeOK
<1>4. ASSUME NEW e \in End, NEW m \in Method, AsyncWrite(e, m) \/ SyncWrite(e, m)
      PROVE  Lasting
  BY <1>4 DEF AsyncWrite, SyncWrite
<1>5. ASSUME NEW e \in End, NEW b \in BOOLEAN, AnswerPull(e, b)
      PROVE  Lasting
  BY <1>5 DEF AnswerPull
<1>6. ASSUME NEW e \in End, CreateRemoteAndReceiverStream(e)
      PROVE  Lasting
  <2>1. impl[e] = "absent" /\ CreateFirst(e)
    BY <1>6, RunCreate DEF CreateRemoteAndReceiverStream
  <2>2. recv[e] = "fresh"
    BY <2>1 DEF CreateFirst
  <2> QED
    BY <1>6, <2>2 DEF CreateRemoteAndReceiverStream, TypeOK
<1>7. ASSUME NEW p \in Side, Crash(p)
      PROVE  Lasting
  BY <1>7 DEF Crash, TypeOK
<1> QED
  BY <1>0, <1>1, <1>2, <1>3, <1>4, <1>5, <1>6, <1>7, QuietSteps

\* Every step keeps the results of synchronous calls truthful.
LEMMA ResultStep ==
    ASSUME TypeOK, AnswerInv, CreateInv, ResultInv, [Next]_vars
    PROVE  ResultInv'
<1> USE DEF threadVars, wireVars, endVars, callVars, histVars
<1> DEFINE Truthful(r) ==
        /\ outcome'[r] = "true" =>
               Read(r)' /\ (r.method = "kMMPullReq" => info'[r] = "reply")
        /\ outcome'[r] = "false" => Broken(StreamOf(r))' \/ ~HasReader(r)
<1>a. /\ \A r \in Req : Read(r) => Read(r)'
      /\ \A s \in Stream : Broken(s) => Broken(s)'
      /\ \A r \in Req : StreamOf(r) \in Stream
  BY DispatchedGrows, BrokenStays DEF Stream
<1>b. ASSUME \A r \in Req : Blocking(r) =>
                 \/ outcome'[r] = outcome[r] /\ info'[r] = info[r]
                 \/ Truthful(r)
      PROVE  ResultInv'
  BY <1>a, <1>b DEF ResultInv, Blocking, HasReader
<1>1. ASSUME NEW r \in Req, SendMMMojoWriteInfo(r)
      PROVE  ResultInv'
  <2>1. /\ info' = info /\ \A q \in Req : q # r => outcome'[q] = outcome[q]
        /\ stream' = stream
        /\ \/ outcome'[r] = IF r.sync THEN "blocked" ELSE "true"
           \/ ~stream[From(r)] /\ outcome'[r] = "false"
    BY <1>1 DEF SendMMMojoWriteInfo, TypeOK
  <2>2. ~stream[From(r)] => Broken(StreamOf(r))'
    <3>1. From(r) = <<r.side, StreamOf(r)>> /\ r.side \in Side
      BY RequestEnds DEF From
    <3> QED
      BY <2>1, <3>1 DEF Broken
  <2>3. Blocking(r) => Truthful(r)
    BY <2>1, <2>2 DEF Blocking
  <2> QED
    BY <2>1, <2>3, <1>b
<1>2. ASSUME NEW e \in End, NEW m \in Method, SyncWrite(e, m)
      PROVE  ResultInv'
  <2>1. RunsTask(e, "Write")
    BY <1>2 DEF SyncWrite
  <2>2. PICK r \in Req : r = Head(queue[e]).req /\ From(r) = e
    BY <2>1, RunEffect DEF AnswerInv, TaskHome
  <2>3. /\ info' = info /\ recv' = recv
        /\ \/ outcome' = outcome
           \/ impl[e] # "bound" /\ outcome' = [outcome EXCEPT ![r] = "false"]
    BY <1>2, <2>2 DEF SyncWrite
  <2>4. ASSUME impl[e] # "bound"
        PROVE  Broken(StreamOf(r))'
    <3>1. impl[e] # "absent" /\ CreateFirst(e)
      BY <2>1, RunCreate
    <3>2. recv'[e] = "closed"
      BY <3>1, <2>3, <2>4 DEF CreateFirst, TypeOK, ImplState
    <3>3. e = <<r.side, StreamOf(r)>> /\ r.side \in Side
      BY <2>2, RequestEnds DEF From
    <3> QED
      BY <3>2, <3>3 DEF Broken
  <2>5. CASE outcome' = outcome
    BY <2>3, <2>5, <1>b
  <2>6. CASE impl[e] # "bound" /\ outcome' = [outcome EXCEPT ![r] = "false"]
    <3>1. outcome'[r] = "false" /\ \A q \in Req : q # r => outcome'[q] = outcome[q]
      BY <2>6 DEF TypeOK
    <3>2. Truthful(r)
      BY <3>1, <2>6, <2>4
    <3> QED
      BY <3>1, <3>2, <2>3, <1>b
  <2> QED
    BY <2>3, <2>5, <2>6
<1>3. ASSUME NEW e \in End, PullReqWithCallback(e)
      PROVE  ResultInv'
  <2>1. RunsTask(e, "Write")
    BY <1>3 DEF PullReqWithCallback
  <2>2. Head(queue[e]).req \in Req
    BY <2>1, RunEffect
  <2>3. /\ info' = info
        /\ \A q \in Req : Blocking(q) => outcome'[q] = outcome[q]
    BY <1>3, <2>2 DEF PullReqWithCallback, TypeOK
  <2> QED
    BY <2>3, <1>b
<1>4. ASSUME NEW e \in End, SyncResponse(e)
      PROVE  ResultInv'
  <2>1. PICK i \in DOMAIN responses[e] :
            /\ outcome' = [outcome EXCEPT ![responses[e][i].req] =
                               IF responses[e][i].success THEN "true" ELSE "false"]
            /\ info' = IF responses[e][i].req.method # "kMMPullReq" THEN info
                       ELSE [info EXCEPT ![responses[e][i].req] =
                                 IF responses[e][i].success THEN "reply" ELSE "empty"]
    BY <1>4 DEF SyncResponse
  <2>2. responses[e] \in Seq(Response)
    BY DEF TypeOK, Response
  <2>3. responses[e][i] \in Response /\ ResponseTrue(responses[e][i])
    BY <2>1, <2>2, ElementIndex DEF AnswerInv
  <2>4. PICK r \in Req, b \in BOOLEAN :
            /\ r = responses[e][i].req /\ b = responses[e][i].success
            /\ dispatched[r] > 0 /\ (b <=> HasReader(r))
    BY <2>3 DEF Response, ResponseTrue
  <2>5. /\ outcome' = [outcome EXCEPT ![r] = IF b THEN "true" ELSE "false"]
        /\ info' = IF r.method # "kMMPullReq" THEN info
                   ELSE [info EXCEPT ![r] = IF b THEN "reply" ELSE "empty"]
    BY <2>1, <2>4
  <2>6. b => Read(r)'
    BY <2>4, <1>a DEF Read
  <2>7. Truthful(r)
    BY <2>4, <2>5, <2>6 DEF TypeOK
  <2>8. \A q \in Req : q # r => outcome'[q] = outcome[q] /\ info'[q] = info[q]
    BY <2>5 DEF TypeOK
  <2> QED
    BY <2>7, <2>8, <1>b
<1>5. ASSUME NEW e \in End, SyncDisconnect(e)
      PROVE  ResultInv'
  <2>1. PICK r \in Req : r = waiting[e]
    BY <1>5 DEF SyncDisconnect, TypeOK
  <2>2. /\ outcome' = [outcome EXCEPT ![r] = "false"]
        /\ info' = IF r.method # "kMMPullReq" THEN info
                   ELSE [info EXCEPT ![r] = "empty"]
        /\ recv[Peer(e)] = "closed" /\ recv' = recv
    BY <1>5, <2>1 DEF SyncDisconnect
  <2>3. e = <<r.side, StreamOf(r)>>
    BY <1>5, <2>1 DEF SyncDisconnect, AnswerInv, From
  <2>4. Broken(StreamOf(r))'
    BY <2>2, <2>3 DEF Broken, Peer, Other, Side
  <2>5. /\ Truthful(r)
        /\ \A q \in Req : q # r => outcome'[q] = outcome[q] /\ info'[q] = info[q]
    BY <2>2, <2>4 DEF TypeOK
  <2> QED
    BY <2>5, <1>b
<1>6. ASSUME NEW p \in Side, Crash(p)
      PROVE  ResultInv'
  <2>1. info' = info /\ \A q \in Req : outcome'[q] \in {outcome[q], "dead"}
    BY <1>6 DEF Crash
  <2> QED
    BY <2>1, <1>b
<1>7. ASSUME UNCHANGED callVars
      PROVE  ResultInv'
  BY <1>7, <1>b
<1>8. ASSUME NEW r \in Req,
             \/ SendPullResp(r) \/ RemoveMMMojoReadInfo(r)
             \/ RemoveMMMojoReadInfoInCallback(r)
      PROVE  UNCHANGED callVars
  BY <1>8 DEF SendPullResp, RemoveMMMojoReadInfo, RemoveMMMojoReadInfoInCallback
<1>9. ASSUME NEW e \in End,
             \/ StopStream(e) \/ CreateRemoteAndReceiverStream(e)
             \/ RemoveRemoteAndReceiverStream(e) \/ RaiseError(e)
             \/ ReadResponse(e) \/ OnMojoDisconnect(e)
             \/ LoseRequest(e) \/ LoseResponse(e)
      PROVE  UNCHANGED callVars
  BY <1>9 DEF StopStream, CreateRemoteAndReceiverStream,
         RemoveRemoteAndReceiverStream, RaiseError, ReadResponse,
         OnPushReqMMMojoReadInfo, OnPushReqMMMojoReadInfoSync, TakeResponse,
         OnMojoDisconnect, LoseRequest, LoseResponse
<1>10. ASSUME NEW e \in End, NEW m \in Method,
              AsyncWrite(e, m) \/ OneWay(e, m) \/ Acknowledge(e, m)
       PROVE  UNCHANGED callVars
  BY <1>10 DEF AsyncWrite, OneWay, Acknowledge, Dispatch
<1>11. ASSUME NEW e \in End, NEW b \in BOOLEAN, AnswerPull(e, b) \/ ReadPull(e, b)
       PROVE  UNCHANGED callVars
  BY <1>11 DEF AnswerPull, ReadPull, Dispatch
<1>12. CASE UNCHANGED vars
  BY <1>12, <1>7 DEF vars
<1> QED
  BY <1>1, <1>2, <1>3, <1>4, <1>5, <1>6, <1>7, <1>8, <1>9, <1>10, <1>11, <1>12,
     NextCases

\* The promise of the synchronous calls, whatever the requests, the read
\* callbacks and the faults: true means that the peer's callback ran and, for
\* a pull, that its answer is in the read info; false, on a stream that is
\* whole, means that it did not run.
THEOREM SyncResults == Spec => []SyncResultTruthful
<1>1. Init => IInv
  BY InitIInv
<1>2. IInv /\ [Next]_vars => IInv'
  BY StepType, AnswerStep, CreateStep, ResultStep DEF IInv
<1>3. IInv => SyncResultTruthful
  BY DEF IInv, ResultInv, SyncResultTruthful, Read
<1> QED
  BY <1>1, <1>2, <1>3, PTL DEF Spec
=============================================================================
