------------------------ MODULE MMMojoDeliveryProofs ------------------------
(***************************************************************************)
(* That the requests of MMMojoStream are read in order, at most once, and  *)
(* not lost while their stream is whole; that a pull is answered at most   *)
(* once; and that no thread waits for nothing.                             *)
(***************************************************************************)
EXTENDS MMMojoStreamProofs

-----------------------------------------------------------------------------
(* The inductive invariant                                                 *)

Queued(e, op, r) == [op |-> op, req |-> r] \in ToSet(queue[e])

\* Nothing e writes any more reaches its peer.
Cut(e) == impl[e] \in {"reset", "removed"} \/ recv[Peer(e)] = "closed"

\* A process that died has nothing left, the peer's receiver has taken leave of
\* what was in flight once it is closed, and a stop is queued until it is done.
EndSound(e) ==
    /\ ~alive[e[1]] =>
           /\ queue[e] = <<>> /\ waiting[e] = None
           /\ impl[e] = "removed" /\ ~stream[e]
    /\ impl[e] = "absent" <=> recv[e] = "fresh"
    /\ recv[Peer(e)] = "closed" => requests[e] = <<>>
    /\ stream[e] => ~Queued(e, "Remove", None)
    /\ ~stream[e] => impl[e] = "removed" \/ Queued(e, "Remove", None)
EndInv == \A e \in End : EndSound(e)

\* The pairs of requests, and of tasks that write them, in the order of sent.
InSent(e)  == {p \in Req \X Req : Precedes(sent[e], p[1], p[2])}
InTasks(e) == {p \in Task \X Task :
                  p[1].op = "Write" /\ p[2].op = "Write" => <<p[1].req, p[2].req>> \in InSent(e)}

\* The requests of an end are posted once, and those in its queue and on its pipe
\* are in the order they were posted, with none missing unless the end is cut off.
FlowSound(e) ==
    /\ IsInjective(sent[e])
    /\ \A r \in ToSet(sent[e]) :
           /\ From(r) = e /\ outcome[r] # "idle"
           /\ \/ dispatched[r] > 0 \/ r \in ToSet(requests[e])
              \/ Queued(e, "Write", r) \/ Cut(e)
    /\ \A r \in ToSet(requests[e]) : r \in ToSet(sent[e]) /\ dispatched[r] = 0
    /\ \A r \in Req : Queued(e, "Write", r) => r \in ToSet(sent[e]) /\ dispatched[r] = 0
    /\ Ordered(requests[e], InSent(e))
    /\ Ordered(queue[e], InTasks(e))
    /\ \A a \in ToSet(requests[e]) : \A b \in Req :
           Queued(e, "Write", b) => <<a, b>> \in InSent(e)
    /\ \A a \in Req : \A b \in ToSet(requests[e]) : <<a, b>> \in InSent(e) =>
           dispatched[a] > 0 \/ a \in ToSet(requests[e])
FlowInv == \A e \in End : FlowSound(e)

ReadInv ==
    \A r \in Req :
        /\ dispatched[r] <= 1
        /\ dispatched[r] > 0 => r \in ToSet(sent[From(r)])
        /\ outcome[r] \in {"blocked", "true"} => r \in ToSet(sent[From(r)])

OvertakeInv ==
    \A e \in End : \A a, b \in Req :
        <<a, b>> \in InSent(e) /\ dispatched[b] > 0 =>
            dispatched[a] > 0 \/ (Blocking(b) /\ ~Blocking(a))

\* Where the callback of a pull is: with one of the application, the tasks and
\* the pipe, and nowhere after it was run.
Responded(r) == \E m \in ToSet(responses[From(r)]) : m.req = r
CallbackSound(r) ==
    /\ r \in held =>
           /\ r.method = "kMMPullReq" /\ answered[r] = 0 /\ ~Responded(r)
           /\ ~Queued(To(r), "PullResp", r) /\ ~Queued(To(r), "RaiseError", r)
    /\ \A e \in End : Queued(e, "PullResp", r) \/ Queued(e, "RaiseError", r) =>
           e = To(r) /\ r.method = "kMMPullReq" /\ dispatched[r] > 0
    /\ Queued(To(r), "PullResp", r) => answered[r] = 0 /\ ~Responded(r)
    /\ answered[r] <= dispatched[r]

\* No response and no task is there twice, and the responses are to the requests
\* of this end, to a synchronous one only while its sender waits for it.
Distinct(S)      == {p \in S \X S : p[1] # p[2]}
DistinctRequests == {p \in Response \X Response : p[1].req # p[2].req}
ResponsesSound(e) ==
    /\ \A m \in ToSet(responses[e]) :
           /\ From(m.req) = e /\ answered[m.req] = 0
           /\ m.req.method = "kMMPullReq" \/ Blocking(m.req)
           /\ Blocking(m.req) => waiting[e] = m.req
    /\ Ordered(responses[e], DistinctRequests)
CallbackInv ==
    /\ \A r \in Req : CallbackSound(r)
    /\ \A e \in End : ResponsesSound(e) /\ Ordered(queue[e], Distinct(Task))

\* Who may still answer a synchronous call.
Open(r) == \/ r \in ToSet(requests[From(r)])
           \/ r \in held
           \/ Queued(To(r), "PullResp", r)

\* What a thread inside a call waits for.
Awaited(e, r) ==
    \/ r \in ToSet(requests[e]) \/ Responded(r) \/ recv[Peer(e)] = "closed"
    \/ /\ r.method = "kMMPullReq"
       /\ \/ r \in held
          \/ Queued(Peer(e), "PullResp", r)
          \/ Queued(Peer(e), "RaiseError", r)
          \/ Queued(Peer(e), "Remove", None)

WaitSound(e) ==
    waiting[e] # None =>
        /\ From(waiting[e]) = e /\ Blocking(waiting[e])
        /\ outcome[waiting[e]] = "blocked" /\ impl[e] = "bound"
        /\ ~Queued(e, "Write", waiting[e])
        /\ Awaited(e, waiting[e])
CallSound(r) ==
    /\ Blocking(r) /\ Open(r) => waiting[From(r)] = r \/ Cut(From(r))
    /\ \A e \in End : Queued(e, "Write", r) /\ r.sync => outcome[r] = "blocked"
WaitInv ==
    /\ \A e \in End : WaitSound(e)
    /\ \A r \in Req : CallSound(r)

DeliveryInv ==
    /\ TypeOK /\ AnswerInv /\ CreateInv /\ ResultInv
    /\ EndInv /\ FlowInv /\ ReadInv /\ OvertakeInv /\ CallbackInv /\ WaitInv
-----------------------------------------------------------------------------
(* The ends of a stream                                                    *)

\* A pipe that was closed, an impl_ that was reset or removed, a stream that was
\* stopped and a process that died do not come back.
LEMMA EndStays ==
    ASSUME TypeOK, CreateInv, [Next]_vars, NEW e \in End
    PROVE  /\ ~alive[e[1]] => ~alive'[e[1]]
           /\ ~stream[e] => ~stream'[e]
           /\ recv[e] = "closed" => recv'[e] = "closed"
           /\ impl[e] \in {"reset", "removed"} => impl'[e] \in {"reset", "removed"}
           /\ impl[e] = "removed" => impl'[e] = "removed"
           /\ Cut(e) => Cut(e)'
<1> USE DEF threadVars, wireVars, endVars, callVars, histVars
<1>p. Peer(e) \in End /\ e[1] \in Side
  BY PeerEnd
<1> DEFINE Lasting ==
        /\ ~alive[e[1]] => ~alive'[e[1]]
        /\ ~stream[e] => ~stream'[e]
        /\ \A d \in End : recv[d] = "closed" => recv'[d] = "closed"
        /\ impl[e] \in {"reset", "removed"} => impl'[e] \in {"reset", "removed"}
        /\ impl[e] = "removed" => impl'[e] = "removed"
<1>0. ASSUME Lasting
      PROVE  Lasting /\ (Cut(e) => Cut(e)')
  BY <1>0, <1>p DEF Cut
<1>1. ASSUME UNCHANGED <<queue, endVars>>
      PROVE  Lasting
  BY <1>1
<1>2. ASSUME NEW r \in Req,
             \/ SendMMMojoWriteInfo(r) \/ SendPullResp(r)
             \/ RemoveMMMojoReadInfo(r) \/ RemoveMMMojoReadInfoInCallback(r)
      PROVE  Lasting
  BY <1>2 DEF SendMMMojoWriteInfo, SendPullResp, RemoveMMMojoReadInfo,
         RemoveMMMojoReadInfoInCallback, TypeOK
<1>3. ASSUME NEW d \in End, StopStream(d) \/ RaiseError(d) \/ PullReqWithCallback(d)
      PROVE  Lasting
  BY <1>3 DEF StopStream, RaiseError, PullReqWithCallback, TypeOK
<1>4. ASSUME NEW d \in End, RemoveRemoteAndReceiverStream(d) \/ OnMojoDisconnect(d)
      PROVE  Lasting
  BY <1>4 DEF RemoveRemoteAndReceiverStream, OnMojoDisconnect, TypeOK
<1>5. ASSUME NEW d \in End, NEW m \in Method, AsyncWrite(d, m) \/ SyncWrite(d, m)
      PROVE  Lasting
  BY <1>5 DEF AsyncWrite, SyncWrite
<1>6. ASSUME NEW d \in End, NEW b \in BOOLEAN, AnswerPull(d, b)
      PROVE  Lasting
  BY <1>6 DEF AnswerPull
<1>7. ASSUME NEW d \in End, CreateRemoteAndReceiverStream(d)
      PROVE  Lasting
  <2>1. impl[d] = "absent" /\ CreateFirst(d)
    BY <1>7, RunCreate DEF CreateRemoteAndReceiverStream
  <2>2. recv[d] = "fresh"
    BY <2>1 DEF CreateFirst
  <2> QED
    BY <1>7, <2>1, <2>2 DEF CreateRemoteAndReceiverStream, TypeOK
<1>8. ASSUME NEW p \in Side, Crash(p)
      PROVE  Lasting
  BY <1>8, <1>p DEF Crash, TypeOK
<1>9. Lasting
  BY <1>1, <1>2, <1>3, <1>4, <1>5, <1>6, <1>7, <1>8, QuietSteps
<1> HIDE DEF Lasting
<1>10. Lasting /\ (Cut(e) => Cut(e)')
  BY <1>0, <1>9
<1> QED
  BY <1>10 DEF Lasting
-----------------------------------------------------------------------------
(* How the queue of a thread proceeds                                      *)

\* The task that one step can add to a queue.
Posted(e, x) ==
    \/ \E r \in Req : /\ SendMMMojoWriteInfo(r) /\ e = From(r) /\ stream[e]
                      /\ x = [op |-> "Write", req |-> r]
    \/ \E r \in Req : /\ SendPullResp(r) /\ e = To(r) /\ stream[e]
                      /\ x = [op |-> "PullResp", req |-> r]
    \/ \E r \in Req : /\ RemoveMMMojoReadInfo(r) /\ e = To(r) /\ stream[e]
                      /\ x = [op |-> "RaiseError", req |-> r]
    \/ StopStream(e) /\ x = [op |-> "Remove", req |-> None]

QueueMove(e) ==
    \/ queue'[e] = queue[e]
    \/ /\ RunTask(e) /\ Idle(e) /\ queue[e] # <<>> /\ queue'[e] = Tail(queue[e])
       /\ ToSet(queue[e]) = ToSet(queue'[e]) \cup {Head(queue[e])}
    \/ \E x \in Task : /\ Posted(e, x) /\ queue'[e] = Append(queue[e], x)
                       /\ ToSet(queue'[e]) = ToSet(queue[e]) \cup {x}
    \/ Crash(e[1]) /\ queue'[e] = <<>>

\* A task that is posted to one queue.
LEMMA PostMove ==
    ASSUME TypeOK, NEW d \in End, NEW op, NEW r, [op |-> op, req |-> r] \in Task,
           Post(d, op, r), Posted(d, [op |-> op, req |-> r])
    PROVE  \A e \in End : QueueMove(e)
<1> DEFINE x == [op |-> op, req |-> r]
<1>1. /\ \A e \in End : e # d => queue'[e] = queue[e]
      /\ queue[d] \in Seq(Task) /\ queue'[d] = Append(queue[d], x)
      /\ x \in Task /\ Posted(d, x)
  BY PostEffect
<1> HIDE DEF x
<1>2. ToSet(queue'[d]) = ToSet(queue[d]) \cup {x}
  BY <1>1, AppendElements
<1>3. QueueMove(d)
  BY <1>1, <1>2 DEF QueueMove
<1> QED
  BY <1>1, <1>3 DEF QueueMove

\* A thread that runs its first task.
LEMMA RunMove ==
    ASSUME TypeOK, NEW d \in End, NEW op, RunsTask(d, op), RunTask(d)
    PROVE  \A e \in End : QueueMove(e)
<1>1. /\ \A e \in End : e # d => queue'[e] = queue[e]
      /\ queue[d] \in Seq(Task) /\ queue[d] # <<>> /\ queue'[d] = Tail(queue[d])
      /\ Idle(d)
  BY RunEffect
<1>2. ToSet(queue[d]) = ToSet(queue'[d]) \cup {Head(queue[d])}
  BY <1>1, TailElements
<1> QED
  BY <1>1, <1>2 DEF QueueMove

\* A thread that runs a task runs its first one.
LEMMA RunsOne ==
    ASSUME NEW e \in End
    PROVE  RunTask(e) <=>
               \/ CreateRemoteAndReceiverStream(e) \/ RemoveRemoteAndReceiverStream(e)
               \/ RaiseError(e) \/ PullReqWithCallback(e)
               \/ \E m \in Method : AsyncWrite(e, m) \/ SyncWrite(e, m)
               \/ \E b \in BOOLEAN : AnswerPull(e, b)
  BY DEF RunTask, Method, PushMMMojoWriteInfo, PullReqMMMojoWriteInfo,
         SharedMMMojoWriteInfo, PushMMMojoWriteInfoSync,
         PullReqMMMojoWriteInfoSync, SharedMMMojoWriteInfoSync,
         PullRespMMMojoWriteInfo, PullRespMMMojoWriteInfoSync

\* Which task it is.
LEMMA RunsWhich ==
    ASSUME NEW e \in End, RunTask(e)
    PROVE  RunsTask(e, Head(queue[e]).op)
  BY RunsOne DEF RunsTask, CreateRemoteAndReceiverStream,
     RemoveRemoteAndReceiverStream, RaiseError, PullReqWithCallback, AsyncWrite,
     SyncWrite, AnswerPull

\* Every step is one of these for every queue.
LEMMA QueueMoves ==
    ASSUME TypeOK, [Next]_vars
    PROVE  \A e \in End : QueueMove(e)
<1> USE DEF threadVars, wireVars, endVars, callVars, histVars
<1>1. ASSUME NEW r \in Req, SendMMMojoWriteInfo(r)
      PROVE  \A e \in End : QueueMove(e)
  <2>1. From(r) \in End /\ [op |-> "Write", req |-> r] \in Task
    BY RequestEnds, TaskType
  <2>2. CASE stream[From(r)]
    <3>1. Post(From(r), "Write", r)
      BY <1>1, <2>2 DEF SendMMMojoWriteInfo
    <3>2. Posted(From(r), [op |-> "Write", req |-> r])
      BY <1>1, <2>2 DEF Posted
    <3> QED
      BY <2>1, <3>1, <3>2, PostMove
  <2>3. CASE ~stream[From(r)]
    BY <1>1, <2>3 DEF SendMMMojoWriteInfo, QueueMove
  <2> QED
    BY <2>2, <2>3
<1>2. ASSUME NEW r \in Req, SendPullResp(r)
      PROVE  \A e \in End : QueueMove(e)
  <2>1. To(r) \in End /\ [op |-> "PullResp", req |-> r] \in Task
    BY RequestEnds, TaskType
  <2>2. CASE stream[To(r)]
    <3>1. Post(To(r), "PullResp", r)
      BY <1>2, <2>2 DEF SendPullResp
    <3>2. Posted(To(r), [op |-> "PullResp", req |-> r])
      BY <1>2, <2>2 DEF Posted
    <3> QED
      BY <2>1, <3>1, <3>2, PostMove
  <2>3. CASE ~stream[To(r)]
    BY <1>2, <2>3 DEF SendPullResp, QueueMove
  <2> QED
    BY <2>2, <2>3
<1>3. ASSUME NEW r \in Req, RemoveMMMojoReadInfo(r)
      PROVE  \A e \in End : QueueMove(e)
  <2>1. To(r) \in End /\ [op |-> "RaiseError", req |-> r] \in Task
    BY RequestEnds, TaskType
  <2>2. CASE stream[To(r)]
    <3>1. Post(To(r), "RaiseError", r)
      BY <1>3, <2>2 DEF RemoveMMMojoReadInfo
    <3>2. Posted(To(r), [op |-> "RaiseError", req |-> r])
      BY <1>3, <2>2 DEF Posted
    <3> QED
      BY <2>1, <3>1, <3>2, PostMove
  <2>3. CASE ~stream[To(r)]
    BY <1>3, <2>3 DEF RemoveMMMojoReadInfo, QueueMove
  <2> QED
    BY <2>2, <2>3
<1>4. ASSUME NEW d \in End, StopStream(d)
      PROVE  \A e \in End : QueueMove(e)
  <2>1. Post(d, "Remove", None) /\ Posted(d, [op |-> "Remove", req |-> None])
    BY <1>4 DEF StopStream, Posted
  <2> QED
    BY <2>1, PostMove, TaskType
<1>5. ASSUME NEW d \in End, RunTask(d)
      PROVE  \A e \in End : QueueMove(e)
  BY <1>5, RunsWhich, RunMove
<1>6. ASSUME NEW d \in End,
             \/ CreateRemoteAndReceiverStream(d) \/ RemoveRemoteAndReceiverStream(d)
             \/ RaiseError(d) \/ PullReqWithCallback(d)
             \/ \E m \in Method : AsyncWrite(d, m) \/ SyncWrite(d, m)
             \/ \E b \in BOOLEAN : AnswerPull(d, b)
      PROVE  \A e \in End : QueueMove(e)
  BY <1>5, <1>6, RunsOne
<1>7. ASSUME NEW p \in Side, Crash(p)
      PROVE  \A e \in End : QueueMove(e)
  <2>1. \A e \in End : \/ e[1] = p /\ queue'[e] = <<>>
                       \/ queue'[e] = queue[e]
    BY <1>7, PeerEnd DEF Crash, End
  <2> QED
    BY <1>7, <2>1 DEF QueueMove
<1>8. ASSUME UNCHANGED queue
      PROVE  \A e \in End : QueueMove(e)
  BY <1>8 DEF QueueMove
<1>9. ASSUME NEW r \in Req, RemoveMMMojoReadInfoInCallback(r)
      PROVE  UNCHANGED queue
  BY <1>9 DEF RemoveMMMojoReadInfoInCallback
<1>10. ASSUME NEW d \in End, OnMojoDisconnect(d)
       PROVE  UNCHANGED queue
  BY <1>10 DEF OnMojoDisconnect
<1> QED
  BY <1>1, <1>2, <1>3, <1>4, <1>6, <1>7, <1>8, <1>9, <1>10, QuietSteps
-----------------------------------------------------------------------------
(* What a step can do to the two ends and to the call a thread is inside   *)

\* An end and its peer are different ends.
LEMMA PeerApart ==
    ASSUME NEW e \in End
    PROVE  Peer(e) # e /\ Peer(e)[1] # e[1]
  BY ParamAssumption DEF End, Peer, Other, Side

EndMove(e) ==
    \/ UNCHANGED <<alive[e[1]], stream[e], impl[e], recv[e]>>
    \/ StopStream(e) /\ ~stream'[e] /\ UNCHANGED <<alive[e[1]], impl[e], recv[e]>>
    \/ /\ CreateRemoteAndReceiverStream(e) /\ impl[e] = "absent"
       /\ impl'[e] = "bound" /\ recv'[e] = "open" /\ UNCHANGED <<alive[e[1]], stream[e]>>
    \/ /\ RemoveRemoteAndReceiverStream(e) /\ impl[e] # "absent"
       /\ impl'[e] = "removed" /\ recv'[e] = "closed" /\ UNCHANGED <<alive[e[1]], stream[e]>>
    \/ /\ OnMojoDisconnect(e) /\ impl[e] = "bound" /\ impl'[e] = "reset"
       /\ recv'[e] = "closed" /\ UNCHANGED <<alive[e[1]], stream[e]>>
    \/ /\ RaiseError(e) \/ \E r \in Req : RemoveMMMojoReadInfoInCallback(r)
       /\ impl[e] # "absent" /\ recv'[e] = "closed"
       /\ UNCHANGED <<alive[e[1]], stream[e], impl[e]>>
    \/ /\ Crash(e[1]) /\ ~alive'[e[1]] /\ ~stream'[e]
       /\ impl'[e] = "removed" /\ recv'[e] = "closed"

\* Every step is one of these for every end.
LEMMA EndMoves ==
    ASSUME TypeOK, CreateInv, [Next]_vars, NEW e \in End
    PROVE  EndMove(e)
<1> USE DEF threadVars, wireVars, endVars, callVars, histVars
<1>1. ASSUME UNCHANGED endVars
      PROVE  EndMove(e)
  BY <1>1 DEF EndMove
<1>2. ASSUME NEW r \in Req, SendMMMojoWriteInfo(r) \/ SendPullResp(r) \/ RemoveMMMojoReadInfo(r)
      PROVE  EndMove(e)
  BY <1>2, <1>1 DEF SendMMMojoWriteInfo, SendPullResp, RemoveMMMojoReadInfo
<1>3. ASSUME NEW r \in Req, RemoveMMMojoReadInfoInCallback(r)
      PROVE  EndMove(e)
  <2>1. impl[To(r)] # "absent"
    BY <1>3, RequestEnds DEF RemoveMMMojoReadInfoInCallback, CreateInv, CreateFirst
  <2> QED
    BY <1>3, <2>1 DEF RemoveMMMojoReadInfoInCallback, EndMove, TypeOK
<1>4. ASSUME NEW d \in End, StopStream(d)
      PROVE  EndMove(e)
  BY <1>4 DEF StopStream, EndMove, TypeOK
<1>5. ASSUME NEW d \in End, CreateRemoteAndReceiverStream(d)
      PROVE  EndMove(e)
  <2>1. impl[d] = "absent"
    BY <1>5, RunCreate DEF CreateRemoteAndReceiverStream
  <2> QED
    BY <1>5, <2>1 DEF CreateRemoteAndReceiverStream, EndMove, TypeOK
<1>6. ASSUME NEW d \in End, RemoveRemoteAndReceiverStream(d)
      PROVE  EndMove(e)
  <2>1. impl[d] # "absent"
    BY <1>6, RunCreate DEF RemoveRemoteAndReceiverStream
  <2> QED
    BY <1>6, <2>1 DEF RemoveRemoteAndReceiverStream, EndMove, TypeOK
<1>7. ASSUME NEW d \in End, RaiseError(d)
      PROVE  EndMove(e)
  <2>1. impl[d] # "absent"
    BY <1>7, RunCreate DEF RaiseError
  <2> QED
    BY <1>7, <2>1 DEF RaiseError, EndMove, TypeOK
<1>8. ASSUME NEW d \in End, OnMojoDisconnect(d)
      PROVE  EndMove(e)
  BY <1>8 DEF OnMojoDisconnect, EndMove, TypeOK
<1>9. ASSUME NEW p \in Side, Crash(p)
      PROVE  EndMove(e)
  <2>1. CASE e[1] = p
    <3>1. e \in {p} \X Stream
      BY <2>1 DEF End
    <3> QED
      BY <1>9, <2>1, <3>1 DEF Crash, EndMove, TypeOK
  <2>2. CASE e[1] # p
    <3>1. e \notin {p} \X Stream
      BY <2>2
    <3> QED
      BY <1>9, <2>2, <3>1 DEF Crash, EndMove, TypeOK
  <2> QED
    BY <2>1, <2>2
<1>10. ASSUME NEW d \in End, NEW m \in Method, AsyncWrite(d, m) \/ SyncWrite(d, m)
       PROVE  UNCHANGED endVars
  BY <1>10 DEF AsyncWrite, SyncWrite
<1>11. ASSUME NEW d \in End, PullReqWithCallback(d)
       PROVE  UNCHANGED endVars
  BY <1>11 DEF PullReqWithCallback
<1>12. ASSUME NEW d \in End, NEW b \in BOOLEAN, AnswerPull(d, b)
       PROVE  UNCHANGED endVars
  BY <1>12 DEF AnswerPull
<1> QED
  BY <1>1, <1>2, <1>3, <1>4, <1>5, <1>6, <1>7, <1>8, <1>9, <1>10, <1>11, <1>12,
     QuietSteps

\* A step that has a thread enter or leave a call.
WaitMove(e) ==
    \/ waiting'[e] = waiting[e]
    \/ \E m \in Method :
           /\ SyncWrite(e, m) /\ impl[e] = "bound" /\ queue[e] # <<>>
           /\ Head(queue[e]).op = "Write" /\ Blocking(Head(queue[e]).req)
           /\ waiting'[e] = Head(queue[e]).req
    \/ SyncResponse(e) /\ waiting'[e] = None
    \/ SyncDisconnect(e) /\ waiting'[e] = None
    \/ Crash(e[1]) /\ waiting'[e] = None

\* Every step is one of these for every thread.
LEMMA WaitMoves ==
    ASSUME TypeOK, [Next]_vars, NEW e \in End
    PROVE  WaitMove(e)
<1> USE DEF threadVars, wireVars, endVars, callVars, histVars
<1>1. ASSUME UNCHANGED waiting
      PROVE  WaitMove(e)
  BY <1>1 DEF WaitMove
<1>2. ASSUME NEW r \in Req,
             \/ SendMMMojoWriteInfo(r) \/ SendPullResp(r)
             \/ RemoveMMMojoReadInfo(r) \/ RemoveMMMojoReadInfoInCallback(r)
      PROVE  UNCHANGED waiting
  BY <1>2 DEF SendMMMojoWriteInfo, SendPullResp, RemoveMMMojoReadInfo,
         RemoveMMMojoReadInfoInCallback
<1>3. ASSUME NEW d \in End,
             \/ StopStream(d) \/ CreateRemoteAndReceiverStream(d)
             \/ RemoveRemoteAndReceiverStream(d) \/ RaiseError(d)
             \/ PullReqWithCallback(d) \/ ReadResponse(d) \/ OnMojoDisconnect(d)
             \/ LoseRequest(d) \/ LoseResponse(d)
      PROVE  UNCHANGED waiting
  BY <1>3 DEF StopStream, CreateRemoteAndReceiverStream,
         RemoveRemoteAndReceiverStream, RaiseError, PullReqWithCallback,
         ReadResponse, OnPushReqMMMojoReadInfo, OnPushReqMMMojoReadInfoSync,
         TakeResponse, OnMojoDisconnect, LoseRequest, LoseResponse
<1>4. ASSUME NEW d \in End, NEW m \in Method,
             AsyncWrite(d, m) \/ OneWay(d, m) \/ Acknowledge(d, m)
      PROVE  UNCHANGED waiting
  BY <1>4 DEF AsyncWrite, OneWay, Acknowledge, Dispatch
<1>5. ASSUME NEW d \in End, NEW b \in BOOLEAN, AnswerPull(d, b) \/ ReadPull(d, b)
      PROVE  UNCHANGED waiting
  BY <1>5 DEF AnswerPull, ReadPull, Dispatch
<1>6. ASSUME NEW d \in End, NEW m \in Method, SyncWrite(d, m)
      PROVE  WaitMove(e)
  <2>1. /\ queue[d] # <<>> /\ Head(queue[d]).op = "Write" /\ Blocking(Head(queue[d]).req)
        /\ \/ impl[d] = "bound" /\ waiting' = [waiting EXCEPT ![d] = Head(queue[d]).req]
           \/ UNCHANGED waiting
    BY <1>6 DEF SyncWrite, RunsTask
  <2>2. waiting'[e] = waiting[e] \/ (d = e /\ impl[d] = "bound" /\ waiting'[e] = Head(queue[e]).req)
    BY <2>1 DEF TypeOK
  <2> QED
    BY <1>6, <2>1, <2>2 DEF WaitMove
<1>7. ASSUME NEW d \in End, SyncResponse(d)
      PROVE  WaitMove(e)
  <2>1. waiting' = [waiting EXCEPT ![d] = None]
    BY <1>7 DEF SyncResponse
  <2> QED
    BY <1>7, <2>1 DEF WaitMove, TypeOK
<1>8. ASSUME NEW d \in End, SyncDisconnect(d)
      PROVE  WaitMove(e)
  <2>1. waiting' = [waiting EXCEPT ![d] = None]
    BY <1>8 DEF SyncDisconnect
  <2> QED
    BY <1>8, <2>1 DEF WaitMove, TypeOK
<1>9. ASSUME NEW p \in Side, Crash(p)
      PROVE  WaitMove(e)
  <2>1. (e[1] = p /\ waiting'[e] = None) \/ waiting'[e] = waiting[e]
    BY <1>9 DEF Crash, End
  <2> QED
    BY <1>9, <2>1 DEF WaitMove
<1>10. CASE UNCHANGED vars
  BY <1>10, <1>1 DEF vars
<1> QED
  BY <1>1, <1>2, <1>3, <1>4, <1>5, <1>6, <1>7, <1>8, <1>9, <1>10, NextCases
-----------------------------------------------------------------------------
(* How requests travel                                                     *)

\* The peer of e reads the request at place i of the pipe.
Reads(e, i) ==
    /\ i \in Deliverable(Peer(e))
    /\ \E m \in Method, b \in BOOLEAN : Dispatch(Peer(e), i, m, b)

\* A request that is read comes off its pipe, and is the first or, for a thread
\* inside a call, the first synchronous one.
LEMMA ReadsEffect ==
    ASSUME TypeOK, NEW e \in End, NEW i, Reads(e, i)
    PROVE  /\ requests[e] \in Seq(Req) /\ i \in 1..Len(requests[e]) /\ requests[e][i] \in Req
           /\ requests'[e] = RemoveAt(requests[e], i)
           /\ \A d \in End : d # e => requests'[d] = requests[d]
           /\ dispatched' = [dispatched EXCEPT ![requests[e][i]] = @ + 1]
           /\ recv[Peer(e)] = "open" /\ alive[Peer(e)[1]]
           /\ UNCHANGED <<threadVars, endVars, callVars, sent, answered>>
           /\ \A j \in 1..Len(requests[e]) : j < i =>
                  Blocking(requests[e][i]) /\ ~Blocking(requests[e][j])
<1> DEFINE q == requests[e]
<1>1. /\ Peer(e) \in End /\ Peer(Peer(e)) = e
      /\ q \in Seq(Req) /\ DOMAIN q = 1..Len(q) /\ Len(q) \in Nat
      /\ requests \in [End -> Seq(Req)]
  BY PeerEnd, ElementIndex DEF TypeOK
<1>2. /\ i \in DOMAIN q
      /\ \/ i = 1
         \/ Blocking(q[i]) /\ \A j \in 1..i-1 : ~Blocking(q[j])
  BY <1>1 DEF Reads, Deliverable
<1>3. /\ requests' = [requests EXCEPT ![e] = RemoveAt(q, i)]
      /\ dispatched' = [dispatched EXCEPT ![q[i]] = @ + 1]
      /\ recv[Peer(e)] = "open" /\ alive[Peer(e)[1]]
      /\ UNCHANGED <<threadVars, endVars, callVars, sent, answered>>
  BY <1>1 DEF Reads, Dispatch
<1>4. i \in 1..Len(q) /\ q[i] \in Req
  BY <1>1, <1>2, ElementIndex
<1>5. requests'[e] = RemoveAt(q, i) /\ \A d \in End : d # e => requests'[d] = requests[d]
  BY <1>1, <1>3
<1>6. \A j \in 1..Len(q) : j < i => j \in 1..i-1 /\ i # 1
  BY <1>1, <1>4
<1> QED
  BY <1>1, <1>2, <1>3, <1>4, <1>5, <1>6

\* The three ways of reading a request are all of this kind.
LEMMA ReadsHow ==
    ASSUME NEW d \in End,
           \/ \E m \in Method : OneWay(d, m) \/ Acknowledge(d, m)
           \/ \E b \in BOOLEAN : ReadPull(d, b)
    PROVE  \E i : Reads(Peer(d), i)
<1>1. Peer(Peer(d)) = d
  BY PeerEnd
<1>2. ASSUME NEW m \in Method, OneWay(d, m) \/ Acknowledge(d, m)
      PROVE  \E i : Reads(Peer(d), i)
  BY <1>1, <1>2 DEF OneWay, Acknowledge, Reads
<1>3. ASSUME NEW b \in BOOLEAN, ReadPull(d, b)
      PROVE  \E i : Reads(Peer(d), i)
  BY <1>1, <1>3 DEF ReadPull, Reads, Method
<1> QED
  BY <1>2, <1>3

\* A thread that runs a task writes a request if the task says so and the pipe
\* is there at both ends.
LEMMA RunsRequest ==
    ASSUME TypeOK, CreateInv, NEW e \in End, RunTask(e)
    PROVE  /\ Head(queue[e]).op = "Write" =>
                  \/ Cut(e) /\ requests'[e] = requests[e]
                  \/ ~Cut(e) /\ requests'[e] = Append(requests[e], Head(queue[e]).req)
           /\ Head(queue[e]).op # "Write" => requests'[e] = requests[e]
           /\ \A d \in End : d # e =>
                  \/ requests'[d] = requests[d]
                  \/ d = Peer(e) /\ requests'[d] = <<>> /\ recv'[e] = "closed"
           /\ UNCHANGED <<sent, dispatched, answered, stream, alive>>
<1> USE DEF threadVars, wireVars, endVars, callVars, histVars
<1>p. Peer(e) \in End /\ Peer(e) # e
  BY PeerEnd, PeerApart
<1>1. RunsTask(e, Head(queue[e]).op)
  BY RunsWhich
<1>2. CreateFirst(e) /\ (Head(queue[e]).op # "Create" => impl[e] # "absent")
  BY <1>1, RunCreate
<1>3. impl[e] \in ImplState
  BY DEF TypeOK
<1>4. ASSUME Head(queue[e]).op = "Write",
             \/ /\ impl[e] = "bound" /\ SendMessage(e, Head(queue[e]).req)
             \/ impl[e] # "bound" /\ UNCHANGED requests
      PROVE  /\ \/ Cut(e) /\ requests'[e] = requests[e]
                \/ ~Cut(e) /\ requests'[e] = Append(requests[e], Head(queue[e]).req)
             /\ \A d \in End : d # e => requests'[d] = requests[d]
  BY <1>2, <1>3, <1>4 DEF SendMessage, Cut, ImplState, TypeOK
<1>5. ASSUME NEW m \in Method, AsyncWrite(e, m) \/ SyncWrite(e, m)
      PROVE  /\ Head(queue[e]).op = "Write"
             /\ \/ /\ impl[e] = "bound" /\ SendMessage(e, Head(queue[e]).req)
                \/ impl[e] # "bound" /\ UNCHANGED requests
             /\ UNCHANGED <<sent, dispatched, answered, stream, alive>>
  BY <1>5 DEF AsyncWrite, SyncWrite, RunsTask
<1>6. ASSUME PullReqWithCallback(e)
      PROVE  /\ Head(queue[e]).op = "Write"
             /\ \/ /\ impl[e] = "bound" /\ SendMessage(e, Head(queue[e]).req)
                \/ impl[e] # "bound" /\ UNCHANGED requests
             /\ UNCHANGED <<sent, dispatched, answered, stream, alive>>
  BY <1>6 DEF PullReqWithCallback, RunsTask
<1>7. ASSUME \/ CreateRemoteAndReceiverStream(e)
             \/ \E b \in BOOLEAN : AnswerPull(e, b)
      PROVE  /\ Head(queue[e]).op # "Write" /\ UNCHANGED requests
             /\ UNCHANGED <<sent, dispatched, answered, stream, alive>>
  BY <1>7 DEF CreateRemoteAndReceiverStream, AnswerPull, RunsTask
<1>8. ASSUME RemoveRemoteAndReceiverStream(e) \/ RaiseError(e)
      PROVE  /\ Head(queue[e]).op # "Write" /\ recv'[e] = "closed"
             /\ requests' = [requests EXCEPT ![Peer(e)] = <<>>]
             /\ UNCHANGED <<sent, dispatched, answered, stream, alive>>
  BY <1>8 DEF RemoveRemoteAndReceiverStream, RaiseError, RunsTask, TypeOK
<1>9. CASE RemoveRemoteAndReceiverStream(e) \/ RaiseError(e)
  BY <1>8, <1>9, <1>p DEF TypeOK
<1>10. CASE \/ CreateRemoteAndReceiverStream(e)
            \/ \E b \in BOOLEAN : AnswerPull(e, b)
  BY <1>7, <1>10
<1>11. CASE PullReqWithCallback(e)
  BY <1>4, <1>6, <1>11
<1>12. CASE \E m \in Method : AsyncWrite(e, m) \/ SyncWrite(e, m)
  BY <1>4, <1>5, <1>12
<1> QED
  BY <1>9, <1>10, <1>11, <1>12, RunsOne

\* A step of the pipe from e to its peer.
RequestMove(e) ==
    \/ requests'[e] = requests[e]
    \/ /\ RunTask(e) /\ Head(queue[e]).op = "Write" /\ ~Cut(e)
       /\ requests'[e] = Append(requests[e], Head(queue[e]).req)
    \/ \E i : Reads(e, i)
    \/ requests'[e] = <<>> /\ recv'[Peer(e)] = "closed"
    \/ /\ ~alive[e[1]] /\ requests[e] # <<>> /\ UNCHANGED <<sent, dispatched>>
       /\ requests'[e] = SubSeq(requests[e], 1, Len(requests[e]) - 1)

\* Every step is one of these for every pipe; a request is only read off one.
LEMMA RequestMoves ==
    ASSUME TypeOK, CreateInv, [Next]_vars
    PROVE  /\ \A e \in End : RequestMove(e)
           /\ UNCHANGED dispatched \/ \E e \in End : \E i : Reads(e, i)
<1> USE DEF threadVars, wireVars, endVars, callVars, histVars
<1>1. ASSUME UNCHANGED <<requests, dispatched>>
      PROVE  (\A e \in End : RequestMove(e)) /\ UNCHANGED dispatched
  BY <1>1 DEF RequestMove
<1>2. ASSUME NEW r \in Req, SendMMMojoWriteInfo(r) \/ SendPullResp(r) \/ RemoveMMMojoReadInfo(r)
      PROVE  UNCHANGED <<requests, dispatched>>
  BY <1>2 DEF SendMMMojoWriteInfo, SendPullResp, RemoveMMMojoReadInfo
<1>3. ASSUME NEW d \in End,
             \/ StopStream(d) \/ SyncResponse(d) \/ SyncDisconnect(d)
             \/ ReadResponse(d) \/ LoseResponse(d)
      PROVE  UNCHANGED <<requests, dispatched>>
  BY <1>3 DEF StopStream, SyncResponse, SyncDisconnect, ReadResponse,
         OnPushReqMMMojoReadInfo, OnPushReqMMMojoReadInfoSync, TakeResponse, LoseResponse
<1>4. CASE UNCHANGED vars
  BY <1>1, <1>4 DEF vars
<1>5. ASSUME NEW d \in End, RunTask(d)
      PROVE  (\A e \in End : RequestMove(e)) /\ UNCHANGED dispatched
  <2>1. RequestMove(d) /\ UNCHANGED dispatched
    BY <1>5, RunsRequest DEF RequestMove
  <2>2. ASSUME NEW e \in End, e # d
        PROVE  RequestMove(e)
    BY <1>5, <2>2, RunsRequest, PeerEnd DEF RequestMove
  <2> QED
    BY <2>1, <2>2
<1>6. ASSUME NEW d \in End, \E i : Reads(Peer(d), i)
      PROVE  \A e \in End : RequestMove(e)
  <2>1. PICK i : Reads(Peer(d), i)
    BY <1>6
  <2>2. Peer(d) \in End
    BY PeerEnd
  <2>3. \A e \in End : e # Peer(d) => requests'[e] = requests[e]
    BY <2>1, <2>2, ReadsEffect
  <2> QED
    BY <2>1, <2>3 DEF RequestMove
<1>7. ASSUME NEW d \in End,
             \/ \E m \in Method : OneWay(d, m) \/ Acknowledge(d, m)
             \/ \E b \in BOOLEAN : ReadPull(d, b)
      PROVE  (\A e \in End : RequestMove(e)) /\ \E e \in End : \E i : Reads(e, i)
  BY <1>6, <1>7, ReadsHow, PeerEnd
<1>8. ASSUME NEW d \in End, UNCHANGED dispatched,
             requests' = [requests EXCEPT ![Peer(d)] = <<>>], recv'[d] = "closed"
      PROVE  (\A e \in End : RequestMove(e)) /\ UNCHANGED dispatched
  <2>1. Peer(d) \in End /\ Peer(Peer(d)) = d
    BY PeerEnd
  <2> QED
    BY <1>8, <2>1 DEF RequestMove, TypeOK
<1>9. ASSUME NEW d \in End, OnMojoDisconnect(d)
      PROVE  (\A e \in End : RequestMove(e)) /\ UNCHANGED dispatched
  <2>1. /\ requests' = [requests EXCEPT ![Peer(d)] = <<>>]
        /\ recv' = [recv EXCEPT ![d] = "closed"] /\ UNCHANGED dispatched
    BY <1>9 DEF OnMojoDisconnect
  <2> QED
    BY <2>1, <1>8 DEF TypeOK
<1>10. ASSUME NEW r \in Req, RemoveMMMojoReadInfoInCallback(r)
       PROVE  (\A e \in End : RequestMove(e)) /\ UNCHANGED dispatched
  <2>1. To(r) \in End /\ From(r) = Peer(To(r))
    BY RequestEnds, PeerEnd DEF To
  <2>2. /\ requests' = [requests EXCEPT ![From(r)] = <<>>]
        /\ recv' = [recv EXCEPT ![To(r)] = "closed"] /\ UNCHANGED dispatched
    BY <1>10 DEF RemoveMMMojoReadInfoInCallback
  <2>3. recv'[To(r)] = "closed"
    BY <2>1, <2>2 DEF TypeOK
  <2> QED
    BY <2>1, <2>2, <2>3, <1>8
<1>11. ASSUME NEW p \in Side, Crash(p)
       PROVE  (\A e \in End : RequestMove(e)) /\ UNCHANGED dispatched
  <2>1. ASSUME NEW e \in End
        PROVE  RequestMove(e)
    <3>1. CASE Peer(e) \in {p} \X Stream
      BY <1>11, <3>1, PeerEnd DEF Crash, RequestMove
    <3>2. CASE Peer(e) \notin {p} \X Stream
      BY <1>11, <3>2 DEF Crash, RequestMove
    <3> QED
      BY <3>1, <3>2
  <2> QED
    BY <1>11, <2>1 DEF Crash
<1>12. ASSUME NEW d \in End, LoseRequest(d)
       PROVE  (\A e \in End : RequestMove(e)) /\ UNCHANGED dispatched
  BY <1>12 DEF LoseRequest, RequestMove, TypeOK
<1>13. ASSUME NEW d \in End,
             \/ CreateRemoteAndReceiverStream(d) \/ RemoveRemoteAndReceiverStream(d)
             \/ RaiseError(d) \/ PullReqWithCallback(d)
             \/ \E m \in Method : AsyncWrite(d, m) \/ SyncWrite(d, m)
             \/ \E b \in BOOLEAN : AnswerPull(d, b)
      PROVE  (\A e \in End : RequestMove(e)) /\ UNCHANGED dispatched
  BY <1>5, <1>13, RunsOne
<1> QED
  BY <1>1, <1>2, <1>3, <1>4, <1>7, <1>9, <1>10, <1>11, <1>12, <1>13, NextCases

\* A step of what was posted to an end.
SentMove(e) ==
    \/ sent'[e] = sent[e]
    \/ \E r \in Req : /\ SendMMMojoWriteInfo(r) /\ e = From(r) /\ stream[e]
                      /\ outcome[r] = "idle" /\ sent'[e] = Append(sent[e], r)

\* Every step is one of these for every end.
LEMMA SentMoves ==
    ASSUME TypeOK, [Next]_vars
    PROVE  \A e \in End : SentMove(e)
<1> USE DEF threadVars, wireVars, endVars, callVars, histVars
<1>1. ASSUME UNCHANGED sent
      PROVE  \A e \in End : SentMove(e)
  BY <1>1 DEF SentMove
<1>2. ASSUME NEW r \in Req, SendMMMojoWriteInfo(r)
      PROVE  \A e \in End : SentMove(e)
  <2>1. CASE stream[From(r)]
    <3>1. outcome[r] = "idle" /\ sent' = [sent EXCEPT ![From(r)] = Append(@, r)]
      BY <1>2, <2>1 DEF SendMMMojoWriteInfo
    <3> QED
      BY <1>2, <2>1, <3>1 DEF SentMove, TypeOK
  <2>2. CASE ~stream[From(r)]
    BY <1>1, <1>2, <2>2 DEF SendMMMojoWriteInfo
  <2> QED
    BY <2>1, <2>2
<1>3. ASSUME NEW r \in Req,
             SendPullResp(r) \/ RemoveMMMojoReadInfo(r) \/ RemoveMMMojoReadInfoInCallback(r)
      PROVE  UNCHANGED sent
  BY <1>3 DEF SendPullResp, RemoveMMMojoReadInfo, RemoveMMMojoReadInfoInCallback
<1>4. ASSUME NEW d \in End,
             \/ StopStream(d) \/ CreateRemoteAndReceiverStream(d)
             \/ RemoveRemoteAndReceiverStream(d) \/ RaiseError(d)
             \/ PullReqWithCallback(d) \/ SyncResponse(d) \/ SyncDisconnect(d)
             \/ ReadResponse(d) \/ OnMojoDisconnect(d)
             \/ LoseRequest(d) \/ LoseResponse(d)
      PROVE  UNCHANGED sent
  BY <1>4 DEF StopStream, CreateRemoteAndReceiverStream, SyncResponse, SyncDisconnect,
         RemoveRemoteAndReceiverStream, RaiseError, PullReqWithCallback,
         ReadResponse, OnPushReqMMMojoReadInfo, OnPushReqMMMojoReadInfoSync,
         TakeResponse, OnMojoDisconnect, LoseRequest, LoseResponse
<1>5. ASSUME NEW d \in End, NEW m \in Method,
             AsyncWrite(d, m) \/ SyncWrite(d, m) \/ OneWay(d, m) \/ Acknowledge(d, m)
      PROVE  UNCHANGED sent
  BY <1>5 DEF AsyncWrite, SyncWrite, OneWay, Acknowledge, Dispatch
<1>6. ASSUME NEW d \in End, NEW b \in BOOLEAN, AnswerPull(d, b) \/ ReadPull(d, b)
      PROVE  UNCHANGED sent
  BY <1>6 DEF AnswerPull, ReadPull, Dispatch
<1>7. ASSUME NEW p \in Side, Crash(p)
      PROVE  UNCHANGED sent
  BY <1>7 DEF Crash
<1>8. CASE UNCHANGED vars
  BY <1>8, <1>1 DEF vars
<1> QED
  BY <1>1, <1>2, <1>3, <1>4, <1>5, <1>6, <1>7, <1>8, NextCases
-----------------------------------------------------------------------------
(* EndInv                                                                  *)

\* A receiver that is closed loses what is on its pipe.
LEMMA CloseClears ==
    ASSUME TypeOK, CreateInv, EndInv, [Next]_vars, NEW e \in End
    PROVE  recv'[Peer(e)] = "closed" => requests'[e] = <<>>
<1> USE DEF threadVars, wireVars, endVars, callVars, histVars
<1> DEFINE d == Peer(e)
<1>p. d \in End /\ Peer(d) = e
  BY PeerEnd
<1> SUFFICES ASSUME recv'[d] = "closed"
             PROVE  requests'[e] = <<>>
  OBVIOUS
<1>1. CASE recv[d] = "closed"
  <2>1. requests[e] = <<>> /\ RequestMove(e)
    BY <1>1, RequestMoves DEF EndInv, EndSound
  <2>2. ~Cut(e) => recv[d] # "closed"
    BY DEF Cut
  <2>3. ASSUME NEW i, Reads(e, i)
        PROVE  FALSE
    BY <1>1, <2>3, ReadsEffect
  <2> QED
    BY <1>1, <2>1, <2>2, <2>3 DEF RequestMove
<1>2. CASE recv[d] # "closed"
  <2>1. EndMove(d) /\ recv'[d] # recv[d] /\ recv'[d] # "open"
    BY <1>p, <1>2, EndMoves
  <2>2. ASSUME NEW r \in Req, RemoveMMMojoReadInfoInCallback(r)
        PROVE  requests'[e] = <<>>
    <3>1. recv' = [recv EXCEPT ![To(r)] = "closed"]
      BY <2>2 DEF RemoveMMMojoReadInfoInCallback
    <3>2. d = To(r)
      BY <1>p, <2>1, <3>1 DEF TypeOK
    <3>3. From(r) = e
      BY <1>p, <3>2, RequestEnds, PeerEnd DEF To
    <3> QED
      BY <2>2, <3>3 DEF RemoveMMMojoReadInfoInCallback, TypeOK
  <2>3. ASSUME \/ RemoveRemoteAndReceiverStream(d) \/ RaiseError(d) \/ OnMojoDisconnect(d)
        PROVE  requests'[e] = <<>>
    BY <1>p, <2>3 DEF RemoveRemoteAndReceiverStream, RaiseError, OnMojoDisconnect, TypeOK
  <2>4. ASSUME Crash(d[1])
        PROVE  requests'[e] = <<>>
    <3>1. d \in {d[1]} \X Stream
      BY <1>p DEF End
    <3> QED
      BY <2>4, <3>1 DEF Crash
  <2> HIDE DEF d
  <2> QED
    BY <2>1, <2>2, <2>3, <2>4 DEF EndMove
<1> QED
  BY <1>1, <1>2

\* A dead process does nothing more.
LEMMA DeadStays ==
    ASSUME TypeOK, CreateInv, EndInv, [Next]_vars, NEW e \in End
    PROVE  ~alive'[e[1]] =>
               /\ queue'[e] = <<>> /\ waiting'[e] = None
               /\ impl'[e] = "removed" /\ ~stream'[e]
<1> USE DEF threadVars, wireVars, endVars, callVars, histVars
<1> SUFFICES ASSUME ~alive'[e[1]]
             PROVE  /\ queue'[e] = <<>> /\ waiting'[e] = None
                    /\ impl'[e] = "removed" /\ ~stream'[e]
  OBVIOUS
<1>1. QueueMove(e) /\ EndMove(e) /\ WaitMove(e)
  BY QueueMoves, EndMoves, WaitMoves
<1>2. CASE ~alive[e[1]]
  <2>1. queue[e] = <<>> /\ waiting[e] = None /\ impl[e] = "removed" /\ ~stream[e]
    BY <1>2 DEF EndInv, EndSound
  <2>2. impl'[e] = "removed" /\ ~stream'[e]
    BY <2>1, EndStays
  <2>3. \A x : ~Posted(e, x)
    BY <1>2, <2>1 DEF Posted, StopStream
  <2>4. queue'[e] = <<>>
    BY <1>1, <1>2, <2>1, <2>3 DEF QueueMove
  <2>5. waiting'[e] = None
    BY <1>1, <2>1 DEF WaitMove
  <2> QED
    BY <2>2, <2>4, <2>5
<1>3. CASE alive[e[1]]
  <2>1. Crash(e[1]) /\ impl'[e] = "removed" /\ ~stream'[e]
    BY <1>1, <1>3 DEF EndMove
  <2>2. e \in {e[1]} \X Stream
    BY DEF End
  <2> QED
    BY <2>1, <2>2 DEF Crash
<1> QED
  BY <1>2, <1>3

\* The ends stay sound.
LEMMA EndStep ==
    ASSUME TypeOK, CreateInv, EndInv, [Next]_vars
    PROVE  EndInv'
<1> SUFFICES ASSUME NEW e \in End
             PROVE  EndSound(e)'
  BY DEF EndInv
<1>1. EndSound(e) /\ QueueMove(e) /\ EndMove(e) /\ CreateFirst(e)
  BY QueueMoves, EndMoves DEF EndInv, CreateInv
<1>2. /\ recv'[Peer(e)] = "closed" => requests'[e] = <<>>
      /\ ~alive'[e[1]] => /\ queue'[e] = <<>> /\ waiting'[e] = None
                          /\ impl'[e] = "removed" /\ ~stream'[e]
  BY CloseClears, DeadStays
<1>3. impl'[e] = "absent" <=> recv'[e] = "fresh"
  BY <1>1 DEF EndMove, EndSound
<1> DEFINE x == [op |-> "Remove", req |-> None]
<1>4. Queued(e, "Remove", None) <=> x \in ToSet(queue[e])
  BY DEF Queued
<1>5. Queued(e, "Remove", None)' <=> x \in ToSet(queue'[e])
  BY DEF Queued
<1>6. ASSUME stream'[e]
      PROVE  ~Queued(e, "Remove", None)'
  <2>1. stream[e] /\ x \notin ToSet(queue[e])
    BY <1>1, <1>4, <1>6, EndStays DEF EndSound
  <2>2. ~StopStream(e)
    BY <1>6 DEF StopStream, TypeOK
  <2>3. \A t : Posted(e, t) => t # x
    BY <2>2 DEF Posted
  <2>4. ToSet(<<>>) = {}
    BY EmptyElements
  <2> HIDE DEF x
  <2> QED
    BY <1>1, <1>5, <2>1, <2>3, <2>4 DEF QueueMove
<1>7. ASSUME ~stream'[e], impl'[e] # "removed"
      PROVE  Queued(e, "Remove", None)'
  <2>1. impl[e] # "removed"
    BY <1>7, EndStays
  <2>2. ~Crash(e[1])
    <3>1. e \in {e[1]} \X Stream
      BY DEF End
    <3> QED
      BY <1>7, <3>1 DEF Crash
  <2>3. CASE stream[e]
    <3>1. StopStream(e)
      BY <1>1, <1>7, <2>2, <2>3 DEF EndMove
    <3>2. queue[e] \in Seq(Task) /\ queue'[e] = Append(queue[e], x)
      BY <3>1, TaskType, PostEffect DEF StopStream
    <3> QED
      BY <1>5, <3>2, TaskType, AppendElements
  <2>4. CASE ~stream[e]
    <3>1. x \in ToSet(queue[e])
      BY <1>1, <1>4, <2>1, <2>4 DEF EndSound
    <3>2. ASSUME RunTask(e), Head(queue[e]) = x
          PROVE  FALSE
      <4>1. RunsTask(e, "Remove")
        BY <3>2, RunsWhich
      <4>2. RemoveRemoteAndReceiverStream(e)
        BY <3>2, <4>1, RunsOne DEF RunsTask, CreateRemoteAndReceiverStream, RaiseError,
           PullReqWithCallback, AsyncWrite, SyncWrite, AnswerPull
      <4> QED
        BY <1>7, <4>2 DEF RemoveRemoteAndReceiverStream, TypeOK
    <3> HIDE DEF x
    <3> QED
      BY <1>1, <1>5, <2>2, <3>1, <3>2 DEF QueueMove
  <2> QED
    BY <2>3, <2>4
<1> QED
  BY <1>2, <1>3, <1>6, <1>7 DEF EndSound
-----------------------------------------------------------------------------
(* What Send returns                                                       *)

OutcomeMove(r) ==
    \/ outcome'[r] = outcome[r]
    \/ /\ SendMMMojoWriteInfo(r) /\ outcome[r] = "idle"
       /\ \/ /\ stream[From(r)] /\ sent'[From(r)] = Append(sent[From(r)], r)
             /\ outcome'[r] = IF r.sync THEN "blocked" ELSE "true"
          \/ ~stream[From(r)] /\ outcome'[r] = "false"
    \/ \E e \in End :
          /\ RunTask(e) /\ queue[e] # <<>> /\ Head(queue[e]) = [op |-> "Write", req |-> r]
          /\ r.sync /\ outcome'[r] \in {"true", "false"}
          /\ outcome'[r] = "true" => ~Blocking(r)
    \/ \E e \in End :
          /\ SyncResponse(e) \/ SyncDisconnect(e)
          /\ waiting[e] = r /\ waiting'[e] = None
          /\ outcome'[r] \in {"true", "false"}
    \/ Crash(r.side) /\ outcome[r] = "blocked" /\ outcome'[r] = "dead"

\* Every step is one of these for every request.
LEMMA OutcomeMoves ==
    ASSUME TypeOK, [Next]_vars, NEW r \in Req
    PROVE  OutcomeMove(r)
<1> USE DEF threadVars, wireVars, endVars, callVars, histVars
<1>1. ASSUME UNCHANGED outcome
      PROVE  OutcomeMove(r)
  BY <1>1 DEF OutcomeMove
<1>2. ASSUME NEW q \in Req,
             SendPullResp(q) \/ RemoveMMMojoReadInfo(q) \/ RemoveMMMojoReadInfoInCallback(q)
      PROVE  UNCHANGED outcome
  BY <1>2 DEF SendPullResp, RemoveMMMojoReadInfo, RemoveMMMojoReadInfoInCallback
<1>3. ASSUME NEW d \in End,
             \/ StopStream(d) \/ CreateRemoteAndReceiverStream(d)
             \/ RemoveRemoteAndReceiverStream(d) \/ RaiseError(d)
             \/ ReadResponse(d) \/ OnMojoDisconnect(d)
             \/ LoseRequest(d) \/ LoseResponse(d)
      PROVE  UNCHANGED outcome
  BY <1>3 DEF StopStream, CreateRemoteAndReceiverStream,
         RemoveRemoteAndReceiverStream, RaiseError,
         ReadResponse, OnPushReqMMMojoReadInfo, OnPushReqMMMojoReadInfoSync,
         TakeResponse, OnMojoDisconnect, LoseRequest, LoseResponse
<1>4. ASSUME NEW d \in End, NEW m \in Method,
             AsyncWrite(d, m) \/ OneWay(d, m) \/ Acknowledge(d, m)
      PROVE  UNCHANGED outcome
  BY <1>4 DEF AsyncWrite, OneWay, Acknowledge, Dispatch
<1>5. ASSUME NEW d \in End, NEW b \in BOOLEAN, AnswerPull(d, b) \/ ReadPull(d, b)
      PROVE  UNCHANGED outcome
  BY <1>5 DEF AnswerPull, ReadPull, Dispatch
<1>6. ASSUME NEW q \in Req, SendMMMojoWriteInfo(q)
      PROVE  OutcomeMove(r)
  <2>1. From(q) \in End
    BY RequestEnds
  <2>2. CASE stream[From(q)]
    <3>1. /\ outcome[q] = "idle" /\ sent' = [sent EXCEPT ![From(q)] = Append(@, q)]
          /\ outcome' = [outcome EXCEPT ![q] = IF q.sync THEN "blocked" ELSE "true"]
      BY <1>6, <2>2 DEF SendMMMojoWriteInfo
    <3>2. sent'[From(q)] = Append(sent[From(q)], q)
      BY <2>1, <3>1 DEF TypeOK
    <3> QED
      BY <1>6, <2>2, <3>1, <3>2 DEF OutcomeMove, TypeOK
  <2>3. CASE ~stream[From(q)]
    <3>1. outcome[q] = "idle" /\ outcome' = [outcome EXCEPT ![q] = "false"]
      BY <1>6, <2>3 DEF SendMMMojoWriteInfo
    <3> QED
      BY <1>6, <2>3, <3>1 DEF OutcomeMove, TypeOK
  <2> QED
    BY <2>2, <2>3
<1>7. ASSUME NEW d \in End, NEW q, RunsTask(d, "Write"), RunTask(d), q = Head(queue[d]).req,
             NEW v \in {"true", "false"}, v = "true" => ~Blocking(q), q.sync,
             outcome' = [outcome EXCEPT ![q] = v]
      PROVE  OutcomeMove(r)
  <2>1. queue[d] # <<>> /\ Head(queue[d]) \in Task /\ Head(queue[d]).op = "Write"
    BY <1>7, RunEffect
  <2>2. Head(queue[d]) = [op |-> "Write", req |-> q]
    BY <1>7, <2>1 DEF Task
  <2>3. outcome'[r] = outcome[r] \/ (q = r /\ outcome'[r] = v)
    BY <1>7 DEF TypeOK
  <2> QED
    BY <1>7, <2>1, <2>2, <2>3 DEF OutcomeMove
<1>8. ASSUME NEW d \in End, NEW m \in Method, SyncWrite(d, m)
      PROVE  OutcomeMove(r)
  <2>1. RunTask(d)
    BY <1>8, RunsOne
  <2>2. /\ RunsTask(d, "Write") /\ Blocking(Head(queue[d]).req)
        /\ \/ outcome' = [outcome EXCEPT ![Head(queue[d]).req] = "false"]
           \/ UNCHANGED outcome
    BY <1>8 DEF SyncWrite
  <2> QED
    BY <1>1, <1>7, <2>1, <2>2 DEF Blocking
<1>9. ASSUME NEW d \in End, PullReqWithCallback(d)
      PROVE  OutcomeMove(r)
  <2>1. RunTask(d)
    BY <1>9, RunsOne
  <2>2. /\ RunsTask(d, "Write") /\ ~Blocking(Head(queue[d]).req) /\ Head(queue[d]).req.sync
        /\ \/ outcome' = [outcome EXCEPT ![Head(queue[d]).req] = "false"]
           \/ outcome' = [outcome EXCEPT ![Head(queue[d]).req] = "true"]
    BY <1>9 DEF PullReqWithCallback
  <2> QED
    BY <1>7, <2>1, <2>2
<1>10. ASSUME NEW d \in End, SyncResponse(d) \/ SyncDisconnect(d)
       PROVE  OutcomeMove(r)
  <2>1. /\ waiting[d] # None /\ waiting' = [waiting EXCEPT ![d] = None]
        /\ \/ outcome' = [outcome EXCEPT ![waiting[d]] = "false"]
           \/ outcome' = [outcome EXCEPT ![waiting[d]] = "true"]
    BY <1>10 DEF SyncResponse, SyncDisconnect
  <2>2. waiting'[d] = None
    BY <2>1 DEF TypeOK
  <2>3. outcome'[r] = outcome[r] \/ (waiting[d] = r /\ outcome'[r] \in {"true", "false"})
    BY <2>1 DEF TypeOK
  <2> QED
    BY <1>10, <2>2, <2>3 DEF OutcomeMove
<1>11. ASSUME NEW p \in Side, Crash(p)
       PROVE  OutcomeMove(r)
  BY <1>11 DEF Crash, OutcomeMove
<1>12. CASE UNCHANGED vars
  BY <1>12, <1>1 DEF vars
<1> QED
  BY <1>1, <1>2, <1>3, <1>4, <1>5, <1>6, <1>8, <1>9, <1>10, <1>11, <1>12, NextCases

\* A request that was given to Send cannot be given to it again.
LEMMA OutcomeStays ==
    ASSUME TypeOK, [Next]_vars, NEW r \in Req, outcome[r] # "idle"
    PROVE  outcome'[r] # "idle"
<1>1. OutcomeMove(r)
  BY OutcomeMoves
<1> QED
  BY <1>1 DEF OutcomeMove
-----------------------------------------------------------------------------
(* FlowInv: what one step does to sent, the queue and the pipe of an end   *)

\* Send posts a request, the thread writes one, the peer reads one ...
FlowSend(e) ==
    \E r \in Req :
        /\ From(r) = e /\ outcome[r] = "idle" /\ outcome'[r] # "idle"
        /\ sent'[e] = Append(sent[e], r)
        /\ queue'[e] = Append(queue[e], [op |-> "Write", req |-> r])
        /\ UNCHANGED <<requests[e], dispatched>>
FlowWrite(e) ==
    \E r \in Req :
        /\ queue[e] # <<>> /\ Head(queue[e]) = [op |-> "Write", req |-> r]
        /\ queue'[e] = Tail(queue[e])
        /\ \/ requests'[e] = Append(requests[e], r) /\ ~Cut(e)
           \/ requests'[e] = requests[e] /\ Cut(e)'
        /\ UNCHANGED <<sent[e], dispatched>>
FlowRead(e) ==
    /\ \E i : Reads(e, i)
    /\ UNCHANGED <<sent, queue>>

\* ... or at most another task comes or goes, and what is lost is lost to an end
\* that is cut off.
FlowQuiet(e) ==
    /\ sent'[e] = sent[e]
    /\ \A r \in Req : From(r) = e => dispatched'[r] = dispatched[r]
    /\ \/ queue'[e] = queue[e]
       \/ queue[e] # <<>> /\ Head(queue[e]).op # "Write" /\ queue'[e] = Tail(queue[e])
       \/ \E x \in Task : x.op # "Write" /\ queue'[e] = Append(queue[e], x)
       \/ queue'[e] = <<>> /\ Cut(e)'
    /\ \/ requests'[e] = requests[e]
       \/ requests'[e] = <<>> /\ Cut(e)'
       \/ /\ requests[e] # <<>> /\ Cut(e)'
          /\ requests'[e] = SubSeq(requests[e], 1, Len(requests[e]) - 1)

FlowMove(e) == FlowSend(e) \/ FlowWrite(e) \/ FlowRead(e) \/ FlowQuiet(e)

\* Every step is one of these for every end.
LEMMA FlowMoves ==
    ASSUME TypeOK, AnswerInv, CreateInv, EndInv, FlowInv, [Next]_vars, NEW e \in End
    PROVE  FlowMove(e)
<1> USE DEF threadVars, wireVars, endVars, callVars, histVars
<1>p. Peer(e) \in End /\ e[1] \in Side
  BY PeerEnd
<1>1. ASSUME NEW r \in Req, SendMMMojoWriteInfo(r)
      PROVE  FlowMove(e)
  <2>1. From(r) \in End /\ [op |-> "Write", req |-> r] \in Task
    BY RequestEnds, TaskType
  <2>2. CASE stream[From(r)]
    <3>1. /\ outcome[r] = "idle" /\ Post(From(r), "Write", r)
          /\ sent' = [sent EXCEPT ![From(r)] = Append(@, r)]
          /\ outcome' = [outcome EXCEPT ![r] = IF r.sync THEN "blocked" ELSE "true"]
          /\ UNCHANGED <<requests, dispatched>>
      BY <1>1, <2>2 DEF SendMMMojoWriteInfo
    <3>2. outcome'[r] # "idle"
      BY <3>1 DEF TypeOK
    <3>3. CASE From(r) = e
      <4>1. /\ sent'[e] = Append(sent[e], r)
            /\ queue'[e] = Append(queue[e], [op |-> "Write", req |-> r])
        BY <2>1, <3>1, <3>3, PostEffect DEF TypeOK
      <4> QED
        BY <3>1, <3>2, <3>3, <4>1 DEF FlowMove, FlowSend
    <3>4. CASE From(r) # e
      <4>1. sent'[e] = sent[e] /\ queue'[e] = queue[e]
        BY <2>1, <3>1, <3>4, PostEffect DEF TypeOK
      <4> QED
        BY <3>1, <4>1 DEF FlowMove, FlowQuiet
    <3> QED
      BY <3>3, <3>4
  <2>3. CASE ~stream[From(r)]
    <3>1. UNCHANGED <<queue, sent, requests, dispatched>>
      BY <1>1, <2>3 DEF SendMMMojoWriteInfo
    <3> QED
      BY <3>1 DEF FlowMove, FlowQuiet
  <2> QED
    BY <2>2, <2>3
<1>2. ASSUME NEW d \in End, RunTask(d)
      PROVE  FlowMove(e)
  <2>1. /\ RunsTask(d, Head(queue[d]).op)
        /\ \A c \in End : c # d => queue'[c] = queue[c]
        /\ queue[d] # <<>> /\ Head(queue[d]) \in Task /\ queue'[d] = Tail(queue[d])
    BY <1>2, RunsWhich, RunEffect
  <2>2. UNCHANGED <<sent, dispatched>>
    BY <1>2, RunsRequest
  <2>3. CASE d = e /\ Head(queue[e]).op = "Write"
    <3>1. Head(queue[e]).req \in Req
          /\ Head(queue[e]) = [op |-> "Write", req |-> Head(queue[e]).req]
      BY <2>1, <2>3 DEF Task
    <3>2. \/ Cut(e) /\ requests'[e] = requests[e]
          \/ ~Cut(e) /\ requests'[e] = Append(requests[e], Head(queue[e]).req)
      BY <1>2, <2>3, RunsRequest
    <3>3. Cut(e) => Cut(e)'
      BY EndStays
    <3> QED
      BY <2>1, <2>2, <2>3, <3>1, <3>2, <3>3 DEF FlowMove, FlowWrite
  <2>4. CASE d = e /\ Head(queue[e]).op # "Write"
    <3>1. requests'[e] = requests[e]
      BY <1>2, <2>4, RunsRequest
    <3> QED
      BY <2>1, <2>2, <2>4, <3>1 DEF FlowMove, FlowQuiet
  <2>5. CASE d # e
    <3>1. requests'[e] = requests[e] \/ (e = Peer(d) /\ requests'[e] = <<>> /\ recv'[d] = "closed")
      BY <1>2, <2>5, RunsRequest
    <3>2. requests'[e] = requests[e] \/ (requests'[e] = <<>> /\ Cut(e)')
      BY <3>1, PeerEnd DEF Cut
    <3>3. queue'[e] = queue[e]
      BY <2>1, <2>5
    <3> QED
      BY <2>2, <3>2, <3>3 DEF FlowMove, FlowQuiet
  <2> QED
    BY <2>3, <2>4, <2>5
<1>3. ASSUME NEW d \in End, NEW i, Reads(d, i)
      PROVE  FlowMove(e)
  <2>1. /\ requests[d] \in Seq(Req) /\ i \in 1..Len(requests[d])
        /\ \A c \in End : c # d => requests'[c] = requests[c]
        /\ dispatched' = [dispatched EXCEPT ![requests[d][i]] = @ + 1]
        /\ UNCHANGED <<queue, sent>>
    BY <1>3, ReadsEffect
  <2>2. CASE d = e
    BY <1>3, <2>1, <2>2 DEF FlowMove, FlowRead
  <2>3. CASE d # e
    <3>1. requests[d][i] \in ToSet(requests[d])
      BY <2>1, ElementIndex
    <3>2. From(requests[d][i]) = d
      BY <3>1 DEF FlowInv, FlowSound
    <3>3. \A r \in Req : From(r) = e => dispatched'[r] = dispatched[r]
      BY <2>1, <2>3, <3>2 DEF TypeOK
    <3> QED
      BY <2>1, <2>3, <3>3 DEF FlowMove, FlowQuiet
  <2> QED
    BY <2>2, <2>3
<1>4. CASE /\ \A r \in Req : ~SendMMMojoWriteInfo(r)
           /\ \A d \in End : ~RunTask(d)
           /\ \A d \in End : \A i : ~Reads(d, i)
  <2>1. sent'[e] = sent[e] /\ dispatched' = dispatched
    BY <1>4, SentMoves, RequestMoves DEF SentMove
  <2>2. Crash(e[1]) => Cut(e)'
    <3>1. e \in {e[1]} \X Stream
      BY DEF End
    <3> QED
      BY <3>1 DEF Crash, Cut
  <2>3. \A x \in Task : Posted(e, x) => x.op # "Write"
    BY <1>4 DEF Posted
  <2>4. \/ queue'[e] = queue[e]
        \/ \E x \in Task : x.op # "Write" /\ queue'[e] = Append(queue[e], x)
        \/ queue'[e] = <<>> /\ Cut(e)'
    BY <1>4, <2>2, <2>3, QueueMoves DEF QueueMove
  <2>5. ~alive[e[1]] => Cut(e)'
    BY EndStays DEF EndInv, EndSound, Cut
  <2>6. \/ requests'[e] = requests[e]
        \/ requests'[e] = <<>> /\ Cut(e)'
        \/ /\ requests[e] # <<>> /\ Cut(e)'
           /\ requests'[e] = SubSeq(requests[e], 1, Len(requests[e]) - 1)
    <3>1. RequestMove(e)
      BY RequestMoves
    <3>2. recv'[Peer(e)] = "closed" => Cut(e)'
      BY DEF Cut
    <3> QED
      BY <1>4, <2>5, <3>1, <3>2 DEF RequestMove
  <2> QED
    BY <2>1, <2>4, <2>6 DEF FlowMove, FlowQuiet
<1> QED
  BY <1>1, <1>2, <1>3, <1>4
-----------------------------------------------------------------------------
(* FlowInv is kept                                                         *)

\* What FlowInv says of the pipe and of the queue, for sequences of these types.
LEMMA FlowTypes ==
    ASSUME TypeOK, NEW e \in End
    PROVE  /\ sent[e] \in Seq(Req) /\ requests[e] \in Seq(Req) /\ queue[e] \in Seq(Task)
           /\ ToSet(sent[e]) \subseteq Req /\ ToSet(requests[e]) \subseteq Req
           /\ ToSet(queue[e]) \subseteq Task
<1>1. sent[e] \in Seq(Req) /\ requests[e] \in Seq(Req) /\ queue[e] \in Seq(Task)
  BY DEF TypeOK
<1> QED
  BY <1>1, ElementsWithin

\* Of two requests of an end one was posted first.
LEMMA SentOnce ==
    ASSUME TypeOK, NEW e \in End, FlowSound(e), NEW a, NEW b, <<a, b>> \in InSent(e)
    PROVE  /\ a # b /\ <<b, a>> \notin InSent(e)
           /\ a \in ToSet(sent[e]) /\ b \in ToSet(sent[e])
<1>1. sent[e] \in Seq(Req) /\ IsInjective(sent[e]) /\ Precedes(sent[e], a, b)
  BY DEF TypeOK, FlowSound, InSent
<1>2. ~Precedes(sent[e], b, a) /\ a # b
  BY <1>1, PrecedesOnce
<1>3. a \in ToSet(sent[e]) /\ b \in ToSet(sent[e])
  BY <1>1, PrecedesIn
<1> QED
  BY <1>2, <1>3 DEF InSent

\* What may be lost of a pipe leaves no gap before what is kept.
LEMMA PipeKept ==
    ASSUME TypeOK, NEW e \in End, FlowSound(e), NEW cut \in BOOLEAN,
           \/ requests'[e] = requests[e]
           \/ requests'[e] = <<>> /\ cut
           \/ /\ requests[e] # <<>> /\ cut
              /\ requests'[e] = SubSeq(requests[e], 1, Len(requests[e]) - 1)
    PROVE  /\ ToSet(requests'[e]) \subseteq ToSet(requests[e])
           /\ \A r \in ToSet(requests[e]) : r \in ToSet(requests'[e]) \/ cut
           /\ Ordered(requests'[e], InSent(e))
           /\ \A a \in ToSet(requests[e]) : \A b \in ToSet(requests'[e]) :
                 <<a, b>> \in InSent(e) => a \in ToSet(requests'[e])
<1>1. requests[e] \in Seq(Req) /\ Ordered(requests[e], InSent(e))
  BY FlowTypes DEF FlowSound
<1>2. CASE requests'[e] = requests[e]
  BY <1>1, <1>2
<1>3. CASE requests'[e] = <<>> /\ cut
  <2>1. ToSet(<<>>) = {} /\ Ordered(<<>>, InSent(e))
    BY EmptyElements, OrderedShort
  <2> QED
    BY <1>3, <2>1
<1>4. CASE /\ requests[e] # <<>> /\ cut
           /\ requests'[e] = SubSeq(requests[e], 1, Len(requests[e]) - 1)
  <2> DEFINE last == requests[e][Len(requests[e])]
  <2>1. /\ Ordered(requests'[e], InSent(e))
        /\ \A y \in ToSet(requests'[e]) : <<y, last>> \in InSent(e)
        /\ ToSet(requests[e]) = ToSet(requests'[e]) \cup {last}
    BY <1>1, <1>4, OrderedFront
  <2> HIDE DEF last
  <2>2. \A b \in ToSet(requests'[e]) : <<last, b>> \notin InSent(e)
    BY <2>1, SentOnce
  <2> QED
    BY <1>4, <2>1, <2>2
<1> QED
  BY <1>2, <1>3, <1>4

\* What comes to a queue, or goes, leaves the tasks that write alone.
LEMMA QueueKept ==
    ASSUME TypeOK, NEW e \in End, FlowSound(e), NEW cut \in BOOLEAN,
           \/ queue'[e] = queue[e]
           \/ queue[e] # <<>> /\ Head(queue[e]).op # "Write" /\ queue'[e] = Tail(queue[e])
           \/ \E x \in Task : x.op # "Write" /\ queue'[e] = Append(queue[e], x)
           \/ queue'[e] = <<>> /\ cut
    PROVE  /\ \A r \in Req : Queued(e, "Write", r)' => Queued(e, "Write", r)
           /\ \A r \in Req : Queued(e, "Write", r) => Queued(e, "Write", r)' \/ cut
           /\ Ordered(queue'[e], InTasks(e))
<1>1. /\ queue[e] \in Seq(Task) /\ ToSet(queue[e]) \subseteq Task
      /\ Ordered(queue[e], InTasks(e))
  BY FlowTypes DEF FlowSound
<1>2. /\ \A r : Queued(e, "Write", r) <=> [op |-> "Write", req |-> r] \in ToSet(queue[e])
      /\ \A r : Queued(e, "Write", r)' <=> [op |-> "Write", req |-> r] \in ToSet(queue'[e])
  BY DEF Queued
<1>3. CASE queue'[e] = queue[e]
  BY <1>1, <1>2, <1>3
<1>4. CASE queue'[e] = <<>> /\ cut
  <2>1. ToSet(<<>>) = {} /\ Ordered(<<>>, InTasks(e))
    BY EmptyElements, OrderedShort
  <2> QED
    BY <1>2, <1>4, <2>1
<1>5. CASE queue[e] # <<>> /\ Head(queue[e]).op # "Write" /\ queue'[e] = Tail(queue[e])
  <2>1. ToSet(queue[e]) = ToSet(queue'[e]) \cup {Head(queue[e])}
    BY <1>1, <1>5, TailElements
  <2>2. Ordered(queue'[e], InTasks(e))
    BY <1>1, <1>5, OrderedTail
  <2>3. ASSUME NEW r \in Req
        PROVE  Queued(e, "Write", r)' <=> Queued(e, "Write", r)
    <3>1. [op |-> "Write", req |-> r] # Head(queue[e])
      BY <1>5
    <3> QED
      BY <1>2, <2>1, <3>1
  <2> QED
    BY <2>2, <2>3
<1>6. ASSUME NEW x \in Task, x.op # "Write", queue'[e] = Append(queue[e], x)
      PROVE  /\ \A r \in Req : Queued(e, "Write", r)' <=> Queued(e, "Write", r)
             /\ Ordered(queue'[e], InTasks(e))
  <2>1. ToSet(queue'[e]) = ToSet(queue[e]) \cup {x}
    BY <1>1, <1>6, AppendElements
  <2>2. \A y \in ToSet(queue[e]) : <<y, x>> \in InTasks(e)
    BY <1>1, <1>6 DEF InTasks
  <2>3. Ordered(queue'[e], InTasks(e))
    BY <1>1, <1>6, <2>2, OrderedAppend
  <2>4. ASSUME NEW r \in Req
        PROVE  Queued(e, "Write", r)' <=> Queued(e, "Write", r)
    <3>1. [op |-> "Write", req |-> r] # x
      BY <1>6
    <3> QED
      BY <1>2, <2>1, <3>1
  <2> QED
    BY <2>3, <2>4
<1> QED
  BY <1>3, <1>4, <1>5, <1>6

\* A step that neither posts, writes nor reads a request of e.
LEMMA QuietFlow ==
    ASSUME TypeOK, CreateInv, [Next]_vars, NEW e \in End, FlowSound(e), FlowQuiet(e)
    PROVE  FlowSound(e)'
<1>1. /\ sent'[e] = sent[e] /\ InSent(e)' = InSent(e) /\ InTasks(e)' = InTasks(e)
      /\ \A r \in Req : From(r) = e => dispatched'[r] = dispatched[r]
  BY DEF FlowQuiet, InSent, InTasks
<1>2. ToSet(sent[e]) \subseteq Req /\ ToSet(requests[e]) \subseteq Req
  BY FlowTypes
<1>3. /\ ToSet(requests'[e]) \subseteq ToSet(requests[e])
      /\ \A r \in ToSet(requests[e]) : r \in ToSet(requests'[e]) \/ Cut(e)'
      /\ Ordered(requests'[e], InSent(e))
      /\ \A a \in ToSet(requests[e]) : \A b \in ToSet(requests'[e]) :
            <<a, b>> \in InSent(e) => a \in ToSet(requests'[e])
  <2>1. Cut(e)' \in BOOLEAN
    BY DEF Cut
  <2> QED
    BY <2>1, PipeKept DEF FlowQuiet
<1>4. /\ \A r \in Req : Queued(e, "Write", r)' => Queued(e, "Write", r)
      /\ \A r \in Req : Queued(e, "Write", r) => Queued(e, "Write", r)' \/ Cut(e)'
      /\ Ordered(queue'[e], InTasks(e))
  <2>1. Cut(e)' \in BOOLEAN
    BY DEF Cut
  <2> QED
    BY <2>1, QueueKept DEF FlowQuiet
<1>5. \A a, b : <<a, b>> \in InSent(e) =>
          a \in ToSet(sent[e]) /\ b \in ToSet(sent[e])
  BY SentOnce
<1>6. Cut(e) => Cut(e)'
  BY EndStays
<1>7. IsInjective(sent'[e])
  BY <1>1 DEF FlowSound
<1>8. ASSUME NEW r \in ToSet(sent'[e])
      PROVE  /\ From(r) = e /\ outcome'[r] # "idle"
             /\ \/ dispatched'[r] > 0 \/ r \in ToSet(requests'[e])
                \/ Queued(e, "Write", r)' \/ Cut(e)'
  <2>1. r \in ToSet(sent[e]) /\ r \in Req
    BY <1>1, <1>2, <1>8
  <2>2. /\ From(r) = e /\ outcome[r] # "idle"
        /\ \/ dispatched[r] > 0 \/ r \in ToSet(requests[e])
           \/ Queued(e, "Write", r) \/ Cut(e)
    BY <2>1 DEF FlowSound
  <2>3. outcome'[r] # "idle"
    BY <2>1, <2>2, OutcomeStays
  <2> QED
    BY <1>1, <1>3, <1>4, <1>6, <2>1, <2>2, <2>3
<1>9. \A r \in Req : From(r) = e /\ dispatched[r] = 0 => dispatched'[r] = 0
  BY <1>1
<1>10. \A r \in ToSet(requests'[e]) : r \in ToSet(sent'[e]) /\ dispatched'[r] = 0
  BY <1>1, <1>2, <1>3, <1>9 DEF FlowSound
<1>11. \A r \in Req : Queued(e, "Write", r)' => r \in ToSet(sent'[e]) /\ dispatched'[r] = 0
  BY <1>1, <1>4, <1>9 DEF FlowSound
<1>12. \A a \in ToSet(requests'[e]) : \A b \in Req :
           Queued(e, "Write", b)' => <<a, b>> \in InSent(e)'
  BY <1>1, <1>3, <1>4 DEF FlowSound
<1>13. ASSUME NEW a \in Req, NEW b \in ToSet(requests'[e]), <<a, b>> \in InSent(e)'
       PROVE  dispatched'[a] > 0 \/ a \in ToSet(requests'[e])
  <2>1. <<a, b>> \in InSent(e) /\ b \in ToSet(requests[e])
    BY <1>1, <1>3, <1>13
  <2>2. dispatched[a] > 0 \/ a \in ToSet(requests[e])
    BY <2>1 DEF FlowSound
  <2>3. From(a) = e
    BY <1>5, <2>1 DEF FlowSound
  <2> QED
    BY <1>1, <1>3, <1>13, <2>1, <2>2, <2>3
<1> QED
  BY <1>1, <1>3, <1>4, <1>7, <1>8, <1>10, <1>11, <1>12, <1>13 DEF FlowSound

\* Send posts a request that was never posted before.
LEMMA SendFlow ==
    ASSUME TypeOK, CreateInv, ReadInv, [Next]_vars, NEW e \in End, FlowSound(e), FlowSend(e)
    PROVE  FlowSound(e)'
<1>1. PICK r \in Req :
        /\ From(r) = e /\ outcome[r] = "idle" /\ outcome'[r] # "idle"
        /\ sent'[e] = Append(sent[e], r)
        /\ queue'[e] = Append(queue[e], [op |-> "Write", req |-> r])
        /\ UNCHANGED <<requests[e], dispatched>>
  BY DEF FlowSend
<1> DEFINE x == [op |-> "Write", req |-> r]
<1>2. /\ sent[e] \in Seq(Req) /\ requests[e] \in Seq(Req) /\ queue[e] \in Seq(Task)
      /\ ToSet(sent[e]) \subseteq Req /\ ToSet(requests[e]) \subseteq Req
      /\ ToSet(queue[e]) \subseteq Task /\ x \in Task
  BY FlowTypes, TaskType
<1>3. /\ ToSet(sent'[e]) = ToSet(sent[e]) \cup {r}
      /\ ToSet(queue'[e]) = ToSet(queue[e]) \cup {x}
  BY <1>1, <1>2, AppendElements
<1>4. r \notin ToSet(sent[e])
  BY <1>1 DEF FlowSound
<1>5. dispatched[r] = 0 /\ dispatched'[r] = 0
  <2>1. dispatched[r] \in Nat /\ ~(dispatched[r] > 0)
    BY <1>1, <1>4 DEF ReadInv, TypeOK
  <2> QED
    BY <1>1, <2>1
<1>6. \A a, b \in Req : <<a, b>> \in InSent(e)' <=>
          <<a, b>> \in InSent(e) \/ (a \in ToSet(sent[e]) /\ b = r)
  <2>1. \A a, b : Precedes(sent'[e], a, b) <=>
           Precedes(sent[e], a, b) \/ (a \in ToSet(sent[e]) /\ b = r)
    BY <1>1, <1>2, PrecedesAppend
  <2> QED
    BY <2>1 DEF InSent
<1>7. \A b \in Req : /\ Queued(e, "Write", b) => Queued(e, "Write", b)'
                     /\ Queued(e, "Write", b)' => Queued(e, "Write", b) \/ b = r
  BY <1>3 DEF Queued
<1>8. Queued(e, "Write", r)'
  BY <1>3 DEF Queued
<1>9. IsInjective(sent'[e])
  BY <1>1, <1>2, <1>4, AppendDistinct DEF FlowSound
<1>10. Cut(e) => Cut(e)'
  BY EndStays
<1>11. ASSUME NEW q \in ToSet(sent'[e])
       PROVE  /\ From(q) = e /\ outcome'[q] # "idle"
              /\ \/ dispatched'[q] > 0 \/ q \in ToSet(requests'[e])
                 \/ Queued(e, "Write", q)' \/ Cut(e)'
  <2>1. CASE q = r
    BY <1>1, <1>8, <2>1
  <2>2. CASE q # r
    <3>1. q \in ToSet(sent[e]) /\ q \in Req
      BY <1>2, <1>3, <1>11, <2>2
    <3>2. /\ From(q) = e /\ outcome[q] # "idle"
          /\ \/ dispatched[q] > 0 \/ q \in ToSet(requests[e])
             \/ Queued(e, "Write", q) \/ Cut(e)
      BY <3>1 DEF FlowSound
    <3>3. outcome'[q] # "idle"
      BY <3>1, <3>2, OutcomeStays
    <3> QED
      BY <1>1, <1>7, <1>10, <3>1, <3>2, <3>3
  <2> QED
    BY <2>1, <2>2
<1>12. \A q \in ToSet(requests'[e]) : q \in ToSet(sent'[e]) /\ dispatched'[q] = 0
  BY <1>1, <1>3 DEF FlowSound
<1>13. \A q \in Req : Queued(e, "Write", q)' => q \in ToSet(sent'[e]) /\ dispatched'[q] = 0
  BY <1>1, <1>3, <1>5, <1>7 DEF FlowSound
<1>14. Ordered(requests'[e], InSent(e)')
  BY <1>1, <1>2, <1>6, OrderedWithin DEF FlowSound
<1>15. Ordered(queue'[e], InTasks(e)')
  <2>1. \A p \in InTasks(e) : p \in InTasks(e)'
    <3> SUFFICES ASSUME NEW s \in Task, NEW t \in Task, <<s, t>> \in InTasks(e)
                 PROVE  <<s, t>> \in InTasks(e)'
      BY DEF InTasks
    <3>1. s.op = "Write" /\ t.op = "Write" => s.req \in Req /\ t.req \in Req
      BY TaskType
    <3> QED
      BY <1>6, <3>1 DEF InTasks
  <2>2. Ordered(queue[e], InTasks(e)')
    BY <1>2, <2>1, OrderedWithin DEF FlowSound
  <2>3. ASSUME NEW y \in ToSet(queue[e])
        PROVE  <<y, x>> \in InTasks(e)'
    <3>1. y \in Task
      BY <1>2
    <3>2. CASE y.op # "Write"
      BY <1>2, <3>1, <3>2 DEF InTasks
    <3>3. CASE y.op = "Write"
      <4>1. y = [op |-> "Write", req |-> y.req] /\ y.req \in Req
        BY <3>1, <3>3 DEF Task
      <4>2. Queued(e, "Write", y.req)
        BY <4>1 DEF Queued
      <4>3. y.req \in ToSet(sent[e])
        BY <4>1, <4>2 DEF FlowSound
      <4>4. <<y.req, r>> \in InSent(e)'
        BY <1>6, <4>1, <4>3
      <4> QED
        BY <1>2, <3>1, <4>4 DEF InTasks
    <3> QED
      BY <3>2, <3>3
  <2> HIDE DEF x
  <2> QED
    BY <1>1, <1>2, <2>2, <2>3, OrderedAppend DEF x
<1>16. \A a \in ToSet(requests'[e]) : \A b \in Req :
           Queued(e, "Write", b)' => <<a, b>> \in InSent(e)'
  BY <1>1, <1>2, <1>6, <1>7 DEF FlowSound
<1>17. \A a \in Req : \A b \in ToSet(requests'[e]) : <<a, b>> \in InSent(e)' =>
           dispatched'[a] > 0 \/ a \in ToSet(requests'[e])
  BY <1>1, <1>2, <1>4, <1>6 DEF FlowSound
<1> QED
  BY <1>9, <1>11, <1>12, <1>13, <1>14, <1>15, <1>16, <1>17 DEF FlowSound

\* The thread writes the request of its first task to the pipe.
LEMMA WriteFlow ==
    ASSUME TypeOK, CreateInv, [Next]_vars, NEW e \in End, FlowSound(e), FlowWrite(e)
    PROVE  FlowSound(e)'
<1>1. PICK r \in Req :
        /\ queue[e] # <<>> /\ Head(queue[e]) = [op |-> "Write", req |-> r]
        /\ queue'[e] = Tail(queue[e])
        /\ \/ requests'[e] = Append(requests[e], r) /\ ~Cut(e)
           \/ requests'[e] = requests[e] /\ Cut(e)'
        /\ UNCHANGED <<sent[e], dispatched>>
  BY DEF FlowWrite
<1> DEFINE x == [op |-> "Write", req |-> r]
<1>2. /\ sent[e] \in Seq(Req) /\ requests[e] \in Seq(Req) /\ queue[e] \in Seq(Task)
      /\ ToSet(sent[e]) \subseteq Req /\ ToSet(requests[e]) \subseteq Req
      /\ ToSet(queue[e]) \subseteq Task /\ x \in Task
  BY FlowTypes, TaskType
<1>3. ToSet(queue[e]) = ToSet(queue'[e]) \cup {x}
  BY <1>1, <1>2, TailElements
<1>4. /\ Queued(e, "Write", r)
      /\ \A b \in Req : /\ Queued(e, "Write", b)' => Queued(e, "Write", b)
                        /\ Queued(e, "Write", b) => Queued(e, "Write", b)' \/ b = r
  BY <1>3 DEF Queued
<1>5. /\ Ordered(queue'[e], InTasks(e))
      /\ \A y \in ToSet(queue'[e]) : <<x, y>> \in InTasks(e)
  BY <1>1, <1>2, OrderedTail DEF FlowSound
<1>6. \A b \in Req : Queued(e, "Write", b)' => <<r, b>> \in InSent(e)
  BY <1>5 DEF Queued, InTasks
<1>7. InSent(e)' = InSent(e) /\ InTasks(e)' = InTasks(e)
  BY <1>1 DEF InSent, InTasks
<1>8. \/ /\ requests'[e] = Append(requests[e], r) /\ ~Cut(e)
         /\ ToSet(requests'[e]) = ToSet(requests[e]) \cup {r}
      \/ requests'[e] = requests[e] /\ Cut(e)'
  <2>1. ToSet(Append(requests[e], r)) = ToSet(requests[e]) \cup {r}
    BY <1>2, AppendElements
  <2> QED
    BY <1>1, <2>1
<1> HIDE DEF x
<1>9. r \in ToSet(sent[e]) /\ dispatched[r] = 0
  BY <1>4 DEF FlowSound
<1>10. Cut(e) => Cut(e)'
  BY EndStays
<1>11. ASSUME NEW q \in ToSet(sent'[e])
       PROVE  /\ From(q) = e /\ outcome'[q] # "idle"
              /\ \/ dispatched'[q] > 0 \/ q \in ToSet(requests'[e])
                 \/ Queued(e, "Write", q)' \/ Cut(e)'
  <2>1. q \in ToSet(sent[e]) /\ q \in Req
    BY <1>1, <1>2, <1>11
  <2>2. /\ From(q) = e /\ outcome[q] # "idle"
        /\ \/ dispatched[q] > 0 \/ q \in ToSet(requests[e])
           \/ Queued(e, "Write", q) \/ Cut(e)
    BY <2>1 DEF FlowSound
  <2>3. outcome'[q] # "idle"
    BY <2>1, <2>2, OutcomeStays
  <2> QED
    BY <1>1, <1>4, <1>8, <1>10, <2>1, <2>2, <2>3
<1>12. \A q \in ToSet(requests'[e]) : q \in ToSet(sent'[e]) /\ dispatched'[q] = 0
  BY <1>1, <1>8, <1>9 DEF FlowSound
<1>13. \A q \in Req : Queued(e, "Write", q)' => q \in ToSet(sent'[e]) /\ dispatched'[q] = 0
  BY <1>1, <1>4 DEF FlowSound
<1>14. Ordered(requests'[e], InSent(e))
  <2>1. \A y \in ToSet(requests[e]) : <<y, r>> \in InSent(e)
    BY <1>4 DEF FlowSound
  <2>2. Ordered(requests[e], InSent(e))
    BY DEF FlowSound
  <2>3. Ordered(Append(requests[e], r), InSent(e))
    BY <1>2, <2>1, <2>2, OrderedAppend
  <2> QED
    BY <1>8, <2>2, <2>3
<1>15. \A a \in ToSet(requests'[e]) : \A b \in Req :
           Queued(e, "Write", b)' => <<a, b>> \in InSent(e)
  BY <1>4, <1>6, <1>8 DEF FlowSound
<1>16. ASSUME NEW a \in Req, NEW b \in ToSet(requests'[e]), <<a, b>> \in InSent(e)
       PROVE  dispatched'[a] > 0 \/ a \in ToSet(requests'[e])
  <2>1. CASE b \in ToSet(requests[e])
    BY <1>1, <1>8, <1>16, <2>1 DEF FlowSound
  <2>2. CASE b \notin ToSet(requests[e])
    <3>1. b = r /\ ~Cut(e) /\ ToSet(requests'[e]) = ToSet(requests[e]) \cup {r}
      BY <1>8, <1>16, <2>2
    <3>2. a # r /\ <<r, a>> \notin InSent(e) /\ a \in ToSet(sent[e])
      BY <1>16, <3>1, SentOnce
    <3>3. ~Queued(e, "Write", a)
      BY <1>4, <1>6, <3>2
    <3>4. dispatched[a] > 0 \/ a \in ToSet(requests[e])
      BY <3>1, <3>2, <3>3 DEF FlowSound
    <3> QED
      BY <1>1, <3>1, <3>4
  <2> QED
    BY <2>1, <2>2
<1>17. IsInjective(sent'[e]) /\ Ordered(queue'[e], InTasks(e))
  BY <1>1, <1>5 DEF FlowSound
<1> QED
  BY <1>7, <1>11, <1>12, <1>13, <1>14, <1>15, <1>16, <1>17 DEF FlowSound

\* The peer reads a request: the first on the pipe, or the first synchronous one.
LEMMA ReadFlow ==
    ASSUME TypeOK, CreateInv, [Next]_vars, NEW e \in End, FlowSound(e), FlowRead(e)
    PROVE  FlowSound(e)'
<1>1. PICK i : Reads(e, i)
  BY DEF FlowRead
<1> DEFINE r == requests[e][i]
<1>2. /\ sent[e] \in Seq(Req) /\ requests[e] \in Seq(Req) /\ queue[e] \in Seq(Task)
      /\ ToSet(sent[e]) \subseteq Req /\ ToSet(requests[e]) \subseteq Req
      /\ ToSet(queue[e]) \subseteq Task
  BY FlowTypes
<1>3. /\ i \in 1..Len(requests[e]) /\ r \in Req
      /\ requests'[e] = RemoveAt(requests[e], i)
      /\ dispatched' = [dispatched EXCEPT ![r] = @ + 1]
      /\ UNCHANGED <<outcome, sent, queue>>
  <2>1. UNCHANGED <<threadVars, callVars, sent>>
    BY <1>1, ReadsEffect
  <2>2. /\ i \in 1..Len(requests[e]) /\ r \in Req
        /\ requests'[e] = RemoveAt(requests[e], i)
        /\ dispatched' = [dispatched EXCEPT ![r] = @ + 1]
    BY <1>1, ReadsEffect
  <2> QED
    BY <2>1, <2>2 DEF threadVars, callVars
<1>4. /\ Ordered(requests'[e], InSent(e))
      /\ \A y \in ToSet(requests'[e]) : <<r, y>> \in InSent(e) \/ <<y, r>> \in InSent(e)
      /\ ToSet(requests[e]) = ToSet(requests'[e]) \cup {r}
  <2>1. Ordered(requests[e], InSent(e))
    BY DEF FlowSound
  <2>2. i \in 1..Len(requests[e]) /\ requests[e] \in Seq(Req)
    BY <1>2, <1>3
  <2>3. /\ Ordered(RemoveAt(requests[e], i), InSent(e))
        /\ \A y \in ToSet(RemoveAt(requests[e], i)) : <<r, y>> \in InSent(e) \/ <<y, r>> \in InSent(e)
        /\ ToSet(requests[e]) = ToSet(RemoveAt(requests[e], i)) \cup {r}
    BY <2>1, <2>2, OrderedRemoveAt
  <2> QED
    BY <1>3, <2>3
<1> HIDE DEF r
<1>5. r \notin ToSet(requests'[e])
  BY <1>4, SentOnce
<1>6. ~Queued(e, "Write", r)
  <2>1. <<r, r>> \notin InSent(e)
    BY SentOnce
  <2> QED
    BY <1>3, <1>4, <2>1 DEF FlowSound
<1>7. dispatched'[r] > 0 /\ \A q \in Req : q # r => dispatched'[q] = dispatched[q]
  BY <1>3 DEF TypeOK
<1>8. InSent(e)' = InSent(e) /\ InTasks(e)' = InTasks(e)
  BY <1>3 DEF InSent, InTasks
<1>9. \A b : Queued(e, "Write", b)' <=> Queued(e, "Write", b)
  BY <1>3 DEF Queued
<1>10. Cut(e) => Cut(e)'
  BY EndStays
<1>11. ASSUME NEW q \in ToSet(sent'[e])
       PROVE  /\ From(q) = e /\ outcome'[q] # "idle"
              /\ \/ dispatched'[q] > 0 \/ q \in ToSet(requests'[e])
                 \/ Queued(e, "Write", q)' \/ Cut(e)'
  <2>1. q \in ToSet(sent[e]) /\ q \in Req
    BY <1>2, <1>3, <1>11
  <2>2. /\ From(q) = e /\ outcome[q] # "idle"
        /\ \/ dispatched[q] > 0 \/ q \in ToSet(requests[e])
           \/ Queued(e, "Write", q) \/ Cut(e)
    BY <2>1 DEF FlowSound
  <2> QED
    BY <1>3, <1>4, <1>7, <1>9, <1>10, <2>1, <2>2
<1>12. \A q \in ToSet(requests'[e]) : q \in ToSet(sent'[e]) /\ dispatched'[q] = 0
  BY <1>2, <1>3, <1>4, <1>5, <1>7 DEF FlowSound
<1>13. \A q \in Req : Queued(e, "Write", q)' => q \in ToSet(sent'[e]) /\ dispatched'[q] = 0
  BY <1>3, <1>6, <1>7, <1>9 DEF FlowSound
<1>14. \A a \in ToSet(requests'[e]) : \A b \in Req :
           Queued(e, "Write", b)' => <<a, b>> \in InSent(e)
  BY <1>4, <1>9 DEF FlowSound
<1>15. \A a \in Req : \A b \in ToSet(requests'[e]) : <<a, b>> \in InSent(e) =>
           dispatched'[a] > 0 \/ a \in ToSet(requests'[e])
  BY <1>4, <1>7 DEF FlowSound
<1>16. IsInjective(sent'[e]) /\ Ordered(queue'[e], InTasks(e))
  BY <1>3 DEF FlowSound
<1> QED
  BY <1>4, <1>8, <1>11, <1>12, <1>13, <1>14, <1>15, <1>16 DEF FlowSound

\* The requests stay in order, and none is missing.
LEMMA FlowStep ==
    ASSUME TypeOK, AnswerInv, CreateInv, EndInv, FlowInv, ReadInv, [Next]_vars
    PROVE  FlowInv'
<1> SUFFICES ASSUME NEW e \in End
             PROVE  FlowSound(e)'
  BY DEF FlowInv
<1>1. FlowMove(e) /\ FlowSound(e)
  BY FlowMoves DEF FlowInv
<1> QED
  BY <1>1, SendFlow, WriteFlow, ReadFlow, QuietFlow DEF FlowMove
-----------------------------------------------------------------------------
(* ReadInv and OvertakeInv                                                 *)

\* What was posted stays so, in its order.
LEMMA SentStays ==
    ASSUME TypeOK, [Next]_vars, NEW e \in End
    PROVE  ToSet(sent[e]) \subseteq ToSet(sent'[e]) /\ InSent(e) \subseteq InSent(e)'
<1>1. sent[e] \in Seq(Req) /\ SentMove(e)
  BY FlowTypes, SentMoves
<1>2. CASE sent'[e] = sent[e]
  BY <1>2 DEF InSent
<1>3. ASSUME NEW r \in Req, sent'[e] = Append(sent[e], r)
      PROVE  ToSet(sent[e]) \subseteq ToSet(sent'[e]) /\ InSent(e) \subseteq InSent(e)'
  <2>1. ToSet(sent'[e]) = ToSet(sent[e]) \cup {r}
    BY <1>1, <1>3, AppendElements
  <2>2. \A a, b : Precedes(sent[e], a, b) => Precedes(sent'[e], a, b)
    BY <1>1, <1>3, PrecedesAppend
  <2> QED
    BY <2>1, <2>2 DEF InSent
<1> QED
  BY <1>1, <1>2, <1>3 DEF SentMove

\* A request is read at most once, and only if it was posted.
LEMMA ReadStep ==
    ASSUME TypeOK, AnswerInv, CreateInv, FlowInv, ReadInv, WaitInv, [Next]_vars
    PROVE  ReadInv'
<1> SUFFICES ASSUME NEW r \in Req
             PROVE  /\ dispatched'[r] <= 1
                    /\ dispatched'[r] > 0 => r \in ToSet(sent'[From(r)])
                    /\ outcome'[r] \in {"blocked", "true"} => r \in ToSet(sent'[From(r)])
  BY DEF ReadInv
<1>1. From(r) \in End
  BY RequestEnds
<1>2. r \in ToSet(sent[From(r)]) => r \in ToSet(sent'[From(r)])
  BY <1>1, SentStays
<1>3. /\ dispatched'[r] <= 1
      /\ dispatched'[r] > 0 => r \in ToSet(sent'[From(r)])
  <2>1. CASE dispatched'[r] = dispatched[r]
    BY <1>2, <2>1 DEF ReadInv
  <2>2. CASE dispatched'[r] # dispatched[r]
    <3>1. PICK e \in End : \E i : Reads(e, i)
      BY <2>2, RequestMoves
    <3>2. PICK i : Reads(e, i)
      BY <3>1
    <3>3. /\ requests[e] \in Seq(Req) /\ i \in 1..Len(requests[e])
          /\ dispatched' = [dispatched EXCEPT ![requests[e][i]] = @ + 1]
      BY <3>2, ReadsEffect
    <3>4. r = requests[e][i] /\ dispatched'[r] = dispatched[r] + 1
      BY <2>2, <3>3 DEF TypeOK
    <3>5. r \in ToSet(requests[e])
      BY <3>3, <3>4, ElementIndex
    <3>6. dispatched[r] = 0 /\ r \in ToSet(sent[e]) /\ From(r) = e
      BY <3>5 DEF FlowInv, FlowSound
    <3> QED
      BY <1>2, <3>4, <3>6
  <2> QED
    BY <2>1, <2>2
<1>4. ASSUME outcome'[r] \in {"blocked", "true"}
      PROVE  r \in ToSet(sent'[From(r)])
  <2>1. OutcomeMove(r)
    BY OutcomeMoves
  <2>2. CASE outcome'[r] = outcome[r]
    BY <1>2, <1>4, <2>2 DEF ReadInv
  <2>3. CASE SendMMMojoWriteInfo(r) /\ sent'[From(r)] = Append(sent[From(r)], r)
    <3>1. sent[From(r)] \in Seq(Req)
      BY <1>1, FlowTypes
    <3>2. ToSet(Append(sent[From(r)], r)) = ToSet(sent[From(r)]) \cup {r}
      BY <3>1, AppendElements
    <3> QED
      BY <2>3, <3>2
  <2>4. ASSUME NEW e \in End, RunTask(e), Head(queue[e]) = [op |-> "Write", req |-> r]
        PROVE  r \in ToSet(sent[From(r)])
    <3>1. Head(queue[e]) \in ToSet(queue[e])
      BY <2>4, RunsWhich, RunEffect
    <3>2. Queued(e, "Write", r) /\ From(r) = e
      BY <2>4, <3>1 DEF Queued, AnswerInv, TaskHome
    <3> QED
      BY <3>2 DEF FlowInv, FlowSound
  <2>5. ASSUME NEW e \in End, waiting[e] = r
        PROVE  r \in ToSet(sent[From(r)])
    <3>1. r # None
      BY ParamAssumption
    <3>2. outcome[r] = "blocked"
      BY <2>5, <3>1 DEF WaitInv, WaitSound
    <3> QED
      BY <3>2 DEF ReadInv
  <2> QED
    BY <1>2, <1>4, <2>1, <2>2, <2>3, <2>4, <2>5 DEF OutcomeMove
<1> QED
  BY <1>3, <1>4

\* A request is read in its turn: what was posted before it was read before, or
\* is still on the pipe and a synchronous request may overtake it.
LEMMA ReadInTurn ==
    ASSUME TypeOK, NEW e \in End, FlowSound(e), NEW i, Reads(e, i),
           NEW a \in Req, <<a, requests[e][i]>> \in InSent(e)
    PROVE  dispatched[a] > 0 \/ (Blocking(requests[e][i]) /\ ~Blocking(a))
<1>1. /\ requests[e] \in Seq(Req) /\ i \in 1..Len(requests[e])
      /\ \A j \in 1..Len(requests[e]) : j < i =>
            Blocking(requests[e][i]) /\ ~Blocking(requests[e][j])
  BY ReadsEffect
<1>2. PICK b \in Req : b = requests[e][i]
  BY <1>1
<1>3. b \in ToSet(requests[e])
  BY <1>1, <1>2, ElementIndex
<1>4. dispatched[a] > 0 \/ a \in ToSet(requests[e])
  BY <1>2, <1>3 DEF FlowSound
<1>5. ASSUME a \in ToSet(requests[e])
      PROVE  Blocking(b) /\ ~Blocking(a)
  <2>1. PICK j \in 1..Len(requests[e]) : requests[e][j] = a
    BY <1>1, <1>5, ElementIndex
  <2>2. j # i
    BY <1>2, <2>1, SentOnce
  <2>3. ~(i < j)
    <3>1. ASSUME i < j
          PROVE  <<b, a>> \in InSent(e)
      <4>1. Ordered(requests[e], InSent(e)) /\ DOMAIN requests[e] = 1..Len(requests[e])
        BY <1>1, ElementIndex DEF FlowSound
      <4> QED
        BY <1>1, <1>2, <2>1, <3>1, <4>1 DEF Ordered
    <3> QED
      BY <1>2, <3>1, SentOnce
  <2>4. j < i
    BY <1>1, <2>2, <2>3
  <2> QED
    BY <1>1, <1>2, <2>1, <2>4
<1> QED
  BY <1>2, <1>4, <1>5

\* A request that is read found those before it read, or overtook them rightly.
LEMMA OvertakeStep ==
    ASSUME TypeOK, AnswerInv, CreateInv, EndInv, FlowInv, ReadInv, OvertakeInv, [Next]_vars
    PROVE  OvertakeInv'
<1> SUFFICES ASSUME NEW e \in End, NEW a \in Req, NEW b \in Req,
                    <<a, b>> \in InSent(e)', dispatched'[b] > 0
             PROVE  dispatched'[a] > 0 \/ (Blocking(b) /\ ~Blocking(a))
  BY DEF OvertakeInv
<1>1. FlowMove(e) /\ FlowSound(e) /\ sent[e] \in Seq(Req)
  BY FlowMoves, FlowTypes DEF FlowInv
<1>2. ASSUME <<a, b>> \in InSent(e), dispatched[b] > 0
      PROVE  dispatched'[a] > 0 \/ (Blocking(b) /\ ~Blocking(a))
  BY <1>2, DispatchedGrows DEF OvertakeInv
<1>3. CASE FlowSend(e)
  <2>1. PICK r \in Req :
          /\ From(r) = e /\ outcome[r] = "idle"
          /\ sent'[e] = Append(sent[e], r) /\ UNCHANGED dispatched
    BY <1>3 DEF FlowSend
  <2>2. r \notin ToSet(sent[e])
    BY <1>1, <2>1 DEF FlowSound
  <2>3. b # r
    BY <2>1, <2>2 DEF ReadInv
  <2>4. Precedes(sent'[e], a, b)
    BY DEF InSent
  <2>5. Precedes(sent[e], a, b)
    BY <1>1, <2>1, <2>3, <2>4, PrecedesAppend
  <2> QED
    BY <1>2, <2>1, <2>5 DEF InSent
<1>4. CASE FlowWrite(e)
  BY <1>2, <1>4 DEF FlowWrite, InSent
<1>5. CASE FlowQuiet(e)
  <2>1. <<a, b>> \in InSent(e)
    BY <1>5 DEF FlowQuiet, InSent
  <2>2. From(b) = e
    BY <1>1, <2>1, SentOnce DEF FlowSound
  <2> QED
    BY <1>2, <1>5, <2>1, <2>2 DEF FlowQuiet
<1>6. CASE FlowRead(e)
  <2>1. <<a, b>> \in InSent(e)
    BY <1>6 DEF FlowRead, InSent
  <2>2. PICK i : Reads(e, i)
    BY <1>6 DEF FlowRead
  <2>3. dispatched' = [dispatched EXCEPT ![requests[e][i]] = @ + 1]
    BY <2>2, ReadsEffect
  <2>4. CASE requests[e][i] # b
    BY <1>2, <2>1, <2>3, <2>4 DEF TypeOK
  <2>5. CASE requests[e][i] = b
    <3>1. dispatched[a] > 0 \/ (Blocking(b) /\ ~Blocking(a))
      BY <1>1, <2>1, <2>2, <2>5, ReadInTurn
    <3> QED
      BY <3>1, DispatchedGrows
  <2> QED
    BY <2>4, <2>5
<1> QED
  BY <1>1, <1>3, <1>4, <1>5, <1>6 DEF FlowMove
-----------------------------------------------------------------------------
(* How responses travel                                                    *)

\* The request r of e gets a response.
Answers(e, r) ==
    /\ From(r) = e /\ ~Cut(e)
    /\ \/ /\ \E i : Reads(e, i) /\ requests[e][i] = r
          /\ r.method = "kMMPullReq" \/ Blocking(r)
       \/ /\ RunTask(Peer(e)) /\ queue[Peer(e)] # <<>>
          /\ Head(queue[Peer(e)]) = [op |-> "PullResp", req |-> r]
    /\ UNCHANGED <<waiting, answered, held>>

ResponseMove(e) ==
    \/ responses'[e] = responses[e]
    \/ \E r \in Req, b \in BOOLEAN :
          /\ Answers(e, r)
          /\ responses'[e] = Append(responses[e], [req |-> r, success |-> b])
    \/ \E i \in 1..Len(responses[e]) :
          /\ SyncResponse(e) /\ responses[e][i].req = waiting[e]
          /\ responses'[e] = RemoveAt(responses[e], i)
    \/ /\ ReadResponse(e) /\ responses[e] # <<>> /\ responses'[e] = Tail(responses[e])
    \/ /\ RemoveRemoteAndReceiverStream(e) \/ Crash(e[1])
       /\ responses'[e] = <<>>
    \/ /\ LoseResponse(e) /\ responses[e] # <<>>
       /\ responses'[e] = SubSeq(responses[e], 1, Len(responses[e]) - 1)

\* Every step is one of these for every end: first those that answer ...
LEMMA AnswerMoves ==
    ASSUME TypeOK, AnswerInv, CreateInv, FlowInv, CallbackInv, [Next]_vars, NEW d \in End,
           \/ \E b \in BOOLEAN : AnswerPull(d, b) \/ ReadPull(d, b)
           \/ \E m \in Method : Acknowledge(d, m)
    PROVE  \A e \in End : ResponseMove(e)
<1> USE DEF threadVars, wireVars, endVars, callVars, histVars
<1>p. Peer(d) \in End /\ Peer(Peer(d)) = d
  BY PeerEnd
<1>0. ASSUME UNCHANGED responses
      PROVE  \A e \in End : ResponseMove(e)
  BY <1>0 DEF ResponseMove
<1>1. ASSUME NEW r \in Req, NEW b \in BOOLEAN, Respond(d, r, b),
             impl[Peer(d)] = "bound" /\ recv[d] = "open" => Answers(Peer(d), r)
      PROVE  \A e \in End : ResponseMove(e)
  <2>1. CASE impl[Peer(d)] = "bound" /\ recv[d] = "open"
    <3>1. /\ responses'[Peer(d)] = Append(responses[Peer(d)], [req |-> r, success |-> b])
          /\ \A e \in End : e # Peer(d) => responses'[e] = responses[e]
      BY <1>1, <1>p, <2>1 DEF Respond, TypeOK
    <3> QED
      BY <1>1, <2>1, <3>1 DEF ResponseMove
  <2>2. CASE ~(impl[Peer(d)] = "bound" /\ recv[d] = "open")
    BY <1>0, <1>1, <2>2 DEF Respond
  <2> QED
    BY <2>1, <2>2
<1>2. impl[Peer(d)] = "bound" /\ recv[d] = "open" => ~Cut(Peer(d))
  BY <1>p DEF Cut
<1>3. ASSUME NEW i, Reads(Peer(d), i)
      PROVE  /\ From(requests[Peer(d)][i]) = Peer(d) /\ requests[Peer(d)][i] \in Req
             /\ UNCHANGED <<waiting, answered>>
  <2>1. /\ requests[Peer(d)] \in Seq(Req) /\ i \in 1..Len(requests[Peer(d)])
        /\ UNCHANGED <<waiting, answered>>
    BY <1>3, <1>p, ReadsEffect
  <2>2. requests[Peer(d)][i] \in ToSet(requests[Peer(d)]) /\ requests[Peer(d)][i] \in Req
    BY <2>1, ElementIndex
  <2> QED
    BY <1>p, <2>1, <2>2 DEF FlowInv, FlowSound
<1>4. ASSUME NEW m \in Method, Acknowledge(d, m)
      PROVE  \A e \in End : ResponseMove(e)
  <2>1. PICK i \in Deliverable(d) :
          /\ Dispatch(d, i, m, TRUE)
          /\ Respond(d, requests[Peer(d)][i], HasReader(requests[Peer(d)][i]))
          /\ UNCHANGED held
    BY <1>4 DEF Acknowledge
  <2> DEFINE r == requests[Peer(d)][i]
  <2>2. Reads(Peer(d), i)
    BY <1>p, <2>1 DEF Reads
  <2>3. From(r) = Peer(d) /\ r \in Req /\ UNCHANGED <<waiting, answered>>
    BY <1>3, <2>2
  <2>4. r.method = "kMMPullReq" \/ Blocking(r)
    BY <2>1 DEF Dispatch, Blocking
  <2>5. HasReader(r) \in BOOLEAN
    BY DEF HasReader
  <2>6. ~Cut(Peer(d)) => Answers(Peer(d), r)
    BY <2>1, <2>2, <2>3, <2>4 DEF Answers
  <2> QED
    BY <1>1, <1>2, <2>1, <2>3, <2>5, <2>6
<1>5. ASSUME NEW s \in BOOLEAN, ReadPull(d, s)
      PROVE  \A e \in End : ResponseMove(e)
  <2>1. PICK i \in Deliverable(d) :
          /\ Dispatch(d, i, "kMMPullReq", s)
          /\ LET r == requests[Peer(d)][i]
             IN  \/ HasReader(r) /\ held' = held \cup {r} /\ UNCHANGED responses
                 \/ ~HasReader(r) /\ Respond(d, r, FALSE) /\ UNCHANGED held
    BY <1>5 DEF ReadPull
  <2> DEFINE r == requests[Peer(d)][i]
  <2>2. Reads(Peer(d), i)
    BY <1>p, <2>1 DEF Reads, Method
  <2>3. From(r) = Peer(d) /\ r \in Req /\ UNCHANGED <<waiting, answered>>
    BY <1>3, <2>2
  <2>4. r.method = "kMMPullReq"
    BY <2>1 DEF Dispatch
  <2>5. ASSUME UNCHANGED held
        PROVE  ~Cut(Peer(d)) => Answers(Peer(d), r)
    BY <2>2, <2>3, <2>4, <2>5 DEF Answers
  <2>6. UNCHANGED responses \/ (Respond(d, r, FALSE) /\ UNCHANGED held)
    BY <2>1
  <2> HIDE DEF r
  <2> QED
    BY <1>0, <1>1, <1>2, <2>3, <2>5, <2>6
<1>6. ASSUME NEW s \in BOOLEAN, AnswerPull(d, s)
      PROVE  \A e \in End : ResponseMove(e)
  <2>1. RunTask(d)
    BY <1>6, RunsOne
  <2>2. /\ queue[d] # <<>> /\ Head(queue[d]) \in ToSet(queue[d]) /\ Head(queue[d]) \in Task
        /\ Head(queue[d]).op = "PullResp" /\ Head(queue[d]).req \in Req
    BY <1>6, RunEffect DEF AnswerPull
  <2> DEFINE r == Head(queue[d]).req
  <2>3. Head(queue[d]) = [op |-> "PullResp", req |-> r]
    BY <2>2 DEF Task
  <2>4. From(r) = Peer(d)
    <3>1. Queued(d, "PullResp", r)
      BY <2>2, <2>3 DEF Queued
    <3>2. d = To(r)
      BY <2>2, <3>1 DEF CallbackInv, CallbackSound
    <3> QED
      BY <2>2, <3>2, RequestEnds, PeerEnd DEF To
  <2>5. UNCHANGED <<waiting, answered, held>> /\ (Respond(d, r, TRUE) \/ UNCHANGED responses)
    BY <1>6 DEF AnswerPull
  <2>6. ~Cut(Peer(d)) => Answers(Peer(d), r)
    BY <1>p, <2>1, <2>2, <2>3, <2>4, <2>5 DEF Answers
  <2> HIDE DEF r
  <2> QED
    BY <1>0, <1>1, <1>2, <2>2, <2>5, <2>6 DEF r
<1> QED
  BY <1>4, <1>5, <1>6

\* ... then all of them.
LEMMA ResponseMoves ==
    ASSUME TypeOK, AnswerInv, CreateInv, FlowInv, CallbackInv, [Next]_vars
    PROVE  \A e \in End : ResponseMove(e)
<1> USE DEF threadVars, wireVars, endVars, callVars, histVars
<1>0. ASSUME UNCHANGED responses
      PROVE  \A e \in End : ResponseMove(e)
  BY <1>0 DEF ResponseMove
<1>1. ASSUME NEW r \in Req,
             \/ SendMMMojoWriteInfo(r) \/ SendPullResp(r)
             \/ RemoveMMMojoReadInfo(r) \/ RemoveMMMojoReadInfoInCallback(r)
      PROVE  UNCHANGED responses
  BY <1>1 DEF SendMMMojoWriteInfo, SendPullResp, RemoveMMMojoReadInfo,
         RemoveMMMojoReadInfoInCallback
<1>2. ASSUME NEW d \in End,
             \/ StopStream(d) \/ CreateRemoteAndReceiverStream(d) \/ RaiseError(d)
             \/ PullReqWithCallback(d) \/ SyncDisconnect(d) \/ OnMojoDisconnect(d)
             \/ LoseRequest(d)
      PROVE  UNCHANGED responses
  BY <1>2 DEF StopStream, CreateRemoteAndReceiverStream, RaiseError,
         PullReqWithCallback, SyncDisconnect, OnMojoDisconnect, LoseRequest
<1>3. ASSUME NEW d \in End, NEW m \in Method,
             AsyncWrite(d, m) \/ SyncWrite(d, m) \/ OneWay(d, m)
      PROVE  UNCHANGED responses
  BY <1>3 DEF AsyncWrite, SyncWrite, OneWay
<1>4. ASSUME NEW d \in End, RemoveRemoteAndReceiverStream(d)
      PROVE  \A e \in End : ResponseMove(e)
  BY <1>4 DEF RemoveRemoteAndReceiverStream, ResponseMove, TypeOK
<1>5. ASSUME NEW p \in Side, Crash(p)
      PROVE  \A e \in End : ResponseMove(e)
  <2>1. \A e \in End : responses'[e] = responses[e] \/ (e[1] = p /\ responses'[e] = <<>>)
    BY <1>5 DEF Crash, End
  <2> QED
    BY <1>5, <2>1 DEF ResponseMove
<1>6. ASSUME NEW d \in End, LoseResponse(d)
      PROVE  \A e \in End : ResponseMove(e)
  <2>1. /\ responses[d] # <<>>
        /\ responses' = [responses EXCEPT ![d] = SubSeq(@, 1, Len(@) - 1)]
    BY <1>6 DEF LoseResponse
  <2> QED
    BY <1>6, <2>1 DEF ResponseMove, TypeOK
<1>7. ASSUME NEW d \in End, ReadResponse(d)
      PROVE  \A e \in End : ResponseMove(e)
  <2>1. responses[d] # <<>> /\ responses' = [responses EXCEPT ![d] = Tail(@)]
    BY <1>7 DEF ReadResponse, OnPushReqMMMojoReadInfo, OnPushReqMMMojoReadInfoSync, TakeResponse
  <2> QED
    BY <1>7, <2>1 DEF ResponseMove, TypeOK
<1>8. ASSUME NEW d \in End, SyncResponse(d)
      PROVE  \A e \in End : ResponseMove(e)
  <2>1. PICK i \in DOMAIN responses[d] :
          /\ responses[d][i].req = waiting[d]
          /\ responses' = [responses EXCEPT ![d] = RemoveAt(@, i)]
    BY <1>8 DEF SyncResponse
  <2>2. i \in 1..Len(responses[d])
    BY <2>1, ElementIndex DEF TypeOK
  <2> QED
    BY <1>8, <2>1, <2>2 DEF ResponseMove, TypeOK
<1>9. CASE UNCHANGED vars
  BY <1>0, <1>9 DEF vars
<1> QED
  BY <1>0, <1>1, <1>2, <1>3, <1>4, <1>5, <1>6, <1>7, <1>8, <1>9, AnswerMoves, NextCases

\* What an application holds is what it read and has not given back.
HeldMove ==
    \/ held' \subseteq held
    \/ \E e \in End : \E i :
          /\ Reads(e, i) /\ requests[e][i].method = "kMMPullReq"
          /\ held' = held \cup {requests[e][i]}
          /\ UNCHANGED responses

\* Every step is one of these.
LEMMA HeldMoves ==
    ASSUME TypeOK, [Next]_vars
    PROVE  HeldMove
<1> USE DEF threadVars, wireVars, endVars, callVars, histVars
<1>0. ASSUME UNCHANGED held
      PROVE  HeldMove
  BY <1>0 DEF HeldMove
<1>1. ASSUME NEW r \in Req,
             \/ SendMMMojoWriteInfo(r) \/ SendPullResp(r)
             \/ RemoveMMMojoReadInfo(r) \/ RemoveMMMojoReadInfoInCallback(r)
      PROVE  HeldMove
  BY <1>1 DEF SendMMMojoWriteInfo, SendPullResp, RemoveMMMojoReadInfo,
         RemoveMMMojoReadInfoInCallback, HeldMove
<1>2. ASSUME NEW d \in End,
             \/ StopStream(d) \/ CreateRemoteAndReceiverStream(d)
             \/ RemoveRemoteAndReceiverStream(d) \/ RaiseError(d)
             \/ PullReqWithCallback(d) \/ SyncResponse(d) \/ SyncDisconnect(d)
             \/ ReadResponse(d) \/ OnMojoDisconnect(d)
             \/ LoseRequest(d) \/ LoseResponse(d)
      PROVE  UNCHANGED held
  BY <1>2 DEF StopStream, CreateRemoteAndReceiverStream, SyncResponse, SyncDisconnect,
         RemoveRemoteAndReceiverStream, RaiseError, PullReqWithCallback,
         ReadResponse, OnPushReqMMMojoReadInfo, OnPushReqMMMojoReadInfoSync,
         TakeResponse, OnMojoDisconnect, LoseRequest, LoseResponse
<1>3. ASSUME NEW d \in End, NEW m \in Method,
             AsyncWrite(d, m) \/ SyncWrite(d, m) \/ OneWay(d, m) \/ Acknowledge(d, m)
      PROVE  UNCHANGED held
  BY <1>3 DEF AsyncWrite, SyncWrite, OneWay, Acknowledge
<1>4. ASSUME NEW d \in End, NEW b \in BOOLEAN, AnswerPull(d, b)
      PROVE  UNCHANGED held
  BY <1>4 DEF AnswerPull
<1>5. ASSUME NEW d \in End, NEW b \in BOOLEAN, ReadPull(d, b)
      PROVE  HeldMove
  <2>1. PICK i \in Deliverable(d) :
          /\ Dispatch(d, i, "kMMPullReq", b)
          /\ \/ held' = held \cup {requests[Peer(d)][i]} /\ UNCHANGED responses
             \/ UNCHANGED held
    BY <1>5 DEF ReadPull
  <2>2. Peer(d) \in End /\ Peer(Peer(d)) = d
    BY PeerEnd
  <2>3. Reads(Peer(d), i)
    BY <2>1, <2>2 DEF Reads, Method
  <2>4. requests[Peer(d)][i].method = "kMMPullReq"
    BY <2>1 DEF Dispatch
  <2> QED
    BY <2>1, <2>2, <2>3, <2>4 DEF HeldMove
<1>6. ASSUME NEW p \in Side, Crash(p)
      PROVE  HeldMove
  BY <1>6 DEF Crash, HeldMove
<1>7. CASE UNCHANGED vars
  BY <1>0, <1>7 DEF vars
<1> QED
  BY <1>0, <1>1, <1>2, <1>3, <1>4, <1>5, <1>6, <1>7, NextCases

\* A sender's callback gets the first response on the pipe.
AnsweredMove ==
    \/ UNCHANGED answered
    \/ \E e \in End :
          /\ ReadResponse(e) /\ responses[e] # <<>> /\ responses'[e] = Tail(responses[e])
          /\ \A d \in End : d # e => responses'[d] = responses[d]
          /\ UNCHANGED <<queue, held, waiting, dispatched>>
          /\ answered' = [answered EXCEPT ![Head(responses[e]).req] = @ + 1]

\* Every step is one of these.
LEMMA AnsweredMoves ==
    ASSUME TypeOK, [Next]_vars
    PROVE  AnsweredMove
<1> USE DEF threadVars, wireVars, endVars, callVars, histVars
<1>0. ASSUME UNCHANGED answered
      PROVE  AnsweredMove
  BY <1>0 DEF AnsweredMove
<1>1. ASSUME NEW r \in Req,
             \/ SendMMMojoWriteInfo(r) \/ SendPullResp(r)
             \/ RemoveMMMojoReadInfo(r) \/ RemoveMMMojoReadInfoInCallback(r)
      PROVE  UNCHANGED answered
  BY <1>1 DEF SendMMMojoWriteInfo, SendPullResp, RemoveMMMojoReadInfo,
         RemoveMMMojoReadInfoInCallback
<1>2. ASSUME NEW d \in End,
             \/ StopStream(d) \/ CreateRemoteAndReceiverStream(d)
             \/ RemoveRemoteAndReceiverStream(d) \/ RaiseError(d)
             \/ PullReqWithCallback(d) \/ SyncResponse(d) \/ SyncDisconnect(d)
             \/ OnMojoDisconnect(d) \/ LoseRequest(d) \/ LoseResponse(d)
      PROVE  UNCHANGED answered
  BY <1>2 DEF StopStream, CreateRemoteAndReceiverStream, SyncResponse, SyncDisconnect,
         RemoveRemoteAndReceiverStream, RaiseError, PullReqWithCallback,
         OnMojoDisconnect, LoseRequest, LoseResponse
<1>3. ASSUME NEW d \in End, NEW m \in Method,
             AsyncWrite(d, m) \/ SyncWrite(d, m) \/ OneWay(d, m) \/ Acknowledge(d, m)
      PROVE  UNCHANGED answered
  BY <1>3 DEF AsyncWrite, SyncWrite, OneWay, Acknowledge, Dispatch
<1>4. ASSUME NEW d \in End, NEW b \in BOOLEAN, AnswerPull(d, b) \/ ReadPull(d, b)
      PROVE  UNCHANGED answered
  BY <1>4 DEF AnswerPull, ReadPull, Dispatch
<1>5. ASSUME NEW d \in End, ReadResponse(d)
      PROVE  AnsweredMove
  <2>1. /\ responses[d] # <<>> /\ responses' = [responses EXCEPT ![d] = Tail(@)]
        /\ UNCHANGED <<queue, held, waiting, dispatched>>
        /\ \/ UNCHANGED answered
           \/ answered' = [answered EXCEPT ![Head(responses[d]).req] = @ + 1]
    BY <1>5 DEF ReadResponse, OnPushReqMMMojoReadInfo, OnPushReqMMMojoReadInfoSync,
       TakeResponse, CallReader
  <2> QED
    BY <1>5, <2>1 DEF AnsweredMove, TypeOK
<1>6. ASSUME NEW p \in Side, Crash(p)
      PROVE  UNCHANGED answered
  BY <1>6 DEF Crash
<1>7. CASE UNCHANGED vars
  BY <1>0, <1>7 DEF vars
<1> QED
  BY <1>0, <1>1, <1>2, <1>3, <1>4, <1>5, <1>6, <1>7, NextCases
-----------------------------------------------------------------------------
(* CallbackInv                                                             *)

\* What is on the pipe of responses.
LEMMA ResponseTypes ==
    ASSUME TypeOK, NEW e \in End
    PROVE  /\ responses[e] \in Seq(Response) /\ ToSet(responses[e]) \subseteq Response
           /\ DOMAIN responses[e] = 1..Len(responses[e])
           /\ \A i \in 1..Len(responses[e]) : responses[e][i] \in ToSet(responses[e])
<1>1. responses[e] \in Seq(Response)
  BY DEF TypeOK, Response
<1> QED
  BY <1>1, ElementIndex

\* A callback that runs takes its response, the only one, off the pipe.
LEMMA AnsweredOnce ==
    ASSUME TypeOK, AnswerInv, CallbackInv, [Next]_vars, NEW r \in Req,
           answered'[r] # answered[r]
    PROVE  /\ Responded(r) /\ ~Responded(r)' /\ From(r) \in End
           /\ answered'[r] = 1 /\ dispatched[r] > 0
           /\ UNCHANGED <<queue, held, dispatched>>
<1>1. PICK e \in End :
        /\ responses[e] # <<>> /\ responses'[e] = Tail(responses[e])
        /\ UNCHANGED <<queue, held, dispatched>>
        /\ answered' = [answered EXCEPT ![Head(responses[e]).req] = @ + 1]
  BY AnsweredMoves DEF AnsweredMove
<1>2. /\ responses[e] \in Seq(Response) /\ ToSet(responses[e]) \subseteq Response
      /\ Ordered(responses[e], DistinctRequests)
  BY ResponseTypes DEF CallbackInv, ResponsesSound
<1>3. Head(responses[e]) \in ToSet(responses[e])
  BY <1>1, <1>2, TailElements
<1>4. \A y \in ToSet(responses'[e]) : <<Head(responses[e]), y>> \in DistinctRequests
  BY <1>1, <1>2, OrderedTail
<1>5. r = Head(responses[e]).req /\ answered'[r] = answered[r] + 1
  BY <1>1 DEF TypeOK
<1>6. From(r) = e /\ answered[r] = 0 /\ dispatched[r] > 0
  BY <1>3, <1>5 DEF CallbackInv, ResponsesSound, AnswerInv, ResponseTrue
<1>7. Responded(r)
  BY <1>3, <1>5, <1>6 DEF Responded
<1>8. ~Responded(r)'
  BY <1>4, <1>5, <1>6 DEF Responded, DistinctRequests
<1> QED
  BY <1>1, <1>5, <1>6, <1>7, <1>8

\* A response that appears is the answer to its request.
LEMMA RespondedOnce ==
    ASSUME TypeOK, AnswerInv, CreateInv, FlowInv, CallbackInv, [Next]_vars,
           NEW r \in Req, ~Responded(r), Responded(r)'
    PROVE  Answers(From(r), r)
<1> DEFINE e == From(r)
<1>1. e \in End /\ ResponseMove(e)
  BY RequestEnds, ResponseMoves
<1>2. responses[e] \in Seq(Response)
  BY <1>1, ResponseTypes
<1>3. PICK m \in ToSet(responses'[e]) : m.req = r
  BY DEF Responded
<1>4. m \notin ToSet(responses[e])
  BY <1>3 DEF Responded
<1> HIDE DEF e
<1>5. ASSUME NEW q \in Req, NEW b \in BOOLEAN, Answers(e, q),
             responses'[e] = Append(responses[e], [req |-> q, success |-> b])
      PROVE  q = r
  <2>1. [req |-> q, success |-> b] \in Response
    BY DEF Response
  <2>2. ToSet(responses'[e]) = ToSet(responses[e]) \cup {[req |-> q, success |-> b]}
    BY <1>2, <1>5, <2>1, AppendElements
  <2>3. m = [req |-> q, success |-> b]
    BY <1>3, <1>4, <2>2
  <2> QED
    BY <1>3, <2>3
<1>6. ASSUME NEW i \in 1..Len(responses[e]), responses'[e] = RemoveAt(responses[e], i)
      PROVE  FALSE
  <2>1. ToSet(RemoveAt(responses[e], i)) \subseteq ToSet(responses[e])
    BY <1>2, RemoveAtElements
  <2> QED
    BY <1>3, <1>4, <1>6, <2>1
<1>7. ASSUME responses[e] # <<>>, responses'[e] = Tail(responses[e])
      PROVE  FALSE
  <2>1. ToSet(Tail(responses[e])) \subseteq ToSet(responses[e])
    BY <1>2, <1>7, TailElements
  <2> QED
    BY <1>3, <1>4, <1>7, <2>1
<1>8. ASSUME responses'[e] = <<>>
      PROVE  FALSE
  BY <1>3, <1>8, EmptyElements
<1>9. ASSUME responses[e] # <<>>,
             responses'[e] = SubSeq(responses[e], 1, Len(responses[e]) - 1)
      PROVE  FALSE
  <2>1. ToSet(SubSeq(responses[e], 1, Len(responses[e]) - 1)) \subseteq ToSet(responses[e])
    BY <1>2, <1>9, FrontElements
  <2> QED
    BY <1>3, <1>4, <1>9, <2>1
<1>10. responses'[e] # responses[e]
  BY <1>3, <1>4
<1>11. \E q \in Req, b \in BOOLEAN :
          /\ Answers(e, q)
          /\ responses'[e] = Append(responses[e], [req |-> q, success |-> b])
  BY <1>1, <1>6, <1>7, <1>8, <1>9, <1>10 DEF ResponseMove
<1>12. Answers(e, r)
  BY <1>5, <1>11
<1> QED
  BY <1>12 DEF e

\* A task that appears in a queue was posted ...
LEMMA TaskPosted ==
    ASSUME TypeOK, [Next]_vars, NEW e \in End, NEW op, NEW r,
           Queued(e, op, r)', ~Queued(e, op, r)
    PROVE  Posted(e, [op |-> op, req |-> r])
<1> DEFINE x == [op |-> op, req |-> r]
<1>1. x \in ToSet(queue'[e]) /\ x \notin ToSet(queue[e]) /\ QueueMove(e)
  BY QueueMoves DEF Queued
<1>2. ToSet(<<>>) = {}
  BY EmptyElements
<1> HIDE DEF x
<1>3. Posted(e, x)
  BY <1>1, <1>2 DEF QueueMove
<1> QED
  BY <1>3 DEF x

\* ... and one that runs is gone: no task is in a queue twice.
LEMMA TaskGone ==
    ASSUME TypeOK, CallbackInv, NEW e \in End, RunTask(e)
    PROVE  Head(queue[e]) \notin ToSet(queue'[e])
<1>1. queue[e] \in Seq(Task) /\ queue[e] # <<>> /\ queue'[e] = Tail(queue[e])
  BY RunsWhich, RunEffect
<1>2. Ordered(queue[e], Distinct(Task))
  BY DEF CallbackInv
<1>3. \A y \in ToSet(Tail(queue[e])) : <<Head(queue[e]), y>> \in Distinct(Task)
  BY <1>1, <1>2, OrderedTail
<1> QED
  BY <1>1, <1>3 DEF Distinct

\* The callback of a pull is at one place at a time.
LEMMA CallbackStep ==
    ASSUME TypeOK, AnswerInv, CreateInv, FlowInv, CallbackInv, [Next]_vars, NEW r \in Req
    PROVE  CallbackSound(r)'
<1> USE DEF threadVars, wireVars, endVars, callVars, histVars
<1>1. CallbackSound(r) /\ From(r) \in End /\ To(r) \in End /\ Peer(From(r)) = To(r)
  BY RequestEnds DEF CallbackInv, To
<1>2. /\ dispatched[r] \in Nat /\ answered[r] \in Nat /\ dispatched'[r] >= dispatched[r]
      /\ dispatched[r] > 0 => dispatched'[r] > 0
      /\ dispatched'[r] \in Nat
  BY DispatchedGrows, StepType DEF TypeOK
<1>3. answered'[r] # answered[r] =>
          /\ Responded(r) /\ ~Responded(r)' /\ answered'[r] = 1 /\ dispatched[r] > 0
          /\ UNCHANGED <<queue, held, dispatched>>
  BY AnsweredOnce
<1>4. ~Responded(r) /\ Responded(r)' => Answers(From(r), r)
  BY RespondedOnce
<1>5. Responded(r) => dispatched[r] > 0
  BY <1>1 DEF Responded, AnswerInv, ResponseTrue
<1>6. ASSUME Answers(From(r), r)
      PROVE  \/ dispatched[r] = 0
             \/ Queued(To(r), "PullResp", r) /\ ~Queued(To(r), "PullResp", r)'
  <2>1. CASE \E i : Reads(From(r), i) /\ requests[From(r)][i] = r
    <3>1. PICK i : Reads(From(r), i) /\ requests[From(r)][i] = r
      BY <2>1
    <3>2. requests[From(r)] \in Seq(Req) /\ i \in 1..Len(requests[From(r)])
      BY <1>1, <3>1, ReadsEffect
    <3>3. r \in ToSet(requests[From(r)])
      BY <3>1, <3>2, ElementIndex
    <3> QED
      BY <1>1, <3>3 DEF FlowInv, FlowSound
  <2>2. CASE /\ RunTask(To(r)) /\ queue[To(r)] # <<>>
             /\ Head(queue[To(r)]) = [op |-> "PullResp", req |-> r]
    <3>1. Head(queue[To(r)]) \in ToSet(queue[To(r)]) /\ Head(queue[To(r)]) \notin ToSet(queue'[To(r)])
      BY <1>1, <2>2, RunsWhich, RunEffect, TaskGone
    <3> QED
      BY <2>2, <3>1 DEF Queued
  <2> QED
    BY <1>1, <1>6, <2>1, <2>2 DEF Answers
<1>7. answered'[r] <= dispatched'[r]
  BY <1>1, <1>2, <1>3 DEF CallbackSound
<1>8. ASSUME NEW e \in End, Queued(e, "PullResp", r)' \/ Queued(e, "RaiseError", r)'
      PROVE  e = To(r) /\ r.method = "kMMPullReq" /\ dispatched'[r] > 0
  <2>1. CASE Queued(e, "PullResp", r) \/ Queued(e, "RaiseError", r)
    BY <1>1, <1>2, <2>1 DEF CallbackSound
  <2>2. CASE ~Queued(e, "PullResp", r) /\ ~Queued(e, "RaiseError", r)
    <3>1. Posted(e, [op |-> "PullResp", req |-> r]) \/ Posted(e, [op |-> "RaiseError", req |-> r])
      BY <1>8, <2>2, TaskPosted
    <3>2. (SendPullResp(r) \/ RemoveMMMojoReadInfo(r)) /\ e = To(r)
      BY <3>1 DEF Posted
    <3>3. r \in held
      BY <3>2 DEF SendPullResp, RemoveMMMojoReadInfo
    <3> QED
      BY <1>1, <1>2, <3>2, <3>3 DEF CallbackSound, AnswerInv, Read
  <2> QED
    BY <2>1, <2>2
<1>9. ASSUME Queued(To(r), "PullResp", r)'
      PROVE  answered'[r] = 0 /\ ~Responded(r)'
  <2>1. CASE Queued(To(r), "PullResp", r)
    <3>1. answered[r] = 0 /\ ~Responded(r) /\ dispatched[r] > 0
      BY <1>1, <2>1 DEF CallbackSound
    <3> QED
      BY <1>3, <1>4, <1>6, <1>9, <3>1
  <2>2. CASE ~Queued(To(r), "PullResp", r)
    <3>1. SendPullResp(r)
      <4>1. Posted(To(r), [op |-> "PullResp", req |-> r])
        BY <1>1, <1>9, <2>2, TaskPosted
      <4> QED
        BY <4>1 DEF Posted
    <3>2. r \in held /\ UNCHANGED <<responses, answered>>
      BY <3>1 DEF SendPullResp
    <3> QED
      BY <1>1, <3>2 DEF CallbackSound, Responded
  <2> QED
    BY <2>1, <2>2
<1>10. ASSUME r \in held'
       PROVE  /\ r.method = "kMMPullReq" /\ answered'[r] = 0 /\ ~Responded(r)'
              /\ ~Queued(To(r), "PullResp", r)' /\ ~Queued(To(r), "RaiseError", r)'
  <2>1. CASE r \in held
    <3>1. /\ r.method = "kMMPullReq" /\ answered[r] = 0 /\ ~Responded(r) /\ dispatched[r] > 0
          /\ ~Queued(To(r), "PullResp", r) /\ ~Queued(To(r), "RaiseError", r)
      BY <1>1, <2>1 DEF CallbackSound, AnswerInv, Read
    <3>2. answered'[r] = 0 /\ ~Responded(r)'
      BY <1>3, <1>4, <1>6, <3>1
    <3>3. ~SendPullResp(r) /\ ~RemoveMMMojoReadInfo(r)
      BY <1>10 DEF SendPullResp, RemoveMMMojoReadInfo
    <3>4. /\ ~Posted(To(r), [op |-> "PullResp", req |-> r])
          /\ ~Posted(To(r), [op |-> "RaiseError", req |-> r])
      BY <3>3 DEF Posted
    <3>5. ~Queued(To(r), "PullResp", r)' /\ ~Queued(To(r), "RaiseError", r)'
      BY <1>1, <3>1, <3>4, TaskPosted
    <3> QED
      BY <3>1, <3>2, <3>5
  <2>2. CASE r \notin held
    <3>1. PICK e \in End : \E i : /\ Reads(e, i) /\ requests[e][i].method = "kMMPullReq"
                                 /\ held' = held \cup {requests[e][i]}
                                 /\ UNCHANGED responses
      BY <1>10, <2>2, HeldMoves DEF HeldMove
    <3>2. PICK i : /\ Reads(e, i) /\ requests[e][i].method = "kMMPullReq"
                   /\ held' = held \cup {requests[e][i]}
                   /\ UNCHANGED responses
      BY <3>1
    <3>3. /\ requests[e] \in Seq(Req) /\ i \in 1..Len(requests[e])
          /\ UNCHANGED <<queue, answered>>
      <4>1. Reads(e, i)
        BY <3>2
      <4> QED
        BY <4>1, ReadsEffect
    <3>4. r = requests[e][i] /\ r \in ToSet(requests[e])
      BY <1>10, <2>2, <3>2, <3>3, ElementIndex
    <3>5. dispatched[r] = 0
      BY <3>4 DEF FlowInv, FlowSound
    <3>6. answered[r] = 0 /\ ~Responded(r)
      BY <1>1, <1>2, <1>5, <3>5 DEF CallbackSound
    <3>7. ~Queued(To(r), "PullResp", r) /\ ~Queued(To(r), "RaiseError", r)
      BY <1>1, <3>5 DEF CallbackSound
    <3> QED
      BY <3>2, <3>3, <3>4, <3>6, <3>7 DEF Responded, Queued
  <2> QED
    BY <2>1, <2>2
<1> QED
  BY <1>7, <1>8, <1>9, <1>10 DEF CallbackSound

\* A request gets a response when it has none, and its sender still waits for it.
LEMMA AnswersRightly ==
    ASSUME TypeOK, CreateInv, FlowInv, CallbackInv, WaitInv, NEW e \in End, NEW r \in Req,
           AnswerInv, Answers(e, r)
    PROVE  /\ answered[r] = 0 /\ ~Responded(r) /\ From(r) = e
           /\ r.method = "kMMPullReq" \/ Blocking(r)
           /\ Blocking(r) => waiting[e] = r
<1>1. From(r) = e /\ ~Cut(e) /\ To(r) = Peer(e)
  BY DEF Answers, To
<1>2. CallbackSound(r) /\ dispatched[r] \in Nat /\ answered[r] \in Nat
  BY DEF CallbackInv, TypeOK
<1>3. Responded(r) => dispatched[r] > 0
  BY <1>1 DEF Responded, AnswerInv, ResponseTrue
<1>4. ASSUME Open(r)
      PROVE  Blocking(r) => waiting[e] = r
  BY <1>1, <1>4 DEF WaitInv, CallSound
<1>5. CASE /\ \E i : Reads(e, i) /\ requests[e][i] = r
           /\ r.method = "kMMPullReq" \/ Blocking(r)
  <2>1. PICK i : Reads(e, i) /\ requests[e][i] = r
    BY <1>5
  <2>2. requests[e] \in Seq(Req) /\ i \in 1..Len(requests[e])
    BY <2>1, ReadsEffect
  <2>3. r \in ToSet(requests[e])
    BY <2>1, <2>2, ElementIndex
  <2>4. dispatched[r] = 0 /\ Open(r)
    BY <1>1, <2>3 DEF FlowInv, FlowSound, Open
  <2> QED
    BY <1>1, <1>2, <1>3, <1>4, <1>5, <2>4 DEF CallbackSound
<1>6. CASE /\ RunTask(Peer(e)) /\ queue[Peer(e)] # <<>>
           /\ Head(queue[Peer(e)]) = [op |-> "PullResp", req |-> r]
  <2>1. Head(queue[Peer(e)]) \in ToSet(queue[Peer(e)])
    BY <1>6, RunsWhich, RunEffect, PeerEnd
  <2>2. Queued(To(r), "PullResp", r) /\ Open(r)
    BY <1>1, <1>6, <2>1 DEF Queued, Open
  <2> QED
    BY <1>1, <1>2, <1>4, <2>2, PeerEnd DEF CallbackSound
<1> QED
  BY <1>5, <1>6 DEF Answers

\* The responses of an end stay what they should be.
LEMMA ResponsesStep ==
    ASSUME TypeOK, AnswerInv, CreateInv, FlowInv, CallbackInv, WaitInv, [Next]_vars,
           NEW e \in End
    PROVE  ResponsesSound(e)'
<1> USE DEF threadVars, wireVars, endVars, callVars, histVars
<1>1. /\ ResponsesSound(e) /\ ResponseMove(e) /\ WaitMove(e)
      /\ responses[e] \in Seq(Response) /\ ToSet(responses[e]) \subseteq Response
      /\ Ordered(responses[e], DistinctRequests)
  BY ResponseMoves, WaitMoves, ResponseTypes DEF CallbackInv, ResponsesSound
<1>2. ASSUME NEW q \in Req, NEW b \in BOOLEAN, Answers(e, q),
             responses'[e] = Append(responses[e], [req |-> q, success |-> b])
      PROVE  /\ ToSet(responses'[e]) = ToSet(responses[e]) \cup {[req |-> q, success |-> b]}
             /\ Ordered(responses'[e], DistinctRequests)
             /\ From(q) = e /\ answered'[q] = 0
             /\ q.method = "kMMPullReq" \/ Blocking(q)
             /\ Blocking(q) => waiting'[e] = q
  <2> DEFINE x == [req |-> q, success |-> b]
  <2>1. x \in Response
    BY DEF Response
  <2>2. ToSet(responses'[e]) = ToSet(responses[e]) \cup {x}
    BY <1>1, <1>2, <2>1, AppendElements
  <2>3. /\ answered[q] = 0 /\ ~Responded(q) /\ From(q) = e
        /\ q.method = "kMMPullReq" \/ Blocking(q)
        /\ Blocking(q) => waiting[e] = q
    BY <1>2, AnswersRightly
  <2>4. \A y \in ToSet(responses[e]) : <<y, x>> \in DistinctRequests
    BY <1>1, <2>1, <2>3 DEF DistinctRequests, Responded
  <2>5. UNCHANGED <<waiting, answered>>
    BY <1>2 DEF Answers
  <2>6. responses'[e] = Append(responses[e], x)
    BY <1>2
  <2> HIDE DEF x
  <2>7. Ordered(responses'[e], DistinctRequests)
    BY <1>1, <2>1, <2>4, <2>6, OrderedAppend
  <2> QED
    BY <2>2, <2>3, <2>5, <2>7 DEF x
<1>3. Ordered(responses'[e], DistinctRequests)
  <2>1. ASSUME NEW i \in 1..Len(responses[e]), responses'[e] = RemoveAt(responses[e], i)
        PROVE  Ordered(responses'[e], DistinctRequests)
    BY <1>1, <2>1, OrderedRemoveAt
  <2>2. ASSUME responses[e] # <<>>,
               responses'[e] = SubSeq(responses[e], 1, Len(responses[e]) - 1)
        PROVE  Ordered(responses'[e], DistinctRequests)
    BY <1>1, <2>2, OrderedFront
  <2>3. ASSUME responses[e] # <<>>, responses'[e] = Tail(responses[e])
        PROVE  Ordered(responses'[e], DistinctRequests)
    BY <1>1, <2>3, OrderedTail
  <2>4. Ordered(<<>>, DistinctRequests)
    BY OrderedShort
  <2> QED
    BY <1>1, <1>2, <2>1, <2>2, <2>3, <2>4 DEF ResponseMove
<1>4. ASSUME NEW m \in ToSet(responses'[e]), m \in ToSet(responses[e])
      PROVE  /\ From(m.req) = e /\ answered'[m.req] = 0
             /\ m.req.method = "kMMPullReq" \/ Blocking(m.req)
             /\ Blocking(m.req) => waiting'[e] = m.req
  <2>1. /\ From(m.req) = e /\ answered[m.req] = 0 /\ m.req \in Req /\ m.req # None
        /\ m.req.method = "kMMPullReq" \/ Blocking(m.req)
        /\ Blocking(m.req) => waiting[e] = m.req
    BY <1>1, <1>4, ParamAssumption DEF ResponsesSound, Response
  <2>2. Responded(m.req)'
    BY <1>4, <2>1 DEF Responded
  <2>3. answered'[m.req] = 0
    BY <2>1, <2>2, AnsweredOnce
  <2>4. ASSUME Blocking(m.req), waiting'[e] # waiting[e]
        PROVE  FALSE
    <3>1. waiting[e] = m.req
      BY <2>1, <2>4
    <3>2. ASSUME NEW k \in Method, SyncWrite(e, k)
          PROVE  FALSE
      BY <2>1, <3>1, <3>2 DEF SyncWrite, RunsTask, Idle
    <3>3. ASSUME SyncResponse(e)
          PROVE  FALSE
      <4>1. PICK i \in DOMAIN responses[e] :
              /\ responses[e][i].req = waiting[e]
              /\ responses' = [responses EXCEPT ![e] = RemoveAt(@, i)]
        BY <3>3 DEF SyncResponse
      <4>2. i \in 1..Len(responses[e]) /\ responses'[e] = RemoveAt(responses[e], i)
        BY <1>1, <4>1, ElementIndex DEF TypeOK
      <4>3. \A y \in ToSet(RemoveAt(responses[e], i)) :
               \/ <<responses[e][i], y>> \in DistinctRequests
               \/ <<y, responses[e][i]>> \in DistinctRequests
        BY <1>1, <4>2, OrderedRemoveAt
      <4>4. responses[e][i].req # m.req
        BY <1>4, <4>2, <4>3 DEF DistinctRequests
      <4> QED
        BY <3>1, <4>1, <4>4
    <3>4. ASSUME SyncDisconnect(e)
          PROVE  FALSE
      <4>1. \A i \in DOMAIN responses[e] : responses[e][i].req # waiting[e]
        BY <3>4 DEF SyncDisconnect
      <4>2. PICK i \in 1..Len(responses[e]) : responses[e][i] = m
        BY <1>1, <1>4, ElementIndex
      <4>3. i \in DOMAIN responses[e]
        BY <1>1, <4>2, ElementIndex
      <4> QED
        BY <3>1, <4>1, <4>2, <4>3
    <3>5. ASSUME Crash(e[1])
          PROVE  FALSE
      <4>1. e \in {e[1]} \X Stream
        BY DEF End
      <4>2. responses'[e] = <<>>
        BY <3>5, <4>1 DEF Crash
      <4> QED
        BY <1>4, <4>2, EmptyElements
    <3> QED
      BY <1>1, <2>4, <3>2, <3>3, <3>4, <3>5 DEF WaitMove
  <2> QED
    BY <2>1, <2>3, <2>4
<1>5. ASSUME NEW m \in ToSet(responses'[e]), m \notin ToSet(responses[e])
      PROVE  /\ From(m.req) = e /\ answered'[m.req] = 0
             /\ m.req.method = "kMMPullReq" \/ Blocking(m.req)
             /\ Blocking(m.req) => waiting'[e] = m.req
  <2>1. ASSUME NEW i \in 1..Len(responses[e]), responses'[e] = RemoveAt(responses[e], i)
        PROVE  FALSE
    <3>1. ToSet(RemoveAt(responses[e], i)) \subseteq ToSet(responses[e])
      BY <1>1, RemoveAtElements
    <3> QED
      BY <1>5, <2>1, <3>1
  <2>2. ASSUME responses[e] # <<>>, responses'[e] = Tail(responses[e])
        PROVE  FALSE
    <3>1. ToSet(Tail(responses[e])) \subseteq ToSet(responses[e])
      BY <1>1, <2>2, TailElements
    <3> QED
      BY <1>5, <2>2, <3>1
  <2>3. ASSUME responses'[e] = <<>>
        PROVE  FALSE
    BY <1>5, <2>3, EmptyElements
  <2>4. ASSUME responses[e] # <<>>,
               responses'[e] = SubSeq(responses[e], 1, Len(responses[e]) - 1)
        PROVE  FALSE
    <3>1. ToSet(SubSeq(responses[e], 1, Len(responses[e]) - 1)) \subseteq ToSet(responses[e])
      BY <1>1, <2>4, FrontElements
    <3> QED
      BY <1>5, <2>4, <3>1
  <2>5. PICK q \in Req, b \in BOOLEAN :
          /\ Answers(e, q)
          /\ responses'[e] = Append(responses[e], [req |-> q, success |-> b])
    BY <1>1, <1>5, <2>1, <2>2, <2>3, <2>4 DEF ResponseMove
  <2>6. m = [req |-> q, success |-> b]
    BY <1>2, <1>5, <2>5
  <2> QED
    BY <1>2, <2>5, <2>6
<1>6. \A m \in ToSet(responses'[e]) :
         /\ From(m.req) = e /\ answered'[m.req] = 0
         /\ m.req.method = "kMMPullReq" \/ Blocking(m.req)
         /\ Blocking(m.req) => waiting'[e] = m.req
  BY <1>4, <1>5
<1> QED
  BY <1>3, <1>6 DEF ResponsesSound

\* No task is posted twice.
LEMMA TasksStep ==
    ASSUME TypeOK, EndInv, FlowInv, CallbackInv, [Next]_vars, NEW e \in End
    PROVE  Ordered(queue'[e], Distinct(Task))
<1>1. /\ queue[e] \in Seq(Task) /\ ToSet(queue[e]) \subseteq Task /\ QueueMove(e)
      /\ Ordered(queue[e], Distinct(Task))
  BY FlowTypes, QueueMoves DEF CallbackInv
<1>2. ASSUME NEW x \in Task, Posted(e, x)
      PROVE  x \notin ToSet(queue[e])
  <2>1. ASSUME NEW r \in Req, SendMMMojoWriteInfo(r), e = From(r), stream[e]
        PROVE  ~Queued(e, "Write", r)
    <3>1. outcome[r] = "idle"
      BY <2>1 DEF SendMMMojoWriteInfo
    <3> QED
      BY <3>1 DEF FlowInv, FlowSound
  <2>2. ASSUME NEW r \in Req, SendPullResp(r) \/ RemoveMMMojoReadInfo(r), e = To(r)
        PROVE  ~Queued(e, "PullResp", r) /\ ~Queued(e, "RaiseError", r)
    <3>1. r \in held
      BY <2>2 DEF SendPullResp, RemoveMMMojoReadInfo
    <3> QED
      BY <2>2, <3>1 DEF CallbackInv, CallbackSound
  <2>3. ASSUME StopStream(e)
        PROVE  ~Queued(e, "Remove", None)
    BY <2>3 DEF StopStream, EndInv, EndSound
  <2> QED
    BY <1>2, <2>1, <2>2, <2>3 DEF Posted, Queued
<1>3. ASSUME NEW x \in Task, Posted(e, x), queue'[e] = Append(queue[e], x)
      PROVE  Ordered(queue'[e], Distinct(Task))
  <2>1. x \notin ToSet(queue[e])
    BY <1>2, <1>3
  <2>2. \A y \in ToSet(queue[e]) : <<y, x>> \in Distinct(Task)
    BY <1>1, <2>1 DEF Distinct
  <2> QED
    BY <1>1, <1>3, <2>2, OrderedAppend
<1>4. ASSUME queue[e] # <<>>, queue'[e] = Tail(queue[e])
      PROVE  Ordered(queue'[e], Distinct(Task))
  BY <1>1, <1>4, OrderedTail
<1>5. Ordered(<<>>, Distinct(Task))
  BY OrderedShort
<1> QED
  BY <1>1, <1>3, <1>4, <1>5 DEF QueueMove

\* Callbacks, responses and tasks together.
LEMMA CallbackInvStep ==
    ASSUME TypeOK, AnswerInv, CreateInv, EndInv, FlowInv, CallbackInv, WaitInv, [Next]_vars
    PROVE  CallbackInv'
<1>1. \A r \in Req : CallbackSound(r)'
  BY CallbackStep
<1>2. \A e \in End : ResponsesSound(e)'
  BY ResponsesStep
<1>3. \A e \in End : Ordered(queue'[e], Distinct(Task))
  BY TasksStep
<1> QED
  BY <1>1, <1>2, <1>3 DEF CallbackInv
-----------------------------------------------------------------------------
(* WaitInv                                                                 *)

\* A thread inside a call runs no task, and leaves the call only in two ways or
\* with its process.
LEMMA WaitStays ==
    ASSUME TypeOK, CreateInv, WaitInv, [Next]_vars, NEW e \in End,
           waiting[e] # None, waiting'[e] = waiting[e]
    PROVE  /\ ~RunTask(e) /\ ~Crash(e[1]) /\ ~SyncResponse(e)
           /\ impl'[e] = "bound"
<1>1. ~Idle(e)
  BY DEF Idle
<1>2. ~RunTask(e)
  BY <1>1, RunsWhich DEF RunsTask
<1>3. ~Crash(e[1])
  <2>1. e \in {e[1]} \X Stream
    BY DEF End
  <2> QED
    BY <2>1 DEF Crash
<1>4. ~SyncResponse(e)
  BY DEF SyncResponse, TypeOK
<1>5. /\ ~CreateRemoteAndReceiverStream(e) /\ ~RemoveRemoteAndReceiverStream(e)
      /\ ~OnMojoDisconnect(e)
  BY <1>1, <1>2, RunsOne DEF OnMojoDisconnect
<1>6. impl[e] = "bound"
  BY DEF WaitInv, WaitSound
<1> QED
  BY <1>2, <1>3, <1>4, <1>5, <1>6, EndMoves DEF EndMove

\* A synchronous request that is queued has its caller blocked.
LEMMA QueuedBlocks ==
    ASSUME TypeOK, AnswerInv, CreateInv, CallbackInv, WaitInv, [Next]_vars,
           NEW r \in Req, r.sync, NEW e \in End, Queued(e, "Write", r)'
    PROVE  outcome'[r] = "blocked"
<1>1. OutcomeMove(r)
  BY OutcomeMoves
<1>2. CASE Queued(e, "Write", r)
  <2>1. outcome[r] = "blocked" /\ From(r) = e /\ r # None
    BY <1>2, ParamAssumption DEF WaitInv, CallSound, AnswerInv, TaskHome, Queued
  <2>2. ASSUME NEW d \in End, RunTask(d), Head(queue[d]) = [op |-> "Write", req |-> r]
        PROVE  FALSE
    <3>1. Head(queue[d]) \in ToSet(queue[d]) /\ Head(queue[d]) \notin ToSet(queue'[d])
      BY <2>2, RunsWhich, RunEffect, TaskGone
    <3>2. From(r) = d
      BY <2>2, <3>1 DEF AnswerInv, TaskHome
    <3> QED
      BY <2>1, <2>2, <3>1, <3>2 DEF Queued
  <2>3. ASSUME NEW d \in End, waiting[d] = r
        PROVE  FALSE
    <3>1. From(r) = d /\ ~Queued(d, "Write", r)
      BY <2>1, <2>3 DEF WaitInv, WaitSound
    <3> QED
      BY <1>2, <2>1, <3>1
  <2>4. ASSUME Crash(r.side)
        PROVE  FALSE
    <3>1. e[1] = r.side /\ e \in {r.side} \X Stream
      BY <2>1 DEF From, End
    <3>2. queue'[e] = <<>>
      BY <2>4, <3>1 DEF Crash
    <3> QED
      BY <3>2, EmptyElements DEF Queued
  <2> QED
    BY <1>1, <2>1, <2>2, <2>3, <2>4 DEF OutcomeMove
<1>3. CASE ~Queued(e, "Write", r)
  <2>1. Posted(e, [op |-> "Write", req |-> r])
    BY <1>3, TaskPosted
  <2>2. SendMMMojoWriteInfo(r) /\ e = From(r) /\ stream[e]
    BY <2>1 DEF Posted
  <2>3. outcome' = [outcome EXCEPT ![r] = "blocked"]
    BY <2>2 DEF SendMMMojoWriteInfo
  <2> QED
    BY <2>3 DEF TypeOK
<1> QED
  BY <1>2, <1>3

\* A task that writes a synchronous request makes its thread wait.
LEMMA WriteWaits ==
    ASSUME TypeOK, CreateInv, NEW e \in End, NEW r \in Req, Blocking(r), RunTask(e), ~Cut(e),
           Head(queue[e]) = [op |-> "Write", req |-> r]
    PROVE  waiting'[e] = r
<1>1. RunsTask(e, "Write")
  BY RunsWhich
<1>2. impl[e] # "absent"
  BY <1>1, RunCreate
<1>3. impl[e] = "bound"
  BY <1>2 DEF Cut, TypeOK, ImplState
<1>4. /\ ~CreateRemoteAndReceiverStream(e) /\ ~RemoveRemoteAndReceiverStream(e)
      /\ ~RaiseError(e) /\ \A b : ~AnswerPull(e, b)
  BY <1>1 DEF CreateRemoteAndReceiverStream, RemoveRemoteAndReceiverStream, RaiseError,
     AnswerPull, RunsTask
<1>5. Head(queue[e]).req = r /\ r.sync
  BY DEF Blocking
<1>6. ~PullReqWithCallback(e) /\ \A m : ~AsyncWrite(e, m)
  BY <1>5 DEF PullReqWithCallback, AsyncWrite
<1>7. PICK m \in Method : SyncWrite(e, m)
  BY <1>4, <1>6, RunsOne
<1>8. waiting' = [waiting EXCEPT ![e] = r]
  BY <1>3, <1>5, <1>7 DEF SyncWrite
<1> QED
  BY <1>8 DEF TypeOK

\* As long as a call may be answered its sender waits for it, or is cut off.
LEMMA OpenStep ==
    ASSUME TypeOK, AnswerInv, CreateInv, EndInv, FlowInv, CallbackInv, WaitInv, [Next]_vars,
           NEW r \in Req, Blocking(r), Open(r)'
    PROVE  waiting'[From(r)] = r \/ Cut(From(r))'
<1> DEFINE e == From(r)
<1>1. /\ e \in End /\ To(r) \in End /\ Peer(e) = To(r) /\ r # None
      /\ Cut(e) => Cut(e)'
  BY RequestEnds, EndStays, ParamAssumption DEF To
<1>2. CASE Open(r)
  <2>1. waiting[e] = r \/ Cut(e)
    BY <1>2 DEF WaitInv, CallSound
  <2>2. ASSUME waiting[e] = r
        PROVE  waiting'[e] = r \/ Cut(e)'
    <3>1. WaitMove(e)
      BY <1>1, WaitMoves
    <3>2. ASSUME NEW k \in Method, SyncWrite(e, k)
          PROVE  FALSE
      BY <1>1, <2>2, <3>2 DEF SyncWrite, RunsTask, Idle
    <3>3. ASSUME SyncResponse(e)
          PROVE  FALSE
      <4>1. PICK i \in DOMAIN responses[e] : responses[e][i].req = r
        BY <2>2, <3>3 DEF SyncResponse
      <4>2. responses[e][i] \in ToSet(responses[e])
        BY <1>1, <4>1, ResponseTypes
      <4>3. Responded(r) /\ dispatched[r] > 0
        BY <1>1, <4>1, <4>2 DEF Responded, AnswerInv, ResponseTrue
      <4>4. r \notin ToSet(requests[e])
        BY <1>1, <4>3 DEF FlowInv, FlowSound
      <4>5. r \notin held /\ ~Queued(To(r), "PullResp", r)
        BY <1>1, <4>3 DEF CallbackInv, CallbackSound
      <4> QED
        BY <1>2, <4>4, <4>5 DEF Open
    <3>4. ASSUME SyncDisconnect(e)
          PROVE  Cut(e)'
      BY <1>1, <3>4 DEF SyncDisconnect, Cut
    <3>5. ASSUME Crash(e[1])
          PROVE  Cut(e)'
      <4>1. e \in {e[1]} \X Stream
        BY <1>1 DEF End
      <4> QED
        BY <1>1, <3>5, <4>1 DEF Crash, Cut
    <3> QED
      BY <2>2, <3>1, <3>2, <3>3, <3>4, <3>5 DEF WaitMove
  <2> QED
    BY <1>1, <2>1, <2>2
<1>3. CASE ~Open(r) /\ r \in ToSet(requests'[e])
  <2>1. /\ requests[e] \in Seq(Req) /\ r \notin ToSet(requests[e]) /\ RequestMove(e)
    BY <1>1, <1>3, FlowTypes, RequestMoves DEF Open
  <2>2. ASSUME NEW i, Reads(e, i)
        PROVE  FALSE
    <3>1. requests'[e] = RemoveAt(requests[e], i) /\ i \in 1..Len(requests[e])
      BY <1>1, <2>2, ReadsEffect
    <3>2. ToSet(RemoveAt(requests[e], i)) \subseteq ToSet(requests[e])
      BY <2>1, <3>1, RemoveAtElements
    <3> QED
      BY <1>3, <2>1, <3>1, <3>2
  <2>3. ASSUME requests[e] # <<>>,
               requests'[e] = SubSeq(requests[e], 1, Len(requests[e]) - 1)
        PROVE  FALSE
    <3>1. ToSet(SubSeq(requests[e], 1, Len(requests[e]) - 1)) \subseteq ToSet(requests[e])
      BY <2>1, <2>3, FrontElements
    <3> QED
      BY <1>3, <2>1, <2>3, <3>1
  <2>4. ToSet(<<>>) = {}
    BY EmptyElements
  <2>5. /\ RunTask(e) /\ Head(queue[e]).op = "Write" /\ ~Cut(e)
        /\ requests'[e] = Append(requests[e], Head(queue[e]).req)
    BY <1>3, <2>1, <2>2, <2>3, <2>4 DEF RequestMove
  <2>6. Head(queue[e]) \in Task
    BY <1>1, <2>5, RunsWhich, RunEffect
  <2>7. Head(queue[e]).req \in Req /\ Head(queue[e]) = [op |-> "Write", req |-> Head(queue[e]).req]
    BY <2>5, <2>6 DEF Task
  <2>8. ToSet(requests'[e]) = ToSet(requests[e]) \cup {Head(queue[e]).req}
    BY <2>1, <2>5, <2>7, AppendElements
  <2>9. Head(queue[e]) = [op |-> "Write", req |-> r]
    BY <1>3, <2>1, <2>7, <2>8
  <2> QED
    BY <1>1, <2>5, <2>9, WriteWaits
<1>4. CASE ~Open(r) /\ r \in held'
  <2>1. PICK d \in End : \E i : Reads(d, i) /\ held' = held \cup {requests[d][i]}
    BY <1>4, HeldMoves DEF HeldMove, Open
  <2>2. PICK i : Reads(d, i) /\ held' = held \cup {requests[d][i]}
    BY <2>1
  <2>3. requests[d] \in Seq(Req) /\ i \in 1..Len(requests[d])
    BY <2>2, ReadsEffect
  <2>4. r \in ToSet(requests[d])
    BY <1>4, <2>2, <2>3, ElementIndex DEF Open
  <2>5. From(r) = d
    BY <2>4 DEF FlowInv, FlowSound
  <2> QED
    BY <1>4, <2>4, <2>5 DEF Open
<1>5. CASE ~Open(r) /\ Queued(To(r), "PullResp", r)'
  <2>1. Posted(To(r), [op |-> "PullResp", req |-> r])
    BY <1>1, <1>5, TaskPosted DEF Open
  <2>2. SendPullResp(r)
    BY <2>1 DEF Posted
  <2> QED
    BY <1>5, <2>2 DEF SendPullResp, Open
<1> QED
  BY <1>2, <1>3, <1>4, <1>5 DEF Open

\* A pull that is not held any more was answered, given back, or lost its process.
LEMMA HeldGone ==
    ASSUME TypeOK, [Next]_vars, NEW r \in Req, r \in held, r \notin held'
    PROVE  \/ SendPullResp(r) \/ RemoveMMMojoReadInfo(r) \/ RemoveMMMojoReadInfoInCallback(r)
           \/ Crash(To(r)[1])
<1> USE DEF threadVars, wireVars, endVars, callVars, histVars
<1>1. ASSUME NEW q \in Req,
             SendPullResp(q) \/ RemoveMMMojoReadInfo(q) \/ RemoveMMMojoReadInfoInCallback(q)
      PROVE  q = r
  BY <1>1 DEF SendPullResp, RemoveMMMojoReadInfo, RemoveMMMojoReadInfoInCallback
<1>2. ASSUME NEW q \in Req, SendMMMojoWriteInfo(q)
      PROVE  UNCHANGED held
  BY <1>2 DEF SendMMMojoWriteInfo
<1>3. ASSUME NEW d \in End,
             \/ StopStream(d) \/ CreateRemoteAndReceiverStream(d)
             \/ RemoveRemoteAndReceiverStream(d) \/ RaiseError(d)
             \/ PullReqWithCallback(d) \/ SyncResponse(d) \/ SyncDisconnect(d)
             \/ ReadResponse(d) \/ OnMojoDisconnect(d)
             \/ LoseRequest(d) \/ LoseResponse(d)
      PROVE  UNCHANGED held
  BY <1>3 DEF StopStream, CreateRemoteAndReceiverStream, SyncResponse, SyncDisconnect,
         RemoveRemoteAndReceiverStream, RaiseError, PullReqWithCallback,
         ReadResponse, OnPushReqMMMojoReadInfo, OnPushReqMMMojoReadInfoSync,
         TakeResponse, OnMojoDisconnect, LoseRequest, LoseResponse
<1>4. ASSUME NEW d \in End, NEW m \in Method,
             AsyncWrite(d, m) \/ SyncWrite(d, m) \/ OneWay(d, m) \/ Acknowledge(d, m)
      PROVE  UNCHANGED held
  BY <1>4 DEF AsyncWrite, SyncWrite, OneWay, Acknowledge
<1>5. ASSUME NEW d \in End, NEW b \in BOOLEAN, AnswerPull(d, b)
      PROVE  UNCHANGED held
  BY <1>5 DEF AnswerPull
<1>6. ASSUME NEW d \in End, NEW b \in BOOLEAN, ReadPull(d, b)
      PROVE  held \subseteq held'
  BY <1>6 DEF ReadPull
<1>7. ASSUME NEW p \in Side, Crash(p)
      PROVE  p = To(r)[1]
  BY <1>7 DEF Crash
<1>8. CASE UNCHANGED vars
  BY <1>8 DEF vars
<1> QED
  BY <1>1, <1>2, <1>3, <1>4, <1>5, <1>6, <1>7, <1>8, NextCases

\* A synchronous request that is read is answered at once or held.
LEMMA ReadAnswers ==
    ASSUME TypeOK, CreateInv, FlowInv, [Next]_vars, NEW e \in End, NEW r \in Req, From(r) = e,
           Blocking(r), impl[e] = "bound", NEW i, Reads(e, i), requests[e][i] = r
    PROVE  r \in held' \/ Responded(r)'
<1> USE DEF threadVars, wireVars, endVars, callVars, histVars
<1> DEFINE d == Peer(e)
<1>1. d \in End /\ Peer(d) = e
  BY PeerEnd
<1>2. /\ requests[e] \in Seq(Req) /\ i \in 1..Len(requests[e]) /\ recv[d] = "open"
      /\ requests'[e] = RemoveAt(requests[e], i)
  BY ReadsEffect
<1>3. dispatched' = [dispatched EXCEPT ![r] = @ + 1]
  BY ReadsEffect
<1>4. dispatched'[r] = dispatched[r] + 1 /\ dispatched'[r] # dispatched[r]
  BY <1>3 DEF TypeOK
<1>5. ASSUME NEW b \in BOOLEAN, Respond(d, r, b)
      PROVE  Responded(r)'
  <2> DEFINE x == [req |-> r, success |-> b]
  <2>1. responses'[e] = Append(responses[e], x)
    BY <1>1, <1>2, <1>5 DEF Respond, TypeOK
  <2>2. responses[e] \in Seq(Response) /\ x \in Response
    BY ResponseTypes DEF Response
  <2>3. x \in ToSet(responses'[e])
    BY <2>1, <2>2, AppendElements
  <2> QED
    BY <2>3 DEF Responded
<1>6. ASSUME NEW c \in End, NEW j, Reads(Peer(c), j)
      PROVE  c = d /\ requests[Peer(c)][j] = r
  <2>1. /\ requests[Peer(c)] \in Seq(Req) /\ j \in 1..Len(requests[Peer(c)])
        /\ dispatched' = [dispatched EXCEPT ![requests[Peer(c)][j]] = @ + 1]
        /\ Peer(c) \in End /\ Peer(Peer(c)) = c
    BY <1>6, PeerEnd, ReadsEffect
  <2>2. requests[Peer(c)][j] = r
    BY <1>4, <2>1
  <2>3. r \in ToSet(requests[Peer(c)])
    BY <2>1, <2>2, ElementIndex
  <2>4. From(r) = Peer(c)
    BY <2>1, <2>3 DEF FlowInv, FlowSound
  <2> QED
    BY <2>1, <2>2, <2>4
<1>7. ASSUME NEW c \in End, NEW m \in Method, OneWay(c, m)
      PROVE  FALSE
  <2>1. PICK j \in Deliverable(c) : Dispatch(c, j, m, FALSE)
    BY <1>7 DEF OneWay
  <2>2. Reads(Peer(c), j)
    BY <2>1, PeerEnd DEF Reads
  <2>3. requests[Peer(c)][j] = r
    BY <1>6, <2>2
  <2> QED
    BY <2>1, <2>3 DEF Dispatch, Blocking
<1>8. ASSUME NEW c \in End, NEW m \in Method, Acknowledge(c, m)
      PROVE  Responded(r)'
  <2>1. PICK j \in Deliverable(c) :
          /\ Dispatch(c, j, m, TRUE)
          /\ Respond(c, requests[Peer(c)][j], HasReader(requests[Peer(c)][j]))
    BY <1>8 DEF Acknowledge
  <2>2. Reads(Peer(c), j)
    BY <2>1, PeerEnd DEF Reads
  <2>3. c = d /\ requests[Peer(c)][j] = r
    BY <1>6, <2>2
  <2>4. HasReader(r) \in BOOLEAN
    BY DEF HasReader
  <2> QED
    BY <1>5, <2>1, <2>3, <2>4
<1>9. ASSUME NEW c \in End, NEW b \in BOOLEAN, ReadPull(c, b)
      PROVE  r \in held' \/ Responded(r)'
  <2>1. PICK j \in Deliverable(c) :
          /\ Dispatch(c, j, "kMMPullReq", b)
          /\ \/ held' = held \cup {requests[Peer(c)][j]}
             \/ Respond(c, requests[Peer(c)][j], FALSE)
    BY <1>9 DEF ReadPull
  <2>2. Reads(Peer(c), j)
    BY <2>1, PeerEnd DEF Reads, Method
  <2>3. c = d /\ requests[Peer(c)][j] = r
    BY <1>6, <2>2
  <2> QED
    BY <1>5, <2>1, <2>3
<1>10. \/ \E c \in End : \E m \in Method : OneWay(c, m) \/ Acknowledge(c, m)
       \/ \E c \in End : \E b \in BOOLEAN : ReadPull(c, b)
  <2>1. ASSUME UNCHANGED dispatched
        PROVE  FALSE
    BY <1>4, <2>1
  <2>2. \A q \in Req : /\ ~SendMMMojoWriteInfo(q) /\ ~SendPullResp(q)
                       /\ ~RemoveMMMojoReadInfo(q) /\ ~RemoveMMMojoReadInfoInCallback(q)
    BY <2>1 DEF SendMMMojoWriteInfo, SendPullResp, RemoveMMMojoReadInfo,
           RemoveMMMojoReadInfoInCallback
  <2>3. \A c \in End :
           /\ ~StopStream(c) /\ ~CreateRemoteAndReceiverStream(c)
           /\ ~RemoveRemoteAndReceiverStream(c) /\ ~RaiseError(c)
           /\ ~PullReqWithCallback(c) /\ ~SyncResponse(c) /\ ~SyncDisconnect(c)
           /\ ~ReadResponse(c) /\ ~OnMojoDisconnect(c)
           /\ ~LoseRequest(c) /\ ~LoseResponse(c)
    BY <2>1 DEF StopStream, CreateRemoteAndReceiverStream, SyncResponse, SyncDisconnect,
           RemoveRemoteAndReceiverStream, RaiseError, PullReqWithCallback,
           ReadResponse, OnPushReqMMMojoReadInfo, OnPushReqMMMojoReadInfoSync,
           TakeResponse, OnMojoDisconnect, LoseRequest, LoseResponse
  <2>4. \A c \in End : \A m \in Method : ~AsyncWrite(c, m) /\ ~SyncWrite(c, m)
    BY <2>1 DEF AsyncWrite, SyncWrite
  <2>5. \A c \in End : \A b \in BOOLEAN : ~AnswerPull(c, b)
    BY <2>1 DEF AnswerPull
  <2>6. \A p \in Side : ~Crash(p)
    BY <2>1 DEF Crash
  <2>7. ~UNCHANGED vars
    BY <2>1 DEF vars
  <2> QED
    BY <2>2, <2>3, <2>4, <2>5, <2>6, <2>7, NextCases
<1> QED
  BY <1>7, <1>8, <1>9, <1>10

\* What is awaited stays so as long as the call lasts: first what the peer is to do ...
LEMMA PeerAwaited ==
    ASSUME TypeOK, AnswerInv, CreateInv, EndInv, [Next]_vars,
           NEW e \in End, NEW r \in Req, From(r) = e, r.method = "kMMPullReq", impl[e] = "bound",
           \/ r \in held
           \/ Queued(Peer(e), "PullResp", r)
           \/ Queued(Peer(e), "RaiseError", r)
           \/ Queued(Peer(e), "Remove", None)
    PROVE  Awaited(e, r)'
<1> USE DEF threadVars, wireVars, endVars, callVars, histVars
<1> DEFINE d == Peer(e)
<1>1. d \in End /\ Peer(d) = e /\ To(r) = d
  BY PeerEnd DEF To
<1>2. ASSUME recv'[d] = "closed"
      PROVE  Awaited(e, r)'
  BY <1>2 DEF Awaited
<1>3. ASSUME NEW op \in {"PullResp", "RaiseError"}, Queued(d, op, r)'
      PROVE  Awaited(e, r)'
  BY <1>3 DEF Awaited
<1>4. ASSUME Queued(d, "Remove", None)'
      PROVE  Awaited(e, r)'
  BY <1>4 DEF Awaited
<1>5. ASSUME Crash(d[1])
      PROVE  Awaited(e, r)'
  <2>1. d \in {d[1]} \X Stream
    BY <1>1 DEF End
  <2> QED
    BY <1>1, <1>2, <1>5, <2>1 DEF Crash
<1>6. ASSUME NEW x \in ToSet(queue[d])
      PROVE  x \in ToSet(queue'[d]) \/ Crash(d[1]) \/ (RunTask(d) /\ x = Head(queue[d]))
  <2>1. QueueMove(d)
    BY <1>1, QueueMoves
  <2> HIDE DEF d
  <2> QED
    BY <1>6, <2>1 DEF QueueMove
<1>7. impl[d] = "removed" => Awaited(e, r)'
  <2>1. impl[d] = "removed" => recv[d] = "closed"
    BY <1>1 DEF CreateInv, CreateFirst
  <2> QED
    BY <1>1, <1>2, <2>1, EndStays
<1>8. CASE Queued(d, "Remove", None)
  <2>1. ASSUME RunTask(d), Head(queue[d]) = [op |-> "Remove", req |-> None]
        PROVE  recv'[d] = "closed"
    <3>1. RunsTask(d, "Remove")
      BY <1>1, <2>1, RunsWhich
    <3>2. RemoveRemoteAndReceiverStream(d)
      BY <1>1, <2>1, <3>1, RunsOne DEF RunsTask, CreateRemoteAndReceiverStream, RaiseError,
         PullReqWithCallback, AsyncWrite, SyncWrite, AnswerPull
    <3> QED
      BY <1>1, <3>2 DEF RemoveRemoteAndReceiverStream, TypeOK
  <2> QED
    BY <1>2, <1>4, <1>5, <1>6, <1>8, <2>1 DEF Queued
<1>9. CASE Queued(d, "RaiseError", r)
  <2>1. ASSUME RunTask(d), Head(queue[d]) = [op |-> "RaiseError", req |-> r]
        PROVE  recv'[d] = "closed"
    <3>1. RunsTask(d, "RaiseError")
      BY <1>1, <2>1, RunsWhich
    <3>2. RaiseError(d)
      BY <1>1, <2>1, <3>1, RunsOne DEF RunsTask, CreateRemoteAndReceiverStream,
         RemoveRemoteAndReceiverStream,
         PullReqWithCallback, AsyncWrite, SyncWrite, AnswerPull
    <3> QED
      BY <1>1, <3>2 DEF RaiseError, TypeOK
  <2> QED
    BY <1>2, <1>3, <1>5, <1>6, <1>9, <2>1 DEF Queued
<1>10. CASE Queued(d, "PullResp", r)
  <2>1. ASSUME RunTask(d), Head(queue[d]) = [op |-> "PullResp", req |-> r]
        PROVE  recv[d] = "closed" \/ Responded(r)'
    <3>1. RunsTask(d, "PullResp")
      BY <1>1, <2>1, RunsWhich
    <3>2. PICK b \in BOOLEAN : AnswerPull(d, b)
      BY <1>1, <2>1, <3>1, RunsOne DEF RunsTask, CreateRemoteAndReceiverStream,
         RemoveRemoteAndReceiverStream, RaiseError,
         PullReqWithCallback, AsyncWrite, SyncWrite
    <3>3. impl[d] # "absent" /\ CreateFirst(d)
      BY <1>1, <3>1, RunCreate
    <3>4. recv[d] # "fresh"
      BY <1>1, <3>3 DEF EndInv, EndSound
    <3>5. CASE recv[d] = "open"
      <4>1. impl[d] \in {"bound", "reset"}
        BY <1>1, <3>3, <3>5 DEF CreateFirst, TypeOK, ImplState
      <4>2. Respond(d, r, TRUE)
        <5>1. Respond(d, Head(queue[d]).req, TRUE)
          BY <3>2, <4>1 DEF AnswerPull
        <5>2. Head(queue[d]).req = r
          BY <2>1
        <5> QED
          BY <5>1, <5>2
      <4> DEFINE x == [req |-> r, success |-> TRUE]
      <4>3. responses'[e] = Append(responses[e], x)
        BY <1>1, <3>5, <4>2 DEF Respond, TypeOK
      <4>4. responses[e] \in Seq(Response) /\ x \in Response
        BY ResponseTypes DEF Response
      <4>5. x \in ToSet(responses'[e])
        BY <4>3, <4>4, AppendElements
      <4> QED
        BY <4>5 DEF Responded
    <3> QED
      BY <1>1, <3>4, <3>5 DEF TypeOK
  <2>2. recv[d] = "closed" => recv'[d] = "closed"
    BY <1>1, EndStays
  <2>3. Responded(r)' => Awaited(e, r)'
    BY DEF Awaited
  <2> QED
    BY <1>2, <1>3, <1>5, <1>6, <1>10, <2>1, <2>2, <2>3 DEF Queued
<1>11. CASE r \in held
  <2>1. r \in held' => Awaited(e, r)'
    BY DEF Awaited
  <2>2. CASE SendPullResp(r) /\ stream[d]
    <3>1. Post(d, "PullResp", r) /\ [op |-> "PullResp", req |-> r] \in Task
      BY <1>1, <2>2, TaskType DEF SendPullResp
    <3>2. queue[d] \in Seq(Task) /\ queue'[d] = Append(queue[d], [op |-> "PullResp", req |-> r])
      BY <1>1, <3>1, PostEffect
    <3>3. [op |-> "PullResp", req |-> r] \in ToSet(queue'[d])
      BY <3>1, <3>2, AppendElements
    <3> QED
      BY <1>3, <3>3 DEF Queued
  <2>3. CASE RemoveMMMojoReadInfo(r) /\ stream[d]
    <3>1. Post(d, "RaiseError", r) /\ [op |-> "RaiseError", req |-> r] \in Task
      BY <1>1, <2>3, TaskType DEF RemoveMMMojoReadInfo
    <3>2. queue[d] \in Seq(Task) /\ queue'[d] = Append(queue[d], [op |-> "RaiseError", req |-> r])
      BY <1>1, <3>1, PostEffect
    <3>3. [op |-> "RaiseError", req |-> r] \in ToSet(queue'[d])
      BY <3>1, <3>2, AppendElements
    <3> QED
      BY <1>3, <3>3 DEF Queued
  <2>4. CASE (SendPullResp(r) \/ RemoveMMMojoReadInfo(r)) /\ ~stream[d]
    <3>1. impl[d] = "removed" \/ Queued(d, "Remove", None)
      BY <1>1, <2>4 DEF EndInv, EndSound
    <3> QED
      BY <1>7, <1>8, <3>1
  <2>5. CASE RemoveMMMojoReadInfoInCallback(r)
    <3>1. recv'[d] = "closed"
      BY <1>1, <2>5 DEF RemoveMMMojoReadInfoInCallback, TypeOK
    <3> QED
      BY <1>2, <3>1
  <2> QED
    BY <1>1, <1>5, <1>11, <2>1, <2>2, <2>3, <2>4, <2>5, HeldGone
<1> QED
  BY <1>8, <1>9, <1>10, <1>11

\* ... then the request, the response and the pipe.
LEMMA AwaitedStays ==
    ASSUME TypeOK, AnswerInv, CreateInv, EndInv, FlowInv, CallbackInv, WaitInv, [Next]_vars,
           NEW e \in End, waiting[e] # None, waiting'[e] = waiting[e]
    PROVE  Awaited(e, waiting[e])'
<1>0. PICK r \in Req : r = waiting[e]
  BY DEF TypeOK
<1>1. /\ r \in Req /\ From(r) = e /\ Blocking(r) /\ impl[e] = "bound"
      /\ Awaited(e, r) /\ Peer(e) \in End /\ ~Idle(e)
  BY <1>0, PeerEnd DEF WaitInv, WaitSound, Idle
<1>2. ~RunTask(e) /\ ~Crash(e[1]) /\ ~SyncResponse(e)
  BY WaitStays
<1>3. ASSUME recv'[Peer(e)] = "closed"
      PROVE  Awaited(e, r)'
  BY <1>3 DEF Awaited
<1>4. recv[Peer(e)] = "closed" => recv'[Peer(e)] = "closed"
  BY <1>1, EndStays
<1>5. alive[e[1]]
  BY DEF EndInv, EndSound
<1>6. ASSUME r \in ToSet(requests[e])
      PROVE  Awaited(e, r)'
  <2>1. RequestMove(e) /\ requests[e] \in Seq(Req) /\ Ordered(requests[e], Req \X Req)
    <3>1. Ordered(requests[e], InSent(e))
      BY DEF FlowInv, FlowSound
    <3>2. Ordered(requests[e], Req \X Req)
      BY <3>1, FlowTypes, OrderedWithin DEF InSent
    <3> QED
      BY <3>2, RequestMoves, FlowTypes
  <2>2. ASSUME NEW i, Reads(e, i)
        PROVE  Awaited(e, r)'
    <3>1. i \in 1..Len(requests[e]) /\ requests'[e] = RemoveAt(requests[e], i)
      BY <2>2, ReadsEffect
    <3>2. ToSet(requests[e]) = ToSet(requests'[e]) \cup {requests[e][i]}
      <4>1. ToSet(requests[e]) = ToSet(RemoveAt(requests[e], i)) \cup {requests[e][i]}
        BY <2>1, <3>1, OrderedRemoveAt
      <4> QED
        BY <3>1, <4>1
    <3>3. CASE r \in ToSet(requests'[e])
      BY <3>3 DEF Awaited
    <3>4. CASE requests[e][i] = r
      <4>1. r \in held' \/ Responded(r)'
        BY <1>1, <2>2, <3>4, ReadAnswers
      <4>2. r \in held' => r.method = "kMMPullReq"
        <5>1. CallbackSound(r)'
          BY <1>1, CallbackStep
        <5> QED
          BY <5>1 DEF CallbackSound
      <4> QED
        BY <4>1, <4>2 DEF Awaited
    <3> QED
      BY <1>6, <3>2, <3>3, <3>4
  <2>3. requests'[e] = requests[e] => Awaited(e, r)'
    BY <1>6 DEF Awaited
  <2> QED
    BY <1>2, <1>3, <1>5, <2>1, <2>2, <2>3 DEF RequestMove
<1>7. ASSUME Responded(r)
      PROVE  Awaited(e, r)'
  <2>1. responses[e] \in Seq(Response) /\ ResponseMove(e)
    BY ResponseTypes, ResponseMoves
  <2>2. PICK m \in ToSet(responses[e]) : m.req = r
    BY <1>1, <1>7 DEF Responded
  <2>3. m \in ToSet(responses'[e]) => Awaited(e, r)'
    BY <1>1, <2>2 DEF Awaited, Responded
  <2>4. ASSUME NEW q \in Req, NEW b \in BOOLEAN,
               responses'[e] = Append(responses[e], [req |-> q, success |-> b])
        PROVE  m \in ToSet(responses'[e])
    <3>1. [req |-> q, success |-> b] \in Response
      BY DEF Response
    <3>2. ToSet(responses'[e]) = ToSet(responses[e]) \cup {[req |-> q, success |-> b]}
      BY <2>1, <2>4, <3>1, AppendElements
    <3> QED
      BY <2>2, <3>2
  <2>5. ~ReadResponse(e) /\ ~RemoveRemoteAndReceiverStream(e)
    BY <1>1, <1>2, RunsOne DEF ReadResponse, OnPushReqMMMojoReadInfo,
       OnPushReqMMMojoReadInfoSync, TakeResponse
  <2>6. LoseResponse(e) => recv[Peer(e)] = "closed"
    <3>1. LoseResponse(e) => ~alive[Peer(e)[1]]
      BY DEF LoseResponse, Peer
    <3>2. ~alive[Peer(e)[1]] => impl[Peer(e)] = "removed"
      BY <1>1 DEF EndInv, EndSound
    <3>3. impl[Peer(e)] = "removed" => recv[Peer(e)] = "closed"
      BY <1>1 DEF CreateInv, CreateFirst
    <3> QED
      BY <3>1, <3>2, <3>3
  <2>7. responses'[e] = responses[e] => m \in ToSet(responses'[e])
    BY <2>2
  <2> QED
    BY <1>2, <1>3, <1>4, <2>1, <2>3, <2>4, <2>5, <2>6, <2>7 DEF ResponseMove
<1>8. ASSUME recv[Peer(e)] = "closed"
      PROVE  Awaited(e, r)'
  BY <1>3, <1>4, <1>8
<1>9. ASSUME /\ r.method = "kMMPullReq"
             /\ \/ r \in held
                \/ Queued(Peer(e), "PullResp", r)
                \/ Queued(Peer(e), "RaiseError", r)
                \/ Queued(Peer(e), "Remove", None)
      PROVE  Awaited(e, r)'
  BY <1>1, <1>9, PeerAwaited
<1>10. Awaited(e, r)'
  BY <1>1, <1>6, <1>7, <1>8, <1>9 DEF Awaited
<1>11. waiting'[e] = r
  BY <1>0
<1> QED
  BY <1>10, <1>11 DEF Awaited, Responded, Queued

\* A thread that is inside a call has a reason to be.
LEMMA WaitSoundStep ==
    ASSUME TypeOK, AnswerInv, CreateInv, EndInv, FlowInv, CallbackInv, WaitInv, [Next]_vars,
           NEW e \in End
    PROVE  WaitSound(e)'
<1>1. WaitMove(e) /\ Peer(e) \in End
  BY WaitMoves, PeerEnd
<1>2. CASE waiting'[e] = None
  BY <1>2 DEF WaitSound
<1>3. CASE waiting'[e] = waiting[e] /\ waiting[e] # None
  <2>1. PICK r \in Req : r = waiting[e]
    BY <1>3 DEF TypeOK
  <2>2. /\ From(r) = e /\ Blocking(r) /\ outcome[r] = "blocked" /\ ~Queued(e, "Write", r)
        /\ waiting'[e] = r /\ r # None /\ e[1] = r.side
    BY <1>3, <2>1 DEF WaitInv, WaitSound, From
  <2>3. /\ ~RunTask(e) /\ ~Crash(e[1]) /\ impl'[e] = "bound"
    BY <1>3, WaitStays
  <2>4. outcome'[r] = "blocked"
    <3>1. ASSUME NEW d \in End, RunTask(d), Head(queue[d]) = [op |-> "Write", req |-> r]
          PROVE  FALSE
      <4>1. Head(queue[d]) \in ToSet(queue[d])
        BY <3>1, RunsWhich, RunEffect
      <4>2. From(r) = d
        BY <3>1, <4>1 DEF AnswerInv, TaskHome
      <4> QED
        BY <2>2, <2>3, <3>1, <4>2
    <3>2. ASSUME NEW d \in End, waiting[d] = r, waiting'[d] = None
          PROVE  FALSE
      <4>1. From(r) = d
        BY <2>2, <3>2 DEF WaitInv, WaitSound
      <4> QED
        BY <2>2, <3>2, <4>1
    <3>3. OutcomeMove(r)
      BY OutcomeMoves
    <3> QED
      BY <2>2, <2>3, <3>1, <3>2, <3>3 DEF OutcomeMove
  <2>5. ~Queued(e, "Write", r)'
    <3>1. ASSUME Queued(e, "Write", r)'
          PROVE  FALSE
      <4>1. Posted(e, [op |-> "Write", req |-> r])
        BY <2>2, <3>1, TaskPosted
      <4>2. SendMMMojoWriteInfo(r)
        BY <4>1 DEF Posted
      <4> QED
        BY <2>2, <4>2 DEF SendMMMojoWriteInfo
    <3> QED
      BY <3>1
  <2>6. Awaited(e, waiting[e])'
    BY <1>3, AwaitedStays
  <2> QED
    BY <2>2, <2>3, <2>4, <2>5, <2>6 DEF WaitSound, Queued
<1>4. ASSUME NEW m \in Method, SyncWrite(e, m), impl[e] = "bound",
             waiting'[e] = Head(queue[e]).req
      PROVE  WaitSound(e)'
  <2>1. /\ RunTask(e) /\ RunsTask(e, "Write")
        /\ Blocking(Head(queue[e]).req) /\ SendMessage(e, Head(queue[e]).req)
        /\ UNCHANGED <<outcome, impl, recv>>
    BY <1>4, RunsOne DEF SyncWrite, endVars
  <2>2. /\ queue[e] # <<>> /\ Head(queue[e]) \in Task /\ Head(queue[e]).op = "Write"
        /\ Head(queue[e]) \in ToSet(queue[e])
    BY <2>1, RunEffect
  <2>3. PICK r \in Req : Head(queue[e]) = [op |-> "Write", req |-> r]
    BY <2>2 DEF Task
  <2>4. Head(queue[e]).req = r /\ r # None
    BY <2>3, ParamAssumption
  <2>5. Queued(e, "Write", r) /\ ~Queued(e, "Write", r)'
    BY <2>1, <2>2, <2>3, TaskGone DEF Queued
  <2>6. From(r) = e /\ Blocking(r) /\ r.sync
    BY <2>1, <2>2, <2>3, <2>4 DEF AnswerInv, TaskHome, Blocking
  <2>7. outcome'[r] = "blocked"
    BY <2>1, <2>5, <2>6 DEF WaitInv, CallSound
  <2>8. Awaited(e, r)'
    <3>1. CASE recv[Peer(e)] = "closed"
      BY <2>1, <3>1 DEF Awaited
    <3>2. CASE recv[Peer(e)] # "closed"
      <4>1. requests'[e] = Append(requests[e], r) /\ requests[e] \in Seq(Req)
        BY <2>1, <2>4, <3>2 DEF SendMessage, TypeOK
      <4>2. ToSet(Append(requests[e], r)) = ToSet(requests[e]) \cup {r}
        BY <4>1, AppendElements
      <4> QED
        BY <4>1, <4>2 DEF Awaited
    <3> QED
      BY <3>1, <3>2
  <2>9. waiting'[e] = r
    BY <1>4, <2>4
  <2> QED
    BY <1>4, <2>1, <2>5, <2>6, <2>7, <2>8, <2>9 DEF WaitSound, Awaited, Responded, Queued
<1> QED
  BY <1>1, <1>2, <1>3, <1>4 DEF WaitMove

\* Waiting threads and open calls together.
LEMMA WaitInvStep ==
    ASSUME TypeOK, AnswerInv, CreateInv, EndInv, FlowInv, CallbackInv, WaitInv, [Next]_vars
    PROVE  WaitInv'
<1>1. \A e \in End : WaitSound(e)'
  BY WaitSoundStep
<1>2. \A r \in Req : Blocking(r) /\ Open(r)' => waiting'[From(r)] = r \/ Cut(From(r))'
  BY OpenStep
<1>3. \A r \in Req : \A e \in End : Queued(e, "Write", r)' /\ r.sync => outcome'[r] = "blocked"
  BY QueuedBlocks
<1> QED
  BY <1>1, <1>2, <1>3 DEF WaitInv, CallSound
-----------------------------------------------------------------------------
(* The theorems                                                            *)

\* A new environment has one task per thread and nothing else.
LEMMA InitDelivery == Init => DeliveryInv
<1> SUFFICES ASSUME Init
             PROVE  DeliveryInv
  OBVIOUS
<1> DEFINE c == [op |-> "Create", req |-> None]
<1>1. TypeOK /\ AnswerInv /\ CreateInv /\ ResultInv
  BY InitIInv DEF IInv
<1>2. \A e \in End : /\ queue[e] = <<c>> /\ requests[e] = <<>> /\ responses[e] = <<>>
                     /\ sent[e] = <<>> /\ waiting[e] = None /\ e[1] \in Side
                     /\ impl[e] = "absent" /\ recv[e] = "fresh" /\ stream[e]
  BY PeerEnd DEF Init
<1>3. \A p \in Side : alive[p]
  BY DEF Init
<1>4. \A r \in Req : outcome[r] = "idle" /\ dispatched[r] = 0 /\ answered[r] = 0
  BY DEF Init
<1>5. held = {}
  BY DEF Init
<1>6. \A e \in End : ToSet(requests[e]) = {} /\ ToSet(responses[e]) = {} /\ ToSet(sent[e]) = {}
  BY <1>2, EmptyElements
<1>7. \A e \in End : ToSet(queue[e]) = {c}
  <2>1. c \in Task /\ <<>> \in Seq(Task)
    BY TaskType, EmptyElements
  <2>2. ToSet(<<c>>) = {c}
    BY <2>1, OneElement
  <2> QED
    BY <1>2, <2>2
<1>8. \A r : \A e \in End : \A op \in {"Remove", "RaiseError", "Write", "PullResp"} :
          ~Queued(e, op, r)
  BY <1>7 DEF Queued
<1> HIDE DEF c
<1>9. \A e \in End : Peer(e) \in End
  BY PeerEnd
<1>10. EndInv
  BY <1>2, <1>3, <1>8, <1>9 DEF EndInv, EndSound
<1>11. FlowInv
  <2>1. \A e \in End : IsInjective(sent[e])
    BY <1>2 DEF IsInjective
  <2>2. \A e \in End : Ordered(requests[e], InSent(e)) /\ Ordered(queue[e], InTasks(e))
    BY <1>2, OrderedShort
  <2> QED
    BY <1>6, <1>8, <2>1, <2>2 DEF FlowInv, FlowSound
<1>12. ReadInv /\ OvertakeInv
  BY <1>4 DEF ReadInv, OvertakeInv
<1>13. CallbackInv
  <2>1. \A e \in End : /\ Ordered(responses[e], DistinctRequests)
                       /\ Ordered(queue[e], Distinct(Task))
    BY <1>2, OrderedShort
  <2>2. \A r \in Req : To(r) \in End
    BY RequestEnds
  <2> QED
    BY <1>4, <1>5, <1>6, <1>8, <2>1, <2>2
    DEF CallbackInv, CallbackSound, ResponsesSound
<1>14. WaitInv
  <2>1. \A r \in Req : From(r) \in End /\ To(r) \in End
    BY RequestEnds
  <2> QED
    BY <1>2, <1>5, <1>6, <1>8, <2>1 DEF WaitInv, WaitSound, CallSound, Open
<1> QED
  BY <1>1, <1>10, <1>11, <1>12, <1>13, <1>14 DEF DeliveryInv

\* Every step keeps the whole invariant.
LEMMA DeliveryStep == DeliveryInv /\ [Next]_vars => DeliveryInv'
<1> SUFFICES ASSUME DeliveryInv, [Next]_vars
             PROVE  DeliveryInv'
  OBVIOUS
<1>1. /\ TypeOK /\ AnswerInv /\ CreateInv /\ ResultInv
      /\ EndInv /\ FlowInv /\ ReadInv /\ OvertakeInv /\ CallbackInv /\ WaitInv
  BY DEF DeliveryInv
<1>2. TypeOK' /\ AnswerInv' /\ CreateInv' /\ ResultInv'
  BY <1>1, StepType, AnswerStep, CreateStep, ResultStep
<1>3. EndInv' /\ FlowInv' /\ ReadInv' /\ OvertakeInv'
  BY <1>1, EndStep, FlowStep, ReadStep, OvertakeStep
<1>4. CallbackInv' /\ WaitInv'
  BY <1>1, CallbackInvStep, WaitInvStep
<1> QED
  BY <1>2, <1>3, <1>4 DEF DeliveryInv

\* The ends of every stream, the order of what is posted, read and answered on
\* it, and what its threads wait for are sound in every state of the program.
THEOREM DeliveryInvariant == Spec => []DeliveryInv
  BY InitDelivery, DeliveryStep, PTL DEF Spec

\* The two ways to say that a task is in a queue.
LEMMA PendingQueued ==
    ASSUME TypeOK, NEW e \in End, NEW op, NEW r
    PROVE  Pending(e, op, r) <=> Queued(e, op, r)
<1>1. queue[e] \in Seq(Task)
  BY DEF TypeOK
<1>2. DOMAIN queue[e] = 1..Len(queue[e])
  BY <1>1
<1>3. \A x : x \in ToSet(queue[e]) <=> \E i \in 1..Len(queue[e]) : queue[e][i] = x
  BY <1>1, ElementIndex
<1> QED
  BY <1>2, <1>3 DEF Pending, Queued

\* Whatever is posted, blocked, broken or answered, a request is read at most
\* once, and the sender's callback gets at most one response to it, and only
\* if the peer did read it.
THEOREM ReadAtMostOnce == Spec => []AtMostOnce
<1>1. DeliveryInv => AtMostOnce
  BY DEF DeliveryInv, ReadInv, CallbackInv, CallbackSound, AtMostOnce
<1> QED
  BY <1>1, DeliveryInvariant, PTL

\* Requests are read in the order Send posted them, with no gap, but for the
\* synchronous ones that overtake asynchronous ones at a thread inside a call.
THEOREM ReadInOrder == Spec => []NoGap
<1>1. DeliveryInv => NoGap
  <2> SUFFICES ASSUME DeliveryInv, NEW e \in End, NEW i \in DOMAIN sent[e],
                      NEW j \in DOMAIN sent[e], i < j, dispatched[sent[e][j]] > 0
               PROVE  \/ dispatched[sent[e][i]] > 0
                      \/ Blocking(sent[e][j]) /\ ~Blocking(sent[e][i])
    BY DEF NoGap
  <2>1. sent[e] \in Seq(Req)
    BY DEF DeliveryInv, TypeOK
  <2>2. PICK a \in Req, b \in Req : a = sent[e][i] /\ b = sent[e][j]
    BY <2>1
  <2>3. <<a, b>> \in InSent(e)
    BY <2>2 DEF InSent, Precedes
  <2> QED
    BY <2>2, <2>3 DEF DeliveryInv, OvertakeInv
<1> QED
  BY <1>1, DeliveryInvariant, PTL

\* A request Send said true to is queued, on its way or read, as long as its
\* stream is whole.
THEOREM NothingLost == Spec => []NoSilentLoss
<1>1. DeliveryInv => NoSilentLoss
  <2> SUFFICES ASSUME DeliveryInv, NEW r \in Req, outcome[r] = "true", ~Blocking(r)
               PROVE  \/ Pending(From(r), "Write", r)
                      \/ r \in ToSet(requests[From(r)])
                      \/ dispatched[r] > 0
                      \/ Broken(StreamOf(r))
    BY DEF NoSilentLoss
  <2>1. TypeOK /\ CreateInv /\ FlowInv /\ ReadInv /\ From(r) \in End
    BY RequestEnds DEF DeliveryInv
  <2>2. r \in ToSet(sent[From(r)])
    BY <2>1 DEF ReadInv
  <2>3. \/ dispatched[r] > 0 \/ r \in ToSet(requests[From(r)])
        \/ Queued(From(r), "Write", r) \/ Cut(From(r))
    BY <2>1, <2>2 DEF FlowInv, FlowSound
  <2>4. Cut(From(r)) => recv[From(r)] = "closed" \/ recv[Peer(From(r))] = "closed"
    BY <2>1 DEF Cut, CreateInv, CreateFirst
  <2>5. r.side \in Side /\ Other(r.side) \in Side
    BY ParamAssumption DEF Requests, Side, Other
  <2>6. recv[From(r)] = "closed" \/ recv[Peer(From(r))] = "closed" => Broken(StreamOf(r))
    BY <2>5 DEF Broken, From, Peer
  <2> QED
    BY <2>1, <2>3, <2>4, <2>6, PendingQueued
<1> QED
  BY <1>1, DeliveryInvariant, PTL

\* A thread inside a synchronous call has something to wait for: its request,
\* the response, an application, a task of the peer or the end of the pipe.
THEOREM WaitsForSomething == Spec => []NoOrphanWait
<1>1. DeliveryInv => NoOrphanWait
  <2> SUFFICES ASSUME DeliveryInv, NEW e \in End, waiting[e] # None
               PROVE  \/ waiting[e] \in ToSet(requests[e])
                      \/ waiting[e] \in held
                      \/ \E m \in ToSet(responses[e]) : m.req = waiting[e]
                      \/ Pending(Peer(e), "PullResp", waiting[e])
                      \/ Pending(Peer(e), "RaiseError", waiting[e])
                      \/ Pending(Peer(e), "Remove", None)
                      \/ recv[Peer(e)] = "closed"
    BY DEF NoOrphanWait
  <2>1. TypeOK /\ Peer(e) \in End
    BY PeerEnd DEF DeliveryInv
  <2>2. From(waiting[e]) = e /\ Awaited(e, waiting[e])
    BY DEF DeliveryInv, WaitInv, WaitSound
  <2> QED
    BY <2>1, <2>2, PendingQueued DEF Awaited, Responded
<1> QED
  BY <1>1, DeliveryInvariant, PTL

\* Only two synchronous pulls, one from each side, can keep the threads of a
\* stream from running the tasks that would answer them.
THEOREM DeadlockNeedsPulls == Spec => []OnlyCrossedPullsDeadlock
<1>1. DeliveryInv => OnlyCrossedPullsDeadlock
  <2> SUFFICES ASSUME DeliveryInv, NEW s \in Stream, Deadlocked(s), NEW p \in Side
               PROVE  waiting[<<p, s>>].method = "kMMPullReq"
    BY DEF OnlyCrossedPullsDeadlock
  <2>1. <<p, s>> \in End /\ Unanswered(<<p, s>>)
    BY DEF End, Deadlocked
  <2>2. PICK e \in End : e = <<p, s>>
    BY <2>1
  <2>3. PICK r : r = waiting[e]
    OBVIOUS
  <2>4. /\ r # None /\ recv[Peer(e)] # "closed" /\ r \notin held
        /\ r \notin ToSet(requests[e])
        /\ \A m \in ToSet(responses[e]) : m.req # r
    BY <2>1, <2>2, <2>3 DEF Unanswered
  <2>5. From(r) = e /\ Awaited(e, r)
    BY <2>3, <2>4 DEF DeliveryInv, WaitInv, WaitSound
  <2> QED
    BY <2>2, <2>3, <2>4, <2>5 DEF Awaited, Responded
<1> QED
  BY <1>1, DeliveryInvariant, PTL

\* After remote_on_disconnect the stream calls no read callback any more:
\* neither for a request nor for a response.
THEOREM DisconnectedIsQuiet == Spec => QuietAfterDisconnect
<1> DEFINE Quiet == \A r \in Req : /\ impl[To(r)] = "reset" => dispatched'[r] = dispatched[r]
                                   /\ impl[From(r)] = "reset" => answered'[r] = answered[r]
<1>1. ASSUME DeliveryInv, [Next]_vars
      PROVE  Quiet
  <2> SUFFICES ASSUME NEW r \in Req
               PROVE  /\ impl[To(r)] = "reset" => dispatched'[r] = dispatched[r]
                      /\ impl[From(r)] = "reset" => answered'[r] = answered[r]
    OBVIOUS
  <2>1. TypeOK /\ CreateInv /\ FlowInv /\ CallbackInv /\ From(r) \in End /\ To(r) \in End
    BY <1>1, RequestEnds DEF DeliveryInv
  <2>2. ASSUME impl[To(r)] = "reset"
        PROVE  dispatched'[r] = dispatched[r]
    <3>1. recv[To(r)] = "closed"
      BY <2>1, <2>2 DEF CreateInv, CreateFirst
    <3>2. ASSUME NEW e \in End, NEW i, Reads(e, i)
          PROVE  dispatched'[r] = dispatched[r]
      <4>1. /\ recv[Peer(e)] = "open" /\ requests[e] \in Seq(Req) /\ i \in 1..Len(requests[e])
            /\ dispatched' = [dispatched EXCEPT ![requests[e][i]] = @ + 1]
        BY <2>1, <3>2, ReadsEffect
      <4>2. requests[e][i] = r => From(r) = e
        BY <2>1, <4>1, ElementIndex DEF FlowInv, FlowSound
      <4>3. requests[e][i] # r
        BY <3>1, <4>1, <4>2 DEF To
      <4> QED
        BY <2>1, <4>1, <4>3 DEF TypeOK
    <3> QED
      BY <1>1, <2>1, <3>2, RequestMoves
  <2>3. ASSUME impl[From(r)] = "reset"
        PROVE  answered'[r] = answered[r]
    <3>1. ASSUME NEW e \in End, ReadResponse(e), responses[e] # <<>>,
                 answered' = [answered EXCEPT ![Head(responses[e]).req] = @ + 1]
          PROVE  answered'[r] = answered[r]
      <4>1. impl[e] = "bound"
        BY <3>1 DEF ReadResponse, OnPushReqMMMojoReadInfo, OnPushReqMMMojoReadInfoSync,
           TakeResponse
      <4>2. responses[e] \in Seq(Response)
        BY <2>1, ResponseTypes
      <4>3. Head(responses[e]) \in ToSet(responses[e])
        BY <3>1, <4>2, TailElements
      <4>4. Head(responses[e]).req # r
        BY <2>1, <2>3, <4>1, <4>3 DEF CallbackInv, ResponsesSound
      <4> QED
        BY <2>1, <3>1, <4>4 DEF TypeOK
    <3> QED
      BY <1>1, <2>1, <3>1, AnsweredMoves DEF AnsweredMove
  <2> QED
    BY <2>2, <2>3
<1> HIDE DEF Quiet
<1>2. DeliveryInv /\ [Next]_vars => [Quiet]_vars
  BY <1>1
<1>3. Spec => [][Quiet]_vars
  BY <1>2, DeliveryInvariant, PTL DEF Spec
<1> QED
  BY <1>3 DEF Quiet, QuietAfterDisconnect
=============================================================================
