-------------------------- MODULE MMMojoCallProofs --------------------------
(***************************************************************************)
(* That the threads, tasks and pipes of MMMojoStream keep the contract of  *)
(* MMMojoCall: each step shows to the applications as one call, one        *)
(* return, one read, one answer or one break of the contract, or not.      *)
(***************************************************************************)
EXTENDS MMMojoDeliveryProofs

-----------------------------------------------------------------------------
(* What shows of a state                                                   *)

Breaks == {s \in Stream : Broken(s)}
shown  == <<outcome, info, sent, dispatched, answered, Breaks>>

\* Where the requests are sent, in the terms of the contract.
LEMMA Channels ==
    ASSUME NEW r \in Req
    PROVE  /\ [q \in Req |-> From(q)][r] = From(r)
           /\ From(r)[1] = r.side /\ From(r)[2] = StreamOf(r)
           /\ r.side \in Side /\ StreamOf(r) \in Stream
  BY ParamAssumption DEF From, Stream, Requests

\* A stream one of whose ends closed, stopped or died is broken.
LEMMA EndBreaks ==
    ASSUME NEW e \in End, ~alive[e[1]] \/ ~stream[e] \/ recv[e] = "closed"
    PROVE  e[2] \in Breaks
  BY DEF End, Breaks, Broken

\* Nothing breaks or heals where no end changes.
LEMMA BreaksStay ==
    ASSUME UNCHANGED <<alive, stream, recv>>
    PROVE  UNCHANGED Breaks
  BY DEF Breaks, Broken

\* Closing or stopping one end breaks its stream and no other.
LEMMA BreaksOne ==
    ASSUME TypeOK, NEW e \in End, alive' = alive,
           \/ stream' = [stream EXCEPT ![e] = FALSE] /\ recv' = recv
           \/ recv' = [recv EXCEPT ![e] = "closed"] /\ stream' = stream
    PROVE  Breaks' = Breaks \cup {e[2]}
<1>1. e[1] \in Side /\ e[2] \in Stream /\ e = <<e[1], e[2]>>
  BY DEF End
<1>2. ASSUME NEW s \in Stream, s # e[2]
      PROVE  Broken(s)' <=> Broken(s)
  <2>1. \A p \in Side : <<p, s>> \in End /\ <<p, s>> # e
    BY <1>1, <1>2 DEF End
  <2>2. \A p \in Side : /\ stream'[<<p, s>>] = stream[<<p, s>>]
                        /\ recv'[<<p, s>>] = recv[<<p, s>>]
    BY <2>1 DEF TypeOK
  <2> QED
    BY <2>2 DEF Broken
<1>3. ~stream'[e] \/ recv'[e] = "closed"
  BY DEF TypeOK
<1>4. Broken(e[2])'
  BY <1>1, <1>3 DEF Broken
<1> QED
  BY <1>1, <1>2, <1>4 DEF Breaks
-----------------------------------------------------------------------------
(* The steps of the contract                                               *)

\* What changes nothing that shows is no step of the contract.
LEMMA Stutters ==
    ASSUME UNCHANGED shown
    PROVE  UNCHANGED Call!callVars
  BY DEF shown, Breaks, Call!callVars

\* Send takes a request ...
LEMMA Accepts ==
    ASSUME NEW r \in Req, outcome[r] = "idle",
           outcome' = [outcome EXCEPT ![r] = IF r.sync THEN "blocked" ELSE "true"],
           sent' = [sent EXCEPT ![From(r)] = Append(@, r)],
           UNCHANGED <<info, dispatched, answered, Breaks>>
    PROVE  Call!Accept(r)
  BY Channels DEF Call!Accept, Breaks

\* ... or refuses it: its stream is broken.
LEMMA Refuses ==
    ASSUME NEW r \in Req, outcome[r] = "idle", StreamOf(r) \in Breaks,
           outcome' = [outcome EXCEPT ![r] = "false"],
           UNCHANGED <<info, sent, dispatched, answered, Breaks>>
    PROVE  Call!Refuse(r)
  BY Channels DEF Call!Refuse, Call!StreamOf, Breaks

\* A call that waits ends well: for a blocking one the peer's callback ran ...
LEMMA Succeeds ==
    ASSUME NEW r \in Req, outcome[r] = "blocked",
           Blocking(r) => dispatched[r] > 0 /\ HasReader(r),
           outcome' = [outcome EXCEPT ![r] = "true"],
           info' = IF Blocking(r) /\ r.method = "kMMPullReq"
                   THEN [info EXCEPT ![r] = "reply"] ELSE info,
           UNCHANGED <<sent, dispatched, answered, Breaks>>
    PROVE  Call!Succeed(r)
  BY DEF Call!Succeed, Breaks

\* ... or not: its stream is broken, or nobody wanted to read the request.
LEMMA Fails ==
    ASSUME NEW r \in Req, outcome[r] = "blocked",
           \/ StreamOf(r) \in Breaks
           \/ Blocking(r) /\ ~HasReader(r) /\ dispatched[r] > 0,
           outcome' = [outcome EXCEPT ![r] = "false"],
           \/ info' = info
           \/ /\ Blocking(r) /\ r.method = "kMMPullReq"
              /\ info' = [info EXCEPT ![r] = "empty"],
           UNCHANGED <<sent, dispatched, answered, Breaks>>
    PROVE  Call!Fail(r)
  BY Channels DEF Call!Fail, Call!StreamOf, Breaks

\* The peer takes a request off the pipe: it is its turn, and the first time.
LEMMA ReadShows ==
    ASSUME TypeOK, FlowInv, NEW e \in End, NEW i, Reads(e, i)
    PROVE  Call!Read(requests[e][i])
<1> USE DEF threadVars, endVars, callVars
<1>1. /\ requests[e] \in Seq(Req) /\ i \in 1..Len(requests[e]) /\ FlowSound(e)
      /\ dispatched' = [dispatched EXCEPT ![requests[e][i]] = @ + 1]
      /\ UNCHANGED <<outcome, info, sent, answered, alive, stream, recv>>
  BY ReadsEffect DEF FlowInv
<1>2. PICK r \in Req : r = requests[e][i]
  BY <1>1
<1>3. r \in ToSet(sent[e]) /\ dispatched[r] = 0 /\ From(r) = e
  <2>1. r \in ToSet(requests[e])
    BY <1>1, <1>2, ElementIndex
  <2> QED
    BY <1>1, <2>1 DEF FlowSound
<1>4. sent[e] \in Seq(Req)
  BY FlowTypes
<1>5. PICK j \in 1..Len(sent[e]) : sent[e][j] = r
  BY <1>3, <1>4, ElementIndex
<1>6. ASSUME NEW k \in 1..j - 1
      PROVE  dispatched[sent[e][k]] > 0 \/ (Blocking(r) /\ ~Blocking(sent[e][k]))
  <2>1. k \in DOMAIN sent[e] /\ j \in DOMAIN sent[e] /\ k < j
    BY <1>4, <1>5
  <2>2. PICK a \in Req : a = sent[e][k]
    BY <1>4, <2>1
  <2>3. <<a, r>> \in InSent(e)
    BY <1>5, <2>1, <2>2 DEF InSent, Precedes
  <2> QED
    BY <1>1, <1>2, <2>2, <2>3, ReadInTurn
<1>7. Call!InTurn(r)
  <2>1. sent[[q \in Req |-> From(q)][r]] = sent[e]
    BY <1>3, Channels
  <2>2. j \in DOMAIN sent[e]
    BY <1>4
  <2>3. \A k \in 1..j - 1 : sent[e][k] \in Req
    BY <1>4, <1>5
  <2> QED
    BY <1>5, <1>6, <2>1, <2>2, <2>3 DEF Call!InTurn
<1>8. dispatched' = [dispatched EXCEPT ![r] = 1]
  BY <1>1, <1>2, <1>3 DEF TypeOK
<1>9. UNCHANGED Breaks
  BY <1>1, BreaksStay
<1>10. Call!Read(r)
  BY <1>1, <1>3, <1>7, <1>8, <1>9 DEF Call!Read, Breaks
<1> QED
  BY <1>2, <1>10

\* A pull's data reaches the callback of its sender.
LEMMA Collects ==
    ASSUME NEW r \in Req, r.method = "kMMPullReq", "kMMPullReq" \in ReadCallback[r.side],
           ~Blocking(r), dispatched[r] > 0, answered[r] = 0,
           answered' = [answered EXCEPT ![r] = @ + 1], answered \in [Req -> Nat],
           UNCHANGED <<outcome, info, sent, dispatched, Breaks>>
    PROVE  Call!Collect(r)
<1>1. answered' = [answered EXCEPT ![r] = 1]
  OBVIOUS
<1> QED
  BY <1>1 DEF Call!Collect, Breaks

\* A stream breaks.
LEMMA BreakShows ==
    ASSUME NEW e \in End, Breaks' = Breaks \cup {e[2]},
           UNCHANGED <<outcome, info, sent, dispatched, answered>>
    PROVE  Call!Break(e[2]) /\ e[2] \in Stream
  BY DEF Call!Break, Breaks, End

\* A process dies: its callers with it, and every stream breaks.
LEMMA CrashShows ==
    ASSUME TypeOK, NEW p \in Side, Crash(p)
    PROVE  Call!Die(p)
<1>1. Breaks' = Stream
  <2>1. ~alive'[p]
    BY DEF Crash, TypeOK
  <2> QED
    BY <2>1 DEF Breaks, Broken
<1>2. outcome' = [r \in Req |-> IF [q \in Req |-> From(q)][r][1] = p /\ outcome[r] = "blocked"
                               THEN "dead" ELSE outcome[r]]
  BY Channels DEF Crash
<1>3. UNCHANGED <<info, sent, dispatched, answered>>
  BY DEF Crash, histVars
<1> QED
  BY <1>1, <1>2, <1>3 DEF Call!Die, Breaks
-----------------------------------------------------------------------------
(* The steps of the program                                                *)

Shows == Call!Next \/ UNCHANGED Call!callVars

\* What a step of the contract is.
LEMMA ShowsOne ==
    /\ \A r \in Req : Call!Accept(r) \/ Call!Refuse(r) \/ Call!Read(r) => Shows
    /\ \A r \in Req : Call!Succeed(r) \/ Call!Fail(r) \/ Call!Collect(r) => Shows
    /\ \A s \in Stream : Call!Break(s) => Shows
    /\ \A p \in Side : Call!Die(p) => Shows
    /\ UNCHANGED shown => Shows
  BY Stutters DEF Shows, Call!Next

\* The calls of the applications.
LEMMA AppShows ==
    ASSUME TypeOK, NEW r \in Req,
           \/ SendMMMojoWriteInfo(r) \/ SendPullResp(r)
           \/ RemoveMMMojoReadInfo(r) \/ RemoveMMMojoReadInfoInCallback(r)
    PROVE  Shows
<1> USE DEF threadVars, wireVars, endVars, callVars, histVars
<1>1. CASE SendMMMojoWriteInfo(r)
  <2>1. UNCHANGED Breaks
    BY <1>1, BreaksStay DEF SendMMMojoWriteInfo
  <2>2. outcome[r] = "idle" /\ UNCHANGED <<info, dispatched, answered>>
    BY <1>1 DEF SendMMMojoWriteInfo
  <2>3. CASE stream[From(r)]
    <3>1. /\ outcome' = [outcome EXCEPT ![r] = IF r.sync THEN "blocked" ELSE "true"]
          /\ sent' = [sent EXCEPT ![From(r)] = Append(@, r)]
      BY <1>1, <2>3 DEF SendMMMojoWriteInfo
    <3>2. Call!Accept(r)
      BY <2>1, <2>2, <3>1, Accepts
    <3> QED
      BY <3>2, ShowsOne
  <2>4. CASE ~stream[From(r)]
    <3>1. outcome' = [outcome EXCEPT ![r] = "false"] /\ sent' = sent
      BY <1>1, <2>4 DEF SendMMMojoWriteInfo
    <3>2. StreamOf(r) \in Breaks
      BY <2>4, RequestEnds, Channels, EndBreaks
    <3>3. Call!Refuse(r)
      BY <2>1, <2>2, <3>1, <3>2, Refuses
    <3> QED
      BY <3>3, ShowsOne
  <2> QED
    BY <2>3, <2>4
<1>2. CASE SendPullResp(r) \/ RemoveMMMojoReadInfo(r)
  <2>1. UNCHANGED <<alive, stream, recv, outcome, info, sent, dispatched, answered>>
    BY <1>2 DEF SendPullResp, RemoveMMMojoReadInfo
  <2>2. UNCHANGED Breaks
    BY <2>1, BreaksStay
  <2> QED
    BY <2>1, <2>2, ShowsOne DEF shown
<1>3. CASE RemoveMMMojoReadInfoInCallback(r)
  <2>1. /\ UNCHANGED <<alive, stream, outcome, info, sent, dispatched, answered>>
        /\ recv' = [recv EXCEPT ![To(r)] = "closed"]
    BY <1>3 DEF RemoveMMMojoReadInfoInCallback
  <2>2. To(r) \in End
    BY RequestEnds
  <2>3. Breaks' = Breaks \cup {To(r)[2]}
    BY <2>1, <2>2, BreaksOne
  <2> QED
    BY <2>1, <2>2, <2>3, BreakShows, ShowsOne
<1> QED
  BY <1>1, <1>2, <1>3

\* The ends that open, close and stop.
LEMMA EndShows ==
    ASSUME TypeOK, CreateInv, NEW e \in End,
           \/ StopStream(e) \/ CreateRemoteAndReceiverStream(e)
           \/ RemoveRemoteAndReceiverStream(e) \/ RaiseError(e) \/ OnMojoDisconnect(e)
    PROVE  Shows
<1> USE DEF threadVars, wireVars, endVars, callVars, histVars
<1>1. CASE CreateRemoteAndReceiverStream(e)
  <2>1. /\ UNCHANGED <<alive, stream, outcome, info, sent, dispatched, answered>>
        /\ recv' = [recv EXCEPT ![e] = "open"]
    BY <1>1 DEF CreateRemoteAndReceiverStream
  <2>2. recv[e] = "fresh"
    BY <1>1, RunCreate DEF CreateRemoteAndReceiverStream, CreateFirst
  <2>3. \A d \in End : recv'[d] = "closed" <=> recv[d] = "closed"
    BY <2>1, <2>2 DEF TypeOK
  <2>4. UNCHANGED Breaks
    BY <2>1, <2>3 DEF Breaks, Broken, End
  <2> QED
    BY <2>1, <2>4, ShowsOne DEF shown
<1>2. CASE \/ StopStream(e) \/ RemoveRemoteAndReceiverStream(e)
           \/ RaiseError(e) \/ OnMojoDisconnect(e)
  <2>1. /\ UNCHANGED <<alive, outcome, info, sent, dispatched, answered>>
        /\ \/ stream' = [stream EXCEPT ![e] = FALSE] /\ recv' = recv
           \/ recv' = [recv EXCEPT ![e] = "closed"] /\ stream' = stream
    BY <1>2 DEF StopStream, RemoveRemoteAndReceiverStream, RaiseError, OnMojoDisconnect
  <2>2. Breaks' = Breaks \cup {e[2]}
    BY <2>1, BreaksOne
  <2> QED
    BY <2>1, <2>2, BreakShows, ShowsOne
<1> QED
  BY <1>1, <1>2

\* A thread runs a task that writes: it is a request of this end, a synchronous
\* one has its caller waiting, and without remote_ the stream is broken.
LEMMA WriteEffect ==
    ASSUME TypeOK, AnswerInv, CreateInv, WaitInv, NEW e \in End, RunsTask(e, "Write"),
           NEW r, r = Head(queue[e]).req
    PROVE  /\ r \in Req /\ From(r) = e /\ StreamOf(r) = e[2]
           /\ r.sync => outcome[r] = "blocked"
           /\ impl[e] # "bound" => StreamOf(r) \in Breaks
<1>1. /\ queue[e] # <<>> /\ Head(queue[e]) \in Task /\ Head(queue[e]).op = "Write"
      /\ Head(queue[e]) \in ToSet(queue[e])
  BY RunEffect
<1>2. r \in Req /\ Head(queue[e]) = [op |-> "Write", req |-> r]
  BY <1>1, TaskType DEF Task
<1>3. From(r) = e
  BY <1>1, <1>2 DEF AnswerInv, TaskHome
<1>4. Queued(e, "Write", r)
  BY <1>1, <1>2 DEF Queued
<1>5. r.sync => outcome[r] = "blocked"
  BY <1>2, <1>4 DEF WaitInv, CallSound
<1>6. impl[e] # "bound" => recv[e] = "closed"
  <2>1. impl[e] # "absent"
    BY RunCreate
  <2>2. impl[e] \in {"absent", "bound", "reset", "removed"}
    BY DEF TypeOK, ImplState
  <2> QED
    BY <2>1, <2>2 DEF CreateInv, CreateFirst
<1>7. StreamOf(r) = e[2]
  BY <1>2, <1>3, Channels
<1> QED
  BY <1>2, <1>3, <1>5, <1>6, <1>7, EndBreaks

\* The tasks that write and answer.
LEMMA TaskShows ==
    ASSUME TypeOK, AnswerInv, CreateInv, WaitInv, NEW e \in End,
           \/ \E m \in Method : AsyncWrite(e, m) \/ SyncWrite(e, m)
           \/ PullReqWithCallback(e)
           \/ \E b \in BOOLEAN : AnswerPull(e, b)
    PROVE  Shows
<1> USE DEF threadVars, wireVars, endVars, callVars, histVars
<1>1. UNCHANGED <<alive, stream, recv, sent, dispatched, answered, info>>
  BY DEF AsyncWrite, SyncWrite, PullReqWithCallback, AnswerPull
<1>2. UNCHANGED Breaks
  BY <1>1, BreaksStay
<1>3. CASE UNCHANGED outcome
  BY <1>1, <1>2, <1>3, ShowsOne DEF shown
<1>4. ASSUME RunsTask(e, "Write"), NEW r, r = Head(queue[e]).req, r.sync, impl[e] # "bound",
             outcome' = [outcome EXCEPT ![r] = "false"]
      PROVE  Shows
  <2>1. r \in Req /\ outcome[r] = "blocked" /\ StreamOf(r) \in Breaks
    BY <1>4, WriteEffect
  <2>2. Call!Fail(r)
    BY <1>1, <1>2, <1>4, <2>1, Fails
  <2> QED
    BY <2>1, <2>2, ShowsOne
<1>5. ASSUME NEW m \in Method, SyncWrite(e, m)
      PROVE  Shows
  <2>1. PICK r : r = Head(queue[e]).req
    OBVIOUS
  <2>2. /\ RunsTask(e, "Write") /\ r.sync
        /\ impl[e] = "bound" => UNCHANGED outcome
        /\ impl[e] # "bound" => outcome' = [outcome EXCEPT ![r] = "false"]
    BY <1>5, <2>1 DEF SyncWrite, Blocking
  <2> QED
    BY <1>3, <1>4, <2>1, <2>2
<1>6. CASE PullReqWithCallback(e)
  <2>1. PICK r : r = Head(queue[e]).req
    OBVIOUS
  <2>2. /\ RunsTask(e, "Write") /\ r.sync /\ ~Blocking(r)
        /\ impl[e] = "bound" => outcome' = [outcome EXCEPT ![r] = "true"]
        /\ impl[e] # "bound" => outcome' = [outcome EXCEPT ![r] = "false"]
    BY <1>6, <2>1 DEF PullReqWithCallback
  <2>3. CASE impl[e] = "bound"
    <3>1. r \in Req /\ outcome[r] = "blocked"
      BY <2>1, <2>2, WriteEffect
    <3>2. Call!Succeed(r)
      BY <1>1, <1>2, <2>2, <2>3, <3>1, Succeeds
    <3> QED
      BY <3>1, <3>2, ShowsOne
  <2> QED
    BY <1>4, <2>1, <2>2, <2>3
<1>7. ASSUME NEW m \in Method, AsyncWrite(e, m)
      PROVE  UNCHANGED outcome
  BY <1>7 DEF AsyncWrite
<1>8. ASSUME NEW b \in BOOLEAN, AnswerPull(e, b)
      PROVE  UNCHANGED outcome
  BY <1>8 DEF AnswerPull
<1> QED
  BY <1>3, <1>5, <1>6, <1>7, <1>8

\* A synchronous call that returns.
LEMMA ReturnShows ==
    ASSUME TypeOK, AnswerInv, WaitInv, NEW e \in End, SyncResponse(e) \/ SyncDisconnect(e)
    PROVE  Shows
<1> USE DEF threadVars, wireVars, endVars, callVars, histVars
<1>1. UNCHANGED <<alive, stream, recv, sent, dispatched, answered>>
  BY DEF SyncResponse, SyncDisconnect
<1>2. UNCHANGED Breaks
  BY <1>1, BreaksStay
<1>3. PICK r \in Req : r = waiting[e]
  BY DEF SyncResponse, SyncDisconnect, TypeOK
<1>4. r # None /\ From(r) = e /\ Blocking(r) /\ outcome[r] = "blocked"
  BY <1>3 DEF SyncResponse, SyncDisconnect, WaitInv, WaitSound
<1>5. CASE SyncResponse(e)
  <2>1. responses[e] \in Seq(Response)
    BY ResponseTypes
  <2>2. PICK i \in DOMAIN responses[e] :
          /\ responses[e][i].req = waiting[e]
          /\ outcome' = [outcome EXCEPT ![responses[e][i].req] =
                             IF responses[e][i].success THEN "true" ELSE "false"]
          /\ info' = IF responses[e][i].req.method # "kMMPullReq" THEN info
                     ELSE [info EXCEPT ![responses[e][i].req] =
                               IF responses[e][i].success THEN "reply" ELSE "empty"]
    BY <1>5 DEF SyncResponse
  <2>3. PICK m \in Response : m = responses[e][i] /\ m \in ToSet(responses[e])
    <3>1. i \in 1..Len(responses[e])
      BY <2>1
    <3> QED
      BY <2>1, <3>1, ElementIndex
  <2>4. /\ m.req = r /\ m.success \in BOOLEAN
        /\ outcome' = [outcome EXCEPT ![r] = IF m.success THEN "true" ELSE "false"]
        /\ info' = IF r.method # "kMMPullReq" THEN info
                   ELSE [info EXCEPT ![r] = IF m.success THEN "reply" ELSE "empty"]
    BY <1>3, <2>2, <2>3 DEF Response
  <2>5. dispatched[r] > 0 /\ (m.success <=> HasReader(r))
    BY <2>3, <2>4 DEF AnswerInv, ResponseTrue
  <2>6. CASE m.success
    <3>1. Call!Succeed(r)
      BY <1>1, <1>2, <1>4, <2>4, <2>5, <2>6, Succeeds
    <3> QED
      BY <3>1, ShowsOne
  <2>7. CASE ~m.success
    <3>1. Call!Fail(r)
      BY <1>1, <1>2, <1>4, <2>4, <2>5, <2>7, Fails
    <3> QED
      BY <3>1, ShowsOne
  <2> QED
    BY <2>6, <2>7
<1>6. CASE SyncDisconnect(e)
  <2>1. /\ recv[Peer(e)] = "closed" /\ outcome' = [outcome EXCEPT ![r] = "false"]
        /\ info' = IF r.method # "kMMPullReq" THEN info ELSE [info EXCEPT ![r] = "empty"]
    BY <1>3, <1>6 DEF SyncDisconnect
  <2>2. Peer(e) \in End /\ Peer(e)[2] = e[2]
    BY PeerEnd DEF Peer
  <2>3. StreamOf(r) \in Breaks
    BY <1>4, <2>1, <2>2, Channels, EndBreaks
  <2>4. Call!Fail(r)
    BY <1>1, <1>2, <1>4, <2>1, <2>3, Fails
  <2> QED
    BY <2>4, ShowsOne
<1> QED
  BY <1>5, <1>6

\* A message that is read: a request by the peer ...
LEMMA RequestShows ==
    ASSUME TypeOK, FlowInv, NEW e \in End,
           \/ \E m \in Method : OneWay(e, m) \/ Acknowledge(e, m)
           \/ \E b \in BOOLEAN : ReadPull(e, b)
    PROVE  Shows
<1>1. PICK i : Reads(Peer(e), i)
  BY ReadsHow
<1>2. Peer(e) \in End
  BY PeerEnd
<1>3. requests[Peer(e)][i] \in Req
  BY <1>1, <1>2, ReadsEffect
<1>4. Call!Read(requests[Peer(e)][i])
  BY <1>1, <1>2, ReadShows
<1> QED
  BY <1>3, <1>4, ShowsOne

\* ... or a response by the sender, whose thread is not inside a call: it is to
\* a pull nobody waits for.
LEMMA ResponseShows ==
    ASSUME TypeOK, AnswerInv, CallbackInv, NEW e \in End, ReadResponse(e)
    PROVE  Shows
<1> USE DEF threadVars, wireVars, endVars, callVars, histVars
<1>1. /\ Idle(e) /\ responses[e] # <<>>
      /\ UNCHANGED <<alive, stream, recv, outcome, info, sent, dispatched>>
  BY DEF ReadResponse, OnPushReqMMMojoReadInfo, OnPushReqMMMojoReadInfoSync, TakeResponse
<1>2. UNCHANGED Breaks
  BY <1>1, BreaksStay
<1>3. responses[e] \in Seq(Response)
  BY ResponseTypes
<1>4. PICK m \in Response : m = Head(responses[e]) /\ m \in ToSet(responses[e])
  BY <1>1, <1>3, TailElements
<1>5. PICK r \in Req : r = m.req
  BY DEF Response
<1>6. /\ From(r) = e /\ answered[r] = 0 /\ dispatched[r] > 0
      /\ r.method = "kMMPullReq" \/ Blocking(r)
      /\ Blocking(r) => waiting[e] = r
  BY <1>4, <1>5 DEF CallbackInv, ResponsesSound, AnswerInv, ResponseTrue
<1>7. ~Blocking(r) /\ r.method = "kMMPullReq" /\ e[1] = r.side
  BY <1>1, <1>5, <1>6, Channels, ParamAssumption DEF Idle
<1>8. CASE UNCHANGED answered
  BY <1>1, <1>2, <1>8, ShowsOne DEF shown
<1>9. CASE answered' # answered
  <2>1. /\ "kMMPullReq" \in ReadCallback[r.side]
        /\ answered' = [answered EXCEPT ![r] = @ + 1]
    BY <1>4, <1>5, <1>7, <1>9 DEF ReadResponse, OnPushReqMMMojoReadInfo,
       OnPushReqMMMojoReadInfoSync, CallReader
  <2>2. answered \in [Req -> Nat]
    BY DEF TypeOK
  <2>3. Call!Collect(r)
    BY <1>1, <1>2, <1>6, <1>7, <2>1, <2>2, Collects
  <2> QED
    BY <2>3, ShowsOne
<1> QED
  BY <1>8, <1>9
-----------------------------------------------------------------------------
(* The refinement                                                          *)

\* A new pair of environments shows nothing yet.
LEMMA InitShows == Init => Call!Init
<1> SUFFICES ASSUME Init
             PROVE  Call!Init
  OBVIOUS
<1>1. \A s \in Stream : ~Broken(s)
  BY DEF Init, Broken, End
<1> QED
  BY <1>1 DEF Init, Call!Init, End

\* Every step is one of the contract, or does not show.
LEMMA StepShows == DeliveryInv /\ [Next]_vars => [Call!Next]_(Call!callVars)
<1> SUFFICES ASSUME DeliveryInv, [Next]_vars
             PROVE  Shows
  BY DEF Shows
<1>1. TypeOK /\ AnswerInv /\ CreateInv /\ FlowInv /\ CallbackInv /\ WaitInv
  BY DEF DeliveryInv
<1>2. ASSUME NEW p \in Side, Crash(p)
      PROVE  Shows
  BY <1>1, <1>2, CrashShows, ShowsOne
<1>3. CASE (\E e \in End : LoseRequest(e) \/ LoseResponse(e)) \/ UNCHANGED vars
  <2>1. UNCHANGED <<alive, stream, recv, outcome, info, sent, dispatched, answered>>
    BY <1>3 DEF LoseRequest, LoseResponse, vars, endVars, callVars, histVars
  <2>2. UNCHANGED Breaks
    BY <2>1, BreaksStay
  <2> QED
    BY <2>1, <2>2, ShowsOne DEF shown
<1> QED
  BY <1>1, <1>2, <1>3, AppShows, EndShows, TaskShows, ReturnShows, RequestShows,
     ResponseShows, NextCases

\* Threads, tasks, pipes, stops and crashes keep the contract of the calls: what
\* the applications see of an execution is an execution of MMMojoCall.
THEOREM ContractKept == Spec => KeepsContract
<1>1. Spec => [][Call!Next]_(Call!callVars)
  BY StepShows, DeliveryInvariant, PTL DEF Spec
<1> QED
  BY <1>1, InitShows, PTL DEF Spec, KeepsContract, Call!Spec
=============================================================================
