---------------------------- MODULE MMMojoStream ----------------------------
(***************************************************************************)
(* The read/write streams that connect a host process with its child, as   *)
(* common/mmmojo_stream.cc and common/mmmojo_service_impl.cc implement     *)
(* them, together with the part of MMMojoEnvironment that posts a write    *)
(* info to a stream (common/mmmojo_environment.cc).                        *)
(*                                                                         *)
(* Each process runs one thread per stream.  A stream joins two message    *)
(* pipes: the `remote_' of one side writes to the `receiver_' of the other *)
(* side, and the other way round.  A response travels back on the pipe of  *)
(* its request.  A thread inside a synchronous Mojo call runs none of its  *)
(* posted tasks, and of the incoming messages it dispatches only the       *)
(* synchronous ones.                                                       *)
(***************************************************************************)
EXTENDS Naturals, Sequences, SequencesExt

CONSTANTS
    Host, Child,          \* the two processes
    Default, DefaultSync, \* the default streams of an environment
    AppendStreams,        \* the streams asked for with add_num_messagepipe
    NoPipe,               \* message_pipe is not set
    None,                 \* no request
    Req,                  \* the requests the two applications may send
    ReadCallback,         \* the read callbacks each application has set
    Faults                \* what may go wrong: see Fault

Side   == {Host, Child}
Method == {"kMMPush", "kMMPullReq", "kMMShared"}
Fault  == {"crash", "stop", "discard"}

Requests ==
    [id : Nat, side : Side, method : Method, sync : BOOLEAN,
     pipe : AppendStreams \cup {NoPipe}, response_info : BOOLEAN]

ASSUME ParamAssumption ==
    /\ Host # Child
    /\ Default # DefaultSync
    /\ {Default, DefaultSync} \cap AppendStreams = {}
    /\ NoPipe \notin AppendStreams
    /\ Req \subseteq Requests
    /\ None \notin Req
    /\ ReadCallback \in [Side -> SUBSET Method]
    /\ Faults \subseteq Fault

\* The stream SendMMMojoWriteInfo chooses for a request.
StreamOf(r) ==
    IF r.pipe # NoPipe THEN r.pipe ELSE IF r.sync THEN DefaultSync ELSE Default

\* Only the streams some request uses: the others never do anything but start.
Stream   == {StreamOf(r) : r \in Req}
End      == Side \X Stream
Other(p) == IF p = Host THEN Child ELSE Host
Peer(e)  == <<Other(e[1]), e[2]>>
From(r)  == <<r.side, StreamOf(r)>>   \* the end that writes r
To(r)    == Peer(From(r))             \* the end that reads r

\* The Mojo call for r is a synchronous one.  ShakeHandHi with a callback,
\* which is what a synchronous pull without response_info does, is not.
Blocking(r) == r.sync /\ (r.method = "kMMPullReq" => r.response_info)

HasReader(r) == r.method \in ReadCallback[Other(r.side)]

\* What may be posted to the thread of a stream.
Task == [op : {"Create", "Remove"}, req : {None}]
          \cup [op : {"RaiseError", "Write", "PullResp"}, req : Req]
-----------------------------------------------------------------------------
VARIABLES
    alive,      \* the process runs
    stream,     \* the environment holds the stream (unique_ptr not null)
    queue,      \* tasks posted to the thread of an end
    impl,       \* impl_ and its remote_, see ImplState
    recv,       \* receiver_ of an end
    requests,   \* in flight from remote_ of an end to receiver_ of its peer
    responses,  \* in flight back to remote_ of an end
    waiting,    \* the request whose synchronous call the thread is inside
    held,       \* pulls an application has read and not answered
    outcome,    \* what SendMMMojoWriteInfo returned for a request
    info,       \* what *response_info points to
    sent,       \* history: the requests posted to an end, in order
    dispatched, \* history: how often the peer dispatched a request
    answered    \* history: how often the sender's callback got a response

threadVars == <<queue, waiting>>
wireVars   == <<requests, responses>>
endVars    == <<alive, stream, impl, recv>>
callVars   == <<outcome, info>>
histVars   == <<sent, dispatched, answered>>
vars == <<threadVars, wireVars, endVars, held, callVars, histVars>>

\* impl_ null; impl_ with a bound remote_; after OnMojoDisconnect; impl_ null again
ImplState == {"absent", "bound", "reset", "removed"}

TypeOK ==
    /\ alive \in [Side -> BOOLEAN]
    /\ stream \in [End -> BOOLEAN]
    /\ queue \in [End -> Seq(Task)]
    /\ impl \in [End -> ImplState]
    /\ recv \in [End -> {"fresh", "open", "closed"}]
    /\ requests \in [End -> Seq(Req)]
    /\ responses \in [End -> Seq([req : Req, success : BOOLEAN])]
    /\ waiting \in [End -> Req \cup {None}]
    /\ held \subseteq Req
    /\ outcome \in [Req -> {"idle", "blocked", "true", "false", "dead"}]
    /\ info \in [Req -> {"unset", "empty", "reply"}]
    /\ sent \in [End -> Seq(Req)]
    /\ dispatched \in [Req -> Nat]
    /\ answered \in [Req -> Nat]

\* Both environments have started and posted CreateRemoteAndReceiverStream;
\* an application may send once remote_on_connect was called, which follows.
Init ==
    /\ alive = [p \in Side |-> TRUE]
    /\ stream = [e \in End |-> TRUE]
    /\ queue = [e \in End |-> <<[op |-> "Create", req |-> None]>>]
    /\ impl = [e \in End |-> "absent"]
    /\ recv = [e \in End |-> "fresh"]
    /\ requests = [e \in End |-> <<>>]
    /\ responses = [e \in End |-> <<>>]
    /\ waiting = [e \in End |-> None]
    /\ held = {}
    /\ outcome = [r \in Req |-> "idle"]
    /\ info = [r \in Req |-> "unset"]
    /\ sent = [e \in End |-> <<>>]
    /\ dispatched = [r \in Req |-> 0]
    /\ answered = [r \in Req |-> 0]
-----------------------------------------------------------------------------
(* The application's calls                                                 *)

\* Mutants of Post: the write info is moved away before the task is built; a
\* task runs before those posted earlier.
PostMovedAway(e, op, r) ==
    queue' = [queue EXCEPT ![e] = Append(@, [op |-> op, req |-> None])]
PostAtFront(e, op, r) ==
    queue' = [queue EXCEPT ![e] = <<[op |-> op, req |-> r]>> \o @]

Post(e, op, r) == queue' = [queue EXCEPT ![e] = Append(@, [op |-> op, req |-> r])]

\* A synchronous request makes its caller wait for the task; an asynchronous
\* one returns true as soon as the task is posted.
SendMMMojoWriteInfo(r) ==
    /\ alive[r.side] /\ outcome[r] = "idle"
    /\ \/ /\ stream[From(r)]
          /\ Post(From(r), "Write", r)
          /\ sent' = [sent EXCEPT ![From(r)] = Append(@, r)]
          /\ outcome' = [outcome EXCEPT ![r] = IF r.sync THEN "blocked" ELSE "true"]
       \/ /\ ~stream[From(r)] /\ r.pipe = NoPipe
          /\ outcome' = [outcome EXCEPT ![r] = "false"]
          /\ UNCHANGED <<queue, sent>>
    /\ UNCHANGED <<waiting, wireVars, endVars, held, info, dispatched, answered>>

\* Mutant: the callback is copied, and the read info keeps it.
SendPullRespCopy(r) ==
    /\ r \in held
    /\ stream[To(r)] \/ r.pipe = NoPipe
    /\ IF stream[To(r)] THEN Post(To(r), "PullResp", r) ELSE UNCHANGED queue
    /\ UNCHANGED <<held, waiting, wireVars, endVars, callVars, histVars>>

\* SwapMMMojoWriteInfoCallback and SendMMMojoWriteInfo of a kMMPullResp: the
\* response callback moves from the read info to a task of the stream.
SendPullResp(r) ==
    /\ r \in held
    /\ stream[To(r)] \/ r.pipe = NoPipe
    /\ held' = held \ {r}
    /\ IF stream[To(r)] THEN Post(To(r), "PullResp", r) ELSE UNCHANGED queue
    /\ UNCHANGED <<waiting, wireVars, endVars, callVars, histVars>>

\* Mutant: the read info is forgotten, not deleted.
RemoveMMMojoReadInfoLeak(r) ==
    /\ "discard" \in Faults
    /\ r \in held
    /\ held' = held \ {r}
    /\ UNCHANGED <<threadVars, wireVars, endVars, callVars, histVars>>

\* RemoveMMMojoReadInfo of a pull nobody answered destroys its callback, and
\* Mojo then posts an error to the sequence of the receiver.
RemoveMMMojoReadInfo(r) ==
    /\ "discard" \in Faults
    /\ r \in held
    /\ held' = held \ {r}
    /\ IF stream[To(r)] THEN Post(To(r), "RaiseError", r) ELSE UNCHANGED queue
    /\ UNCHANGED <<waiting, wireVars, endVars, callVars, histVars>>

\* If a callback on the stream's own thread does it, even one that runs inside
\* a synchronous call, the receiving end closes at once.
RemoveMMMojoReadInfoInCallback(r) ==
    /\ "discard" \in Faults
    /\ r \in held
    /\ recv[To(r)] = "open"
    /\ held' = held \ {r}
    /\ recv' = [recv EXCEPT ![To(r)] = "closed"]
    /\ requests' = [requests EXCEPT ![From(r)] = <<>>]
    /\ UNCHANGED <<threadVars, responses, alive, stream, impl, callVars, histVars>>

\* StopEnvironment, for one stream: the last task is posted and the pointer
\* is null while the thread drains its queue and is joined.
StopStream(e) ==
    /\ "stop" \in Faults
    /\ alive[e[1]] /\ stream[e]
    /\ Post(e, "Remove", None)
    /\ stream' = [stream EXCEPT ![e] = FALSE]
    /\ UNCHANGED <<waiting, wireVars, alive, impl, recv, held, callVars, histVars>>
-----------------------------------------------------------------------------
(* Tasks of a stream's thread                                              *)

Idle(e) == alive[e[1]] /\ waiting[e] = None

RunsTask(e, op) ==
    /\ Idle(e)
    /\ queue[e] # <<>> /\ Head(queue[e]).op = op
    /\ queue' = [queue EXCEPT ![e] = Tail(@)]

CreateRemoteAndReceiverStream(e) ==
    /\ RunsTask(e, "Create")
    /\ impl' = [impl EXCEPT ![e] = "bound"]
    /\ recv' = [recv EXCEPT ![e] = "open"]
    /\ UNCHANGED <<waiting, wireVars, alive, stream, held, callVars, histVars>>

\* Destroying impl_ closes both pipes: what was still unread on them is lost,
\* what this end wrote before is not.
RemoveRemoteAndReceiverStream(e) ==
    /\ RunsTask(e, "Remove")
    /\ impl' = [impl EXCEPT ![e] = "removed"]
    /\ recv' = [recv EXCEPT ![e] = "closed"]
    /\ requests' = [requests EXCEPT ![Peer(e)] = <<>>]
    /\ responses' = [responses EXCEPT ![e] = <<>>]
    /\ UNCHANGED <<waiting, alive, stream, held, callVars, histVars>>

\* Mojo's reaction to a destroyed response callback.
RaiseError(e) ==
    /\ RunsTask(e, "RaiseError")
    /\ recv' = [recv EXCEPT ![e] = "closed"]
    /\ requests' = [requests EXCEPT ![Peer(e)] = <<>>]
    /\ UNCHANGED <<waiting, responses, alive, stream, impl, held, callVars, histVars>>

\* A message to a receiver that is gone is dropped.
SendMessage(e, r) ==
    requests' = IF recv[Peer(e)] = "closed" THEN requests
                ELSE [requests EXCEPT ![e] = Append(@, r)]

\* Mutant: remote_ is tested in the wrong sense.
AsyncWriteNegated(e, method) ==
    /\ RunsTask(e, "Write")
    /\ LET r == Head(queue[e]).req
       IN  /\ r.method = method /\ ~r.sync
           /\ IF impl[e] # "bound" THEN SendMessage(e, r) ELSE UNCHANGED requests
    /\ UNCHANGED <<waiting, responses, endVars, held, callVars, histVars>>

\* Push, pull and shared memory: impl_->remote_->Hello, Hi or Hey
AsyncWrite(e, method) ==
    /\ RunsTask(e, "Write")
    /\ LET r == Head(queue[e]).req
       IN  /\ r.method = method /\ ~r.sync
           /\ IF impl[e] = "bound" THEN SendMessage(e, r) ELSE UNCHANGED requests
    /\ UNCHANGED <<waiting, responses, endVars, held, callVars, histVars>>

PushMMMojoWriteInfo(e)    == AsyncWrite(e, "kMMPush")
PullReqMMMojoWriteInfo(e) == AsyncWrite(e, "kMMPullReq")
SharedMMMojoWriteInfo(e)  == AsyncWrite(e, "kMMShared")

\* Mutant: event->Signal() moved inside the test of remote_.
SyncWriteUnsignalled(e, method) ==
    /\ RunsTask(e, "Write")
    /\ LET r == Head(queue[e]).req
       IN  /\ r.method = method /\ Blocking(r)
           /\ IF impl[e] = "bound"
              THEN SendMessage(e, r) /\ waiting' = [waiting EXCEPT ![e] = r]
              ELSE UNCHANGED <<requests, waiting>>
    /\ UNCHANGED <<responses, endVars, held, callVars, histVars>>

\* A synchronous ShakeHand call starts; without remote_ the caller gets false.
SyncWrite(e, method) ==
    /\ RunsTask(e, "Write")
    /\ LET r == Head(queue[e]).req
       IN  /\ r.method = method /\ Blocking(r)
           /\ IF impl[e] = "bound"
              THEN /\ SendMessage(e, r)
                   /\ waiting' = [waiting EXCEPT ![e] = r]
                   /\ UNCHANGED outcome
              ELSE /\ outcome' = [outcome EXCEPT ![r] = "false"]
                   /\ UNCHANGED <<requests, waiting>>
    /\ UNCHANGED <<responses, endVars, held, info, histVars>>

\* ShakeHandHi with a callback: the caller gets true without a response.
PullReqWithCallback(e) ==
    /\ RunsTask(e, "Write")
    /\ LET r == Head(queue[e]).req
       IN  /\ r.method = "kMMPullReq" /\ r.sync /\ ~Blocking(r)
           /\ IF impl[e] = "bound" THEN SendMessage(e, r) ELSE UNCHANGED requests
           /\ outcome' = [outcome EXCEPT ![r] =
                              IF impl[e] = "bound" THEN "true" ELSE "false"]
    /\ UNCHANGED <<waiting, responses, endVars, held, info, histVars>>

PushMMMojoWriteInfoSync(e)    == SyncWrite(e, "kMMPush")
PullReqMMMojoWriteInfoSync(e) == SyncWrite(e, "kMMPullReq") \/ PullReqWithCallback(e)
SharedMMMojoWriteInfoSync(e)  == SyncWrite(e, "kMMShared")

\* The receiving end answers: the response goes to the remote_ of its peer.
Respond(e, r, success) ==
    responses' = IF impl[Peer(e)] = "bound" /\ recv[e] = "open"
                 THEN [responses EXCEPT ![Peer(e)] =
                           Append(@, [req |-> r, success |-> success])]
                 ELSE responses

\* Mutant: the swapped callback does not reach the task.
AnswerPullDropped(e, sync) ==
    /\ RunsTask(e, "PullResp")
    /\ Head(queue[e]).req.sync = sync
    /\ UNCHANGED <<waiting, wireVars, endVars, held, callVars, histVars>>

AnswerPull(e, sync) ==
    /\ RunsTask(e, "PullResp")
    /\ LET r == Head(queue[e]).req
       IN  /\ r.sync = sync
           /\ IF impl[e] \in {"bound", "reset"} THEN Respond(e, r, TRUE)
              ELSE UNCHANGED responses
    /\ UNCHANGED <<waiting, requests, endVars, held, callVars, histVars>>

PullRespMMMojoWriteInfo(e)     == AnswerPull(e, FALSE)
PullRespMMMojoWriteInfoSync(e) == AnswerPull(e, TRUE)
-----------------------------------------------------------------------------
(* The end of a synchronous call                                           *)

\* The response arrived.  It may overtake asynchronous ones.
SyncResponse(e) ==
    /\ alive[e[1]] /\ waiting[e] # None
    /\ \E i \in DOMAIN responses[e] :
        LET m == responses[e][i]
        IN  /\ m.req = waiting[e]
            /\ responses' = [responses EXCEPT ![e] = RemoveAt(@, i)]
            /\ outcome' = [outcome EXCEPT ![m.req] =
                               IF m.success THEN "true" ELSE "false"]
            /\ info' = IF m.req.method # "kMMPullReq" THEN info
                       ELSE [info EXCEPT ![m.req] =
                                 IF m.success THEN "reply" ELSE "empty"]
    /\ waiting' = [waiting EXCEPT ![e] = None]
    /\ UNCHANGED <<queue, requests, endVars, held, histVars>>

\* The pipe broke first: *success keeps its initial value false, and a pull
\* still creates a read info, without data, for *response_info.
SyncDisconnect(e) ==
    /\ alive[e[1]] /\ waiting[e] # None
    /\ recv[Peer(e)] = "closed"
    /\ \A i \in DOMAIN responses[e] : responses[e][i].req # waiting[e]
    /\ LET r == waiting[e]
       IN  /\ outcome' = [outcome EXCEPT ![r] = "false"]
           /\ info' = IF r.method # "kMMPullReq" THEN info
                      ELSE [info EXCEPT ![r] = "empty"]
    /\ waiting' = [waiting EXCEPT ![e] = None]
    /\ UNCHANGED <<queue, wireVars, endVars, held, histVars>>
-----------------------------------------------------------------------------
(* Messages that reach receiver_                                           *)

\* In order; a thread inside a synchronous call takes the first synchronous one.
Deliverable(e) ==
    LET q == requests[Peer(e)]
    IN  IF waiting[e] = None THEN {i \in DOMAIN q : i = 1}
        ELSE {i \in DOMAIN q : Blocking(q[i]) /\ \A j \in 1..i-1 : ~Blocking(q[j])}

\* Message i is taken off the pipe for the handler of its method.
Dispatch(e, i, method, sync) ==
    LET r == requests[Peer(e)][i]
    IN  /\ alive[e[1]] /\ recv[e] = "open"
        /\ r.method = method /\ r.sync = sync
        /\ requests' = [requests EXCEPT ![Peer(e)] = RemoveAt(@, i)]
        /\ dispatched' = [dispatched EXCEPT ![r] = @ + 1]
        /\ UNCHANGED <<threadVars, endVars, callVars, sent, answered>>

\* read_on_push and read_on_shared return nothing to the sender ...
OneWay(e, method) ==
    \E i \in Deliverable(e) :
        Dispatch(e, i, method, FALSE) /\ UNCHANGED <<responses, held>>

\* Mutants of Acknowledge: success whether or not there is a callback; the
\* application answers, as it does a pull.
AcknowledgeTrue(e, method) ==
    \E i \in Deliverable(e) :
        /\ Dispatch(e, i, method, TRUE)
        /\ LET r == requests[Peer(e)][i] IN Respond(e, r, TRUE)
        /\ UNCHANGED held
AcknowledgeLater(e, method) ==
    \E i \in Deliverable(e) :
        /\ Dispatch(e, i, method, TRUE)
        /\ held' = held \cup {requests[Peer(e)][i]}
        /\ UNCHANGED responses

\* ... unless the message was sent synchronously.
Acknowledge(e, method) ==
    \E i \in Deliverable(e) :
        /\ Dispatch(e, i, method, TRUE)
        /\ LET r == requests[Peer(e)][i] IN Respond(e, r, HasReader(r))
        /\ UNCHANGED held

\* A pull is answered by the application when it likes, or at once, and
\* unsuccessfully, if it has no read_on_pull.
ReadPull(e, sync) ==
    \E i \in Deliverable(e) :
        /\ Dispatch(e, i, "kMMPullReq", sync)
        /\ LET r == requests[Peer(e)][i]
           IN  \/ HasReader(r) /\ held' = held \cup {r} /\ UNCHANGED responses
               \/ ~HasReader(r) /\ Respond(e, r, FALSE) /\ UNCHANGED held

Hello(e) == OneWay(e, "kMMPush")
Hi(e)    == ReadPull(e, FALSE)
Hey(e)   == OneWay(e, "kMMShared")

ShakeHandHello(e) == Acknowledge(e, "kMMPush")
ShakeHandHi(e)    == ReadPull(e, TRUE)
ShakeHandHey(e)   == Acknowledge(e, "kMMShared")
-----------------------------------------------------------------------------
(* Messages that reach remote_                                             *)

TakeResponse(e, sync) ==
    /\ Idle(e) /\ impl[e] = "bound"
    /\ responses[e] # <<>> /\ Head(responses[e]).req.sync = sync
    /\ responses' = [responses EXCEPT ![e] = Tail(@)]
    /\ UNCHANGED <<threadVars, requests, endVars, held, callVars, sent, dispatched>>

CallReader(e, r) ==
    answered' = IF "kMMPullReq" \in ReadCallback[e[1]]
                THEN [answered EXCEPT ![r] = @ + 1] ELSE answered

OnPushReqMMMojoReadInfo(e) ==
    /\ TakeResponse(e, FALSE)
    /\ CallReader(e, Head(responses[e]).req)

\* Only this variant looks at success.
OnPushReqMMMojoReadInfoSync(e) ==
    /\ TakeResponse(e, TRUE)
    /\ IF Head(responses[e]).success THEN CallReader(e, Head(responses[e]).req)
       ELSE UNCHANGED answered

\* Mutant: receiver_.reset() is missing.
OnMojoDisconnectHalf(e) ==
    /\ Idle(e) /\ impl[e] = "bound"
    /\ recv[Peer(e)] = "closed" /\ responses[e] = <<>>
    /\ impl' = [impl EXCEPT ![e] = "reset"]
    /\ UNCHANGED <<threadVars, wireVars, alive, stream, recv, held, callVars, histVars>>

\* remote_ has no peer any more and every response that did arrive was read.
\* The inbound pipe is closed with whatever it still holds.
OnMojoDisconnect(e) ==
    /\ Idle(e) /\ impl[e] = "bound"
    /\ recv[Peer(e)] = "closed" /\ responses[e] = <<>>
    /\ impl' = [impl EXCEPT ![e] = "reset"]
    /\ recv' = [recv EXCEPT ![e] = "closed"]
    /\ requests' = [requests EXCEPT ![Peer(e)] = <<>>]
    /\ UNCHANGED <<threadVars, responses, alive, stream, held, callVars, histVars>>
-----------------------------------------------------------------------------
(* A process dies                                                          *)

Crash(p) ==
    LET dead == {p} \X Stream
    IN  /\ "crash" \in Faults
        /\ alive[p]
        /\ alive' = [alive EXCEPT ![p] = FALSE]
        /\ stream' = [e \in End |-> stream[e] /\ e \notin dead]
        /\ queue' = [e \in End |-> IF e \in dead THEN <<>> ELSE queue[e]]
        /\ waiting' = [e \in End |-> IF e \in dead THEN None ELSE waiting[e]]
        /\ impl' = [e \in End |-> IF e \in dead THEN "removed" ELSE impl[e]]
        /\ recv' = [e \in End |-> IF e \in dead THEN "closed" ELSE recv[e]]
        /\ requests' = [e \in End |-> IF Peer(e) \in dead THEN <<>> ELSE requests[e]]
        /\ responses' = [e \in End |-> IF e \in dead THEN <<>> ELSE responses[e]]
        /\ held' = {r \in held : To(r) \notin dead}
        /\ outcome' = [r \in Req |-> IF r.side = p /\ outcome[r] = "blocked"
                                     THEN "dead" ELSE outcome[r]]
        /\ UNCHANGED <<info, histVars>>

\* What a dead process wrote last may never leave it.
LoseRequest(e) ==
    /\ ~alive[e[1]] /\ requests[e] # <<>>
    /\ requests' = [requests EXCEPT ![e] = SubSeq(@, 1, Len(@) - 1)]
    /\ UNCHANGED <<threadVars, responses, endVars, held, callVars, histVars>>

LoseResponse(e) ==
    /\ ~alive[Other(e[1])] /\ responses[e] # <<>>
    /\ responses' = [responses EXCEPT ![e] = SubSeq(@, 1, Len(@) - 1)]
    /\ UNCHANGED <<threadVars, requests, endVars, held, callVars, histVars>>
-----------------------------------------------------------------------------
RunTask(e) ==
    \/ CreateRemoteAndReceiverStream(e)
    \/ RemoveRemoteAndReceiverStream(e)
    \/ RaiseError(e)
    \/ PushMMMojoWriteInfo(e)
    \/ PullReqMMMojoWriteInfo(e)
    \/ SharedMMMojoWriteInfo(e)
    \/ PushMMMojoWriteInfoSync(e)
    \/ PullReqMMMojoWriteInfoSync(e)
    \/ SharedMMMojoWriteInfoSync(e)
    \/ PullRespMMMojoWriteInfo(e)
    \/ PullRespMMMojoWriteInfoSync(e)

EndSyncCall(e) == SyncResponse(e) \/ SyncDisconnect(e)

ReadRequest(e) ==
    \/ Hello(e)
    \/ Hi(e)
    \/ Hey(e)
    \/ ShakeHandHello(e)
    \/ ShakeHandHi(e)
    \/ ShakeHandHey(e)

ReadResponse(e) == OnPushReqMMMojoReadInfo(e) \/ OnPushReqMMMojoReadInfoSync(e)

ThreadStep(e) ==
    RunTask(e) \/ EndSyncCall(e) \/ ReadRequest(e) \/ ReadResponse(e) \/ OnMojoDisconnect(e)

AppStep(r) ==
    \/ SendMMMojoWriteInfo(r)
    \/ SendPullResp(r)
    \/ RemoveMMMojoReadInfo(r)
    \/ RemoveMMMojoReadInfoInCallback(r)

Next ==
    \/ \E r \in Req : AppStep(r)
    \/ \E e \in End : ThreadStep(e) \/ StopStream(e) \/ LoseRequest(e) \/ LoseResponse(e)
    \/ \E p \in Side : Crash(p)

Spec == Init /\ [][Next]_vars

\* The thread of a stream serves its tasks and its pipes, each without
\* starving another, and an application deals with every pull it was given.
\* Nothing obliges an application to send or to stop, or a process to die.
Fairness ==
    /\ \A e \in End : /\ WF_vars(RunTask(e))
                      /\ WF_vars(EndSyncCall(e))
                      /\ WF_vars(ReadRequest(e))
                      /\ WF_vars(ReadResponse(e))
                      /\ WF_vars(OnMojoDisconnect(e))
    /\ \A r \in Req : WF_vars(SendPullResp(r) \/ RemoveMMMojoReadInfo(r))

FairSpec == Spec /\ Fairness
-----------------------------------------------------------------------------
(* Safety                                                                  *)

\* Something happened to stream s that its users can notice.
Broken(s) ==
    \E p \in Side : \/ ~alive[p]
                   \/ ~stream[<<p, s>>]
                   \/ recv[<<p, s>>] = "closed"

Pending(e, op, r) == \E i \in DOMAIN queue[e] : queue[e][i] = [op |-> op, req |-> r]

\* What a synchronous Send returns is what happened at the other side: true
\* only if the peer's read callback ran, and for a pull only with its answer;
\* false, on a stream that is whole, only if that callback did not run.
SyncResultTruthful ==
    \A r \in Req : Blocking(r) =>
        /\ outcome[r] = "true" =>
               /\ dispatched[r] > 0 /\ HasReader(r)
               /\ r.method # "kMMPullReq" \/ info[r] = "reply"
        /\ outcome[r] = "false" /\ ~Broken(StreamOf(r)) =>
               dispatched[r] = 0 \/ ~HasReader(r)

\* Whatever is posted, blocked, broken or answered, the peer reads a request
\* at most once, and a sender's callback gets at most one response, to a
\* request its peer did read.
AtMostOnce ==
    \A r \in Req : answered[r] <= dispatched[r] /\ dispatched[r] <= 1

\* The peer reads the requests of one end in the order Send posted them, and
\* misses none that came before one it read; only a synchronous call may
\* overtake, and only asynchronous ones.
NoGap ==
    \A e \in End : \A i, j \in DOMAIN sent[e] :
        i < j /\ dispatched[sent[e][j]] > 0 =>
            \/ dispatched[sent[e][i]] > 0
            \/ Blocking(sent[e][j]) /\ ~Blocking(sent[e][i])

\* A thread inside a synchronous call always has something to wait for: its
\* request or the response is on its way, an application has to answer, the
\* answer, the error or the stop is queued at the peer, or the pipe is broken.
NoOrphanWait ==
    \A e \in End : LET r == waiting[e] IN r # None =>
        \/ r \in ToSet(requests[e])
        \/ r \in held
        \/ \E m \in ToSet(responses[e]) : m.req = r
        \/ Pending(Peer(e), "PullResp", r)
        \/ Pending(Peer(e), "RaiseError", r)
        \/ Pending(Peer(e), "Remove", None)
        \/ recv[Peer(e)] = "closed"

\* A request Send said true to, without waiting, is still queued, on its way
\* or read as long as its stream is whole.
NoSilentLoss ==
    \A r \in Req : outcome[r] = "true" /\ ~Blocking(r) =>
        \/ Pending(From(r), "Write", r)
        \/ r \in ToSet(requests[From(r)])
        \/ dispatched[r] > 0
        \/ Broken(StreamOf(r))

\* A call that nothing but a task queued at the peer can end.
Unanswered(e) ==
    LET r == waiting[e]
    IN  /\ r # None /\ recv[Peer(e)] # "closed" /\ r \notin held
        /\ r \notin ToSet(requests[e])
        /\ \A m \in ToSet(responses[e]) : m.req # r

\* Both threads of a stream wait for a task behind the other's call.
Deadlocked(s) == \A p \in Side : Unanswered(<<p, s>>)

\* The threads of a stream can only block each other for good by pulling
\* synchronously from both sides: a read_on_pull is answered by a task, a
\* push or a shared memory within the call.
OnlyCrossedPullsDeadlock ==
    \A s \in Stream : Deadlocked(s) =>
        \A p \in Side : waiting[<<p, s>>].method = "kMMPullReq"

\* After remote_on_disconnect of a stream, that stream calls none of the read
\* callbacks any more; the others of the environment, which share user_data_,
\* still may.
QuietAfterDisconnect ==
    [][\A r \in Req : /\ impl[To(r)] = "reset" => dispatched'[r] = dispatched[r]
                      /\ impl[From(r)] = "reset" => answered'[r] = answered[r]]_vars
-----------------------------------------------------------------------------
(* Liveness                                                                *)

\* Every synchronous Send returns, whatever crashes, stops or stays
\* unanswered, unless two pulls cross.
BlockedReturns ==
    \A r \in Req : outcome[r] = "blocked" ~>
                   (outcome[r] # "blocked" \/ Deadlocked(StreamOf(r)))

\* StopEnvironment joins the thread of every stream.  The join ends: no call
\* keeps the thread from its last task for good, unless two pulls cross.
StopReturns ==
    \A e \in End : (alive[e[1]] /\ ~stream[e]) ~>
        (impl[e] = "removed" \/ Deadlocked(e[2]))

\* One broken direction takes the whole stream down: each side that lives is
\* told, or stops by itself.
BrokenHeals ==
    \A e \in End : recv[e] = "closed" ~>
        \A p \in Side : alive[p] => impl[<<p, e[2]>>] \in {"reset", "removed"}

\* What was posted to a stream is read at the other side, unless the stream
\* breaks or deadlocks.
Delivered ==
    \A r \in Req : Pending(From(r), "Write", r) ~>
        (dispatched[r] > 0 \/ Broken(StreamOf(r)) \/ Deadlocked(StreamOf(r)))

\* A pull with a callback gets its response, under the same conditions.
PullAnswered ==
    \A r \in Req :
        /\ r.method = "kMMPullReq" /\ ~Blocking(r)
        /\ HasReader(r) /\ "kMMPullReq" \in ReadCallback[r.side]
        => (dispatched[r] > 0 ~>
               (answered[r] > 0 \/ Broken(StreamOf(r)) \/ Deadlocked(StreamOf(r))))
-----------------------------------------------------------------------------
(* The contract                                                            *)

Call == INSTANCE MMMojoCall WITH
    channel     <- [r \in Req |-> From(r)],
    Sync        <- {r \in Req : r.sync},
    Confirmed   <- {r \in Req : Blocking(r)},
    Pull        <- {r \in Req : r.method = "kMMPullReq"},
    Readable    <- {r \in Req : HasReader(r)},
    Collectable <- {r \in Req : r.method = "kMMPullReq"
                                /\ "kMMPullReq" \in ReadCallback[r.side]},
    result      <- outcome,
    response    <- info,
    posted      <- sent,
    read        <- dispatched,
    answers     <- answered,
    broken      <- {s \in Stream : Broken(s)}

\* Threads, tasks, pipes, stops and crashes together keep the contract of
\* MMMojoCall: every step of theirs is one it allows, or does not show.
KeepsContract == Call!Spec
=============================================================================
