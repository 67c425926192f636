------------------------- MODULE MMMojoEnvironment -------------------------
(***************************************************************************)
(* The threads of one process and how they wait for each other: starting   *)
(* and stopping environments (common/mmmojo_environment.cc), the one IO    *)
(* thread they share (common/mmmojo_io_thread.cc), the thread each stream  *)
(* owns (common/mmmojo_stream.cc), and the application's threads, which    *)
(* wait in a synchronous Send, in StopEnvironment and, if asked to, in     *)
(* StartEnvironment (mmmojo/mmmojo.cc).                                    *)
(*                                                                         *)
(* Callbacks run on the thread of their stream, and those that tell of the *)
(* connection of the processes on the IO thread: the calls an application  *)
(* makes from there block these threads.  Of the peer process only this is *)
(* left, that a synchronous Mojo call returns, and that the peer may go;   *)
(* MMMojoStream says when a call returns.                                  *)
(***************************************************************************)
EXTENDS Naturals, Sequences, SequencesExt

CONSTANTS
    Env,        \* the environments of the process
    StopOrder,  \* the streams of each, in the order they are stopped in
    Loops,      \* environments with loop_start_thread
    App, IO,    \* threads of the application, the IO thread
    Call,       \* the blocking calls the application makes, each once
    NoCall,
    Faulty      \* the pipes whose peer may go, of a stream or of an environment

Stream == ToSet(StopOrder)
Thread == Env \X Stream

Calls == [id : Nat, op : {"Send", "Stop"}, by : {App, IO} \cup Thread, to : Thread]

ASSUME EnvironmentAssumption ==
    /\ App # IO /\ {App, IO} \cap Thread = {}
    /\ StopOrder \in Seq(Stream) /\ IsInjective(StopOrder)
    /\ Loops \subseteq Env /\ Faulty \subseteq Thread \cup Env
    /\ Call \subseteq Calls
    /\ NoCall \notin Call

Task   == [op : {"Create", "Remove"}, call : {NoCall}] \cup [op : {"Write"}, call : Call]
IOTask == [op : {"Start", "Stop", "Disconnect"}, env : Env, call : Call \cup {NoCall}]
NoTask == [op |-> "None"]
NoStream == Len(StopOrder) + 1   \* the loops over the streams are through

VARIABLES
    io_queue,  \* tasks posted to the IO thread
    io_task,   \* the task it is in the middle of
    next,      \* the stream that task has come to, an index in StopOrder
    child,     \* child_process_stream_, which lives on the IO thread
    thread,    \* thread_ of a stream; the environment holds the stream as long as it runs
    queue,     \* tasks posted to it
    impl,      \* impl_, and what became of its remote_
    incall,    \* the Send whose synchronous Mojo call a thread is inside
    callback,  \* the call a thread makes from a callback it is inside
    result,    \* of a call
    started,   \* of an environment: StartEnvironment and its task
    run_loop,  \* run_loop_, on the thread that called StartEnvironment
    found,     \* what the stop that is ending has seen of run_loop_
    quit,      \* a stop called Quit, "freed" if the loop had gone by then
    removed    \* RemoveMMMojoEnvironment has deleted the environment

ioVars     == <<io_queue, io_task, next, child>>
streamVars == <<thread, queue, impl, incall>>
envVars    == <<started, run_loop, found, quit, removed>>
vars == <<ioVars, streamVars, envVars, callback, result>>

\* Where a call is: not made; Send has read the pointer of the stream, or its
\* task runner; it waits, "late" if its stream was already being stopped; it
\* returned; its task went to a thread that has ended, and it waits for ever;
\* it used the stream after it was freed.
InSend  == {"stream", "runner"}
Waiting == {"blocked", "late"}
Done    == {"true", "false", "lost", "undefined"}

TypeOK ==
    /\ io_queue \in Seq(IOTask)
    /\ io_task \in IOTask \cup {NoTask}
    /\ next \in 1..NoStream
    /\ child \in [Env -> {"none", "bound", "reset"}]
    /\ thread \in [Thread -> {"none", "running", "quitting", "joined"}]
    /\ queue \in [Thread -> Seq(Task)]
    /\ impl \in [Thread -> {"absent", "bound", "disconnecting", "reset"}]
    /\ incall \in [Thread -> Call \cup {NoCall}]
    /\ callback \in [Thread \cup {IO} -> Call \cup {NoCall}]
    /\ result \in [Call -> {"idle"} \cup InSend \cup Waiting \cup Done]
    /\ started \in [Env -> {"no", "posted", "yes"}]
    /\ run_loop \in [Env -> {"none", "running", "returned"}]
    /\ found \in {"untested", "loop", "none"}
    /\ quit \in [Env -> {"no", "called", "freed"}]
    /\ removed \in [Env -> BOOLEAN]

Init ==
    /\ io_queue = <<>>
    /\ io_task = NoTask
    /\ next = NoStream
    /\ child = [e \in Env |-> "none"]
    /\ thread = [t \in Thread |-> "none"]
    /\ queue = [t \in Thread |-> <<>>]
    /\ impl = [t \in Thread |-> "absent"]
    /\ incall = [t \in Thread |-> NoCall]
    /\ callback = [t \in Thread \cup {IO} |-> NoCall]
    /\ result = [c \in Call |-> "idle"]
    /\ started = [e \in Env |-> "no"]
    /\ run_loop = [e \in Env |-> "none"]
    /\ found = "untested"
    /\ quit = [e \in Env |-> "no"]
    /\ removed = [e \in Env |-> FALSE]
-----------------------------------------------------------------------------
(* Starting an environment                                                 *)

PostIO(op, e, c) == io_queue' = Append(io_queue, [op |-> op, env |-> e, call |-> c])
PostTask(t, op, c) == queue' = [queue EXCEPT ![t] = Append(@, [op |-> op, call |-> c])]

StartEnvironment(e) ==
    /\ started[e] = "no"
    /\ started' = [started EXCEPT ![e] = "posted"]
    /\ PostIO("Start", e, NoCall)
    /\ UNCHANGED <<io_task, next, child, streamVars, callback, result,
                   run_loop, found, quit, removed>>

\* The thread that called StartEnvironment goes on to run a loop.
LoopCurrentThreadIfNecessary(e) ==
    /\ started[e] # "no" /\ e \in Loops /\ run_loop[e] = "none"
    /\ run_loop' = [run_loop EXCEPT ![e] = "running"]
    /\ UNCHANGED <<ioVars, streamVars, callback, result, started, found, quit, removed>>

\* Mutant: RunUntilIdle in place of Run.
LoopRunsUntilIdle(e) ==
    /\ run_loop[e] = "running"
    /\ run_loop' = [run_loop EXCEPT ![e] = "returned"]
    /\ UNCHANGED <<ioVars, streamVars, callback, result, started, found, quit, removed>>

\* Run returns once Quit was called, run_loop_ is reset and StartEnvironment
\* returns.
LoopQuits(e) ==
    /\ run_loop[e] = "running" /\ quit[e] # "no"
    /\ run_loop' = [run_loop EXCEPT ![e] = "returned"]
    /\ UNCHANGED <<ioVars, streamVars, callback, result, started, found, quit, removed>>

RunsIOTask(op) ==
    /\ io_task = NoTask
    /\ io_queue # <<>> /\ Head(io_queue).op = op
    /\ io_queue' = Tail(io_queue)

\* Mutant: only the first stream gets it.
PostCreateFirst(e) == PostTask(<<e, StopOrder[1]>>, "Create", NoCall)

\* Every stream gets the task that binds its pipes.
PostCreate(e) ==
    queue' = [t \in Thread |-> IF t[1] = e
                  THEN Append(queue[t], [op |-> "Create", call |-> NoCall]) ELSE queue[t]]

\* The threads of all streams are started; in the end child_process_stream_
\* calls remote_on_connect.
StartEnvironmentOnClientThread ==
    /\ RunsIOTask("Start")
    /\ LET e == Head(io_queue).env IN
        /\ thread' = [t \in Thread |-> IF t[1] = e THEN "running" ELSE thread[t]]
        /\ PostCreate(e)
        /\ started' = [started EXCEPT ![e] = "yes"]
        /\ child' = [child EXCEPT ![e] = "bound"]
    /\ io_task' = Head(io_queue)
    /\ UNCHANGED <<next, impl, incall, callback, result, run_loop, found, quit, removed>>

\* The peer of child_process_stream_ has gone, and remote_on_disconnect is called.
OnChildDisconnect(e) ==
    /\ e \in Faulty /\ io_task = NoTask /\ child[e] = "bound"
    /\ child' = [child EXCEPT ![e] = "reset"]
    /\ io_task' = [op |-> "Disconnect", env |-> e, call |-> NoCall]
    /\ UNCHANGED <<io_queue, next, streamVars, envVars, callback, result>>

\* remote_on_connect or remote_on_disconnect returns.
IOCallbackReturns ==
    /\ io_task.op \in {"Start", "Disconnect"} /\ callback[IO] = NoCall
    /\ io_task' = NoTask
    /\ UNCHANGED <<io_queue, next, child, streamVars, envVars, callback, result>>
-----------------------------------------------------------------------------
(* Calls of the application                                                *)

\* A callback is running that has made no call yet: of a message that arrived
\* while the thread was idle or inside a synchronous call, or of a connection
\* that came or went.
InCallback(t) ==
    \/ t = App
    \/ t = IO /\ io_task.op \in {"Start", "Disconnect"} /\ callback[IO] = NoCall
    \/ t \in Thread /\ impl[t] \in {"bound", "disconnecting"} /\ callback[t] = NoCall

Enter(c) == callback' = IF c.by = App THEN callback ELSE [callback EXCEPT ![c.by] = c]
Leave(c) == callback' = IF c.by = App THEN callback ELSE [callback EXCEPT ![c.by] = NoCall]

Goes(c, from, to) == result[c] = from /\ result' = [result EXCEPT ![c] = to]

\* A synchronous Send reads the pointer of the stream ...
SendMMMojoWriteInfo(c) ==
    /\ c.op = "Send" /\ InCallback(c.by)
    /\ started[c.to[1]] = "yes" /\ ~removed[c.to[1]]
    /\ IF thread[c.to] = "running"
       THEN Goes(c, "idle", "stream") /\ Enter(c)
       ELSE Goes(c, "idle", "false") /\ UNCHANGED callback
    /\ UNCHANGED <<ioVars, streamVars, envVars>>

\* ... then the task runner of its thread.  If a stop has come in between, the
\* stream is being destroyed, thread_ may be null or not, or it is freed.
GetIOThreadTaskRunner(c) ==
    /\ \/ thread[c.to] # "joined" /\ Goes(c, "stream", "runner") /\ UNCHANGED callback
       \/ thread[c.to] = "quitting" /\ Goes(c, "stream", "false") /\ Leave(c)
       \/ thread[c.to] = "joined" /\ Goes(c, "stream", "undefined") /\ UNCHANGED callback
    /\ UNCHANGED <<ioVars, streamVars, envVars>>

\* The result of PostTask is not looked at before the wait.
PostWriteInfo(c) ==
    /\ \/ thread[c.to] = "running" /\ PostTask(c.to, "Write", c) /\ Goes(c, "runner", "blocked")
       \/ thread[c.to] = "quitting" /\ PostTask(c.to, "Write", c) /\ Goes(c, "runner", "late")
       \/ thread[c.to] = "joined" /\ Goes(c, "runner", "lost") /\ UNCHANGED queue
    /\ UNCHANGED <<ioVars, thread, impl, incall, envVars, callback>>

StopEnvironment(c) ==
    /\ c.op = "Stop" /\ InCallback(c.by)
    /\ started[c.to[1]] # "no" /\ ~removed[c.to[1]]
    /\ PostIO("Stop", c.to[1], c)
    /\ Goes(c, "idle", "blocked") /\ Enter(c)
    /\ UNCHANGED <<io_task, next, child, streamVars, envVars>>

\* Mutant: the caller is not told.
SignalNot(c, success) == UNCHANGED <<result, callback>>

\* event->Signal(): the caller goes on.
Signal(c, success) ==
    /\ result' = [result EXCEPT ![c] = success]
    /\ Leave(c)

\* The application deletes an environment it has stopped and is not using: its
\* StartEnvironment has returned too.
RemoveMMMojoEnvironment(e) ==
    LET calls == {c \in Call : c.to[1] = e}
    IN  /\ ~removed[e]
        /\ \E c \in calls : c.op = "Stop" /\ result[c] = "true"
        /\ \A c \in calls : result[c] \notin InSend \cup Waiting
        /\ e \in Loops => run_loop[e] = "returned"
        /\ removed' = [removed EXCEPT ![e] = TRUE]
        /\ UNCHANGED <<ioVars, streamVars, started, run_loop, found, quit, callback, result>>
-----------------------------------------------------------------------------
(* The thread of a stream                                                  *)

Idle(t) == incall[t] = NoCall /\ callback[t] = NoCall /\ impl[t] # "disconnecting"

RunsTask(t, op) ==
    /\ thread[t] \in {"running", "quitting"} /\ Idle(t)
    /\ queue[t] # <<>> /\ Head(queue[t]).op = op
    /\ queue' = [queue EXCEPT ![t] = Tail(@)]

CreateRemoteAndReceiverStream(t) ==
    /\ RunsTask(t, "Create")
    /\ impl' = [impl EXCEPT ![t] = "bound"]
    /\ UNCHANGED <<ioVars, thread, incall, envVars, callback, result>>

RemoveRemoteAndReceiverStream(t) ==
    /\ RunsTask(t, "Remove")
    /\ impl' = [impl EXCEPT ![t] = "absent"]
    /\ UNCHANGED <<ioVars, thread, incall, envVars, callback, result>>

\* The peer has gone: remote_ is reset, and remote_on_disconnect called.
OnMojoDisconnect(t) ==
    /\ t \in Faulty /\ thread[t] \in {"running", "quitting"} /\ Idle(t) /\ impl[t] = "bound"
    /\ impl' = [impl EXCEPT ![t] = "disconnecting"]
    /\ UNCHANGED <<ioVars, thread, queue, incall, envVars, callback, result>>

DisconnectReturns(t) ==
    /\ impl[t] = "disconnecting" /\ callback[t] = NoCall
    /\ impl' = [impl EXCEPT ![t] = "reset"]
    /\ UNCHANGED <<ioVars, thread, queue, incall, envVars, callback, result>>

\* Mutant: event->Signal() moved inside the test of remote_.
WriteInfoUnsignalled(t) ==
    /\ RunsTask(t, "Write")
    /\ incall' = IF impl[t] = "bound"
                 THEN [incall EXCEPT ![t] = Head(queue[t]).call] ELSE incall
    /\ UNCHANGED <<ioVars, thread, impl, envVars, callback, result>>

\* The ...MMMojoWriteInfoSync functions call the peer, if there is one.
WriteInfoSync(t) ==
    /\ RunsTask(t, "Write")
    /\ LET c == Head(queue[t]).call
       IN  IF impl[t] = "bound"
           THEN incall' = [incall EXCEPT ![t] = c] /\ UNCHANGED <<result, callback>>
           ELSE Signal(c, "false") /\ UNCHANGED incall
    /\ UNCHANGED <<ioVars, thread, impl, envVars>>

\* The Mojo call returns, unless the thread is in a callback inside of it.
PeerAnswers(t) ==
    /\ incall[t] # NoCall /\ callback[t] = NoCall
    /\ \E success \in {"true", "false"} : Signal(incall[t], success)
    /\ incall' = [incall EXCEPT ![t] = NoCall]
    /\ UNCHANGED <<ioVars, thread, queue, impl, envVars>>
-----------------------------------------------------------------------------
(* Stopping an environment                                                 *)

\* Mutant: the loop over the streams is off by one.
StopEnvironmentOffByOne ==
    /\ RunsIOTask("Stop")
    /\ io_task' = Head(io_queue)
    /\ next' = 0
    /\ UNCHANGED <<child, streamVars, envVars, callback, result>>

StopEnvironmentOnClientThread ==
    /\ RunsIOTask("Stop")
    /\ io_task' = Head(io_queue)
    /\ next' = 1
    /\ UNCHANGED <<child, streamVars, envVars, callback, result>>

Stopping == <<io_task.env, StopOrder[next]>>

\* The last task is posted and the environment lets go of the stream, whose
\* destructor tells the thread to quit once its queue is empty and joins it.
RemoveDefaultOrAppendStream ==
    /\ io_task.op = "Stop" /\ next # NoStream /\ thread[Stopping] = "running"
    /\ PostTask(Stopping, "Remove", NoCall)
    /\ thread' = [thread EXCEPT ![Stopping] = "quitting"]
    /\ UNCHANGED <<ioVars, impl, incall, envVars, callback, result>>

\* Mutant: the loop goes on after the stream that follows.
JoinStreamThreadSkip ==
    /\ io_task.op = "Stop" /\ next # NoStream /\ thread[Stopping] = "quitting"
    /\ queue[Stopping] = <<>> /\ Idle(Stopping)
    /\ thread' = [thread EXCEPT ![Stopping] = "joined"]
    /\ next' = next + 2
    /\ UNCHANGED <<io_queue, io_task, child, queue, impl, incall, envVars, callback, result>>

JoinStreamThread ==
    /\ io_task.op = "Stop" /\ next # NoStream /\ thread[Stopping] = "quitting"
    /\ queue[Stopping] = <<>> /\ Idle(Stopping)
    /\ thread' = [thread EXCEPT ![Stopping] = "joined"]
    /\ next' = next + 1
    /\ UNCHANGED <<io_queue, io_task, child, queue, impl, incall, envVars, callback, result>>

\* A stream that an earlier StopEnvironment removed is null.
SkipStream ==
    /\ io_task.op = "Stop" /\ next # NoStream /\ thread[Stopping] = "joined"
    /\ next' = next + 1
    /\ UNCHANGED <<io_queue, io_task, child, streamVars, envVars, callback, result>>

\* Mutant: child_process_stream_ stays.
ResetChildNot(e) == UNCHANGED child

ResetChild(e) == child' = [child EXCEPT ![e] = "none"]

\* After the streams child_process_stream_; then run_loop_ is looked at, which
\* the thread that called StartEnvironment may set or reset at any time ...
TestRunLoop ==
    /\ io_task.op = "Stop" /\ next = NoStream /\ found = "untested"
    /\ ResetChild(io_task.env)
    /\ found' = IF run_loop[io_task.env] = "running" THEN "loop" ELSE "none"
    /\ UNCHANGED <<io_queue, io_task, next, streamVars, started, run_loop, quit, removed,
                   callback, result>>

\* Mutant: the loop goes on.
QuitLoopNot ==
    /\ io_task.op = "Stop" /\ found = "loop"
    /\ found' = "none"
    /\ UNCHANGED <<ioVars, streamVars, started, run_loop, quit, removed, callback, result>>

\* ... and quit if it was there; an earlier stop may have ended it since.
QuitLoop ==
    /\ io_task.op = "Stop" /\ found = "loop"
    /\ quit' = [quit EXCEPT ![io_task.env] =
                    IF run_loop[io_task.env] = "running" THEN "called" ELSE "freed"]
    /\ found' = "none"
    /\ UNCHANGED <<ioVars, streamVars, started, run_loop, removed, callback, result>>

\* The caller goes on, and so does a loop that was set after the test.
SignalStopped ==
    /\ io_task.op = "Stop" /\ found = "none"
    /\ Signal(io_task.call, "true")
    /\ io_task' = NoTask
    /\ found' = "untested"
    /\ UNCHANGED <<io_queue, next, child, streamVars, started, run_loop, quit, removed>>
-----------------------------------------------------------------------------
ThreadStep(t) ==
    \/ CreateRemoteAndReceiverStream(t)
    \/ RemoveRemoteAndReceiverStream(t)
    \/ WriteInfoSync(t)
    \/ DisconnectReturns(t)

SendStep(c) == GetIOThreadTaskRunner(c) \/ PostWriteInfo(c)

IOStep ==
    \/ StartEnvironmentOnClientThread
    \/ IOCallbackReturns
    \/ StopEnvironmentOnClientThread
    \/ RemoveDefaultOrAppendStream
    \/ JoinStreamThread
    \/ SkipStream
    \/ TestRunLoop
    \/ QuitLoop
    \/ SignalStopped

Next ==
    \/ \E e \in Env : \/ StartEnvironment(e)
                      \/ LoopCurrentThreadIfNecessary(e)
                      \/ LoopQuits(e)
                      \/ OnChildDisconnect(e)
                      \/ RemoveMMMojoEnvironment(e)
    \/ \E c \in Call : SendMMMojoWriteInfo(c) \/ SendStep(c) \/ StopEnvironment(c)
    \/ \E t \in Thread : ThreadStep(t) \/ PeerAnswers(t) \/ OnMojoDisconnect(t)
    \/ IOStep

Spec == Init /\ [][Next]_vars

\* Every thread goes on as long as it can, and every Mojo call returns.
Fairness ==
    /\ WF_vars(IOStep)
    /\ \A t \in Thread : WF_vars(ThreadStep(t)) /\ WF_vars(PeerAnswers(t))
    /\ \A c \in Call : WF_vars(SendStep(c))
    /\ \A e \in Env : WF_vars(LoopQuits(e))

FairSpec == Spec /\ Fairness
-----------------------------------------------------------------------------
(* Safety                                                                  *)

\* When StopEnvironment has returned, none of the environment's threads is
\* left: none inside a callback or a Mojo call, with a task, or with impl_.
QuietAfterStop ==
    \A c \in Call : c.op = "Stop" /\ result[c] = "true" =>
        \A t \in Thread : t[1] = c.to[1] =>
            thread[t] = "joined" /\ Idle(t) /\ queue[t] = <<>> /\ impl[t] = "absent"

\* A caller that waits has something to wait for: its task is queued at a
\* thread that will still run it, or is being run.  A Send is only lost, or
\* uses a freed stream, if the application stops the environment meanwhile.
NoOrphanCall ==
    \A c \in Call :
        /\ result[c] \in Waiting /\ c.op = "Send" =>
               \/ incall[c.to] = c
               \/ /\ thread[c.to] # "joined"
                  /\ [op |-> "Write", call |-> c] \in ToSet(queue[c.to])
        /\ result[c] \in Waiting /\ c.op = "Stop" =>
               LET task == [op |-> "Stop", env |-> c.to[1], call |-> c]
               IN  io_task = task \/ task \in ToSet(io_queue)
        /\ result[c] \in {"lost", "undefined"} =>
               \E d \in Call : d.op = "Stop" /\ d.to[1] = c.to[1] /\ result[d] # "idle"

\* A Send that was accepted before its environment began to stop finds impl_
\* created and not yet removed when its turn comes.
WritesFindImpl ==
    \A c \in Call :
        c.op = "Send" /\ result[c] = "blocked" =>
            \/ impl[c.to] # "absent"
            \/ [op |-> "Create", call |-> NoCall] \in ToSet(queue[c.to])

\* The loop a stop has seen is still there when the stop quits it, unless the
\* environment is stopped twice: an earlier stop may have ended it in between.
QuitFindsLoop ==
    \A e \in Env : quit[e] = "freed" =>
        \E c, d \in Call :
            /\ c # d /\ c.op = "Stop" /\ d.op = "Stop"
            /\ c.to[1] = e /\ d.to[1] = e
            /\ result[c] # "idle" /\ result[d] # "idle"

\* Once an environment is removed nothing uses it: no task of the IO thread, no
\* thread, no pipe.
RemovedUnused ==
    \A e \in Env : removed[e] =>
        /\ \A i \in DOMAIN io_queue : io_queue[i].env # e
        /\ io_task = NoTask \/ io_task.env # e
        /\ child[e] = "none"
        /\ \A t \in Thread : t[1] = e => thread[t] = "joined" /\ incall[t] = NoCall

\* The thread that another one waits for, if it does; an application's thread
\* holds up nobody, and a caller whose Send is lost waits for nothing.
WaitsFor(t) ==
    IF callback[t] # NoCall
    THEN LET c == callback[t]
         IN  IF result[c] \in InSend THEN App
             ELSE IF result[c] \notin Waiting THEN t
             ELSE IF c.op = "Stop" THEN IO ELSE c.to
    ELSE IF t = IO /\ io_task.op = "Stop" /\ next # NoStream THEN Stopping
    ELSE App

\* Threads that only wait for each other.
Knotted ==
    \E T \in SUBSET (Thread \cup {IO}) \ {{}} : \A t \in T : WaitsFor(t) \in T

-----------------------------------------------------------------------------
(* Liveness                                                                *)

\* StopEnvironment and a synchronous Send return, from whatever thread they
\* are called, unless calls from callbacks have tied the threads into a knot,
\* or the stop of an environment has overtaken a Send to it.
CallsReturn ==
    \A c \in Call :
        result[c] \in InSend \cup Waiting ~> result[c] \in Done \/ Knotted

\* A callback that stops another environment gets there, unless a callback on
\* the IO thread, or one of an environment that is being stopped itself, is
\* inside a blocking call meanwhile.
CallbackStopReturns ==
    \A c \in {d \in Call : d.op = "Stop" /\ d.by \in Thread /\ d.by[1] # d.to[1]} :
        result[c] = "blocked" ~>
            \/ result[c] = "true"
            \/ callback[IO] # NoCall
            \/ \E t \in Thread, s \in Call :
                   /\ callback[t] # NoCall
                   /\ s.op = "Stop" /\ s.to[1] = t[1] /\ result[s] = "blocked"

\* A StartEnvironment that is in its loop when the stop looks for one returns;
\* one that gets there later, even before the stop signals, runs for ever.
StartReturns ==
    \A c \in {d \in Call : d.op = "Stop"} :
        /\ result[c] = "blocked" /\ run_loop[c.to[1]] = "running"
        /\ ~(found = "none" /\ io_task.call = c)
        ~> (run_loop[c.to[1]] = "returned" \/ Knotted)
=============================================================================
