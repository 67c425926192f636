---------------------- MODULE MMMojoEnvironmentProofs ----------------------
(***************************************************************************)
(* What holds of MMMojoEnvironment for every set of environments, streams, *)
(* calls and faults.                                                       *)
(***************************************************************************)
EXTENDS MMMojoEnvironment, SequenceElements, TLAPS

-----------------------------------------------------------------------------
(* The inductive invariant                                                 *)

StartTask(e)      == [op |-> "Start", env |-> e, call |-> NoCall]
StopTask(c)       == [op |-> "Stop", env |-> c.to[1], call |-> c]
DisconnectTask(e) == [op |-> "Disconnect", env |-> e, call |-> NoCall]
CreateTask        == [op |-> "Create", call |-> NoCall]
RemoveTask        == [op |-> "Remove", call |-> NoCall]
WriteTask(c)      == [op |-> "Write", call |-> c]

IsStart(x)      == \E e \in Env : x = StartTask(e)
IsDisconnect(x) == \E e \in Env : x = DisconnectTask(e)
IsStop(x)       == \E c \in Call : x = StopTask(c) /\ c.op = "Stop" /\ result[c] = "blocked"

\* The tasks of the IO thread differ, and the caller of a stop waits for it.
IOInv ==
    /\ \A x \in ToSet(io_queue) : IsStart(x) \/ IsStop(x)
    /\ IsInjective(io_queue)
    /\ io_task \notin ToSet(io_queue)
    /\ io_task = NoTask \/ IsStart(io_task) \/ IsStop(io_task) \/ IsDisconnect(io_task)

\* Before its start an environment has nothing, and nobody calls it.
StartInv ==
    /\ \A e \in Env : StartTask(e) \in ToSet(io_queue) => started[e] = "posted"
    /\ \A e \in Env : started[e] # "yes" => child[e] = "none"
    /\ \A t \in Thread : started[t[1]] # "yes" => thread[t] = "none"
    /\ \A c \in Call : result[c] # "idle" => started[c.to[1]] # "no"

\* Who is in which step of a call.
CallInv ==
    /\ \A c \in Call : result[c] \in InSend \cup {"late", "lost", "undefined"} => c.op = "Send"
    /\ \A t \in Thread : incall[t] # NoCall =>
          incall[t].op = "Send" /\ result[incall[t]] \in Waiting \cup Done
    /\ \A t \in Thread : \A x \in ToSet(queue[t]) : x.op = "Write" =>
          x.call.op = "Send" /\ result[x.call] \in Waiting \cup Done

\* A stream's thread has nothing to do before it is started and after it was
\* joined; it runs Create first, and Remove before it ends.
ThreadInv ==
    \A t \in Thread :
        /\ thread[t] \in {"none", "joined"} =>
               queue[t] = <<>> /\ Idle(t) /\ impl[t] = "absent"
        /\ thread[t] = "running" =>
               /\ impl[t] # "absent" \/ CreateTask \in ToSet(queue[t])
               /\ RemoveTask \notin ToSet(queue[t])
        /\ thread[t] = "quitting" =>
               \/ RemoveTask \in ToSet(queue[t])
               \/ impl[t] = "absent" /\ CreateTask \notin ToSet(queue[t])

\* No task follows Remove that binds the pipes again, or whose caller could
\* have expected to be served.
AfterRemove(x) == x # CreateTask /\ (x.op = "Write" => result[x.call] # "blocked")

OrderInv ==
    \A t \in Thread : \A i, j \in DOMAIN queue[t] :
        i < j /\ queue[t][i] = RemoveTask => AfterRemove(queue[t][j])

\* The streams a stop is through with are joined, and only a stop ends a thread.
StopInv ==
    /\ io_task.op = "Stop" =>
           \A k \in 1..next - 1 : thread[<<io_task.env, StopOrder[k]>>] = "joined"
    /\ \A t \in Thread : thread[t] \in {"quitting", "joined"} =>
           \E d \in Call : d.op = "Stop" /\ d.to[1] = t[1] /\ result[d] # "idle"
    /\ \A c \in Call : c.op = "Stop" /\ result[c] = "true" =>
           /\ child[c.to[1]] = "none"
           /\ \A t \in Thread : t[1] = c.to[1] => thread[t] = "joined"

\* A stop looks for the loop after the streams and child_process_stream_; who
\* calls Quit is a stop that is over or about to signal.
QuitBy(c) ==
    /\ c.op = "Stop"
    /\ result[c] = "true" \/ (io_task = StopTask(c) /\ found = "none")

LoopInv ==
    /\ found # "untested" =>
           io_task.op = "Stop" /\ next = NoStream /\ child[io_task.env] = "none"
    /\ found = "loop" => run_loop[io_task.env] # "none"
    /\ \A e \in Env : run_loop[e] = "returned" => quit[e] # "no"
    /\ \A e \in Env : quit[e] # "no" => \E c \in Call : c.to[1] = e /\ QuitBy(c)

\* What remote_on_connect and remote_on_disconnect find.
CallbackInv ==
    /\ \A e \in Env : io_task = StartTask(e) =>
          /\ started[e] = "yes"
          /\ \A t \in Thread : t[1] = e => thread[t] = "running"
    /\ \A e \in Env : io_task = DisconnectTask(e) => child[e] = "reset"

\* An environment that is removed was stopped, and no call to it is under way.
RemovedInv ==
    \A e \in Env : removed[e] =>
        /\ \E c \in Call : c.to[1] = e /\ c.op = "Stop" /\ result[c] = "true"
        /\ \A c \in Call : c.to[1] = e => result[c] \notin InSend \cup Waiting

IInv ==
    /\ TypeOK
    /\ IOInv /\ StartInv /\ CallInv /\ ThreadInv /\ OrderInv /\ StopInv
    /\ LoopInv /\ CallbackInv /\ RemovedInv
    /\ NoOrphanCall /\ WritesFindImpl /\ QuitFindsLoop
-----------------------------------------------------------------------------
(* Calls, threads and tasks                                                *)

\* A call goes to a stream of an environment.
LEMMA CallType ==
    ASSUME NEW c \in Call
    PROVE  /\ c # NoCall /\ c.op \in {"Send", "Stop"}
           /\ c.to \in Thread /\ c.to[1] \in Env
           /\ c.by \in {App, IO} \cup Thread
  BY EnvironmentAssumption DEF Calls, Thread

\* A thread is that of a stream of an environment.
LEMMA ThreadType ==
    /\ \A t \in Thread : t[1] \in Env /\ t[2] \in Stream /\ t = <<t[1], t[2]>>
    /\ \A e \in Env, s \in Stream : <<e, s>> \in Thread
  BY DEF Thread

\* The streams are those of the stop order.
LEMMA StreamIndex ==
    /\ Len(StopOrder) \in Nat /\ NoStream = Len(StopOrder) + 1
    /\ \A k \in 1..Len(StopOrder) : StopOrder[k] \in Stream
    /\ \A s \in Stream : \E k \in 1..Len(StopOrder) : s = StopOrder[k]
  BY EnvironmentAssumption, ElementIndex DEF Stream, NoStream

\* The tasks of the threads of the streams.
LEMMA TaskType ==
    /\ CreateTask \in Task /\ RemoveTask \in Task
    /\ \A c \in Call : WriteTask(c) \in Task
    /\ \A x \in Task : \/ x = CreateTask \/ x = RemoveTask
                       \/ x.op = "Write" /\ x.call \in Call /\ x = WriteTask(x.call)
    /\ CreateTask.op = "Create" /\ RemoveTask.op = "Remove"
    /\ \A c : WriteTask(c).op = "Write" /\ WriteTask(c).call = c
  BY DEF Task, CreateTask, RemoveTask, WriteTask

\* The tasks of the IO thread.
LEMMA IOTaskType ==
    /\ \A e \in Env : StartTask(e) \in IOTask /\ DisconnectTask(e) \in IOTask
    /\ \A c \in Call : StopTask(c) \in IOTask
    /\ \A e : /\ StartTask(e).op = "Start" /\ StartTask(e).env = e
              /\ DisconnectTask(e).op = "Disconnect" /\ DisconnectTask(e).env = e
    /\ \A c : /\ StopTask(c).op = "Stop" /\ StopTask(c).env = c.to[1]
              /\ StopTask(c).call = c
    /\ NoTask.op = "None"
  BY CallType DEF IOTask, NoTask, StartTask, StopTask, DisconnectTask
-----------------------------------------------------------------------------
(* What the building blocks of the actions do                              *)

\* A task is added at the end of one queue.
LEMMA PostEffect ==
    ASSUME TypeOK, NEW t \in Thread, NEW op, NEW c,
           [op |-> op, call |-> c] \in Task, PostTask(t, op, c)
    PROVE  /\ queue' \in [Thread -> Seq(Task)]
           /\ \A u \in Thread : u # t => queue'[u] = queue[u]
           /\ queue[t] \in Seq(Task)
           /\ queue'[t] = Append(queue[t], [op |-> op, call |-> c])
           /\ ToSet(queue'[t]) = ToSet(queue[t]) \cup {[op |-> op, call |-> c]}
<1> DEFINE x == [op |-> op, call |-> c]
<1>1. x \in Task /\ queue' = [queue EXCEPT ![t] = Append(@, x)]
  BY DEF PostTask
<1> HIDE DEF x
<1>2. /\ queue' \in [Thread -> Seq(Task)]
      /\ \A u \in Thread : u # t => queue'[u] = queue[u]
      /\ queue'[t] = Append(queue[t], x)
      /\ queue[t] \in Seq(Task)
  BY <1>1 DEF TypeOK
<1>3. ToSet(queue'[t]) = ToSet(queue[t]) \cup {x}
  BY <1>1, <1>2, AppendElements
<1> QED
  BY <1>2, <1>3 DEF x

\* A task is taken off one queue, by a thread that is idle and has not ended.
LEMMA RunEffect ==
    ASSUME TypeOK, NEW t \in Thread, NEW op, RunsTask(t, op)
    PROVE  /\ queue' \in [Thread -> Seq(Task)]
           /\ \A u \in Thread : u # t => queue'[u] = queue[u]
           /\ queue[t] \in Seq(Task) /\ queue[t] # <<>>
           /\ Head(queue[t]) \in Task /\ Head(queue[t]) \in ToSet(queue[t])
           /\ Head(queue[t]).op = op
           /\ queue'[t] = Tail(queue[t])
           /\ ToSet(queue[t]) = ToSet(queue'[t]) \cup {Head(queue[t])}
           /\ thread[t] \in {"running", "quitting"} /\ Idle(t)
<1>1. /\ queue[t] \in Seq(Task) /\ queue[t] # <<>>
      /\ queue' = [queue EXCEPT ![t] = Tail(@)]
  BY DEF TypeOK, RunsTask
<1>2. /\ Head(queue[t]) \in Task /\ Head(queue[t]) \in ToSet(queue[t])
      /\ Tail(queue[t]) \in Seq(Task)
      /\ ToSet(queue[t]) = ToSet(Tail(queue[t])) \cup {Head(queue[t])}
  BY <1>1, TailElements
<1>3. /\ queue' \in [Thread -> Seq(Task)]
      /\ \A u \in Thread : u # t => queue'[u] = queue[u]
      /\ queue'[t] = Tail(queue[t])
  BY <1>1, <1>2 DEF TypeOK
<1> QED
  BY <1>1, <1>2, <1>3 DEF RunsTask

\* Every queue of the environment gets its first task, and no other queue.
LEMMA CreateEffect ==
    ASSUME TypeOK, NEW e \in Env, PostCreate(e)
    PROVE  /\ queue' \in [Thread -> Seq(Task)]
           /\ \A t \in Thread : t[1] # e => queue'[t] = queue[t]
           /\ \A t \in Thread : t[1] = e =>
                 /\ queue'[t] = Append(queue[t], CreateTask)
                 /\ ToSet(queue'[t]) = ToSet(queue[t]) \cup {CreateTask}
<1>1. queue' = [t \in Thread |-> IF t[1] = e
                    THEN Append(queue[t], CreateTask) ELSE queue[t]]
  BY DEF PostCreate, CreateTask
<1>2. \A t \in Thread : queue[t] \in Seq(Task)
  BY DEF TypeOK
<1>3. CreateTask \in Task
  BY TaskType
<1> HIDE DEF CreateTask
<1>4. ASSUME NEW t \in Thread
      PROVE  /\ Append(queue[t], CreateTask) \in Seq(Task)
             /\ ToSet(Append(queue[t], CreateTask)) = ToSet(queue[t]) \cup {CreateTask}
  BY <1>2, <1>3, AppendElements
<1> QED
  BY <1>1, <1>2, <1>4

\* A task is posted to the IO thread.
LEMMA PostIOEffect ==
    ASSUME TypeOK, NEW op, NEW e, NEW c,
           [op |-> op, env |-> e, call |-> c] \in IOTask, PostIO(op, e, c)
    PROVE  /\ io_queue' \in Seq(IOTask) /\ io_queue \in Seq(IOTask)
           /\ io_queue' = Append(io_queue, [op |-> op, env |-> e, call |-> c])
           /\ ToSet(io_queue') =
                 ToSet(io_queue) \cup {[op |-> op, env |-> e, call |-> c]}
<1> DEFINE x == [op |-> op, env |-> e, call |-> c]
<1>1. x \in IOTask /\ io_queue' = Append(io_queue, x) /\ io_queue \in Seq(IOTask)
  BY DEF PostIO, TypeOK
<1> HIDE DEF x
<1>2. io_queue' \in Seq(IOTask) /\ ToSet(io_queue') = ToSet(io_queue) \cup {x}
  BY <1>1, AppendElements
<1> QED
  BY <1>1, <1>2 DEF x

\* The IO thread takes up a task.
LEMMA RunsIOEffect ==
    ASSUME TypeOK, NEW op, RunsIOTask(op)
    PROVE  /\ io_task = NoTask
           /\ io_queue' \in Seq(IOTask)
           /\ io_queue \in Seq(IOTask) /\ io_queue # <<>>
           /\ io_queue' = Tail(io_queue)
           /\ Head(io_queue) \in IOTask /\ Head(io_queue).op = op
           /\ Head(io_queue).env \in Env
           /\ Head(io_queue) \in ToSet(io_queue)
           /\ ToSet(io_queue) = ToSet(io_queue') \cup {Head(io_queue)}
<1>1. /\ io_queue \in Seq(IOTask) /\ io_queue # <<>> /\ io_queue' = Tail(io_queue)
      /\ io_task = NoTask /\ Head(io_queue).op = op
  BY DEF RunsIOTask, TypeOK
<1>2. /\ Tail(io_queue) \in Seq(IOTask) /\ Head(io_queue) \in IOTask
      /\ Head(io_queue) \in ToSet(io_queue)
      /\ ToSet(io_queue) = ToSet(Tail(io_queue)) \cup {Head(io_queue)}
  BY <1>1, TailElements
<1>3. \A x \in IOTask : x.env \in Env
  BY DEF IOTask
<1> QED
  BY <1>1, <1>2, <1>3

\* A call takes a step, and no other call does.
LEMMA GoesEffect ==
    ASSUME TypeOK, NEW c \in Call, NEW from, NEW to, Goes(c, from, to)
    PROVE  /\ result[c] = from /\ result'[c] = to
           /\ \A d \in Call : d # c => result'[d] = result[d]
           /\ to \in {"idle"} \cup InSend \cup Waiting \cup Done =>
                 result' \in [Call -> {"idle"} \cup InSend \cup Waiting \cup Done]
  BY DEF TypeOK, Goes

\* A call is answered, and no other call is.
LEMMA SignalEffect ==
    ASSUME TypeOK, NEW c \in Call, NEW success \in {"true", "false"}, Signal(c, success)
    PROVE  /\ result'[c] = success
           /\ \A d \in Call : d # c => result'[d] = result[d]
           /\ result' \in [Call -> {"idle"} \cup InSend \cup Waiting \cup Done]
           /\ callback' \in [Thread \cup {IO} -> Call \cup {NoCall}]
           /\ \A t \in Thread \cup {IO} : callback'[t] \in {callback[t], NoCall}
  BY DEF TypeOK, Signal, Leave, Done

\* A thread enters a call it makes from a callback, or leaves it.
LEMMA EnterLeaveEffect ==
    ASSUME TypeOK, NEW c \in Call, Enter(c) \/ Leave(c) \/ UNCHANGED callback
    PROVE  /\ callback' \in [Thread \cup {IO} -> Call \cup {NoCall}]
           /\ \A t \in Thread \cup {IO} : t # c.by => callback'[t] = callback[t]
           /\ ~Enter(c) => \A t \in Thread \cup {IO} : callback'[t] \in {callback[t], NoCall}
  BY DEF TypeOK, Enter, Leave
-----------------------------------------------------------------------------
(* The steps one by one                                                    *)

\* A step of the environment, action by action.
LEMMA NextCases ==
    ASSUME [Next]_vars
    PROVE  \/ \E e \in Env : StartEnvironment(e)
           \/ \E e \in Env : LoopCurrentThreadIfNecessary(e)
           \/ \E e \in Env : LoopQuits(e)
           \/ \E e \in Env : OnChildDisconnect(e)
           \/ \E e \in Env : RemoveMMMojoEnvironment(e)
           \/ \E c \in Call : SendMMMojoWriteInfo(c)
           \/ \E c \in Call : GetIOThreadTaskRunner(c)
           \/ \E c \in Call : PostWriteInfo(c)
           \/ \E c \in Call : StopEnvironment(c)
           \/ \E t \in Thread : CreateRemoteAndReceiverStream(t)
           \/ \E t \in Thread : RemoveRemoteAndReceiverStream(t)
           \/ \E t \in Thread : WriteInfoSync(t)
           \/ \E t \in Thread : DisconnectReturns(t)
           \/ \E t \in Thread : PeerAnswers(t)
           \/ \E t \in Thread : OnMojoDisconnect(t)
           \/ StartEnvironmentOnClientThread
           \/ IOCallbackReturns
           \/ StopEnvironmentOnClientThread
           \/ RemoveDefaultOrAppendStream
           \/ JoinStreamThread
           \/ SkipStream
           \/ TestRunLoop
           \/ QuitLoop
           \/ SignalStopped
           \/ UNCHANGED vars
  BY DEF Next, SendStep, ThreadStep, IOStep

\* The stream a stop has come to is one of the environment's.
LEMMA StoppingType ==
    ASSUME TypeOK, io_task.op = "Stop", next # NoStream
    PROVE  /\ io_task \in IOTask /\ io_task.env \in Env
           /\ next \in 1..Len(StopOrder)
           /\ Stopping \in Thread /\ Stopping[1] = io_task.env
<1>1. io_task \in IOTask
  BY DEF TypeOK, NoTask
<1>2. io_task.env \in Env
  BY <1>1 DEF IOTask
<1>3. next \in 1..Len(StopOrder) /\ StopOrder[next] \in Stream
  BY StreamIndex DEF TypeOK
<1> QED
  BY <1>1, <1>2, <1>3, ThreadType DEF Stopping
-----------------------------------------------------------------------------
(* Type correctness                                                        *)

\* The initial state is well typed.
LEMMA InitType == Init => TypeOK
<1> SUFFICES ASSUME Init
             PROVE  TypeOK
  OBVIOUS
<1>1. next \in 1..NoStream
  BY StreamIndex DEF Init
<1> QED
  BY <1>1 DEF Init, TypeOK

\* Every action keeps every variable in its type.
LEMMA StepType == TypeOK /\ [Next]_vars => TypeOK'
<1> SUFFICES ASSUME TypeOK, [Next]_vars
             PROVE  TypeOK'
  OBVIOUS
<1> USE DEF ioVars, streamVars, envVars
<1>1. ASSUME NEW e \in Env, StartEnvironment(e)
      PROVE  TypeOK'
  <2>1. io_queue' \in Seq(IOTask)
    BY <1>1, PostIOEffect, IOTaskType DEF StartEnvironment, StartTask
  <2>2. started' \in [Env -> {"no", "posted", "yes"}]
    BY <1>1 DEF StartEnvironment, TypeOK
  <2>3. UNCHANGED <<io_task, next, child, streamVars, callback, result,
                    run_loop, found, quit, removed>>
    BY <1>1 DEF StartEnvironment
  <2> QED
    BY <2>1, <2>2, <2>3 DEF TypeOK
<1>2. ASSUME NEW e \in Env, LoopCurrentThreadIfNecessary(e) \/ LoopQuits(e)
      PROVE  TypeOK'
  <2>1. run_loop' \in [Env -> {"none", "running", "returned"}]
    <3>1. \/ run_loop' = [run_loop EXCEPT ![e] = "running"]
          \/ run_loop' = [run_loop EXCEPT ![e] = "returned"]
      BY <1>2 DEF LoopCurrentThreadIfNecessary, LoopQuits
    <3> QED
      BY <3>1 DEF TypeOK
  <2>2. UNCHANGED <<ioVars, streamVars, callback, result, started, found, quit, removed>>
    BY <1>2 DEF LoopCurrentThreadIfNecessary, LoopQuits
  <2> QED
    BY <2>1, <2>2 DEF TypeOK
<1>3. ASSUME NEW e \in Env, OnChildDisconnect(e)
      PROVE  TypeOK'
  <2>1. io_task' \in IOTask
    BY <1>3, IOTaskType DEF OnChildDisconnect, DisconnectTask
  <2> QED
    BY <1>3, <2>1 DEF OnChildDisconnect, TypeOK
<1>4. ASSUME NEW e \in Env, RemoveMMMojoEnvironment(e)
      PROVE  TypeOK'
  BY <1>4 DEF RemoveMMMojoEnvironment, TypeOK
<1>5. ASSUME NEW c \in Call, SendMMMojoWriteInfo(c)
      PROVE  TypeOK'
  <2>1. /\ callback' \in [Thread \cup {IO} -> Call \cup {NoCall}]
        /\ result' \in [Call -> {"idle"} \cup InSend \cup Waiting \cup Done]
    BY <1>5, EnterLeaveEffect, GoesEffect DEF SendMMMojoWriteInfo, InSend, Done
  <2> QED
    BY <1>5, <2>1 DEF SendMMMojoWriteInfo, TypeOK
<1>6. ASSUME NEW c \in Call, GetIOThreadTaskRunner(c)
      PROVE  TypeOK'
  <2>1. /\ callback' \in [Thread \cup {IO} -> Call \cup {NoCall}]
        /\ result' \in [Call -> {"idle"} \cup InSend \cup Waiting \cup Done]
    BY <1>6, EnterLeaveEffect, GoesEffect DEF GetIOThreadTaskRunner, InSend, Done
  <2> QED
    BY <1>6, <2>1 DEF GetIOThreadTaskRunner, TypeOK
<1>7. ASSUME NEW c \in Call, PostWriteInfo(c)
      PROVE  TypeOK'
  <2>1. c.to \in Thread /\ [op |-> "Write", call |-> c] \in Task
    BY CallType, TaskType DEF WriteTask
  <2>2. queue' \in [Thread -> Seq(Task)]
    BY <1>7, <2>1, PostEffect DEF PostWriteInfo, TypeOK
  <2>3. result' \in [Call -> {"idle"} \cup InSend \cup Waiting \cup Done]
    BY <1>7, GoesEffect DEF PostWriteInfo, Waiting, Done
  <2> QED
    BY <1>7, <2>2, <2>3 DEF PostWriteInfo, TypeOK
<1>8. ASSUME NEW c \in Call, StopEnvironment(c)
      PROVE  TypeOK'
  <2>1. io_queue' \in Seq(IOTask)
    BY <1>8, PostIOEffect, IOTaskType DEF StopEnvironment, StopTask
  <2>2. /\ callback' \in [Thread \cup {IO} -> Call \cup {NoCall}]
        /\ result' \in [Call -> {"idle"} \cup InSend \cup Waiting \cup Done]
    BY <1>8, EnterLeaveEffect, GoesEffect DEF StopEnvironment, Waiting
  <2> QED
    BY <1>8, <2>1, <2>2 DEF StopEnvironment, TypeOK
<1>9. ASSUME NEW t \in Thread, CreateRemoteAndReceiverStream(t)
      PROVE  TypeOK'
  <2>1. queue' \in [Thread -> Seq(Task)]
    BY <1>9, RunEffect DEF CreateRemoteAndReceiverStream
  <2> QED
    BY <1>9, <2>1 DEF CreateRemoteAndReceiverStream, TypeOK
<1>10. ASSUME NEW t \in Thread, RemoveRemoteAndReceiverStream(t)
       PROVE  TypeOK'
  <2>1. queue' \in [Thread -> Seq(Task)]
    BY <1>10, RunEffect DEF RemoveRemoteAndReceiverStream
  <2> QED
    BY <1>10, <2>1 DEF RemoveRemoteAndReceiverStream, TypeOK
<1>11. ASSUME NEW t \in Thread, WriteInfoSync(t)
       PROVE  TypeOK'
  <2>1. queue' \in [Thread -> Seq(Task)] /\ Head(queue[t]).call \in Call
    BY <1>11, RunEffect, TaskType DEF WriteInfoSync
  <2>2. /\ callback' \in [Thread \cup {IO} -> Call \cup {NoCall}]
        /\ result' \in [Call -> {"idle"} \cup InSend \cup Waiting \cup Done]
    BY <1>11, <2>1, SignalEffect DEF WriteInfoSync, TypeOK
  <2>3. incall' \in [Thread -> Call \cup {NoCall}]
    BY <1>11, <2>1 DEF WriteInfoSync, TypeOK
  <2> QED
    BY <1>11, <2>1, <2>2, <2>3 DEF WriteInfoSync, TypeOK
<1>12. ASSUME NEW t \in Thread, DisconnectReturns(t) \/ OnMojoDisconnect(t)
       PROVE  TypeOK'
  BY <1>12 DEF DisconnectReturns, OnMojoDisconnect, TypeOK
<1>13. ASSUME NEW t \in Thread, PeerAnswers(t)
       PROVE  TypeOK'
  <2>1. incall[t] \in Call
    BY <1>13 DEF PeerAnswers, TypeOK
  <2>2. /\ callback' \in [Thread \cup {IO} -> Call \cup {NoCall}]
        /\ result' \in [Call -> {"idle"} \cup InSend \cup Waiting \cup Done]
    BY <1>13, <2>1, SignalEffect DEF PeerAnswers
  <2> QED
    BY <1>13, <2>2 DEF PeerAnswers, TypeOK
<1>14. CASE StartEnvironmentOnClientThread
  <2>1. /\ io_queue' \in Seq(IOTask) /\ io_task' \in IOTask
        /\ Head(io_queue).env \in Env
    BY <1>14, RunsIOEffect DEF StartEnvironmentOnClientThread
  <2>2. queue' \in [Thread -> Seq(Task)]
    BY <1>14, <2>1, CreateEffect DEF StartEnvironmentOnClientThread
  <2> QED
    BY <1>14, <2>1, <2>2 DEF StartEnvironmentOnClientThread, TypeOK
<1>15. CASE IOCallbackReturns
  BY <1>15 DEF IOCallbackReturns, TypeOK
<1>16. CASE StopEnvironmentOnClientThread
  <2>1. io_queue' \in Seq(IOTask) /\ io_task' \in IOTask
    BY <1>16, RunsIOEffect DEF StopEnvironmentOnClientThread
  <2>2. next' \in 1..NoStream
    BY <1>16, StreamIndex DEF StopEnvironmentOnClientThread
  <2> QED
    BY <1>16, <2>1, <2>2 DEF StopEnvironmentOnClientThread, TypeOK
<1>17. CASE RemoveDefaultOrAppendStream
  <2>1. Stopping \in Thread /\ [op |-> "Remove", call |-> NoCall] \in Task
    BY <1>17, StoppingType, TaskType DEF RemoveDefaultOrAppendStream, RemoveTask
  <2>2. queue' \in [Thread -> Seq(Task)]
    BY <1>17, <2>1, PostEffect DEF RemoveDefaultOrAppendStream
  <2>3. thread' \in [Thread -> {"none", "running", "quitting", "joined"}]
    BY <1>17, <2>1 DEF RemoveDefaultOrAppendStream, TypeOK
  <2> QED
    BY <1>17, <2>2, <2>3 DEF RemoveDefaultOrAppendStream, TypeOK
<1>18. CASE JoinStreamThread \/ SkipStream
  <2>1. next' \in 1..NoStream
    BY <1>18, StoppingType, StreamIndex DEF JoinStreamThread, SkipStream
  <2>2. /\ thread' = [thread EXCEPT ![Stopping] = "joined"] \/ thread' = thread
        /\ UNCHANGED <<io_queue, io_task, child, queue, impl, incall, envVars, callback, result>>
    BY <1>18 DEF JoinStreamThread, SkipStream
  <2>3. thread' \in [Thread -> {"none", "running", "quitting", "joined"}]
    BY <2>2 DEF TypeOK
  <2> QED
    BY <2>1, <2>2, <2>3 DEF TypeOK
<1>19. CASE SignalStopped
  <2>1. /\ callback' \in [Thread \cup {IO} -> Call \cup {NoCall}]
        /\ result' \in [Call -> {"idle"} \cup InSend \cup Waiting \cup Done]
    BY <1>19 DEF SignalStopped, Signal, Leave, Done, TypeOK
  <2> QED
    BY <1>19, <2>1 DEF SignalStopped, TypeOK
<1>20. CASE TestRunLoop
  <2>1. child' \in [Env -> {"none", "bound", "reset"}]
    BY <1>20 DEF TestRunLoop, ResetChild, TypeOK
  <2> QED
    BY <1>20, <2>1 DEF TestRunLoop, TypeOK
<1>21. CASE QuitLoop
  <2>1. quit' \in [Env -> {"no", "called", "freed"}]
    BY <1>21 DEF QuitLoop, TypeOK
  <2> QED
    BY <1>21, <2>1 DEF QuitLoop, TypeOK
<1>22. CASE UNCHANGED vars
  BY <1>22 DEF vars, TypeOK
<1> QED
  BY <1>1, <1>2, <1>3, <1>4, <1>5, <1>6, <1>7, <1>8, <1>9, <1>10, <1>11, <1>12,
     <1>13, <1>14, <1>15, <1>16, <1>17, <1>18, <1>19, <1>20, <1>21, <1>22,
     NextCases

\* The variables of the model keep their types.
THEOREM TypeCorrect == Spec => []TypeOK
  BY InitType, StepType, PTL DEF Spec
-----------------------------------------------------------------------------
(* How a call proceeds                                                     *)

\* The task of a synchronous write is one of a Send that has not returned.
LEMMA WriteHead ==
    ASSUME TypeOK, CallInv, NEW t \in Thread, WriteInfoSync(t)
    PROVE  LET c == Head(queue[t]).call
           IN  /\ c \in Call /\ c.op = "Send" /\ result[c] \in Waiting \cup Done
               /\ Head(queue[t]) = WriteTask(c)
<1>1. PICK x : x = Head(queue[t])
  OBVIOUS
<1>2. x \in Task /\ x \in ToSet(queue[t]) /\ x.op = "Write"
  BY <1>1, RunEffect DEF WriteInfoSync
<1>3. x.call \in Call /\ x = WriteTask(x.call)
  BY <1>2, TaskType
<1>4. x.call.op = "Send" /\ result[x.call] \in Waiting \cup Done
  BY <1>2 DEF CallInv
<1> QED
  BY <1>1, <1>3, <1>4

\* What one step can do to a call.
SendMove(c) ==
    \/ /\ result[c] = "idle" /\ result'[c] \in {"stream", "false"}
       /\ started[c.to[1]] = "yes" /\ ~removed[c.to[1]]
    \/ result[c] = "stream" /\ result'[c] \in {"runner", "false"}
    \/ /\ result[c] \in InSend /\ result'[c] \in {"lost", "undefined"}
       /\ thread[c.to] = "joined"
    \/ /\ result[c] = "runner" /\ PostTask(c.to, "Write", c) /\ thread' = thread
       /\ \/ result'[c] = "blocked" /\ thread[c.to] = "running"
          \/ result'[c] = "late" /\ thread[c.to] = "quitting"
    \/ result[c] \in Waiting \cup Done /\ result'[c] \in {"true", "false"}

StopMove(c) ==
    \/ /\ result[c] = "idle" /\ result'[c] = "blocked"
       /\ started[c.to[1]] # "no" /\ ~removed[c.to[1]]
       /\ StopTask(c) \in ToSet(io_queue')
    \/ result'[c] = "true" /\ io_task = StopTask(c) /\ SignalStopped

Moves(c) ==
    \/ result'[c] = result[c]
    \/ c.op = "Send" /\ SendMove(c)
    \/ c.op = "Stop" /\ StopMove(c)

\* Every step is one of these for every call.
LEMMA ResultMoves ==
    ASSUME TypeOK, IOInv, CallInv, [Next]_vars
    PROVE  \A c \in Call : Moves(c)
<1> USE DEF Moves
<1>1. ASSUME NEW d \in Call, SendMMMojoWriteInfo(d)
      PROVE  \A c \in Call : Moves(c)
  BY <1>1, GoesEffect DEF SendMMMojoWriteInfo, SendMove
<1>2. ASSUME NEW d \in Call, GetIOThreadTaskRunner(d)
      PROVE  \A c \in Call : Moves(c)
  <2>1. d.op = "Send"
    BY <1>2 DEF GetIOThreadTaskRunner, Goes, CallInv, InSend
  <2> QED
    BY <1>2, <2>1, GoesEffect DEF GetIOThreadTaskRunner, SendMove, InSend
<1>3. ASSUME NEW d \in Call, PostWriteInfo(d)
      PROVE  \A c \in Call : Moves(c)
  <2>1. d.op = "Send"
    BY <1>3 DEF PostWriteInfo, Goes, CallInv, InSend
  <2> QED
    BY <1>3, <2>1, GoesEffect DEF PostWriteInfo, SendMove, InSend
<1>4. ASSUME NEW d \in Call, StopEnvironment(d)
      PROVE  \A c \in Call : Moves(c)
  <2>1. StopTask(d) \in ToSet(io_queue')
    BY <1>4, PostIOEffect, IOTaskType DEF StopEnvironment, StopTask
  <2> QED
    BY <1>4, <2>1, GoesEffect DEF StopEnvironment, StopMove
<1>5. ASSUME NEW t \in Thread, WriteInfoSync(t)
      PROVE  \A c \in Call : Moves(c)
  <2>1. PICK d : d = Head(queue[t]).call
    OBVIOUS
  <2>2. d \in Call /\ d.op = "Send" /\ result[d] \in Waiting \cup Done
    BY <1>5, <2>1, WriteHead
  <2>3. Signal(d, "false") \/ result' = result
    BY <1>5, <2>1 DEF WriteInfoSync
  <2> QED
    BY <2>2, <2>3, SignalEffect DEF SendMove
<1>6. ASSUME NEW t \in Thread, PeerAnswers(t)
      PROVE  \A c \in Call : Moves(c)
  <2>1. PICK d : d = incall[t]
    OBVIOUS
  <2>2. d \in Call /\ d.op = "Send" /\ result[d] \in Waiting \cup Done
    BY <1>6, <2>1 DEF PeerAnswers, CallInv, TypeOK
  <2>3. PICK success \in {"true", "false"} : Signal(d, success)
    BY <1>6, <2>1 DEF PeerAnswers
  <2> QED
    BY <2>2, <2>3, SignalEffect DEF SendMove
<1>7. CASE SignalStopped
  <2>1. PICK d \in Call : io_task = StopTask(d) /\ d.op = "Stop"
    BY <1>7, IOTaskType DEF SignalStopped, IOInv, IsStart, IsStop, IsDisconnect
  <2>2. Signal(d, "true")
    BY <1>7, <2>1, IOTaskType DEF SignalStopped
  <2> QED
    BY <1>7, <2>1, <2>2, SignalEffect DEF StopMove
<1>8. ASSUME NEW e \in Env,
             \/ StartEnvironment(e) \/ LoopCurrentThreadIfNecessary(e) \/ LoopQuits(e)
             \/ OnChildDisconnect(e) \/ RemoveMMMojoEnvironment(e)
      PROVE  result' = result
  BY <1>8 DEF StartEnvironment, LoopCurrentThreadIfNecessary, LoopQuits,
         OnChildDisconnect, RemoveMMMojoEnvironment
<1>9. ASSUME NEW t \in Thread,
             \/ CreateRemoteAndReceiverStream(t) \/ RemoveRemoteAndReceiverStream(t)
             \/ DisconnectReturns(t) \/ OnMojoDisconnect(t)
      PROVE  result' = result
  BY <1>9 DEF CreateRemoteAndReceiverStream, RemoveRemoteAndReceiverStream,
         DisconnectReturns, OnMojoDisconnect
<1>10. CASE \/ StartEnvironmentOnClientThread \/ IOCallbackReturns
            \/ StopEnvironmentOnClientThread \/ RemoveDefaultOrAppendStream
            \/ JoinStreamThread \/ SkipStream \/ TestRunLoop \/ QuitLoop
            \/ UNCHANGED vars
  <2>1. result' = result
    BY <1>10 DEF StartEnvironmentOnClientThread, IOCallbackReturns,
           StopEnvironmentOnClientThread, RemoveDefaultOrAppendStream,
           JoinStreamThread, SkipStream, TestRunLoop, QuitLoop, vars
  <2> QED
    BY <2>1
<1> QED
  BY <1>1, <1>2, <1>3, <1>4, <1>5, <1>6, <1>7, <1>8, <1>9, <1>10, NextCases
-----------------------------------------------------------------------------
(* How a thread proceeds                                                   *)

\* The environment that is started has been posted, has no threads yet, and is
\* not started again.
LEMMA StartHead ==
    ASSUME TypeOK, IOInv, StartInv, StartEnvironmentOnClientThread
    PROVE  \E e \in Env :
              /\ Head(io_queue) = StartTask(e) /\ Head(io_queue).env = e
              /\ started[e] = "posted" /\ child[e] = "none"
              /\ \A t \in Thread : t[1] = e => thread[t] = "none"
              /\ StartTask(e) \notin ToSet(io_queue')
<1>1. /\ Head(io_queue) \in ToSet(io_queue) /\ Head(io_queue).op = "Start"
      /\ io_queue' = Tail(io_queue) /\ io_queue \in Seq(IOTask) /\ io_queue # <<>>
  BY RunsIOEffect DEF StartEnvironmentOnClientThread
<1>2. PICK e \in Env : Head(io_queue) = StartTask(e)
  BY <1>1, IOTaskType DEF IOInv, IsStart, IsStop
<1>3. started[e] = "posted"
  BY <1>1, <1>2 DEF StartInv
<1>4. Head(io_queue) \notin ToSet(Tail(io_queue))
  BY <1>1, TailDistinct DEF IOInv
<1> QED
  BY <1>1, <1>2, <1>3, <1>4, IOTaskType DEF StartInv

\* What one step can do to a thread.
ThreadMove(t) ==
    \/ thread'[t] = thread[t]
    \/ /\ thread[t] = "none" /\ thread'[t] = "running"
       /\ StartEnvironmentOnClientThread /\ Head(io_queue) = StartTask(t[1])
    \/ /\ thread[t] = "running" /\ thread'[t] = "quitting"
       /\ RemoveDefaultOrAppendStream /\ t = Stopping
    \/ /\ thread[t] = "quitting" /\ thread'[t] = "joined"
       /\ JoinStreamThread /\ t = Stopping

\* Every step is one of these for every thread.
LEMMA ThreadMoves ==
    ASSUME TypeOK, IOInv, StartInv, [Next]_vars
    PROVE  \A t \in Thread : ThreadMove(t)
<1> USE DEF ThreadMove
<1>1. CASE StartEnvironmentOnClientThread
  <2>1. PICK e \in Env :
            /\ Head(io_queue) = StartTask(e) /\ Head(io_queue).env = e
            /\ \A t \in Thread : t[1] = e => thread[t] = "none"
    BY <1>1, StartHead
  <2>2. thread' = [t \in Thread |-> IF t[1] = e THEN "running" ELSE thread[t]]
    BY <1>1, <2>1 DEF StartEnvironmentOnClientThread
  <2> QED
    BY <1>1, <2>1, <2>2
<1>2. CASE RemoveDefaultOrAppendStream
  BY <1>2 DEF RemoveDefaultOrAppendStream, TypeOK
<1>3. CASE JoinStreamThread
  BY <1>3 DEF JoinStreamThread, TypeOK
<1>4. CASE thread' = thread
  BY <1>4
<1>5. ASSUME NEW e \in Env,
             \/ StartEnvironment(e) \/ LoopCurrentThreadIfNecessary(e) \/ LoopQuits(e)
             \/ OnChildDisconnect(e) \/ RemoveMMMojoEnvironment(e)
      PROVE  thread' = thread
  BY <1>5 DEF StartEnvironment, LoopCurrentThreadIfNecessary, LoopQuits,
         OnChildDisconnect, RemoveMMMojoEnvironment, streamVars
<1>6. ASSUME NEW c \in Call,
             \/ SendMMMojoWriteInfo(c) \/ GetIOThreadTaskRunner(c) \/ PostWriteInfo(c)
             \/ StopEnvironment(c)
      PROVE  thread' = thread
  BY <1>6 DEF SendMMMojoWriteInfo, GetIOThreadTaskRunner, PostWriteInfo,
         StopEnvironment, streamVars
<1>7. ASSUME NEW t \in Thread,
             \/ CreateRemoteAndReceiverStream(t) \/ RemoveRemoteAndReceiverStream(t)
             \/ WriteInfoSync(t) \/ PeerAnswers(t)
             \/ DisconnectReturns(t) \/ OnMojoDisconnect(t)
      PROVE  thread' = thread
  BY <1>7 DEF CreateRemoteAndReceiverStream, RemoveRemoteAndReceiverStream,
         WriteInfoSync, PeerAnswers, DisconnectReturns, OnMojoDisconnect, streamVars
<1>8. CASE \/ IOCallbackReturns \/ StopEnvironmentOnClientThread
           \/ SkipStream \/ TestRunLoop \/ QuitLoop \/ SignalStopped
           \/ UNCHANGED vars
  <2>1. thread' = thread
    BY <1>8 DEF IOCallbackReturns, StopEnvironmentOnClientThread, SkipStream,
           TestRunLoop, QuitLoop, SignalStopped, vars, streamVars
  <2> QED
    BY <2>1
<1> QED
  BY <1>1, <1>2, <1>3, <1>4, <1>5, <1>6, <1>7, <1>8, NextCases
-----------------------------------------------------------------------------
(* The tasks of the IO thread                                              *)

\* A caller of a stop waits until it is signalled.
LEMMA StopWaits ==
    ASSUME TypeOK, IOInv, CallInv, [Next]_vars, NEW x, IsStop(x)
    PROVE  IsStop(x)' \/ (x = io_task /\ SignalStopped)
<1>1. PICK c \in Call : x = StopTask(c) /\ c.op = "Stop" /\ result[c] = "blocked"
  BY DEF IsStop
<1>2. result'[c] = result[c] \/ StopMove(c)
  BY <1>1, ResultMoves DEF Moves
<1>3. CASE result'[c] = result[c]
  BY <1>1, <1>3 DEF IsStop, StopTask
<1>4. CASE StopMove(c)
  BY <1>1, <1>4 DEF StopMove
<1> QED
  BY <1>2, <1>3, <1>4

\* Every step keeps the tasks of the IO thread apart, and the callers of stops waiting.
LEMMA IOStepInv ==
    ASSUME TypeOK, IOInv, StartInv, CallInv, CallbackInv, [Next]_vars
    PROVE  IOInv'
<1>a. \A x : IsStart(x)' <=> IsStart(x)
  BY DEF IsStart, StartTask
<1>b. \A x \in ToSet(io_queue) : (IsStart(x) \/ IsStop(x))' \/ (x = io_task /\ SignalStopped)
  BY <1>a, StopWaits DEF IOInv
<1>c. \A x : IsStart(x) => x.op = "Start"
  BY IOTaskType DEF IsStart
<1>d. \A x : IsStop(x) => x.op = "Stop"
  BY IOTaskType DEF IsStop
<1>e. ASSUME ~SignalStopped,
             io_task' \in {io_task, NoTask} \/ \E e \in Env : io_task' = DisconnectTask(e)
      PROVE  (io_task = NoTask \/ IsStart(io_task) \/ IsStop(io_task) \/ IsDisconnect(io_task))'
  <2>1. ASSUME NEW x, x = NoTask \/ IsStart(x) \/ IsStop(x) \/ IsDisconnect(x)
        PROVE  x = NoTask \/ IsStart(x)' \/ IsStop(x)' \/ IsDisconnect(x)'
    BY <1>e, <2>1, <1>a, StopWaits DEF IsDisconnect, DisconnectTask
  <2>2. PICK x : x = io_task'
    OBVIOUS
  <2>3. x = NoTask \/ IsStart(x) \/ IsStop(x) \/ IsDisconnect(x)
    BY <1>e, <2>2 DEF IOInv, IsDisconnect
  <2> QED
    BY <2>1, <2>2, <2>3
<1>1. ASSUME NEW e \in Env, StartEnvironment(e)
      PROVE  IOInv'
  <2>1. /\ io_queue' = Append(io_queue, StartTask(e)) /\ io_queue \in Seq(IOTask)
        /\ ToSet(io_queue') = ToSet(io_queue) \cup {StartTask(e)}
    BY <1>1, PostIOEffect, IOTaskType DEF StartEnvironment, StartTask
  <2>2. StartTask(e) \notin ToSet(io_queue) /\ io_task # StartTask(e)
    BY <1>1 DEF StartEnvironment, StartInv, CallbackInv
  <2>3. IsInjective(io_queue')
    BY <2>1, <2>2, AppendDistinct, IOTaskType DEF IOInv
  <2>4. IsStart(StartTask(e))
    BY DEF IsStart
  <2>5. io_task' = io_task /\ ~SignalStopped
    BY <1>1, <2>1, IOTaskType DEF StartEnvironment, SignalStopped, TypeOK
  <2> QED
    BY <2>1, <2>2, <2>3, <2>4, <2>5, <1>a, <1>b, <1>e DEF IOInv
<1>2. ASSUME NEW c \in Call, StopEnvironment(c)
      PROVE  IOInv'
  <2>1. /\ io_queue' = Append(io_queue, StopTask(c)) /\ io_queue \in Seq(IOTask)
        /\ ToSet(io_queue') = ToSet(io_queue) \cup {StopTask(c)}
    BY <1>2, PostIOEffect, IOTaskType DEF StopEnvironment, StopTask
  <2>2. /\ result[c] = "idle" /\ result'[c] = "blocked" /\ c.op = "Stop"
        /\ io_task' = io_task
    BY <1>2, GoesEffect DEF StopEnvironment
  <2>3. ~IsStart(StopTask(c)) /\ ~IsStop(StopTask(c)) /\ IsStop(StopTask(c))'
    BY <2>2, <1>c, IOTaskType DEF IsStop, StopTask
  <2>4. StopTask(c) \notin ToSet(io_queue) /\ io_task # StopTask(c)
    BY <2>3, IOTaskType DEF IOInv, IsDisconnect
  <2>5. IsInjective(io_queue')
    BY <2>1, <2>4, AppendDistinct, IOTaskType DEF IOInv
  <2>6. ~SignalStopped
    BY <2>2, IOTaskType DEF SignalStopped, TypeOK
  <2> QED
    BY <2>1, <2>2, <2>3, <2>4, <2>5, <2>6, <1>b, <1>e DEF IOInv
<1>3. CASE StartEnvironmentOnClientThread \/ StopEnvironmentOnClientThread
  <2>1. /\ io_queue \in Seq(IOTask) /\ io_queue # <<>> /\ io_queue' = Tail(io_queue)
        /\ ToSet(io_queue) = ToSet(io_queue') \cup {Head(io_queue)}
        /\ io_task = NoTask /\ io_task' = Head(io_queue)
    BY <1>3, RunsIOEffect DEF StartEnvironmentOnClientThread, StopEnvironmentOnClientThread
  <2>2. IsInjective(io_queue') /\ io_task' \notin ToSet(io_queue')
    BY <2>1, TailDistinct DEF IOInv
  <2>3. ~SignalStopped
    BY <2>1, IOTaskType DEF SignalStopped
  <2>4. \A x \in ToSet(io_queue) : IsStart(x)' \/ IsStop(x)'
    BY <2>3, <1>b
  <2> QED
    BY <2>1, <2>2, <2>4 DEF IOInv
<1>4. CASE SignalStopped
  <2>1. io_queue' = io_queue /\ io_task' = NoTask
    BY <1>4 DEF SignalStopped
  <2>2. \A x \in ToSet(io_queue) : IsStart(x)' \/ IsStop(x)'
    BY <1>b DEF IOInv
  <2>3. NoTask \notin ToSet(io_queue)
    BY <1>c, <1>d, IOTaskType DEF IOInv
  <2> QED
    BY <2>1, <2>2, <2>3 DEF IOInv
<1>5. CASE /\ io_queue' = io_queue /\ ~SignalStopped
           /\ io_task' \in {io_task, NoTask} \/ \E e \in Env : io_task' = DisconnectTask(e)
  <2>1. \A x \in ToSet(io_queue) : IsStart(x)' \/ IsStop(x)'
    BY <1>5, <1>b
  <2>2. \A x \in ToSet(io_queue) : x # NoTask /\ \A e \in Env : x # DisconnectTask(e)
    BY <1>c, <1>d, IOTaskType DEF IOInv
  <2>3. IsInjective(io_queue)' /\ (io_task \notin ToSet(io_queue))'
    BY <1>5, <2>2 DEF IOInv
  <2> QED
    BY <1>5, <1>e, <2>1, <2>3 DEF IOInv
<1>6. CASE io_queue' = io_queue /\ io_task' = io_task
  <2>1. ~SignalStopped
    BY <1>6, IOTaskType DEF SignalStopped
  <2> QED
    BY <1>5, <1>6, <2>1
<1>7. ASSUME NEW e \in Env, OnChildDisconnect(e)
      PROVE  IOInv'
  <2>1. io_queue' = io_queue /\ io_task' = DisconnectTask(e) /\ ~SignalStopped
    BY <1>7, IOTaskType DEF OnChildDisconnect, DisconnectTask, SignalStopped
  <2> QED
    BY <1>5, <2>1
<1>8. CASE IOCallbackReturns
  <2>1. io_queue' = io_queue /\ io_task' = NoTask /\ ~SignalStopped
    BY <1>8 DEF IOCallbackReturns, SignalStopped
  <2> QED
    BY <1>5, <2>1
<1>9. ASSUME NEW e \in Env,
             LoopCurrentThreadIfNecessary(e) \/ LoopQuits(e) \/ RemoveMMMojoEnvironment(e)
      PROVE  io_queue' = io_queue /\ io_task' = io_task
  BY <1>9 DEF LoopCurrentThreadIfNecessary, LoopQuits, RemoveMMMojoEnvironment, ioVars
<1>10. ASSUME NEW c \in Call,
              SendMMMojoWriteInfo(c) \/ GetIOThreadTaskRunner(c) \/ PostWriteInfo(c)
       PROVE  io_queue' = io_queue /\ io_task' = io_task
  BY <1>10 DEF SendMMMojoWriteInfo, GetIOThreadTaskRunner, PostWriteInfo, ioVars
<1>11. ASSUME NEW t \in Thread,
              \/ CreateRemoteAndReceiverStream(t) \/ RemoveRemoteAndReceiverStream(t)
              \/ WriteInfoSync(t) \/ PeerAnswers(t)
              \/ DisconnectReturns(t) \/ OnMojoDisconnect(t)
       PROVE  io_queue' = io_queue /\ io_task' = io_task
  BY <1>11 DEF CreateRemoteAndReceiverStream, RemoveRemoteAndReceiverStream,
         WriteInfoSync, PeerAnswers, DisconnectReturns, OnMojoDisconnect, ioVars
<1>12. CASE \/ RemoveDefaultOrAppendStream \/ JoinStreamThread \/ SkipStream
            \/ TestRunLoop \/ QuitLoop \/ UNCHANGED vars
  <2>1. io_queue' = io_queue /\ io_task' = io_task
    BY <1>12 DEF RemoveDefaultOrAppendStream, JoinStreamThread, SkipStream,
           TestRunLoop, QuitLoop, vars, ioVars
  <2> QED
    BY <1>6, <2>1
<1> QED
  BY <1>1, <1>2, <1>3, <1>4, <1>6, <1>7, <1>8, <1>9, <1>10, <1>11, <1>12, NextCases
-----------------------------------------------------------------------------
(* Starting, and the steps of the calls                                    *)

\* Every step leaves alone what was not started.
LEMMA StartStepInv ==
    ASSUME TypeOK, IOInv, StartInv, CallInv, [Next]_vars
    PROVE  StartInv'
<1> USE DEF ioVars, envVars
<1>a. \A c \in Call : /\ result'[c] = "idle" => result[c] = "idle"
                      /\ result'[c] # "idle" => started[c.to[1]] # "no"
  <2>1. ASSUME NEW c \in Call, result[c] # "idle"
        PROVE  started[c.to[1]] # "no" /\ result'[c] # "idle"
    BY <2>1, ResultMoves DEF Moves, SendMove, StopMove, StartInv
  <2>2. ASSUME NEW c \in Call, result[c] = "idle", result'[c] # "idle"
        PROVE  started[c.to[1]] # "no"
    <3>1. SendMove(c) \/ StopMove(c)
      BY <2>2, ResultMoves DEF Moves
    <3>2. CASE SendMove(c)
      BY <2>2, <3>2 DEF SendMove, InSend, Waiting, Done
    <3>3. CASE StopMove(c) /\ io_task # StopTask(c)
      BY <2>2, <3>3 DEF StopMove
    <3>4. CASE io_task = StopTask(c)
      <4>1. PICK d \in Call : StopTask(c) = StopTask(d) /\ result[d] = "blocked"
        BY <3>4, IOTaskType DEF IOInv, IsStart, IsStop, IsDisconnect
      <4>2. c = d
        BY <4>1, IOTaskType
      <4> QED
        BY <4>1, <4>2, <2>2
    <3> QED
      BY <3>1, <3>2, <3>3, <3>4
  <2> QED
    BY <2>1, <2>2
<1>b. \A t \in Thread : thread'[t] = "none" => thread[t] = "none"
  BY ThreadMoves DEF ThreadMove
<1>1. ASSUME NEW e \in Env, StartEnvironment(e)
      PROVE  StartInv'
  <2>1. ToSet(io_queue') = ToSet(io_queue) \cup {StartTask(e)}
    BY <1>1, PostIOEffect, IOTaskType DEF StartEnvironment, StartTask
  <2>2. /\ started[e] = "no" /\ started'[e] = "posted"
        /\ \A d \in Env : d # e => started'[d] = started[d]
        /\ child' = child /\ thread' = thread /\ result' = result
    BY <1>1 DEF StartEnvironment, streamVars, TypeOK
  <2>3. \A d \in Env : StartTask(d)' = StartTask(d) /\ (StartTask(d) = StartTask(e) => d = e)
    BY IOTaskType DEF StartTask
  <2>4. \A c \in Call : c.to[1] \in Env
    BY CallType
  <2> QED
    BY <2>1, <2>2, <2>3, <2>4, ThreadType DEF StartInv
<1>2. CASE StartEnvironmentOnClientThread
  <2>1. PICK e \in Env :
            /\ Head(io_queue).env = e /\ StartTask(e) \notin ToSet(io_queue')
    BY <1>2, StartHead
  <2>2. ToSet(io_queue') \subseteq ToSet(io_queue)
    BY <1>2, RunsIOEffect DEF StartEnvironmentOnClientThread
  <2>3. /\ thread' = [t \in Thread |-> IF t[1] = e THEN "running" ELSE thread[t]]
        /\ started' = [started EXCEPT ![e] = "yes"]
        /\ child' = [child EXCEPT ![e] = "bound"]
        /\ result' = result
    BY <1>2, <2>1 DEF StartEnvironmentOnClientThread
  <2>4. /\ started'[e] = "yes"
        /\ \A d \in Env : d # e => started'[d] = started[d] /\ child'[d] = child[d]
        /\ \A t \in Thread : t[1] # e => thread'[t] = thread[t]
    BY <2>3 DEF TypeOK
  <2>5. \A d \in Env : StartTask(d)' = StartTask(d)
    BY DEF StartTask
  <2>6. \A c \in Call : c.to[1] \in Env
    BY CallType
  <2> QED
    BY <2>1, <2>2, <2>3, <2>4, <2>5, <2>6, ThreadType DEF StartInv
<1>3. CASE /\ started' = started
           /\ \A e \in Env : StartTask(e) \in ToSet(io_queue') => StartTask(e) \in ToSet(io_queue)
           /\ \A e \in Env : child[e] = "none" => child'[e] = "none"
           /\ ~StartEnvironmentOnClientThread
  <2>1. \A t \in Thread : thread[t] = "none" => thread'[t] = "none"
    BY <1>3, ThreadMoves DEF ThreadMove
  <2>2. \A d \in Env : StartTask(d)' = StartTask(d)
    BY DEF StartTask
  <2> QED
    BY <1>3, <1>a, <2>1, <2>2 DEF StartInv
<1>s. StartEnvironmentOnClientThread => \E e \in Env : started[e] = "posted" /\ started'[e] = "yes"
  <2> SUFFICES ASSUME StartEnvironmentOnClientThread
               PROVE  \E e \in Env : started[e] = "posted" /\ started'[e] = "yes"
    OBVIOUS
  <2>1. PICK e \in Env : Head(io_queue).env = e /\ started[e] = "posted"
    BY StartHead
  <2>2. started' = [started EXCEPT ![e] = "yes"]
    BY <2>1 DEF StartEnvironmentOnClientThread
  <2> QED
    BY <2>1, <2>2 DEF TypeOK
<1>t. started' = started => ~StartEnvironmentOnClientThread
  BY <1>s
<1>4. ASSUME NEW e \in Env, OnChildDisconnect(e)
      PROVE  StartInv'
  <2>1. started' = started /\ io_queue' = io_queue
    BY <1>4 DEF OnChildDisconnect
  <2>2. child[e] = "bound" /\ child' = [child EXCEPT ![e] = "reset"]
    BY <1>4 DEF OnChildDisconnect
  <2>3. \A d \in Env : child[d] = "none" => child'[d] = "none"
    BY <2>2 DEF TypeOK
  <2> QED
    BY <2>1, <2>3, <1>3, <1>t
<1>5. ASSUME NEW c \in Call, StopEnvironment(c)
      PROVE  StartInv'
  <2>1. ToSet(io_queue') = ToSet(io_queue) \cup {StopTask(c)}
    BY <1>5, PostIOEffect, IOTaskType DEF StopEnvironment, StopTask
  <2>2. started' = started /\ child' = child
    BY <1>5 DEF StopEnvironment
  <2>3. \A e \in Env : StartTask(e) # StopTask(c)
    BY IOTaskType
  <2> QED
    BY <2>1, <2>2, <2>3, <1>3, <1>t
<1>6. CASE StopEnvironmentOnClientThread
  <2>1. ToSet(io_queue') \subseteq ToSet(io_queue)
    BY <1>6, RunsIOEffect DEF StopEnvironmentOnClientThread
  <2>2. started' = started /\ child' = child
    BY <1>6 DEF StopEnvironmentOnClientThread
  <2> QED
    BY <2>1, <2>2, <1>3, <1>t
<1>7. CASE TestRunLoop
  <2>1. started' = started /\ io_queue' = io_queue
    BY <1>7 DEF TestRunLoop
  <2>2. \A d \in Env : child[d] = "none" => child'[d] = "none"
    BY <1>7 DEF TestRunLoop, ResetChild, TypeOK
  <2> QED
    BY <2>1, <2>2, <1>3, <1>t
<1>8. CASE UNCHANGED <<started, io_queue, child>>
  BY <1>8, <1>3, <1>t
<1>9. ASSUME NEW e \in Env,
             LoopCurrentThreadIfNecessary(e) \/ LoopQuits(e) \/ RemoveMMMojoEnvironment(e)
      PROVE  UNCHANGED <<started, io_queue, child>>
  BY <1>9 DEF LoopCurrentThreadIfNecessary, LoopQuits, RemoveMMMojoEnvironment
<1>10. ASSUME NEW c \in Call,
              SendMMMojoWriteInfo(c) \/ GetIOThreadTaskRunner(c) \/ PostWriteInfo(c)
       PROVE  UNCHANGED <<started, io_queue, child>>
  BY <1>10 DEF SendMMMojoWriteInfo, GetIOThreadTaskRunner, PostWriteInfo
<1>11. ASSUME NEW t \in Thread,
              \/ CreateRemoteAndReceiverStream(t) \/ RemoveRemoteAndReceiverStream(t)
              \/ WriteInfoSync(t) \/ PeerAnswers(t)
              \/ DisconnectReturns(t) \/ OnMojoDisconnect(t)
       PROVE  UNCHANGED <<started, io_queue, child>>
  BY <1>11 DEF CreateRemoteAndReceiverStream, RemoveRemoteAndReceiverStream,
         WriteInfoSync, PeerAnswers, DisconnectReturns, OnMojoDisconnect
<1>12. CASE \/ IOCallbackReturns \/ RemoveDefaultOrAppendStream \/ JoinStreamThread
            \/ SkipStream \/ QuitLoop \/ SignalStopped \/ UNCHANGED vars
  <2>1. UNCHANGED <<started, io_queue, child>>
    BY <1>12 DEF IOCallbackReturns, RemoveDefaultOrAppendStream, JoinStreamThread,
           SkipStream, QuitLoop, SignalStopped, vars
  <2> QED
    BY <1>8, <2>1
<1> QED
  BY <1>1, <1>2, <1>4, <1>5, <1>6, <1>7, <1>8, <1>9, <1>10, <1>11, <1>12, NextCases
-----------------------------------------------------------------------------
(* How the queue of a thread proceeds                                      *)

\* The task that one step can add to a queue.
Posted(t, x) ==
    \/ /\ x = CreateTask /\ StartEnvironmentOnClientThread
       /\ Head(io_queue) = StartTask(t[1])
    \/ x = RemoveTask /\ RemoveDefaultOrAppendStream /\ t = Stopping
    \/ \E c \in Call : /\ x = WriteTask(c) /\ PostWriteInfo(c) /\ c.to = t
                      /\ thread[t] \in {"running", "quitting"}

\* A thread takes a task of its queue.
Runs(t) ==
    \/ CreateRemoteAndReceiverStream(t) \/ RemoveRemoteAndReceiverStream(t)
    \/ WriteInfoSync(t)

QueueMove(t) ==
    \/ queue'[t] = queue[t]
    \/ /\ Runs(t) /\ queue[t] # <<>> /\ queue'[t] = Tail(queue[t])
       /\ ToSet(queue[t]) = ToSet(queue'[t]) \cup {Head(queue[t])}
    \/ \E x \in Task : /\ Posted(t, x) /\ queue'[t] = Append(queue[t], x)
                       /\ ToSet(queue'[t]) = ToSet(queue[t]) \cup {x}

\* Every step is one of these for every queue.
LEMMA QueueMoves ==
    ASSUME TypeOK, IOInv, StartInv, [Next]_vars
    PROVE  \A t \in Thread : QueueMove(t)
<1> USE DEF QueueMove
<1>1. ASSUME NEW t \in Thread, Runs(t)
      PROVE  \A u \in Thread : QueueMove(u)
  <2>1. PICK op : RunsTask(t, op)
    BY <1>1 DEF Runs, CreateRemoteAndReceiverStream, RemoveRemoteAndReceiverStream,
           WriteInfoSync
  <2>2. /\ queue[t] # <<>> /\ queue'[t] = Tail(queue[t])
        /\ ToSet(queue[t]) = ToSet(queue'[t]) \cup {Head(queue[t])}
        /\ \A u \in Thread : u # t => queue'[u] = queue[u]
    BY <2>1, RunEffect
  <2> QED
    BY <1>1, <2>2
<1>2. CASE StartEnvironmentOnClientThread
  <2>1. PICK e \in Env : Head(io_queue) = StartTask(e) /\ Head(io_queue).env = e
    BY <1>2, StartHead
  <2>2. PostCreate(e)
    BY <1>2, <2>1 DEF StartEnvironmentOnClientThread
  <2>3. \A t \in Thread : t[1] = e => Posted(t, CreateTask)
    BY <1>2, <2>1 DEF Posted
  <2> QED
    BY <2>2, <2>3, CreateEffect, TaskType
<1>3. CASE RemoveDefaultOrAppendStream
  <2>1. Stopping \in Thread /\ PostTask(Stopping, "Remove", NoCall)
    BY <1>3, StoppingType DEF RemoveDefaultOrAppendStream
  <2>2. PICK t \in Thread : t = Stopping
    BY <2>1
  <2>3. PostTask(t, "Remove", NoCall) /\ Posted(t, RemoveTask)
    BY <1>3, <2>1, <2>2 DEF Posted
  <2>4. [op |-> "Remove", call |-> NoCall] \in Task
    BY TaskType DEF RemoveTask
  <2>5. /\ queue'[t] = Append(queue[t], RemoveTask)
        /\ ToSet(queue'[t]) = ToSet(queue[t]) \cup {RemoveTask}
        /\ \A u \in Thread : u # t => queue'[u] = queue[u]
    BY <2>3, <2>4, PostEffect DEF RemoveTask
  <2> QED
    BY <2>3, <2>5, TaskType
<1>4. ASSUME NEW c \in Call, PostWriteInfo(c)
      PROVE  \A u \in Thread : QueueMove(u)
  <2>1. PICK t \in Thread : t = c.to
    BY CallType
  <2>2. CASE PostTask(t, "Write", c) /\ thread[t] \in {"running", "quitting"}
    <3>1. Posted(t, WriteTask(c))
      BY <1>4, <2>1, <2>2 DEF Posted
    <3>2. [op |-> "Write", call |-> c] \in Task
      BY TaskType DEF WriteTask
    <3>3. /\ queue'[t] = Append(queue[t], WriteTask(c))
          /\ ToSet(queue'[t]) = ToSet(queue[t]) \cup {WriteTask(c)}
          /\ \A u \in Thread : u # t => queue'[u] = queue[u]
      BY <2>2, <3>2, PostEffect DEF WriteTask
    <3> QED
      BY <3>1, <3>3, TaskType
  <2>3. CASE queue' = queue
    BY <2>3
  <2> QED
    BY <1>4, <2>1, <2>2, <2>3 DEF PostWriteInfo
<1>5. CASE queue' = queue
  BY <1>5
<1>6. ASSUME NEW e \in Env,
             \/ StartEnvironment(e) \/ LoopCurrentThreadIfNecessary(e) \/ LoopQuits(e)
             \/ OnChildDisconnect(e) \/ RemoveMMMojoEnvironment(e)
      PROVE  queue' = queue
  BY <1>6 DEF StartEnvironment, LoopCurrentThreadIfNecessary, LoopQuits,
         OnChildDisconnect, RemoveMMMojoEnvironment, streamVars
<1>7. ASSUME NEW c \in Call,
             SendMMMojoWriteInfo(c) \/ GetIOThreadTaskRunner(c) \/ StopEnvironment(c)
      PROVE  queue' = queue
  BY <1>7 DEF SendMMMojoWriteInfo, GetIOThreadTaskRunner, StopEnvironment, streamVars
<1>8. ASSUME NEW t \in Thread,
             PeerAnswers(t) \/ DisconnectReturns(t) \/ OnMojoDisconnect(t)
      PROVE  queue' = queue
  BY <1>8 DEF PeerAnswers, DisconnectReturns, OnMojoDisconnect
<1>9. CASE \/ IOCallbackReturns \/ StopEnvironmentOnClientThread \/ JoinStreamThread
           \/ SkipStream \/ TestRunLoop \/ QuitLoop \/ SignalStopped
           \/ UNCHANGED vars
  <2>1. queue' = queue
    BY <1>9 DEF IOCallbackReturns, StopEnvironmentOnClientThread, JoinStreamThread,
           SkipStream, TestRunLoop, QuitLoop, SignalStopped, vars, streamVars
  <2> QED
    BY <2>1
<1> QED
  BY <1>1, <1>2, <1>3, <1>4, <1>5, <1>6, <1>7, <1>8, <1>9, NextCases DEF Runs

\* What becomes of the impl_ of a thread and of the call it is inside.
ImplMove(t) ==
    \/ impl'[t] = impl[t]
    \/ CreateRemoteAndReceiverStream(t) /\ impl'[t] = "bound"
    \/ RemoveRemoteAndReceiverStream(t) /\ impl'[t] = "absent"
    \/ /\ impl[t] \in {"bound", "disconnecting"} /\ impl'[t] \in {"disconnecting", "reset"}
       /\ queue' = queue

IncallMove(t) ==
    \/ incall'[t] = incall[t]
    \/ WriteInfoSync(t) /\ incall'[t] = Head(queue[t]).call /\ result' = result
    \/ PeerAnswers(t) /\ incall'[t] = NoCall

\* What a step can do to the pipes of a thread and to the call it is inside.
LEMMA ImplMoves ==
    ASSUME TypeOK, [Next]_vars
    PROVE  \A t \in Thread : ImplMove(t) /\ IncallMove(t)
<1> USE DEF ImplMove, IncallMove
<1>1. ASSUME NEW t \in Thread, CreateRemoteAndReceiverStream(t)
      PROVE  \A u \in Thread : ImplMove(u) /\ IncallMove(u)
  <2>1. impl' = [impl EXCEPT ![t] = "bound"] /\ incall' = incall
    BY <1>1 DEF CreateRemoteAndReceiverStream
  <2> QED
    BY <1>1, <2>1 DEF TypeOK
<1>2. ASSUME NEW t \in Thread, RemoveRemoteAndReceiverStream(t)
      PROVE  \A u \in Thread : ImplMove(u) /\ IncallMove(u)
  <2>1. impl' = [impl EXCEPT ![t] = "absent"] /\ incall' = incall
    BY <1>2 DEF RemoveRemoteAndReceiverStream
  <2> QED
    BY <1>2, <2>1 DEF TypeOK
<1>7. ASSUME NEW t \in Thread, DisconnectReturns(t) \/ OnMojoDisconnect(t)
      PROVE  \A u \in Thread : ImplMove(u) /\ IncallMove(u)
  <2>1. /\ impl[t] \in {"bound", "disconnecting"} /\ queue' = queue /\ incall' = incall
        /\ \E s \in {"disconnecting", "reset"} : impl' = [impl EXCEPT ![t] = s]
    BY <1>7 DEF DisconnectReturns, OnMojoDisconnect
  <2> QED
    BY <2>1 DEF TypeOK
<1>8. ASSUME NEW t \in Thread, WriteInfoSync(t)
      PROVE  \A u \in Thread : ImplMove(u) /\ IncallMove(u)
  <2>1. /\ impl' = impl
        /\ \/ incall' = incall
           \/ /\ incall' = [incall EXCEPT ![t] = Head(queue[t]).call]
              /\ result' = result
    BY <1>8 DEF WriteInfoSync
  <2> QED
    BY <1>8, <2>1 DEF TypeOK
<1>9. ASSUME NEW t \in Thread, PeerAnswers(t)
      PROVE  \A u \in Thread : ImplMove(u) /\ IncallMove(u)
  <2>1. impl' = impl /\ incall' = [incall EXCEPT ![t] = NoCall]
    BY <1>9 DEF PeerAnswers
  <2> QED
    BY <1>9, <2>1 DEF TypeOK
<1>3. CASE impl' = impl /\ incall' = incall
  BY <1>3
<1>4. ASSUME NEW e \in Env,
             \/ StartEnvironment(e) \/ LoopCurrentThreadIfNecessary(e) \/ LoopQuits(e)
             \/ OnChildDisconnect(e) \/ RemoveMMMojoEnvironment(e)
      PROVE  impl' = impl /\ incall' = incall
  BY <1>4 DEF StartEnvironment, LoopCurrentThreadIfNecessary, LoopQuits,
         OnChildDisconnect, RemoveMMMojoEnvironment, streamVars
<1>5. ASSUME NEW c \in Call,
             \/ SendMMMojoWriteInfo(c) \/ GetIOThreadTaskRunner(c) \/ PostWriteInfo(c)
             \/ StopEnvironment(c)
      PROVE  impl' = impl /\ incall' = incall
  BY <1>5 DEF SendMMMojoWriteInfo, GetIOThreadTaskRunner, PostWriteInfo,
         StopEnvironment, streamVars
<1>6. CASE \/ StartEnvironmentOnClientThread \/ IOCallbackReturns
           \/ StopEnvironmentOnClientThread \/ RemoveDefaultOrAppendStream
           \/ JoinStreamThread \/ SkipStream \/ TestRunLoop \/ QuitLoop
           \/ SignalStopped \/ UNCHANGED vars
  <2>1. impl' = impl /\ incall' = incall
    BY <1>6 DEF StartEnvironmentOnClientThread, IOCallbackReturns,
           StopEnvironmentOnClientThread, RemoveDefaultOrAppendStream,
           JoinStreamThread, SkipStream, TestRunLoop, QuitLoop, SignalStopped,
           vars, streamVars
  <2> QED
    BY <2>1
<1> QED
  BY <1>1, <1>2, <1>3, <1>4, <1>5, <1>6, <1>7, <1>8, <1>9, NextCases
-----------------------------------------------------------------------------
(* The steps of the calls                                                  *)

\* A Send whose task was posted stays so, and is not accepted a second time.
LEMMA PostedSend ==
    ASSUME TypeOK, IOInv, CallInv, [Next]_vars,
           NEW c \in Call, c.op = "Send", result[c] \in Waiting \cup Done
    PROVE  /\ result'[c] \in Waiting \cup Done
           /\ result[c] # "blocked" => result'[c] # "blocked"
<1>1. result'[c] = result[c] \/ SendMove(c)
  BY ResultMoves DEF Moves
<1> QED
  BY <1>1 DEF SendMove, InSend, Waiting, Done

\* Every step has only a Send do what a Send does.
LEMMA CallStepInv ==
    ASSUME TypeOK, IOInv, StartInv, CallInv, [Next]_vars
    PROVE  CallInv'
<1>1. ASSUME NEW c \in Call, result'[c] \in InSend \cup {"late", "lost", "undefined"}
      PROVE  c.op = "Send"
  BY <1>1, ResultMoves DEF Moves, StopMove, CallInv, InSend
<1>2. ASSUME NEW t \in Thread, incall'[t] # NoCall
      PROVE  incall'[t].op = "Send" /\ result'[incall'[t]] \in Waiting \cup Done
  <2>1. CASE incall'[t] = incall[t]
    <3>1. PICK c \in Call : c = incall[t]
      BY <1>2, <2>1 DEF TypeOK
    <3>2. c.op = "Send" /\ result[c] \in Waiting \cup Done
      BY <3>1, <1>2, <2>1 DEF CallInv
    <3> QED
      BY <3>1, <3>2, <2>1, PostedSend
  <2>2. CASE WriteInfoSync(t) /\ incall'[t] = Head(queue[t]).call /\ result' = result
    BY <2>2, WriteHead
  <2> QED
    BY <1>2, <2>1, <2>2, ImplMoves DEF IncallMove
<1>3. ASSUME NEW t \in Thread, NEW x \in ToSet(queue'[t]), x.op = "Write"
      PROVE  x.call.op = "Send" /\ result'[x.call] \in Waiting \cup Done
  <2>1. CASE x \in ToSet(queue[t])
    <3>1. x.call.op = "Send" /\ result[x.call] \in Waiting \cup Done
      BY <1>3, <2>1 DEF CallInv
    <3>2. queue[t] \in Seq(Task)
      BY DEF TypeOK
    <3>3. x \in Task
      BY <2>1, <3>2, ElementIndex
    <3>4. x.call \in Call
      BY <3>3, <1>3, TaskType
    <3> QED
      BY <3>1, <3>4, PostedSend
  <2>2. CASE Posted(t, x)
    <3>1. PICK c \in Call : x = WriteTask(c) /\ PostWriteInfo(c)
      BY <1>3, <2>2, TaskType DEF Posted
    <3>2. result[c] = "runner" /\ result'[c] \in {"blocked", "late", "lost"}
      BY <3>1, GoesEffect DEF PostWriteInfo
    <3>3. c.op = "Send" /\ x.call = c
      BY <3>1, <3>2, TaskType DEF CallInv, InSend
    <3> QED
      BY <3>2, <3>3 DEF Waiting, Done
  <2> QED
    BY <2>1, <2>2, QueueMoves DEF QueueMove
<1> QED
  BY <1>1, <1>2, <1>3 DEF CallInv
-----------------------------------------------------------------------------
(* The steps of the threads                                                *)

\* A callback that makes a call runs on a thread that is there.
LEMMA CallbackMoves ==
    ASSUME TypeOK, IOInv, CallInv, [Next]_vars
    PROVE  \A t \in Thread : callback'[t] \in {callback[t], NoCall}
                            \/ impl[t] \in {"bound", "disconnecting"}
<1>1. ASSUME NEW c \in Call, InCallback(c.by), Enter(c)
      PROVE  \A t \in Thread : callback'[t] = callback[t]
                              \/ impl[t] \in {"bound", "disconnecting"}
  <2>1. ASSUME NEW t \in Thread, t = c.by
        PROVE  impl[t] \in {"bound", "disconnecting"}
    BY <1>1, <2>1, EnvironmentAssumption DEF InCallback
  <2> QED
    BY <1>1, <2>1, EnterLeaveEffect
<1>2. ASSUME NEW c, Leave(c) \/ UNCHANGED callback
      PROVE  \A t \in Thread : callback'[t] \in {callback[t], NoCall}
  BY <1>2 DEF Leave, TypeOK
<1>3. ASSUME NEW e \in Env,
             \/ StartEnvironment(e) \/ LoopCurrentThreadIfNecessary(e) \/ LoopQuits(e)
             \/ OnChildDisconnect(e) \/ RemoveMMMojoEnvironment(e)
      PROVE  UNCHANGED callback
  BY <1>3 DEF StartEnvironment, LoopCurrentThreadIfNecessary, LoopQuits,
         OnChildDisconnect, RemoveMMMojoEnvironment
<1>4. ASSUME NEW c \in Call, SendMMMojoWriteInfo(c) \/ StopEnvironment(c)
      PROVE  (InCallback(c.by) /\ Enter(c)) \/ UNCHANGED callback
  BY <1>4 DEF SendMMMojoWriteInfo, StopEnvironment
<1>5. ASSUME NEW c \in Call, GetIOThreadTaskRunner(c) \/ PostWriteInfo(c)
      PROVE  Leave(c) \/ UNCHANGED callback
  BY <1>5 DEF GetIOThreadTaskRunner, PostWriteInfo
<1>6. ASSUME NEW t \in Thread,
             \/ CreateRemoteAndReceiverStream(t) \/ RemoveRemoteAndReceiverStream(t)
             \/ DisconnectReturns(t) \/ OnMojoDisconnect(t)
      PROVE  UNCHANGED callback
  BY <1>6 DEF CreateRemoteAndReceiverStream, RemoveRemoteAndReceiverStream,
         DisconnectReturns, OnMojoDisconnect
<1>7. ASSUME NEW t \in Thread, WriteInfoSync(t) \/ PeerAnswers(t)
      PROVE  \E c : Leave(c) \/ UNCHANGED callback
  BY <1>7 DEF WriteInfoSync, PeerAnswers, Signal
<1>8. CASE SignalStopped
  BY <1>2, <1>8 DEF SignalStopped, Signal
<1>9. CASE \/ StartEnvironmentOnClientThread \/ IOCallbackReturns
           \/ StopEnvironmentOnClientThread \/ RemoveDefaultOrAppendStream
           \/ JoinStreamThread \/ SkipStream \/ TestRunLoop \/ QuitLoop
           \/ UNCHANGED vars
  <2>1. UNCHANGED callback
    BY <1>9 DEF StartEnvironmentOnClientThread, IOCallbackReturns,
           StopEnvironmentOnClientThread, RemoveDefaultOrAppendStream,
           JoinStreamThread, SkipStream, TestRunLoop, QuitLoop, vars
  <2> QED
    BY <2>1
<1> QED
  BY <1>1, <1>2, <1>3, <1>4, <1>5, <1>6, <1>7, <1>8, <1>9, NextCases

\* The task a thread takes up, and what it does to impl_.
LEMMA RunsHead ==
    ASSUME TypeOK, NEW t \in Thread, Runs(t)
    PROVE  /\ thread[t] \in {"running", "quitting"}
           /\ Head(queue[t]) \in ToSet(queue[t])
           /\ \/ /\ CreateRemoteAndReceiverStream(t) /\ ~RemoveRemoteAndReceiverStream(t)
                 /\ Head(queue[t]) = CreateTask /\ impl'[t] = "bound"
              \/ /\ RemoveRemoteAndReceiverStream(t) /\ ~CreateRemoteAndReceiverStream(t)
                 /\ Head(queue[t]) = RemoveTask /\ impl'[t] = "absent"
              \/ /\ WriteInfoSync(t) /\ impl'[t] = impl[t]
                 /\ ~CreateRemoteAndReceiverStream(t) /\ ~RemoveRemoteAndReceiverStream(t)
                 /\ Head(queue[t]) # CreateTask /\ Head(queue[t]) # RemoveTask
<1>1. PICK op \in {"Create", "Remove", "Write"} :
          /\ RunsTask(t, op)
          /\ op = "Create" => impl' = [impl EXCEPT ![t] = "bound"] /\ CreateRemoteAndReceiverStream(t)
          /\ op = "Remove" => impl' = [impl EXCEPT ![t] = "absent"] /\ RemoveRemoteAndReceiverStream(t)
          /\ op = "Write" => impl' = impl /\ WriteInfoSync(t)
  BY DEF Runs, CreateRemoteAndReceiverStream, RemoveRemoteAndReceiverStream, WriteInfoSync
<1>2. PICK x : x = Head(queue[t])
  OBVIOUS
<1>3. /\ x \in Task /\ x \in ToSet(queue[t]) /\ x.op = op
      /\ thread[t] \in {"running", "quitting"}
  BY <1>1, <1>2, RunEffect
<1>4. /\ x = CreateTask <=> op = "Create"
      /\ x = RemoveTask <=> op = "Remove"
  BY <1>3, TaskType
<1>5. /\ CreateRemoteAndReceiverStream(t) => op = "Create"
      /\ RemoveRemoteAndReceiverStream(t) => op = "Remove"
  BY <1>2, <1>3 DEF CreateRemoteAndReceiverStream, RemoveRemoteAndReceiverStream, RunsTask
<1>6. impl \in [Thread -> {"absent", "bound", "disconnecting", "reset"}]
  BY DEF TypeOK
<1> QED
  BY <1>1, <1>2, <1>3, <1>4, <1>5, <1>6

\* A thread that is not there has nothing to do, and gets nothing to do.
LEMMA EndedStepInv ==
    ASSUME TypeOK, IOInv, StartInv, CallInv, ThreadInv, [Next]_vars,
           NEW t \in Thread, thread'[t] \in {"none", "joined"}
    PROVE  queue'[t] = <<>> /\ Idle(t)' /\ impl'[t] = "absent"
<1>1. CASE thread[t] \in {"none", "joined"}
  <2>1. queue[t] = <<>> /\ Idle(t) /\ impl[t] = "absent"
    BY <1>1 DEF ThreadInv
  <2>2. ~Runs(t)
    BY <1>1, RunsHead
  <2>3. impl'[t] = "absent"
    BY <2>1, <2>2, ImplMoves DEF ImplMove, Runs
  <2>4. incall'[t] = NoCall
    BY <2>1, <2>2, ImplMoves DEF IncallMove, Runs, Idle
  <2>5. callback'[t] = NoCall
    BY <2>1, CallbackMoves DEF Idle
  <2>6. \A x : ~Posted(t, x)
    <3>1. StartEnvironmentOnClientThread => Head(io_queue) # StartTask(t[1])
      <4> SUFFICES ASSUME StartEnvironmentOnClientThread, Head(io_queue) = StartTask(t[1])
                   PROVE  FALSE
        OBVIOUS
      <4>1. Head(io_queue).env = t[1]
        BY IOTaskType
      <4>2. thread'[t] = "running"
        BY <4>1 DEF StartEnvironmentOnClientThread
      <4> QED
        BY <4>2
    <3>2. RemoveDefaultOrAppendStream => thread[Stopping] = "running"
      BY DEF RemoveDefaultOrAppendStream
    <3> QED
      BY <1>1, <3>1, <3>2 DEF Posted
  <2>7. queue'[t] = <<>>
    BY <2>1, <2>2, <2>6, QueueMoves DEF QueueMove
  <2> QED
    BY <2>3, <2>4, <2>5, <2>7 DEF Idle
<1>2. CASE thread[t] = "quitting" /\ JoinStreamThread /\ t = Stopping
  <2>1. queue[t] = <<>> /\ Idle(t) /\ UNCHANGED <<queue, impl, incall, callback>>
    BY <1>2 DEF JoinStreamThread
  <2>2. RemoveTask \notin ToSet(queue[t])
    BY <2>1, EmptyElements
  <2>3. impl[t] = "absent"
    BY <1>2, <2>2 DEF ThreadInv
  <2> QED
    BY <2>1, <2>3 DEF Idle
<1> QED
  BY <1>1, <1>2, ThreadMoves DEF ThreadMove

\* A thread that runs has bound its pipes, or will, and is not told to unbind them.
LEMMA RunningStepInv ==
    ASSUME TypeOK, IOInv, StartInv, CallInv, ThreadInv, [Next]_vars,
           NEW t \in Thread, thread'[t] = "running"
    PROVE  /\ impl'[t] # "absent" \/ CreateTask \in ToSet(queue'[t])
           /\ RemoveTask \notin ToSet(queue'[t])
<1>1. CASE thread[t] = "running"
  <2>1. /\ impl[t] # "absent" \/ CreateTask \in ToSet(queue[t])
        /\ RemoveTask \notin ToSet(queue[t])
    BY <1>1 DEF ThreadInv
  <2>2. ~RemoveRemoteAndReceiverStream(t)
    BY <2>1, RunsHead DEF Runs
  <2>3. impl[t] # "absent" => impl'[t] # "absent"
    BY <2>2, ImplMoves DEF ImplMove
  <2>4. ~Posted(t, RemoveTask)
    <3>1. RemoveDefaultOrAppendStream => thread'[Stopping] = "quitting"
      BY StoppingType DEF RemoveDefaultOrAppendStream, TypeOK
    <3> QED
      BY <1>1, <3>1, TaskType DEF Posted
  <2>5. RemoveTask \notin ToSet(queue'[t])
    <3>1. \/ ToSet(queue'[t]) \subseteq ToSet(queue[t])
          \/ \E x \in Task : Posted(t, x) /\ ToSet(queue'[t]) = ToSet(queue[t]) \cup {x}
      BY QueueMoves DEF QueueMove
    <3> QED
      BY <2>1, <2>4, <3>1
  <2>6. CreateTask \in ToSet(queue[t]) => CreateTask \in ToSet(queue'[t]) \/ impl'[t] = "bound"
    <3>1. Runs(t) => Head(queue[t]) # CreateTask \/ impl'[t] = "bound"
      BY RunsHead, TaskType
    <3> QED
      BY <3>1, QueueMoves DEF QueueMove
  <2> QED
    BY <2>1, <2>3, <2>5, <2>6
<1>2. CASE /\ thread[t] = "none"
           /\ StartEnvironmentOnClientThread /\ Head(io_queue) = StartTask(t[1])
  <2>1. Head(io_queue).env = t[1] /\ t[1] \in Env
    BY <1>2, IOTaskType, ThreadType
  <2>2. PostCreate(t[1])
    BY <1>2, <2>1 DEF StartEnvironmentOnClientThread
  <2>3. ToSet(queue'[t]) = ToSet(queue[t]) \cup {CreateTask}
    BY <2>1, <2>2, CreateEffect
  <2>4. ToSet(queue[t]) = {}
    BY <1>2, EmptyElements DEF ThreadInv
  <2> QED
    BY <2>3, <2>4, TaskType
<1> QED
  BY <1>1, <1>2, ThreadMoves DEF ThreadMove

\* A thread that quits has unbound its pipes, or will, and not bind them again.
LEMMA QuittingStepInv ==
    ASSUME TypeOK, IOInv, StartInv, CallInv, ThreadInv, OrderInv, [Next]_vars,
           NEW t \in Thread, thread'[t] = "quitting"
    PROVE  \/ RemoveTask \in ToSet(queue'[t])
           \/ impl'[t] = "absent" /\ CreateTask \notin ToSet(queue'[t])
<1>1. CASE thread[t] = "running" /\ RemoveDefaultOrAppendStream /\ t = Stopping
  <2>1. [op |-> "Remove", call |-> NoCall] \in Task
    BY TaskType DEF RemoveTask
  <2>2. PostTask(t, "Remove", NoCall)
    BY <1>1 DEF RemoveDefaultOrAppendStream
  <2> QED
    BY <2>1, <2>2, PostEffect DEF RemoveTask
<1>2. CASE thread[t] = "quitting" /\ RemoveTask \in ToSet(queue[t])
  <2>1. CASE Runs(t) /\ queue'[t] = Tail(queue[t]) /\ Head(queue[t]) = RemoveTask
    <3>1. impl'[t] = "absent"
      BY <2>1, RunsHead, TaskType
    <3>2. queue[t] \in Seq(Task) /\ queue[t] # <<>>
      BY <1>2, EmptyElements DEF TypeOK
    <3>3. \A i, j \in DOMAIN queue[t] :
              i < j /\ queue[t][i] \in {RemoveTask} => queue[t][j] \in {x \in Task : x # CreateTask}
      <4>1. \A j \in DOMAIN queue[t] : queue[t][j] \in Task
        BY <3>2, ElementIndex
      <4> QED
        BY <4>1 DEF OrderInv, AfterRemove
    <3>4. ToSet(Tail(queue[t])) \subseteq {x \in Task : x # CreateTask}
      BY <2>1, <3>2, <3>3, TailOrder
    <3> QED
      BY <2>1, <3>1, <3>4
  <2>2. CASE ~(Runs(t) /\ queue'[t] = Tail(queue[t]) /\ Head(queue[t]) = RemoveTask)
    BY <1>2, <2>2, QueueMoves DEF QueueMove
  <2> QED
    BY <2>1, <2>2
<1>3. CASE thread[t] = "quitting" /\ impl[t] = "absent" /\ CreateTask \notin ToSet(queue[t])
  <2>1. ~CreateRemoteAndReceiverStream(t)
    BY <1>3, RunsHead DEF Runs
  <2>2. impl'[t] = "absent"
    BY <1>3, <2>1, ImplMoves DEF ImplMove
  <2>3. ~Posted(t, CreateTask)
    <3>1. StartEnvironmentOnClientThread => Head(io_queue) # StartTask(t[1])
      BY <1>3, StartHead, IOTaskType
    <3> QED
      BY <3>1, TaskType DEF Posted
  <2> QED
    BY <1>3, <2>2, <2>3, QueueMoves DEF QueueMove
<1> QED
  BY <1>1, <1>2, <1>3, ThreadMoves DEF ThreadMove, ThreadInv

\* Every step has a thread create its pipes first and remove them last.
LEMMA ThreadStepInv ==
    ASSUME TypeOK, IOInv, StartInv, CallInv, ThreadInv, OrderInv, [Next]_vars
    PROVE  ThreadInv'
  BY EndedStepInv, RunningStepInv, QuittingStepInv DEF ThreadInv, CreateTask, RemoveTask
-----------------------------------------------------------------------------
(* The order of the tasks                                                  *)

\* Every step keeps what is behind Remove.
LEMMA OrderStepInv ==
    ASSUME TypeOK, IOInv, StartInv, CallInv, ThreadInv, OrderInv, [Next]_vars
    PROVE  OrderInv'
<1> DEFINE A == {RemoveTask}
           AfterRemoveNext(x) ==
               x # CreateTask /\ (x.op = "Write" => result'[x.call] # "blocked")
           B == {x \in Task : AfterRemoveNext(x)}
<1> SUFFICES ASSUME NEW t \in Thread
             PROVE  \A i, j \in DOMAIN queue'[t] :
                       i < j /\ queue'[t][i] \in A => queue'[t][j] \in B
  BY DEF OrderInv, AfterRemove, RemoveTask, CreateTask
<1>1. queue[t] \in Seq(Task) /\ queue'[t] \in Seq(Task)
  BY StepType DEF TypeOK
<1>2. ASSUME NEW x \in Task, x \in ToSet(queue[t]), AfterRemove(x)
      PROVE  AfterRemoveNext(x)
  <2>1. CASE x.op = "Write"
    <3>1. /\ x.call \in Call /\ x.call.op = "Send"
          /\ result[x.call] \in Waiting \cup Done /\ result[x.call] # "blocked"
      BY <1>2, <2>1, TaskType DEF CallInv, AfterRemove
    <3>2. result'[x.call] # "blocked"
      BY <3>1, PostedSend
    <3> QED
      BY <1>2, <3>2 DEF AfterRemove
  <2>2. CASE x.op # "Write"
    BY <1>2, <2>2 DEF AfterRemove
  <2> QED
    BY <2>1, <2>2
<1>3. \A i, j \in DOMAIN queue[t] : i < j /\ queue[t][i] \in A => queue[t][j] \in B
  <2>1. \A j \in DOMAIN queue[t] : queue[t][j] \in Task /\ queue[t][j] \in ToSet(queue[t])
    BY <1>1, ElementIndex
  <2> QED
    BY <2>1, <1>2 DEF OrderInv
<1>4. ASSUME NEW x \in Task, Posted(t, x)
      PROVE  x \in B \/ \A y \in ToSet(queue[t]) : y \notin A
  <2>1. CASE StartEnvironmentOnClientThread /\ Head(io_queue) = StartTask(t[1])
    <3>1. thread[t] = "none"
      BY <2>1, StartHead, IOTaskType
    <3> QED
      BY <3>1, EmptyElements DEF ThreadInv
  <2>2. CASE thread[t] = "running"
    BY <2>2 DEF ThreadInv
  <2>3. CASE RemoveDefaultOrAppendStream /\ t = Stopping
    BY <2>2, <2>3 DEF RemoveDefaultOrAppendStream
  <2>4. CASE \E c \in Call : /\ x = WriteTask(c) /\ PostWriteInfo(c) /\ c.to = t
                             /\ thread[t] = "quitting"
    <3>1. PICK c \in Call : /\ x = WriteTask(c) /\ PostWriteInfo(c) /\ c.to = t
                            /\ thread[t] = "quitting"
      BY <2>4
    <3>2. result'[c] = "late"
      BY <3>1, GoesEffect DEF PostWriteInfo
    <3>3. x.op = "Write" /\ x.call = c /\ x # CreateTask
      BY <3>1, TaskType
    <3> QED
      BY <3>2, <3>3
  <2> QED
    BY <1>4, <2>1, <2>2, <2>3, <2>4 DEF Posted
<1>5. \A i, j \in DOMAIN queue'[t] : i < j /\ queue'[t][i] \in A => queue'[t][j] \in B
  <2> HIDE DEF A, B
  <2>1. CASE queue'[t] = queue[t]
    BY <2>1, <1>3
  <2>2. CASE queue[t] # <<>> /\ queue'[t] = Tail(queue[t])
    BY <2>2, <1>1, <1>3, TailOrder
  <2>3. CASE \E x \in Task : Posted(t, x) /\ queue'[t] = Append(queue[t], x)
    <3>1. PICK x \in Task : Posted(t, x) /\ queue'[t] = Append(queue[t], x)
      BY <2>3
    <3>2. x \in B \/ \A y \in ToSet(queue[t]) : y \notin A
      BY <3>1, <1>4
    <3> QED
      BY <3>1, <3>2, <1>1, <1>3, AppendOrder
  <2> QED
    BY <2>1, <2>2, <2>3, QueueMoves DEF QueueMove
<1> QED
  BY <1>5
-----------------------------------------------------------------------------
(* Stopping                                                                *)

\* Only a start binds child_process_stream_.
LEMMA ChildMoves ==
    ASSUME TypeOK, [Next]_vars, ~StartEnvironmentOnClientThread
    PROVE  \A e \in Env : /\ child[e] = "none" => child'[e] = "none"
                          /\ child[e] = "reset" => child'[e] = "reset" \/ TestRunLoop
<1>1. ASSUME NEW e \in Env, OnChildDisconnect(e)
      PROVE  \A d \in Env : child[d] # "bound" => child'[d] = child[d]
  <2>1. child[e] = "bound" /\ child' = [child EXCEPT ![e] = "reset"]
    BY <1>1 DEF OnChildDisconnect
  <2> QED
    BY <2>1 DEF TypeOK
<1>2. CASE TestRunLoop
  <2>1. child' = [child EXCEPT ![io_task.env] = "none"]
    BY <1>2 DEF TestRunLoop, ResetChild
  <2> QED
    BY <1>2, <2>1 DEF TypeOK
<1>3. CASE child' = child
  BY <1>3
<1>4. ASSUME NEW e \in Env,
             \/ StartEnvironment(e) \/ LoopCurrentThreadIfNecessary(e) \/ LoopQuits(e)
             \/ RemoveMMMojoEnvironment(e)
      PROVE  child' = child
  BY <1>4 DEF StartEnvironment, LoopCurrentThreadIfNecessary, LoopQuits,
         RemoveMMMojoEnvironment, ioVars
<1>5. ASSUME NEW c \in Call,
             \/ SendMMMojoWriteInfo(c) \/ GetIOThreadTaskRunner(c) \/ PostWriteInfo(c)
             \/ StopEnvironment(c)
      PROVE  child' = child
  BY <1>5 DEF SendMMMojoWriteInfo, GetIOThreadTaskRunner, PostWriteInfo,
         StopEnvironment, ioVars
<1>6. ASSUME NEW t \in Thread,
             \/ CreateRemoteAndReceiverStream(t) \/ RemoveRemoteAndReceiverStream(t)
             \/ WriteInfoSync(t) \/ PeerAnswers(t)
             \/ DisconnectReturns(t) \/ OnMojoDisconnect(t)
      PROVE  child' = child
  BY <1>6 DEF CreateRemoteAndReceiverStream, RemoveRemoteAndReceiverStream,
         WriteInfoSync, PeerAnswers, DisconnectReturns, OnMojoDisconnect, ioVars
<1>7. CASE \/ IOCallbackReturns \/ StopEnvironmentOnClientThread
           \/ RemoveDefaultOrAppendStream \/ JoinStreamThread \/ SkipStream
           \/ QuitLoop \/ SignalStopped \/ UNCHANGED vars
  <2>1. child' = child
    BY <1>7 DEF IOCallbackReturns, StopEnvironmentOnClientThread,
           RemoveDefaultOrAppendStream, JoinStreamThread, SkipStream, QuitLoop,
           SignalStopped, vars, ioVars
  <2> QED
    BY <2>1
<1> QED
  BY <1>1, <1>2, <1>3, <1>4, <1>5, <1>6, <1>7, NextCases

\* Every step keeps the streams joined that a stop is through with.
LEMMA StopStepInv ==
    ASSUME TypeOK, IOInv, StartInv, CallInv, StopInv, LoopInv, [Next]_vars
    PROVE  StopInv'
<1> USE DEF ioVars, streamVars, envVars
<1>a. \A t \in Thread : thread[t] = "joined" => thread'[t] = "joined"
  BY ThreadMoves DEF ThreadMove
<1>b. \A c \in Call : result[c] # "idle" => result'[c] # "idle"
  BY ResultMoves DEF Moves, SendMove, StopMove
<1>1. ASSUME io_task'.op = "Stop"
      PROVE  \A k \in 1..next' - 1 : thread'[<<io_task'.env, StopOrder[k]>>] = "joined"
  <2>0. next \in Nat
    BY StreamIndex DEF TypeOK
  <2>1. CASE io_task' = io_task /\ next' = next
    <3>1. io_task.env \in Env
      BY <1>1, <2>1 DEF TypeOK, IOTask, NoTask
    <3>2. \A k \in 1..next - 1 : StopOrder[k] \in Stream
      BY StreamIndex DEF TypeOK
    <3>3. \A k \in 1..next - 1 : <<io_task.env, StopOrder[k]>> \in Thread
      BY <3>1, <3>2, ThreadType
    <3> QED
      BY <1>1, <2>1, <3>3, <1>a DEF StopInv
  <2>2. CASE JoinStreamThread \/ SkipStream
    <3>1. /\ io_task.op = "Stop" /\ io_task' = io_task /\ next' = next + 1
          /\ thread'[Stopping] = "joined"
      BY <2>2, StoppingType DEF JoinStreamThread, SkipStream, TypeOK
    <3>2. io_task.env \in Env /\ next \in 1..Len(StopOrder)
      BY <2>2, StoppingType DEF JoinStreamThread, SkipStream
    <3>3. \A k \in 1..next - 1 : <<io_task.env, StopOrder[k]>> \in Thread
      BY <3>2, StreamIndex, ThreadType
    <3>4. \A k \in 1..next - 1 : thread'[<<io_task.env, StopOrder[k]>>] = "joined"
      BY <3>1, <3>3, <1>a DEF StopInv
    <3>5. thread'[<<io_task.env, StopOrder[next]>>] = "joined"
      BY <3>1 DEF Stopping
    <3>6. \A k \in 1..next' - 1 : k \in 1..next - 1 \/ k = next
      BY <3>1, <3>2
    <3> QED
      BY <3>1, <3>4, <3>5, <3>6
  <2>3. CASE StopEnvironmentOnClientThread
    BY <2>3 DEF StopEnvironmentOnClientThread
  <2>4. CASE io_task'.op \in {"Start", "Disconnect", "None"}
    BY <1>1, <2>4
  <2>5. StartEnvironmentOnClientThread => io_task'.op = "Start"
    BY RunsIOEffect DEF StartEnvironmentOnClientThread
  <2>6. ASSUME NEW e \in Env, OnChildDisconnect(e)
        PROVE  io_task'.op = "Disconnect"
    BY <2>6 DEF OnChildDisconnect
  <2>7. CASE IOCallbackReturns \/ SignalStopped
    <3>1. io_task' = NoTask
      BY <2>7 DEF IOCallbackReturns, SignalStopped
    <3> QED
      BY <3>1, <2>4, IOTaskType
  <2>8. ASSUME NEW e \in Env,
               \/ StartEnvironment(e) \/ LoopCurrentThreadIfNecessary(e) \/ LoopQuits(e)
               \/ RemoveMMMojoEnvironment(e)
        PROVE  io_task' = io_task /\ next' = next
    BY <2>8 DEF StartEnvironment, LoopCurrentThreadIfNecessary, LoopQuits,
           RemoveMMMojoEnvironment
  <2>9. ASSUME NEW c \in Call,
               \/ SendMMMojoWriteInfo(c) \/ GetIOThreadTaskRunner(c) \/ PostWriteInfo(c)
               \/ StopEnvironment(c)
        PROVE  io_task' = io_task /\ next' = next
    BY <2>9 DEF SendMMMojoWriteInfo, GetIOThreadTaskRunner, PostWriteInfo, StopEnvironment
  <2>10. ASSUME NEW t \in Thread,
                \/ CreateRemoteAndReceiverStream(t) \/ RemoveRemoteAndReceiverStream(t)
                \/ WriteInfoSync(t) \/ PeerAnswers(t)
                \/ DisconnectReturns(t) \/ OnMojoDisconnect(t)
         PROVE  io_task' = io_task /\ next' = next
    BY <2>10 DEF CreateRemoteAndReceiverStream, RemoveRemoteAndReceiverStream,
           WriteInfoSync, PeerAnswers, DisconnectReturns, OnMojoDisconnect
  <2>11. RemoveDefaultOrAppendStream \/ TestRunLoop \/ QuitLoop \/ UNCHANGED vars =>
             io_task' = io_task /\ next' = next
    BY DEF RemoveDefaultOrAppendStream, TestRunLoop, QuitLoop, vars
  <2> QED
    BY <2>1, <2>2, <2>3, <2>4, <2>5, <2>6, <2>7, <2>8, <2>9, <2>10, <2>11, NextCases
<1>2. ASSUME NEW t \in Thread, thread'[t] \in {"quitting", "joined"}
      PROVE  \E d \in Call : d.op = "Stop" /\ d.to[1] = t[1] /\ result'[d] # "idle"
  <2>1. CASE thread[t] \in {"quitting", "joined"}
    BY <2>1, <1>b DEF StopInv
  <2>2. CASE RemoveDefaultOrAppendStream /\ t = Stopping
    <3>1. io_task.op = "Stop" /\ t[1] = io_task.env
      BY <2>2, StoppingType DEF RemoveDefaultOrAppendStream
    <3>2. PICK c \in Call : io_task = StopTask(c) /\ c.op = "Stop" /\ result[c] = "blocked"
      BY <3>1, IOTaskType DEF IOInv, IsStart, IsStop, IsDisconnect
    <3>3. c.to[1] = t[1]
      BY <3>1, <3>2, IOTaskType
    <3> QED
      BY <3>2, <3>3, <1>b
  <2> QED
    BY <1>2, <2>1, <2>2, ThreadMoves DEF ThreadMove
<1>3. ASSUME NEW c \in Call, c.op = "Stop", result'[c] = "true"
      PROVE  /\ child'[c.to[1]] = "none"
             /\ \A t \in Thread : t[1] = c.to[1] => thread'[t] = "joined"
  <2>1. CASE result[c] = "true"
    <3>1. /\ child[c.to[1]] = "none"
          /\ \A t \in Thread : t[1] = c.to[1] => thread[t] = "joined"
      BY <1>3, <2>1 DEF StopInv
    <3>2. c.to \in Thread /\ c.to[1] \in Env
      BY CallType
    <3>3. child'[c.to[1]] = "none"
      <4>1. CASE StartEnvironmentOnClientThread
        <5>1. PICK e \in Env : /\ Head(io_queue).env = e
                                /\ \A t \in Thread : t[1] = e => thread[t] = "none"
          BY <4>1, StartHead
        <5>2. e # c.to[1] /\ child' = [child EXCEPT ![e] = "bound"]
          BY <4>1, <5>1, <3>1, <3>2 DEF StartEnvironmentOnClientThread
        <5> QED
          BY <5>2, <3>1, <3>2 DEF TypeOK
      <4>2. CASE ~StartEnvironmentOnClientThread
        <5>1. PICK e \in Env : e = c.to[1]
          BY <3>2
        <5>2. child[e] = "none" => child'[e] = "none"
          BY <4>2, ChildMoves
        <5> QED
          BY <5>1, <5>2, <3>1
      <4> QED
        BY <4>1, <4>2
    <3> QED
      BY <3>1, <3>3, <1>a
  <2>2. CASE io_task = StopTask(c) /\ SignalStopped
    <3>1. /\ io_task.op = "Stop" /\ next = Len(StopOrder) + 1
          /\ io_task.env = c.to[1] /\ c.to[1] \in Env
          /\ child[io_task.env] = "none" /\ child' = child
      BY <2>2, IOTaskType, StreamIndex, CallType DEF SignalStopped, LoopInv
    <3>2. \A k \in 1..Len(StopOrder) : thread[<<c.to[1], StopOrder[k]>>] = "joined"
      BY <3>1, StreamIndex DEF StopInv
    <3>3. \A t \in Thread : t[1] = c.to[1] => thread[t] = "joined"
      BY <3>2, StreamIndex, ThreadType
    <3>4. child'[c.to[1]] = "none"
      BY <3>1
    <3> QED
      BY <3>3, <3>4, <1>a
  <2> QED
    BY <1>3, <2>1, <2>2, ResultMoves DEF Moves, StopMove
<1> QED
  BY <1>1, <1>2, <1>3 DEF StopInv
-----------------------------------------------------------------------------
(* The loop of StartEnvironment                                            *)

\* What one step can do to run_loop_, and to what the stop has seen of it.
LoopMove ==
    \/ UNCHANGED <<run_loop, found, quit>>
    \/ /\ UNCHANGED <<found, quit>>
       /\ \E e \in Env : /\ run_loop' = [run_loop EXCEPT ![e] = "running"]
                         /\ run_loop[e] = "none"
    \/ /\ UNCHANGED <<found, quit>>
       /\ \E e \in Env : /\ run_loop' = [run_loop EXCEPT ![e] = "returned"]
                         /\ quit[e] # "no"
    \/ TestRunLoop \/ QuitLoop \/ SignalStopped

\* Every step is one of these for the loops.
LEMMA LoopMoves ==
    ASSUME TypeOK, [Next]_vars
    PROVE  LoopMove
<1> USE DEF envVars, LoopMove
<1>1. ASSUME NEW e \in Env, LoopCurrentThreadIfNecessary(e) \/ LoopQuits(e)
      PROVE  LoopMove
  BY <1>1 DEF LoopCurrentThreadIfNecessary, LoopQuits
<1>2. ASSUME NEW e \in Env,
             \/ StartEnvironment(e) \/ OnChildDisconnect(e) \/ RemoveMMMojoEnvironment(e)
      PROVE  UNCHANGED <<run_loop, found, quit>>
  BY <1>2 DEF StartEnvironment, OnChildDisconnect, RemoveMMMojoEnvironment
<1>3. ASSUME NEW c \in Call,
             \/ SendMMMojoWriteInfo(c) \/ GetIOThreadTaskRunner(c) \/ PostWriteInfo(c)
             \/ StopEnvironment(c)
      PROVE  UNCHANGED <<run_loop, found, quit>>
  BY <1>3 DEF SendMMMojoWriteInfo, GetIOThreadTaskRunner, PostWriteInfo, StopEnvironment
<1>4. ASSUME NEW t \in Thread,
             \/ CreateRemoteAndReceiverStream(t) \/ RemoveRemoteAndReceiverStream(t)
             \/ WriteInfoSync(t) \/ PeerAnswers(t)
             \/ DisconnectReturns(t) \/ OnMojoDisconnect(t)
      PROVE  UNCHANGED <<run_loop, found, quit>>
  BY <1>4 DEF CreateRemoteAndReceiverStream, RemoveRemoteAndReceiverStream,
         WriteInfoSync, PeerAnswers, DisconnectReturns, OnMojoDisconnect
<1>5. CASE \/ StartEnvironmentOnClientThread \/ IOCallbackReturns
           \/ StopEnvironmentOnClientThread \/ RemoveDefaultOrAppendStream
           \/ JoinStreamThread \/ SkipStream \/ UNCHANGED vars
  <2>1. UNCHANGED <<run_loop, found, quit>>
    BY <1>5 DEF StartEnvironmentOnClientThread, IOCallbackReturns,
           StopEnvironmentOnClientThread, RemoveDefaultOrAppendStream,
           JoinStreamThread, SkipStream, vars
  <2> QED
    BY <2>1
<1> QED
  BY <1>1, <1>2, <1>3, <1>4, <1>5, NextCases

\* While a stop is at its loop the IO thread does nothing else.
LEMMA StopHolds ==
    ASSUME TypeOK, [Next]_vars, io_task.op = "Stop", next = NoStream, ~SignalStopped
    PROVE  io_task' = io_task /\ next' = next
<1>0. io_task # NoTask
  BY IOTaskType
<1>1. ASSUME NEW e \in Env,
             \/ StartEnvironment(e) \/ LoopCurrentThreadIfNecessary(e) \/ LoopQuits(e)
             \/ OnChildDisconnect(e) \/ RemoveMMMojoEnvironment(e)
      PROVE  io_task' = io_task /\ next' = next
  BY <1>0, <1>1 DEF StartEnvironment, LoopCurrentThreadIfNecessary, LoopQuits,
         OnChildDisconnect, RemoveMMMojoEnvironment, ioVars
<1>2. ASSUME NEW c \in Call,
             \/ SendMMMojoWriteInfo(c) \/ GetIOThreadTaskRunner(c) \/ PostWriteInfo(c)
             \/ StopEnvironment(c)
      PROVE  io_task' = io_task /\ next' = next
  BY <1>2 DEF SendMMMojoWriteInfo, GetIOThreadTaskRunner, PostWriteInfo,
         StopEnvironment, ioVars
<1>3. ASSUME NEW t \in Thread,
             \/ CreateRemoteAndReceiverStream(t) \/ RemoveRemoteAndReceiverStream(t)
             \/ WriteInfoSync(t) \/ PeerAnswers(t)
             \/ DisconnectReturns(t) \/ OnMojoDisconnect(t)
      PROVE  io_task' = io_task /\ next' = next
  BY <1>3 DEF CreateRemoteAndReceiverStream, RemoveRemoteAndReceiverStream,
         WriteInfoSync, PeerAnswers, DisconnectReturns, OnMojoDisconnect, ioVars
<1>4. CASE \/ StartEnvironmentOnClientThread \/ StopEnvironmentOnClientThread
           \/ IOCallbackReturns \/ RemoveDefaultOrAppendStream \/ JoinStreamThread
           \/ SkipStream \/ TestRunLoop \/ QuitLoop \/ UNCHANGED vars
  <2>1. io_task' = io_task /\ next' = next
    BY <1>0, <1>4 DEF StartEnvironmentOnClientThread, StopEnvironmentOnClientThread,
           RunsIOTask, IOCallbackReturns, RemoveDefaultOrAppendStream,
           JoinStreamThread, SkipStream, TestRunLoop, QuitLoop, vars, ioVars
  <2> QED
    BY <2>1
<1> QED
  BY <1>1, <1>2, <1>3, <1>4, NextCases

\* A call that has quit the loop is not made undone by a step.
LEMMA QuitByStays ==
    ASSUME TypeOK, IOInv, CallInv, LoopInv, [Next]_vars, NEW c \in Call, QuitBy(c)
    PROVE  QuitBy(c)'
<1>1. CASE result[c] = "true"
  <2>1. result'[c] = "true"
    BY <1>1, ResultMoves DEF Moves, StopMove, QuitBy
  <2> QED
    BY <2>1 DEF QuitBy
<1>2. CASE io_task = StopTask(c) /\ found = "none"
  <2>1. io_task.op = "Stop" /\ io_task.call = c /\ next = NoStream
    BY <1>2, IOTaskType DEF LoopInv
  <2>2. CASE SignalStopped
    <3>1. Signal(c, "true")
      BY <2>1, <2>2 DEF SignalStopped
    <3> QED
      BY <3>1, SignalEffect DEF QuitBy
  <2>3. CASE ~SignalStopped
    <3>1. io_task' = io_task
      BY <2>1, <2>3, StopHolds
    <3>2. ~TestRunLoop /\ ~QuitLoop
      BY <1>2 DEF TestRunLoop, QuitLoop
    <3>3. found' = found
      BY <2>3, <3>2, LoopMoves DEF LoopMove
    <3> QED
      BY <1>2, <3>1, <3>3 DEF QuitBy, StopTask
  <2> QED
    BY <2>2, <2>3
<1> QED
  BY <1>1, <1>2 DEF QuitBy

\* The stop that calls Quit.
LEMMA Quitter ==
    ASSUME TypeOK, IOInv, CallInv, LoopInv, [Next]_vars, QuitLoop
    PROVE  /\ quit' = [quit EXCEPT ![io_task.env] =
                           IF run_loop[io_task.env] = "running" THEN "called" ELSE "freed"]
           /\ run_loop' = run_loop
           /\ \E c \in Call :
                 /\ c.op = "Stop" /\ c.to[1] = io_task.env /\ result[c] = "blocked"
                 /\ io_task = StopTask(c) /\ result' = result /\ QuitBy(c)'
<1>1. /\ io_task.op = "Stop" /\ found = "loop" /\ found' = "none"
      /\ io_task' = io_task /\ result' = result /\ run_loop' = run_loop
  BY DEF QuitLoop, ioVars
<1>2. PICK c \in Call : io_task = StopTask(c) /\ c.op = "Stop" /\ result[c] = "blocked"
  BY <1>1, IOTaskType DEF IOInv, IsStart, IsStop, IsDisconnect
<1>3. c.to[1] = io_task.env
  BY <1>2, IOTaskType
<1>4. QuitBy(c)'
  BY <1>1, <1>2 DEF QuitBy, StopTask
<1> QED
  BY <1>1, <1>2, <1>3, <1>4 DEF QuitLoop

\* Every step keeps the order in which a stop ends.
LEMMA LoopStepInv ==
    ASSUME TypeOK, IOInv, StartInv, CallInv, LoopInv, [Next]_vars
    PROVE  LoopInv'
<1>1. ASSUME found' # "untested"
      PROVE  io_task'.op = "Stop" /\ next' = NoStream /\ child'[io_task'.env] = "none"
  <2>1. ~SignalStopped
    BY <1>1 DEF SignalStopped
  <2>2. CASE TestRunLoop
    <3>1. io_task.op = "Stop" /\ next = NoStream
      BY <2>2 DEF TestRunLoop
    <3>2. io_task.env \in Env
      BY <3>1 DEF TypeOK, IOTask, NoTask
    <3>3. child'[io_task.env] = "none"
      BY <2>2, <3>2 DEF TestRunLoop, ResetChild, TypeOK
    <3> QED
      BY <2>1, <3>1, <3>3, StopHolds
  <2>3. CASE ~TestRunLoop
    <3>1. found # "untested"
      BY <1>1, <2>1, <2>3, LoopMoves DEF LoopMove, QuitLoop
    <3>2. io_task.op = "Stop" /\ next = NoStream /\ child[io_task.env] = "none"
      BY <3>1 DEF LoopInv
    <3>3. io_task' = io_task /\ next' = next
      BY <2>1, <3>2, StopHolds
    <3>4. io_task.env \in Env /\ io_task # NoTask
      BY <3>2, IOTaskType DEF TypeOK, IOTask, NoTask
    <3>5. ~StartEnvironmentOnClientThread
      BY <3>4 DEF StartEnvironmentOnClientThread, RunsIOTask
    <3>6. PICK e \in Env : e = io_task.env
      BY <3>4
    <3>7. child'[e] = "none"
      BY <3>2, <3>5, <3>6, ChildMoves
    <3> QED
      BY <3>2, <3>3, <3>6, <3>7
  <2> QED
    BY <2>2, <2>3
<1>2. ASSUME NEW e \in Env, quit[e] # "no"
      PROVE  quit'[e] # "no"
  BY <1>2, LoopMoves DEF LoopMove, TestRunLoop, QuitLoop, SignalStopped, TypeOK
<1>3. ASSUME NEW e \in Env, run_loop'[e] = "returned"
      PROVE  quit'[e] # "no"
  <2>1. run_loop[e] = "returned" \/ quit[e] # "no"
    BY <1>3, LoopMoves DEF LoopMove, TestRunLoop, QuitLoop, SignalStopped, TypeOK
  <2> QED
    BY <2>1, <1>2 DEF LoopInv
<1>4. ASSUME NEW e \in Env, quit'[e] # "no"
      PROVE  \E c \in Call : c.to[1] = e /\ QuitBy(c)'
  <2>1. CASE quit[e] # "no"
    BY <2>1, QuitByStays DEF LoopInv
  <2>2. CASE quit[e] = "no"
    <3>1. QuitLoop
      BY <1>4, <2>2, LoopMoves DEF LoopMove, TestRunLoop, SignalStopped
    <3>2. quit'[e] # quit[e] => e = io_task.env
      BY <3>1, Quitter DEF TypeOK
    <3> QED
      BY <1>4, <2>2, <3>1, <3>2, Quitter
  <2> QED
    BY <2>1, <2>2
<1>5. ASSUME found' = "loop"
      PROVE  run_loop'[io_task'.env] # "none"
  <2>1. ~QuitLoop /\ ~SignalStopped
    BY <1>5 DEF QuitLoop, SignalStopped
  <2>2. \A e \in Env : run_loop[e] # "none" => run_loop'[e] # "none"
    BY <2>1, LoopMoves DEF LoopMove, TestRunLoop, TypeOK
  <2>3. io_task.op = "Stop" /\ next = NoStream /\ run_loop[io_task.env] # "none"
    BY <1>5, <2>1, LoopMoves DEF LoopMove, TestRunLoop, LoopInv
  <2>4. io_task' = io_task /\ io_task.env \in Env
    BY <2>1, <2>3, StopHolds DEF TypeOK, IOTask, NoTask
  <2> QED
    BY <2>2, <2>3, <2>4
<1> QED
  BY <1>1, <1>3, <1>4, <1>5 DEF LoopInv

\* The stop that finds the loop gone is not the one that ended it.
LEMMA QuitStepInv ==
    ASSUME TypeOK, IOInv, CallInv, LoopInv, QuitFindsLoop, [Next]_vars
    PROVE  QuitFindsLoop'
<1> DEFINE Twice(e) ==
        \E c, d \in Call :
            /\ c # d /\ c.op = "Stop" /\ d.op = "Stop"
            /\ c.to[1] = e /\ d.to[1] = e
            /\ result'[c] # "idle" /\ result'[d] # "idle"
<1> SUFFICES ASSUME NEW e \in Env, quit'[e] = "freed"
             PROVE  Twice(e)
  BY DEF QuitFindsLoop
<1>1. \A c \in Call : result[c] # "idle" => result'[c] # "idle"
  BY ResultMoves DEF Moves, SendMove, StopMove
<1>2. CASE quit[e] = "freed"
  BY <1>1, <1>2 DEF QuitFindsLoop
<1>3. CASE quit[e] # "freed"
  <2>1. QuitLoop
    BY <1>3, LoopMoves DEF LoopMove, TestRunLoop, SignalStopped
  <2>2. e = io_task.env /\ run_loop[e] # "running"
    BY <1>3, <2>1, Quitter DEF TypeOK
  <2>3. PICK c \in Call : /\ c.op = "Stop" /\ c.to[1] = e /\ result[c] = "blocked"
                          /\ io_task = StopTask(c)
    BY <2>1, <2>2, Quitter
  <2>4. run_loop[e] = "returned"
    BY <2>1, <2>2 DEF QuitLoop, LoopInv, TypeOK
  <2>5. PICK d \in Call : d.to[1] = e /\ QuitBy(d)
    BY <2>4 DEF LoopInv
  <2>6. result[d] = "true" /\ d.op = "Stop"
    BY <2>1, <2>5 DEF QuitBy, QuitLoop
  <2> QED
    BY <1>1, <2>3, <2>5, <2>6
<1> QED
  BY <1>2, <1>3
-----------------------------------------------------------------------------
(* The IO thread inside a callback                                         *)

\* What one step can do to the task the IO thread is in the middle of.
IOTaskMove ==
    \/ io_task' = io_task
    \/ /\ io_task = NoTask /\ io_task' = Head(io_queue)
       /\ StartEnvironmentOnClientThread \/ StopEnvironmentOnClientThread
    \/ \E e \in Env : OnChildDisconnect(e) /\ io_task = NoTask /\ io_task' = DisconnectTask(e)
    \/ io_task' = NoTask /\ (SignalStopped \/ io_task.op \in {"Start", "Disconnect"})

\* A task leaves the queue to be run, and nothing undoes a start or a removal.
IOMove ==
    /\ IOTaskMove
    /\ \A x \in ToSet(io_queue) : x \in ToSet(io_queue') \/ io_task' = x
    /\ \A e \in Env : started[e] = "yes" => started'[e] = "yes"
    /\ \A e \in Env : removed'[e] => removed[e] \/ RemoveMMMojoEnvironment(e)

\* Every step is one of these for the IO thread.
LEMMA IOMoves ==
    ASSUME TypeOK, [Next]_vars
    PROVE  IOMove
<1> USE DEF ioVars, envVars
<1>1. ASSUME NEW e \in Env, StartEnvironment(e)
      PROVE  IOMove
  <2>1. ToSet(io_queue') = ToSet(io_queue) \cup {StartTask(e)}
    BY <1>1, PostIOEffect, IOTaskType DEF StartEnvironment, StartTask
  <2> QED
    BY <1>1, <2>1 DEF StartEnvironment, IOMove, IOTaskMove, TypeOK
<1>2. ASSUME NEW c \in Call, StopEnvironment(c)
      PROVE  IOMove
  <2>1. ToSet(io_queue') = ToSet(io_queue) \cup {StopTask(c)}
    BY <1>2, PostIOEffect, IOTaskType DEF StopEnvironment, StopTask
  <2> QED
    BY <1>2, <2>1 DEF StopEnvironment, IOMove, IOTaskMove
<1>3. CASE StartEnvironmentOnClientThread \/ StopEnvironmentOnClientThread
  <2>1. /\ io_task = NoTask /\ io_task' = Head(io_queue) /\ removed' = removed
        /\ ToSet(io_queue) = ToSet(io_queue') \cup {Head(io_queue)}
    BY <1>3, RunsIOEffect DEF StartEnvironmentOnClientThread, StopEnvironmentOnClientThread
  <2>2. \A e \in Env : started[e] = "yes" => started'[e] = "yes"
    BY <1>3 DEF StartEnvironmentOnClientThread, StopEnvironmentOnClientThread, TypeOK
  <2> QED
    BY <1>3, <2>1, <2>2 DEF IOMove, IOTaskMove
<1>4. ASSUME NEW e \in Env, OnChildDisconnect(e)
      PROVE  IOMove
  <2>1. io_task = NoTask /\ io_task' = DisconnectTask(e) /\ UNCHANGED <<io_queue, started, removed>>
    BY <1>4 DEF OnChildDisconnect, DisconnectTask
  <2> QED
    BY <1>4, <2>1 DEF IOMove, IOTaskMove
<1>5. ASSUME NEW e \in Env, RemoveMMMojoEnvironment(e)
      PROVE  IOMove
  <2>1. UNCHANGED <<io_queue, io_task, started>>
    BY <1>5 DEF RemoveMMMojoEnvironment
  <2>2. \A d \in Env : removed'[d] => removed[d] \/ d = e
    BY <1>5 DEF RemoveMMMojoEnvironment, TypeOK
  <2> QED
    BY <1>5, <2>1, <2>2 DEF IOMove, IOTaskMove
<1>6. CASE IOCallbackReturns \/ SignalStopped
  <2>1. /\ io_task' = NoTask /\ UNCHANGED <<io_queue, started, removed>>
        /\ SignalStopped \/ io_task.op \in {"Start", "Disconnect"}
    BY <1>6 DEF IOCallbackReturns, SignalStopped
  <2> QED
    BY <2>1 DEF IOMove, IOTaskMove
<1>7. CASE UNCHANGED <<io_queue, io_task, started, removed>>
  BY <1>7 DEF IOMove, IOTaskMove
<1>8. ASSUME NEW e \in Env, LoopCurrentThreadIfNecessary(e) \/ LoopQuits(e)
      PROVE  UNCHANGED <<io_queue, io_task, started, removed>>
  BY <1>8 DEF LoopCurrentThreadIfNecessary, LoopQuits
<1>9. ASSUME NEW c \in Call,
             SendMMMojoWriteInfo(c) \/ GetIOThreadTaskRunner(c) \/ PostWriteInfo(c)
      PROVE  UNCHANGED <<io_queue, io_task, started, removed>>
  BY <1>9 DEF SendMMMojoWriteInfo, GetIOThreadTaskRunner, PostWriteInfo
<1>10. ASSUME NEW t \in Thread,
              \/ CreateRemoteAndReceiverStream(t) \/ RemoveRemoteAndReceiverStream(t)
              \/ WriteInfoSync(t) \/ PeerAnswers(t)
              \/ DisconnectReturns(t) \/ OnMojoDisconnect(t)
       PROVE  UNCHANGED <<io_queue, io_task, started, removed>>
  BY <1>10 DEF CreateRemoteAndReceiverStream, RemoveRemoteAndReceiverStream,
         WriteInfoSync, PeerAnswers, DisconnectReturns, OnMojoDisconnect
<1>11. CASE \/ RemoveDefaultOrAppendStream \/ JoinStreamThread \/ SkipStream
            \/ TestRunLoop \/ QuitLoop \/ UNCHANGED vars
  <2>1. UNCHANGED <<io_queue, io_task, started, removed>>
    BY <1>11 DEF RemoveDefaultOrAppendStream, JoinStreamThread, SkipStream,
           TestRunLoop, QuitLoop, vars
  <2> QED
    BY <2>1, <1>7
<1> QED
  BY <1>1, <1>2, <1>3, <1>4, <1>5, <1>6, <1>7, <1>8, <1>9, <1>10, <1>11, NextCases

\* A callback of the connection runs while its environment is connected, or has
\* just been cut off.
LEMMA CallbackStepInv ==
    ASSUME TypeOK, IOInv, StartInv, CallbackInv, [Next]_vars
    PROVE  CallbackInv'
<1>1. ASSUME NEW e \in Env, io_task' = StartTask(e)
      PROVE  /\ started'[e] = "yes"
             /\ \A t \in Thread : t[1] = e => thread'[t] = "running"
  <2>1. CASE io_task' = io_task
    <3>1. started[e] = "yes" /\ \A t \in Thread : t[1] = e => thread[t] = "running"
      BY <1>1, <2>1 DEF CallbackInv
    <3>2. ~RemoveDefaultOrAppendStream
      BY <1>1, <2>1, IOTaskType DEF RemoveDefaultOrAppendStream
    <3>3. \A t \in Thread : t[1] = e => thread'[t] = "running"
      BY <3>1, <3>2, ThreadMoves DEF ThreadMove
    <3> QED
      BY <3>1, <3>3, IOMoves DEF IOMove
  <2>2. CASE StartEnvironmentOnClientThread /\ io_task' = Head(io_queue)
    <3>1. PICK d \in Env : Head(io_queue).env = d
      BY <2>2, StartHead
    <3>2. d = e
      BY <1>1, <2>2, <3>1, IOTaskType
    <3> QED
      BY <2>2, <3>1, <3>2 DEF StartEnvironmentOnClientThread, TypeOK
  <2>3. io_task'.op = "Start"
    BY <1>1, IOTaskType
  <2>4. StopEnvironmentOnClientThread => Head(io_queue).op = "Stop"
    BY RunsIOEffect DEF StopEnvironmentOnClientThread
  <2>5. io_task' # NoTask /\ \A d \in Env : io_task' # DisconnectTask(d)
    BY <2>3, IOTaskType
  <2> QED
    BY <2>1, <2>2, <2>3, <2>4, <2>5, IOMoves DEF IOMove, IOTaskMove
<1>2. ASSUME NEW e \in Env, io_task' = DisconnectTask(e)
      PROVE  child'[e] = "reset"
  <2>0. io_task'.op = "Disconnect" /\ io_task' # NoTask
    BY <1>2, IOTaskType
  <2>1. CASE io_task' = io_task
    <3>1. child[e] = "reset"
      BY <1>2, <2>1 DEF CallbackInv
    <3>2. ~StartEnvironmentOnClientThread /\ ~TestRunLoop
      BY <2>0, <2>1 DEF StartEnvironmentOnClientThread, RunsIOTask, TestRunLoop
    <3> QED
      BY <3>1, <3>2, ChildMoves
  <2>2. ASSUME NEW d \in Env, OnChildDisconnect(d), io_task' = DisconnectTask(d)
        PROVE  child'[e] = "reset"
    <3>1. DisconnectTask(d).env = d /\ DisconnectTask(e).env = e
      BY IOTaskType
    <3>2. d = e
      BY <1>2, <2>2, <3>1
    <3> QED
      BY <2>2, <3>2 DEF OnChildDisconnect, TypeOK
  <2>3. /\ StartEnvironmentOnClientThread => Head(io_queue).op = "Start"
        /\ StopEnvironmentOnClientThread => Head(io_queue).op = "Stop"
    BY RunsIOEffect DEF StartEnvironmentOnClientThread, StopEnvironmentOnClientThread
  <2> QED
    BY <2>0, <2>1, <2>2, <2>3, IOMoves DEF IOMove, IOTaskMove
<1> QED
  BY <1>1, <1>2 DEF CallbackInv

\* What was stopped before an environment is removed stays stopped, and nobody
\* calls it afterwards.
LEMMA RemovedStepInv ==
    ASSUME TypeOK, IOInv, StartInv, CallInv, RemovedInv, [Next]_vars
    PROVE  RemovedInv'
<1> SUFFICES ASSUME NEW e \in Env, removed'[e]
             PROVE  /\ \E c \in Call : c.to[1] = e /\ c.op = "Stop" /\ result'[c] = "true"
                    /\ \A c \in Call : c.to[1] = e => result'[c] \notin InSend \cup Waiting
  BY DEF RemovedInv
<1>1. CASE removed[e]
  <2>1. PICK d \in Call : d.to[1] = e /\ d.op = "Stop" /\ result[d] = "true"
    BY <1>1 DEF RemovedInv
  <2>2. result'[d] = "true"
    BY <2>1, ResultMoves DEF Moves, StopMove
  <2>3. ASSUME NEW c \in Call, c.to[1] = e
        PROVE  result'[c] \notin InSend \cup Waiting
    <3>1. result[c] \notin InSend \cup Waiting
      BY <1>1, <2>3 DEF RemovedInv
    <3> QED
      BY <1>1, <2>3, <3>1, ResultMoves DEF Moves, SendMove, StopMove, InSend, Waiting, Done
  <2> QED
    BY <2>1, <2>2, <2>3
<1>2. CASE RemoveMMMojoEnvironment(e)
  <2>1. /\ \E c \in Call : c.to[1] = e /\ c.op = "Stop" /\ result[c] = "true"
        /\ \A c \in Call : c.to[1] = e => result[c] \notin InSend \cup Waiting
        /\ result' = result
    BY <1>2 DEF RemoveMMMojoEnvironment
  <2> QED
    BY <2>1
<1> QED
  BY <1>1, <1>2, IOMoves DEF IOMove
-----------------------------------------------------------------------------
(* Callers that wait                                                       *)

\* A Send that waits is queued at a thread that has not ended, or served.
LEMMA SendWaits ==
    ASSUME TypeOK, IOInv, StartInv, CallInv, NoOrphanCall, [Next]_vars,
           NEW c \in Call, c.op = "Send", result'[c] \in Waiting
    PROVE  \/ incall'[c.to] = c
           \/ thread'[c.to] # "joined" /\ WriteTask(c) \in ToSet(queue'[c.to])
<1>1. PICK t \in Thread : t = c.to
  BY CallType
<1>2. c # NoCall
  BY CallType
<1>3. CASE result[c] \in Waiting /\ incall[t] = c
  <2>1. ~WriteInfoSync(t)
    BY <1>2, <1>3, RunEffect DEF WriteInfoSync, Idle
  <2>2. ~PeerAnswers(t)
    BY <1>3, SignalEffect DEF PeerAnswers, Waiting
  <2> QED
    BY <1>1, <1>3, <2>1, <2>2, ImplMoves DEF IncallMove
<1>4. CASE /\ result[c] \in Waiting
           /\ thread[t] # "joined" /\ WriteTask(c) \in ToSet(queue[t])
  <2>1. queue[t] # <<>>
    BY <1>4, EmptyElements
  <2>2. thread'[t] # "joined"
    BY <1>4, <2>1, ThreadMoves DEF ThreadMove, JoinStreamThread
  <2>3. CASE Runs(t) /\ Head(queue[t]) = WriteTask(c)
    <3>1. WriteInfoSync(t)
      BY <2>3, RunsHead, TaskType
    <3>2. Head(queue[t]).call = c
      BY <2>3, TaskType
    <3>3. ~Signal(c, "false")
      BY SignalEffect DEF Waiting
    <3>4. incall' = [incall EXCEPT ![t] = c]
      BY <3>1, <3>2, <3>3 DEF WriteInfoSync
    <3> QED
      BY <1>1, <3>4 DEF TypeOK
  <2>4. CASE ~(Runs(t) /\ Head(queue[t]) = WriteTask(c))
    BY <1>1, <1>4, <2>2, <2>4, QueueMoves DEF QueueMove
  <2> QED
    BY <2>3, <2>4
<1>5. CASE PostTask(c.to, "Write", c) /\ thread'[t] = thread[t] /\ thread[t] # "joined"
  <2>1. [op |-> "Write", call |-> c] \in Task
    BY TaskType DEF WriteTask
  <2>2. PostTask(t, "Write", c)
    BY <1>1, <1>5
  <2>3. ToSet(queue'[t]) = ToSet(queue[t]) \cup {WriteTask(c)}
    BY <2>1, <2>2, PostEffect DEF WriteTask
  <2> QED
    BY <1>1, <1>5, <2>3
<1>6. result[c] \in Waiting \/ (PostTask(c.to, "Write", c) /\ thread'[t] = thread[t] /\ thread[t] # "joined")
  BY <1>1, ResultMoves DEF Moves, SendMove, Waiting, InSend
<1>7. result[c] \in Waiting =>
         incall[t] = c \/ (thread[t] # "joined" /\ WriteTask(c) \in ToSet(queue[t]))
  BY <1>1 DEF NoOrphanCall, WriteTask
<1> QED
  BY <1>3, <1>4, <1>5, <1>6, <1>7

\* A stop that waits is queued at the IO thread, or under way there.
LEMMA StopIsWaiting ==
    ASSUME TypeOK, IOInv, CallInv, NoOrphanCall, [Next]_vars,
           NEW c \in Call, c.op = "Stop", result'[c] \in Waiting
    PROVE  io_task' = StopTask(c) \/ StopTask(c) \in ToSet(io_queue')
<1>1. CASE result[c] \in Waiting
  <2>1. io_task = StopTask(c) \/ StopTask(c) \in ToSet(io_queue)
    BY <1>1 DEF NoOrphanCall, StopTask
  <2>2. CASE io_task = StopTask(c)
    <3>1. io_task.op = "Stop" /\ io_task.call = c /\ io_task # NoTask
      BY <2>2, IOTaskType
    <3>2. SignalStopped => Signal(c, "true")
      BY <3>1 DEF SignalStopped
    <3>3. ~SignalStopped
      BY <3>2, SignalEffect DEF Waiting
    <3> QED
      BY <2>2, <3>1, <3>3, IOMoves DEF IOMove, IOTaskMove
  <2> QED
    BY <2>1, <2>2, IOMoves DEF IOMove
<1> QED
  BY <1>1, ResultMoves DEF Moves, StopMove, Waiting

\* The same in the names of the tasks.
Served ==
    \A c \in Call :
        /\ result[c] \in Waiting /\ c.op = "Send" =>
               \/ incall[c.to] = c
               \/ thread[c.to] # "joined" /\ WriteTask(c) \in ToSet(queue[c.to])
        /\ result[c] \in Waiting /\ c.op = "Stop" =>
               io_task = StopTask(c) \/ StopTask(c) \in ToSet(io_queue)
        /\ result[c] \in {"lost", "undefined"} =>
               \E d \in Call : d.op = "Stop" /\ d.to[1] = c.to[1] /\ result[d] # "idle"

\* Where every call waits for a task that is still there, no call is orphaned.
LEMMA ServedCalls == Served => NoOrphanCall
  BY ZenonT(30) DEF Served, NoOrphanCall, WriteTask, StopTask

\* A caller that waits goes on having something to wait for.
LEMMA OrphanStepInv ==
    ASSUME TypeOK, IOInv, StartInv, CallInv, StopInv, NoOrphanCall, [Next]_vars
    PROVE  NoOrphanCall'
<1>1. ASSUME NEW c \in Call, result'[c] \in {"lost", "undefined"}
      PROVE  \E d \in Call : d.op = "Stop" /\ d.to[1] = c.to[1] /\ result'[d] # "idle"
  <2>1. \A d \in Call : result[d] # "idle" => result'[d] # "idle"
    BY ResultMoves DEF Moves, SendMove, StopMove
  <2>2. CASE result[c] \in {"lost", "undefined"}
    BY <2>1, <2>2 DEF NoOrphanCall
  <2>3. CASE thread[c.to] = "joined"
    BY <2>1, <2>3, CallType DEF StopInv
  <2> QED
    BY <1>1, <2>2, <2>3, ResultMoves DEF Moves, SendMove, StopMove
<1>2. ASSUME NEW c \in Call
      PROVE  /\ result'[c] \in Waiting /\ c.op = "Send" =>
                    \/ incall'[c.to] = c
                    \/ /\ thread'[c.to] # "joined"
                       /\ WriteTask(c) \in ToSet(queue'[c.to])
             /\ result'[c] \in Waiting /\ c.op = "Stop" =>
                    io_task' = StopTask(c) \/ StopTask(c) \in ToSet(io_queue')
             /\ result'[c] \in {"lost", "undefined"} =>
                    \E d \in Call : d.op = "Stop" /\ d.to[1] = c.to[1] /\ result'[d] # "idle"
  BY <1>1, SendWaits, StopIsWaiting
<1>3. Served'
  BY <1>2 DEF Served
<1> QED
  BY <1>3, ServedCalls, PTL

\* A Send that was accepted in time is not behind Remove in the queue.
LEMMA RemoveFindsNoWrite ==
    ASSUME TypeOK, OrderInv, NoOrphanCall, NEW c \in Call, c.op = "Send",
           result[c] = "blocked", RemoveRemoteAndReceiverStream(c.to)
    PROVE  FALSE
<1>1. PICK t \in Thread : t = c.to
  BY CallType
<1>2. /\ queue[t] \in Seq(Task) /\ queue[t] # <<>> /\ Idle(t)
      /\ Head(queue[t]) = RemoveTask
  BY <1>1, RunEffect, TaskType DEF RemoveRemoteAndReceiverStream
<1>3. incall[t] # c
  BY <1>2, CallType DEF Idle
<1>4. WriteTask(c) \in ToSet(queue[t])
  BY <1>1, <1>3 DEF NoOrphanCall, WriteTask, Waiting
<1>5. PICK j \in DOMAIN queue[t] : queue[t][j] = WriteTask(c)
  BY <1>2, <1>4, ElementIndex
<1>6. /\ 1 \in DOMAIN queue[t] /\ queue[t][1] = RemoveTask
      /\ j = 1 \/ 1 < j
  BY <1>2, <1>5
<1>7. 1 < j
  BY <1>5, <1>6, TaskType
<1>8. AfterRemove(WriteTask(c))
  BY <1>5, <1>6, <1>7 DEF OrderInv
<1> QED
  BY <1>8, TaskType DEF AfterRemove

\* The pipes such a Send needs are there, or will be, until it has used them.
LEMMA WritesStepInv ==
    ASSUME TypeOK, IOInv, StartInv, CallInv, ThreadInv, OrderInv,
           NoOrphanCall, WritesFindImpl, [Next]_vars
    PROVE  WritesFindImpl'
<1> SUFFICES ASSUME NEW c \in Call, c.op = "Send", result'[c] = "blocked"
             PROVE  impl'[c.to] # "absent" \/ CreateTask \in ToSet(queue'[c.to])
  BY DEF WritesFindImpl, CreateTask
<1>1. PICK t \in Thread : t = c.to
  BY CallType
<1>2. CASE result[c] = "blocked"
  <2>1. impl[t] # "absent" \/ CreateTask \in ToSet(queue[t])
    BY <1>1, <1>2 DEF WritesFindImpl, CreateTask
  <2>2. ~RemoveRemoteAndReceiverStream(t)
    BY <1>1, <1>2, RemoveFindsNoWrite
  <2>3. impl[t] # "absent" => impl'[t] # "absent"
    BY <2>2, ImplMoves DEF ImplMove
  <2>4. Runs(t) => Head(queue[t]) # CreateTask \/ impl'[t] = "bound"
    BY RunsHead, TaskType
  <2>5. CreateTask \in ToSet(queue[t]) => CreateTask \in ToSet(queue'[t]) \/ impl'[t] = "bound"
    BY <2>4, QueueMoves DEF QueueMove
  <2> QED
    BY <1>1, <2>1, <2>3, <2>5
<1>3. CASE thread'[t] = "running"
  BY <1>1, <1>3, RunningStepInv
<1> QED
  BY <1>1, <1>2, <1>3, ResultMoves DEF Moves, SendMove, Waiting, InSend
-----------------------------------------------------------------------------
(* The theorems                                                            *)

\* Nothing is queued, waits or runs before the first environment is started.
LEMMA InitIInv == Init => IInv
<1> SUFFICES ASSUME Init
             PROVE  IInv
  OBVIOUS
<1>1. TypeOK
  BY InitType
<1>2. ToSet(io_queue) = {} /\ IsInjective(io_queue)
  BY EmptyElements DEF Init, IsInjective
<1>3. \A t \in Thread : queue[t] = <<>> /\ ToSet(queue[t]) = {} /\ DOMAIN queue[t] = {}
  BY EmptyElements DEF Init
<1>4. IOInv /\ CallbackInv
  BY <1>2, IOTaskType DEF Init, IOInv, CallbackInv
<1>5. StartInv
  BY <1>2 DEF Init, StartInv
<1>6. CallInv
  BY <1>3 DEF Init, CallInv, InSend
<1>7. ThreadInv /\ OrderInv
  BY <1>3 DEF Init, ThreadInv, OrderInv, Idle
<1>8. StopInv /\ LoopInv /\ RemovedInv
  BY IOTaskType DEF Init, StopInv, LoopInv, RemovedInv
<1>9. NoOrphanCall /\ WritesFindImpl /\ QuitFindsLoop
  BY DEF Init, NoOrphanCall, WritesFindImpl, QuitFindsLoop, Waiting
<1> QED
  BY <1>1, <1>4, <1>5, <1>6, <1>7, <1>8, <1>9 DEF IInv

\* Every step keeps the inductive invariant.
LEMMA StepIInv == IInv /\ [Next]_vars => IInv'
  BY StepType, IOStepInv, StartStepInv, CallStepInv, ThreadStepInv, OrderStepInv,
     StopStepInv, LoopStepInv, CallbackStepInv, RemovedStepInv, OrphanStepInv,
     WritesStepInv, QuitStepInv DEF IInv

\* The inductive invariant holds in every state.
THEOREM Invariant == Spec => []IInv
  BY InitIInv, StepIInv, PTL DEF Spec

\* When StopEnvironment has returned, every thread of the environment is joined:
\* the loop over the streams has come to each of them, and a thread is joined
\* only after it has emptied its queue and unbound its pipes.
THEOREM StoppedIsQuiet == Spec => []QuietAfterStop
<1>1. IInv => QuietAfterStop
  BY DEF IInv, StopInv, ThreadInv, QuietAfterStop
<1> QED
  BY <1>1, Invariant, PTL

\* A caller that waits in a synchronous Send or in StopEnvironment has something
\* to wait for: the post that no code checks went to a thread that still runs.
THEOREM CallersAreServed == Spec => []NoOrphanCall
<1>1. IInv => NoOrphanCall
  BY DEF IInv
<1> QED
  BY <1>1, Invariant, PTL

\* The task of a Send that was accepted in time runs between those that create
\* and remove impl_: posts to one thread run in their order.
THEOREM WritesAreInTime == Spec => []WritesFindImpl
<1>1. IInv => WritesFindImpl
  BY DEF IInv
<1> QED
  BY <1>1, Invariant, PTL

\* The Quit of a stop finds the loop the stop has seen, unless an earlier stop
\* has ended the loop: Run returns only after a Quit, and one thread stops all
\* environments, one after the other.
THEOREM QuitFindsItsLoop == Spec => []QuitFindsLoop
<1>1. IInv => QuitFindsLoop
  BY DEF IInv
<1> QED
  BY <1>1, Invariant, PTL

\* The application that waits for its calls before it deletes an environment
\* leaves no task, thread or pipe that would use it.
THEOREM NothingUsesTheRemoved == Spec => []RemovedUnused
<1>1. ASSUME IInv, NEW e \in Env, removed[e]
      PROVE  /\ \A i \in DOMAIN io_queue : io_queue[i].env # e
             /\ io_task = NoTask \/ io_task.env # e
             /\ child[e] = "none"
             /\ \A t \in Thread : t[1] = e => thread[t] = "joined" /\ incall[t] = NoCall
  <2>1. PICK d \in Call : d.to[1] = e /\ d.op = "Stop" /\ result[d] = "true"
    BY <1>1 DEF IInv, RemovedInv
  <2>2. \A c \in Call : c.to[1] = e => result[c] \notin InSend \cup Waiting
    BY <1>1 DEF IInv, RemovedInv
  <2>3. child[e] = "none" /\ \A t \in Thread : t[1] = e => thread[t] = "joined"
    BY <1>1, <2>1 DEF IInv, StopInv
  <2>4. \A t \in Thread : t[1] = e => incall[t] = NoCall
    BY <1>1, <2>3 DEF IInv, ThreadInv, Idle
  <2>5. d.to \in Thread /\ d.to[1] = e
    BY <2>1, CallType
  <2>6. started[e] = "yes"
    BY <1>1, <2>3, <2>5 DEF IInv, StartInv
  <2>7. ASSUME NEW x, IsStart(x) \/ IsStop(x), x.env = e,
               \A f \in Env : x = StartTask(f) => started[f] = "posted" \/ thread[d.to] = "running"
        PROVE  FALSE
    <3>1. CASE IsStop(x)
      <4>1. PICK c \in Call : x = StopTask(c) /\ result[c] = "blocked"
        BY <3>1 DEF IsStop
      <4>2. c.to[1] = e
        BY <2>7, <4>1, IOTaskType
      <4> QED
        BY <2>2, <4>1, <4>2 DEF Waiting
    <3>2. CASE IsStart(x)
      <4>1. PICK f \in Env : x = StartTask(f)
        BY <3>2 DEF IsStart
      <4>2. f = e
        BY <2>7, <4>1, IOTaskType
      <4> QED
        BY <2>3, <2>5, <2>6, <2>7, <4>1, <4>2
    <3> QED
      BY <2>7, <3>1, <3>2
  <2>8. \A x \in ToSet(io_queue) : x.env # e
    BY <1>1, <2>7 DEF IInv, IOInv, StartInv
  <2>9. io_task = NoTask \/ io_task.env # e
    <3>1. CASE IsDisconnect(io_task)
      <4>1. PICK f \in Env : io_task = DisconnectTask(f)
        BY <3>1 DEF IsDisconnect
      <4>2. io_task.env = f /\ child[f] = "reset"
        BY <1>1, <4>1, IOTaskType DEF IInv, CallbackInv
      <4> QED
        BY <2>3, <4>2
    <3>2. \A f \in Env : io_task = StartTask(f) =>
             \A t \in Thread : t[1] = f => thread[t] = "running"
      BY <1>1 DEF IInv, CallbackInv
    <3>3. ASSUME IsStart(io_task), io_task.env = e
          PROVE  \A f \in Env : io_task = StartTask(f) => thread[d.to] = "running"
      BY <2>5, <3>2, <3>3, IOTaskType
    <3>4. IsStop(io_task) => \A f \in Env : io_task # StartTask(f)
      BY IOTaskType DEF IsStop
    <3> QED
      BY <1>1, <2>7, <3>1, <3>3, <3>4 DEF IInv, IOInv
  <2>10. \A i \in DOMAIN io_queue : io_queue[i] \in ToSet(io_queue)
    BY <1>1, ElementIndex DEF IInv, TypeOK
  <2> QED
    BY <2>3, <2>4, <2>8, <2>9, <2>10
<1>2. IInv => RemovedUnused
  BY <1>1 DEF RemovedUnused
<1> QED
  BY <1>2, Invariant, PTL
=============================================================================
