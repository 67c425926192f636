------------------------ MODULE MMMojoProcessProofs ------------------------
(***************************************************************************)
(* What holds of MMMojoProcess for every set of environments and switches, *)
(* and every number of calls, starts and departures from the rules.        *)
(***************************************************************************)
EXTENDS MMMojoProcess, SequenceElements, TLAPS

-----------------------------------------------------------------------------
(* The inductive invariant                                                 *)

StartTask(e) == [op |-> "Start", env |-> e]

\* What is queued at the IO thread, whatever the application does: it makes no
\* call while it waits for a stop, so that the stop's task is the last but for
\* answers of the launcher.
QueueInv ==
    /\ \A x \in ToSet(io_queue) :
          /\ x.op = "Stop" => x.env \in stopping
          /\ x.op = "Start" => life[x.env] \in {"running", "removed"}
    /\ \A i, j \in DOMAIN io_queue :
          i < j /\ io_queue[i].op = "Stop" => io_queue[j].op \notin {"Start", "Stop"}

\* What a stop has destroyed stays away.
QuietInv ==
    \A e \in Env : life[e] = "stopped" => streams[e] = "none" /\ child[e] = "none"

\* By the book, IPC and the pool are there as long as the IO thread, and nothing
\* runs without it.
RuntimeInv ==
    /\ fault = "none"
    /\ io = "running" => ipc /\ pool # "none"
    /\ io = "none" => Running = {}

\* By the book, an environment that does not run has no streams and no child,
\* and one that runs exists and can tell that it is connected.
LifeInv ==
    \A e \in Env :
        /\ streams[e] # "orphaned"
        /\ life[e] # "running" => streams[e] = "none" /\ child[e] = "none"
        /\ life[e] = "running" => e \in exists /\ e \in connect /\ starts[e] > 0

\* By the book, a command line is what was asked for until it is passed on.
PathInv ==
    \A e \in Env :
        /\ path[e] = "none" => command_line[e] = Unset
        /\ path[e] = "set" => command_line[e] = asked[e] /\ life[e] # "running"
        /\ child[e] # "none" /\ path[e] = "used" => passed[e] = asked[e]

\* By the book, only the first start of all has no path, and it finds the
\* endpoint of the invitation.
EndpointInv ==
    /\ (\A d \in Env : starts[d] = 0) => endpoint = Invited
    /\ \A d, e \in Env :
          starts[d] > 0 /\ path[d] = "none" /\ starts[e] > 0 /\ path[e] = "none" => d = e

\* By the book, an environment has one start queued at most, which finds all it
\* needs.
StartInv ==
    /\ \A e \in Env : StartTask(e) \in ToSet(io_queue) =>
          /\ life[e] = "running" /\ streams[e] = "none"
          /\ \/ path[e] = "used" /\ command_line[e] = asked[e]
             \/ path[e] = "none" /\ endpoint
    /\ \A i, j \in DOMAIN io_queue :
          i < j /\ io_queue[i].op = "Start" => io_queue[j] # io_queue[i]

BookInv ==
    ByTheBook => RuntimeInv /\ LifeInv /\ PathInv /\ EndpointInv /\ StartInv

IInv == TypeOK /\ QueueInv /\ QuietInv /\ BookInv
-----------------------------------------------------------------------------
(* What the building blocks of the actions do                              *)

\* The tasks are records of their kind and their environment.
LEMMA TaskType ==
    /\ \A e \in Env : StartTask(e) \in Task
    /\ \A e : StartTask(e).op = "Start" /\ StartTask(e).env = e
    /\ \A x \in Task : x.env \in Env /\ (x.op = "Start" => x = StartTask(x.env))
  BY DEF Task, StartTask

\* The bounds are numbers, and a command line that is not there is none.
LEMMA Bounds ==
    /\ MaxInits \in Nat /\ MaxStarts \in Nat /\ MaxDepartures \in Nat
    /\ Invited \in BOOLEAN /\ Unset # Moved
    /\ Unset \notin SUBSET Switch /\ Moved \notin SUBSET Switch
<1>1. {MaxInits, MaxStarts, MaxDepartures} \subseteq Nat
  BY ProcessAssumption
<1>2. Unset \notin SUBSET Switch /\ Moved \notin SUBSET Switch
  BY ProcessAssumption
<1> QED
  BY <1>1, <1>2, ProcessAssumption

\* The IO thread takes its next task.
LEMMA RunEffect ==
    ASSUME TypeOK, NEW op, RunsTask(op)
    PROVE  /\ io_queue \in Seq(Task) /\ io_queue # <<>>
           /\ io_queue' = Tail(io_queue) /\ io_queue' \in Seq(Task)
           /\ Head(io_queue) \in Task /\ Head(io_queue).env \in Env
           /\ Head(io_queue).op = op
           /\ ToSet(io_queue) = ToSet(io_queue') \cup {Head(io_queue)}
           /\ fault = "none" /\ UNCHANGED <<runtimeVars, exists, connect, departures>>
<1>1. /\ io_queue \in Seq(Task) /\ io_queue # <<>> /\ io_queue' = Tail(io_queue)
      /\ Head(io_queue).op = op
  BY DEF RunsTask, TypeOK
<1>2. /\ Tail(io_queue) \in Seq(Task) /\ Head(io_queue) \in Task
      /\ ToSet(io_queue) = ToSet(Tail(io_queue)) \cup {Head(io_queue)}
  BY <1>1, TailElements
<1> QED
  BY <1>1, <1>2, TaskType DEF RunsTask

\* A task is appended.
LEMMA AppendEffect ==
    ASSUME TypeOK, NEW x \in Task, io_queue' = Append(io_queue, x)
    PROVE  /\ io_queue \in Seq(Task) /\ io_queue' \in Seq(Task)
           /\ ToSet(io_queue') = ToSet(io_queue) \cup {x}
  BY AppendElements DEF TypeOK

\* A call posts its task, or has no thread to post it to.
LEMMA PostEffect ==
    ASSUME TypeOK, NEW op \in {"Start", "Stop"}, NEW e \in Env, fault = "none", PostIO(op, e)
    PROVE  \/ io = "none" /\ fault' = "null_thread" /\ io_queue' = io_queue
           \/ /\ io = "running" /\ fault' = "none"
              /\ io_queue' = Append(io_queue, [op |-> op, env |-> e])
              /\ [op |-> op, env |-> e] \in Task
              /\ io_queue \in Seq(Task) /\ io_queue' \in Seq(Task)
              /\ ToSet(io_queue') = ToSet(io_queue) \cup {[op |-> op, env |-> e]}
<1>1. [op |-> op, env |-> e] \in Task
  BY DEF Task
<1>2. PICK x : x = [op |-> op, env |-> e]
  OBVIOUS
<1>3. CASE io = "none"
  BY <1>3 DEF PostIO, Fails
<1>4. CASE io = "running"
  <2>1. io_queue' = Append(io_queue, x) /\ fault' = "none" /\ x \in Task
    BY <1>1, <1>2, <1>4 DEF PostIO
  <2>2. /\ io_queue \in Seq(Task) /\ io_queue' \in Seq(Task)
        /\ ToSet(io_queue') = ToSet(io_queue) \cup {x}
    BY <2>1, AppendEffect
  <2> QED
    BY <1>2, <1>4, <2>1, <2>2
<1> QED
  BY <1>3, <1>4 DEF TypeOK

\* What a start can meet.
LEMMA StartFaults ==
    ASSUME NEW e \in Env
    PROVE  /\ StartFault(e) \in {"none", "no_command_line", "null_callback", "no_ipc",
                                 "terminated", "wrong_thread", "freed"}
           /\ e \in exists /\ streams[e] = "none" /\ ipc /\ e \in connect
              /\ command_line[e] # Moved /\ (command_line[e] = Unset => endpoint)
              => StartFault(e) = "none"
  BY DEF StartFault

\* What a step is.
LEMMA NextCases ==
    ASSUME [Next]_vars
    PROVE  \/ InitializeMMMojo
           \/ ShutdownMMMojo
           \/ StartEnvironmentOnClientThread
           \/ OnProcessLaunched \/ OnProcessLaunchFailed
           \/ StopEnvironmentOnClientThread
           \/ \E e \in Env : CreateMMMojoEnvironment(e)
           \/ \E e \in Env : SetRemoteOnConnect(e)
           \/ \E e \in Env : SetExePath(e)
           \/ \E e \in Env : \E s \in Switch : AppendSubProcessSwitchNative(e, s)
           \/ \E e \in Env : StartEnvironment(e)
           \/ \E e \in Env : StopEnvironment(e)
           \/ \E e \in Env : RemoveMMMojoEnvironment(e)
           \/ \E e \in Env : LaunchProcess(e)
           \/ UNCHANGED vars
  BY DEF Next, IOStep
-----------------------------------------------------------------------------
(* Type correctness                                                        *)

\* The types hold at first.
LEMMA InitType == Init => TypeOK
<1> SUFFICES ASSUME Init
             PROVE  TypeOK
  OBVIOUS
<1>1. 0 \in 0..MaxInits /\ 0 \in 0..MaxStarts /\ 0 \in 0..MaxDepartures
  BY Bounds
<1>2. command_line \in [Env -> {Unset, Moved} \cup SUBSET Switch]
  BY DEF Init
<1>3. passed \in [Env -> SUBSET Switch] /\ asked \in [Env -> SUBSET Switch]
  BY DEF Init
<1>4. io_queue \in Seq(Task) /\ endpoint \in BOOLEAN
  BY Bounds DEF Init
<1>5. /\ streams \in [Env -> {"none", "bound", "orphaned"}]
      /\ child \in [Env -> {"none", "launching", "returning", "launched", "failed"}]
      /\ path \in [Env -> {"none", "set", "used"}]
      /\ life \in [Env -> {"new", "running", "stopped", "removed"}]
      /\ starts \in [Env -> 0..MaxStarts]
  BY <1>1 DEF Init
<1> QED
  BY <1>1, <1>2, <1>3, <1>4, <1>5 DEF Init, TypeOK

\* Every step keeps the types.
LEMMA StepType == TypeOK /\ [Next]_vars => TypeOK'
<1> SUFFICES ASSUME TypeOK, [Next]_vars
             PROVE  TypeOK'
  OBVIOUS
<1> USE DEF runtimeVars, envVars, appVars
<1>1. CASE InitializeMMMojo
  <2>1. departures' \in 0..MaxDepartures /\ inits' \in 0..MaxInits
    BY <1>1, Bounds DEF InitializeMMMojo, Calls, TypeOK
  <2> QED
    BY <1>1, <2>1 DEF InitializeMMMojo, Orphans, StartPool, TypeOK
<1>2. CASE ShutdownMMMojo
  <2>1. departures' \in 0..MaxDepartures
    BY <1>2, Bounds DEF ShutdownMMMojo, Calls, TypeOK
  <2> QED
    BY <1>2, <2>1 DEF ShutdownMMMojo, ShutdownPool, Calls, ShutdownIOThread, Orphans, Fails, TypeOK
<1>3. CASE StartEnvironmentOnClientThread
  <2>1. PICK e \in Env : e = Head(io_queue).env
    BY <1>3, RunEffect DEF StartEnvironmentOnClientThread
  <2>2. io_queue' \in Seq(Task)
    BY <1>3, RunEffect DEF StartEnvironmentOnClientThread
  <2>3. CASE StartFault(e) # "none"
    BY <1>3, <2>1, <2>2, <2>3, StartFaults
       DEF StartEnvironmentOnClientThread, RunsTask, Fails, TypeOK
  <2>4. CASE StartFault(e) = "none" /\ command_line[e] = Unset
    BY <1>3, <2>1, <2>2, <2>4 DEF StartEnvironmentOnClientThread, RunsTask, Fails, TypeOK
  <2>5. CASE StartFault(e) = "none" /\ command_line[e] # Unset
    <3>1. command_line[e] # Moved
      BY <2>5 DEF StartFault
    <3>2. passed' = [passed EXCEPT ![e] = command_line[e]]
      BY <1>3, <2>1, <2>5 DEF StartEnvironmentOnClientThread
    <3>3. command_line[e] \in SUBSET Switch
      BY <2>5, <3>1 DEF TypeOK
    <3>4. passed' \in [Env -> SUBSET Switch]
      BY <3>2, <3>3 DEF TypeOK
    <3> QED
      BY <1>3, <2>1, <2>2, <2>5, <3>4
         DEF StartEnvironmentOnClientThread, RunsTask, Fails, TypeOK
  <2> QED
    BY <2>3, <2>4, <2>5
<1>4. CASE OnProcessLaunched \/ OnProcessLaunchFailed
  <2>1. io_queue' \in Seq(Task) /\ Head(io_queue).env \in Env
    BY <1>4, RunEffect DEF OnProcessLaunched, OnProcessLaunchFailed
  <2>2. child' \in [Env -> {"none", "launching", "returning", "launched", "failed"}]
    <3>1. PICK e \in Env : e = Head(io_queue).env
      BY <2>1
    <3>2. \/ child' = [child EXCEPT ![e] = "launched"]
          \/ child' = [child EXCEPT ![e] = "failed"]
          \/ child' = child
      <4>1. \E x \in {"launched", "failed"} :
               child' = [child EXCEPT ![e] = IF @ = "returning" THEN x ELSE @]
        BY <1>4, <3>1 DEF OnProcessLaunched, OnProcessLaunchFailed
      <4>2. child = [child EXCEPT ![e] = child[e]]
        BY DEF TypeOK
      <4> QED
        BY <4>1, <4>2
    <3> QED
      BY <3>2 DEF TypeOK
  <2>3. /\ UNCHANGED <<command_line, streams, passed, endpoint, appVars, stopping, fault>>
        /\ UNCHANGED <<runtimeVars, exists, connect, departures>>
    BY <1>4 DEF OnProcessLaunched, OnProcessLaunchFailed, RunsTask
  <2> QED
    BY <2>1, <2>2, <2>3 DEF TypeOK
<1>5. CASE StopEnvironmentOnClientThread
  <2>1. io_queue' \in Seq(Task) /\ Head(io_queue).env \in Env
    BY <1>5, RunEffect DEF StopEnvironmentOnClientThread
  <2>2. PICK e \in Env : e = Head(io_queue).env
    BY <2>1
  <2>3. ResetStreams(e) /\ UNCHANGED <<command_line, passed, endpoint, path, asked, starts>>
    BY <1>5, <2>2 DEF StopEnvironmentOnClientThread
  <2>4. /\ child' = [child EXCEPT ![e] = "none"]
        /\ life' = [life EXCEPT ![e] = "stopped"]
        /\ stopping' = stopping \ {e}
    BY <1>5, <2>2 DEF StopEnvironmentOnClientThread
  <2>5. RunsTask("Stop")
    BY <1>5 DEF StopEnvironmentOnClientThread
  <2> QED
    BY <2>1, <2>3, <2>4, <2>5 DEF RunsTask, ResetStreams, Fails, TypeOK
<1>6. ASSUME NEW e \in Env, CreateMMMojoEnvironment(e) \/ SetRemoteOnConnect(e)
      PROVE  TypeOK'
  BY <1>6, Bounds DEF CreateMMMojoEnvironment, SetRemoteOnConnect, Calls, TypeOK
<1>7. ASSUME NEW e \in Env, SetExePath(e)
      PROVE  TypeOK'
  BY <1>7, Bounds DEF SetExePath, NewCommandLine, Calls, TypeOK
<1>8. ASSUME NEW e \in Env, NEW s \in Switch, AppendSubProcessSwitchNative(e, s)
      PROVE  TypeOK'
  <2>1. command_line' \in [Env -> {Unset, Moved} \cup SUBSET Switch]
    <3>1. CASE command_line' = command_line
      BY <3>1 DEF TypeOK
    <3>2. CASE /\ command_line[e] \notin {Unset, Moved}
               /\ command_line' = [command_line EXCEPT ![e] = @ \cup {s}]
      <4>1. command_line[e] \in SUBSET Switch
        BY <3>2 DEF TypeOK
      <4>2. command_line[e] \cup {s} \in SUBSET Switch
        BY <4>1
      <4> QED
        BY <3>2, <4>2 DEF TypeOK
    <3> QED
      BY <1>8, <3>1, <3>2 DEF AppendSubProcessSwitchNative
  <2>2. asked' \in [Env -> SUBSET Switch]
    BY <1>8 DEF AppendSubProcessSwitchNative, TypeOK
  <2> QED
    BY <1>8, <2>1, <2>2, Bounds DEF AppendSubProcessSwitchNative, Calls, Fails, TypeOK
<1>9. ASSUME NEW e \in Env, StartEnvironment(e)
      PROVE  TypeOK'
  <2>1. io_queue' \in Seq(Task) /\ fault' \in {"none", "null_thread"}
    BY <1>9, PostEffect DEF StartEnvironment, Calls, TypeOK
  <2>2. starts' \in [Env -> 0..MaxStarts]
    BY <1>9, Bounds DEF StartEnvironment, TypeOK
  <2> QED
    BY <1>9, <2>1, <2>2, Bounds DEF StartEnvironment, Calls, TypeOK
<1>10. ASSUME NEW e \in Env, StopEnvironment(e)
       PROVE  TypeOK'
  <2>1. io_queue' \in Seq(Task) /\ fault' \in {"none", "null_thread"}
    BY <1>10, PostEffect DEF StopEnvironment, Calls, TypeOK
  <2> QED
    BY <1>10, <2>1, Bounds DEF StopEnvironment, Calls, TypeOK
<1>11. ASSUME NEW e \in Env, RemoveMMMojoEnvironment(e)
       PROVE  TypeOK'
  BY <1>11, Bounds DEF RemoveMMMojoEnvironment, Calls, Fails, TypeOK
<1>12. ASSUME NEW e \in Env, LaunchProcess(e)
       PROVE  TypeOK'
  <2>1. PICK op \in {"Launched", "LaunchFailed"} :
            io_queue' = Append(io_queue, [op |-> op, env |-> e])
    BY <1>12 DEF LaunchProcess
  <2>2. [op |-> op, env |-> e] \in Task
    BY DEF Task
  <2>3. io_queue' \in Seq(Task)
    BY <2>1, <2>2, AppendEffect
  <2> QED
    BY <1>12, <2>3 DEF LaunchProcess, TypeOK
<1>13. CASE UNCHANGED vars
  BY <1>13 DEF vars, TypeOK
<1> QED
  BY <1>1, <1>2, <1>3, <1>4, <1>5, <1>6, <1>7, <1>8, <1>9, <1>10, <1>11, <1>12,
     <1>13, NextCases

\* The variables of the model keep their types.
THEOREM TypeCorrect == Spec => []TypeOK
  BY InitType, StepType, PTL DEF Spec
-----------------------------------------------------------------------------
(* The tasks of the IO thread                                              *)

\* What one step can do to the tasks, to whom the application waits for, and to
\* the environments the tasks are for.
QueueMove ==
    \/ /\ io_queue' = io_queue
       /\ stopping' = stopping \/ stopping = {}
       /\ \A e \in Env : life'[e] \in {life[e], "running", "removed"}
    \/ /\ io_queue # <<>> /\ io_queue' = Tail(io_queue)
       /\ \/ Head(io_queue).op # "Stop" /\ UNCHANGED <<stopping, life>>
          \/ /\ Head(io_queue).op = "Stop"
             /\ stopping' = stopping \ {Head(io_queue).env}
             /\ life' = [life EXCEPT ![Head(io_queue).env] = "stopped"]
    \/ \E x \in Task :
          /\ io_queue' = Append(io_queue, x)
          /\ \/ /\ x.op = "Start" /\ stopping = {} /\ stopping' = {}
                /\ life' = [life EXCEPT ![x.env] = "running"]
             \/ x.op = "Stop" /\ stopping = {} /\ stopping' = {x.env} /\ life' = life
             \/ x.op \notin {"Start", "Stop"} /\ UNCHANGED <<stopping, life>>

\* Every step does one of these.
LEMMA QueueMoves ==
    ASSUME TypeOK, [Next]_vars
    PROVE  QueueMove
<1> USE DEF runtimeVars, envVars, appVars
<1>1. CASE UNCHANGED <<io_queue, stopping, life>>
  BY <1>1 DEF QueueMove
<1>2. CASE InitializeMMMojo \/ ShutdownMMMojo \/ UNCHANGED vars
  BY <1>1, <1>2 DEF InitializeMMMojo, ShutdownMMMojo, vars
<1>3. ASSUME NEW e \in Env,
             CreateMMMojoEnvironment(e) \/ SetRemoteOnConnect(e) \/ SetExePath(e)
      PROVE  QueueMove
  BY <1>1, <1>3 DEF CreateMMMojoEnvironment, SetRemoteOnConnect, SetExePath
<1>4. ASSUME NEW e \in Env, NEW s \in Switch, AppendSubProcessSwitchNative(e, s)
      PROVE  QueueMove
  BY <1>1, <1>4 DEF AppendSubProcessSwitchNative
<1>5. ASSUME NEW e \in Env, StartEnvironment(e)
      PROVE  QueueMove
  <2>1. PICK x : x = [op |-> "Start", env |-> e]
    OBVIOUS
  <2>2. /\ stopping = {} /\ stopping' = {} /\ life' = [life EXCEPT ![e] = "running"]
        /\ \A d \in Env : life'[d] \in {life[d], "running"}
    BY <1>5 DEF StartEnvironment, Calls, TypeOK
  <2>3. x \in Task /\ x.op = "Start" /\ x.env = e
    BY <2>1 DEF Task
  <2>4. io_queue' = io_queue \/ io_queue' = Append(io_queue, x)
    BY <1>5, <2>1, PostEffect DEF StartEnvironment, Calls
  <2> QED
    BY <2>2, <2>3, <2>4 DEF QueueMove
<1>6. ASSUME NEW e \in Env, StopEnvironment(e)
      PROVE  QueueMove
  <2>1. PICK x : x = [op |-> "Stop", env |-> e]
    OBVIOUS
  <2>2. stopping = {} /\ stopping' = {e} /\ life' = life
    BY <1>6 DEF StopEnvironment, Calls
  <2>3. x \in Task /\ x.op = "Stop" /\ x.env = e
    BY <2>1 DEF Task
  <2>4. io_queue' = io_queue \/ io_queue' = Append(io_queue, x)
    BY <1>6, <2>1, PostEffect DEF StopEnvironment, Calls
  <2> QED
    BY <2>2, <2>3, <2>4 DEF QueueMove
<1>7. ASSUME NEW e \in Env, RemoveMMMojoEnvironment(e)
      PROVE  QueueMove
  BY <1>7 DEF RemoveMMMojoEnvironment, QueueMove, TypeOK
<1>8. CASE StartEnvironmentOnClientThread \/ OnProcessLaunched \/ OnProcessLaunchFailed
  BY <1>8 DEF StartEnvironmentOnClientThread, OnProcessLaunched, OnProcessLaunchFailed,
         RunsTask, QueueMove
<1>9. CASE StopEnvironmentOnClientThread
  BY <1>9 DEF StopEnvironmentOnClientThread, RunsTask, QueueMove
<1>10. ASSUME NEW e \in Env, LaunchProcess(e)
       PROVE  QueueMove
  <2>1. PICK op \in {"Launched", "LaunchFailed"} :
            io_queue' = Append(io_queue, [op |-> op, env |-> e])
    BY <1>10 DEF LaunchProcess
  <2>2. PICK x : x = [op |-> op, env |-> e]
    OBVIOUS
  <2>3. x \in Task /\ x.op \notin {"Start", "Stop"}
    BY <2>2 DEF Task
  <2>4. io_queue' = Append(io_queue, x) /\ UNCHANGED <<stopping, life>>
    BY <1>10, <2>1, <2>2 DEF LaunchProcess
  <2> QED
    BY <2>3, <2>4 DEF QueueMove
<1> QED
  BY <1>2, <1>3, <1>4, <1>5, <1>6, <1>7, <1>8, <1>9, <1>10, NextCases

\* No start and no second stop is behind a stop.
LEMMA QueueStepInv ==
    ASSUME TypeOK, QueueInv, [Next]_vars
    PROVE  QueueInv'
<1> DEFINE A == {x \in Task : x.op = "Stop"}
           B == {x \in Task : x.op \notin {"Start", "Stop"}}
<1>1. io_queue \in Seq(Task) /\ life \in [Env -> {"new", "running", "stopped", "removed"}]
  BY DEF TypeOK
<1>2. \A i \in DOMAIN io_queue : io_queue[i] \in Task /\ io_queue[i] \in ToSet(io_queue)
  BY <1>1, ElementIndex
<1>3. \A i, j \in DOMAIN io_queue : i < j /\ io_queue[i] \in A => io_queue[j] \in B
  BY <1>2 DEF QueueInv
<1>4. stopping = {} => \A x \in ToSet(io_queue) : x \notin A
  BY DEF QueueInv
<1>5. \A x \in ToSet(io_queue) : x \in Task /\ x.env \in Env
  BY <1>1, ElementIndex, TaskType
<1>6. CASE /\ io_queue' = io_queue
           /\ stopping' = stopping \/ stopping = {}
           /\ \A e \in Env : life'[e] \in {life[e], "running", "removed"}
  BY <1>4, <1>5, <1>6 DEF QueueInv
<1>7. CASE io_queue # <<>> /\ io_queue' = Tail(io_queue)
  <2>1. /\ \A i, j \in DOMAIN Tail(io_queue) :
              i < j /\ Tail(io_queue)[i] \in A => Tail(io_queue)[j] \in B
        /\ Head(io_queue) \in A => ToSet(Tail(io_queue)) \subseteq B
    <3> HIDE DEF A, B
    <3> QED
      BY <1>1, <1>3, <1>7, TailOrder
  <2>2. /\ Tail(io_queue) \in Seq(Task) /\ Head(io_queue) \in Task
        /\ ToSet(Tail(io_queue)) \subseteq ToSet(io_queue)
    BY <1>1, <1>7, TailElements
  <2>3. \A i \in DOMAIN Tail(io_queue) : Tail(io_queue)[i] \in Task
    BY <2>2, ElementIndex
  <2>4. \A i, j \in DOMAIN io_queue' :
           i < j /\ io_queue'[i].op = "Stop" => io_queue'[j].op \notin {"Start", "Stop"}
    BY <1>7, <2>1, <2>3
  <2>5. CASE UNCHANGED <<stopping, life>>
    BY <1>7, <2>2, <2>4, <2>5 DEF QueueInv
  <2>6. CASE Head(io_queue).op = "Stop"
    <3>1. ToSet(io_queue') \subseteq B
      BY <1>7, <2>1, <2>2, <2>6
    <3> QED
      BY <2>4, <3>1 DEF QueueInv
  <2> QED
    BY <1>1, <1>7, <2>5, <2>6, QueueMoves, AppendElements DEF QueueMove
<1>8. ASSUME NEW x \in Task, io_queue' = Append(io_queue, x),
             \/ /\ x.op = "Start" /\ stopping = {} /\ stopping' = {}
                /\ life' = [life EXCEPT ![x.env] = "running"]
             \/ x.op = "Stop" /\ stopping = {} /\ stopping' = {x.env} /\ life' = life
             \/ x.op \notin {"Start", "Stop"} /\ UNCHANGED <<stopping, life>>
      PROVE  QueueInv'
  <2>1. ToSet(io_queue') = ToSet(io_queue) \cup {x}
    BY <1>8, AppendEffect
  <2>2. x \in B \/ \A y \in ToSet(io_queue) : y \notin A
    BY <1>4, <1>8
  <2>3. \A i, j \in DOMAIN io_queue' : i < j /\ io_queue'[i] \in A => io_queue'[j] \in B
    <3> HIDE DEF A, B
    <3> QED
      BY <1>1, <1>3, <1>8, <2>2, AppendOrder
  <2>4. io_queue' \in Seq(Task) /\ \A i \in DOMAIN io_queue' : io_queue'[i] \in Task
    BY <1>8, AppendEffect, ElementIndex
  <2>5. \A i, j \in DOMAIN io_queue' :
           i < j /\ io_queue'[i].op = "Stop" => io_queue'[j].op \notin {"Start", "Stop"}
    BY <2>3, <2>4
  <2>6. \A y \in ToSet(io_queue') :
           /\ y.op = "Stop" => y.env \in stopping'
           /\ y.op = "Start" => life'[y.env] \in {"running", "removed"}
    BY <1>1, <1>5, <1>8, <2>1, TaskType DEF QueueInv
  <2> QED
    BY <2>5, <2>6 DEF QueueInv
<1> QED
  BY <1>6, <1>7, <1>8, QueueMoves DEF QueueMove

\* The task at the head of the queue is of an environment, and starts none that
\* is stopped.
LEMMA StartHead ==
    ASSUME TypeOK, QueueInv, StartEnvironmentOnClientThread
    PROVE  /\ Head(io_queue).env \in Env /\ Head(io_queue) = StartTask(Head(io_queue).env)
           /\ Head(io_queue) \in ToSet(io_queue)
           /\ life[Head(io_queue).env] \in {"running", "removed"}
<1>1. PICK x : x = Head(io_queue)
  OBVIOUS
<1>2. x \in Task /\ x.op = "Start" /\ x \in ToSet(io_queue)
  BY <1>1, RunEffect DEF StartEnvironmentOnClientThread
<1> QED
  BY <1>1, <1>2, TaskType DEF QueueInv

\* A stop ends the streams and the launcher, and only a start makes new ones.
LEMMA QuietStepInv ==
    ASSUME TypeOK, QueueInv, QuietInv, [Next]_vars
    PROVE  QuietInv'
<1> USE DEF runtimeVars, envVars, appVars, QuietInv
<1>1. CASE UNCHANGED <<life, streams, child>>
  BY <1>1
<1>2. CASE InitializeMMMojo \/ ShutdownMMMojo
  BY <1>2 DEF InitializeMMMojo, ShutdownMMMojo, ShutdownIOThread, Orphans
<1>3. ASSUME NEW e \in Env,
             \/ CreateMMMojoEnvironment(e) \/ SetRemoteOnConnect(e) \/ SetExePath(e)
             \/ StopEnvironment(e)
      PROVE  QuietInv'
  BY <1>1, <1>3 DEF CreateMMMojoEnvironment, SetRemoteOnConnect, SetExePath, StopEnvironment
<1>4. ASSUME NEW e \in Env, NEW s \in Switch, AppendSubProcessSwitchNative(e, s)
      PROVE  QuietInv'
  BY <1>1, <1>4 DEF AppendSubProcessSwitchNative
<1>5. ASSUME NEW e \in Env, StartEnvironment(e) \/ RemoveMMMojoEnvironment(e)
      PROVE  QuietInv'
  BY <1>5 DEF StartEnvironment, RemoveMMMojoEnvironment, TypeOK
<1>6. CASE StartEnvironmentOnClientThread
  <2>1. PICK e \in Env : e = Head(io_queue).env /\ life[e] \in {"running", "removed"}
    BY <1>6, StartHead
  <2>2. \A d \in Env : d # e => streams'[d] = streams[d] /\ child'[d] = child[d]
    BY <1>6, <2>1 DEF StartEnvironmentOnClientThread, TypeOK
  <2>3. life' = life
    BY <1>6 DEF StartEnvironmentOnClientThread
  <2> QED
    BY <2>1, <2>2, <2>3
<1>7. CASE OnProcessLaunched \/ OnProcessLaunchFailed
  <2>1. PICK e \in Env : e = Head(io_queue).env
    BY <1>7, RunEffect DEF OnProcessLaunched, OnProcessLaunchFailed
  <2>2. UNCHANGED <<life, streams>> /\ \A d \in Env : child[d] = "none" => child'[d] = "none"
    BY <1>7, <2>1 DEF OnProcessLaunched, OnProcessLaunchFailed, TypeOK
  <2> QED
    BY <2>2
<1>8. CASE StopEnvironmentOnClientThread
  <2>1. PICK e \in Env : e = Head(io_queue).env
    BY <1>8, RunEffect DEF StopEnvironmentOnClientThread
  <2>2. /\ life' = [life EXCEPT ![e] = "stopped"]
        /\ streams' = [streams EXCEPT ![e] = "none"]
        /\ child' = [child EXCEPT ![e] = "none"]
    BY <1>8, <2>1 DEF StopEnvironmentOnClientThread, ResetStreams
  <2> QED
    BY <2>2 DEF TypeOK
<1>9. ASSUME NEW e \in Env, LaunchProcess(e)
      PROVE  QuietInv'
  BY <1>9 DEF LaunchProcess, TypeOK
<1>10. UNCHANGED vars => UNCHANGED <<life, streams, child>>
  BY DEF vars
<1> QED
  BY <1>1, <1>2, <1>3, <1>4, <1>5, <1>6, <1>7, <1>8, <1>9, <1>10, NextCases
-----------------------------------------------------------------------------
(* By the book                                                             *)

\* Who has departed from the rules does not return to them.
LEMMA BookStep ==
    ASSUME TypeOK, [Next]_vars, ByTheBook'
    PROVE  /\ ByTheBook
           /\ InitializeMMMojo => io = "none"
           /\ ShutdownMMMojo => io = "running" /\ Running = {} /\ pool # "down"
           /\ \A e \in Env :
                 /\ SetRemoteOnConnect(e) \/ SetExePath(e) \/ RemoveMMMojoEnvironment(e)
                        => life[e] # "running"
                 /\ \A s \in Switch : AppendSubProcessSwitchNative(e, s) => path[e] = "set"
                 /\ StartEnvironment(e) => MayStart(e)
                 /\ StopEnvironment(e) => io = "running"
<1>1. departures' = 0 /\ departures \in Nat
  BY Bounds DEF ByTheBook, TypeOK
<1>2. departures' # departures + 1
  BY <1>1
<1>3. ByTheBook
  <2>1. UNCHANGED departures \/ departures' = departures + 1
    <3> USE DEF Calls
    <3>1. ASSUME NEW e \in Env,
                 \/ CreateMMMojoEnvironment(e) \/ SetRemoteOnConnect(e) \/ SetExePath(e)
                 \/ StartEnvironment(e) \/ StopEnvironment(e) \/ RemoveMMMojoEnvironment(e)
                 \/ LaunchProcess(e)
          PROVE  UNCHANGED departures \/ departures' = departures + 1
      BY <3>1 DEF CreateMMMojoEnvironment, SetRemoteOnConnect, SetExePath,
             StartEnvironment, StopEnvironment, RemoveMMMojoEnvironment, LaunchProcess
    <3>2. ASSUME NEW e \in Env, NEW s \in Switch, AppendSubProcessSwitchNative(e, s)
          PROVE  UNCHANGED departures \/ departures' = departures + 1
      BY <3>2 DEF AppendSubProcessSwitchNative
    <3>3. CASE InitializeMMMojo \/ ShutdownMMMojo
      BY <3>3 DEF InitializeMMMojo, ShutdownMMMojo
    <3>4. CASE \/ StartEnvironmentOnClientThread \/ OnProcessLaunched
               \/ OnProcessLaunchFailed \/ StopEnvironmentOnClientThread \/ UNCHANGED vars
      BY <3>4 DEF StartEnvironmentOnClientThread, OnProcessLaunched, OnProcessLaunchFailed,
             StopEnvironmentOnClientThread, RunsTask, vars
    <3> QED
      BY <3>1, <3>2, <3>3, <3>4, NextCases
  <2> QED
    BY <1>1, <1>2, <2>1 DEF ByTheBook
<1> QED
  BY <1>2, <1>3 DEF InitializeMMMojo, ShutdownMMMojo, SetRemoteOnConnect, SetExePath,
     RemoveMMMojoEnvironment, AppendSubProcessSwitchNative, StartEnvironment,
     StopEnvironment, Calls

\* The parts of the invariant that hold by the book.
Book == RuntimeInv /\ LifeInv /\ PathInv /\ EndpointInv /\ StartInv

\* A start by the book finds what it needs, and does what it should.
LEMMA StartByTheBook ==
    ASSUME TypeOK, QueueInv, Book, StartEnvironmentOnClientThread
    PROVE  \E e \in Env :
              /\ e = Head(io_queue).env /\ Head(io_queue) = StartTask(e)
              /\ StartTask(e) \in ToSet(io_queue)
              /\ life[e] = "running" /\ streams[e] = "none"
              /\ fault' = "none"
              /\ streams' = [streams EXCEPT ![e] = "bound"]
              /\ \/ /\ path[e] = "used" /\ command_line[e] = asked[e]
                    /\ child' = [child EXCEPT ![e] = "launching"]
                    /\ passed' = [passed EXCEPT ![e] = command_line[e]]
                    /\ command_line' = [command_line EXCEPT ![e] = Moved]
                    /\ endpoint' = endpoint
                 \/ /\ path[e] = "none" /\ endpoint' = FALSE
                    /\ UNCHANGED <<child, passed, command_line>>
<1>1. PICK e \in Env : /\ e = Head(io_queue).env /\ Head(io_queue) = StartTask(e)
                       /\ StartTask(e) \in ToSet(io_queue)
  BY StartHead
<1>2. /\ life[e] = "running" /\ streams[e] = "none"
      /\ \/ path[e] = "used" /\ command_line[e] = asked[e]
         \/ path[e] = "none" /\ endpoint
  BY <1>1 DEF Book, StartInv
<1>3. e \in exists /\ e \in connect
  BY <1>2 DEF Book, LifeInv
<1>4. ipc
  BY <1>2 DEF Book, RuntimeInv, Running, TypeOK
<1>5. path[e] = "used" => command_line[e] # Unset /\ command_line[e] # Moved
  <2>1. asked[e] \in SUBSET Switch
    BY DEF TypeOK
  <2> QED
    BY <1>2, <2>1, Bounds
<1>6. path[e] = "none" => command_line[e] = Unset /\ command_line[e] # Moved /\ endpoint
  BY <1>2, Bounds DEF Book, PathInv
<1>7. StartFault(e) = "none"
  BY <1>2, <1>3, <1>4, <1>5, <1>6, StartFaults
<1> QED
  BY <1>1, <1>2, <1>5, <1>6, <1>7 DEF StartEnvironmentOnClientThread, Fails

\* By the book, no step faults, and the runtime is set up before it is used.
LEMMA RuntimeStepInv ==
    ASSUME TypeOK, QueueInv, Book, [Next]_vars, ByTheBook'
    PROVE  RuntimeInv'
<1> USE DEF runtimeVars, envVars, appVars
<1>0. /\ fault = "none"
      /\ io = "running" => ipc /\ pool # "none"
      /\ io = "none" => \A e \in Env : life[e] # "running"
  BY DEF Book, RuntimeInv, Running
<1> SUFFICES /\ fault' = "none"
             /\ io' = "running" => ipc' /\ pool' # "none"
             /\ io' = "none" => \A e \in Env : life'[e] # "running"
  BY DEF RuntimeInv, Running
<1>1. CASE UNCHANGED <<runtimeVars, life, fault>>
  BY <1>0, <1>1
<1>2. CASE InitializeMMMojo
  BY <1>0, <1>2, BookStep DEF InitializeMMMojo, StartPool
<1>3. CASE ShutdownMMMojo
  BY <1>0, <1>3, BookStep DEF ShutdownMMMojo, ShutdownPool, ShutdownIOThread, Running
<1>4. ASSUME NEW e \in Env,
             \/ CreateMMMojoEnvironment(e) \/ SetRemoteOnConnect(e) \/ SetExePath(e)
             \/ LaunchProcess(e)
      PROVE  UNCHANGED <<runtimeVars, life, fault>>
  BY <1>4 DEF CreateMMMojoEnvironment, SetRemoteOnConnect, SetExePath, LaunchProcess
<1>5. ASSUME NEW e \in Env, NEW s \in Switch, AppendSubProcessSwitchNative(e, s)
      PROVE  UNCHANGED <<runtimeVars, life, fault>>
  <2>1. command_line[e] = asked[e] /\ asked[e] \in SUBSET Switch
    BY <1>5, BookStep DEF Book, PathInv, TypeOK
  <2>2. command_line[e] \notin {Unset, Moved}
    BY <2>1, Bounds
  <2> QED
    BY <1>5, <2>2 DEF AppendSubProcessSwitchNative
<1>6. ASSUME NEW e \in Env, StartEnvironment(e) \/ StopEnvironment(e)
      PROVE  io = "running" /\ fault' = "none" /\ UNCHANGED runtimeVars
  <2>1. io = "running"
    BY <1>6, BookStep DEF MayStart
  <2> QED
    BY <1>0, <1>6, <2>1 DEF StartEnvironment, StopEnvironment, PostIO
<1>7. ASSUME NEW e \in Env, RemoveMMMojoEnvironment(e)
      PROVE  /\ fault' = "none" /\ UNCHANGED runtimeVars
             /\ \A d \in Env : life'[d] \in {life[d], "removed"}
  <2>1. streams[e] = "none"
    BY <1>7, BookStep DEF Book, LifeInv
  <2> QED
    BY <1>0, <1>7, <2>1 DEF RemoveMMMojoEnvironment, TypeOK
<1>8. CASE StartEnvironmentOnClientThread
  BY <1>0, <1>8, StartByTheBook DEF StartEnvironmentOnClientThread, RunsTask
<1>9. CASE OnProcessLaunched \/ OnProcessLaunchFailed \/ UNCHANGED vars
  BY <1>1, <1>9 DEF OnProcessLaunched, OnProcessLaunchFailed, RunsTask, vars
<1>10. CASE StopEnvironmentOnClientThread
  <2>1. PICK e \in Env : e = Head(io_queue).env
    BY <1>10, RunEffect DEF StopEnvironmentOnClientThread
  <2>2. streams[e] # "orphaned"
    BY DEF Book, LifeInv
  <2>3. /\ fault' = "none" /\ UNCHANGED runtimeVars
        /\ life' = [life EXCEPT ![e] = "stopped"]
    BY <1>0, <1>10, <2>1, <2>2 DEF StopEnvironmentOnClientThread, ResetStreams, RunsTask
  <2> QED
    BY <1>0, <2>3 DEF TypeOK
<1> QED
  BY <1>0, <1>1, <1>2, <1>3, <1>4, <1>5, <1>6, <1>7, <1>8, <1>9, <1>10, NextCases

\* By the book, every step keeps what the life of an environment says of it.
LEMMA LifeStepInv ==
    ASSUME TypeOK, QueueInv, Book, [Next]_vars, ByTheBook'
    PROVE  LifeInv'
<1> USE DEF runtimeVars, envVars, appVars
<1>0. LifeInv
  BY DEF Book
<1>1. CASE UNCHANGED <<streams, life, child, exists, connect, starts>>
  BY <1>0, <1>1 DEF LifeInv
<1>2. CASE InitializeMMMojo \/ ShutdownMMMojo
  <2>1. \A e \in Env : life[e] # "running"
    BY <1>2, BookStep DEF Book, RuntimeInv, Running
  <2>2. streams' = streams
    BY <1>0, <1>2, <2>1 DEF InitializeMMMojo, ShutdownMMMojo, ShutdownIOThread, Orphans,
           LifeInv, TypeOK
  <2> QED
    BY <1>1, <1>2, <2>2 DEF InitializeMMMojo, ShutdownMMMojo
<1>3. ASSUME NEW e \in Env, CreateMMMojoEnvironment(e) \/ SetRemoteOnConnect(e)
      PROVE  LifeInv'
  BY <1>0, <1>3 DEF CreateMMMojoEnvironment, SetRemoteOnConnect, LifeInv
<1>4. ASSUME NEW e \in Env, SetExePath(e) \/ StopEnvironment(e)
      PROVE  LifeInv'
  BY <1>1, <1>4 DEF SetExePath, StopEnvironment
<1>5. ASSUME NEW e \in Env, NEW s \in Switch, AppendSubProcessSwitchNative(e, s)
      PROVE  LifeInv'
  BY <1>1, <1>5 DEF AppendSubProcessSwitchNative
<1>6. ASSUME NEW e \in Env, StartEnvironment(e)
      PROVE  LifeInv'
  <2>1. e \in connect /\ e \in exists
    BY <1>6, BookStep DEF MayStart, StartEnvironment
  <2>2. /\ life' = [life EXCEPT ![e] = "running"]
        /\ starts' = [starts EXCEPT ![e] = @ + 1]
        /\ UNCHANGED <<streams, child, exists, connect>>
    BY <1>6 DEF StartEnvironment
  <2>3. \A d \in Env : starts[d] \in Nat
    BY Bounds DEF TypeOK
  <2>4. starts'[e] > 0 /\ \A d \in Env : d # e => starts'[d] = starts[d]
    BY <2>2, <2>3 DEF TypeOK
  <2> QED
    BY <1>0, <2>1, <2>2, <2>4 DEF LifeInv, TypeOK
<1>7. ASSUME NEW e \in Env, RemoveMMMojoEnvironment(e)
      PROVE  LifeInv'
  <2>1. life[e] # "running"
    BY <1>7, BookStep
  <2>2. UNCHANGED <<streams, child, connect, starts>> /\ exists' = exists \ {e}
    BY <1>7 DEF RemoveMMMojoEnvironment
  <2>3. life'[e] = "removed" /\ \A d \in Env : d # e => life'[d] = life[d]
    BY <1>7 DEF RemoveMMMojoEnvironment, TypeOK
  <2> QED
    BY <1>0, <2>1, <2>2, <2>3 DEF LifeInv
<1>8. CASE StartEnvironmentOnClientThread
  <2>1. PICK e \in Env : /\ life[e] = "running"
                         /\ streams' = [streams EXCEPT ![e] = "bound"]
                         /\ \A d \in Env : d # e => child'[d] = child[d]
    BY <1>8, StartByTheBook DEF TypeOK
  <2>2. UNCHANGED <<life, exists, connect, starts>>
    BY <1>8 DEF StartEnvironmentOnClientThread, RunsTask
  <2> QED
    BY <1>0, <2>1, <2>2 DEF LifeInv, TypeOK
<1>9. CASE OnProcessLaunched \/ OnProcessLaunchFailed
  <2>1. PICK e \in Env : e = Head(io_queue).env
    BY <1>9, RunEffect DEF OnProcessLaunched, OnProcessLaunchFailed
  <2>2. /\ UNCHANGED <<life, exists, connect, starts, streams>>
        /\ \A d \in Env : child[d] = "none" => child'[d] = "none"
    BY <1>9, <2>1 DEF OnProcessLaunched, OnProcessLaunchFailed, RunsTask, TypeOK
  <2> QED
    BY <1>0, <2>2 DEF LifeInv
<1>10. CASE StopEnvironmentOnClientThread
  <2>1. PICK e \in Env : e = Head(io_queue).env
    BY <1>10, RunEffect DEF StopEnvironmentOnClientThread
  <2>2. /\ life' = [life EXCEPT ![e] = "stopped"]
        /\ streams' = [streams EXCEPT ![e] = "none"]
        /\ child' = [child EXCEPT ![e] = "none"]
        /\ UNCHANGED <<exists, connect, starts>>
    BY <1>10, <2>1 DEF StopEnvironmentOnClientThread, ResetStreams, RunsTask
  <2> QED
    BY <1>0, <2>2 DEF LifeInv, TypeOK
<1>11. ASSUME NEW e \in Env, LaunchProcess(e)
       PROVE  LifeInv'
  BY <1>0, <1>11 DEF LaunchProcess, LifeInv, TypeOK
<1>12. UNCHANGED vars => UNCHANGED <<streams, life, child, exists, connect, starts>>
  BY DEF vars
<1> QED
  BY <1>1, <1>2, <1>3, <1>4, <1>5, <1>6, <1>7, <1>8, <1>9, <1>10, <1>11, <1>12, NextCases

\* By the book, every step keeps a command line what was asked for.
LEMMA PathStepInv ==
    ASSUME TypeOK, QueueInv, Book, [Next]_vars, ByTheBook'
    PROVE  PathInv'
<1> USE DEF runtimeVars, envVars, appVars
<1>0. PathInv
  BY DEF Book
<1>1. CASE UNCHANGED <<path, command_line, asked, life, child, passed>>
  BY <1>0, <1>1 DEF PathInv
<1>2. CASE InitializeMMMojo \/ ShutdownMMMojo
  BY <1>1, <1>2 DEF InitializeMMMojo, ShutdownMMMojo
<1>3. ASSUME NEW e \in Env,
             CreateMMMojoEnvironment(e) \/ SetRemoteOnConnect(e) \/ StopEnvironment(e)
      PROVE  PathInv'
  BY <1>1, <1>3 DEF CreateMMMojoEnvironment, SetRemoteOnConnect, StopEnvironment
<1>4. ASSUME NEW e \in Env, SetExePath(e)
      PROVE  PathInv'
  <2>1. life[e] # "running"
    BY <1>4, BookStep
  <2>2. /\ path' = [path EXCEPT ![e] = "set"]
        /\ command_line' = [command_line EXCEPT ![e] = {}]
        /\ asked' = [asked EXCEPT ![e] = {}]
        /\ UNCHANGED <<life, child, passed>>
    BY <1>4 DEF SetExePath, NewCommandLine
  <2> QED
    BY <1>0, <2>1, <2>2 DEF PathInv, TypeOK
<1>5. ASSUME NEW e \in Env, NEW s \in Switch, AppendSubProcessSwitchNative(e, s)
      PROVE  PathInv'
  <2>1. path[e] = "set"
    BY <1>5, BookStep
  <2>2. command_line[e] = asked[e] /\ asked[e] \in SUBSET Switch
    BY <1>0, <2>1 DEF PathInv, TypeOK
  <2>3. command_line[e] \notin {Unset, Moved}
    BY <2>2, Bounds
  <2>4. /\ command_line' = [command_line EXCEPT ![e] = command_line[e] \cup {s}]
        /\ asked' = [asked EXCEPT ![e] = asked[e] \cup {s}]
        /\ UNCHANGED <<path, life, child, passed>>
    BY <1>5, <2>3 DEF AppendSubProcessSwitchNative
  <2> QED
    BY <1>0, <2>1, <2>2, <2>4 DEF PathInv, TypeOK
<1>6. ASSUME NEW e \in Env, StartEnvironment(e)
      PROVE  PathInv'
  <2>1. child[e] = "none"
    BY <1>6, BookStep DEF MayStart, Book, LifeInv
  <2>2. /\ path' = [path EXCEPT ![e] = IF path[e] = "set" THEN "used" ELSE path[e]]
        /\ life' = [life EXCEPT ![e] = "running"]
        /\ UNCHANGED <<command_line, asked, child, passed>>
    BY <1>6 DEF StartEnvironment
  <2> QED
    BY <1>0, <2>1, <2>2 DEF PathInv, TypeOK
<1>7. ASSUME NEW e \in Env, RemoveMMMojoEnvironment(e)
      PROVE  PathInv'
  BY <1>0, <1>7 DEF RemoveMMMojoEnvironment, PathInv, TypeOK
<1>8. CASE StartEnvironmentOnClientThread
  <2>1. PICK e \in Env :
            \/ /\ path[e] = "used" /\ command_line[e] = asked[e]
               /\ child' = [child EXCEPT ![e] = "launching"]
               /\ passed' = [passed EXCEPT ![e] = command_line[e]]
               /\ command_line' = [command_line EXCEPT ![e] = Moved]
            \/ UNCHANGED <<child, passed, command_line>>
    BY <1>8, StartHead, StartByTheBook
  <2>2. UNCHANGED <<path, life, asked>>
    BY <1>8 DEF StartEnvironmentOnClientThread
  <2> QED
    BY <1>0, <2>1, <2>2 DEF PathInv, TypeOK
<1>9. CASE OnProcessLaunched \/ OnProcessLaunchFailed
  <2>1. PICK e \in Env : e = Head(io_queue).env
    BY <1>9, RunEffect DEF OnProcessLaunched, OnProcessLaunchFailed
  <2>2. /\ UNCHANGED <<path, command_line, asked, life, passed>>
        /\ \A d \in Env : child[d] = "none" => child'[d] = "none"
    BY <1>9, <2>1 DEF OnProcessLaunched, OnProcessLaunchFailed, TypeOK
  <2> QED
    BY <1>0, <2>2 DEF PathInv
<1>10. CASE StopEnvironmentOnClientThread
  <2>1. PICK e \in Env : e = Head(io_queue).env
    BY <1>10, RunEffect DEF StopEnvironmentOnClientThread
  <2>2. /\ life' = [life EXCEPT ![e] = "stopped"]
        /\ child' = [child EXCEPT ![e] = "none"]
        /\ UNCHANGED <<path, command_line, asked, passed>>
    BY <1>10, <2>1 DEF StopEnvironmentOnClientThread
  <2> QED
    BY <1>0, <2>2 DEF PathInv, TypeOK
<1>11. ASSUME NEW e \in Env, LaunchProcess(e)
       PROVE  PathInv'
  BY <1>0, <1>11 DEF LaunchProcess, PathInv, TypeOK
<1>12. UNCHANGED vars => UNCHANGED <<path, command_line, asked, life, child, passed>>
  BY DEF vars
<1> QED
  BY <1>1, <1>2, <1>3, <1>4, <1>5, <1>6, <1>7, <1>8, <1>9, <1>10, <1>11, <1>12, NextCases

\* What one step does to the starts of the environments and to the endpoint.
LEMMA StartsMoves ==
    ASSUME TypeOK, QueueInv, Book, [Next]_vars, ByTheBook'
    PROVE  \/ /\ UNCHANGED <<starts, endpoint>>
              /\ \A e \in Env : path'[e] = "none" <=> path[e] = "none"
           \/ /\ UNCHANGED <<starts, endpoint>>
              /\ \E e \in Env : path' = [path EXCEPT ![e] = "set"]
           \/ /\ UNCHANGED <<starts, path>>
              /\ \E e \in Env : starts[e] > 0
           \/ \E e \in Env :
                 /\ endpoint' = endpoint /\ MayStart(e)
                 /\ starts' = [starts EXCEPT ![e] = @ + 1]
                 /\ path' = [path EXCEPT ![e] = IF @ = "set" THEN "used" ELSE @]
<1> USE DEF runtimeVars, envVars, appVars
<1>1. CASE UNCHANGED <<starts, endpoint, path>>
  BY <1>1
<1>2. CASE InitializeMMMojo \/ ShutdownMMMojo
  BY <1>2 DEF InitializeMMMojo, ShutdownMMMojo
<1>3. ASSUME NEW e \in Env,
             \/ CreateMMMojoEnvironment(e) \/ SetRemoteOnConnect(e)
             \/ StopEnvironment(e) \/ RemoveMMMojoEnvironment(e) \/ LaunchProcess(e)
      PROVE  UNCHANGED <<starts, endpoint, path>>
  BY <1>3 DEF CreateMMMojoEnvironment, SetRemoteOnConnect, StopEnvironment,
         RemoveMMMojoEnvironment, LaunchProcess
<1>4. ASSUME NEW e \in Env, SetExePath(e)
      PROVE  UNCHANGED <<starts, endpoint>> /\ path' = [path EXCEPT ![e] = "set"]
  BY <1>4 DEF SetExePath
<1>5. ASSUME NEW e \in Env, NEW s \in Switch, AppendSubProcessSwitchNative(e, s)
      PROVE  UNCHANGED <<starts, endpoint, path>>
  BY <1>5 DEF AppendSubProcessSwitchNative
<1>6. ASSUME NEW e \in Env, StartEnvironment(e)
      PROVE  /\ endpoint' = endpoint /\ MayStart(e)
             /\ starts' = [starts EXCEPT ![e] = @ + 1]
             /\ path' = [path EXCEPT ![e] = IF @ = "set" THEN "used" ELSE @]
  BY <1>6, BookStep DEF StartEnvironment
<1>7. CASE StartEnvironmentOnClientThread
  <2>1. PICK e \in Env : life[e] = "running"
    BY <1>7, StartHead, StartByTheBook
  <2>2. starts[e] > 0
    BY <2>1 DEF Book, LifeInv
  <2> QED
    BY <1>7, <2>2 DEF StartEnvironmentOnClientThread
<1>8. CASE \/ OnProcessLaunched \/ OnProcessLaunchFailed
           \/ StopEnvironmentOnClientThread \/ UNCHANGED vars
  BY <1>8 DEF OnProcessLaunched, OnProcessLaunchFailed, StopEnvironmentOnClientThread, vars
<1> QED
  BY <1>1, <1>2, <1>3, <1>4, <1>5, <1>6, <1>7, <1>8, NextCases

\* By the book, every step leaves the endpoint to the one start without a path.
LEMMA EndpointStepInv ==
    ASSUME TypeOK, QueueInv, Book, [Next]_vars, ByTheBook'
    PROVE  EndpointInv'
<1>1. EndpointInv
  BY DEF Book
<1>2. \A e \in Env : starts[e] \in Nat
  BY Bounds DEF TypeOK
<1>3. CASE /\ UNCHANGED <<starts, endpoint>>
           /\ \A e \in Env : path'[e] = "none" <=> path[e] = "none"
  BY <1>1, <1>3 DEF EndpointInv
<1>4. ASSUME UNCHANGED <<starts, endpoint>>, NEW e \in Env, path' = [path EXCEPT ![e] = "set"]
      PROVE  EndpointInv'
  BY <1>1, <1>4 DEF EndpointInv, TypeOK
<1>5. CASE UNCHANGED <<starts, path>> /\ \E e \in Env : starts[e] > 0
  <2>1. ~ \A d \in Env : starts[d] = 0
    BY <1>2, <1>5
  <2> QED
    BY <1>1, <1>5, <2>1 DEF EndpointInv
<1>6. ASSUME NEW e \in Env, endpoint' = endpoint, MayStart(e),
             starts' = [starts EXCEPT ![e] = @ + 1],
             path' = [path EXCEPT ![e] = IF @ = "set" THEN "used" ELSE @]
      PROVE  EndpointInv'
  <2>1. starts'[e] = starts[e] + 1 /\ \A d \in Env : d # e => starts'[d] = starts[d]
    BY <1>6 DEF TypeOK
  <2>2. starts'[e] # 0
    BY <1>2, <2>1
  <2>3. path[e] = "set" \/ (path[e] = "none" /\ \A d \in Env : starts[d] = 0)
    BY <1>6 DEF MayStart
  <2>4. CASE path[e] = "set"
    <3>1. path'[e] = "used" /\ \A d \in Env : d # e => path'[d] = path[d]
      BY <1>6, <2>4 DEF TypeOK
    <3> QED
      BY <1>1, <2>1, <2>2, <3>1 DEF EndpointInv
  <2>5. CASE \A d \in Env : starts[d] = 0
    <3>1. \A d \in Env : starts'[d] > 0 => d = e
      BY <2>1, <2>5
    <3> QED
      BY <2>2, <3>1 DEF EndpointInv
  <2> QED
    BY <2>3, <2>4, <2>5
<1> QED
  BY <1>3, <1>4, <1>5, <1>6, StartsMoves

\* A start is queued once, and that stays so.
LEMMA StartOnce ==
    ASSUME TypeOK, StartInv
    PROVE  /\ io_queue # <<>> =>
                /\ \A i, j \in DOMAIN Tail(io_queue) :
                      i < j /\ Tail(io_queue)[i].op = "Start"
                      => Tail(io_queue)[j] # Tail(io_queue)[i]
                /\ Head(io_queue).op = "Start" => Head(io_queue) \notin ToSet(Tail(io_queue))
           /\ \A x \in Task : (x.op = "Start" => x \notin ToSet(io_queue)) =>
                \A i, j \in DOMAIN Append(io_queue, x) :
                   i < j /\ Append(io_queue, x)[i].op = "Start"
                   => Append(io_queue, x)[j] # Append(io_queue, x)[i]
<1>1. io_queue \in Seq(Task)
  BY DEF TypeOK
<1>2. \A i \in DOMAIN io_queue : io_queue[i] \in Task /\ io_queue[i] \in ToSet(io_queue)
  BY <1>1, ElementIndex
<1>3. \A y \in Task : y.op = "Start" =>
         \A i, j \in DOMAIN io_queue :
            i < j /\ io_queue[i] \in {y} => io_queue[j] \in Task \ {y}
  BY <1>2 DEF StartInv
<1>4. ASSUME io_queue # <<>>
      PROVE  /\ \A i, j \in DOMAIN Tail(io_queue) :
                   i < j /\ Tail(io_queue)[i].op = "Start"
                   => Tail(io_queue)[j] # Tail(io_queue)[i]
             /\ Head(io_queue).op = "Start" => Head(io_queue) \notin ToSet(Tail(io_queue))
  <2>1. Tail(io_queue) \in Seq(Task) /\ Head(io_queue) \in Task
    BY <1>1, <1>4, TailElements
  <2>2. \A i \in DOMAIN Tail(io_queue) : Tail(io_queue)[i] \in Task
    BY <2>1, ElementIndex
  <2>3. ASSUME NEW y \in Task, y.op = "Start"
        PROVE  /\ \A i, j \in DOMAIN Tail(io_queue) :
                     i < j /\ Tail(io_queue)[i] \in {y} => Tail(io_queue)[j] \in Task \ {y}
               /\ Head(io_queue) \in {y} => ToSet(Tail(io_queue)) \subseteq Task \ {y}
    <3>1. \A i, j \in DOMAIN io_queue :
             i < j /\ io_queue[i] \in {y} => io_queue[j] \in Task \ {y}
      BY <1>3, <2>3
    <3> QED
      BY <1>1, <1>4, <3>1, TailOrder
  <2> QED
    BY <2>1, <2>2, <2>3
<1>5. ASSUME NEW x \in Task, x.op = "Start" => x \notin ToSet(io_queue)
      PROVE  \A i, j \in DOMAIN Append(io_queue, x) :
                i < j /\ Append(io_queue, x)[i].op = "Start"
                => Append(io_queue, x)[j] # Append(io_queue, x)[i]
  <2>1. Append(io_queue, x) \in Seq(Task)
    BY <1>1, AppendElements
  <2>2. \A i \in DOMAIN Append(io_queue, x) : Append(io_queue, x)[i] \in Task
    BY <2>1, ElementIndex
  <2>3. ASSUME NEW y \in Task, y.op = "Start"
        PROVE  \A i, j \in DOMAIN Append(io_queue, x) :
                  i < j /\ Append(io_queue, x)[i] \in {y}
                  => Append(io_queue, x)[j] \in Task \ {y}
    <3>1. \A i, j \in DOMAIN io_queue :
             i < j /\ io_queue[i] \in {y} => io_queue[j] \in Task \ {y}
      BY <1>3, <2>3
    <3>2. x \in Task \ {y} \/ \A z \in ToSet(io_queue) : z \notin {y}
      BY <1>5, <2>3
    <3> QED
      BY <1>1, <3>1, <3>2, AppendOrder
  <2> QED
    BY <2>2, <2>3
<1> QED
  BY <1>4, <1>5

\* What a start that is queued relies on.
Startable(e) ==
    /\ life[e] = "running" /\ streams[e] = "none"
    /\ \/ path[e] = "used" /\ command_line[e] = asked[e]
       \/ path[e] = "none" /\ endpoint

\* By the book, every step leaves a queued start what it relies on.
LEMMA StartStepInv ==
    ASSUME TypeOK, QueueInv, Book, [Next]_vars, ByTheBook'
    PROVE  StartInv'
<1> USE DEF runtimeVars, envVars, appVars
<1>0. /\ \A e \in Env : StartTask(e) \in ToSet(io_queue) => Startable(e)
      /\ io_queue \in Seq(Task) /\ StartInv /\ LifeInv /\ PathInv /\ EndpointInv
  BY DEF Book, StartInv, Startable, TypeOK
<1>1. ASSUME io_queue' = io_queue,
             \A e \in Env : StartTask(e) \in ToSet(io_queue) => Startable(e)'
      PROVE  StartInv'
  BY <1>0, <1>1 DEF StartInv, Startable
<1>2. ASSUME io_queue # <<>>, io_queue' = Tail(io_queue),
             \A e \in Env : StartTask(e) \in ToSet(Tail(io_queue)) => Startable(e)'
      PROVE  StartInv'
  BY <1>0, <1>2, StartOnce DEF StartInv, Startable
<1>3. ASSUME NEW x \in Task, io_queue' = Append(io_queue, x),
             x.op = "Start" => x \notin ToSet(io_queue) /\ Startable(x.env)',
             \A e \in Env : StartTask(e) \in ToSet(io_queue) => Startable(e)'
      PROVE  StartInv'
  <2>1. ToSet(io_queue') = ToSet(io_queue) \cup {x}
    BY <1>3, AppendEffect
  <2>2. \A e \in Env : StartTask(e) \in ToSet(io_queue') => Startable(e)'
    BY <1>3, <2>1, TaskType
  <2>3. \A i, j \in DOMAIN io_queue' :
           i < j /\ io_queue'[i].op = "Start" => io_queue'[j] # io_queue'[i]
    BY <1>0, <1>3, StartOnce
  <2> QED
    BY <2>2, <2>3 DEF StartInv, Startable
<1>4. ASSUME UNCHANGED <<life, streams, path, command_line, asked, endpoint>>
      PROVE  \A e \in Env : Startable(e) => Startable(e)'
  BY <1>4 DEF Startable
<1>5. CASE InitializeMMMojo \/ ShutdownMMMojo
  <2>1. io_queue = <<>> /\ io_queue' = io_queue
    BY <1>5 DEF InitializeMMMojo, ShutdownMMMojo
  <2>2. ToSet(io_queue) = {}
    BY <2>1, EmptyElements
  <2> QED
    BY <1>1, <2>1, <2>2
<1>6. ASSUME NEW e \in Env, CreateMMMojoEnvironment(e) \/ SetRemoteOnConnect(e)
      PROVE  StartInv'
  BY <1>0, <1>1, <1>4, <1>6 DEF CreateMMMojoEnvironment, SetRemoteOnConnect
<1>7. ASSUME NEW e \in Env, SetExePath(e) \/ RemoveMMMojoEnvironment(e)
      PROVE  StartInv'
  <2>1. life[e] # "running"
    BY <1>7, BookStep
  <2>2. /\ UNCHANGED <<io_queue, streams, endpoint>>
        /\ \A d \in Env : d # e => UNCHANGED <<life[d], path[d], command_line[d], asked[d]>>
    BY <1>7 DEF SetExePath, NewCommandLine, RemoveMMMojoEnvironment, TypeOK
  <2> QED
    BY <1>0, <1>1, <2>1, <2>2 DEF Startable
<1>8. ASSUME NEW e \in Env, NEW s \in Switch, AppendSubProcessSwitchNative(e, s)
      PROVE  StartInv'
  <2>1. path[e] = "set"
    BY <1>8, BookStep
  <2>2. /\ UNCHANGED <<io_queue, streams, endpoint, life, path>>
        /\ \A d \in Env : d # e => UNCHANGED <<command_line[d], asked[d]>>
    BY <1>8 DEF AppendSubProcessSwitchNative, TypeOK
  <2> QED
    BY <1>0, <1>1, <2>1, <2>2 DEF Startable
<1>9. ASSUME NEW e \in Env, StartEnvironment(e)
      PROVE  StartInv'
  <2>1. MayStart(e)
    BY <1>9, BookStep
  <2>2. /\ life[e] # "running" /\ StartTask(e) \notin ToSet(io_queue) /\ streams[e] = "none"
        /\ io # "none"
    BY <1>0, <2>1 DEF MayStart, Startable, LifeInv
  <2>3. \/ path[e] = "set" /\ command_line[e] = asked[e]
        \/ path[e] = "none" /\ endpoint
    BY <1>0, <2>1 DEF MayStart, PathInv, EndpointInv
  <2>4. /\ path' = [path EXCEPT ![e] = IF path[e] = "set" THEN "used" ELSE path[e]]
        /\ life' = [life EXCEPT ![e] = "running"]
        /\ UNCHANGED <<streams, command_line, asked, endpoint>>
    BY <1>9 DEF StartEnvironment
  <2>5. Startable(e)' /\ \A d \in Env : d # e /\ Startable(d) => Startable(d)'
    BY <2>2, <2>3, <2>4 DEF Startable, TypeOK
  <2>6. io_queue' = Append(io_queue, StartTask(e))
    BY <1>9, <2>2 DEF StartEnvironment, PostIO, StartTask
  <2> QED
    BY <1>0, <1>3, <2>2, <2>5, <2>6, TaskType
<1>10. ASSUME NEW e \in Env, StopEnvironment(e)
       PROVE  StartInv'
  <2>1. PICK x : x = [op |-> "Stop", env |-> e]
    OBVIOUS
  <2>2. x \in Task /\ x.op = "Stop"
    BY <2>1 DEF Task
  <2>3. io_queue' = io_queue \/ io_queue' = Append(io_queue, x)
    BY <1>10, <2>1, PostEffect DEF StopEnvironment, Calls
  <2>4. UNCHANGED <<life, streams, path, command_line, asked, endpoint>>
    BY <1>10 DEF StopEnvironment
  <2> QED
    BY <1>0, <1>1, <1>3, <1>4, <2>2, <2>3, <2>4
<1>11. ASSUME NEW e \in Env, LaunchProcess(e)
       PROVE  StartInv'
  <2>1. PICK op \in {"Launched", "LaunchFailed"} :
            io_queue' = Append(io_queue, [op |-> op, env |-> e])
    BY <1>11 DEF LaunchProcess
  <2>2. PICK x : x = [op |-> op, env |-> e]
    OBVIOUS
  <2>3. x \in Task /\ x.op # "Start"
    BY <2>2 DEF Task
  <2>4. io_queue' = Append(io_queue, x)
    BY <2>1, <2>2
  <2>5. UNCHANGED <<life, streams, path, command_line, asked, endpoint>>
    BY <1>11 DEF LaunchProcess
  <2> QED
    BY <1>0, <1>3, <1>4, <2>3, <2>4, <2>5
<1>12. CASE StartEnvironmentOnClientThread
  <2>1. PICK e \in Env :
            /\ e = Head(io_queue).env /\ Head(io_queue) = StartTask(e)
            /\ life[e] = "running"
            /\ streams' = [streams EXCEPT ![e] = "bound"]
            /\ \/ /\ command_line' = [command_line EXCEPT ![e] = Moved]
                  /\ endpoint' = endpoint
               \/ path[e] = "none" /\ command_line' = command_line
    BY <1>12, StartHead, StartByTheBook
  <2>2. /\ io_queue # <<>> /\ io_queue' = Tail(io_queue)
        /\ ToSet(Tail(io_queue)) \subseteq ToSet(io_queue)
    BY <1>0, <1>12, TailElements DEF StartEnvironmentOnClientThread, RunsTask
  <2>3. StartTask(e) \notin ToSet(Tail(io_queue))
    BY <1>0, <2>1, <2>2, StartOnce, TaskType
  <2>4. UNCHANGED <<life, path, asked>>
    BY <1>12 DEF StartEnvironmentOnClientThread
  <2>5. ASSUME NEW d \in Env, d # e, Startable(d)
        PROVE  Startable(d)'
    <3>1. path[d] = "none" => path[e] # "none"
      BY <1>0, <2>1, <2>5 DEF EndpointInv, LifeInv, Startable
    <3> QED
      BY <2>1, <2>4, <2>5, <3>1 DEF Startable, TypeOK
  <2> QED
    BY <1>0, <1>2, <2>2, <2>3, <2>5
<1>13. CASE OnProcessLaunched \/ OnProcessLaunchFailed
  <2>1. /\ io_queue # <<>> /\ io_queue' = Tail(io_queue)
        /\ ToSet(Tail(io_queue)) \subseteq ToSet(io_queue)
    BY <1>0, <1>13, TailElements DEF OnProcessLaunched, OnProcessLaunchFailed, RunsTask
  <2>2. UNCHANGED <<life, streams, path, command_line, asked, endpoint>>
    BY <1>13 DEF OnProcessLaunched, OnProcessLaunchFailed
  <2> QED
    BY <1>0, <1>2, <1>4, <2>1, <2>2
<1>14. CASE StopEnvironmentOnClientThread
  <2>1. io_queue # <<>> /\ io_queue' = Tail(io_queue) /\ Head(io_queue).op = "Stop"
    BY <1>14 DEF StopEnvironmentOnClientThread, RunsTask
  <2>2. \A x \in ToSet(Tail(io_queue)) : x.op # "Start"
    <3>1. Len(io_queue) \in Nat /\ \A i \in 1..Len(io_queue) - 1 : io_queue[i + 1].op # "Start"
      <4>1. io_queue[1].op = "Stop" /\ Len(io_queue) \in Nat /\ DOMAIN io_queue = 1..Len(io_queue)
        BY <1>0, <2>1, TailElements, ElementIndex
      <4> QED
        BY <4>1 DEF QueueInv
    <3>2. /\ Tail(io_queue) \in Seq(Task) /\ Len(Tail(io_queue)) = Len(io_queue) - 1
          /\ \A i \in 1..Len(io_queue) - 1 : Tail(io_queue)[i] = io_queue[i + 1]
      BY <1>0, <2>1, TailElements
    <3>3. \A x \in ToSet(Tail(io_queue)) :
             \E i \in 1..Len(Tail(io_queue)) : Tail(io_queue)[i] = x
      BY <3>2, ElementIndex
    <3> QED
      BY <3>1, <3>2, <3>3
  <2> QED
    BY <1>2, <2>1, <2>2, TaskType
<1>15. CASE UNCHANGED vars
  BY <1>0, <1>1, <1>4, <1>15 DEF vars
<1> QED
  BY <1>5, <1>6, <1>7, <1>8, <1>9, <1>10, <1>11, <1>12, <1>13, <1>14, <1>15, NextCases
-----------------------------------------------------------------------------
(* The theorems                                                            *)

\* The invariant holds at first.
LEMMA InitIInv == Init => IInv
<1> SUFFICES ASSUME Init
             PROVE  IInv
  OBVIOUS
<1>1. TypeOK
  BY InitType
<1>2. io_queue = <<>> /\ ToSet(io_queue) = {} /\ DOMAIN io_queue = {}
  BY EmptyElements DEF Init
<1>3. QueueInv /\ StartInv
  BY <1>2 DEF QueueInv, StartInv
<1>4. QuietInv /\ RuntimeInv /\ LifeInv /\ PathInv /\ EndpointInv
  BY DEF Init, QuietInv, RuntimeInv, Running, LifeInv, PathInv, EndpointInv
<1> QED
  BY <1>1, <1>3, <1>4 DEF IInv, BookInv

\* Every step keeps the invariant.
LEMMA StepIInv == IInv /\ [Next]_vars => IInv'
<1> SUFFICES ASSUME IInv, [Next]_vars
             PROVE  IInv'
  OBVIOUS
<1>1. TypeOK /\ QueueInv /\ QuietInv /\ BookInv
  BY DEF IInv
<1>2. TypeOK' /\ QueueInv' /\ QuietInv'
  BY <1>1, StepType, QueueStepInv, QuietStepInv
<1>3. ASSUME ByTheBook'
      PROVE  RuntimeInv' /\ LifeInv' /\ PathInv' /\ EndpointInv' /\ StartInv'
  <2>1. Book
    BY <1>1, <1>3, BookStep DEF BookInv, Book
  <2> QED
    BY <1>1, <1>3, <2>1, RuntimeStepInv, LifeStepInv, PathStepInv, EndpointStepInv,
       StartStepInv
<1> QED
  BY <1>2, <1>3 DEF IInv, BookInv

\* The inductive invariant holds of every behaviour.
THEOREM Invariant == Spec => []IInv
  BY InitIInv, StepIInv, PTL DEF Spec

\* An application that keeps the rules (departures = 0) meets no null pointer,
\* no empty optional, no freed environment and no streams of another thread,
\* wherever in mmmojo.cc and mmmojo_environment.cc its calls and the tasks they
\* post may find themselves, for any number of environments, calls and starts.
THEOREM RulesSuffice == Spec => []BookIsSafe
<1>1. IInv => BookIsSafe
  BY DEF IInv, BookInv, RuntimeInv, BookIsSafe
<1> QED
  BY <1>1, Invariant, PTL

\* By the book, the command line AttachAndLaunchSubProcess hands to the launcher
\* is what was appended since kMMExePath was last set, at every start.
THEOREM ChildGetsSwitches == Spec => []SwitchesReachChild
<1>1. IInv => SwitchesReachChild
  BY DEF IInv, BookInv, PathInv, SwitchesReachChild
<1> QED
  BY <1>1, Invariant, PTL

\* Once StopMMMojoEnvironment has returned, no streams, no child and no task of
\* the environment but a launcher's late answer are left on the IO thread - with
\* no rule kept: the wait in StopMMMojoEnvironment alone sees to it.
THEOREM StopLeavesNothing == Spec => []StoppedIsQuiet
<1>1. IInv => StoppedIsQuiet
  <2> SUFFICES ASSUME IInv, NEW e \in Env, life[e] = "stopped", e \notin stopping
               PROVE  /\ streams[e] = "none" /\ child[e] = "none"
                      /\ \A i \in DOMAIN io_queue : io_queue[i].env = e =>
                            io_queue[i].op \in {"Launched", "LaunchFailed"}
    BY DEF StoppedIsQuiet
  <2>1. \A i \in DOMAIN io_queue : io_queue[i] \in Task /\ io_queue[i] \in ToSet(io_queue)
    BY ElementIndex DEF IInv, TypeOK
  <2>2. \A x \in Task : x.op \in {"Start", "Stop", "Launched", "LaunchFailed"}
    BY DEF Task
  <2> QED
    BY <2>1, <2>2 DEF IInv, QueueInv, QuietInv
<1> QED
  BY <1>1, Invariant, PTL
=============================================================================
