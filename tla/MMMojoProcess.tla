--------------------------- MODULE MMMojoProcess ---------------------------
(***************************************************************************)
(* One process from InitializeMMMojo to ShutdownMMMojo (mmmojo/mmmojo.cc): *)
(* the IO thread, Mojo's IPC support and the thread pool it sets up, and   *)
(* the lives of its environments - configured by the application's thread, *)
(* started and stopped by tasks of the IO thread, launching a child by a   *)
(* task of the pool.                                                       *)
(*                                                                         *)
(* The functions have an order they are meant to be called in, which no    *)
(* doc states and few of them test.  The application of this module calls  *)
(* them in any order; departures counts where it left the rules that the   *)
(* code turns out to need, and fault is what happened when it did.         *)
(***************************************************************************)
EXTENDS Naturals, Sequences, SequencesExt, FiniteSets

CONSTANTS
    Env,       \* the environments
    Switch,    \* what the application appends to a command line
    Invited,   \* whether a host launched this process
    Unset, Moved,  \* a command line never set, or moved to the launcher
    MaxInits,  \* bound on the calls of InitializeMMMojo
    MaxStarts, \* bound on the starts of an environment
    MaxDepartures  \* bound on the calls that break a rule

ASSUME ProcessAssumption ==
    /\ Invited \in BOOLEAN
    /\ {MaxInits, MaxStarts, MaxDepartures} \subseteq Nat
    /\ Unset # Moved /\ \A switches \in SUBSET Switch : switches \notin {Unset, Moved}

VARIABLES
    io,           \* mojo_io_thread_
    ipc,          \* Mojo's IPC support
    pool,         \* base::ThreadPoolInstance
    io_queue,     \* tasks posted to the IO thread
    exists,       \* environments that were created and not removed
    command_line, \* command_line_
    connect,      \* remote_on_connect is registered
    streams,      \* the streams of an environment, and whether their thread is there
    child,        \* child_process_ and what its client was told
    passed,       \* the switches the child was launched with
    endpoint,     \* of the invitation this process was launched with
    stopping,     \* the environments the application is waiting for
    fault,        \* what ended the process or made it undefined
    inits,        \* calls of InitializeMMMojo
    \* what the application remembers of its own calls
    departures,   \* calls that broke a rule
    path,         \* kMMExePath: not set, set, or used by a start
    asked,        \* switches appended since
    life,         \* of an environment
    starts        \* how often it was started

runtimeVars == <<io, ipc, pool, inits>>
envVars     == <<exists, command_line, connect, streams, child, passed, endpoint>>
appVars     == <<path, asked, life, starts>>
vars == <<runtimeVars, envVars, appVars, io_queue, stopping, fault, departures>>

Task == [op : {"Start", "Stop", "Launched", "LaunchFailed"}, env : Env]

TypeOK ==
    /\ io \in {"none", "running"}
    /\ ipc \in BOOLEAN
    /\ pool \in {"none", "created", "running", "down"}
    /\ io_queue \in Seq(Task)
    /\ exists \subseteq Env
    /\ command_line \in [Env -> {Unset, Moved} \cup SUBSET Switch]
    /\ connect \subseteq Env
    /\ streams \in [Env -> {"none", "bound", "orphaned"}]
    /\ child \in [Env -> {"none", "launching", "returning", "launched", "failed"}]
    /\ passed \in [Env -> SUBSET Switch]
    /\ endpoint \in BOOLEAN
    /\ stopping \subseteq Env
    /\ fault \in {"none", "null_thread", "null_pool", "pool_down", "no_command_line",
                  "null_callback", "no_ipc", "terminated", "wrong_thread", "freed"}
    /\ inits \in 0..MaxInits
    /\ departures \in 0..MaxDepartures
    /\ path \in [Env -> {"none", "set", "used"}]
    /\ asked \in [Env -> SUBSET Switch]
    /\ life \in [Env -> {"new", "running", "stopped", "removed"}]
    /\ starts \in [Env -> 0..MaxStarts]

Init ==
    /\ io = "none" /\ ipc = FALSE /\ pool = "none" /\ inits = 0
    /\ io_queue = <<>>
    /\ exists = {} /\ connect = {} /\ stopping = {}
    /\ command_line = [e \in Env |-> Unset]
    /\ streams = [e \in Env |-> "none"]
    /\ child = [e \in Env |-> "none"]
    /\ passed = [e \in Env |-> {}]
    /\ endpoint = Invited
    /\ fault = "none" /\ departures = 0
    /\ path = [e \in Env |-> "none"]
    /\ asked = [e \in Env |-> {}]
    /\ life = [e \in Env |-> "new"]
    /\ starts = [e \in Env |-> 0]

\* The application's thread makes a call, which is by the book or is not.
Calls(rule) ==
    /\ fault = "none" /\ stopping = {}
    /\ IF rule THEN UNCHANGED departures
       ELSE departures < MaxDepartures /\ departures' = departures + 1

Running == {e \in Env : life[e] = "running"}
Fails(what) == fault' = what
-----------------------------------------------------------------------------
(* The process                                                             *)

\* The thread of the environments that are bound has ended.
Orphans == streams' = [e \in Env |-> IF streams[e] = "bound" THEN "orphaned" ELSE streams[e]]

\* Mutant: the pool is created but not started.
StartPoolNot == pool' = IF pool = "none" THEN "created" ELSE pool

\* The pool is only started when it is created.
StartPool == pool' = IF pool = "none" THEN "running" ELSE pool

\* An IO thread that is there already is joined, after its tasks, and replaced.
\* The IPC support a second call sets up is shut down again by the destructor
\* of the one it replaces.
InitializeMMMojo ==
    /\ Calls(io = "none")
    /\ inits < MaxInits /\ inits' = inits + 1
    /\ io_queue = <<>>
    /\ io' = "running" /\ Orphans
    /\ StartPool
    /\ ipc' = (io = "none")
    /\ UNCHANGED <<exists, command_line, connect, child, passed, endpoint,
                   appVars, io_queue, stopping, fault>>

\* Mutant: the thread is stopped and kept.
ShutdownIOThreadKeeps == io' = "stopped" /\ Orphans

ShutdownIOThread == io' = "none" /\ Orphans

\* The pool must be there, and may be shut down only once in a process: it is
\* neither deleted nor started again.
ShutdownPool ==
    \/ pool = "none" /\ Fails("null_pool") /\ UNCHANGED pool
    \/ pool = "down" /\ Fails("pool_down") /\ UNCHANGED pool
    \/ pool \notin {"none", "down"} /\ pool' = "down" /\ UNCHANGED fault

\* The IO thread is joined after its tasks, then IPC and the pool go.
ShutdownMMMojo ==
    /\ Calls(io = "running" /\ Running = {} /\ pool # "down")
    /\ io_queue = <<>>
    /\ ShutdownIOThread /\ ipc' = FALSE
    /\ ShutdownPool
    /\ UNCHANGED <<inits, exists, command_line, connect, child, passed, endpoint,
                   appVars, io_queue, stopping>>
-----------------------------------------------------------------------------
(* An environment, as the application's thread sees it                     *)

CreateMMMojoEnvironment(e) ==
    /\ Calls(TRUE)
    /\ e \notin exists /\ life[e] = "new"
    /\ exists' = exists \cup {e}
    /\ UNCHANGED <<runtimeVars, command_line, connect, streams, child, passed, endpoint,
                   appVars, io_queue, stopping, fault>>

SetRemoteOnConnect(e) ==
    /\ Calls(life[e] # "running")
    /\ e \in exists \ connect
    /\ connect' = connect \cup {e}
    /\ UNCHANGED <<runtimeVars, exists, command_line, streams, child, passed, endpoint,
                   appVars, io_queue, stopping, fault>>

\* Mutant: a command line that is engaged is kept.
NewCommandLineOnce(e) ==
    command_line' = [command_line EXCEPT ![e] = IF @ = Unset THEN {} ELSE @]

NewCommandLine(e) == command_line' = [command_line EXCEPT ![e] = {}]

\* kMMExePath begins a new command line.
SetExePath(e) ==
    /\ Calls(life[e] # "running")
    /\ e \in exists
    /\ NewCommandLine(e)
    /\ path' = [path EXCEPT ![e] = "set"]
    /\ asked' = [asked EXCEPT ![e] = {}]
    /\ UNCHANGED <<runtimeVars, exists, connect, streams, child, passed, endpoint,
                   life, starts, io_queue, stopping, fault>>

\* So do kMMLogPath and kMMLogToStderr: there is a command line or value()
\* throws, and it is not null.
AppendSubProcessSwitchNative(e, s) ==
    /\ Calls(path[e] = "set")
    /\ e \in exists
    /\ asked' = [asked EXCEPT ![e] = @ \cup {s}]
    /\ IF command_line[e] \in {Unset, Moved}
       THEN Fails("no_command_line") /\ UNCHANGED command_line
       ELSE command_line' = [command_line EXCEPT ![e] = @ \cup {s}] /\ UNCHANGED fault
    /\ UNCHANGED <<runtimeVars, exists, connect, streams, child, passed, endpoint,
                   path, life, starts, io_queue, stopping>>

\* A task is posted to an IO thread that is not tested to be there.
PostIO(op, e) ==
    IF io = "none" THEN Fails("null_thread") /\ UNCHANGED io_queue
    ELSE io_queue' = Append(io_queue, [op |-> op, env |-> e]) /\ UNCHANGED fault

\* What a start needs: a new path if it launches a child, the invitation if not.
MayStart(e) ==
    /\ io = "running" /\ e \in connect /\ life[e] # "running"
    /\ path[e] = "set" \/ (path[e] = "none" /\ Invited /\ \A d \in Env : starts[d] = 0)

StartEnvironment(e) ==
    /\ Calls(MayStart(e))
    /\ e \in exists /\ starts[e] < MaxStarts
    /\ PostIO("Start", e)
    /\ path' = [path EXCEPT ![e] = IF @ = "set" THEN "used" ELSE @]
    /\ life' = [life EXCEPT ![e] = "running"]
    /\ starts' = [starts EXCEPT ![e] = @ + 1]
    /\ UNCHANGED <<runtimeVars, envVars, asked, stopping>>

StopEnvironment(e) ==
    /\ Calls(io = "running")
    /\ e \in exists
    /\ PostIO("Stop", e)
    /\ stopping' = {e}
    /\ UNCHANGED <<runtimeVars, envVars, appVars>>

\* ~MMMojoEnvironment destroys streams on this thread that belong to others.
RemoveMMMojoEnvironment(e) ==
    /\ Calls(life[e] # "running")
    /\ e \in exists
    /\ exists' = exists \ {e}
    /\ life' = [life EXCEPT ![e] = "removed"]
    /\ IF streams[e] = "none" THEN UNCHANGED fault ELSE Fails("wrong_thread")
    /\ UNCHANGED <<runtimeVars, command_line, connect, streams, child, passed, endpoint,
                   path, asked, starts, io_queue, stopping>>
-----------------------------------------------------------------------------
(* An environment, on the IO thread                                        *)

RunsTask(op) ==
    /\ fault = "none"
    /\ io_queue # <<>> /\ Head(io_queue).op = op
    /\ io_queue' = Tail(io_queue)
    /\ UNCHANGED <<runtimeVars, exists, connect, departures>>

\* Of AttachAndLaunchSubProcess and ExtractSubProcess, what may fail; and of
\* the streams, that old ones are overwritten and remote_on_connect called.
StartFault(e) ==
    CASE e \notin exists                         -> "freed"
      [] e \in exists /\ streams[e] # "none"     -> "wrong_thread"
      [] e \in exists /\ streams[e] = "none" /\ ~ipc -> "no_ipc"
      [] e \in exists /\ streams[e] = "none" /\ ipc
         /\ command_line[e] = Unset /\ ~endpoint -> "terminated"
      [] OTHER -> IF e \notin connect THEN "null_callback"
                  ELSE IF command_line[e] = Moved THEN "no_command_line" ELSE "none"

StartEnvironmentOnClientThread ==
    /\ RunsTask("Start")
    /\ LET e == Head(io_queue).env
       IN  /\ Fails(StartFault(e))
           /\ IF StartFault(e) # "none" THEN UNCHANGED <<streams, child, passed, command_line, endpoint>>
              ELSE /\ streams' = [streams EXCEPT ![e] = "bound"]
                   /\ IF command_line[e] = Unset
                      THEN endpoint' = FALSE /\ UNCHANGED <<child, passed, command_line>>
                      ELSE /\ child' = [child EXCEPT ![e] = "launching"]
                           /\ passed' = [passed EXCEPT ![e] = command_line[e]]
                           /\ command_line' = [command_line EXCEPT ![e] = Moved]
                           /\ UNCHANGED endpoint
    /\ UNCHANGED <<appVars, stopping>>

\* The launcher's task on the pool, which does not run once that is shut down;
\* its answer goes back to the IO thread.
LaunchProcess(e) ==
    /\ fault = "none" /\ child[e] = "launching" /\ pool = "running" /\ io = "running"
    /\ child' = [child EXCEPT ![e] = "returning"]
    /\ \E op \in {"Launched", "LaunchFailed"} :
           io_queue' = Append(io_queue, [op |-> op, env |-> e])
    /\ UNCHANGED <<runtimeVars, exists, command_line, connect, streams, passed, endpoint,
                   appVars, stopping, fault, departures>>

\* The launcher holds its client by a weak pointer: if it was reset since, the
\* answer is dropped.
OnProcessLaunched ==
    /\ RunsTask("Launched")
    /\ child' = [child EXCEPT ![Head(io_queue).env] = IF @ = "returning" THEN "launched" ELSE @]
    /\ UNCHANGED <<command_line, streams, passed, endpoint, appVars, stopping, fault>>

OnProcessLaunchFailed ==
    /\ RunsTask("LaunchFailed")
    /\ child' = [child EXCEPT ![Head(io_queue).env] = IF @ = "returning" THEN "failed" ELSE @]
    /\ UNCHANGED <<command_line, streams, passed, endpoint, appVars, stopping, fault>>

\* Mutant: the streams are not reset.
ResetStreamsNot(e) == UNCHANGED <<streams, fault>>

\* Streams whose IO thread has gone are destroyed by one they do not belong to.
ResetStreams(e) ==
    /\ streams' = [streams EXCEPT ![e] = "none"]
    /\ IF streams[e] = "orphaned" THEN Fails("wrong_thread") ELSE UNCHANGED fault

StopEnvironmentOnClientThread ==
    /\ RunsTask("Stop")
    /\ LET e == Head(io_queue).env
       IN  /\ ResetStreams(e)
           /\ child' = [child EXCEPT ![e] = "none"]
           /\ life' = [life EXCEPT ![e] = "stopped"]
           /\ stopping' = stopping \ {e}
    /\ UNCHANGED <<command_line, passed, endpoint, path, asked, starts>>
-----------------------------------------------------------------------------
IOStep ==
    \/ StartEnvironmentOnClientThread
    \/ OnProcessLaunched
    \/ OnProcessLaunchFailed
    \/ StopEnvironmentOnClientThread

Next ==
    \/ InitializeMMMojo
    \/ ShutdownMMMojo
    \/ IOStep
    \/ \E e \in Env : \/ CreateMMMojoEnvironment(e)
                      \/ SetRemoteOnConnect(e)
                      \/ SetExePath(e)
                      \/ \E s \in Switch : AppendSubProcessSwitchNative(e, s)
                      \/ StartEnvironment(e)
                      \/ StopEnvironment(e)
                      \/ RemoveMMMojoEnvironment(e)
                      \/ LaunchProcess(e)

Spec == Init /\ [][Next]_vars

\* The IO thread runs its tasks, and the pool the launcher's.
FairSpec == Spec /\ WF_vars(IOStep) /\ \A e \in Env : WF_vars(LaunchProcess(e))
-----------------------------------------------------------------------------
(* Properties                                                              *)

ByTheBook == departures = 0

\* The rules are enough: as long as they are kept no call and no task meets a
\* null pointer, an optional that is empty, a freed environment or streams of
\* another thread, however the calls and the tasks they post interleave.
BookIsSafe == ByTheBook => fault = "none"

\* A child is launched with exactly what was appended to its command line after
\* the path was set, also when the environment was started before.
SwitchesReachChild ==
    \A e \in Env :
        ByTheBook /\ child[e] # "none" /\ path[e] = "used" => passed[e] = asked[e]

\* Whoever launches a child is told whether that succeeded, unless the
\* environment is stopped first - or the process was shut down before, after
\* which the pool never runs again.
LaunchAnswered ==
    \A e \in Env :
        child[e] = "launching" ~>
            \/ child[e] \in {"launched", "failed", "none"}
            \/ pool = "down" \/ ~ByTheBook

\* An environment that is stopped, and not being stopped again, has nothing left
\* on the IO thread but answers to a launcher that is gone: it may be removed.
StoppedIsQuiet ==
    \A e \in Env : life[e] = "stopped" /\ e \notin stopping =>
        /\ streams[e] = "none" /\ child[e] = "none"
        /\ \A i \in DOMAIN io_queue :
               io_queue[i].env = e => io_queue[i].op \in {"Launched", "LaunchFailed"}
=============================================================================
