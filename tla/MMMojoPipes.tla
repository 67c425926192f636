---------------------------- MODULE MMMojoPipes ----------------------------
(***************************************************************************)
(* How the streams of a host and its child get the message pipes that join *)
(* them: AttachAndLaunchSubProcess, ExtractSubProcess and the Create...    *)
(* functions of common/mmmojo_environment.cc.                              *)
(*                                                                         *)
(* A pipe has two ends and is known to both processes by the name it was   *)
(* attached to the invitation under; an end is written here as that name.  *)
(* The task that starts an environment runs on the IO thread, while the    *)
(* thread of each stream already takes the ends posted to it.              *)
(***************************************************************************)
EXTENDS Integers, Sequences, SequencesExt

CONSTANTS
    Host, Child,   \* the two processes
    MaxPipes,      \* a bound on add_num_messagepipe
    NoEnds         \* a stream has no pipes yet

\* Names of the attachments
kMMChildProcessReceiverProcessName            == 0
kMMChildProcessHostRemoteProcessName          == 1
kMMChildProcessReceiverName                   == 2
kMMChildProcessHostRemoteName                 == 3
kMMChildProcessReceiverSyncName               == 4
kMMChildProcessHostRemoteSyncName             == 5
kMMChildProcessReceiverAndHostRemoteSetSyncName == 1000

Side == {Host, Child}

\* The ends one stream is made of.
Ends == [remote : Nat, receiver : Nat]

ASSUME PipesAssumption ==
    /\ Host # Child
    /\ MaxPipes \in Nat
    /\ NoEnds \notin Ends

\* child_process_stream_, default_streams_ and append_streams_
Process      == <<"process", 0>>
Default      == <<"default", 0>>
DefaultSync  == <<"default", 1>>
AppendId(j)  == <<"append", j>>

AppendIds == {AppendId(j) : j \in 0..MaxPipes - 1}
StreamIds == {Process, Default, DefaultSync} \cup AppendIds

VARIABLES
    add_num_messagepipe, \* what SetMMMojoInitParams was told
    step,                \* how far the start task of a process is
    message_pipes,       \* append_message_pipes
    posted,              \* ends on their way to the thread of a stream
    impl,                \* ends remote_ and receiver_ of a stream are bound to
    connected            \* remote_on_connect was called

vars == <<add_num_messagepipe, step, message_pipes, posted, impl, connected>>

TypeOK ==
    /\ add_num_messagepipe \in [Side -> 0..MaxPipes]
    /\ step \in [Side -> {"idle", "pipes", "append", "launch", "done"}]
    /\ message_pipes \in [Side -> Seq(Ends)]
    /\ posted \in [Side \X StreamIds -> Ends \cup {NoEnds}]
    /\ impl \in [Side \X StreamIds -> Ends \cup {NoEnds}]
    /\ connected \in [Side -> BOOLEAN]

\* Each application chose the number of append streams by itself.
Init ==
    /\ add_num_messagepipe \in [Side -> 0..MaxPipes]
    /\ step = [p \in Side |-> "idle"]
    /\ message_pipes = [p \in Side |-> <<>>]
    /\ posted = [e \in Side \X StreamIds |-> NoEnds]
    /\ impl = [e \in Side \X StreamIds |-> NoEnds]
    /\ connected = [p \in Side |-> FALSE]
-----------------------------------------------------------------------------
\* The child reads from the pipe its receiver is named after, and the host
\* from the one of the child's remote.
PipeEnds(p, receiver_name, remote_name) ==
    IF p = Host THEN [remote |-> receiver_name, receiver |-> remote_name]
                ELSE [remote |-> remote_name, receiver |-> receiver_name]

\* Mutants: attachment_name is incremented once per pair; the second pipe of a
\* pair is never taken.
AppendPipeOverlap(p, k) ==
    LET attachment_name == kMMChildProcessReceiverAndHostRemoteSetSyncName + (k - 1)
    IN  PipeEnds(p, attachment_name, attachment_name + 1)
AppendPipeHalf(p, k) ==
    PipeEnds(p, kMMChildProcessReceiverAndHostRemoteSetSyncName + 2 * (k - 1), NoEnds)

\* The k-th round of the loop over append_message_pipes
AppendPipe(p, k) ==
    LET attachment_name == kMMChildProcessReceiverAndHostRemoteSetSyncName + 2 * (k - 1)
    IN  PipeEnds(p, attachment_name, attachment_name + 1)

GetPipes(p) ==
    /\ step' = [step EXCEPT ![p] = "pipes"]
    /\ message_pipes' = [message_pipes EXCEPT ![p] =
                             [k \in 1..add_num_messagepipe[p] |-> AppendPipe(p, k)]]
    /\ UNCHANGED <<add_num_messagepipe, posted, impl, connected>>

\* Nothing outside the IO thread sees the invitation before the launch.
AttachAndLaunchSubProcess == step[Host] = "idle" /\ GetPipes(Host)

\* Mutant: the pairs are taken apart as the host put them together.
ExtractSubProcessUncrossed ==
    /\ step[Host] = "done" /\ step[Child] = "idle"
    /\ step' = [step EXCEPT ![Child] = "pipes"]
    /\ message_pipes' = [message_pipes EXCEPT ![Child] =
                             [k \in 1..add_num_messagepipe[Child] |-> AppendPipe(Host, k)]]
    /\ UNCHANGED <<add_num_messagepipe, posted, impl, connected>>

\* The child runs once the host has launched it, if that succeeds.
ExtractSubProcess == step[Host] = "done" /\ step[Child] = "idle" /\ GetPipes(Child)

CreateDefaultRemoteAndReceiverStream(p) ==
    /\ step[p] = "pipes"
    /\ step' = [step EXCEPT ![p] = "append"]
    /\ posted' = [posted EXCEPT
           ![<<p, Default>>] = PipeEnds(p, kMMChildProcessReceiverName,
                                           kMMChildProcessHostRemoteName),
           ![<<p, DefaultSync>>] = PipeEnds(p, kMMChildProcessReceiverSyncName,
                                               kMMChildProcessHostRemoteSyncName)]
    /\ UNCHANGED <<add_num_messagepipe, message_pipes, impl, connected>>

\* The append stream the loop has come to
NextAppend(p) == AppendId(add_num_messagepipe[p] - Len(message_pipes[p]))

\* Mutant: the streams take their pipes from the front.
CreateAppendRemoteAndReceiverStreamFront(p) ==
    /\ step[p] = "append" /\ message_pipes[p] # <<>>
    /\ posted' = [posted EXCEPT ![<<p, NextAppend(p)>>] = Head(message_pipes[p])]
    /\ message_pipes' = [message_pipes EXCEPT ![p] = Tail(@)]
    /\ UNCHANGED <<add_num_messagepipe, step, impl, connected>>

\* One round of the loop over append_streams_
CreateAppendRemoteAndReceiverStream(p) ==
    /\ step[p] = "append" /\ message_pipes[p] # <<>>
    /\ posted' = [posted EXCEPT ![<<p, NextAppend(p)>>] = Last(message_pipes[p])]
    /\ message_pipes' = [message_pipes EXCEPT ![p] = Front(@)]
    /\ UNCHANGED <<add_num_messagepipe, step, impl, connected>>

\* Mutant: called before CreateAppendRemoteAndReceiverStream is through.
CreateChildProcessRemoteAndReceiverStreamEarly(p) ==
    /\ step[p] = "append"
    /\ step' = [step EXCEPT ![p] = IF p = Host THEN "launch" ELSE "done"]
    /\ impl' = [impl EXCEPT ![<<p, Process>>] =
                    PipeEnds(p, kMMChildProcessReceiverProcessName,
                                kMMChildProcessHostRemoteProcessName)]
    /\ connected' = [connected EXCEPT ![p] = TRUE]
    /\ UNCHANGED <<add_num_messagepipe, message_pipes, posted>>

\* child_process_stream_ has no thread: its pipes are bound on the IO thread,
\* and the constructor of impl_ calls remote_on_connect.
CreateChildProcessRemoteAndReceiverStream(p) ==
    /\ step[p] = "append" /\ message_pipes[p] = <<>>
    /\ step' = [step EXCEPT ![p] = IF p = Host THEN "launch" ELSE "done"]
    /\ impl' = [impl EXCEPT ![<<p, Process>>] =
                    PipeEnds(p, kMMChildProcessReceiverProcessName,
                                kMMChildProcessHostRemoteProcessName)]
    /\ connected' = [connected EXCEPT ![p] = TRUE]
    /\ UNCHANGED <<add_num_messagepipe, message_pipes, posted>>

LaunchSubProcess ==
    /\ step[Host] = "launch"
    /\ step' = [step EXCEPT ![Host] = "done"]
    /\ UNCHANGED <<add_num_messagepipe, message_pipes, posted, impl, connected>>

\* The task posted to the thread of a stream
CreateRemoteAndReceiverStream(e) ==
    /\ posted[e] # NoEnds
    /\ impl' = [impl EXCEPT ![e] = posted[e]]
    /\ posted' = [posted EXCEPT ![e] = NoEnds]
    /\ UNCHANGED <<add_num_messagepipe, step, message_pipes, connected>>

StartStep(p) ==
    \/ CreateDefaultRemoteAndReceiverStream(p)
    \/ CreateAppendRemoteAndReceiverStream(p)
    \/ CreateChildProcessRemoteAndReceiverStream(p)

Next ==
    \/ AttachAndLaunchSubProcess
    \/ ExtractSubProcess
    \/ LaunchSubProcess
    \/ \E p \in Side : StartStep(p)
    \/ \E e \in Side \X StreamIds : CreateRemoteAndReceiverStream(e)

Spec == Init /\ [][Next]_vars
-----------------------------------------------------------------------------
Bound(e) == impl[e] # NoEnds

\* What either end writes, the other one reads.
Joined(d, e) ==
    impl[d].remote = impl[e].receiver /\ impl[d].receiver = impl[e].remote

\* The same stream of both processes is joined: always for the default ones
\* and the one to the child process, and for the append streams if both
\* applications asked for as many.
Paired ==
    \A s \in StreamIds :
        /\ Bound(<<Host, s>>) /\ Bound(<<Child, s>>)
        /\ s \in AppendIds => add_num_messagepipe[Host] = add_num_messagepipe[Child]
        => Joined(<<Host, s>>, <<Child, s>>)

\* If not, the append streams are counted from the last one: two of them are
\* joined exactly if as many streams follow in either process.
AppendJoinedFromEnd ==
    \A i, j \in 0..MaxPipes - 1 :
        Bound(<<Host, AppendId(i)>>) /\ Bound(<<Child, AppendId(j)>>) =>
            (Joined(<<Host, AppendId(i)>>, <<Child, AppendId(j)>>) <=>
                add_num_messagepipe[Host] - i = add_num_messagepipe[Child] - j)

\* No pipe is bound twice in a process, and none joins two remotes or two
\* receivers, whatever the applications asked for.
NoSharedEnd ==
    \A d, e \in Side \X StreamIds : Bound(d) /\ Bound(e) =>
        /\ impl[d].remote = impl[e].remote => d = e
        /\ impl[d].receiver = impl[e].receiver => d = e
        /\ impl[d].remote = impl[e].receiver => d[1] # e[1]

\* When remote_on_connect is called, the thread of every stream has been given
\* its pipes: what the application sends from then on finds them.
ConnectLast ==
    \A p \in Side : connected[p] =>
        \A s \in {Process, Default, DefaultSync}
                   \cup {AppendId(j) : j \in 0..add_num_messagepipe[p] - 1} :
            posted[<<p, s>>] # NoEnds \/ Bound(<<p, s>>)
=============================================================================
