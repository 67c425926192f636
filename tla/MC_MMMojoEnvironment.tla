------------------------ MODULE MC_MMMojoEnvironment ------------------------
(***************************************************************************)
(* Instances of MMMojoEnvironment: which calls the application makes, and  *)
(* from which threads.                                                     *)
(***************************************************************************)
EXTENDS MMMojoEnvironment

CONSTANTS E1, E2, E3, Default, DefaultSync

MCStopOrder == <<Default, DefaultSync>>
OneStream   == <<Default>>

CallOf(n, op, by, e, s) == [id |-> n, op |-> op, by |-> by, to |-> <<e, s>>]

\* An environment is stopped while its thread and others send to it; what
\* stops the other one is a callback.
ThreadsCall == {
    CallOf(1, "Stop", App, E1, Default),
    CallOf(2, "Stop", <<E1, DefaultSync>>, E2, Default),
    CallOf(3, "Send", <<E2, Default>>, E1, DefaultSync),
    CallOf(4, "Send", App, E1, DefaultSync),
    CallOf(5, "Send", IO, E1, Default)}
ThreadsFaulty == {<<E1, DefaultSync>>, E1, E2}

\* An environment is stopped by the application and by remote_on_disconnect
\* while a send is under way, and each from a callback of the other.
ReturnCall == {
    CallOf(1, "Stop", App, E1, Default),
    CallOf(2, "Stop", IO, E1, Default),
    CallOf(3, "Send", App, E1, DefaultSync),
    CallOf(4, "Stop", <<E1, DefaultSync>>, E2, Default),
    CallOf(5, "Stop", <<E2, Default>>, E1, Default)}
ReturnFaulty == {E1}

\* Two callbacks stop the environment of a third, which stops one of theirs;
\* the threads send to each other as well.
CallbacksCall == {
    CallOf(1, "Stop", <<E1, Default>>, E2, Default),
    CallOf(2, "Stop", <<E3, Default>>, E2, Default),
    CallOf(3, "Stop", <<E2, Default>>, E3, Default),
    CallOf(4, "Send", <<E3, Default>>, E1, Default),
    CallOf(5, "Send", IO, E2, Default)}
CallbacksFaulty == {E1, <<E2, Default>>}
=============================================================================
