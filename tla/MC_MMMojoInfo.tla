--------------------------- MODULE MC_MMMojoInfo ---------------------------
(***************************************************************************)
(* Instances of MMMojoInfo: the messages that arrive and the write infos   *)
(* the application creates.                                                *)
(***************************************************************************)
EXTENDS MMMojoInfo

CONSTANTS Append1, Append2

MCAppendStreams == {Append1}
MCMissing       == {Append2}

Arriving(n, method, sync, from) ==
    [id |-> n, method |-> method, sync |-> sync, stream |-> from]
Write(n, method, sync, pipe) ==
    [id |-> n, method |-> method, sync |-> sync, pipe |-> pipe]

\* Two pulls, a reply that fits the one, one that fits neither, and a message
\* for a stream that does not exist.
ReplyMessage == {
    Arriving(1, "kMMPullReq", TRUE,  Append1),
    Arriving(2, "kMMPullReq", FALSE, Append1)}
ReplyWrite == {
    Write(1, "kMMPullResp", TRUE,  Append1),
    Write(2, "kMMPullResp", FALSE, NoPipe),
    Write(3, "kMMPush",     FALSE, Append2)}
ReplyFaulty == {Append1}
NoneFaulty == {}

\* Shared memory, passed on by the fitting write info or by another one.
PointerMessage == {Arriving(1, "kMMShared", FALSE, Default)}
PointerWrite == {
    Write(1, "kMMShared", TRUE,  NoPipe),
    Write(2, "kMMPush",   FALSE, Append1)}
=============================================================================
