-------------------------- MODULE MC_MMMojoStream --------------------------
(***************************************************************************)
(* Instances of MMMojoStream: the requests each run lets the applications  *)
(* send, and the read callbacks they have set.                             *)
(***************************************************************************)
EXTENDS MMMojoStream

CONSTANT Append1   \* an append stream

MCAppendStreams == {Append1}

Request(n, side, method, sync, pipe, response) ==
    [id |-> n, side |-> side, method |-> method, sync |-> sync,
     pipe |-> pipe, response_info |-> response]

AllCallbacks == [p \in Side |-> Method]

\* Each side lacks one of the callbacks the other one's requests need.
SomeCallbacks ==
    [p \in Side |-> IF p = Host THEN {"kMMPush", "kMMShared"}
                   ELSE {"kMMPullReq", "kMMShared"}]

\* The default streams: the one for asynchronous requests and the one for
\* synchronous ones, both ways.
DefaultReq == {
    Request(1, Host,  "kMMPush",    TRUE,  NoPipe, FALSE),
    Request(2, Host,  "kMMPullReq", TRUE,  NoPipe, TRUE),
    Request(3, Child, "kMMPullReq", FALSE, NoPipe, FALSE)}

\* One append stream carries every kind of request, and two pulls cross on it.
AppendReq == {
    Request(1, Host,  "kMMPush",    FALSE, Append1, FALSE),
    Request(2, Host,  "kMMPullReq", TRUE,  Append1, TRUE),
    Request(3, Host,  "kMMShared",  FALSE, Append1, FALSE),
    Request(4, Child, "kMMPullReq", TRUE,  Append1, TRUE),
    Request(5, Child, "kMMShared",  TRUE,  Append1, FALSE)}

\* The liveness runs: with every fault, and more requests with none.
FewReq == {
    Request(1, Host,  "kMMPullReq", TRUE,  Append1, TRUE),
    Request(2, Child, "kMMPullReq", TRUE,  Append1, TRUE),
    Request(3, Child, "kMMPush",    TRUE,  Append1, FALSE)}

CallbackReq == {
    Request(1, Host,  "kMMPullReq", TRUE,  Append1, FALSE),
    Request(2, Host,  "kMMPush",    FALSE, Append1, FALSE),
    Request(3, Host,  "kMMPullReq", TRUE,  Append1, TRUE),
    Request(4, Child, "kMMPullReq", FALSE, Append1, FALSE),
    Request(5, Child, "kMMPullReq", TRUE,  Append1, TRUE)}

\* The contract: confirmed requests with and without a reader, pulls by
\* callback of either kind, and a push nobody waits for.
ContractReq == {
    Request(1, Host,  "kMMPush",    TRUE,  Append1, FALSE),
    Request(2, Host,  "kMMPullReq", TRUE,  Append1, TRUE),
    Request(3, Host,  "kMMPush",    FALSE, Append1, FALSE),
    Request(4, Child, "kMMPullReq", TRUE,  Append1, FALSE),
    Request(5, Child, "kMMPullReq", FALSE, Append1, FALSE)}

NoPushAtChild == [p \in Side |-> IF p = Host THEN Method ELSE Method \ {"kMMPush"}]

AllFaults == Fault
NoFaults  == {}
=============================================================================
