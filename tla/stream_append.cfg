CONSTANTS
    Host = Host
    Child = Child
    Default = Default
    DefaultSync = DefaultSync
    Append1 = Append1
    NoPipe = NoPipe
    None = None
    AppendStreams <- MCAppendStreams
    Req <- AppendReq
    ReadCallback <- AllCallbacks
    Faults <- AllFaults
SPECIFICATION Spec
CHECK_DEADLOCK FALSE
INVARIANT NoGap NoSilentLoss OnlyCrossedPullsDeadlock
