CONSTANTS
    Host = Host
    Child = Child
    Default = Default
    DefaultSync = DefaultSync
    Append1 = Append1
    NoPipe = NoPipe
    None = None
    AppendStreams <- MCAppendStreams
    Req <- CallbackReq
    ReadCallback <- AllCallbacks
    Faults <- NoFaults
SPECIFICATION FairSpec
CHECK_DEADLOCK FALSE
PROPERTY Delivered PullAnswered
