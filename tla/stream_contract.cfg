CONSTANTS
    Host = Host
    Child = Child
    Default = Default
    DefaultSync = DefaultSync
    Append1 = Append1
    NoPipe = NoPipe
    None = None
    AppendStreams <- MCAppendStreams
    Req <- ContractReq
    ReadCallback <- NoPushAtChild
    Faults <- AllFaults
SPECIFICATION Spec
CHECK_DEADLOCK FALSE
INVARIANT AtMostOnce
PROPERTY QuietAfterDisconnect KeepsContract
