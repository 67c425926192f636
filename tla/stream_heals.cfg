CONSTANTS
    Host = Host
    Child = Child
    Default = Default
    DefaultSync = DefaultSync
    Append1 = Append1
    NoPipe = NoPipe
    None = None
    AppendStreams <- MCAppendStreams
    Req <- FewReq
    ReadCallback <- AllCallbacks
    Faults <- AllFaults
SPECIFICATION FairSpec
CHECK_DEADLOCK FALSE
PROPERTY BlockedReturns BrokenHeals StopReturns
