CONSTANTS
    Host = Host
    Child = Child
    Default = Default
    DefaultSync = DefaultSync
    Append1 = Append1
    NoPipe = NoPipe
    None = None
    AppendStreams <- MCAppendStreams
    Req <- DefaultReq
    ReadCallback <- SomeCallbacks
    Faults <- AllFaults
SPECIFICATION Spec
CHECK_DEADLOCK FALSE
INVARIANT TypeOK SyncResultTruthful NoOrphanWait
