CONSTANTS
    Append1 = Append1
    Append2 = Append2
    Default = Default
    DefaultSync = DefaultSync
    NoPipe = NoPipe
    None = None
    Unset = Unset
    Moved = Moved
    MaxGets = 2
    MaxTakes = 0
    MaxGives = 2
    AppendStreams <- MCAppendStreams
    Missing <- MCMissing
    Message <- PointerMessage
    WriteInfo <- PointerWrite
    Faulty <- NoneFaulty
    Stops = TRUE
SPECIFICATION Spec
CHECK_DEADLOCK FALSE
INVARIANT PointersLive BreaksAreDeserved AbortsAreDeserved
