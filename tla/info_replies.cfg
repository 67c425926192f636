CONSTANTS
    Append1 = Append1
    Append2 = Append2
    Default = Default
    DefaultSync = DefaultSync
    NoPipe = NoPipe
    None = None
    Unset = Unset
    Moved = Moved
    MaxGets = 0
    MaxTakes = 2
    MaxGives = 0
    AppendStreams <- MCAppendStreams
    Missing <- MCMissing
    Message <- ReplyMessage
    WriteInfo <- ReplyWrite
    Faulty <- ReplyFaulty
    Stops = TRUE
SPECIFICATION Spec
CHECK_DEADLOCK FALSE
INVARIANT TypeOK AnsweredByTheBook BreaksAreDeserved AbortsAreDeserved
