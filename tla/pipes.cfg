CONSTANTS
    Host = Host
    Child = Child
    MaxPipes = 2
    NoEnds = NoEnds
SPECIFICATION Spec
CHECK_DEADLOCK FALSE
INVARIANT TypeOK Paired AppendJoinedFromEnd NoSharedEnd ConnectLast
