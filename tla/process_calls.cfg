CONSTANTS
    E1 = E1
    E2 = E2
    LogPath = LogPath
    Unset = Unset
    Moved = Moved
    Env = {E1, E2}
    Switch = {LogPath}
    Invited = TRUE
    MaxInits = 2
    MaxStarts = 2
    MaxDepartures = 1
SPECIFICATION FairSpec
CHECK_DEADLOCK FALSE
INVARIANT TypeOK BookIsSafe SwitchesReachChild StoppedIsQuiet
PROPERTY LaunchAnswered
