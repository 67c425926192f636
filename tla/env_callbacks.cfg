CONSTANTS
    E1 = E1
    E2 = E2
    E3 = E3
    Default = Default
    DefaultSync = DefaultSync
    App = App
    IO = IO
    NoCall = NoCall
    Env = {E1, E2, E3}
    Loops = {}
    StopOrder <- OneStream
    Faulty <- CallbacksFaulty
    Call <- CallbacksCall
SPECIFICATION FairSpec
CHECK_DEADLOCK FALSE
PROPERTY CallbackStopReturns
