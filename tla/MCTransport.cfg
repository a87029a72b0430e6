SPECIFICATION McSpec
CONSTANTS
    Pc <- McPc
    NextPc <- McNextPc
    BootPc = 1
    ZeroPc = 0
    ZeroWord = zero
    Garbage = {zero}
    DenySets <- McDenySets
    Width = 2
    IdCode <- McIdCode
    Returned <- McReturned
    Stages = 2
    Request = {0, 1, 2}
    ZeroRequest = 0
    Sample = {"window", "later"}
    Resets = {"tck", "clk"}
    DebugWidth = 1
    DebugIdCode <- McDebugIdCode
    Window <- McWindow
INVARIANTS
    RoomToLand
    TapExact
PROPERTIES
    StreamSpec
    InstrSpec
    KeepsGoing
    CrossingSound
    DebugIsRemote
