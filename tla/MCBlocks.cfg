SPECIFICATION McSpec
CONSTANTS
    Max = 3
    Depth = 3
    AutoStart = TRUE
    NumSrc = 2
    Base = 3
    PrescBase = 2
    TimeWrites = {0, 1, 2}
    Order = "guarded"
    NumCh = 2
    Periods = {0}
    Timeouts = {0, 1}
    HbDiv = 2
    MaxCount = 3
    Mins = {1}
    Maxs = {2}
    Rates <- McRates
    Good <- McGood
    MaxDrifts = 1
    Delay = 2
    State = {0, 1, 2}
    Reset = 0
    Input = {0, 1}
    ZeroInput = 0
    StepTo <- McStep
    Out <- McOut
    ZeroOut = 0
    MaxUpsets = 1
    WordBytes = 2
    RetryMax = 1
    ItcmBase = 0
    ItcmBytes = 4
    DtcmBase = 8
    DtcmBytes = 4
    Arguments <- McArguments
    Misread = {"magic", "flags", "d0", "l0", "d1", "l1", "crc"}
    Values = {0, 1, 2, 4, 8, 10}
    MaxGlitches = 2
INVARIANTS
    NeverQuietForLong
    VerdictRight
    EdgeKept
    NoSpuriousTimer
    ResultOwn
    MismatchExact
    DeliversPayload
PROPERTIES
    WindowKept
    TimeMoves
    BadClockReported
    BootEnds
CHECK_DEADLOCK FALSE
