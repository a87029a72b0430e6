SPECIFICATION McSpec
CONSTANTS
    Files <- AllFiles
    Scripts <- AllScripts
    MaxKills = 1
    Lists <- McLists
    BootTargets <- McBootTargets
    During = 1
    After = 1
    Jobs = {1, 2}
    Verdict <- McVerdict
    BootVerdict <- McBootVerdict
    MaxOverruns = 1
    Ports <- McPorts
    PortEdits <- McPortEdits
    ParamWidth = 2
    FirstPinout <- McPinout
    Spare <- McSpare
    Tied = {"boot_addr_i"}
    Open = {"ext_psel_o"}
    QioBits = 2
    NSig = 7
    NPwr = 2
    PadW = 80
    CornerW = 180
    EdgeSpacing = 140
    Width <- McWidth
    MaxEdits = 2
    Geometry <- McGeometry
    Pattern <- McPattern
    MaxWords = 1
    MaxPad = 2
    MaxHits = 2
    Seeds = 2
    Count = 2
    Loops = {1, 2}
    Ahead = 2
    Slack = 3
    MaxRetired = 9
    MaxList = 4
    MaxSpimm = 2
    MaxMoved = 2
    Defects <- McDefects
    MaxRows = 3
    Names <- McNames
    Elements <- McElements
    TotalFf = 3
    MaxLines = 7
INVARIANTS
    OneMutantAtATime
    AllKilledIsTrue
    ReportIsSequential
    DecodesRight
    RegressExact
    ChecksAreExact
    ShippedIsGenerated
PROPERTIES
    ChipIsWired
    ProgramEnds
CHECK_DEADLOCK FALSE
