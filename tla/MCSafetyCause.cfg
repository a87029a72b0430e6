SPECIFICATION McSpec
CONSTANTS
    wd = wd
    f = f
    Internal = {cfg}
    External = {e}
    CfgFault = cfg
    Sources = {}
    SelfTests = {}
    Masks <- McMasks
    Ctrls <- McLevelPin
    PinDivs = {0, 1}
    ResetDiv = 1
    DivParity <- McParity
    MaxUpsets = 1
    Stages = 2
    WarmRstLen = 2
    Max = 5
    Periods = {5}
PROPERTY CauseVisible
