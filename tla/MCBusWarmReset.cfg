SPECIFICATION McSpec
CONSTANTS
    lo = lo
    hi = hi
    Addr = {0}
    Lane = {lo, hi}
    Value = {0, 1}
    DataRequests <- McRequests
    PartialCredit = 1
    WarmRstLen = 3
    MaxResets = 1
    SlowSlot = TRUE
    Pc <- McPc
    NextPc <- McNextPc
    BootPc = 1
    ExcVector = 0
    IrqVector = 1
    ZeroPc = 0
    Mem = {0, 1}
    Wrap = 3
    Saved <- McSaved
    Frame = 2
    Instruction <- McInstruction
INVARIANT
    TakesOwn
