SPECIFICATION Spec
CONSTANTS
    Base = 3
    PrescBase = 2
    TimeWrites = {}
    Order = "highFirst"
INVARIANT NoSpuriousTimer
