SPECIFICATION Spec
CONSTANTS
    NumCh = 2
    Periods = {0}
    Timeouts = {0, 1}
INVARIANT RangeKept
