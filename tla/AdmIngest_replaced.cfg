\* A file that a new session uses again.
SPECIFICATION Spec
CONSTANTS
    S1 = S1
    Services = {S1}
    First = S1
    Files = {1}
    MaxSize = 6
    RangeSize = 3
    MaxRanges = 1
    MaxFiles = 1
    MaxRebinds = 0
    MaxReplaced = 1
    MaxFaults = 0
CHECK_DEADLOCK FALSE
INVARIANT NothingPassed
