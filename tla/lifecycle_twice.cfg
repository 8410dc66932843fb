SPECIFICATION SuiteSpec
CONSTANTS
    c1 = c1
    c2 = c2
    d1 = d1
    d2 = d2
    d3 = d3
    Overlapping = TRUE
    Parts = {"requests"}
INVARIANTS
    NoOrphan
CHECK_DEADLOCK FALSE
