SPECIFICATION SuiteSpec
CONSTANTS
    c1 = c1
    c2 = c2
    d1 = d1
    d2 = d2
    d3 = d3
    Overlapping = FALSE
    Parts = {"swaps", "faults", "serial", "upgrades", "canaries", "requests", "graph", "fan", "routed", "linear", "guest"}
INVARIANTS
    Converged TasksOwned RunsDeliver GuestReadsEvent
PROPERTIES
    SwapsLoseNothing
SYMMETRY Symmetry
CHECK_DEADLOCK FALSE
