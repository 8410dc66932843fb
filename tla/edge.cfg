SPECIFICATION SuiteSpec
CONSTANTS
    c1 = c1
    c2 = c2
    d1 = d1
    d2 = d2
    d3 = d3
    Overlapping = FALSE
    Parts = {"websocket", "again", "nats", "rabbit", "redis", "postgres", "mongo", "each", "transaction", "ordered", "unordered", "buffer"}
INVARIANTS
    CallersServed LossBounded ReportedIsThere SpillCovered
SYMMETRY Symmetry
CHECK_DEADLOCK FALSE
