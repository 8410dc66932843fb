SPECIFICATION LiveSpec
CONSTANTS
    Parts = {"store", "segments", "drain", "join", "registry", "pull", "push", "swap", "requests",
             "fan", "linear", "streams", "calls", "nats", "mongo", "kafka", "unordered", "queue", "buffer"}
INVARIANTS
    PartsTyped L2Retains
PROPERTIES
    CallsReturn PlansCarriedOut EverythingArrives PressureEnds
CHECK_DEADLOCK FALSE
