SPECIFICATION SuiteSpec
CONSTANTS
    n1 = n1
    n2 = n2
    MaxIndex = 3
    MaxTerm = 2
    PurgeAll = TRUE
INVARIANTS
    CopiedWhole PlansLevel MembersServe RegistryConverges
PROPERTIES
    CommittedKept Implements TransferHonoured
SYMMETRY Symmetry
