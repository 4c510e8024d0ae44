SPECIFICATION FairSpec
CONSTANTS
    Pids = {1, 2}
    Policies = {"p1"}
    Profiles = {}
    MaxFaults = 1
    MaxCrashes = 1
INVARIANTS
    ForwardingRecorded
PROPERTIES
    KeepsPromise
    OperationsReturn
    CleanupIsNoTrap
