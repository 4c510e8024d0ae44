SPECIFICATION Spec
CONSTANTS
    Pids = {1, 2}
    Policies = {"p1"}
    Profiles = {"f1"}
    MaxFaults = 0
    MaxCrashes = 1
INVARIANTS
    StopLeavesNothing
