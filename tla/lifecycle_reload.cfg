SPECIFICATION Spec
CONSTANTS
    Pids = {1, 2}
    Policies = {"p1", "p2"}
    Profiles = {"f1"}
    MaxFaults = 0
    MaxCrashes = 0
INVARIANTS
    ReloadAppliesValidated
