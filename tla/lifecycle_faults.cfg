SPECIFICATION Spec
CONSTANTS
    Pids = {1, 2, 3}
    Policies = {"p1", "p2"}
    Profiles = {"f1"}
    MaxFaults = 2
    MaxCrashes = 0
INVARIANTS
    NoResidueWhenStopped
    EverythingRecorded
    ArtifactsMatchState
