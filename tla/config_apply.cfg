SPECIFICATION Spec
CONSTANTS
    Workers = {w1, w2}
    Overlaps = {{"profile", "policy"}}
    Profiles = {p1}
    Networks = {n1, n2}
    UpstreamProxy = FALSE
    MaxFaults = 1
    MaxCrashes = 1
INVARIANTS
    TypeOK
    SavedConfigStarts
    RunsConfiguredNetwork
PROPERTIES
    NoLostUpdate
    RefusedChangesNothing
    PreservedIsThere
