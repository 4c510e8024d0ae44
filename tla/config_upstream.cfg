SPECIFICATION Spec
CONSTANTS
    Workers = {w1}
    Overlaps = {}
    Profiles = {p1}
    Networks = {n1, n2}
    UpstreamProxy = TRUE
    MaxFaults = 0
    MaxCrashes = 0
INVARIANT SavedConfigStarts
