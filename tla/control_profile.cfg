SPECIFICATION Spec
CONSTANTS
    Workers = {w1, w2}
    Ids = {1, 2}
    Overlaps = {}
    MaxFaults = 1
INVARIANTS
    RunningIsActive
