SPECIFICATION ConcurrentSpec
CONSTANTS
    Pids = {1, 2}
    Policies = {"p1"}
    Profiles = {}
    MaxFaults = 1
    MaxCrashes = 0
    Overlapping = {"restart", "stop"}
INVARIANTS
    OverlapKeepsForwarding
    QuietIsKnown
