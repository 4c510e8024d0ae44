SPECIFICATION ConcurrentSpec
CONSTANTS
    Pids = {1, 2}
    Policies = {"p1"}
    Profiles = {}
    MaxFaults = 0
    MaxCrashes = 0
    Overlapping = {"start", "stop"}
INVARIANTS
    QuietStoppedIsClean
