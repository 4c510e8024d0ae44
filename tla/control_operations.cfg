SPECIFICATION FairSpec
CONSTANTS
    Workers = {w1, w2}
    Ids = {1, 2}
    Overlaps = {{"start", "stop"}, {"reload", "stop"}, {"start", "post"}}
    MaxFaults = 1
INVARIANTS
    TypeOK
    OncePerKey
    RouterIsRemembered
    StoppedIsNotActive
PROPERTIES
    TakeoverIsConfirmed
    OperationsEnd
