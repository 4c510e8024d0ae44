SPECIFICATION Spec
CONSTANTS
    Workers = {w1, w2}
    Ids = {1, 2}
    Overlaps = {{"start", "post"}}
    MaxFaults = 0
INVARIANTS
    ConfirmationIsTheOperators
