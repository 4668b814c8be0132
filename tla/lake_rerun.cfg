SPECIFICATION Spec
CONSTANTS
    Writers = {w1}
    Jobs = {j1, j2}
    Fetches = {f1, f2, f3}
    Days = {1}
    MaxTries = 2
    None = None
SYMMETRY Symmetry
INVARIANTS
    RerunIsIdempotent
CHECK_DEADLOCK FALSE
