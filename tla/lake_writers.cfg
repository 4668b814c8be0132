SPECIFICATION Spec
CONSTANTS
    Writers = {w1, w2}
    Jobs = {j1}
    Fetches = {f1, f2}
    Days = {1, 2}
    MaxTries = 1
    None = None
SYMMETRY Symmetry
INVARIANTS
    ActiveFilesExist
    QuarantinedNeverActive
CHECK_DEADLOCK FALSE
