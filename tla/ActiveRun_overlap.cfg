\* Two commands race and may be killed; any run may be resumed.
SPECIFICATION Spec
CONSTANTS
    p1 = p1
    p2 = p2
    r1 = r1
    r2 = r2
    NoOne = NoOne
    Procs = {p1, p2}
    Runs = {r1, r2}
    MaxFreezes = 2
    HardKills = TRUE
SYMMETRY RunSymmetry
INVARIANTS UnkilledRunServes
CHECK_DEADLOCK FALSE
