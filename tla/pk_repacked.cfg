SPECIFICATION Spec
CONSTANTS
    v1 = v1
    v2 = v2
    w1 = w1
    f1 = f1
    f2 = f2
    f3 = f3
    p1 = p1
    p2 = p2
    org = org
    wid = wid
    NoRel = NoRel
    Bad = Bad
    Procs = {p1, p2}
    Releases = {v1, v2, w1}
    DocOf <- MCDocOf
    FilesOf <- MCFilesOf
    MaxOps = 3
    MaxEvents = 2
INVARIANTS PayloadAsBuilt
SYMMETRY Symm
CHECK_DEADLOCK FALSE
