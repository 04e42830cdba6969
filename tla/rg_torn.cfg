\* Two calls overlap.
SPECIFICATION Spec
CONSTANTS
    term = term
    web = web
    ct = ct
    cw = cw
    cw2 = cw2
    w1 = w1
    w2 = w2
    n1 = n1
    n2 = n2
    n3 = n3
    None = None
    Apps <- MCApps
    Configs <- MCConfigs
    AppOf <- MCAppOf
    Writers <- TwoWriters
    Inodes <- MCInodes
    MaxCalls = 3
    MaxFailures = 0
INVARIANTS NeverTorn
CHECK_DEADLOCK FALSE
