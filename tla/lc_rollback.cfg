\* A process starts between the count of a RESTORE and its rollback.
SPECIFICATION Spec
CONSTANTS
    a = a
    b = b
    p1 = p1
    p2 = p2
    c1 = c1
    c2 = c2
    None = None
    Jails <- OneJail
    Pids <- OneSlot
    Conns <- OneConn
    Flaky <- Nothing
    Prio0 <- NoPrios
    Prios <- NoPrioCmds
    FreePcts <- OnlyNormal
    Aggressive = FALSE
    MaxCmds = 2
    MaxWrites = 1
    MaxStarts = 2
    MaxRestarts = 0
PROPERTIES RollbackOnlyKilled
