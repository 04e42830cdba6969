\* Two jails under lasting CRITICAL pressure.
SPECIFICATION FairSpec
CONSTANTS
    a = a
    b = b
    p1 = p1
    p2 = p2
    c1 = c1
    c2 = c2
    None = None
    Jails <- TwoJails
    Pids <- OneSlot
    Conns <- OneConn
    Flaky <- Nothing
    Prio0 <- Ranked
    Prios <- NoPrioCmds
    FreePcts <- OnlyCritical
    Aggressive = FALSE
    MaxCmds = 2
    MaxWrites = 0
    MaxStarts = 0
    MaxRestarts = 0
PROPERTIES CriticalFreesRam
