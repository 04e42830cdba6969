\* Lasting OOM pressure with guard commands and priority changes.
SPECIFICATION FairSpec
CONSTANTS
    a = a
    b = b
    p1 = p1
    p2 = p2
    c1 = c1
    c2 = c2
    None = None
    Jails <- TwoJails
    Pids <- OneSlot
    Conns <- Nothing
    Flaky <- Nothing
    Prio0 <- Listed
    Prios <- BothPrios
    FreePcts <- OnlyOom
    Aggressive = TRUE
    MaxCmds = 2
    MaxWrites = 0
    MaxStarts = 1
    MaxRestarts = 0
PROPERTIES OomClears GuardReturns
