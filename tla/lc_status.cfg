\* A connection, the bridge and the monitor on a healthy and a flaky jail.
SPECIFICATION Spec
CONSTANTS
    a = a
    b = b
    p1 = p1
    p2 = p2
    c1 = c1
    c2 = c2
    None = None
    Jails <- TwoJails
    Pids <- OneSlot
    Conns <- OneConn
    Flaky <- FlakyB
    Prio0 <- OnlyA
    Prios <- NoPrioCmds
    FreePcts <- AllLevels
    Aggressive = TRUE
    MaxCmds = 2
    MaxWrites = 1
    MaxStarts = 1
    MaxRestarts = 1
INVARIANTS TypeOK StatusTruthful
