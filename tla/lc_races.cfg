\* Two connections, the bridge and the monitor race on one jail.
SPECIFICATION Spec
CONSTANTS
    a = a
    b = b
    p1 = p1
    p2 = p2
    c1 = c1
    c2 = c2
    None = None
    Jails <- OneJail
    Pids <- TwoSlots
    Conns <- TwoConns
    Flaky <- Nothing
    Prio0 <- NoPrios
    Prios <- BothPrios
    FreePcts <- AllLevels
    Aggressive = TRUE
    MaxCmds = 3
    MaxWrites = 1
    MaxStarts = 1
    MaxRestarts = 0
SYMMETRY ConnSlotSymmetry
INVARIANTS DeadIsGone HibernatedHasSnapshot
PROPERTIES RollbackOffline
