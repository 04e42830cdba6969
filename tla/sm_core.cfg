\* Autostart of the terminal, a control start and stop and one death, all racing.
SPECIFICATION FairSpec
CONSTANTS
    term = term
    web = web
    ct = ct
    cw = cw
    cw2 = cw2
    i1 = i1
    i2 = i2
    i3 = i3
    None = None
    Apps <- MCApps
    Configs <- OneEach
    AppOf <- MCAppOf
    Chrome <- Browser
    Autostart <- Terminal
    Registry0 <- Nothing
    Inst <- Slots2
    MaxStarts = 1
    MaxStops = 1
    MaxDeaths = 1
    MaxCrashes = 0
INVARIANTS TypeOK SoleOwner OpContext
PROPERTIES NoSilentLeak OnlyOwnerKills OpsFinish MainReady DeadNoticed
