\* A control start races the autostart of the same stream.
SPECIFICATION Spec
CONSTANTS
    term = term
    web = web
    ct = ct
    cw = cw
    cw2 = cw2
    i1 = i1
    i2 = i2
    i3 = i3
    None = None
    Apps <- MCApps
    Configs <- OneEach
    AppOf <- MCAppOf
    Chrome <- Nothing
    Autostart <- Terminal
    Registry0 <- Nothing
    Inst <- Slots2
    MaxStarts = 1
    MaxStops = 0
    MaxDeaths = 0
    MaxCrashes = 0
PROPERTIES DuplicateGuard
