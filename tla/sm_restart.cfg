\* The daemon dies and restores the streams from the registry; two browser configs.
SPECIFICATION Spec
CONSTANTS
    term = term
    web = web
    ct = ct
    cw = cw
    cw2 = cw2
    i1 = i1
    i2 = i2
    i3 = i3
    None = None
    Apps <- MCApps
    Configs <- TwoWeb
    AppOf <- TwoWebAppOf
    Chrome <- Browsers
    Autostart <- Nothing
    Registry0 <- OneEach
    Inst <- Slots3
    MaxStarts = 1
    MaxStops = 1
    MaxDeaths = 0
    MaxCrashes = 1
SYMMETRY SlotSymmetry3
INVARIANTS SoleOwner RegistryUnique
