SPECIFICATION Spec
CONSTANTS
    Budget = 12
    Escapes <- MCEscapes
    Ipas <- MCIpas
    Trimmed <- MCTrimmed
    HostVars <- MCHostVars
    MaxRuns = 1
INVARIANTS NestingOnly
CHECK_DEADLOCK FALSE
