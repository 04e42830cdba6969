SPECIFICATION Spec
CONSTANTS
    Budget = 12
    Escapes <- MCEscapes
    Ipas <- MCIpas
    Trimmed <- MCTrimmed
    HostVars <- MCHostVars
    MaxRuns = 2
INVARIANTS TempDirs InfoFaithful NetworkAsGranted DescriptorUsable ViableHonest SelfContained
CHECK_DEADLOCK FALSE
