CONSTANTS
    Malformed = Malformed
    Mounts <- MCMounts
    ExcludedPoints = {}
    ExcludedTypes = {"proc"}
    Failing = {"/nfs"}
    Slow = {"/nfs"}
    Scrapes = {s1, s2}
    MaxLines = 2
    ProcFiles <- MCProcFiles
SPECIFICATION FairSpec
INVARIANT TypeOK StuckHasCaller EveryMountReported
PROPERTY StuckRecovers HungCallMarks HealthyWalkEnds
