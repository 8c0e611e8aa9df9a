CONSTANTS
    CPUs = {0, 1}
    Modes = {"idle", "user"}
    Scrapes = {s1, s2}
    JumpBack = 2
    MaxJitter = 1
    Machines <- AllMachines
SYMMETRY ScrapesAreAlike
SPECIFICATION Spec
INVARIANT TypeOK CacheHasMergedCPUs CacheCoversReading
PROPERTY BackOnlyByJump
