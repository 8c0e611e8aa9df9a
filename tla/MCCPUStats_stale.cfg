CONSTANTS
    CPUs = {0, 1}
    Modes = {"idle", "user"}
    Scrapes = {s1, s2}
    JumpBack = 2
    MaxJitter = 0
    Machines <- OneMachine
SPECIFICATION Spec
PROPERTY ResetOnlyByHotplug
