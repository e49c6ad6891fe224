SPECIFICATION NFairSpec
CONSTANTS
    Injectors = {i1, i2}
    Generators = {g1}
    Full = 2
    Threshold = 1
    Cap = 1
    MaxFiles = 2
    MaxCores = 2
INVARIANTS
    InRamIsOnDisk
    ContextsAreFreed
PROPERTIES
    GenerationEnds
