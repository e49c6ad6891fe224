SPECIFICATION Spec
CONSTANTS
    HoldTime = 2
    MaxNow = 5
    MaxStray = 1
INVARIANTS
    TypeOK
    HardwareLock
    MicNeedsFinger
    HijackInSync
PROPERTIES
    MicStartNeedsHold
    PhantomTapNeedsLongPress
