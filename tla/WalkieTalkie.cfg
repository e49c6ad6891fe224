SPECIFICATION WSpec
CONSTANTS
    HoldTime = 1
    MaxNow = 3
    MaxStray = 1
    MaxActivities = 2
    MaxServices = 1
    MaxSessions = 2
    MaxQueue = 1
    MaxBroadcasts = 2
INVARIANTS
    HotMicIsKnown
PROPERTIES
    LettingGoCutsTheMic
