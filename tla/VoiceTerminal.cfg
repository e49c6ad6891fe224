SPECIFICATION VSpec
CONSTANTS
    MaxActivities = 2
    MaxServices = 2
    MaxSessions = 3
    MaxQueue = 2
INVARIANTS
    EveryRecorderCanBeStopped
    RecordingIsShown
    ListeningIsReal
