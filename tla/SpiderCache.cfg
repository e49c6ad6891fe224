SPECIFICATION SSpec
CONSTANTS
    Labels = {send, echo}
    Clickable = {send}
    OwnLines = {echo}
    Places = {p1, p2}
    Targets = {{send}, {send, echo}, {echo}}
    Crawls = {c1, c2}
    MaxEvents = 2
INVARIANTS
    QuietCacheIsScreen
    NothingSteadyIsMissed
