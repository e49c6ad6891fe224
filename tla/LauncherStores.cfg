SPECIFICATION LSpec
CONSTANTS
    Names = {"wifi", "chat"}
    Routes <- MCRoutes
    SeedRoutes <- MCSeedRoutes
    Packages = {"messenger"}
    Archives <- MCArchives
    Injections = {1, 2}
INVARIANTS
    LTypeOK
    VaultMatchesFile
    LockedRouteIsTried
    GoodModelRearms
