\* One client, 54 working directories, any number of restarts.
SPECIFICATION FairSpec
CONSTANTS
    Directory <- Directories
    Client = {c1}
INVARIANTS
    TypeOK
    ServesMigrated
    PathFound
    EndsForReason
PROPERTIES
    StopsOnSignal
    StartsOrStops
