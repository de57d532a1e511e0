\* One request that runs when the signal comes.
SPECIFICATION FairSpec
CONSTANTS
    Directory <- Directories
    Client = {c1}
PROPERTIES
    GracefulShutdown
