SPECIFICATION Spec
CONSTANTS
    w1 = w1
    w2 = w2
    None = None
    Worker = {w1, w2}
    Document <- Documents
    Registration <- Registrations
    Settings <- OneOrTwo
    Uri <- AllUris
    CacheTimeout = 1
    LongestFetch = 1
    LockTimeout = 1
    MaxEdits = 1
    MaxCrashes = 1
INVARIANTS UsedIsRecent SentHome
PROPERTIES Refreshed
