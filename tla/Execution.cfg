\* PluginMemory: three jobs of one plugin.
\* RetryTime: two rows; digits of base 2, so that a second has four fractions
\* and its texts have every form; three attempts and time for their delays.
\* Executor: an output of up to twice the limit, both kinds of descendants.
CONSTANTS
    Jobs = {1, 2, 3}
    Plugins <- MCPlugins
    MaxAttempts = 2
    MaxCrashes = 1
    Rows = {1, 2}
    Ten = 2
    BackoffBase = 4
    MaxTries = 3
    Horizon = 13
    Reply = 2
    Limit = 2
    MaxWritten = 4
    Kinds = {"group", "away"}
    Relays = {"r"}
    DedupeKey <- NoKeys
    EventID <- EventIDs
    Links <- MCLinks
    Skew = 1
SPECIFICATION MCSpec
CHECK_DEADLOCK FALSE
INVARIANTS ResultKept RelaySound MemorySound
PROPERTIES ClaimedInTime Ends
