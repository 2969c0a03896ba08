SPECIFICATION MCSpec
CONSTANTS
    botPool = botPool
    otherPool = otherPool
    NoTree = NoTree
    MaxStarts = 3
    Names = {1, 2, 3}
    Hashes = {1, 2}
    Empty = 0
    BaseFiles = {"guild_players", "updates", "updates_include"}
    Players = {"guild_players"}
    Pools <- MCPools
    Enabled = {botPool}
    AutoSetup = TRUE
    Attempts = 1
    Trees <- MCTrees
    OptionSets <- MCOptions
    Histories <- MCHistories
INVARIANTS
    StartTypeOK
    RecordedMeansApplied
    UpToDate
    FailureCloses
    RunningIsReady
PROPERTIES
    NothingTwice
    Decides
CHECK_DEADLOCK FALSE
