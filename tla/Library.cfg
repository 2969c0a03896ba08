SPECIFICATION LibrarySpec
CONSTANTS
    \* TaskScheduler
    Tasks = {t1, t2}
    Groups = {g1}
    Durations = {1, 2}
    MaxTime = 2
    MaxEnd = 3
    MaxAsync = 2
    None = None
    \* MPSCQueue
    Elements = {e1, e2, e3}
    Dummy = Dummy
    Null = Null
    \* Config
    OptionNames = {"Discord.Bot.Token", "Logger.root", "Old.Option"}
    LoggingOptions = {"Logger.root"}
    OptionValues = {"1", "x"}
    Unusable = {"x"}
    Default = Default
    Comment = Comment
    Missing = Missing
    Disks <- MCDisks
    \* Logging
    LoggerNames = {"root", "server", "server.loading"}
    Parent <- MCParent
    ChannelNames = {"Console", "Server"}
    Callers = {"t1", "t2"}
    Messages = {"m1", "m2", "m3"}
    Filter <- MCFilter
    LevelOf <- MCLevelOf
    LogConfigs <- MCLogConfigs
    \* LogPattern
    Characters = {"%", "[", "]", "v", "2"}
    DigitValue <- MCDigitValue
    Patterns <- MCPatterns
    Sources <- MCSources
    \* FileChannel
    FileNames = {"Server.log", "World2.log"}
    WithDigits = {"World2.log"}
    OtherFile <- MCOtherFile
    MaxCount = 2
    PurgeAge = 3
    MaxDay = 5
    \* Field
    FieldValues <- MCFieldValues
    FieldColumns = {"TINY", "YEAR", "LONG", "LONGLONG", "FLOAT", "DOUBLE", "NEWDECIMAL", "VAR_STRING"}
    ByteValues = 4
    NoData = NoData
    \* PreparedResult
    ResultColumns <- MCResultColumns
    MaxRows = 3
    MaxQueries = 2
    \* Binding
    ParamCount = 2
    Numbers = {0, 1}
    Texts = {a}
    MaxRetries = 1
    \* QueryHolder
    HolderIndexes = {1, 2}
    HolderRows = 2
    \* ChildProcess
    Scripts <- MCScripts
    PipeSize = 2
    \* ProgressBar
    BarSize = 4
    MaxProgress = 2
    \* Signals
    Starts <- MCStarts
    \* TextUtil
    TextSamples <- MCTexts
    Separator = ","
    Digits <- MCDigits
    TypeSize = 6
    HexBase = 2
    ByteSamples <- MCByteSamples
    Radix <- MCRadix
    DurationSamples <- MCDurations
    \* Containers
    ContainerSamples <- MCContainers
    SortedSamples <- MCSorted
    \* SRP6
    N = 23
    g = 5
    Secrets = {1, 2, 9, 13, 20}
    PasswordHash <- MCPasswordHash
    Scramblers = {0, 1, 3, 8}
    KeyBase = 3
    KeyLength = 4
INVARIANTS
    LibraryInv
    InOrderOfExchange
    Precedence
    NothingSuppressed
    SameOrder
    
    RowsAsSent
    AllSentAsSet
    ResultsOfAll
    AllLogged
    FunctionsAgree
PROPERTIES
    AllDueRan
    
    SignalEnds
    CallsReturn
CHECK_DEADLOCK FALSE
