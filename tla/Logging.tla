------------------------------- MODULE Logging -------------------------------
(*************************************************************************)
(* Log, Logger and the channels: which of the configured channels and    *)
(* loggers exist, which messages pass the level checks, and how threads  *)
(* that log at once write to the channels of a logger.                   *)
(*                                                                       *)
(* The text of a message and its layout are left out; LogPattern has the *)
(* layout, FileChannel the rotation of the files.                        *)
(*************************************************************************)
EXTENDS Integers, Sequences, FiniteSets

CONSTANTS
    LoggerNames,        \* the filters that occur, "root" among them
    Parent,             \* a filter up to its last dot, "root" for one without a dot
    ChannelNames,
    Callers,            \* threads that log
    Messages,
    Filter,             \* of a message: the filter it is logged with
    LevelOf,            \* and its level
    LogConfigs          \* [channels |-> [subset of ChannelNames -> ChannelOptions],
                        \*  loggers |-> [subset of LoggerNames -> LoggerOptions]]

Disabled == 0
Fatal == 1
Debug == 6
MAX_LOG_LEVEL == 8
Levels == 0 .. MAX_LOG_LEVEL - 1
MIN_OPTIONS == 4
MAX_CONSOLE_OPTIONS == 4
MAX_CHANNEL_OPTIONS == 7
LOGGER_OPTIONS == 2

\* The comma separated options of a channel: how many, and whether one of them (the type,
\* the pattern, a colour, a flag) is not understood. Of a logger: how many, the level (a
\* number or not) and the channels.
ChannelOptions == [type : {"console", "file", "dynamic"}, size : Nat, level : Nat,
                   understood : BOOLEAN]
LoggerOptions == [size : Nat, level : Nat, channels : Seq(ChannelNames)]

ASSUME LoggingAssumption ==
    /\ "root" \in LoggerNames
    /\ Parent \in [LoggerNames -> LoggerNames]
    /\ Filter \in [Messages -> LoggerNames] /\ LevelOf \in [Messages -> Levels \ {Disabled}]
    /\ \A options \in LogConfigs :
          /\ DOMAIN options.channels \subseteq ChannelNames
          /\ \A c \in DOMAIN options.channels : options.channels[c] \in ChannelOptions
          /\ DOMAIN options.loggers \subseteq LoggerNames
          /\ \A l \in DOMAIN options.loggers : options.loggers[l] \in LoggerOptions
    /\ "free" \notin Callers

VARIABLES
    config,             \* the options of the logging system in ConfigMgr
    useDefaultLogs,     \* _isUseDefaultLogs
    highestLogLevel,
    loggers,            \* _loggers: level and channels by name
    channels,           \* _channels: level, type and state of the file by name
    mutex,              \* of each logger: the caller that holds it, or "free"
    call,               \* of each caller: the message it logs and how far it is
    said,               \* messages that were given to LOG_*
    out                 \* of each channel: the messages written to it

logVars == <<config, useDefaultLogs, highestLogLevel, loggers, channels, mutex, call, said, out>>

Idle == [at |-> -1]
Waits == 0              \* for the mutex of the logger; then the number of the channel

LogTypeOK ==
    /\ config \in LogConfigs
    /\ useDefaultLogs \in BOOLEAN /\ highestLogLevel \in Levels
    /\ DOMAIN loggers \subseteq LoggerNames /\ DOMAIN channels \subseteq ChannelNames
    /\ \A l \in DOMAIN loggers : /\ loggers[l].level \in Levels
                                 /\ \A i \in DOMAIN loggers[l].channels :
                                        loggers[l].channels[i] \in DOMAIN channels
    /\ \A c \in DOMAIN channels : /\ channels[c].level \in Levels
                                  /\ channels[c].file \in {"closed", "open", "failed"}
    /\ mutex \in [LoggerNames -> Callers \cup {"free"}]
    /\ DOMAIN call = Callers /\ said \subseteq Messages
    /\ DOMAIN out = ChannelNames

LogInit ==
    /\ config \in LogConfigs
    /\ useDefaultLogs = FALSE /\ highestLogLevel = Disabled
    /\ loggers = <<>> /\ channels = <<>>
    /\ mutex = [l \in LoggerNames |-> "free"] /\ call = [t \in Callers |-> Idle]
    /\ said = {} /\ out = [c \in ChannelNames |-> <<>>]

-------------------------------------------------------------------------------
CreateChannelsFromConfig(options) ==
    /\ options.size \in 3 .. MAX_CHANNEL_OPTIONS
    /\ options.level < MAX_LOG_LEVEL /\ options.understood
    /\ IF options.type = "console" THEN options.size <= MAX_CONSOLE_OPTIONS
                                   ELSE options.size >= MIN_OPTIONS

CreateLoggerFromConfig(options) ==
    options.size = LOGGER_OPTIONS /\ options.level < MAX_LOG_LEVEL

ReadChannelsFromConfig ==
    [c \in {c \in DOMAIN config.channels : CreateChannelsFromConfig(config.channels[c])} |->
        [level |-> config.channels[c].level, type |-> config.channels[c].type,
         file |-> "closed"]]

\* A channel a logger names and that does not exist is left out of the logger.
ReadLoggersFromConfig(existing) ==
    [l \in {l \in DOMAIN config.loggers : CreateLoggerFromConfig(config.loggers[l])} |->
        [level |-> config.loggers[l].level,
         channels |-> LET Exists(c) == c \in existing
                      IN  SelectSeq(config.loggers[l].channels, Exists)]]

\* The largest of Fatal and the levels of the loggers.
HighestOf(created) ==
    CHOOSE n \in Levels :
        /\ n = Fatal \/ \E l \in DOMAIN created : created[l].level = n
        /\ n >= Fatal /\ \A l \in DOMAIN created : created[l].level <= n

LoadFromConfig ==
    /\ channels' = ReadChannelsFromConfig
    /\ loggers' = ReadLoggersFromConfig(DOMAIN channels')
    /\ highestLogLevel' = HighestOf(loggers')

NobodyLogs == \A t \in Callers : call[t] = Idle

\* Called from main() before another thread runs.
Initialize ==
    /\ NobodyLogs /\ ~useDefaultLogs
    /\ LoadFromConfig
    /\ UNCHANGED <<config, useDefaultLogs, mutex, call, said, out>>

UsingDefaultLogs(value) ==
    /\ NobodyLogs
    /\ useDefaultLogs' = value
    /\ IF value
       THEN \E console \in ChannelNames :
                /\ channels' = [c \in {console} |->
                                    [level |-> Debug, type |-> "console", file |-> "closed"]]
                /\ loggers' = [l \in {"root"} |-> [level |-> Debug, channels |-> <<console>>]]
                /\ highestLogLevel' = Debug
       ELSE UNCHANGED <<channels, loggers, highestLogLevel>>
    /\ UNCHANGED <<config, mutex, call, said, out>>

\* Variant of SetLoggerLevel: the highest level is not raised.
SetLoggerLevelOnly(name, level) ==
    /\ loggers' = [l \in DOMAIN loggers |->
                      IF l = name THEN [loggers[l] EXCEPT !.level = level] ELSE loggers[l]]
    /\ UNCHANGED <<config, useDefaultLogs, highestLogLevel, channels, mutex, call, said, out>>

SetLoggerLevel(name, level) ==
    /\ highestLogLevel' = IF level > highestLogLevel THEN level ELSE highestLogLevel
    /\ loggers' = [l \in DOMAIN loggers |->
                      IF l = name THEN [loggers[l] EXCEPT !.level = level] ELSE loggers[l]]
    /\ UNCHANGED <<config, useDefaultLogs, channels, mutex, call, said, out>>

SetChannelLevel(name, level) ==
    /\ channels' = [c \in DOMAIN channels |->
                       IF c = name THEN [channels[c] EXCEPT !.level = level] ELSE channels[c]]
    /\ UNCHANGED <<config, useDefaultLogs, highestLogLevel, loggers, mutex, call, said, out>>

DeleteChannel(l, name) ==
    /\ l \in DOMAIN loggers /\ mutex[l] = "free"
    /\ loggers' = [loggers EXCEPT ![l].channels =
                      LET Other(c) == c # name IN SelectSeq(@, Other)]
    /\ UNCHANGED <<config, useDefaultLogs, highestLogLevel, channels, mutex, call, said, out>>

-------------------------------------------------------------------------------
NoLogger == "none"

\* The logger of a filter among those there are, else that of its parent, at last "root".
LoggerAmong(names) ==
    LET search[type \in LoggerNames] == IF type \in names THEN type
                                        ELSE IF type = "root" THEN NoLogger
                                        ELSE search[Parent[type]]
    IN  search

GetLoggerByType(type) == LoggerAmong(DOMAIN loggers)[type]

ShouldLog(filter, level) ==
    /\ level <= highestLogLevel
    /\ LET l == GetLoggerByType(filter)
       IN  /\ l \in DOMAIN loggers
           /\ loggers[l].level # Disabled /\ loggers[l].level >= level

\* LOG_*: the check, outside of any lock; then Log::Write looks the logger up.
OutMessage(t, m) ==
    /\ call[t] = Idle /\ m \notin said
    /\ said' = said \cup {m}
    /\ call' = IF ShouldLog(Filter[m], LevelOf[m])
               THEN [call EXCEPT ![t] = [at |-> Waits, msg |-> m,
                                         logger |-> GetLoggerByType(Filter[m])]]
               ELSE call
    /\ UNCHANGED <<config, useDefaultLogs, highestLogLevel, loggers, channels, mutex, out>>

Return(t) == /\ call' = [call EXCEPT ![t] = Idle]
             /\ mutex' = [mutex EXCEPT ![call[t].logger] = "free"]

\* Variant of LockLogger: without the mutex.
LockNothing(t) ==
    /\ call[t].at = Waits
    /\ call' = [call EXCEPT ![t].at = 1]
    /\ UNCHANGED <<config, useDefaultLogs, highestLogLevel, loggers, channels, mutex, said, out>>

\* Logger::Write up to the loop.
LockLogger(t) ==
    /\ call[t].at = Waits /\ mutex[call[t].logger] = "free"
    /\ IF loggers[call[t].logger].level < LevelOf[call[t].msg]
       THEN Return(t)
       ELSE /\ mutex' = [mutex EXCEPT ![call[t].logger] = t]
            /\ call' = [call EXCEPT ![t].at = 1]
    /\ UNCHANGED <<config, useDefaultLogs, highestLogLevel, loggers, channels, said, out>>

Writing(t) == call[t] # Idle /\ call[t].at # Waits
ChannelsOf(t) == loggers[call[t].logger].channels
Channel(t) == ChannelsOf(t)[call[t].at]

\* Variant of Throw: the mutex stays locked.
ThrowLocked(t) == call' = [call EXCEPT ![t] = Idle] /\ UNCHANGED mutex

\* An exception leaves the loop of Logger::Write, and Log::Write catches it.
Throw(t) == Return(t)

\* FileChannel::Write opens the file with the first message. A file that could not be
\* opened, or written, stays as it is: every later message throws. A message from LOG_*
\* has no option, without which a dynamic name throws first.
Written(t, c) == /\ out' = [out EXCEPT ![c] = Append(@, call[t].msg)]
                 /\ channels' = IF channels[c].type = "console" THEN channels
                                ELSE [channels EXCEPT ![c].file = "open"]
                 /\ call' = [call EXCEPT ![t].at = @ + 1]
                 /\ UNCHANGED mutex

ChannelWrite(t, c) ==
    \/ /\ channels[c].type = "console" \/ (channels[c].type = "file" /\ channels[c].file # "failed")
       /\ Written(t, c)
    \/ /\ channels[c].type = "file"
       /\ channels' = [channels EXCEPT ![c].file = "failed"]
       /\ Throw(t) /\ UNCHANGED out
    \/ /\ channels[c].type = "dynamic"
       /\ Throw(t) /\ UNCHANGED <<channels, out>>

\* The next channel of the loop; ConsoleChannel compares the level once more.
WriteNext(t) ==
    /\ Writing(t) /\ call[t].at \in DOMAIN ChannelsOf(t)
    /\ IF channels[Channel(t)].level < LevelOf[call[t].msg]
       THEN /\ call' = [call EXCEPT ![t].at = @ + 1]
            /\ UNCHANGED <<channels, mutex, out>>
       ELSE ChannelWrite(t, Channel(t))
    /\ UNCHANGED <<config, useDefaultLogs, highestLogLevel, loggers, said>>

EndOfWrite(t) ==
    /\ Writing(t) /\ call[t].at \notin DOMAIN ChannelsOf(t)
    /\ Return(t)
    /\ UNCHANGED <<config, useDefaultLogs, highestLogLevel, loggers, channels, said, out>>

Steps(t) == LockLogger(t) \/ WriteNext(t) \/ EndOfWrite(t)

LogNext ==
    \/ Initialize
    \/ \E value \in BOOLEAN : UsingDefaultLogs(value)
    \/ \E l \in LoggerNames, n \in Levels : SetLoggerLevel(l, n)
    \/ \E c \in ChannelNames, n \in Levels : SetChannelLevel(c, n)
    \/ \E l \in LoggerNames, c \in ChannelNames : DeleteChannel(l, c)
    \/ \E t \in Callers, m \in Messages : OutMessage(t, m)
    \/ \E t \in Callers : Steps(t)

LogFairness == \A t \in Callers : WF_logVars(Steps(t))

LogSpec == LogInit /\ [][LogNext]_logVars /\ LogFairness

-------------------------------------------------------------------------------
\* The shortcut of ShouldLog suppresses nothing: a message that the logger of its filter
\* admits passes the check, whatever the configuration and the calls of SetLoggerLevel.
NothingSuppressed ==
    \A m \in Messages :
        LET l == GetLoggerByType(Filter[m])
        IN  /\ l \in DOMAIN loggers
            /\ loggers[l].level >= LevelOf[m]
            => ShouldLog(Filter[m], LevelOf[m])

\* Why: no logger has a level above highestLogLevel.
HighestCoversLoggers == \A l \in DOMAIN loggers : loggers[l].level <= highestLogLevel

Before(c, m, n) == \E i, j \in DOMAIN out[c] : i < j /\ out[c][i] = m /\ out[c][j] = n

\* Two messages with the same filter are in the same order on every channel that has
\* both: Logger::Write holds the mutex of the logger over the whole loop.
SameOrder == \A c, d \in ChannelNames : \A m, n \in Messages :
                m # n /\ Filter[m] = Filter[n] => ~(Before(c, m, n) /\ Before(d, n, m))

\* Every LOG_* returns, also when a channel throws: nobody keeps the mutex of a logger.
LogReturns == \A t \in Callers : (call[t] # Idle) ~> (call[t] = Idle)
===============================================================================
