------------------------------ MODULE FileChannel ------------------------------
(*************************************************************************)
(* The files of a FileChannel whose name gets a timestamp: ClearOldFiles *)
(* when the channel is made, OpenFile with the first message, over many  *)
(* starts of the program.                                                *)
(*                                                                       *)
(* Days stand for timestamps. A file is the name without its timestamp   *)
(* and the day of the timestamp.                                         *)
(*************************************************************************)
EXTENDS Integers, Sequences, FiniteSets, Functions

CONSTANTS
    FileNames,          \* names a channel may be configured with
    WithDigits,         \* those with a digit in them
    OtherFile,          \* a file of the directory that the pattern of the channel does not match
    MaxCount,           \* _maxCount
    PurgeAge,           \* _purgeAge
    MaxDay              \* bound of the model

ASSUME FileAssumption ==
    /\ WithDigits \subseteq FileNames /\ OtherFile.name \notin FileNames
    /\ MaxCount \in Nat \ {0} /\ PurgeAge \in Nat /\ MaxDay \in Nat

VARIABLES
    fileName,           \* _fileName, the option of the channel
    today,
    files,              \* the files of the directory
    channel,            \* "none", "clearing" in its constructor, or "made"
    logFiles,           \* the files ClearOldFiles has still to visit
    filesCount,
    deleteBefore,       \* deleteBeforeTime
    logFile             \* "none", "open", or "failed"

fileVars == <<fileName, today, files, channel, logFiles, filesCount, deleteBefore, logFile>>

Days == 0 .. MaxDay
FileTypeOK == /\ fileName \in FileNames /\ today \in Days
              /\ files \subseteq [name : {fileName}, day : Days] \cup {OtherFile}
              /\ channel \in {"none", "clearing", "made"}
              /\ Range(logFiles) \subseteq files
              /\ filesCount \in Nat /\ deleteBefore \in Int /\ logFile \in {"none", "open", "failed"}

FileInit == /\ fileName \in FileNames /\ today = 0 /\ files = {OtherFile}
            /\ channel = "none" /\ logFiles = <<>> /\ filesCount = 0
            /\ deleteBefore = 0 /\ logFile = "none"

-------------------------------------------------------------------------------
\* The first digits of the name are read as the year: with a digit in the option, the
\* rest of the timestamp is shifted, and the file seems to be from long before.
GetFileCreationDate(file) == IF file.name \in WithDigits THEN file.day - 1000 ELSE file.day

Matching == {f \in files : f.name = fileName}

\* Variant of ByDate: the newest first.
ByDateNewestFirst(f, g) == GetFileCreationDate(f) > GetFileCreationDate(g)

ByDate(f, g) == GetFileCreationDate(f) < GetFileCreationDate(g)

\* ranges::sort: the orders in which nobody comes before somebody who precedes them.
SortedByDate(S) == {s \in Injection(1 .. Cardinality(S), S) : \A i, j \in DOMAIN s : i < j => ~ByDate(s[j], s[i])}

\* ClearOldFiles up to its last loop.
ListFiles == /\ channel = "none"
             /\ channel' = "clearing"
             /\ deleteBefore' = today - PurgeAge
             /\ logFiles' \in SortedByDate(Matching)
             /\ filesCount' = Cardinality(Matching)
             /\ UNCHANGED <<fileName, today, files, logFile>>

VisitFile ==
    LET file == Head(logFiles)
    IN  /\ channel = "clearing" /\ logFiles # <<>>
        /\ logFiles' = Tail(logFiles)
        /\ files' = IF filesCount > MaxCount \/ GetFileCreationDate(file) < deleteBefore
                    THEN files \ {file} ELSE files
        /\ filesCount' = IF filesCount > MaxCount THEN filesCount - 1 ELSE filesCount
        /\ UNCHANGED <<fileName, today, channel, deleteBefore, logFile>>

ChannelMade == /\ channel = "clearing" /\ logFiles = <<>>
               /\ channel' = "made"
               /\ UNCHANGED <<fileName, today, files, logFiles, filesCount, deleteBefore, logFile>>

\* The first message opens the file of the second it is written in. A stream that is not
\* open stays: OpenFile answers false from then on.
OpenFile(opens) ==
    /\ channel = "made" /\ logFile = "none"
    /\ logFile' = IF opens THEN "open" ELSE "failed"
    /\ files' = IF opens THEN files \cup {[name |-> fileName, day |-> today]} ELSE files
    /\ UNCHANGED <<fileName, today, channel, logFiles, filesCount, deleteBefore>>

\* The program ends: CloseFile, or a remove that throws, which nobody catches.
ProgramEnds == /\ channel # "none"
               /\ channel' = "none" /\ logFile' = "none"
               /\ logFiles' = <<>> /\ filesCount' = 0
               /\ UNCHANGED <<fileName, today, files, deleteBefore>>

NextDay == /\ today < MaxDay
           /\ today' = today + 1
           /\ UNCHANGED <<fileName, files, channel, logFiles, filesCount, deleteBefore, logFile>>

FileNext == \/ ListFiles \/ VisitFile \/ ChannelMade \/ ProgramEnds \/ NextDay
            \/ \E opens \in BOOLEAN : OpenFile(opens)

FileSpec == FileInit /\ [][FileNext]_fileVars

-------------------------------------------------------------------------------
\* ClearOldFiles removes a file only if MaxCount newer files of the channel are there, or
\* if it is older than PurgeAge; and never a file of another name. For an option without a
\* digit: with one, every file of the channel seems to be too old and is removed.
RemovesOnlyOld ==
    [][\A f \in files \ files' :
          /\ f # OtherFile
          /\ \/ fileName \in WithDigits
             \/ Cardinality({g \in Matching : g.day > f.day}) >= MaxCount
             \/ f.day < today - PurgeAge]_fileVars

\* However often the program was started, and wherever it was stopped, the channel has at
\* most MaxCount files besides the one it writes to.
FilesBounded == channel = "made" =>
                    Cardinality(Matching) <= MaxCount + (IF logFile = "open" THEN 1 ELSE 0)
===============================================================================
