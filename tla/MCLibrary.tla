------------------------------- MODULE MCLibrary -------------------------------
(*************************************************************************)
(* The parts of the program that do not share state, in one instance for *)
(* TLC: a behaviour is one of one part, chosen at the start, while the   *)
(* others keep their first state.                                        *)
(*************************************************************************)
EXTENDS TaskScheduler, MPSCQueue, Config, MCLogging, LogPattern, FileChannel, Field,
        PreparedResult, Binding, QueryHolder, ChildProcess, ProgressBar, Signals, TextUtil,
        Containers, SRP6

VARIABLE part

Parts == {"scheduler", "mpsc", "config", "logging", "pattern", "file", "field", "result",
          "binding", "holder", "process", "bar", "signals", "text", "bytes", "duration",
          "containers", "srp6"}

Upto(S, n) == UNION {[1 .. k -> S] : k \in 0 .. n}

-------------------------------------------------------------------------------
\* Config: options that are in one file or in both, twice in a file, of the logging system,
\* unusable, and one that the bot does not know; files that are missing.
Option(name, is) == [entry |-> name, value |-> is]
SomeLines == {Option("Discord.Bot.Token", is) : is \in {"1", "x"}}
             \cup {Option("Logger.root", "1"), Option("Old.Option", "1"), Comment}
MCDisks == [dist : Upto(SomeLines, 2) \cup {Missing}, conf : Upto(SomeLines, 2) \cup {Missing}]

\* LogPattern
MCDigitValue == "2" :> 2
MCPatterns == Upto(Characters, 4)
MCSources == Upto({"s"}, 4)

\* FileChannel
MCOtherFile == [name |-> "Other.log", day |-> 0]

\* PreparedResult: a number, and a text of one character.
MCResultColumns == <<[type |-> "TINY", maxLength |-> 0], [type |-> "VAR_STRING", maxLength |-> 1]>>

\* Field: a byte has two bits.
MCFieldValues == {-1, 0, 1, 200, 3, 7, -100}

MCScripts == Upto({"out", "err"}, 5)

\* TextUtil: numbers to the base two, four bits in a byte, short minutes and hours.
MCTexts == Upto({",", " ", "t", "0", "1"}, 4)
MCDigits == <<"0", "1">>
MCByteSamples == Upto(0 .. 3, 3)
MCRadix == <<3, 3, 2, 2, 2>>
MCDurations == 0 .. 160

\* Containers
MCContainers == Upto(1 .. 3, 4)
MCSorted == {s \in Upto(1 .. 4, 3) : \A i, j \in DOMAIN s : i < j => s[i] <= s[j]}

\* SRP6
MCPasswordHash == ("p" :> 6) @@ ("q" :> 15)

MCStarts == SUBSET {"config", "database"}

-------------------------------------------------------------------------------
\* A part that does not run begins in one state.
Fixed(p, init) == IF part = p THEN TRUE ELSE init

LibraryInit ==
    /\ part \in Parts
    /\ Init
    /\ Fixed("mpsc", intrusive = FALSE) /\ MPSCInit
    /\ Fixed("config", disk = [dist |-> Missing, conf |-> Missing]) /\ ConfigInit
    /\ Fixed("logging", config = Good /\ logScenario = "write") /\ MCLogInit
    /\ Fixed("pattern", pattern = <<>>) /\ PatternInit
    /\ Fixed("file", fileName = "Server.log") /\ FileInit
    /\ Fixed("field", /\ column = "TINY" /\ alias = "none" /\ data = 0 /\ raw = FALSE
                      /\ asked = "uint8")
    /\ FieldInit
    /\ ResultInit /\ BindInit /\ HolderInit
    /\ Fixed("process", script = <<>>) /\ ProcessInit
    /\ BarInit
    /\ Fixed("signals", fails = {}) /\ SignalInit
    /\ Fixed("text", text = <<>>) /\ Fixed("bytes", bytes = <<>>)
    /\ Fixed("duration", duration = 0) /\ TextInit
    /\ Fixed("containers", original = <<>> /\ size = 0 /\ algorithm = "EraseIf") /\ ContainerInit
    /\ Fixed("srp6", password = "p" /\ entered = "p") /\ SRP6Init

Rest(p, state) == IF part = p THEN TRUE ELSE UNCHANGED state

\* Nothing happens in the other parts.
OthersRest ==
    /\ Rest("scheduler", vars) /\ Rest("mpsc", mpscVars) /\ Rest("config", configVars)
    /\ Rest("logging", <<logVars, logScenario>>) /\ Rest("pattern", patternVars)
    /\ Rest("file", fileVars) /\ Rest("field", fieldVars) /\ Rest("result", resultVars)
    /\ Rest("binding", bindVars) /\ Rest("holder", holderVars) /\ Rest("process", processVars)
    /\ Rest("bar", barVars) /\ Rest("signals", signalVars) /\ UNCHANGED textVars
    /\ Rest("containers", containerVars) /\ Rest("srp6", srpVars)
    /\ UNCHANGED part

libraryVars == <<part, vars, mpscVars, configVars, logVars, logScenario, patternVars, fileVars,
                 fieldVars, resultVars, bindVars, holderVars, processVars, barVars, signalVars,
                 textVars, containerVars, srpVars>>

LibraryNext ==
    \/ part = "scheduler" /\ Next /\ OthersRest
    \/ part = "mpsc" /\ MPSCNext /\ OthersRest
    \/ part = "config" /\ ConfigNext /\ OthersRest
    \/ part = "logging" /\ MCLogNext /\ OthersRest
    \/ part = "pattern" /\ PatternNext /\ OthersRest
    \/ part = "file" /\ FileNext /\ OthersRest
    \/ part = "field" /\ GetData /\ OthersRest
    \/ part = "result" /\ ResultNext /\ OthersRest
    \/ part = "binding" /\ BindNext /\ OthersRest
    \/ part = "holder" /\ HolderNext /\ OthersRest
    \/ part = "process" /\ ProcessNext /\ OthersRest
    \/ part = "bar" /\ BarNext /\ OthersRest
    \/ part = "signals" /\ SignalNext /\ OthersRest
    \/ part = "containers" /\ ContainerNext /\ OthersRest
    \/ part = "srp6" /\ SRP6Next /\ OthersRest
\* The threads of a part are scheduled: the handlers of a tick, the consumer and the producers
\* of a queue, the callers of the log, a recursion, the worker of a holder and whoever waits for
\* it, a child process and its parent, the main thread and the one of the io context.
LibraryFairness ==
    /\ WF_vars(part = "scheduler" /\ ~undefined /\ AsyncReturns)
    /\ WF_vars(part = "scheduler" /\ ~undefined /\ TaskReturns)
    /\ WF_mpscVars(part = "mpsc" /\ Consumer)
    /\ \A e \in Elements : WF_mpscVars(part = "mpsc" /\ Enqueue(e))
    /\ \A t \in Callers : WF_logVars(part = "logging" /\ Steps(t))
    /\ WF_fieldVars(part = "field" /\ GetData)
    /\ WF_holderVars(part = "holder" /\ Worker)
    /\ WF_holderVars(part = "holder" /\ InvokeIfReady)
    /\ WF_processVars(part = "process" /\ ParentStep)
    /\ WF_processVars(part = "process" /\ ChildStep)
    /\ WF_signalVars(part = "signals" /\ Main)
    /\ WF_signalVars(part = "signals" /\ IoThread)

LibrarySpec == LibraryInit /\ [][LibraryNext]_libraryVars /\ LibraryFairness

-------------------------------------------------------------------------------
\* Every variable of every part has its type.
LibraryTypeOK ==
    CASE part = "scheduler" -> TypeOK
      [] part = "mpsc"      -> MPSCTypeOK
      [] part = "config"    -> ConfigTypeOK
      [] part = "logging"   -> LogTypeOK
      [] part = "pattern"   -> PatternTypeOK
      [] part = "file"      -> FileTypeOK
      [] part = "field"     -> FieldTypeOK
      [] part = "result"    -> ResultTypeOK
      [] part = "binding"   -> BindTypeOK
      [] part = "holder"    -> HolderTypeOK
      [] part = "process"   -> ProcessTypeOK
      [] part = "bar"       -> BarTypeOK
      [] part = "signals"   -> SignalTypeOK
      [] part = "containers" -> ContainerTypeOK
      [] part = "srp6"      -> SRP6TypeOK
      [] OTHER              -> TextTypeOK

\* The data of every part is in order: typed; the container of the scheduler sorted, with a
\* task in one place; nodes of the lock-free queue and arrays of results freed in time and
\* once; no more log files than configured; the bar completed with the work; the io context
\* running until the program is stopped.
LibraryInv == /\ LibraryTypeOK
              /\ Sorted /\ OnePlace
              /\ FreedInTime /\ FreedOnce
              /\ FilesBounded
              /\ CompletedWithTheWork
              /\ RunsUntilStopped

\* The helpers compute what their reference definitions say, for every input of the samples:
\* patterns and widths of the log, tokens, numbers and bytes from and to text, durations,
\* the algorithms on containers, and the keys of both sides of SRP6.
FunctionsAgree == /\ LosesNothing /\ PaddedOrCropped
                  /\ TokensJoin /\ NumbersReadBack /\ HexRoundTrip /\ TimeToTheLastUnit
                  /\ ResizedExactly /\ ErasedExactly /\ IntersectsRight
                  /\ KeysAgree

\* What was begun comes to its end: a tick of the scheduler, the way of an element through the
\* lock-free queue, a call of the log although a channel throws, the recursion of GetData,
\* a query holder, and the start of a process whose output fits the pipes.
CallsReturn == /\ UpdateReturns
               /\ ComesOut
               /\ LogReturns
               /\ GetDataReturns
               /\ HolderCalled
               /\ ProcessReturns
===============================================================================
