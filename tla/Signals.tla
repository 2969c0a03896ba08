--------------------------------- MODULE Signals --------------------------------
(*************************************************************************)
(* SIGINT and SIGTERM from the first line of main() to its return: a     *)
(* boost::asio::signal_set notes a signal as soon as it is registered,   *)
(* but its handler is run by the thread that runs the io context, which  *)
(* main() starts only after the database; main() leaves its loop when    *)
(* the handler has set BotMgr::_stopEvent.                               *)
(*************************************************************************)
EXTENDS Naturals

CONSTANT Starts         \* what start-up can be: sets of the stages that fail
ASSUME SignalAssumption == Starts \subseteq SUBSET {"config", "database"}

VARIABLES stage,        \* where main() is
          fails,        \* the stages of start-up that fail
          noted,        \* a signal came and its handler has not run
          waiting,      \* async_wait: the handler is registered, once
          ioThread,     \* "none", "running" or "done": the thread of the pool
          ioStopped,    \* the io context was stopped
          stopEvent,    \* BotMgr::_stopEvent
          signals,      \* signals sent so far
          killed        \* a signal found no handler registered

signalVars == <<stage, fails, noted, waiting, ioThread, ioStopped, stopEvent, signals, killed>>

MaxSignals == 2
Stages == {"begin", "config", "database", "loop", "leave", "end"}

SignalTypeOK == /\ stage \in Stages /\ fails \in Starts
                /\ noted \in BOOLEAN /\ waiting \in BOOLEAN /\ stopEvent \in BOOLEAN
                /\ ioStopped \in BOOLEAN /\ killed \in BOOLEAN
                /\ ioThread \in {"none", "running", "done"} /\ signals \in 0 .. MaxSignals

SignalInit == /\ stage = "begin" /\ fails \in Starts
              /\ noted = FALSE /\ waiting = FALSE /\ ioThread = "none" /\ ioStopped = FALSE
              /\ stopEvent = FALSE /\ signals = 0 /\ killed = FALSE

-------------------------------------------------------------------------------
\* Before signal_set exists a signal has its default effect; afterwards it is noted.
Signal == /\ stage # "end" /\ ~killed /\ signals < MaxSignals
          /\ signals' = signals + 1
          /\ IF stage = "begin" THEN killed' = TRUE /\ UNCHANGED noted
                                ELSE noted' = TRUE /\ UNCHANGED killed
          /\ UNCHANGED <<stage, fails, waiting, ioThread, ioStopped, stopEvent>>

\* SignalHandlerMgr::Initialize
InitializeSignals == /\ stage = "begin" /\ ~killed
                     /\ stage' = "config" /\ waiting' = TRUE
                     /\ UNCHANGED <<fails, noted, ioThread, ioStopped, stopEvent, signals, killed>>

\* Variant of LoadOrReturn: what was noted before the io context runs is forgotten.
LoadOrReturnForgetting ==
    /\ stage \in {"config", "database"}
    /\ \/ stage \in fails /\ stage' = "end" /\ UNCHANGED <<ioThread, noted>>
       \/ stage \notin fails /\ stage = "config" /\ stage' = "database" /\ UNCHANGED <<ioThread, noted>>
       \/ /\ stage \notin fails /\ stage = "database"
          /\ stage' = "loop" /\ ioThread' = "running" /\ noted' = FALSE
    /\ UNCHANGED <<fails, waiting, ioStopped, stopEvent, signals, killed>>

\* LoadAppConfigs and StartDB: either failure ends main().
LoadOrReturn == /\ stage \in {"config", "database"}
                /\ \/ /\ stage \in fails /\ stage' = "end" /\ UNCHANGED ioThread
                   \/ /\ stage \notin fails /\ stage = "config" /\ stage' = "database"
                      /\ UNCHANGED ioThread
                   \/ /\ stage \notin fails /\ stage = "database"
                      /\ stage' = "loop" /\ ioThread' = "running"
                /\ UNCHANGED <<fails, noted, waiting, ioStopped, stopEvent, signals, killed>>

\* The thread of the io context: SignalHandler and then StopNow.
Handler == /\ ioThread = "running" /\ waiting /\ noted
           /\ noted' = FALSE /\ waiting' = FALSE /\ ioStopped' = TRUE /\ stopEvent' = TRUE
           /\ UNCHANGED <<stage, fails, ioThread, signals, killed>>

\* run() returns once the context is stopped, or has nothing left to wait for.
RunReturns == /\ ioThread = "running" /\ (ioStopped \/ ~waiting)
              /\ ioThread' = "done"
              /\ UNCHANGED <<stage, fails, noted, waiting, ioStopped, stopEvent, signals, killed>>

LeaveLoop == /\ stage = "loop" /\ stopEvent
             /\ stage' = "leave"
             /\ UNCHANGED <<fails, noted, waiting, ioThread, ioStopped, stopEvent, signals, killed>>

\* The end of main() destroys the thread pool, which joins its thread.
JoinThreads == /\ stage = "leave" /\ ioThread = "done"
               /\ stage' = "end"
               /\ UNCHANGED <<fails, noted, waiting, ioThread, ioStopped, stopEvent, signals, killed>>

Main == InitializeSignals \/ LoadOrReturn \/ LeaveLoop \/ JoinThreads
IoThread == Handler \/ RunReturns
SignalNext == Signal \/ Main \/ IoThread

SignalSpec == SignalInit /\ [][SignalNext]_signalVars

-------------------------------------------------------------------------------
\* The io context runs as long as the program is to run: it has not ended without a signal.
\* (The context has no work but the wait for signals: the wait keeps run() from returning.)
RunsUntilStopped == ioThread = "done" => stopEvent

\* A signal at any moment, also while the configuration is read or the database is set up,
\* ends the program.
SignalEnds == signals > 0 ~> stage = "end" \/ killed
===============================================================================
