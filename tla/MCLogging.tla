------------------------------- MODULE MCLogging -------------------------------
(*************************************************************************)
(* Configurations of the logging system. Two questions are asked in      *)
(* scenarios of their own: which messages pass while levels change and   *)
(* loggers are loaded again, and how two threads write.                  *)
(*************************************************************************)
EXTENDS Logging, TLC

VARIABLE logScenario

MCParent == ("root" :> "root") @@ ("server" :> "root") @@ ("server.loading" :> "server")
MCFilter == ("m1" :> "server.loading") @@ ("m2" :> "server.loading") @@ ("m3" :> "root")
MCLevelOf == ("m1" :> 3) @@ ("m2" :> 5) @@ ("m3" :> 6)

Ch(type, count, level) == [type |-> type, size |-> count, level |-> level, understood |-> TRUE]
Lg(count, level, names) == [size |-> count, level |-> level, channels |-> names]

\* Everything in order; a file that may fail.
Good == [channels |-> ("Console" :> Ch("console", 4, 6)) @@ ("Server" :> Ch("file", 4, 5)),
         loggers |-> ("root" :> Lg(2, 6, <<"Console", "Server">>))
                     @@ ("server" :> Lg(2, 5, <<"Server", "Console">>))]
\* A console with too many options, a channel and a logger with a level that does not exist.
Wrong == [channels |-> ("Console" :> Ch("console", 5, 6)) @@ ("Server" :> Ch("dynamic", 4, 8)),
          loggers |-> ("root" :> Lg(2, 5, <<"Console", "Server">>))
                      @@ ("server" :> Lg(2, 8, <<"Server">>))]
\* A dynamic name, which a message of LOG_* does not fill.
Dynamic == [channels |-> ("Console" :> Ch("console", 3, 3)) @@ ("Server" :> Ch("dynamic", 4, 5)),
            loggers |-> ("root" :> Lg(2, 5, <<"Console", "Server">>))]
MCLogConfigs == {Good, Wrong, Dynamic}

LevelsKept(f) == \A x \in DOMAIN f : x \in DOMAIN f' => f'[x].level = f[x].level
LevelsIn(f, levels) == \A x \in DOMAIN f : f[x].level \in levels

\* Levels change while one thread logs one message; two threads write with fixed levels.
InScenario ==
    \/ /\ logScenario = "levels"
       /\ LevelsIn(loggers', {0, 3, 5, 6}) /\ LevelsIn(channels', {3, 5, 6})
       /\ said # {} => LevelsKept(channels)
       /\ Cardinality(said') <= 1 /\ call'["t2"] = Idle
       /\ \A l \in DOMAIN loggers : l \in DOMAIN loggers' /\ loggers' # loggers =>
              Len(loggers'[l].channels) >= Len(loggers[l].channels)
    \/ /\ logScenario = "write"
       /\ LevelsKept(channels) /\ LevelsKept(loggers) /\ ~useDefaultLogs'
       /\ loggers # <<>> => \/ loggers' = loggers /\ (said # {} => ~Initialize)
                            \/ loggers = ReadLoggersFromConfig(DOMAIN channels)

MCLogInit == LogInit /\ logScenario \in {"levels", "write"}
MCLogNext == LogNext /\ InScenario /\ UNCHANGED logScenario
===============================================================================
