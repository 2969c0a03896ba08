-------------------------------- MODULE StartUp --------------------------------
(*************************************************************************)
(* Starts of the process, one after another, on the same databases: the  *)
(* first pool with updates enabled is the one whose database and updater *)
(* are modelled. A start may end at any point, and the source tree may   *)
(* be another one at the next.                                           *)
(*************************************************************************)
EXTENDS DatabaseMgr, Updater

CONSTANTS
    Players,            \* the tables the statements of the pool need
    OptionSets,         \* configurations of the updater
    Histories           \* what the table `updates` may hold at first

ASSUME StartUpAssumption == /\ Players \subseteq BaseFiles
                            /\ OptionSets \subseteq [redundancy : BOOLEAN, rehash : BOOLEAN,
                                                      archived : BOOLEAN, clean : Int]
                            /\ Histories \subseteq SUBSET Entries
                            /\ \A rows \in Histories : Unique(rows)   \* PRIMARY KEY (`name`)

VARIABLE exists         \* databases that exist

startVars == <<mgrVars, updaterVars, exists>>

StartTypeOK == MgrTypeOK /\ UpdaterTypeOK /\ exists \subseteq Range(Pools)

\* The database is missing, empty, or was in use, with rows recorded or entered by hand.
StartInit ==
    /\ MgrInit
    /\ options \in OptionSets /\ tree \in Trees /\ updates \in Histories
    /\ exists \in SUBSET Range(Pools)
    /\ tables \in {{}, BaseFiles}
    /\ vouched = {} /\ settled = NoTree /\ disturbed = FALSE
    /\ stage = "off" /\ todo = <<>> /\ applied = {} /\ fetched = {}
    /\ effects = {e.hash : e \in updates} \ {Empty}
    /\ Enabled \ exists # {} => tables = {}
    /\ tables = {} => updates = {}

BeginStart == /\ Load
              /\ tree' \in Trees
              /\ disturbed' = FALSE
              /\ settled' = IF tree' = settled THEN settled ELSE NoTree
              /\ UNCHANGED <<options, databaseVars, stage, localVars, exists>>

\* Open finds the database, or does not; Create makes it.
Open ==
    LET p == Head(poolQueue) IN
    /\ phase = "open"
    /\ \/ p \in exists /\ Opened /\ UNCHANGED exists
       \/ \E half \in BOOLEAN, error \in {"connection", "other"} :
             NotOpened(error, half) /\ UNCHANGED exists
       \/ p \notin exists /\ NotOpened("database", FALSE)
          /\ exists' = IF phase' = "open" THEN exists \cup {p} ELSE exists
    /\ UNCHANGED updaterVars

\* Populate and Update of the pool run between these two.
BeginStep == /\ phase \in {"populate", "update"} /\ stage = "off"
             /\ stage' = phase
             /\ UNCHANGED <<mgrVars, optionVars, databaseVars, localVars, disturbed, settled,
                            exists>>

EndStep == /\ stage \in {"populated", "ok", "failed"}
           /\ IF stage = "failed" THEN Failed(conns)
              ELSE Pop /\ UNCHANGED <<conns, close, poolList>>
           /\ stage' = "off"
           /\ UNCHANGED <<optionVars, databaseVars, localVars, disturbed, settled, exists>>

\* A statement cannot be prepared where a table is missing.
Prepare == /\ Prepared
           /\ Head(poolQueue) \in Enabled => Players \subseteq tables
           /\ UNCHANGED <<updaterVars, exists>>

NotPrepare == NotPrepared /\ UNCHANGED <<updaterVars, exists>>

\* The process ends, in order or not.
End == /\ ProcessEnds
       /\ stage' = "off" /\ todo' = <<>> /\ applied' = {} /\ fetched' = {}
       /\ UNCHANGED <<optionVars, databaseVars, disturbed, settled, exists>>

Close == CloseAllConnections /\ UNCHANGED <<updaterVars, exists>>

Work == \/ Open \/ BeginStep \/ EndStep \/ Prepare \/ NotPrepare
        \/ UpdaterNext /\ UNCHANGED <<mgrVars, exists>>

StartNext == BeginStart \/ Work \/ Close \/ End

StartSpec == StartInit /\ [][StartNext]_startVars /\ WF_startVars(Work)

-------------------------------------------------------------------------------
\* When Load returns true, the bot has what it needs: every pool has connections of both
\* kinds with their statements, also those a failed attempt left behind, and the tables
\* exist, although an interrupted Populate is never taken up again.
RunningIsReady ==
    phase = "running" =>
        /\ \A p \in Range(Pools) : conns[p].async > 0 /\ conns[p].sync = 1 /\ p \in poolList
        /\ Enabled # {} => Players \subseteq tables

\* Load comes to an end: the attempts to reach a server are counted.
Decides == phase = "open" ~> phase \in {"running", "failed", "down"}
===============================================================================
