------------------------------ MODULE DatabaseMgr ------------------------------
(*************************************************************************)
(* DatabaseMgr::Load: open the pools, populate and update those with     *)
(* updates enabled, prepare the statements of all. Each of the four is a *)
(* queue of functions, one per pool; where one fails, the pools that     *)
(* were opened are closed and the process ends.                          *)
(*************************************************************************)
EXTENDS Naturals, Sequences, Functions

CONSTANTS
    Pools,              \* in the order of AddDatabase
    Enabled,            \* pools of Updates.EnableDatabases: the updater of one is modelled
    AutoSetup,          \* Updates.AutoSetup
    Attempts            \* Database.Reconnect.Attempts

ASSUME DatabaseMgrAssumption == /\ Pools \in Seq(Range(Pools)) /\ IsInjective(Pools) /\ Pools # <<>>
                                /\ Enabled \subseteq Range(Pools)
                                /\ \A p, q \in Enabled : p = q
                                /\ AutoSetup \in BOOLEAN /\ Attempts \in Nat

VARIABLES
    phase,              \* the queue that Process is at, or what came of it
    poolQueue,          \* the pools of that queue
    tries,              \* reconnectCount; after Create no further attempt is made
    conns,              \* _connections: the asynchronous and synchronous ones of a pool
    close,              \* _close
    poolList            \* _poolList: pools whose statements are prepared

mgrVars == <<phase, poolQueue, tries, conns, close, poolList>>

NoConns == [async |-> 0, sync |-> 0]
Phases == <<"open", "populate", "update", "prepare", "running">>

MgrTypeOK == /\ phase \in Range(Phases) \cup {"down", "failed"}
             /\ poolQueue \in Seq(Range(Pools))
             /\ tries \in 0 .. Attempts + 1
             /\ conns \in [Range(Pools) -> [async : 0 .. Attempts + 2, sync : 0 .. 1]]
             /\ close \in Seq(Range(Pools))
             /\ poolList \subseteq Range(Pools)

MgrInit == /\ phase = "down"
           /\ poolQueue = <<>> /\ tries = 0
           /\ conns = [p \in Range(Pools) |-> NoConns]
           /\ close = <<>> /\ poolList = {}

\* The pools that take part in a phase.
QueueOf(ph) == CASE ph \in {"open", "prepare"} -> Pools
                 [] ph \in {"populate", "update"} ->
                        IF Enabled = {} THEN <<>> ELSE <<CHOOSE p \in Enabled : TRUE>>
                 [] OTHER -> <<>>

\* The next phase from the i-th on that has something to do.
Skipping(i) == CHOOSE j \in i .. Len(Phases) :
                   /\ QueueOf(Phases[j]) # <<>> \/ j = Len(Phases)
                   /\ \A k \in i .. j - 1 : QueueOf(Phases[k]) = <<>>

\* main: AddDatabase and Load.
Load == /\ phase = "down"
        /\ phase' = "open" /\ poolQueue' = QueueOf("open")
        /\ tries' = 0
        /\ UNCHANGED <<conns, close, poolList>>

\* The function at the front has returned true.
Pop == /\ IF Len(poolQueue) > 1 THEN poolQueue' = Tail(poolQueue) /\ UNCHANGED phase
          ELSE LET next == Skipping(1 + CHOOSE i \in DOMAIN Phases : Phases[i] = phase)
               IN  phase' = Phases[next] /\ poolQueue' = QueueOf(Phases[next])
       /\ tries' = 0

\* Variant of Failed: the pool opened last stays open.
FailedButLast(now) ==
    /\ phase' = "failed"
    /\ conns' = [p \in DOMAIN now |->
                    IF p \in Range(SubSeq(close, 1, Len(close) - 1)) THEN NoConns ELSE now[p]]
    /\ close' = <<>>
    /\ UNCHANGED <<poolQueue, tries, poolList>>

\* Process, where the function at the front has returned false, with the connections
\* there are now.
Failed(now) ==
    /\ phase' = "failed"
    /\ conns' = [p \in DOMAIN now |-> IF p \in Range(close) THEN NoConns ELSE now[p]]
    /\ close' = <<>>
    /\ UNCHANGED <<poolQueue, tries, poolList>>

\* A pool is opened: the asynchronous connection, then the synchronous one.
Opened == LET p == Head(poolQueue) IN
    /\ phase = "open"
    /\ conns' = [conns EXCEPT ![p] = [async |-> @.async + 1, sync |-> 1]]
    /\ close' = Append(close, p)
    /\ Pop
    /\ UNCHANGED poolList

\* Variant of NotOpened: the count of the attempts wraps around before it is compared.
NotOpenedWrapping(error, half) ==
    LET p == Head(poolQueue)
        now == [conns EXCEPT ![p].async = IF half /\ @ <= Attempts THEN @ + 1 ELSE @]
    IN  /\ phase = "open"
        /\ IF error = "connection"
           THEN /\ tries' = (tries + 1) % (Attempts + 1)
                /\ conns' = now
                /\ UNCHANGED <<phase, poolQueue, close, poolList>>
           ELSE Failed(now)

\* Open fails, half: at the second connection, which leaves the first one behind. A server
\* that does not answer is tried again; a database that is missing is created, if that is
\* enabled, the user agrees and the mysql client is able to, and opened once more.
NotOpened(error, half) ==
    LET p == Head(poolQueue) now == [conns EXCEPT ![p].async = IF half THEN @ + 1 ELSE @] IN
    /\ phase = "open"
    /\ \/ /\ error = "connection" /\ tries < Attempts
          /\ tries' = tries + 1
          /\ conns' = now
          /\ UNCHANGED <<phase, poolQueue, close, poolList>>
       \/ /\ error = "database" /\ p \in Enabled /\ AutoSetup /\ tries <= Attempts
          /\ tries' = Attempts + 1
          /\ conns' = now
          /\ UNCHANGED <<phase, poolQueue, close, poolList>>
       \/ /\ ~(error = "connection" /\ tries < Attempts)
          /\ Failed(now)

\* Variant of Prepared: the pool is not added.
PreparedUnlisted == phase = "prepare" /\ Pop /\ UNCHANGED <<conns, close, poolList>>

\* PrepareStatements: every connection of the pool has its statements.
Prepared == /\ phase = "prepare"
            /\ poolList' = poolList \cup {Head(poolQueue)}
            /\ Pop
            /\ UNCHANGED <<conns, close>>

\* One of them cannot be prepared: the pool closes itself.
NotPrepared == /\ phase = "prepare"
               /\ Failed([conns EXCEPT ![Head(poolQueue)] = NoConns])

\* CloseAllConnections, when the process ends in order.
CloseAllConnections == /\ phase = "running"
                       /\ Failed(conns)

\* The process is gone: after "failed", or at any time.
ProcessEnds == /\ phase # "down"
               /\ phase' = "down"
               /\ poolQueue' = <<>> /\ tries' = 0 /\ close' = <<>> /\ poolList' = {}
               /\ conns' = [p \in Range(Pools) |-> NoConns]

-------------------------------------------------------------------------------
\* A start that fails leaves no pool open: what is left are asynchronous connections of
\* the one pool that could not be opened, and only of that.
FailureCloses == phase = "failed" => \A p \in Range(Pools) :
                     conns[p] # NoConns =>
                         poolQueue # <<>> /\ p = Head(poolQueue) /\ conns[p].sync = 0

\* Every pool that is open is closed once when the process ends.
OpenIsRegistered == /\ IsInjective(close)
                    /\ \A p \in Range(Pools) : conns[p].sync > 0 => p \in Range(close)
===============================================================================
