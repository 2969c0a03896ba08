------------------------------- MODULE WorkerPool -------------------------------
(*************************************************************************)
(* DatabaseWorkerPool: the lists of connections and the threads that     *)
(* share them. Threads that make synchronous queries take a connection   *)
(* with GetFreeConnection; the main thread runs the periodic tasks       *)
(* (KeepAlive, CleanupConnections, the request for CheckAsyncQueue) and  *)
(* Close; the checker thread opens dynamic asynchronous connections; the *)
(* worker of every asynchronous connection serves the operation queue.   *)
(*                                                                       *)
(* The clock is left out: a dynamic connection may have been unused for  *)
(* DYNAMIC_CONNECTION_TIMEOUT (one second) whenever it is asked.         *)
(*************************************************************************)
EXTENDS Naturals, Sequences, Functions

CONSTANTS
    Users,                \* threads that make synchronous queries
    Main, Checker,        \* the main thread (it makes synchronous queries too), the checker
    Conns,                \* MySQLConnection objects
    StaticSync, StaticAsync,  \* the two opened by Open
    MaxSync, MaxAsync,    \* MAX_SYNC_CONNECTIONS, MAX_ASYNC_CONNECTIONS
    MaxQueue,             \* _maxAsyncQueueSize
    Wrap,                 \* 256: the index of the second loop is a uint8
    QueueBound,           \* bound on the operations waiting at a time
    None

Callers == Users \cup {Main}
Threads == Callers \cup {Checker}

ASSUME PoolAssumption ==
    /\ Main \notin Users /\ Checker \notin Callers
    /\ StaticSync \in Conns /\ StaticAsync \in Conns /\ StaticSync # StaticAsync
    /\ MaxSync \in Nat \ {0} /\ MaxAsync \in Nat \ {0}
    /\ MaxQueue \in Nat \ {0} /\ Wrap \in Nat \ {0} /\ QueueBound \in Nat
    /\ None \notin Conns /\ None \notin Threads

VARIABLES
    sync, async,          \* _connections[IDX_SYNCH], _connections[IDX_ASYNC]
    conn,                 \* how far a connection object has come
    owner,                \* owner of its _mutex
    worker, cancel,       \* its AsyncDBQueueWorker: thread, _cancel
    doomed,               \* asynchronous connections being destroyed by the main thread
    cleanup,              \* owner of _cleanupMutex
    pc, held, index,      \* every thread: position, local connection, loop index
    queued,               \* _queue->Size()
    requested             \* is a CheckAsyncQueueTask pushed? (several check as one does)

connVars == <<conn, owner, worker, cancel>>
vars == <<sync, async, connVars, doomed, cleanup, pc, held, index, queued, requested>>

Static == {StaticSync, StaticAsync}

TypeOK == /\ sync \in Seq(Conns) /\ async \in Seq(Conns)
          /\ conn \in [Conns -> {"none", "new", "open", "ready", "closed"}]
          /\ owner \in [Conns -> Callers \cup {None}]
          /\ worker \in [Conns -> {"none", "idle", "running", "done"}]
          /\ cancel \in [Conns -> BOOLEAN]
          /\ doomed \in SUBSET Conns
          /\ cleanup \in Threads \cup {None}
          /\ pc \in [Threads -> {"idle", "want", "scan", "dynamic", "spin", "using",
                                 "wantClean", "cleanSync", "cleanAsync", "join",
                                 "wantPing", "ping", "closing", "closed",
                                 "wantCheck", "check", "opening", "drop", "prepare"}]
          /\ held \in [Threads -> Conns \cup {None}]
          /\ index \in [Threads -> Nat]
          /\ queued \in 0 .. QueueBound
          /\ requested \in BOOLEAN

\* After Open and PrepareStatements.
Init == /\ sync = <<StaticSync>> /\ async = <<StaticAsync>>
        /\ conn = [c \in Conns |-> IF c \in Static THEN "ready" ELSE "none"]
        /\ owner = [c \in Conns |-> None]
        /\ worker = [c \in Conns |-> IF c = StaticAsync THEN "idle" ELSE "none"]
        /\ cancel = [c \in Conns |-> FALSE]
        /\ doomed = {}
        /\ cleanup = None
        /\ pc = [t \in Threads |-> "idle"]
        /\ held = [t \in Threads |-> None]
        /\ index = [t \in Threads |-> 0]
        /\ queued = 0
        /\ requested = FALSE

Goto(t, to) == pc' = [pc EXCEPT ![t] = to]

\* lock_guard guard(_cleanupMutex)
Lock(t, from, to) == /\ pc[t] = from
                     /\ cleanup = None
                     /\ cleanup' = t
                     /\ Goto(t, to)

\* A connection object nobody refers to can be allocated.
Fresh(c) == /\ c \notin Static
            /\ conn[c] \in {"none", "closed"}
            /\ \A t \in Threads : held[t] # c

\* The thread of an asynchronous connection is joined and its handle closed.
Destroy(c) == /\ conn' = [conn EXCEPT ![c] = "closed"]
              /\ worker' = [worker EXCEPT ![c] = "none"]
              /\ cancel' = [cancel EXCEPT ![c] = FALSE]

-------------------------------------------------------------------------------
\* Query, DirectExecute, DirectCommitTransaction: GetFreeConnection, use, Unlock. No
\* thread makes queries once Close is called, as its comment asks.

Request(t) == /\ pc[t] = "idle"
              /\ pc[Main] \notin {"closing", "closed"}
              /\ Goto(t, "want")
              /\ UNCHANGED <<sync, async, connVars, doomed, cleanup, held, index, queued, requested>>

Enter(t) == /\ Lock(t, "want", "scan")
            /\ index' = [index EXCEPT ![t] = 1]
            /\ UNCHANGED <<sync, async, connVars, doomed, held, queued, requested>>

\* Variant of Take: try_lock succeeds on a locked mutex.
TakeAnyway(t, c) == /\ owner' = [owner EXCEPT ![c] = t]
                    /\ held' = [held EXCEPT ![t] = c]
                    /\ cleanup' = None
                    /\ Goto(t, "using")

\* LockIfReady succeeds; GetFreeConnection returns and releases _cleanupMutex.
Take(t, c) == /\ owner[c] = None
              /\ owner' = [owner EXCEPT ![c] = t]
              /\ held' = [held EXCEPT ![t] = c]
              /\ cleanup' = None
              /\ Goto(t, "using")

\* One round of the first loop.
Scan(t) == /\ pc[t] = "scan"
           /\ \/ /\ index[t] <= Len(sync)
                 /\ Take(t, sync[index[t]])
                 /\ UNCHANGED index
              \/ /\ index[t] <= Len(sync) /\ owner[sync[index[t]]] # None
                 /\ index' = [index EXCEPT ![t] = @ + 1]
                 /\ UNCHANGED <<owner, held, cleanup, pc>>
              \/ /\ index[t] > Len(sync)
                 /\ Goto(t, "dynamic")
                 /\ index' = [index EXCEPT ![t] = 0]
                 /\ UNCHANGED <<owner, held, cleanup>>
           /\ UNCHANGED <<sync, async, conn, worker, cancel, doomed, queued, requested>>

\* Variant of OpenDynamicSyncConnect: the limit is off by one.
OpenOneMore(t) == /\ pc[t] = "dynamic"
                  /\ \/ /\ Len(sync) <= MaxSync
                        /\ \E c \in Conns : /\ Fresh(c)
                                            /\ sync' = Append(sync, c)
                                            /\ conn' = [conn EXCEPT ![c] = "ready"]
                                            /\ owner' = [owner EXCEPT ![c] = None]
                     \/ UNCHANGED <<sync, conn, owner>>
                  /\ Goto(t, "spin")
                  /\ UNCHANGED <<async, worker, cancel, doomed, cleanup, held, index, queued, requested>>

\* The limit is reached, Open fails, or the connection is added and its statements
\* prepared. _openSyncConnectMutex is only ever taken by the owner of _cleanupMutex.
OpenDynamicSyncConnect(t) ==
    /\ pc[t] = "dynamic"
    /\ \/ /\ Len(sync) < MaxSync
          /\ \E c \in Conns : /\ Fresh(c)
                              /\ sync' = Append(sync, c)
                              /\ conn' = [conn EXCEPT ![c] = "ready"]
                              /\ owner' = [owner EXCEPT ![c] = None]
       \/ UNCHANGED <<sync, conn, owner>>
    /\ Goto(t, "spin")
    /\ UNCHANGED <<async, worker, cancel, doomed, cleanup, held, index, queued, requested>>

\* One round of the second loop: ++i % num_cons.
Spin(t) == LET i == (index[t] + 1) % Wrap
               c == sync[(i % Len(sync)) + 1] IN
    /\ pc[t] = "spin"
    /\ index' = [index EXCEPT ![t] = i]
    /\ \/ Take(t, c)
       \/ owner[c] # None /\ UNCHANGED <<owner, held, cleanup, pc>>
    /\ UNCHANGED <<sync, async, conn, worker, cancel, doomed, queued, requested>>

\* Variant of Unlock: the mutex stays locked.
UnlockForgotten(t) == /\ pc[t] = "using"
                      /\ held' = [held EXCEPT ![t] = None]
                      /\ index' = [index EXCEPT ![t] = 0]
                      /\ Goto(t, "idle")
                      /\ UNCHANGED <<sync, async, connVars, doomed, cleanup, queued, requested>>

\* The query returns: Unlock.
Unlock(t) == /\ pc[t] = "using"
             /\ owner' = [owner EXCEPT ![held[t]] = None]
             /\ held' = [held EXCEPT ![t] = None]
             /\ index' = [index EXCEPT ![t] = 0]
             /\ Goto(t, "idle")
             /\ UNCHANGED <<sync, async, conn, worker, cancel, doomed, cleanup, queued, requested>>

-------------------------------------------------------------------------------
\* The tasks of the scheduler, on the main thread.

\* A task that needs _cleanupMutex begins.
StartTask == /\ pc[Main] = "idle"
             /\ \E task \in {"wantClean", "wantPing"} : Goto(Main, task)
             /\ UNCHANGED <<sync, async, connVars, doomed, cleanup, held, index, queued, requested>>

\* CleanupConnections begins.
CleanupConnections == /\ Lock(Main, "wantClean", "cleanSync")
                      /\ UNCHANGED <<sync, async, connVars, doomed, held, index, queued, requested>>

\* What erase(remove_if(...)) leaves of a list: the others, in their order.
Erase(list, S) ==
    {left \in UNION {[1 .. n -> Range(list)] : n \in 0 .. Len(list)} :
        \E from \in [DOMAIN left -> DOMAIN list] :
            /\ \A i, j \in DOMAIN left : i < j => from[i] < from[j]
            /\ \A k \in DOMAIN list : list[k] \notin S <=> \E i \in DOMAIN left : from[i] = k
            /\ \A i \in DOMAIN left : left[i] = list[from[i]]}

\* Variant of Removable: the connection of Open is not spared.
RemovableAny(list) == SUBSET Range(list)

\* The connections for which CanRemoveConnection may be true.
Removable(list) == SUBSET (Range(list) \ Static)

\* remove_if and erase on the synchronous connections.
CleanSync == /\ pc[Main] = "cleanSync"
             /\ \E S \in Removable(sync) :
                    /\ sync' \in Erase(sync, S)
                    /\ conn' = [c \in Conns |-> IF c \in S THEN "closed" ELSE conn[c]]
             /\ Goto(Main, "cleanAsync")
             /\ UNCHANGED <<async, owner, worker, cancel, doomed, cleanup, held, index, queued, requested>>

\* The same on the asynchronous ones, whose destructors wait for their workers.
CleanAsync == /\ pc[Main] = "cleanAsync"
              /\ \E S \in Removable(async) :
                     /\ async' \in Erase(async, S)
                     /\ doomed' = S
              /\ Goto(Main, "join")
              /\ UNCHANGED <<sync, connVars, cleanup, held, index, queued, requested>>

\* ~MySQLConnection, ~AsyncDBQueueWorker: one connection after the other.
CancelWorker(c) == /\ c \in doomed
                   /\ \A d \in doomed : ~cancel[d]
                   /\ cancel' = [cancel EXCEPT ![c] = TRUE]
                   /\ UNCHANGED <<sync, async, conn, owner, worker, doomed, cleanup, pc, held,
                                  index, queued, requested>>

JoinWorker(c) == /\ c \in doomed
                 /\ cancel[c] /\ worker[c] = "done"
                 /\ Destroy(c)
                 /\ doomed' = doomed \ {c}
                 /\ UNCHANGED <<sync, async, owner, cleanup, pc, held, index, queued, requested>>

\* CleanupConnections returns.
Cleaned == /\ pc[Main] = "join"
           /\ doomed = {}
           /\ cleanup' = None
           /\ Goto(Main, "idle")
           /\ UNCHANGED <<sync, async, connVars, doomed, held, index, queued, requested>>

Enqueue == queued' = IF queued < QueueBound THEN queued + 1 ELSE queued

\* KeepAlive: lock the first connection if it is free, ping.
KeepAlive == /\ Lock(Main, "wantPing", "ping")
             /\ \/ /\ owner[Head(sync)] = None
                   /\ owner' = [owner EXCEPT ![Head(sync)] = Main]
                   /\ held' = [held EXCEPT ![Main] = Head(sync)]
                \/ /\ owner[Head(sync)] # None
                   /\ UNCHANGED <<owner, held>>
             /\ UNCHANGED <<sync, async, conn, worker, cancel, doomed, index, queued, requested>>

\* Unlock it, push a PingOperation, return.
Pinged == /\ pc[Main] = "ping"
          /\ owner' = IF held[Main] = None THEN owner
                      ELSE [owner EXCEPT ![held[Main]] = None]
          /\ held' = [held EXCEPT ![Main] = None]
          /\ Enqueue
          /\ cleanup' = None
          /\ Goto(Main, "idle")
          /\ UNCHANGED <<sync, async, conn, worker, cancel, doomed, index, requested>>

PushCheck == /\ pc[Main] = "idle"
             /\ requested' = TRUE
             /\ UNCHANGED <<sync, async, connVars, doomed, cleanup, pc, held, index, queued>>

\* Execute, AsyncQuery, CommitTransaction of any thread.
PushOperation == /\ queued < QueueBound
                 /\ pc[Main] \notin {"closing", "closed"}
                 /\ Enqueue
                 /\ UNCHANGED <<sync, async, connVars, doomed, cleanup, pc, held, index, requested>>

\* Close, once no other thread makes queries: the asynchronous connections go first.
Close == /\ pc[Main] = "idle"
         /\ \A t \in Users : pc[t] = "idle"
         /\ doomed' = Range(async)
         /\ async' = <<>>
         /\ Goto(Main, "closing")
         /\ UNCHANGED <<sync, connVars, cleanup, held, index, queued, requested>>

\* The synchronous connections.
CloseSync == /\ pc[Main] = "closing"
             /\ doomed = {}
             /\ sync' = <<>>
             /\ conn' = [c \in Conns |-> IF c \in Range(sync) THEN "closed" ELSE conn[c]]
             /\ Goto(Main, "closed")
             /\ UNCHANGED <<async, owner, worker, cancel, doomed, cleanup, held, index, queued, requested>>

-------------------------------------------------------------------------------
\* CheckAsyncQueue on the checker thread.

\* The size of the queue is read before the mutex is taken.
Check == /\ pc[Checker] = "idle"
         /\ requested
         /\ requested' = FALSE
         /\ IF queued < MaxQueue THEN UNCHANGED <<pc, index>>
            ELSE /\ Goto(Checker, "wantCheck")
                 /\ index' = [index EXCEPT ![Checker] = queued]
         /\ UNCHANGED <<sync, async, connVars, doomed, cleanup, held, queued>>

LockCheck == /\ Lock(Checker, "wantCheck", "check")
             /\ UNCHANGED <<sync, async, connVars, doomed, held, index, queued, requested>>

\* The loop counts i from 0 to queueSize in steps of _maxAsyncQueueSize; index is what
\* is left.
NextRound(rest) == index' = [index EXCEPT ![Checker] = IF rest > MaxQueue THEN rest - MaxQueue ELSE 0]

\* OpenDynamicAsyncConnect: the constructor of the connection starts its worker.
Construct == /\ pc[Checker] = "check"
             /\ index[Checker] > 0
             /\ Len(async) < MaxAsync
             /\ \E c \in Conns :
                    /\ Fresh(c)
                    /\ conn' = [conn EXCEPT ![c] = "new"]
                    /\ owner' = [owner EXCEPT ![c] = None]
                    /\ worker' = [worker EXCEPT ![c] = "idle"]
                    /\ cancel' = [cancel EXCEPT ![c] = FALSE]
                    /\ held' = [held EXCEPT ![Checker] = c]
             /\ Goto(Checker, "opening")
             /\ UNCHANGED <<sync, async, doomed, cleanup, index, queued, requested>>

\* The limit is reached (or, in the model, no object is left).
SkipOpen == /\ pc[Checker] = "check"
            /\ index[Checker] > 0
            /\ Len(async) >= MaxAsync \/ \A c \in Conns : ~Fresh(c)
            /\ NextRound(index[Checker])
            /\ UNCHANGED <<sync, async, connVars, doomed, cleanup, pc, held, queued, requested>>

\* Open succeeds: emplace_back. While Close is clearing the same vector the element
\* survives the clear or is lost.
Opened == /\ pc[Checker] = "opening"
          /\ conn' = [conn EXCEPT ![held[Checker]] = "open"]
          /\ \/ async' = Append(async, held[Checker])
             \/ pc[Main] = "closing" /\ UNCHANGED async
          /\ Goto(Checker, "prepare")
          /\ UNCHANGED <<sync, owner, worker, cancel, doomed, cleanup, held, index, queued, requested>>

\* Variant of OpenFails: the worker is not told.
OpenFailsSilently == /\ pc[Checker] = "opening"
                     /\ Goto(Checker, "drop")
                     /\ UNCHANGED <<sync, async, connVars, doomed, cleanup, held, index, queued,
                                    requested>>

\* Open fails: the unique_ptr destroys the connection.
OpenFails == /\ pc[Checker] = "opening"
             /\ cancel' = [cancel EXCEPT ![held[Checker]] = TRUE]
             /\ Goto(Checker, "drop")
             /\ UNCHANGED <<sync, async, conn, owner, worker, doomed, cleanup, held, index, queued,
                            requested>>

\* Back in the loop.
Round == /\ held' = [held EXCEPT ![Checker] = None]
         /\ NextRound(index[Checker])
         /\ Goto(Checker, "check")

Dropped == /\ pc[Checker] = "drop"
           /\ worker[held[Checker]] = "done"
           /\ Destroy(held[Checker])
           /\ Round
           /\ UNCHANGED <<sync, async, owner, doomed, cleanup, queued, requested>>

\* A connection that Close has destroyed meanwhile stays destroyed.
InitPrepareStatement == /\ pc[Checker] = "prepare"
                        /\ conn' = [conn EXCEPT ![held[Checker]] = IF @ = "open" THEN "ready" ELSE @]
                        /\ Round
                        /\ UNCHANGED <<sync, async, owner, worker, cancel, doomed, cleanup, queued,
                                       requested>>

Checked == /\ pc[Checker] = "check"
           /\ index[Checker] = 0
           /\ cleanup' = None
           /\ Goto(Checker, "idle")
           /\ UNCHANGED <<sync, async, connVars, doomed, held, index, queued, requested>>

-------------------------------------------------------------------------------
\* The worker of an asynchronous connection: see AsyncQueue.

Begin(c) == /\ worker[c] = "idle" /\ ~cancel[c]
            /\ queued > 0
            /\ queued' = queued - 1
            /\ worker' = [worker EXCEPT ![c] = "running"]
            /\ UNCHANGED <<sync, async, conn, owner, cancel, doomed, cleanup, pc, held, index, requested>>

Finish(c) == /\ worker[c] = "running"
             /\ worker' = [worker EXCEPT ![c] = "idle"]
             /\ UNCHANGED <<sync, async, conn, owner, cancel, doomed, cleanup, pc, held, index, queued,
                            requested>>

\* An operation taken just before the flag was set is dropped.
Exit(c) == /\ worker[c] = "idle" /\ cancel[c]
           /\ worker' = [worker EXCEPT ![c] = "done"]
           /\ UNCHANGED queued \/ (queued > 0 /\ queued' = queued - 1)
           /\ UNCHANGED <<sync, async, conn, owner, cancel, doomed, cleanup, pc, held, index, requested>>

-------------------------------------------------------------------------------
SyncQuery(t) == Enter(t) \/ Scan(t) \/ OpenDynamicSyncConnect(t) \/ Spin(t) \/ Unlock(t)

MainTask == \/ CleanupConnections \/ CleanSync \/ CleanAsync \/ Cleaned
            \/ KeepAlive \/ Pinged \/ CloseSync
            \/ \E c \in Conns : CancelWorker(c) \/ JoinWorker(c)

CheckAsyncQueue == \/ Check \/ LockCheck \/ Construct \/ SkipOpen \/ Opened \/ OpenFails
                   \/ Dropped \/ InitPrepareStatement \/ Checked

ExecuteAsyncQueue(c) == Begin(c) \/ Finish(c) \/ Exit(c)

Next == \/ \E t \in Callers : Request(t) \/ SyncQuery(t)
        \/ StartTask \/ PushCheck \/ PushOperation \/ Close
        \/ MainTask
        \/ CheckAsyncQueue
        \/ \E c \in Conns : ExecuteAsyncQueue(c)

Spec == Init /\ [][Next]_vars

\* Every thread runs, queries return, and _cleanupMutex is obtained by a thread that
\* keeps trying. New queries, tasks and operations are not forced.
Fairness == /\ \A t \in Callers : WF_vars(SyncQuery(t)) /\ SF_vars(Enter(t))
            /\ WF_vars(MainTask) /\ SF_vars(CleanupConnections) /\ SF_vars(KeepAlive)
            /\ WF_vars(CheckAsyncQueue) /\ SF_vars(LockCheck)
            /\ \A c \in Conns : WF_vars(ExecuteAsyncQueue(c))

FairSpec == Spec /\ Fairness

-------------------------------------------------------------------------------
\* No two threads use a connection at a time, and a thread that uses one has it locked.
ExclusiveUse == \A t \in Callers : pc[t] = "using" => held[t] # None /\ owner[held[t]] = t

\* The limits hold however many threads look for a connection at once, and no
\* connection is in a list twice.
WithinLimits == /\ Len(sync) <= MaxSync /\ Len(async) <= MaxAsync
                /\ IsInjective(sync) /\ IsInjective(async)

\* Until Close the connections made by Open stay, and first: KeepAlive and
\* EscapeString take front() without looking.
StaticFirst == pc[Main] \notin {"closing", "closed"} =>
    /\ sync # <<>> /\ Head(sync) = StaticSync /\ conn[StaticSync] = "ready"
    /\ async # <<>> /\ Head(async) = StaticAsync /\ conn[StaticAsync] = "ready"

Critical == {"scan", "dynamic", "spin", "cleanSync", "cleanAsync", "join", "ping",
             "check", "opening", "drop", "prepare"}

\* Who is where while _cleanupMutex is held. The checker has steps of its own, and a
\* caller has a connection only while it uses or pings it.
Discipline ==
    /\ \A t \in Threads : pc[t] \in Critical <=> cleanup = t
    /\ pc[Checker] \in {"idle", "wantCheck", "check", "opening", "drop", "prepare"}
    /\ \A t \in Callers : pc[t] \notin {"wantCheck", "check", "opening", "drop", "prepare"}
    /\ \A t \in Users : pc[t] \in {"idle", "want", "scan", "dynamic", "spin", "using"}
    /\ \A t \in Callers : pc[t] = "scan" => index[t] > 0
    /\ \A t \in Users : pc[Main] \in {"closing", "closed"} => pc[t] = "idle"

\* A locked connection and its user know each other.
Held == \A t \in Callers : /\ pc[t] = "using" => held[t] # None
                           /\ held[t] # None => pc[t] \in {"using", "ping"} /\ owner[held[t]] = t

\* Every object has one place: a list, the destructor, or the hands of the checker. An
\* object in a list exists.
Places ==
    /\ \A c \in Range(sync) : conn[c] = "ready" /\ c \notin Range(async) \cup doomed
    /\ \A c \in Range(async) : conn[c] \in {"open", "ready"} /\ c \notin doomed
    /\ \A c \in doomed : conn[c] \in {"open", "ready"}
    /\ doomed # {} => pc[Main] \in {"join", "closing"}
    /\ pc[Checker] \in {"opening", "drop"} =>
           /\ held[Checker] # None /\ conn[held[Checker]] = "new"
           /\ Len(async) < MaxAsync
    /\ pc[Checker] = "prepare" =>
           /\ held[Checker] # None /\ conn[held[Checker]] \in {"open", "closed"}
           /\ held[Checker] \notin Range(sync)

IndInv == TypeOK /\ Discipline /\ Held /\ Places /\ ExclusiveUse /\ WithinLimits /\ StaticFirst

\* A thread that asks for a connection gets one, although the search holds
\* _cleanupMutex and spins while every connection is in use.
Obtains == \A t \in Callers : pc[t] = "want" ~> pc[t] = "using"

\* CleanupConnections and Close return, although they wait for running operations.
MainReturns == /\ pc[Main] = "wantClean" ~> pc[Main] = "idle"
               /\ pc[Main] = "closing" ~> pc[Main] = "closed"

\* DatabaseWorkerPool.h:251: "Caller MUST call t->Unlock() after touching the MySQL
\* context". So the connection of a caller exists until then.
UsedConnectionExists == \A t \in Callers : pc[t] = "using" => conn[held[t]] = "ready"

\* MySQLConnection.cpp:200: a statement "Can only be null if preparation failed, server
\* side error or bad query". So an operation is executed on a prepared connection.
WorkersArePrepared == \A c \in Conns : worker[c] = "running" => conn[c] = "ready"

\* DatabaseWorkerPool.cpp:180: Close runs "after any other thread tasks in the core have
\* exited, meaning there can be no concurrent access at this point".
CloseIsAlone == pc[Main] = "closing" => pc[Checker] \in {"idle", "wantCheck"}
===============================================================================
