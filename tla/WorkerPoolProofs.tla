--------------------------- MODULE WorkerPoolProofs ---------------------------
(***************************************************************************)
(* The pool, for any number of threads and connections and any limits:     *)
(* the types, who is where while _cleanupMutex is held and who holds       *)
(* which connection; the places of the connections, the limits and the     *)
(* order of the lists.                                                     *)
(***************************************************************************)
EXTENDS WorkerPool, TLAPS

\* What is left of a list after erase(remove_if(...)).
LEMMA EraseFacts ==
    ASSUME NEW list \in Seq(Conns), NEW S \in SUBSET Conns, NEW left \in Erase(list, S)
    PROVE  /\ left \in Seq(Conns)
           /\ Len(left) <= Len(list)
           /\ Range(left) \subseteq Range(list) \ S
           /\ IsInjective(list) => IsInjective(left)
           /\ list # <<>> /\ Head(list) \notin S => left # <<>> /\ Head(left) = Head(list)
<1>1. PICK n \in 0 .. Len(list) : left \in [1 .. n -> Range(list)]
  BY Zenon DEF Erase
<1>2. PICK from \in [DOMAIN left -> DOMAIN list] :
            /\ \A i, j \in DOMAIN left : i < j => from[i] < from[j]
            /\ \A k \in DOMAIN list : list[k] \notin S <=> \E i \in DOMAIN left : from[i] = k
            /\ \A i \in DOMAIN left : left[i] = list[from[i]]
  BY SMTT(30) DEF Erase
<1>3. Len(list) \in Nat /\ DOMAIN list = 1 .. Len(list) /\ n \in Nat /\ DOMAIN left = 1 .. n
  BY <1>1
<1>4. Range(list) \subseteq Conns
  BY <1>3 DEF Range
<1>5. left \in Seq(Conns) /\ Len(left) = n
  <2>1. left \in [1 .. n -> Conns]
    BY <1>1, <1>4
  <2> QED
    BY <1>3, <2>1
<1>6. Range(left) \subseteq Range(list) \ S
  BY <1>2, <1>3 DEF Range
<1>7. ASSUME IsInjective(list) PROVE IsInjective(left)
  <2> SUFFICES ASSUME NEW i \in 1 .. n, NEW j \in 1 .. n, left[i] = left[j] PROVE i = j
    BY <1>3 DEF IsInjective
  <2>1. from[i] = from[j]
    <3>1. from[i] \in DOMAIN list /\ from[j] \in DOMAIN list /\ list[from[i]] = list[from[j]]
      BY Zenon, <1>2, <1>3
    <3> QED
      BY <1>7, <3>1 DEF IsInjective
  <2>2. i \in DOMAIN left /\ j \in DOMAIN left
    BY <1>3
  <2>3. from[i] \in Int /\ from[j] \in Int /\ i \in Int /\ j \in Int
    BY <1>2, <1>3, <2>2
  <2>4. (i < j => from[i] < from[j]) /\ (j < i => from[j] < from[i])
    BY <1>2, <2>2
  <2> QED
    BY <2>1, <2>3, <2>4
<1>8. ASSUME list # <<>>, Head(list) \notin S PROVE left # <<>> /\ Head(left) = Head(list)
  <2>1. 1 \in DOMAIN list /\ Head(list) = list[1]
    BY <1>3, <1>8
  <2>2. PICK i \in 1 .. n : from[i] = 1
    BY SMTT(30), <1>2, <1>3, <1>8, <2>1
  <2>3. i = 1
    <3>1. 1 \in DOMAIN left /\ i \in DOMAIN left
      BY <1>3, <2>2
    <3>2. from[1] \in 1 .. Len(list)
      BY <1>2, <1>3, <3>1
    <3>3. 1 < i => from[1] < from[i]
      BY <1>2, <3>1
    <3> QED
      BY <1>3, <2>2, <3>2, <3>3
  <2> QED
    BY <1>2, <1>3, <1>5, <2>1, <2>2, <2>3
<1> QED
  BY <1>3, <1>5, <1>6, <1>7, <1>8

\* A connection is added to a list.
LEMMA AppendFacts ==
    ASSUME NEW list \in Seq(Conns), NEW c \in Conns, c \notin Range(list)
    PROVE  /\ Append(list, c) \in Seq(Conns)
           /\ Len(Append(list, c)) = Len(list) + 1
           /\ Range(Append(list, c)) = Range(list) \cup {c}
           /\ IsInjective(list) => IsInjective(Append(list, c))
           /\ list # <<>> => Append(list, c) # <<>> /\ Head(Append(list, c)) = Head(list)
<1> DEFINE longer == Append(list, c)
<1>1. /\ longer \in Seq(Conns) /\ Len(longer) = Len(list) + 1 /\ Len(list) \in Nat
      /\ DOMAIN longer = 1 .. Len(list) + 1 /\ DOMAIN list = 1 .. Len(list)
      /\ \A i \in 1 .. Len(list) : longer[i] = list[i]
      /\ longer[Len(list) + 1] = c
  OBVIOUS
<1> HIDE DEF longer
<1>2. Range(longer) = Range(list) \cup {c}
  <2>1. ASSUME NEW x \in Range(longer) PROVE x \in Range(list) \cup {c}
    <3>1. PICK i \in 1 .. Len(list) + 1 : longer[i] = x
      BY <1>1 DEF Range
    <3>2. CASE i = Len(list) + 1
      BY <1>1, <3>1, <3>2
    <3>3. CASE i # Len(list) + 1
      <4>1. i \in 1 .. Len(list)
        BY <1>1, <3>3
      <4> QED
        BY <1>1, <3>1, <4>1 DEF Range
    <3> QED
      BY <3>2, <3>3
  <2>2. c \in Range(longer)
    <3>1. Len(list) + 1 \in DOMAIN longer
      BY <1>1
    <3> QED
      BY <1>1, <3>1 DEF Range
  <2>3. ASSUME NEW x \in Range(list) PROVE x \in Range(longer)
    <3>1. PICK i \in 1 .. Len(list) : list[i] = x
      BY <1>1 DEF Range
    <3>2. i \in DOMAIN longer /\ longer[i] = x
      BY <1>1, <3>1
    <3> QED
      BY <3>2 DEF Range
  <2> QED
    BY <2>1, <2>2, <2>3
<1>3. ASSUME IsInjective(list) PROVE IsInjective(longer)
  <2> SUFFICES ASSUME NEW i \in 1 .. Len(list) + 1, NEW j \in 1 .. Len(list) + 1,
                      longer[i] = longer[j]
               PROVE  i = j
    BY <1>1 DEF IsInjective
  <2>1. \A k \in 1 .. Len(list) : longer[k] # c
    BY SMTT(30), <1>1 DEF Range
  <2>2. CASE i \in 1 .. Len(list) /\ j \in 1 .. Len(list)
    BY <1>1, <1>3, <2>2 DEF IsInjective
  <2>3. CASE i = Len(list) + 1 \/ j = Len(list) + 1
    BY <1>1, <2>1, <2>3
  <2> QED
    BY <1>1, <2>2, <2>3
<1>4. list # <<>> => longer # <<>> /\ Head(longer) = Head(list)
  BY <1>1
<1> QED
  BY <1>1, <1>2, <1>3, <1>4 DEF longer

\* A connection in a list is a connection.
LEMMA ListedIsConn == ASSUME NEW list \in Seq(Conns) PROVE Range(list) \subseteq Conns
BY DEF Range

\* Connections that exist cannot be allocated again.
LEMMA FreshIsUnlisted ==
    ASSUME Places, NEW c \in Conns, Fresh(c)
    PROVE  c \notin Range(sync) /\ c \notin Range(async) /\ c \notin doomed /\ c \notin Static
BY DEF Fresh, Places

\* The types of what a successful LockIfReady changes.
LEMMA TakeType ==
    ASSUME TypeOK, NEW t \in Callers, NEW c \in Conns, Take(t, c)
    PROVE  /\ owner' \in [Conns -> Callers \cup {None}]
           /\ held' \in [Threads -> Conns \cup {None}]
           /\ cleanup' \in Threads \cup {None}
           /\ pc' = [pc EXCEPT ![t] = "using"]
BY PoolAssumption DEF TypeOK, Take, Goto, Threads

\* The connections both loops of GetFreeConnection look at.
LEMMA LookedAt ==
    ASSUME TypeOK, sync # <<>>, NEW t \in Threads
    PROVE  /\ index[t] \in 1 .. Len(sync) => sync[index[t]] \in Range(sync) /\ sync[index[t]] \in Conns
           /\ (index[t] + 1) % Wrap \in Nat
           /\ sync[(((index[t] + 1) % Wrap) % Len(sync)) + 1] \in Conns
           /\ Head(sync) \in Range(sync) /\ Head(sync) \in Conns
<1>1. /\ sync \in Seq(Conns) /\ index[t] \in Nat
      /\ Len(sync) \in Nat \ {0} /\ DOMAIN sync = 1 .. Len(sync)
  BY DEF TypeOK
<1>2. (index[t] + 1) % Wrap \in Nat
  BY <1>1, PoolAssumption
<1>3. (((index[t] + 1) % Wrap) % Len(sync)) + 1 \in 1 .. Len(sync)
  <2>1. \A i \in Nat : (i % Len(sync)) + 1 \in 1 .. Len(sync)
    BY <1>1
  <2> QED
    BY <1>2, <2>1, Zenon
<1>4. \A i \in 1 .. Len(sync) : sync[i] \in Range(sync) /\ sync[i] \in Conns
  BY <1>1 DEF Range
<1>5. Head(sync) = sync[1] /\ 1 \in 1 .. Len(sync)
  BY <1>1
<1> QED
  BY <1>2, <1>3, <1>4, <1>5, Zenon

\* A thread that looks for a connection, or pings, finds the list not empty.
LEMMA SyncNonempty ==
    ASSUME TypeOK, Discipline, StaticFirst, NEW t \in Callers,
           pc[t] \in {"want", "scan", "dynamic", "spin", "using", "ping", "wantPing"}
    PROVE  /\ pc[Main] \notin {"closing", "closed"}
           /\ sync # <<>> /\ Head(sync) = StaticSync
<1>1. CASE t = Main
  BY <1>1 DEF StaticFirst
<1>2. CASE t # Main
  BY <1>2 DEF StaticFirst, Discipline, Callers
<1> QED
  BY <1>1, <1>2

\* Every step keeps the types of the pool's state.
LEMMA TypeStep == IndInv /\ [Next]_vars => TypeOK'
<1> SUFFICES ASSUME IndInv, [Next]_vars PROVE TypeOK'
  OBVIOUS
<1> USE PoolAssumption DEF Threads, Callers
<1>0. TypeOK /\ Discipline /\ Held /\ Places /\ ExclusiveUse /\ WithinLimits /\ StaticFirst
  BY DEF IndInv
<1>1. ASSUME NEW t \in Callers, Request(t) PROVE TypeOK'
  BY <1>0, <1>1 DEF Request, Goto, connVars, TypeOK
<1>2. ASSUME NEW t \in Callers, Enter(t) PROVE TypeOK'
  BY <1>0, <1>2 DEF Enter, Lock, Goto, connVars, TypeOK
<1>3. ASSUME NEW t \in Callers, Scan(t) PROVE TypeOK'
  <2>1. sync # <<>>
    BY <1>0, <1>3, SyncNonempty DEF Scan
  <2>2. index[t] \in Nat /\ index[t] > 0 /\ Len(sync) \in Nat
    BY <1>0, <1>3 DEF Scan, Discipline, TypeOK
  <2>3. CASE index[t] <= Len(sync) /\ Take(t, sync[index[t]]) /\ UNCHANGED index
    <3>1. sync[index[t]] \in Conns
      BY SMTT(30), <1>0, <2>1, <2>2, <2>3, LookedAt
    <3>2. /\ owner' \in [Conns -> Callers \cup {None}]
          /\ held' \in [Threads -> Conns \cup {None}]
          /\ cleanup' \in Threads \cup {None}
          /\ pc' = [pc EXCEPT ![t] = "using"]
      BY SMTT(30), <1>0, <2>3, <3>1, TakeType
    <3> QED
      BY <1>0, <1>3, <2>3, <3>2 DEF Scan, TypeOK
  <2>4. CASE /\ index' = [index EXCEPT ![t] = index[t] + 1] /\ UNCHANGED <<owner, held, cleanup, pc>>
    BY <1>0, <1>3, <2>2, <2>4 DEF Scan, TypeOK
  <2>5. CASE /\ Goto(t, "dynamic")
             /\ index' = [index EXCEPT ![t] = 0] /\ UNCHANGED <<owner, held, cleanup>>
    BY <1>0, <1>3, <2>2, <2>5 DEF Scan, Goto, TypeOK
  <2> QED
    BY <1>3, <2>3, <2>4, <2>5 DEF Scan
<1>4. ASSUME NEW t \in Callers, OpenDynamicSyncConnect(t) PROVE TypeOK'
  <2>1. sync \in Seq(Conns)
    BY <1>0 DEF TypeOK
  <2>2. sync' \in Seq(Conns)
    BY <1>4, <2>1 DEF OpenDynamicSyncConnect
  <2>3. /\ conn' \in [Conns -> {"none", "new", "open", "ready", "closed"}]
        /\ owner' \in [Conns -> Callers \cup {None}]
    BY ZenonT(30), <1>0, <1>4 DEF OpenDynamicSyncConnect, TypeOK
  <2> QED
    BY <1>0, <1>4, <2>2, <2>3 DEF OpenDynamicSyncConnect, Goto, TypeOK
<1>5. ASSUME NEW t \in Callers, Spin(t) PROVE TypeOK'
  <2>1. sync # <<>>
    BY <1>0, <1>5, SyncNonempty DEF Spin
  <2> DEFINE i == (index[t] + 1) % Wrap
  <2>2. i \in Nat /\ sync[(i % Len(sync)) + 1] \in Conns
    BY <1>0, <2>1, LookedAt
  <2>3. index' \in [Threads -> Nat]
    BY Zenon, <1>0, <1>5, <2>2 DEF Spin, TypeOK
  <2>4. CASE Take(t, sync[(i % Len(sync)) + 1])
    BY ZenonT(30), <1>0, <1>5, <2>2, <2>3, <2>4, TakeType DEF Spin, TypeOK
  <2>5. CASE UNCHANGED <<owner, held, cleanup, pc>>
    BY Zenon, <1>0, <1>5, <2>3, <2>5 DEF Spin, TypeOK
  <2> QED
    BY <1>5, <2>4, <2>5 DEF Spin
<1>6. ASSUME NEW t \in Callers, Unlock(t) PROVE TypeOK'
  BY Zenon, <1>0, <1>6 DEF Unlock, Goto, connVars, TypeOK
<1>7. CASE StartTask
  BY <1>0, <1>7 DEF StartTask, Goto, connVars, TypeOK
<1>8. CASE PushCheck
  BY <1>0, <1>8 DEF PushCheck, Goto, connVars, TypeOK
<1>9. CASE PushOperation
  BY <1>0, <1>9 DEF PushOperation, Enqueue, Goto, connVars, TypeOK
<1>10. CASE Close
  <2>1. async' \in Seq(Conns) /\ doomed' \in SUBSET Conns
    BY <1>0, <1>10, ListedIsConn DEF Close, TypeOK
  <2> QED
    BY <1>0, <1>10, <2>1 DEF Close, Goto, connVars, TypeOK
<1>11. CASE CleanupConnections
  BY <1>0, <1>11 DEF CleanupConnections, Lock, Goto, connVars, TypeOK
<1>12. CASE CleanSync
  <2>1. PICK S \in Removable(sync) : /\ sync' \in Erase(sync, S)
                                   /\ conn' = [c \in Conns |-> IF c \in S THEN "closed" ELSE conn[c]]
    BY Zenon, <1>12 DEF CleanSync
  <2>2. S \in SUBSET Conns
    BY <1>0, ListedIsConn DEF Removable, TypeOK
  <2>3. sync' \in Seq(Conns)
    BY <1>0, <2>1, <2>2, EraseFacts DEF TypeOK
  <2> QED
    BY <1>0, <1>12, <2>1, <2>3 DEF CleanSync, Goto, TypeOK
<1>13. CASE CleanAsync
  <2>1. PICK S \in Removable(async) : async' \in Erase(async, S) /\ doomed' = S
    BY Zenon, <1>13 DEF CleanAsync
  <2>2. S \in SUBSET Conns
    BY <1>0, ListedIsConn DEF Removable, TypeOK
  <2>3. async' \in Seq(Conns)
    BY Zenon, <1>0, <2>1, <2>2, EraseFacts DEF TypeOK
  <2> QED
    BY <1>0, <1>13, <2>1, <2>2, <2>3 DEF CleanAsync, Goto, connVars, TypeOK
<1>14. CASE Cleaned
  BY <1>0, <1>14 DEF Cleaned, Goto, connVars, TypeOK
<1>15. CASE KeepAlive
  <2>1. sync # <<>>
    BY Zenon, <1>0, <1>15, SyncNonempty DEF KeepAlive, Lock
  <2>2. Head(sync) \in Conns
    BY <1>0, <2>1, LookedAt
  <2>3. /\ owner' \in [Conns -> Callers \cup {None}]
        /\ held' \in [Threads -> Conns \cup {None}]
    BY SMTT(30), <1>0, <1>15, <2>2 DEF KeepAlive, TypeOK
  <2> QED
    BY Zenon, <1>0, <1>15, <2>3 DEF KeepAlive, Lock, Goto, TypeOK
<1>16. CASE Pinged
  BY <1>0, <1>16 DEF Pinged, Enqueue, Goto, connVars, TypeOK
<1>17. CASE CloseSync
  BY <1>0, <1>17 DEF CloseSync, Goto, connVars, TypeOK
<1>18. CASE Check
  <2>0. queued \in Nat /\ index \in [Threads -> Nat]
    BY <1>0 DEF TypeOK
  <2>1. index' \in [Threads -> Nat] /\ requested' \in BOOLEAN
    BY Zenon, <1>18, <2>0 DEF Check
  <2>2. pc' = pc \/ Goto(Checker, "wantCheck")
    BY <1>18 DEF Check
  <2> QED
    BY Zenon, <1>0, <1>18, <2>1, <2>2 DEF Check, Goto, connVars, TypeOK
<1>19. CASE LockCheck
  BY Zenon, <1>0, <1>19 DEF LockCheck, Lock, Goto, connVars, TypeOK
<1>20. CASE Construct
  BY <1>0, <1>20 DEF Construct, Goto, connVars, TypeOK
<1>21. CASE SkipOpen
  BY SMTT(30), <1>0, <1>21 DEF SkipOpen, NextRound, Goto, connVars, TypeOK
<1>22. CASE Opened
  <2>1. held[Checker] \in Conns
    BY <1>0, <1>22 DEF Opened, Places, TypeOK
  <2>0. async \in Seq(Conns)
    BY <1>0 DEF TypeOK
  <2>2. async' \in Seq(Conns)
    BY <1>22, <2>0, <2>1, SMTT(30) DEF Opened
  <2> QED
    BY Zenon, <1>0, <1>22, <2>2 DEF Opened, Goto, TypeOK
<1>23. CASE OpenFails
  BY Zenon, <1>0, <1>23 DEF OpenFails, Goto, connVars, TypeOK
<1>24. CASE Dropped
  <2>1. index' \in [Threads -> Nat]
    BY <1>0, <1>24 DEF Dropped, Round, NextRound, TypeOK
  <2>2. held[Checker] \in Conns /\ held' \in [Threads -> Conns \cup {None}]
    BY <1>0, <1>24 DEF Dropped, Round, Places, TypeOK
  <2> QED
    BY Zenon, <1>0, <1>24, <2>1, <2>2 DEF Dropped, Round, Goto, Destroy, TypeOK
<1>25. CASE InitPrepareStatement
  <2>1. index' \in [Threads -> Nat]
    BY <1>0, <1>25 DEF InitPrepareStatement, Round, NextRound, TypeOK
  <2>2. held[Checker] \in Conns /\ held' \in [Threads -> Conns \cup {None}]
    BY <1>0, <1>25 DEF InitPrepareStatement, Round, Places, TypeOK
  <2> QED
    BY Zenon, <1>0, <1>25, <2>1, <2>2 DEF InitPrepareStatement, Round, Goto, TypeOK
<1>26. CASE Checked
  BY <1>0, <1>26 DEF Checked, Goto, connVars, TypeOK
<1>27. ASSUME NEW c \in Conns, CancelWorker(c) PROVE TypeOK'
  BY <1>0, <1>27 DEF CancelWorker, Goto, connVars, TypeOK
<1>28. ASSUME NEW c \in Conns, JoinWorker(c) PROVE TypeOK'
  BY Zenon, <1>0, <1>28 DEF JoinWorker, Destroy, Goto, connVars, TypeOK
<1>29. ASSUME NEW c \in Conns, Begin(c) PROVE TypeOK'
  BY <1>0, <1>29 DEF Begin, Goto, connVars, TypeOK
<1>30. ASSUME NEW c \in Conns, Finish(c) PROVE TypeOK'
  BY <1>0, <1>30 DEF Finish, Goto, connVars, TypeOK
<1>31. ASSUME NEW c \in Conns, Exit(c) PROVE TypeOK'
  BY SMTT(30), <1>0, <1>31 DEF Exit, Goto, connVars, TypeOK
<1>32. CASE UNCHANGED vars
  BY Zenon, <1>0, <1>32 DEF vars, connVars, TypeOK
<1> QED
  BY <1>1, <1>2, <1>3, <1>4, <1>5, <1>6, <1>7, <1>8, <1>9, <1>10, <1>11, <1>12, <1>13,
     <1>14, <1>15, <1>16, <1>17, <1>18, <1>19, <1>20, <1>21, <1>22, <1>23, <1>24, <1>25,
     <1>26, <1>27, <1>28, <1>29, <1>30, <1>31, <1>32
     DEF Next, SyncQuery, MainTask, CheckAsyncQueue, ExecuteAsyncQueue

\* GetFreeConnection returns: the caller that found a free connection leaves
\* _cleanupMutex, which it held.
LEMMA TakenDiscipline ==
    ASSUME TypeOK, Discipline, NEW t \in Callers, pc[t] \in {"scan", "spin"},
           Goto(t, "using"), cleanup' = None,
           \A u \in Threads : u # t => index'[u] = index[u]
    PROVE  Discipline'
<1> USE PoolAssumption DEF Threads, Callers
<1>1. /\ t \in Threads /\ t # Checker /\ pc[t] \in Critical
      /\ \A u \in Threads : pc'[u] = IF u = t THEN "using" ELSE pc[u]
  BY Zenon DEF TypeOK, Goto, Critical
<1>2. cleanup = t /\ None \notin Threads
  BY Zenon, <1>1 DEF Discipline
<1>3. \A u \in Threads : pc'[u] \in Critical <=> cleanup' = u
  BY Zenon, <1>1, <1>2 DEF Discipline, Critical
<1> QED
  BY <1>1, <1>2, <1>3 DEF Discipline

\* _cleanupMutex protects what it should, and every thread has steps of its own.
LEMMA DisciplineStep == IndInv /\ [Next]_vars => Discipline'
<1> SUFFICES ASSUME IndInv, [Next]_vars PROVE Discipline'
  OBVIOUS
<1> USE PoolAssumption DEF Threads, Callers
<1>0. TypeOK /\ Discipline /\ Held /\ Places /\ ExclusiveUse /\ WithinLimits /\ StaticFirst
  BY DEF IndInv
<1>frame. UNCHANGED <<pc, cleanup, index>> => Discipline'
  BY <1>0 DEF Discipline
<1>1. ASSUME NEW t \in Callers, Request(t) PROVE Discipline'
  BY Zenon, <1>0, <1>1 DEF Request, Goto, connVars, Discipline, TypeOK, Critical
<1>2. ASSUME NEW t \in Callers, Enter(t) PROVE Discipline'
  BY <1>0, <1>2 DEF Enter, Lock, Goto, connVars, Discipline, TypeOK, Critical
<1>3. ASSUME NEW t \in Callers, Scan(t) PROVE Discipline'
  <2>1. index[t] \in Nat /\ t \in Threads /\ t # Checker
    BY <1>0 DEF TypeOK
  <2>2. CASE Take(t, sync[index[t]]) /\ UNCHANGED index
    BY Zenon, <1>0, <1>3, <2>2, TakenDiscipline DEF Scan, Take
  <2>3. CASE index' = [index EXCEPT ![t] = index[t] + 1] /\ UNCHANGED <<owner, held, cleanup, pc>>
    <3>1. index \in [Threads -> Nat] /\ \A u \in Callers : pc[u] = "scan" => index[u] > 0
      BY Zenon, <1>0 DEF Discipline, TypeOK
    <3>2. \A u \in Callers : pc[u] = "scan" => index'[u] > 0
      BY <2>3, <3>1
    <3> QED
      BY Zenon, <1>0, <2>3, <3>2 DEF Discipline
  <2>4. CASE /\ Goto(t, "dynamic")
             /\ index' = [index EXCEPT ![t] = 0] /\ UNCHANGED <<owner, held, cleanup>>
    BY ZenonT(30), <1>0, <1>3, <2>1, <2>4 DEF Scan, Goto, Discipline, TypeOK, Critical
  <2> QED
    BY Zenon, <1>3, <2>2, <2>3, <2>4 DEF Scan
<1>4. ASSUME NEW t \in Callers, OpenDynamicSyncConnect(t) PROVE Discipline'
  BY Zenon, <1>0, <1>4 DEF OpenDynamicSyncConnect, Goto, connVars, Discipline, TypeOK, Critical
<1>5. ASSUME NEW t \in Callers, Spin(t) PROVE Discipline'
  <2> DEFINE i == (index[t] + 1) % Wrap
  <2>1. /\ pc[t] = "spin" /\ t \in Threads /\ t # Checker
        /\ \A u \in Threads : u # t => index'[u] = index[u]
    BY Zenon, <1>0, <1>5 DEF Spin, TypeOK
  <2>2. CASE Take(t, sync[(i % Len(sync)) + 1])
    BY Zenon, <1>0, <2>1, <2>2, TakenDiscipline DEF Take
  <2>3. CASE UNCHANGED <<owner, held, cleanup, pc>>
    BY Zenon, <1>0, <2>1, <2>3 DEF Discipline, TypeOK
  <2> QED
    BY Zenon, <1>5, <2>2, <2>3 DEF Spin
<1>6. ASSUME NEW t \in Callers, Unlock(t) PROVE Discipline'
  BY Zenon, <1>0, <1>6 DEF Unlock, Goto, connVars, Discipline, TypeOK, Critical
<1>7. CASE PushCheck \/ PushOperation
  BY Zenon, <1>7, <1>frame DEF PushCheck, PushOperation, connVars
<1>8. CASE StartTask
  BY <1>0, <1>8 DEF StartTask, Goto, connVars, Discipline, TypeOK, Critical
<1>9. CASE Close
  BY <1>0, <1>9 DEF Close, Goto, connVars, Discipline, TypeOK, Critical
<1>10. CASE CleanupConnections
  BY <1>0, <1>10 DEF CleanupConnections, Lock, Goto, connVars, Discipline, TypeOK, Critical
<1>11. CASE CleanSync
  BY Zenon, <1>0, <1>11 DEF CleanSync, Removable, Goto, connVars, Discipline, TypeOK, Critical
<1>12. CASE CleanAsync
  BY Zenon, <1>0, <1>12 DEF CleanAsync, Removable, Goto, connVars, Discipline, TypeOK, Critical
<1>13. CASE Cleaned
  BY <1>0, <1>13 DEF Cleaned, Goto, connVars, Discipline, TypeOK, Critical
<1>14. CASE KeepAlive
  BY <1>0, <1>14 DEF KeepAlive, Lock, Goto, connVars, Discipline, TypeOK, Critical
<1>15. CASE Pinged
  BY <1>0, <1>15 DEF Pinged, Enqueue, Goto, connVars, Discipline, TypeOK, Critical
<1>16. CASE CloseSync
  BY Zenon, <1>0, <1>16 DEF CloseSync, Goto, connVars, Discipline, TypeOK, Critical
<1>17. CASE Check
  <2>1. /\ pc' = pc \/ Goto(Checker, "wantCheck")
        /\ \A t \in Callers : index'[t] = index[t]
        /\ cleanup' = cleanup /\ pc[Checker] = "idle"
    BY <1>0, <1>17 DEF Check, TypeOK
  <2> QED
    BY <1>0, <2>1 DEF Goto, Discipline, TypeOK, Critical
<1>18. CASE LockCheck
  BY <1>0, <1>18 DEF LockCheck, Lock, Goto, connVars, Discipline, TypeOK, Critical
<1>19. CASE Construct
  BY Zenon, <1>0, <1>19 DEF Construct, Goto, connVars, Discipline, TypeOK, Critical
<1>20. CASE SkipOpen
  BY Zenon, <1>0, <1>20 DEF SkipOpen, NextRound, Goto, connVars, Discipline, TypeOK, Critical
<1>21. CASE Opened
  BY Zenon, <1>0, <1>21 DEF Opened, Goto, connVars, Discipline, TypeOK, Critical
<1>22. CASE OpenFails
  BY Zenon, <1>0, <1>22 DEF OpenFails, Goto, connVars, Discipline, TypeOK, Critical
<1>23. CASE Dropped
  BY ZenonT(30), <1>0, <1>23 DEF Dropped, Destroy, Round, NextRound, Goto, connVars, Discipline,
     TypeOK, Critical
<1>24. CASE InitPrepareStatement
  BY Zenon, <1>0, <1>24 DEF InitPrepareStatement, Round, NextRound, Goto, connVars, Discipline,
     TypeOK, Critical
<1>25. CASE Checked
  BY <1>0, <1>25 DEF Checked, Goto, connVars, Discipline, TypeOK, Critical
<1>26. ASSUME NEW c \in Conns, CancelWorker(c) \/ JoinWorker(c) \/ Begin(c) \/ Finish(c) \/ Exit(c) PROVE Discipline'
  BY Zenon, <1>26, <1>frame DEF CancelWorker, JoinWorker, Begin, Finish, Exit, connVars
<1>27. CASE UNCHANGED vars
  BY <1>27, <1>frame DEF vars, connVars
<1> QED
  BY Zenon, <1>1, <1>2, <1>3, <1>4, <1>5, <1>6, <1>7, <1>8, <1>9, <1>10, <1>11, <1>12, <1>13,
     <1>14, <1>15, <1>16, <1>17, <1>18, <1>19, <1>20, <1>21, <1>22, <1>23, <1>24, <1>25,
     <1>26, <1>27
     DEF Next, SyncQuery, MainTask, CheckAsyncQueue, ExecuteAsyncQueue

\* A free connection is locked by a thread that has none.
LEMMA LockedByOne ==
    ASSUME TypeOK, Held, NEW t \in Callers, NEW c \in Conns, owner[c] = None,
           NEW p \in {"using", "ping"},
           owner' = [owner EXCEPT ![c] = t], held' = [held EXCEPT ![t] = c], Goto(t, p)
    PROVE  Held'
<1> USE PoolAssumption DEF Threads
<1> SUFFICES ASSUME NEW u \in Callers
             PROVE  /\ pc'[u] = "using" => held'[u] # None
                    /\ held'[u] # None => pc'[u] \in {"using", "ping"} /\ owner'[held'[u]] = u
  BY Zenon DEF Held
<1>1. CASE u = t
  BY Zenon, <1>1 DEF TypeOK, Goto
<1>2. CASE u # t
  <2>1. pc'[u] = pc[u] /\ held'[u] = held[u]
    BY Zenon, <1>2 DEF TypeOK, Goto
  <2>2. held[u] # None => held[u] \in Conns /\ held[u] # c
    BY <1>2, Callers \subseteq Threads, None \notin Callers DEF TypeOK, Held, Callers
  <2>3. held[u] # None => owner'[held[u]] = owner[held[u]]
    BY <2>2 DEF TypeOK
  <2> QED
    BY Zenon, <2>1, <2>3 DEF Held
<1> QED
  BY <1>1, <1>2

\* A mutex nobody holds is created, or nothing happens to the mutexes.
LEMMA FreshHeld ==
    ASSUME TypeOK, Held, NEW c \in Conns, Fresh(c), owner' = [owner EXCEPT ![c] = None],
           \A t \in Callers : held'[t] = held[t]
                              /\ (pc'[t] = pc[t] \/ (pc[t] = "dynamic" /\ pc'[t] = "spin"))
    PROVE  Held'
<1>1. \A t \in Callers : held[t] # None => held[t] \in Conns /\ owner'[held[t]] = owner[held[t]]
  BY ZenonT(30), PoolAssumption DEF TypeOK, Fresh, Threads
<1> QED
  BY <1>1 DEF Held

\* A connection is locked by the thread that uses it, and by no other.
LEMMA HeldStep == IndInv /\ [Next]_vars => Held'
<1> SUFFICES ASSUME IndInv, [Next]_vars PROVE Held'
  OBVIOUS
<1> USE PoolAssumption DEF Threads, Callers
<1>0. TypeOK /\ Discipline /\ Held /\ Places /\ ExclusiveUse /\ WithinLimits /\ StaticFirst
  BY DEF IndInv
<1>frame. ASSUME UNCHANGED <<held, owner>>, \A t \in Callers : pc'[t] = pc[t] PROVE Held'
  BY Zenon, <1>0, <1>frame DEF Held
<1>1. ASSUME NEW t \in Callers, Request(t) PROVE Held'
  BY Zenon, <1>0, <1>1 DEF Request, Goto, connVars, Held, TypeOK
<1>2. ASSUME NEW t \in Callers, Enter(t) PROVE Held'
  BY Zenon, <1>0, <1>2 DEF Enter, Lock, Goto, connVars, Held, TypeOK
<1>3. ASSUME NEW t \in Callers, Scan(t) PROVE Held'
  <2>1. sync # <<>>
    BY <1>0, <1>3, SyncNonempty DEF Scan
  <2>2. CASE index[t] <= Len(sync) /\ Take(t, sync[index[t]]) /\ UNCHANGED index
    <3>1. index[t] \in Nat /\ index[t] > 0 /\ Len(sync) \in Nat
      BY <1>0, <1>3 DEF Scan, Discipline, TypeOK
    <3>2. index[t] \in 1 .. Len(sync)
      BY <2>2, <3>1
    <3>3. sync[index[t]] \in Conns
      BY Zenon, <1>0, <2>1, <3>2, LookedAt
    <3> QED
      BY Zenon, <1>0, <2>2, <3>3, LockedByOne DEF Take
  <2>3. CASE UNCHANGED <<owner, held, cleanup, pc>>
    BY <1>0, <2>3 DEF Held
  <2>4. CASE Goto(t, "dynamic") /\ UNCHANGED <<owner, held, cleanup>>
    BY Zenon, <1>0, <1>3, <2>4 DEF Scan, Goto, Held, TypeOK
  <2> QED
    BY Zenon, <1>3, <2>2, <2>3, <2>4 DEF Scan
<1>4. ASSUME NEW t \in Callers, OpenDynamicSyncConnect(t) PROVE Held'
  <2>1. /\ held' = held /\ pc[t] = "dynamic"
        /\ \A u \in Callers : pc'[u] = IF u = t THEN "spin" ELSE pc[u]
    BY Zenon, <1>0, <1>4 DEF OpenDynamicSyncConnect, Goto, TypeOK
  <2>2. CASE UNCHANGED <<sync, conn, owner>>
    BY Zenon, <1>0, <2>1, <2>2 DEF Held
  <2>3. ASSUME NEW c \in Conns, Fresh(c), owner' = [owner EXCEPT ![c] = None] PROVE Held'
    BY Zenon, <1>0, <2>1, <2>3, FreshHeld
  <2> QED
    BY Zenon, <1>4, <2>2, <2>3 DEF OpenDynamicSyncConnect
<1>5. ASSUME NEW t \in Callers, Spin(t) PROVE Held'
  <2> DEFINE i == (index[t] + 1) % Wrap
  <2>1. sync # <<>>
    BY <1>0, <1>5, SyncNonempty DEF Spin
  <2>2. sync[(i % Len(sync)) + 1] \in Conns
    BY <1>0, <2>1, LookedAt
  <2>3. CASE Take(t, sync[(i % Len(sync)) + 1])
    BY Zenon, <1>0, <2>2, <2>3, LockedByOne DEF Take
  <2>4. CASE UNCHANGED <<owner, held, cleanup, pc>>
    BY <1>0, <2>4 DEF Held
  <2> QED
    BY Zenon, <1>5, <2>3, <2>4 DEF Spin
<1>6. ASSUME NEW t \in Callers, Unlock(t) PROVE Held'
  BY <1>0, <1>6 DEF Unlock, Goto, connVars, Held, TypeOK
<1>7. CASE PushCheck \/ PushOperation \/ SkipOpen
  BY Zenon, <1>7, <1>frame DEF PushCheck, PushOperation, SkipOpen, connVars
<1>8. CASE StartTask
  BY <1>0, <1>8 DEF StartTask, Goto, connVars, Held, TypeOK
<1>9. CASE Close
  BY Zenon, <1>0, <1>9 DEF Close, Goto, connVars, Held, TypeOK
<1>10. CASE CleanupConnections
  BY Zenon, <1>0, <1>10 DEF CleanupConnections, Lock, Goto, connVars, Held, TypeOK
<1>11. CASE CleanSync
  BY Zenon, <1>0, <1>11 DEF CleanSync, Removable, Goto, connVars, Held, TypeOK
<1>12. CASE CleanAsync
  BY Zenon, <1>0, <1>12 DEF CleanAsync, Removable, Goto, connVars, Held, TypeOK
<1>13. CASE Cleaned
  BY Zenon, <1>0, <1>13 DEF Cleaned, Goto, connVars, Held, TypeOK
<1>14. CASE KeepAlive
  <2>1. sync # <<>>
    BY <1>0, <1>14, SyncNonempty DEF KeepAlive, Lock
  <2>2. Head(sync) \in Conns
    BY <1>0, <2>1, LookedAt
  <2>3. pc[Main] = "wantPing" /\ Goto(Main, "ping")
    BY Zenon, <1>14 DEF KeepAlive, Lock
  <2>4. CASE UNCHANGED <<owner, held>>
    BY Zenon, <1>0, <2>3, <2>4 DEF Goto, Held, TypeOK
  <2> QED
    BY Zenon, <1>0, <1>14, <2>2, <2>3, <2>4, LockedByOne DEF KeepAlive
<1>15. CASE Pinged
  BY <1>0, <1>15 DEF Pinged, Enqueue, Goto, connVars, Held, TypeOK
<1>16. CASE CloseSync
  BY Zenon, <1>0, <1>16 DEF CloseSync, Goto, connVars, Held, TypeOK
<1>17. CASE Check
  BY <1>0, <1>17, <1>frame DEF Check, Goto, connVars, TypeOK
<1>18. CASE LockCheck
  BY Zenon, <1>0, <1>18, <1>frame DEF LockCheck, Lock, Goto, connVars, TypeOK
<1>19. CASE Construct
  <2>1. /\ \A u \in Callers : pc'[u] = pc[u] /\ held'[u] = held[u]
    BY <1>0, <1>19 DEF Construct, Goto, TypeOK
  <2>2. PICK c \in Conns : Fresh(c) /\ owner' = [owner EXCEPT ![c] = None]
    BY Zenon, <1>19 DEF Construct
  <2> QED
    BY Zenon, <1>0, <2>1, <2>2, FreshHeld
<1>20. CASE Opened
  BY Zenon, <1>0, <1>20 DEF Opened, Goto, connVars, Held, TypeOK
<1>21. CASE OpenFails
  BY Zenon, <1>0, <1>21, <1>frame DEF OpenFails, Goto, connVars, TypeOK
<1>22. CASE Dropped
  BY Zenon, <1>0, <1>22 DEF Dropped, Destroy, Round, NextRound, Goto, connVars, Held, TypeOK
<1>23. CASE InitPrepareStatement
  BY Zenon, <1>0, <1>23 DEF InitPrepareStatement, Round, NextRound, Goto, connVars, Held, TypeOK
<1>24. CASE Checked
  BY Zenon, <1>0, <1>24, <1>frame DEF Checked, Goto, connVars, TypeOK
<1>25. ASSUME NEW c \in Conns, CancelWorker(c) \/ JoinWorker(c) \/ Begin(c) \/ Finish(c) \/ Exit(c) PROVE Held'
  BY Zenon, <1>25, <1>frame DEF CancelWorker, JoinWorker, Begin, Finish, Exit, connVars
<1>26. CASE UNCHANGED vars
  BY Zenon, <1>26, <1>frame DEF vars, connVars
<1> QED
  BY Zenon, <1>1, <1>2, <1>3, <1>4, <1>5, <1>6, <1>7, <1>8, <1>9, <1>10, <1>11, <1>12, <1>13,
     <1>14, <1>15, <1>16, <1>17, <1>18, <1>19, <1>20, <1>21, <1>22, <1>23, <1>24, <1>25,
     <1>26
     DEF Next, SyncQuery, MainTask, CheckAsyncQueue, ExecuteAsyncQueue

-------------------------------------------------------------------------------
\* The first connection of a list is in it.
LEMMA HeadListed == ASSUME NEW list \in Seq(Conns), list # <<>> PROVE Head(list) \in Range(list)
BY DEF Range

\* The empty list.
LEMMA EmptyFacts == <<>> \in Seq(Conns) /\ Len(<<>>) = 0 /\ Range(<<>>) = {} /\ IsInjective(<<>>)
BY DEF Range, IsInjective

\* The limits on the connections hold, and no list gets a connection twice.
LEMMA LimitsStep == IndInv /\ [Next]_vars => WithinLimits'
<1> SUFFICES ASSUME IndInv, [Next]_vars PROVE WithinLimits'
  OBVIOUS
<1> USE PoolAssumption DEF Threads, Callers
<1>0. TypeOK /\ Discipline /\ Held /\ Places /\ ExclusiveUse /\ WithinLimits /\ StaticFirst
  BY DEF IndInv
<1>frame. UNCHANGED <<sync, async>> => WithinLimits'
  BY <1>0 DEF WithinLimits
<1>1. ASSUME NEW t \in Callers, Request(t) \/ Enter(t) \/ Scan(t) \/ Spin(t) \/ Unlock(t) PROVE WithinLimits'
  BY Zenon, <1>1, <1>frame DEF Request, Enter, Scan, Spin, Unlock, Lock, connVars
<1>2. ASSUME NEW t \in Callers, OpenDynamicSyncConnect(t) PROVE WithinLimits'
  <2>1. sync \in Seq(Conns) /\ Len(sync) \in Nat
    BY <1>0 DEF TypeOK
  <2>2. ASSUME NEW c \in Conns, Fresh(c), Len(sync) < MaxSync, sync' = Append(sync, c)
        PROVE  Len(sync') <= MaxSync /\ IsInjective(sync')
    <3>1. c \notin Range(sync)
      BY <1>0, <2>2, FreshIsUnlisted
    <3>2. Len(sync') = Len(sync) + 1 /\ IsInjective(sync')
      BY Zenon, <1>0, <2>1, <2>2, <3>1, AppendFacts DEF WithinLimits
    <3> QED
      BY <2>1, <2>2, <3>2
  <2> QED
    BY Zenon, <1>0, <1>2, <2>2 DEF OpenDynamicSyncConnect, WithinLimits
<1>3. CASE StartTask \/ PushCheck \/ PushOperation \/ CleanupConnections \/ Cleaned
            \/ KeepAlive \/ Pinged \/ Check \/ LockCheck \/ Construct \/ SkipOpen
            \/ OpenFails \/ Dropped \/ InitPrepareStatement \/ Checked
  BY Zenon, <1>3, <1>frame DEF StartTask, PushCheck, PushOperation, CleanupConnections, Cleaned,
     KeepAlive, Pinged, Check, LockCheck, Construct, SkipOpen, OpenFails, Dropped,
     InitPrepareStatement, Checked, Lock, connVars
<1>4. CASE Close
  BY SMTT(30), <1>0, <1>4, EmptyFacts DEF Close, WithinLimits
<1>5. CASE CleanSync
  <2>1. PICK S \in Removable(sync) : sync' \in Erase(sync, S)
    BY Zenon, <1>5 DEF CleanSync
  <2>2. S \in SUBSET Conns /\ sync \in Seq(Conns)
    BY Zenon, <1>0, ListedIsConn DEF Removable, TypeOK
  <2>3. Len(sync') <= Len(sync) /\ IsInjective(sync') /\ sync' \in Seq(Conns)
    BY Zenon, <1>0, <2>1, <2>2, EraseFacts DEF WithinLimits
  <2>4. Len(sync) \in Nat /\ Len(sync') \in Nat
    BY <2>2, <2>3
  <2> QED
    BY <1>0, <1>5, <2>3, <2>4 DEF CleanSync, WithinLimits
<1>6. CASE CleanAsync
  <2>1. PICK S \in Removable(async) : async' \in Erase(async, S)
    BY Zenon, <1>6 DEF CleanAsync
  <2>2. S \in SUBSET Conns /\ async \in Seq(Conns)
    BY Zenon, <1>0, ListedIsConn DEF Removable, TypeOK
  <2>3. Len(async') <= Len(async) /\ IsInjective(async') /\ async' \in Seq(Conns)
    BY Zenon, <1>0, <2>1, <2>2, EraseFacts DEF WithinLimits
  <2>4. Len(async) \in Nat /\ Len(async') \in Nat
    BY <2>2, <2>3
  <2> QED
    BY <1>0, <1>6, <2>3, <2>4 DEF CleanAsync, WithinLimits
<1>7. CASE CloseSync
  BY <1>0, <1>7, EmptyFacts DEF CloseSync, WithinLimits
<1>8. CASE Opened
  <2>1. async \in Seq(Conns) /\ Len(async) \in Nat
    BY <1>0 DEF TypeOK
  <2>2. CASE async' = Append(async, held[Checker])
    <3>1. held[Checker] \in Conns /\ held[Checker] \notin Range(async) /\ Len(async) < MaxAsync
      BY SMTT(30), <1>0, <1>8 DEF Opened, Places, TypeOK
    <3>2. Len(async') = Len(async) + 1 /\ IsInjective(async')
      BY Zenon, <1>0, <2>1, <2>2, <3>1, AppendFacts DEF WithinLimits
    <3> QED
      BY <1>0, <1>8, <2>1, <3>1, <3>2 DEF Opened, WithinLimits
  <2>3. CASE UNCHANGED async
    BY Zenon, <1>0, <1>8, <2>3 DEF Opened, WithinLimits
  <2> QED
    BY Zenon, <1>8, <2>2, <2>3 DEF Opened
<1>9. ASSUME NEW c \in Conns, CancelWorker(c) \/ JoinWorker(c) \/ Begin(c) \/ Finish(c) \/ Exit(c) PROVE WithinLimits'
  BY Zenon, <1>9, <1>frame DEF CancelWorker, JoinWorker, Begin, Finish, Exit, connVars
<1>10. CASE UNCHANGED vars
  BY Zenon, <1>10, <1>frame DEF vars, connVars
<1> QED
  BY Zenon, <1>1, <1>2, <1>3, <1>4, <1>5, <1>6, <1>7, <1>8, <1>9, <1>10
     DEF Next, SyncQuery, MainTask, CheckAsyncQueue, ExecuteAsyncQueue

\* The connections of Open stay first until Close.
LEMMA StaticStep == IndInv /\ [Next]_vars => StaticFirst'
<1> SUFFICES ASSUME IndInv, [Next]_vars PROVE StaticFirst'
  OBVIOUS
<1> USE PoolAssumption DEF Threads, Callers
<1>0. TypeOK /\ Discipline /\ Held /\ Places /\ ExclusiveUse /\ WithinLimits /\ StaticFirst
  BY DEF IndInv
<1>frame. UNCHANGED <<sync, async, conn>> /\ pc'[Main] = pc[Main] => StaticFirst'
  BY Zenon, <1>0 DEF StaticFirst
<1>1. ASSUME NEW t \in Callers, Request(t) PROVE StaticFirst'
  BY Zenon, <1>0, <1>1 DEF Request, Goto, connVars, StaticFirst, TypeOK
<1>2. ASSUME NEW t \in Callers, Enter(t) PROVE StaticFirst'
  BY Zenon, <1>0, <1>2 DEF Enter, Lock, Goto, connVars, StaticFirst, TypeOK
<1>3. ASSUME NEW t \in Callers, Scan(t) PROVE StaticFirst'
  BY Zenon, <1>0, <1>3 DEF Scan, Take, Goto, connVars, StaticFirst, TypeOK
<1>4. ASSUME NEW t \in Callers, OpenDynamicSyncConnect(t) PROVE StaticFirst'
  <2>1. sync # <<>> /\ pc[Main] \notin {"closing", "closed"}
    BY Zenon, <1>0, <1>4, SyncNonempty DEF OpenDynamicSyncConnect
  <2>2. ASSUME NEW c \in Conns, Fresh(c), sync' = Append(sync, c), conn' = [conn EXCEPT ![c] = "ready"]
        PROVE  /\ sync' # <<>> /\ Head(sync') = Head(sync)
               /\ conn'[StaticSync] = conn[StaticSync] /\ conn'[StaticAsync] = conn[StaticAsync]
    <3>1. c \notin Range(sync) /\ sync \in Seq(Conns)
      BY Zenon, <1>0, <2>2, FreshIsUnlisted DEF TypeOK
    <3>2. sync' # <<>> /\ Head(sync') = Head(sync)
      BY Zenon, <2>1, <2>2, <3>1, AppendFacts
    <3> QED
      BY Zenon, <1>0, <2>2, <3>2 DEF Fresh, Static, TypeOK
  <2>3. /\ \/ \E c \in Conns : /\ Fresh(c) /\ sync' = Append(sync, c)
                               /\ conn' = [conn EXCEPT ![c] = "ready"]
           \/ sync' = sync /\ conn' = conn
        /\ async' = async
    BY Zenon, <1>4 DEF OpenDynamicSyncConnect
  <2>4. /\ sync' # <<>> /\ Head(sync') = Head(sync)
        /\ conn'[StaticSync] = conn[StaticSync] /\ conn'[StaticAsync] = conn[StaticAsync]
    BY Zenon, <2>1, <2>2, <2>3
  <2> QED
    BY Zenon, <1>0, <2>1, <2>3, <2>4 DEF StaticFirst
<1>5. ASSUME NEW t \in Callers, Spin(t) PROVE StaticFirst'
  BY Zenon, <1>0, <1>5 DEF Spin, Take, Goto, connVars, StaticFirst, TypeOK
<1>6. ASSUME NEW t \in Callers, Unlock(t) PROVE StaticFirst'
  BY Zenon, <1>0, <1>6 DEF Unlock, Goto, connVars, StaticFirst, TypeOK
<1>7. CASE PushCheck \/ PushOperation \/ SkipOpen
  BY Zenon, <1>7, <1>frame DEF PushCheck, PushOperation, SkipOpen, connVars
<1>8. CASE StartTask
  BY Zenon, <1>0, <1>8 DEF StartTask, Goto, connVars, StaticFirst, TypeOK
<1>9. CASE Close
  BY Zenon, <1>0, <1>9 DEF Close, Goto, connVars, StaticFirst, TypeOK
<1>10. CASE CleanupConnections
  BY Zenon, <1>0, <1>10 DEF CleanupConnections, Lock, Goto, connVars, StaticFirst, TypeOK
<1>11. CASE CleanSync
  <2>1. PICK S \in Removable(sync) : sync' \in Erase(sync, S)
              /\ conn' = [c \in Conns |-> IF c \in S THEN "closed" ELSE conn[c]]
    BY Zenon, <1>11 DEF CleanSync
  <2>2. S \in SUBSET Conns /\ sync \in Seq(Conns) /\ S \cap Static = {}
    BY Zenon, <1>0, ListedIsConn DEF Removable, TypeOK
  <2>3. /\ pc[Main] = "cleanSync"
        /\ sync # <<>> /\ Head(sync) = StaticSync /\ Head(sync) \notin S
    BY Zenon, <1>0, <1>11, <2>2 DEF CleanSync, StaticFirst, Static
  <2>4. sync' # <<>> /\ Head(sync') = StaticSync
    BY Zenon, <2>1, <2>2, <2>3, EraseFacts
  <2>5. conn'[StaticSync] = conn[StaticSync] /\ conn'[StaticAsync] = conn[StaticAsync]
    BY Zenon, <1>0, <1>11, <2>1, <2>2 DEF CleanSync, Static, TypeOK, connVars
  <2> QED
    BY Zenon, <1>0, <1>11, <2>3, <2>4, <2>5 DEF CleanSync, StaticFirst
<1>12. CASE CleanAsync
  <2>1. PICK S \in Removable(async) : async' \in Erase(async, S)
    BY <1>12 DEF CleanAsync
  <2>2. S \in SUBSET Conns /\ async \in Seq(Conns) /\ S \cap Static = {}
    BY Zenon, <1>0, ListedIsConn DEF Removable, TypeOK
  <2>3. /\ pc[Main] = "cleanAsync"
        /\ async # <<>> /\ Head(async) = StaticAsync /\ Head(async) \notin S
    BY Zenon, <1>0, <1>12, <2>2 DEF CleanAsync, StaticFirst, Static
  <2>4. async' # <<>> /\ Head(async') = StaticAsync
    BY Zenon, <2>1, <2>2, <2>3, EraseFacts
  <2>5. conn'[StaticSync] = conn[StaticSync] /\ conn'[StaticAsync] = conn[StaticAsync]
    BY Zenon, <1>0, <1>12, <2>1, <2>2 DEF CleanAsync, Static, TypeOK, connVars
  <2> QED
    BY Zenon, <1>0, <1>12, <2>3, <2>4, <2>5 DEF CleanAsync, StaticFirst
<1>13. CASE Cleaned
  BY Zenon, <1>0, <1>13 DEF Cleaned, Goto, connVars, StaticFirst, TypeOK
<1>14. CASE KeepAlive
  BY Zenon, <1>0, <1>14 DEF KeepAlive, Lock, Goto, connVars, StaticFirst, TypeOK
<1>15. CASE Pinged
  BY Zenon, <1>0, <1>15 DEF Pinged, Enqueue, Goto, connVars, StaticFirst, TypeOK
<1>16. CASE CloseSync
  BY Zenon, <1>0, <1>16 DEF CloseSync, Goto, connVars, StaticFirst, TypeOK
<1>17. CASE Check
  BY Zenon, <1>0, <1>17, <1>frame DEF Check, Goto, connVars, TypeOK
<1>18. CASE LockCheck
  BY Zenon, <1>0, <1>18, <1>frame DEF LockCheck, Lock, Goto, connVars, TypeOK
<1>19. CASE Construct
  <2>1. PICK c \in Conns : Fresh(c) /\ conn' = [conn EXCEPT ![c] = "new"]
    BY Zenon, <1>19 DEF Construct
  <2>2. conn'[StaticSync] = conn[StaticSync] /\ conn'[StaticAsync] = conn[StaticAsync]
    BY Zenon, <1>0, <2>1 DEF Fresh, Static, TypeOK
  <2> QED
    BY Zenon, <1>0, <1>19, <2>2 DEF Construct, Goto, StaticFirst, TypeOK
<1>20. CASE Opened
  <2>0. async \in Seq(Conns)
    BY <1>0 DEF TypeOK
  <2>1. held[Checker] \in Conns /\ held[Checker] \notin Range(async) /\ conn[held[Checker]] = "new"
    BY ZenonT(30), <1>0, <1>20 DEF Opened, Places, TypeOK
  <2>2. CASE async' = Append(async, held[Checker])
    <3>1. async # <<>> => async' # <<>> /\ Head(async') = Head(async)
      BY Zenon, <2>0, <2>1, <2>2, AppendFacts
    <3> QED
      BY Zenon, <1>0, <1>20, <2>1, <3>1 DEF Opened, Goto, StaticFirst, TypeOK
  <2>3. CASE pc[Main] = "closing" /\ UNCHANGED async
    BY Zenon, <1>0, <1>20, <2>3 DEF Opened, Goto, StaticFirst, TypeOK
  <2> QED
    BY Zenon, <1>20, <2>2, <2>3 DEF Opened
<1>21. CASE OpenFails
  BY Zenon, <1>0, <1>21, <1>frame DEF OpenFails, Goto, connVars, TypeOK
<1>22. CASE Dropped
  <2>1. held[Checker] \in Conns /\ conn[held[Checker]] = "new"
    BY ZenonT(30), <1>0, <1>22 DEF Dropped, Places, TypeOK
  <2>2. pc'[Main] = pc[Main]
    BY Zenon, <1>0, <1>22 DEF Dropped, Round, Goto, TypeOK
  <2> QED
    BY Zenon, <1>0, <1>22, <2>1, <2>2 DEF Dropped, Destroy, StaticFirst, TypeOK
<1>23. CASE InitPrepareStatement
  BY Zenon, <1>0, <1>23 DEF InitPrepareStatement, Round, NextRound, Goto, connVars, StaticFirst,
     TypeOK
<1>24. CASE Checked
  BY Zenon, <1>0, <1>24, <1>frame DEF Checked, Goto, connVars, TypeOK
<1>25. ASSUME NEW c \in Conns, CancelWorker(c) \/ Begin(c) \/ Finish(c) \/ Exit(c) PROVE StaticFirst'
  BY Zenon, <1>25, <1>frame DEF CancelWorker, Begin, Finish, Exit, connVars
<1>26. ASSUME NEW c \in Conns, JoinWorker(c) PROVE StaticFirst'
  <2>1. pc[Main] = "closing" \/ c \notin Static
    <3>1. c \in doomed /\ pc[Main] \in {"join", "closing"}
      BY Zenon, <1>0, <1>26 DEF JoinWorker, Places
    <3>2. pc[Main] = "join" => StaticSync \in Range(sync) /\ StaticAsync \in Range(async)
      BY <1>0, HeadListed DEF StaticFirst, TypeOK
    <3> QED
      BY Zenon, <1>0, <3>1, <3>2 DEF Places, Static
  <2> QED
    BY Zenon, <1>0, <1>26, <2>1 DEF JoinWorker, Destroy, StaticFirst, Static, TypeOK
<1>27. CASE UNCHANGED vars
  BY Zenon, <1>27, <1>frame DEF vars, connVars
<1> QED
  BY Zenon, <1>1, <1>2, <1>3, <1>4, <1>5, <1>6, <1>7, <1>8, <1>9, <1>10, <1>11, <1>12, <1>13,
     <1>14, <1>15, <1>16, <1>17, <1>18, <1>19, <1>20, <1>21, <1>22, <1>23, <1>24, <1>25,
     <1>26, <1>27
     DEF Next, SyncQuery, MainTask, CheckAsyncQueue, ExecuteAsyncQueue

\* Every connection stays in one place, and what is in a list exists.
LEMMA PlacesStep == IndInv /\ [Next]_vars => Places'
<1> SUFFICES ASSUME IndInv, [Next]_vars PROVE Places'
  OBVIOUS
<1> USE PoolAssumption DEF Threads, Callers
<1>0. TypeOK /\ Discipline /\ Held /\ Places /\ ExclusiveUse /\ WithinLimits /\ StaticFirst
  BY DEF IndInv
<1>frame. ASSUME UNCHANGED <<sync, async, conn, doomed>>,
                 pc'[Checker] = pc[Checker], held'[Checker] = held[Checker],
                 pc'[Main] = pc[Main] \/ pc[Main] \notin {"join", "closing"}
          PROVE  Places'
  BY Zenon, <1>0, <1>frame DEF Places
<1>1. ASSUME NEW t \in Callers, Request(t) PROVE Places'
  BY Zenon, <1>0, <1>1, <1>frame DEF Request, Goto, connVars, TypeOK
<1>2. ASSUME NEW t \in Callers, Enter(t) PROVE Places'
  BY Zenon, <1>0, <1>2, <1>frame DEF Enter, Lock, Goto, connVars, TypeOK
<1>3. ASSUME NEW t \in Callers, Scan(t) PROVE Places'
  BY <1>0, <1>3, <1>frame DEF Scan, Take, Goto, connVars, TypeOK
<1>4. ASSUME NEW t \in Callers, OpenDynamicSyncConnect(t) PROVE Places'
  <2>1. /\ async' = async /\ doomed' = doomed /\ held' = held /\ t # Checker
        /\ pc'[Checker] = pc[Checker] /\ cleanup = t
        /\ pc'[Main] = pc[Main] \/ (t = Main /\ pc[Main] = "dynamic")
    BY Zenon, <1>0, <1>4 DEF OpenDynamicSyncConnect, Goto, Discipline, Critical, TypeOK
  <2>2. doomed # {} => pc'[Main] \in {"join", "closing"}
    BY Zenon, <1>0, <2>1 DEF Places
  <2>3. pc[Checker] \notin {"opening", "drop", "prepare"}
    BY Zenon, <1>0, <2>1 DEF Discipline, Critical
  <2>4. ASSUME NEW c \in Conns, Fresh(c), sync' = Append(sync, c), conn' = [conn EXCEPT ![c] = "ready"]
        PROVE  Places'
    <3>1. c \notin Range(sync) /\ c \notin Range(async) /\ c \notin doomed
      BY <1>0, <2>4, FreshIsUnlisted
    <3>2. Range(sync') = Range(sync) \cup {c} /\ Range(sync) \subseteq Conns
      BY Zenon, <1>0, <2>4, <3>1, AppendFacts, ListedIsConn DEF TypeOK
    <3>3. Range(async) \subseteq Conns
      BY Zenon, <1>0, ListedIsConn DEF TypeOK
    <3>4. \A d \in Conns \ {c} : conn'[d] = conn[d]
      BY Zenon, <1>0, <2>4 DEF TypeOK
    <3>5. conn'[c] = "ready"
      BY Zenon, <1>0, <2>4 DEF TypeOK
    <3>6. /\ \A d \in Range(sync') : conn'[d] = "ready" /\ d \notin Range(async) \cup doomed
      BY Zenon, <1>0, <3>1, <3>2, <3>4, <3>5 DEF Places
    <3>7. /\ \A d \in Range(async) : conn'[d] \in {"open", "ready"} /\ d \notin doomed
          /\ \A d \in doomed : conn'[d] \in {"open", "ready"}
      BY ZenonT(30), <1>0, <3>1, <3>3, <3>4 DEF Places, TypeOK
    <3> QED
      BY Zenon, <2>1, <2>2, <2>3, <3>6, <3>7 DEF Places
  <2>5. CASE UNCHANGED <<sync, conn, owner>>
    BY Zenon, <1>0, <2>1, <2>2, <2>3, <2>5 DEF Places
  <2> QED
    BY Zenon, <1>4, <2>4, <2>5 DEF OpenDynamicSyncConnect
<1>5. ASSUME NEW t \in Callers, Spin(t) PROVE Places'
  <2>1. /\ UNCHANGED <<sync, async, conn, doomed>> /\ t # Checker /\ pc[t] = "spin"
        /\ \/ UNCHANGED <<held, pc>>
           \/ /\ Goto(t, "using")
              /\ \E c : held' = [held EXCEPT ![t] = c]
    BY Zenon, <1>5 DEF Spin, Take
  <2> QED
    BY Zenon, <1>0, <1>frame, <2>1 DEF Goto, TypeOK
<1>6. ASSUME NEW t \in Callers, Unlock(t) PROVE Places'
  BY Zenon, <1>0, <1>6, <1>frame DEF Unlock, Goto, connVars, TypeOK
<1>7. CASE PushCheck \/ PushOperation
  BY Zenon, <1>7, <1>frame DEF PushCheck, PushOperation, connVars
<1>8. CASE StartTask
  BY Zenon, <1>0, <1>8, <1>frame DEF StartTask, Goto, connVars, TypeOK
<1>9. CASE Close
  <2>1. /\ sync' = sync /\ conn' = conn /\ held' = held /\ Range(async') = {}
        /\ doomed' = Range(async) /\ pc'[Main] = "closing" /\ pc'[Checker] = pc[Checker]
    BY Zenon, <1>0, <1>9, EmptyFacts DEF Close, connVars, Goto, TypeOK
  <2>2. Len(async') = 0 /\ MaxAsync > 0
    <3>1. async' = <<>>
      BY Zenon, <1>9 DEF Close
    <3>2. MaxAsync > 0
      BY PoolAssumption
    <3> QED
      BY Zenon, <3>1, <3>2, EmptyFacts
  <2> QED
    BY Zenon, <1>0, <2>1, <2>2 DEF Places
<1>10. CASE CleanupConnections
  BY Zenon, <1>0, <1>10, <1>frame DEF CleanupConnections, Lock, Goto, connVars, TypeOK
<1>11. CASE CleanSync
  <2>1. PICK S \in Removable(sync) : /\ sync' \in Erase(sync, S)
                                   /\ conn' = [c \in Conns |-> IF c \in S THEN "closed" ELSE conn[c]]
    BY <1>11 DEF CleanSync
  <2>2. S \in SUBSET Conns /\ S \subseteq Range(sync) /\ sync \in Seq(Conns)
    BY Zenon, <1>0, ListedIsConn DEF Removable, TypeOK
  <2>3. Range(sync') \subseteq Range(sync) \ S
    BY Zenon, <2>1, <2>2, EraseFacts
  <2>4. Range(sync) \subseteq Conns /\ Range(async) \subseteq Conns /\ doomed \subseteq Conns
    BY Zenon, <1>0, ListedIsConn DEF TypeOK
  <2>5. /\ \A c \in Range(sync') : conn'[c] = conn[c]
        /\ \A c \in Range(async) \cup doomed : conn'[c] = conn[c]
    BY Zenon, <1>0, <2>1, <2>2, <2>3, <2>4 DEF Places
  <2>6. /\ async' = async /\ doomed' = doomed
        /\ pc'[Checker] \notin {"opening", "drop", "prepare"} /\ doomed = {}
    BY ZenonT(30), <1>0, <1>11 DEF CleanSync, Goto, Discipline, Critical, Places, TypeOK
  <2> QED
    BY Zenon, <1>0, <2>3, <2>5, <2>6 DEF Places
<1>12. CASE CleanAsync
  <2>1. PICK S \in Removable(async) : async' \in Erase(async, S) /\ doomed' = S
    BY <1>12 DEF CleanAsync
  <2>2. S \in SUBSET Conns /\ S \subseteq Range(async) /\ async \in Seq(Conns)
    BY Zenon, <1>0, ListedIsConn DEF Removable, TypeOK
  <2>3. Range(async') \subseteq Range(async) \ S
    BY Zenon, <2>1, <2>2, EraseFacts
  <2>4. /\ sync' = sync /\ conn' = conn /\ pc'[Main] = "join"
        /\ pc'[Checker] \notin {"opening", "drop", "prepare"}
    BY Zenon, <1>0, <1>12 DEF CleanAsync, connVars, Goto, Discipline, Critical, TypeOK
  <2> QED
    BY Zenon, <1>0, <2>1, <2>2, <2>3, <2>4 DEF Places
<1>13. CASE Cleaned
  BY Zenon, <1>0, <1>13 DEF Cleaned, Goto, connVars, Places, Discipline, TypeOK
<1>14. CASE KeepAlive
  BY Zenon, <1>0, <1>14, <1>frame DEF KeepAlive, Lock, Goto, connVars, TypeOK
<1>15. CASE Pinged
  BY Zenon, <1>0, <1>15, <1>frame DEF Pinged, Enqueue, Goto, connVars, TypeOK
<1>16. CASE CloseSync
  <2>1. /\ Range(sync') = {} /\ async' = async /\ doomed' = doomed /\ doomed = {} /\ held' = held
        /\ pc'[Checker] = pc[Checker]
    BY Zenon, <1>0, <1>16, EmptyFacts DEF CloseSync, Goto, TypeOK
  <2>2. Range(async) \subseteq Conns
    BY Zenon, <1>0, ListedIsConn DEF TypeOK
  <2>3. \A c \in Range(async) : conn'[c] = conn[c]
    BY Zenon, <1>0, <1>16, <2>2 DEF CloseSync, Places
  <2>4. \A c \in Conns : conn[c] \in {"new", "open"} => conn'[c] = conn[c]
    BY Zenon, <1>0, <1>16 DEF CloseSync, Places
  <2>5. \A c \in Conns : conn[c] = "closed" => conn'[c] = "closed"
    BY Zenon, <1>0, <1>16 DEF CloseSync
  <2>6. pc[Checker] \in {"opening", "drop", "prepare"} => held[Checker] \in Conns
    BY <1>0 DEF Places, TypeOK
  <2> QED
    BY Zenon, <1>0, <2>1, <2>3, <2>4, <2>5, <2>6 DEF Places
<1>17. CASE Check
  BY <1>0, <1>17 DEF Check, Goto, connVars, Places, Discipline, TypeOK
<1>18. CASE LockCheck
  BY Zenon, <1>0, <1>18 DEF LockCheck, Lock, Goto, connVars, Places, Discipline, TypeOK
<1>19. CASE Construct
  <2>1. PICK c \in Conns : /\ Fresh(c) /\ conn' = [conn EXCEPT ![c] = "new"]
                         /\ held' = [held EXCEPT ![Checker] = c]
    BY Zenon, <1>19 DEF Construct
  <2>2. /\ sync' = sync /\ async' = async /\ doomed' = doomed /\ pc'[Checker] = "opening"
        /\ pc'[Main] = pc[Main] /\ held'[Checker] = c /\ c # None /\ Len(async) < MaxAsync
    BY Zenon, <1>0, <1>19, <2>1 DEF Construct, Goto, TypeOK
  <2>3. conn'[c] = "new" /\ \A d \in Conns \ {c} : conn'[d] = conn[d]
    BY Zenon, <1>0, <2>1 DEF TypeOK
  <2>4. c \notin Range(sync) /\ c \notin Range(async) /\ c \notin doomed
    BY Zenon, <1>0, <2>1, FreshIsUnlisted
  <2>5. Range(sync) \subseteq Conns /\ Range(async) \subseteq Conns /\ doomed \subseteq Conns
    BY Zenon, <1>0, ListedIsConn DEF TypeOK
  <2> QED
    BY Zenon, <1>0, <2>2, <2>3, <2>4, <2>5 DEF Places
<1>20. CASE SkipOpen
  BY Zenon, <1>0, <1>20, <1>frame DEF SkipOpen, NextRound, Goto, connVars, TypeOK
<1>21. CASE Opened
  <2> DEFINE c == held[Checker]
  <2>1. c \in Conns /\ conn[c] = "new" /\ c # None
    BY Zenon, <1>0, <1>21 DEF Opened, Places, TypeOK
  <2>2. c \notin Range(sync) /\ c \notin Range(async) /\ c \notin doomed
    BY Zenon, <1>0, <2>1 DEF Places
  <2>3. /\ sync' = sync /\ doomed' = doomed /\ held' = held
        /\ pc'[Checker] = "prepare" /\ pc'[Main] = pc[Main]
    BY Zenon, <1>0, <1>21 DEF Opened, Goto, TypeOK
  <2>4. conn'[c] = "open" /\ \A d \in Conns \ {c} : conn'[d] = conn[d]
    BY Zenon, <1>0, <1>21, <2>1 DEF Opened, TypeOK
  <2>5. Range(sync) \subseteq Conns /\ Range(async) \subseteq Conns /\ doomed \subseteq Conns
    BY Zenon, <1>0, ListedIsConn DEF TypeOK
  <2>6. Range(async') \subseteq Range(async) \cup {c}
    BY ZenonT(30), <1>0, <1>21, <2>1, <2>2, AppendFacts DEF Opened, TypeOK
  <2> HIDE DEF c
  <2>7. held'[Checker] = c
    BY Zenon, <2>3 DEF c
  <2> QED
    BY ZenonT(30), <1>0, <2>1, <2>2, <2>3, <2>4, <2>5, <2>6, <2>7 DEF Places
<1>22. CASE OpenFails
  BY Zenon, <1>0, <1>22 DEF OpenFails, Goto, connVars, Places, Discipline, TypeOK
<1>23. CASE Dropped
  <2>1. /\ held[Checker] \in Conns /\ conn[held[Checker]] \in {"new"}
        /\ held[Checker] \notin Range(sync)
    BY ZenonT(30), <1>0, <1>23 DEF Dropped, Places, TypeOK
  <2>2. /\ sync' = sync /\ async' = async /\ doomed' = doomed
        /\ pc'[Checker] = "check" /\ pc'[Main] = pc[Main]
    BY Zenon, <1>0, <1>23 DEF Dropped, Round, Goto, TypeOK
  <2>3. \A d \in Conns \ {held[Checker]} : conn'[d] = conn[d]
    BY Zenon, <1>0, <1>23, <2>1 DEF Dropped, Destroy, TypeOK
  <2>4. Range(sync) \subseteq Conns /\ Range(async) \subseteq Conns /\ doomed \subseteq Conns
    BY <1>0, ListedIsConn DEF TypeOK
  <2>5. held[Checker] \notin Range(async) /\ held[Checker] \notin doomed
    BY Zenon, <1>0, <2>1 DEF Places
  <2> QED
    BY Zenon, <1>0, <2>1, <2>2, <2>3, <2>4, <2>5 DEF Places
<1>24. CASE InitPrepareStatement
  <2>1. /\ held[Checker] \in Conns /\ conn[held[Checker]] \in {"open", "closed"}
        /\ held[Checker] \notin Range(sync)
    BY ZenonT(30), <1>0, <1>24 DEF InitPrepareStatement, Places, TypeOK
  <2>2. /\ sync' = sync /\ async' = async /\ doomed' = doomed
        /\ pc'[Checker] = "check" /\ pc'[Main] = pc[Main]
    BY Zenon, <1>0, <1>24 DEF InitPrepareStatement, Round, Goto, TypeOK
  <2>3. \A d \in Conns \ {held[Checker]} : conn'[d] = conn[d]
    BY Zenon, <1>0, <1>24, <2>1 DEF InitPrepareStatement, TypeOK
  <2>4. Range(sync) \subseteq Conns /\ Range(async) \subseteq Conns /\ doomed \subseteq Conns
    BY <1>0, ListedIsConn DEF TypeOK
  <2>5. conn[held[Checker]] = "open" => conn'[held[Checker]] = "ready"
    BY Zenon, <1>0, <1>24, <2>1 DEF InitPrepareStatement, TypeOK
  <2>6. held[Checker] \in Range(async) \cup doomed => conn[held[Checker]] = "open"
    BY Zenon, <1>0, <2>1 DEF Places
  <2> QED
    BY Zenon, <1>0, <2>1, <2>2, <2>3, <2>4, <2>5, <2>6 DEF Places
<1>25. CASE Checked
  <2>1. /\ UNCHANGED <<sync, async, conn, doomed, held>>
        /\ pc'[Checker] = "idle" /\ pc'[Main] = pc[Main]
    BY Zenon, <1>0, <1>25 DEF Checked, Goto, connVars, TypeOK
  <2> QED
    BY Zenon, <1>0, <2>1 DEF Places
<1>26. ASSUME NEW c \in Conns, CancelWorker(c) \/ Begin(c) \/ Finish(c) \/ Exit(c) PROVE Places'
  BY Zenon, <1>26, <1>frame DEF CancelWorker, Begin, Finish, Exit, connVars
<1>27. ASSUME NEW c \in Conns, JoinWorker(c) PROVE Places'
  <2>1. /\ sync' = sync /\ async' = async /\ pc' = pc /\ held' = held /\ doomed' = doomed \ {c}
        /\ c \in doomed /\ conn' = [conn EXCEPT ![c] = "closed"]
    BY Zenon, <1>27 DEF JoinWorker, Destroy
  <2>2. c \notin Range(sync) /\ c \notin Range(async) /\ conn[c] \in {"open", "ready"}
    BY Zenon, <1>0, <2>1 DEF Places
  <2>3. conn'[c] = "closed" /\ \A d \in Conns \ {c} : conn'[d] = conn[d]
    BY Zenon, <1>0, <2>1 DEF TypeOK
  <2>4. Range(sync) \subseteq Conns /\ Range(async) \subseteq Conns /\ doomed \subseteq Conns
    BY <1>0, ListedIsConn DEF TypeOK
  <2>5. pc[Checker] \in {"opening", "drop", "prepare"} => held[Checker] \in Conns
    BY ZenonT(30), <1>0 DEF Places, TypeOK
  <2> QED
    BY ZenonT(30), <1>0, <2>1, <2>2, <2>3, <2>4, <2>5 DEF Places
<1>28. CASE UNCHANGED vars
  BY Zenon, <1>28, <1>frame DEF vars, connVars
<1> QED
  BY Zenon, <1>1, <1>2, <1>3, <1>4, <1>5, <1>6, <1>7, <1>8, <1>9, <1>10, <1>11, <1>12, <1>13,
     <1>14, <1>15, <1>16, <1>17, <1>18, <1>19, <1>20, <1>21, <1>22, <1>23, <1>24, <1>25,
     <1>26, <1>27, <1>28
     DEF Next, SyncQuery, MainTask, CheckAsyncQueue, ExecuteAsyncQueue

\* What Open and PrepareStatements leave.
LEMMA InitInv == Init => IndInv
<1> SUFFICES ASSUME Init PROVE IndInv
  OBVIOUS
<1> USE PoolAssumption DEF Threads, Callers
<1>1. /\ sync \in Seq(Conns) /\ async \in Seq(Conns) /\ Len(sync) = 1 /\ Len(async) = 1
      /\ sync # <<>> /\ async # <<>> /\ Head(sync) = StaticSync /\ Head(async) = StaticAsync
  BY DEF Init
<1>2. Range(sync) = {StaticSync} /\ Range(async) = {StaticAsync}
  <2>1. ASSUME NEW c PROVE Range(<<c>>) = {c}
    BY DEF Range
  <2> QED
    BY Zenon, <2>1 DEF Init
<1>3. IsInjective(sync) /\ IsInjective(async)
  BY DEF Init, IsInjective
<1>4. TypeOK
  <2>1. queued \in 0 .. QueueBound /\ index \in [Threads -> Nat]
    BY DEF Init
  <2>2. /\ conn \in [Conns -> {"none", "new", "open", "ready", "closed"}]
        /\ worker \in [Conns -> {"none", "idle", "running", "done"}]
        /\ cancel \in [Conns -> BOOLEAN] /\ doomed \in SUBSET Conns
    BY Zenon DEF Init
  <2> QED
    BY Zenon, <1>1, <2>1, <2>2 DEF Init, TypeOK
<1>5. Discipline
  BY Zenon DEF Init, Discipline, Critical
<1>6. Held /\ ExclusiveUse
  BY Zenon DEF Init, Held, ExclusiveUse
<1>7. Places
  BY Zenon, <1>2 DEF Init, Places, Static
<1>8. WithinLimits
  BY <1>1, <1>3 DEF WithinLimits
<1>9. StaticFirst
  BY Zenon, <1>1 DEF Init, StaticFirst, Static
<1> QED
  BY <1>4, <1>5, <1>6, <1>7, <1>8, <1>9 DEF IndInv

\* Every step of every thread keeps the invariant.
LEMMA IndInvStep == IndInv /\ [Next]_vars => IndInv'
<1> SUFFICES ASSUME IndInv, [Next]_vars PROVE IndInv'
  OBVIOUS
<1>1. ExclusiveUse'
  BY Zenon, HeldStep DEF Held, ExclusiveUse
<1> QED
  BY <1>1, TypeStep, DisciplineStep, HeldStep, PlacesStep, LimitsStep, StaticStep DEF IndInv

\* The inductive invariant of the pool: who holds which mutex, and where every
\* connection is.
THEOREM Invariance == Spec => []IndInv
BY InitInv, IndInvStep, PTL DEF Spec

\* The types of the state, for any number of threads and connections.
THEOREM TypeCorrect == Spec => []TypeOK
<1>1. IndInv => TypeOK
  BY DEF IndInv
<1> QED
  BY <1>1, Invariance, PTL

\* GetFreeConnection never gives a connection to two threads at a time.
THEOREM UseIsExclusive == Spec => []ExclusiveUse
<1>1. IndInv => ExclusiveUse
  BY DEF IndInv
<1> QED
  BY <1>1, Invariance, PTL

\* OpenDynamicSyncConnect and OpenDynamicAsyncConnect keep within the limits, however
\* many threads open connections.
THEOREM LimitsHold == Spec => []WithinLimits
<1>1. IndInv => WithinLimits
  BY DEF IndInv
<1> QED
  BY <1>1, Invariance, PTL

\* The connections of Open are the first of their lists until Close.
THEOREM FrontIsStatic == Spec => []StaticFirst
<1>1. IndInv => StaticFirst
  BY DEF IndInv
<1> QED
  BY <1>1, Invariance, PTL
===============================================================================
