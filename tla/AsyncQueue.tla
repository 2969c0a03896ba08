------------------------------- MODULE AsyncQueue -------------------------------
(*************************************************************************)
(* ProducerConsumerQueue<AsyncOperation*> (common/Threading/PCQueue.h)   *)
(* together with its consumers, the threads of AsyncDBQueueWorker, one   *)
(* per asynchronous MySQLConnection.                                     *)
(*                                                                       *)
(* A critical section on _queueLock that never blocks inside (Push,      *)
(* NotifyAll, Cancel) is one step, enabled while the mutex is free.      *)
(* WaitAndPop is not: it tests its condition, blocks, and takes the      *)
(* front of the queue in separate steps, because the flag customCancel   *)
(* it reads is written by another thread without the mutex.              *)
(*************************************************************************)
EXTENDS Naturals, Sequences

CONSTANTS
    Ops,                  \* AsyncOperation objects
    Workers,              \* AsyncDBQueueWorker objects, each with its thread
    None                  \* nullptr, and the owner of a free mutex

ASSUME NoneAssumption == None \notin Ops /\ None \notin Workers

VARIABLES
    queue,                \* _queue
    shutdown,             \* _shutdown
    lock,                 \* the worker that owns _queueLock
    waiters,              \* workers blocked in _condition.wait
    cancel,               \* AsyncDBQueueWorker::_cancel
    pc,                   \* where the thread is in ExecuteAsyncQueue
    operation,            \* its local variable operation
    dtor,                 \* progress of ~AsyncDBQueueWorker
    heap                  \* life of every operation

queueVars  == <<queue, shutdown, lock, waiters>>
workerVars == <<cancel, pc, operation, dtor>>
vars       == <<queueVars, workerVars, heap>>

\* "lock": acquiring _queueLock, on entry of WaitAndPop or to leave the wait;
\* "wait": owns the mutex, found nothing to do; "take": owns the mutex, has left
\* the loop; "check": back from WaitAndPop; "run": inside ExecuteQuery.
Locations == {"none", "lock", "wait", "take", "check", "run", "done"}

TypeOK == /\ queue \in Seq(Ops)
          /\ shutdown \in BOOLEAN
          /\ lock \in Workers \cup {None}
          /\ waiters \in SUBSET Workers
          /\ cancel \in [Workers -> BOOLEAN]
          /\ pc \in [Workers -> Locations]
          /\ operation \in [Workers -> Ops \cup {None}]
          /\ dtor \in [Workers -> {"none", "notify", "join", "joined"}]
          /\ heap \in [Ops -> {"unborn", "live", "executed", "deleted"}]

Init == /\ queue = <<>>
        /\ shutdown = FALSE
        /\ lock = None
        /\ waiters = {}
        /\ cancel = [w \in Workers |-> FALSE]
        /\ pc = [w \in Workers |-> "none"]
        /\ operation = [w \in Workers |-> None]
        /\ dtor = [w \in Workers |-> "none"]
        /\ heap = [o \in Ops |-> "unborn"]

Queued(o) == \E i \in DOMAIN queue : queue[i] = o
Held(o) == \E w \in Workers : operation[w] = o

-------------------------------------------------------------------------------
\* ProducerConsumerQueue

\* Variant of NotifyOne: the producer forgets to notify.
NotifyNobody == UNCHANGED waiters

\* _condition.notify_one(): one blocked thread leaves the wait, if there is one.
NotifyOne == IF waiters = {} THEN UNCHANGED waiters
                             ELSE \E w \in waiters : waiters' = waiters \ {w}

\* Push of an operation the caller has just allocated (DatabaseWorkerPool::Enqueue).
Push(o) == /\ heap[o] = "unborn"
           /\ lock = None
           /\ heap' = [heap EXCEPT ![o] = "live"]
           /\ queue' = Append(queue, o)
           /\ NotifyOne
           /\ UNCHANGED <<shutdown, lock, workerVars>>

\* Cancel() deletes what is queued and tells every waiter.
Cancel == /\ lock = None
          /\ heap' = [o \in Ops |-> IF Queued(o) THEN "deleted" ELSE heap[o]]
          /\ queue' = <<>>
          /\ shutdown' = TRUE
          /\ waiters' = {}
          /\ UNCHANGED <<lock, workerVars>>

\* WaitAndPop acquires the mutex and evaluates the condition of its while loop.
Test(w) == /\ pc[w] = "lock"
           /\ w \notin waiters
           /\ lock = None
           /\ lock' = w
           /\ pc' = [pc EXCEPT ![w] = IF queue = <<>> /\ ~shutdown /\ ~cancel[w]
                                      THEN "wait" ELSE "take"]
           /\ UNCHANGED <<queue, shutdown, waiters, cancel, operation, dtor, heap>>

\* _condition.wait(lock) releases the mutex and blocks, in one step.
Block(w) == /\ pc[w] = "wait"
            /\ lock' = None
            /\ waiters' = waiters \cup {w}
            /\ pc' = [pc EXCEPT ![w] = "lock"]
            /\ UNCHANGED <<queue, shutdown, cancel, operation, dtor, heap>>

\* A condition variable may release a waiter nobody notified.
SpuriousWakeup(w) == /\ w \in waiters
                     /\ waiters' = waiters \ {w}
                     /\ UNCHANGED <<queue, shutdown, lock, workerVars, heap>>

\* Variant of Take: the operation is read but not popped.
TakeWithoutPop(w) == /\ pc[w] = "take"
                     /\ IF queue = <<>> \/ shutdown \/ cancel[w]
                        THEN UNCHANGED operation
                        ELSE operation' = [operation EXCEPT ![w] = Head(queue)]
                     /\ lock' = None
                     /\ pc' = [pc EXCEPT ![w] = "check"]
                     /\ UNCHANGED <<queue, shutdown, waiters, cancel, dtor, heap>>

\* Variant of Take: a stack instead of a queue.
TakeNewest(w) == /\ pc[w] = "take"
                 /\ IF queue = <<>> \/ shutdown \/ cancel[w]
                    THEN UNCHANGED <<queue, operation>>
                    ELSE /\ operation' = [operation EXCEPT ![w] = queue[Len(queue)]]
                         /\ queue' = SubSeq(queue, 1, Len(queue) - 1)
                 /\ lock' = None
                 /\ pc' = [pc EXCEPT ![w] = "check"]
                 /\ UNCHANGED <<shutdown, waiters, cancel, dtor, heap>>

\* The rest of WaitAndPop: the conditions once more, then the front of the queue.
Take(w) == /\ pc[w] = "take"
           /\ IF queue = <<>> \/ shutdown \/ cancel[w]
              THEN UNCHANGED <<queue, operation>>
              ELSE /\ operation' = [operation EXCEPT ![w] = Head(queue)]
                   /\ queue' = Tail(queue)
           /\ lock' = None
           /\ pc' = [pc EXCEPT ![w] = "check"]
           /\ UNCHANGED <<shutdown, waiters, cancel, dtor, heap>>

-------------------------------------------------------------------------------
\* AsyncDBQueueWorker

\* The constructor starts the thread.
Start(w) == /\ pc[w] = "none"
            /\ pc' = [pc EXCEPT ![w] = "lock"]
            /\ UNCHANGED <<queueVars, cancel, operation, dtor, heap>>

\* if (_cancel) break;  whatever the thread has taken goes out of scope.
Exit(w) == /\ pc[w] = "check"
           /\ cancel[w]
           /\ pc' = [pc EXCEPT ![w] = "done"]
           /\ operation' = [operation EXCEPT ![w] = None]
           /\ UNCHANGED <<queueVars, cancel, dtor, heap>>

\* if (!operation) continue;
Retry(w) == /\ pc[w] = "check"
            /\ ~cancel[w]
            /\ operation[w] = None
            /\ pc' = [pc EXCEPT ![w] = "lock"]
            /\ UNCHANGED <<queueVars, cancel, operation, dtor, heap>>

\* operation->SetConnection(_connection); the query is on its way.
Begin(w) == /\ pc[w] = "check"
            /\ ~cancel[w]
            /\ operation[w] # None
            /\ pc' = [pc EXCEPT ![w] = "run"]
            /\ UNCHANGED <<queueVars, cancel, operation, dtor, heap>>

\* ExecuteQuery returns; delete operation; the loop starts over.
Finish(w) == /\ pc[w] = "run"
             /\ heap' = [heap EXCEPT ![operation[w]] = "executed"]
             /\ operation' = [operation EXCEPT ![w] = None]
             /\ pc' = [pc EXCEPT ![w] = "lock"]
             /\ UNCHANGED <<queueVars, cancel, dtor>>

\* ~AsyncDBQueueWorker: _cancel = true;
SetCancel(w) == /\ pc[w] # "none"
                /\ dtor[w] = "none"
                /\ cancel' = [cancel EXCEPT ![w] = TRUE]
                /\ dtor' = [dtor EXCEPT ![w] = "notify"]
                /\ UNCHANGED <<queueVars, pc, operation, heap>>

\* Variant of NotifyAll: it wakes a single waiter.
NotifyAllWakesOne(w) == /\ dtor[w] = "notify"
                        /\ lock = None
                        /\ NotifyOne
                        /\ dtor' = [dtor EXCEPT ![w] = "join"]
                        /\ UNCHANGED <<queue, shutdown, lock, cancel, pc, operation, heap>>

\* Variant of NotifyAll: it does not take the mutex.
NotifyAllUnlocked(w) == /\ dtor[w] = "notify"
                        /\ waiters' = {}
                        /\ dtor' = [dtor EXCEPT ![w] = "join"]
                        /\ UNCHANGED <<queue, shutdown, lock, cancel, pc, operation, heap>>

\* ~AsyncDBQueueWorker: _queue->NotifyAll();
NotifyAll(w) == /\ dtor[w] = "notify"
                /\ lock = None
                /\ waiters' = {}
                /\ dtor' = [dtor EXCEPT ![w] = "join"]
                /\ UNCHANGED <<queue, shutdown, lock, cancel, pc, operation, heap>>

\* ~AsyncDBQueueWorker: _thread.join() returns.
Join(w) == /\ dtor[w] = "join"
           /\ pc[w] = "done"
           /\ dtor' = [dtor EXCEPT ![w] = "joined"]
           /\ UNCHANGED <<queueVars, cancel, pc, operation, heap>>

-------------------------------------------------------------------------------
ThreadStep(w) == Test(w) \/ Block(w) \/ Take(w) \/ Exit(w) \/ Retry(w)
                 \/ Begin(w) \/ Finish(w)

Next == \/ Cancel
        \/ \E o \in Ops : Push(o)
        \/ \E w \in Workers : \/ Start(w)
                              \/ ThreadStep(w)
                              \/ SpuriousWakeup(w)
                              \/ SetCancel(w)
                              \/ NotifyAll(w)
                              \/ Join(w)

Spec == Init /\ [][Next]_vars

\* A thread that can run is run, and a mutex that becomes free again and again is
\* obtained in the end; a query comes back. Nobody is obliged to call Enqueue, to
\* open or close a connection, or to shut the queue down.
Fairness == \A w \in Workers : /\ SF_vars(Test(w))
                               /\ WF_vars(Block(w))
                               /\ WF_vars(Take(w))
                               /\ WF_vars(Exit(w) \/ Retry(w) \/ Begin(w))
                               /\ WF_vars(Finish(w))
                               /\ SF_vars(NotifyAll(w))
                               /\ WF_vars(Join(w))

FairSpec == Spec /\ Fairness

-------------------------------------------------------------------------------
\* What keeps the object usable: who owns the mutex, where a blocked thread is, and
\* that a thread whose destructor has notified never goes to sleep again.
LockDiscipline == \A w \in Workers : pc[w] \in {"wait", "take"} <=> lock = w

BlockedInWait == \A w \in waiters : pc[w] = "lock"

CancelIsDestruction == \A w \in Workers : cancel[w] <=> dtor[w] # "none"

NotifiedNeverSleeps ==
    \A w \in Workers : (w \in waiters \/ pc[w] = "wait") /\ cancel[w] => dtor[w] = "notify"

SleepOnlyWhenIdle == /\ waiters # {} => ~shutdown
                     /\ \A w \in Workers : pc[w] = "wait" => queue = <<>> /\ ~shutdown

OperationScope ==
    \A w \in Workers : /\ pc[w] \notin {"check", "run"} => operation[w] = None
                       /\ pc[w] = "run" => operation[w] # None

ThreadInv == /\ LockDiscipline
             /\ BlockedInWait
             /\ CancelIsDestruction
             /\ NotifiedNeverSleeps
             /\ SleepOnlyWhenIdle
             /\ OperationScope

\* An operation has one owner: it is queued at most once, or held by one worker, and
\* until it has been executed or deleted it is allocated. So no worker executes an
\* operation another one is executing, or one that was executed or deleted before.
Ownership ==
    /\ \A i, j \in DOMAIN queue : queue[i] = queue[j] => i = j
    /\ \A v, w \in Workers : operation[v] # None /\ operation[v] = operation[w] => v = w
    /\ \A o \in Ops : ~(Queued(o) /\ Held(o))
    /\ \A o \in Ops : Queued(o) \/ Held(o) => heap[o] = "live"

\* A worker that will look at the queue again without being notified.
Attentive(w) == /\ pc[w] \in {"lock", "take", "check", "run"}
                /\ w \notin waiters
                /\ ~cancel[w]

\* No wake-up is lost: while a worker sleeps on a non-empty queue, some other worker
\* is on its way to the queue or some destructor is about to call NotifyAll. One
\* notify_one per Push is enough even when it reaches a worker that is being
\* destroyed and leaves WaitAndPop without taking anything.
NoLostWakeup ==
    queue # <<>> /\ waiters # {} =>
        \E w \in Workers : Attentive(w) \/ dtor[w] = "notify"

\* The inductive invariant.
IndInv == TypeOK /\ ThreadInv /\ Ownership /\ NoLostWakeup

\* The destructor of a worker returns: _thread.join() cannot hang, whatever the
\* thread was doing when _cancel was set (CleanupConnections runs this destructor
\* on the main thread, under _cleanupMutex).
DestructorReturns == \A w \in Workers : dtor[w] = "notify" ~> dtor[w] = "joined"

\* An operation does not stay in the queue while a worker is left to serve it.
Served == \A o \in Ops :
    Queued(o) ~> (~Queued(o) \/ shutdown \/ \A w \in Workers : cancel[w] \/ pc[w] = "none")

\* DatabaseWorkerPool.h:80 and :148: an operation that was enqueued "will be executed
\* asynchronously" and its future is set. So no operation is still allocated when
\* neither the queue nor a worker refers to it any more.
NoOperationDropped == \A o \in Ops : heap[o] = "live" => Queued(o) \/ Held(o)

-------------------------------------------------------------------------------
\* The promise, read off the state of the threads.
StatusOf(o) == IF heap[o] # "live" THEN heap[o]
               ELSE IF Queued(o) THEN "queued"
               ELSE IF Held(o) THEN "held" ELSE "dropped"

Promise == INSTANCE OperationQueue
           WITH pending <- queue, status <- [o \in Ops |-> StatusOf(o)]

\* The threads keep the promise of OperationQueue: operations leave the queue oldest
\* first, each to one worker, and are executed at most once.
KeepsPromise == Promise!Spec
===============================================================================
