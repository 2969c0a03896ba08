------------------------------ MODULE QueryCallback ------------------------------
(*************************************************************************)
(* QueryCallback, a chain of callbacks for asynchronous queries, and     *)
(* AsyncCallbackProcessor, which the main loop asks to call those whose  *)
(* query is answered. Other threads add callbacks to it without a lock,  *)
(* and attach the functions to a callback that is already in the vector: *)
(*     AddCallback(AsyncQuery(stmt)).WithPreparedCallback(...)           *)
(*                                                                       *)
(* An operation on the vector has a beginning and an end. Two that       *)
(* overlap, or a function attached through a reference that no longer    *)
(* refers to an element, leave the program with undefined behaviour;     *)
(* nothing is said about what follows.                                   *)
(*************************************************************************)
EXTENDS Naturals, Sequences, Functions

CONSTANTS
    Queries,            \* QueryCallback objects
    Chain,              \* number of functions attached to each of them
    Threads,            \* threads that add callbacks
    None                \* no QueryCallback

ASSUME QueryCallbackAssumption ==
    /\ Chain \in [Queries -> Nat \ {0}]
    /\ None \notin Queries

VARIABLES
    callbacks,          \* AsyncCallbackProcessor::_callbacks
    updating,           \* updateCallbacks, the part not walked yet
    remaining,          \* updateCallbacks, the part remove_if has kept
    main, current,      \* where the main loop is, and the callback it has called
    stage, adding,      \* where an adding thread is, and with which callback
    future,             \* the future of a QueryCallback: "none", "pending" or "ready"
    left,               \* QueryCallback::_callbacks.size()
    dangling,           \* elements that moved while a thread held a reference to them
    undefined

processorVars == <<callbacks, updating, remaining, main, current>>
queryVars     == <<future, left>>
callbackVars  == <<processorVars, stage, adding, queryVars, dangling, undefined>>

CallbackTypeOK ==
    /\ callbacks \in Seq(Queries) /\ updating \in Seq(Queries) /\ remaining \in Seq(Queries)
    /\ main \in {"loop", "moving", "walking", "callback", "inserting", "closing", "stopping",
                "exited"}
    /\ current \in Queries \cup {None}
    /\ stage \in [Threads -> {"idle", "adding", "attaching", "waiting"}]
    /\ adding \in [Threads -> Queries \cup {None}]
    /\ future \in [Queries -> {"none", "pending", "ready"}]
    /\ left \in [Queries -> Nat]
    /\ dangling \subseteq Queries
    /\ undefined \in BOOLEAN

CallbackInit ==
    /\ callbacks = <<>> /\ updating = <<>> /\ remaining = <<>>
    /\ main = "loop" /\ current = None
    /\ stage = [t \in Threads |-> "idle"]
    /\ adding = [t \in Threads |-> None]
    /\ future = [q \in Queries |-> "none"]
    /\ left = [q \in Queries |-> 0]
    /\ dangling = {}
    /\ undefined = FALSE

Attaching == {adding[t] : t \in {u \in Threads : stage[u] = "attaching"}}

\* Another thread than t is inside an operation on the vector.
Contended(t) == main \in {"moving", "inserting"} \/ \E u \in Threads \ {t} : stage[u] = "adding"

-------------------------------------------------------------------------------
\* A thread: AddCallback(AsyncQuery(...)).With...Callback(...)

\* The query is on its way, emplace_back begins.
BeginAdd(t, q) ==
    /\ stage[t] = "idle"
    /\ stage' = [stage EXCEPT ![t] = "adding"]
    /\ adding' = [adding EXCEPT ![t] = q]
    /\ future' = [future EXCEPT ![q] = "pending"]
    /\ undefined' = Contended(t)
    /\ UNCHANGED <<processorVars, left, dangling>>

\* emplace_back has returned; it may have moved the elements, which leaves the
\* references of the other threads dangling.
EndAdd(t) ==
    /\ stage[t] = "adding"
    /\ callbacks' = Append(callbacks, adding[t])
    /\ stage' = [stage EXCEPT ![t] = "attaching"]
    /\ \/ dangling' = dangling \cup Attaching
       \/ UNCHANGED dangling
    /\ UNCHANGED <<updating, remaining, main, current, adding, queryVars, undefined>>

\* WithCallback, WithPreparedCallback, WithChaining...: all functions of the chain. A
\* handler that needs the answer goes on waiting for it.
Attach(t, next) ==
    /\ stage[t] = "attaching"
    /\ IF adding[t] \in dangling THEN undefined' = TRUE /\ UNCHANGED left
       ELSE left' = [left EXCEPT ![adding[t]] = Chain[adding[t]]] /\ UNCHANGED undefined
    /\ stage' = [stage EXCEPT ![t] = next]
    /\ adding' = [adding EXCEPT ![t] = IF next = "idle" THEN None ELSE @]
    /\ UNCHANGED <<processorVars, future, dangling>>

-------------------------------------------------------------------------------
\* The main loop: ProcessReadyCallbacks.

BeginProcess ==
    /\ main = "loop" /\ callbacks # <<>>
    /\ main' = "moving"
    /\ undefined' = \E t \in Threads : stage[t] = "adding"
    /\ UNCHANGED <<callbacks, updating, remaining, current, stage, adding, queryVars, dangling>>

\* std::vector<T> updateCallbacks{ std::move(_callbacks) }
Move ==
    /\ main = "moving"
    /\ main' = "walking"
    /\ updating' = callbacks /\ callbacks' = <<>>
    /\ dangling' = dangling \cup Attaching
    /\ UNCHANGED <<remaining, current, stage, adding, queryVars, undefined>>

\* Variant of NotReady: the function is popped.
NotReadyPopped ==
    /\ main = "walking" /\ updating # <<>>
    /\ future[Head(updating)] # "ready"
    /\ left' = [left EXCEPT ![Head(updating)] = @ - 1]
    /\ remaining' = Append(remaining, Head(updating)) /\ updating' = Tail(updating)
    /\ UNCHANGED <<callbacks, main, current, stage, adding, future, dangling, undefined>>

\* InvokeIfReady of an element whose future is not ready. front() of a queue without
\* functions is not read.
NotReady ==
    /\ main = "walking" /\ updating # <<>>
    /\ future[Head(updating)] # "ready"
    /\ remaining' = Append(remaining, Head(updating)) /\ updating' = Tail(updating)
    /\ UNCHANGED <<callbacks, main, current, stage, adding, queryVars, dangling, undefined>>

\* InvokeIfReady of an element whose future is ready: the future and the function are
\* moved out and the function is called, if there is one.
Ready ==
    /\ main = "walking" /\ updating # <<>>
    /\ future[Head(updating)] = "ready"
    /\ main' = "callback" /\ current' = Head(updating) /\ updating' = Tail(updating)
    /\ future' = [future EXCEPT ![Head(updating)] = "none"]
    /\ undefined' = (left[Head(updating)] = 0)
    /\ UNCHANGED <<callbacks, remaining, stage, adding, left, dangling>>

\* The function returns; next: it has called SetNextQuery. The last function of a chain
\* does not (ASSERT(!hasNext)); a chain without a next query is aborted.
Return(next) ==
    /\ main = "callback"
    /\ next => left[current] > 1
    /\ left' = [left EXCEPT ![current] = @ - 1]
    /\ future' = [future EXCEPT ![current] = IF next THEN "pending" ELSE "none"]
    /\ remaining' = IF next THEN Append(remaining, current) ELSE remaining
    /\ main' = "walking" /\ current' = None
    /\ UNCHANGED <<callbacks, updating, stage, adding, dangling, undefined>>

\* All elements were walked: _callbacks.insert begins.
BeginInsert ==
    /\ main = "walking" /\ updating = <<>>
    /\ main' = "inserting"
    /\ undefined' = \E t \in Threads : stage[t] = "adding"
    /\ UNCHANGED <<callbacks, updating, remaining, current, stage, adding, queryVars, dangling>>

\* Variant of Insert: the vector is put back instead.
InsertOver ==
    /\ main = "inserting"
    /\ main' = "loop"
    /\ callbacks' = remaining /\ remaining' = <<>>
    /\ dangling' = dangling \cup Attaching
    /\ UNCHANGED <<updating, current, stage, adding, queryVars, undefined>>

\* The remaining elements go behind the ones that were added in the meantime.
Insert ==
    /\ main = "inserting"
    /\ main' = "loop"
    /\ callbacks' = callbacks \o remaining /\ remaining' = <<>>
    /\ dangling' = dangling \cup Attaching
    /\ UNCHANGED <<updating, current, stage, adding, queryVars, undefined>>

ProcessReadyCallbacks == BeginProcess \/ Move \/ NotReady \/ Ready \/ BeginInsert \/ Insert

\* The promise of the operation is set.
Answer(q) ==
    /\ future[q] = "pending"
    /\ future' = [future EXCEPT ![q] = "ready"]
    /\ UNCHANGED <<processorVars, stage, adding, left, dangling, undefined>>

-------------------------------------------------------------------------------
\* Every QueryCallback whose query is asked and whose function has not been called is in
\* one place where the processor will find it, or still on its way into the vector; none
\* is in two. The vector is moved away, thinned out and put back while threads add to it.
NothingLost ==
    ~undefined =>
        /\ IsInjective(callbacks \o updating \o remaining)
        /\ \A q \in Queries : future[q] # "none" =>
               \/ q \in Range(callbacks \o updating \o remaining)
               \/ \E t \in Threads : stage[t] = "adding" /\ adding[t] = q
===============================================================================
