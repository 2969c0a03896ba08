------------------------------ MODULE QueryHolder ------------------------------
(*************************************************************************)
(* SQLQueryHolder: several queries that a worker executes as one task,   *)
(* and a callback that the thread that waits runs once all of them are   *)
(* done; with the ResultSet the callback reads rows from.                *)
(*************************************************************************)
EXTENDS Naturals, Sequences

CONSTANTS
    HolderIndexes,      \* indexes the caller uses
    HolderRows          \* the largest number of rows of a result

ASSUME HolderAssumption == HolderRows \in Nat

VARIABLES
    holder,             \* "filled", "waiting" for the callback, or "called"
    holderQueries,      \* _queries: by index "plain" or "prepared"
    task,               \* "none", "queued", "running", "ended", or "dropped" with its queue
    left,               \* indexes the worker has still to execute
    ready,              \* whether the promise has its value
    answers,            \* rows the server has answered, by index; 0 for none or an error
    results,            \* HolderResult: rows of the result, by index; 0 for an empty pointer
    row,                \* the row a plain result is at, 0 before the first NextRow
    got                 \* the rows the callback got from GetResult, in order

holderVars == <<holder, holderQueries, task, left, ready, answers, results, row, got>>

HolderTypeOK == /\ holder \in {"filled", "waiting", "called"}
                /\ DOMAIN holderQueries \subseteq HolderIndexes
                /\ task \in {"none", "queued", "running", "ended", "dropped"}
                /\ left \subseteq HolderIndexes /\ ready \in BOOLEAN
                /\ {answers, results} \subseteq [HolderIndexes -> 0 .. HolderRows]
                /\ row \in [HolderIndexes -> 0 .. HolderRows + 1]
                /\ DOMAIN got = HolderIndexes

HolderInit == /\ holder = "filled" /\ holderQueries = <<>> /\ task = "none" /\ left = {}
              /\ ready = FALSE
              /\ answers = [i \in HolderIndexes |-> 0] /\ results = answers
              /\ row = answers /\ got = [i \in HolderIndexes |-> <<>>]

-------------------------------------------------------------------------------
\* AddQuery and AddPreparedQuery; an index that is taken is refused.
AddQuery(i, kind) ==
    /\ holder = "filled" /\ i \notin DOMAIN holderQueries
    /\ holderQueries' = [j \in DOMAIN holderQueries \cup {i} |->
                            IF j = i THEN kind ELSE holderQueries[j]]
    /\ UNCHANGED <<holder, task, left, ready, answers, results, row, got>>

DelayQueryHolder ==
    /\ holder = "filled"
    /\ holder' = "waiting" /\ task' = "queued"
    /\ UNCHANGED <<holderQueries, left, ready, answers, results, row, got>>

BeginExecute ==
    /\ task = "queued"
    /\ task' = "running" /\ left' = DOMAIN holderQueries
    /\ UNCHANGED <<holder, holderQueries, ready, answers, results, row, got>>

\* SetResult and SetPreparedResult; a result without rows is dropped.
SetResult(i, n) == results' = [results EXCEPT ![i] = n] /\ UNCHANGED row

\* One round of the loop of ExecuteQuery, in any order of the indexes.
ExecuteOne(i, n) ==
    /\ task = "running" /\ i \in left
    /\ left' = left \ {i}
    /\ answers' = [answers EXCEPT ![i] = n]
    /\ SetResult(i, n)
    /\ UNCHANGED <<holder, holderQueries, task, ready, got>>

\* Variant of EndExecute: the value is set before the last query.
EndExecuteEarly ==
    /\ task = "running" /\ ~ready
    /\ ready' = TRUE
    /\ UNCHANGED <<holder, holderQueries, task, left, answers, results, row, got>>

EndExecute ==
    /\ task = "running" /\ left = {}
    /\ task' = "ended" /\ ready' = TRUE
    /\ UNCHANGED <<holder, holderQueries, left, answers, results, row, got>>

\* The pool is closed with the task in its queue: the promise is broken, and the future
\* is ready all the same.
DropTask ==
    /\ task = "queued"
    /\ task' = "dropped" /\ ready' = TRUE
    /\ UNCHANGED <<holder, holderQueries, left, answers, results, row, got>>

\* The thread that waits finds the future ready and runs the callback.
InvokeIfReady ==
    /\ holder = "waiting" /\ ready
    /\ holder' = "called"
    /\ UNCHANGED <<holderQueries, task, left, ready, answers, results, row, got>>

\* GetResult, in the callback: each call goes to the next row. At the end NextRow frees the
\* result and from then on answers false.
GetResult(i) ==
    /\ holder = "called" /\ i \in DOMAIN holderQueries /\ holderQueries[i] = "plain"
    /\ results[i] # 0 /\ row[i] <= results[i]
    /\ row' = [row EXCEPT ![i] = @ + 1]
    /\ got' = IF row[i] < results[i] THEN [got EXCEPT ![i] = Append(@, row[i] + 1)] ELSE got
    /\ UNCHANGED <<holder, holderQueries, task, left, ready, answers, results>>

Worker == \/ BeginExecute \/ EndExecute
          \/ \E i \in HolderIndexes, n \in 0 .. HolderRows : ExecuteOne(i, n)

HolderNext == \/ DelayQueryHolder \/ Worker \/ DropTask \/ InvokeIfReady
              \/ \E i \in HolderIndexes, kind \in {"plain", "prepared"} : AddQuery(i, kind)
              \/ \E i \in HolderIndexes : GetResult(i)

HolderSpec == HolderInit /\ [][HolderNext]_holderVars

-------------------------------------------------------------------------------
\* When the callback runs, every query of the holder has been executed, and the holder
\* has what the server answered; unless the pool was closed before the task was begun.
AllAnswered == holder = "called" /\ task # "dropped" =>
                   left = {} /\ task # "queued" /\ results = answers

\* The callback reads the rows of a result from the first one on, each once.
EachRowOnce == \A i \in HolderIndexes : got[i] = [k \in 1 .. Len(got[i]) |-> k]

\* The callback of a holder has the answers to all its queries, and reads them in full.
ResultsOfAll == AllAnswered /\ EachRowOnce

\* A holder that was given to the pool gets its callback, as long as the worker and the
\* thread that waits run.
HolderCalled == holder = "waiting" ~> holder = "called"
===============================================================================
