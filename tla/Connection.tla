------------------------------- MODULE Connection -------------------------------
(*************************************************************************)
(* MySQLConnection executing single statements and transactions, the     *)
(* retry loops around ExecuteTransaction (TransactionTask,               *)
(* TransactionWithResultTask, DatabaseWorkerPool::DirectCommitTransaction)*)
(* and the MySQL server behind it, which may refuse a statement, report  *)
(* a deadlock or lose the session.                                       *)
(*                                                                       *)
(* One step is one statement sent and answered, one attempt to           *)
(* reconnect, or one decision of a retry loop. A thread has a connection *)
(* for itself while it works on a job.                                   *)
(*************************************************************************)
EXTENDS Naturals, Sequences

CONSTANTS
    Conns,                \* MySQLConnection objects
    Jobs,                 \* statements and transactions, each executed by one thread
    Kind,                 \* what executes a job
    Queries,              \* its statements, "raw" or "prepared", in append order
    Attempts,             \* attempts to reconnect (default argument of HandleMySQLError)
    Retries,              \* loopBreaker of DirectCommitTransaction
    MaxLosses,            \* bound on the number of lost sessions
    None                  \* owner of a free mutex, job of an idle connection

Kinds == {"statement", "task", "result", "direct"}

ASSUME ConnectionAssumption ==
    /\ Kind \in [Jobs -> Kinds]
    /\ Queries \in [Jobs -> Seq({"raw", "prepared"})]
    /\ \A j \in Jobs : Kind[j] = "statement" => Len(Queries[j]) = 1
    /\ Attempts \in Nat \ {0}
    /\ Retries \in Nat
    /\ MaxLosses \in Nat
    /\ None \notin Conns /\ None \notin Jobs

VARIABLES
    handle,               \* is _mysqlHandle set?
    stale,                \* do the prepared statements belong to a closed session?
    inTrans, work,        \* server: is a transaction open, its uncommitted statements
    table,                \* server: the durable statements of every job, in order
    pc, job, pos,         \* what the thread on a connection is sending
    code,                 \* what ExecuteTransaction or Execute returned
    resume, attempts,     \* HandleMySQLError: the statement to send again, attempts left
    retries,              \* DirectCommitTransaction: i
    deadlockLock,         \* owner of TransactionTask::_deadlockLock
    status,               \* outcome of every job, as its caller learns it
    aborted,              \* ABORT was called
    losses, disturbed     \* sessions lost; jobs that met a lost session

serverVars == <<inTrans, work, table>>
loopVars   == <<retries, deadlockLock, status>>
faultVars  == <<losses, disturbed>>
vars == <<handle, stale, serverVars, pc, job, pos, code, resume, attempts, loopVars,
          aborted, faultVars>>

Sending == {"begin", "query", "commit", "rollback"}

TypeOK == /\ handle \in [Conns -> BOOLEAN]
          /\ stale \in [Conns -> BOOLEAN]
          /\ inTrans \in [Conns -> BOOLEAN]
          /\ work \in [Conns -> Seq(Nat)]
          /\ table \in [Jobs -> Seq(Nat)]
          /\ pc \in [Conns -> Sending \cup {"idle", "reconnect", "returned"}]
          /\ job \in [Conns -> Jobs \cup {None}]
          /\ pos \in [Conns -> Nat \ {0}]
          /\ code \in [Conns -> {"ok", "deadlock", "error"}]
          /\ resume \in [Conns -> Sending]
          /\ attempts \in [Conns -> 0 .. Attempts]
          /\ retries \in [Conns -> 0 .. Retries]
          /\ deadlockLock \in Conns \cup {None}
          /\ status \in [Jobs -> {"new", "running", "true", "false"}]
          /\ aborted \in BOOLEAN
          /\ losses \in 0 .. MaxLosses
          /\ disturbed \in SUBSET Jobs

Init == /\ handle = [c \in Conns |-> TRUE]
        /\ stale = [c \in Conns |-> FALSE]
        /\ inTrans = [c \in Conns |-> FALSE]
        /\ work = [c \in Conns |-> <<>>]
        /\ table = [j \in Jobs |-> <<>>]
        /\ pc = [c \in Conns |-> "idle"]
        /\ job = [c \in Conns |-> None]
        /\ pos = [c \in Conns |-> 1]
        /\ code = [c \in Conns |-> "ok"]
        /\ resume = [c \in Conns |-> "begin"]
        /\ attempts = [c \in Conns |-> 0]
        /\ retries = [c \in Conns |-> 0]
        /\ deadlockLock = None
        /\ status = [j \in Jobs |-> "new"]
        /\ aborted = FALSE
        /\ losses = 0
        /\ disturbed = {}

Size(j) == Len(Queries[j])
Upto(n) == [k \in 1 .. n |-> k]
IsPrepared(c) == pc[c] = "query" /\ Queries[job[c]][pos[c]] = "prepared"

-------------------------------------------------------------------------------
\* ExecuteTransaction: what follows a statement that returned true or false. The
\* results of START TRANSACTION, COMMIT and ROLLBACK are not looked at.

\* ExecuteTransaction is called, or Execute for a single statement.
Enter(c, j) ==
    IF Size(j) = 0 THEN /\ pc' = [pc EXCEPT ![c] = "returned"]
                        /\ code' = [code EXCEPT ![c] = "error"]
    ELSE /\ pc' = [pc EXCEPT ![c] = IF Kind[j] = "statement" THEN "query" ELSE "begin"]
         /\ UNCHANGED code

ReturnOk(c) == /\ pc' = [pc EXCEPT ![c] = "returned"]
               /\ code' = [code EXCEPT ![c] = "ok"]
               /\ UNCHANGED pos

\* The statement of a stage was executed.
Advance(c, stage) ==
    \/ /\ stage = "begin"
       /\ pc' = [pc EXCEPT ![c] = "query"]
       /\ UNCHANGED <<pos, code>>
    \/ /\ stage = "query" /\ pos[c] < Size(job[c])
       /\ pc' = [pc EXCEPT ![c] = "query"]
       /\ pos' = [pos EXCEPT ![c] = @ + 1]
       /\ UNCHANGED code
    \/ /\ stage = "query" /\ pos[c] = Size(job[c]) /\ Kind[job[c]] # "statement"
       /\ pc' = [pc EXCEPT ![c] = "commit"]
       /\ UNCHANGED <<pos, code>>
    \/ /\ stage = "query" /\ pos[c] = Size(job[c]) /\ Kind[job[c]] = "statement"
       /\ ReturnOk(c)
    \/ /\ stage = "commit"
       /\ ReturnOk(c)
    \/ /\ stage = "rollback"
       /\ pc' = [pc EXCEPT ![c] = "returned"]
       /\ UNCHANGED <<pos, code>>

\* Variant of Fall: a refused statement is skipped.
FallThrough(c, stage, errno) == Advance(c, stage)

\* Variant of Fall: the early return forgets the ROLLBACK.
FallWithoutRollback(c, stage, errno) ==
    IF stage # "query" THEN Advance(c, stage)
    ELSE /\ pc' = [pc EXCEPT ![c] = "returned"]
         /\ code' = [code EXCEPT ![c] = errno]
         /\ UNCHANGED pos

\* The statement of a stage returned false; errno is what GetLastError() will say.
Fall(c, stage, errno) ==
    IF stage # "query" THEN Advance(c, stage)
    ELSE /\ pc' = [pc EXCEPT ![c] = IF Kind[job[c]] = "statement" THEN "returned"
                                                                  ELSE "rollback"]
         /\ code' = [code EXCEPT ![c] = IF Kind[job[c]] = "statement" THEN "error"
                                                                      ELSE errno]
         /\ UNCHANGED pos

\* Take a job: ExecuteQuery of the task, or DirectCommitTransaction.
Start(c, j) ==
    /\ pc[c] = "idle"
    /\ status[j] = "new"
    /\ status' = [status EXCEPT ![j] = "running"]
    /\ job' = [job EXCEPT ![c] = j]
    /\ disturbed' = IF stale[c] THEN disturbed \cup {j} ELSE disturbed
    /\ Enter(c, j)
    /\ UNCHANGED <<handle, stale, serverVars, pos, resume, attempts, retries, deadlockLock,
                   aborted, losses>>

-------------------------------------------------------------------------------
\* One statement: Execute and Query of MySQLConnection, and the server.

\* The durable statements of the job once the server has executed the one being
\* sent: outside a transaction every statement commits itself.
Durable(c) == LET j == job[c] IN
    IF pc[c] = "commit" THEN table[j] \o work[c]
    ELSE IF pc[c] = "query" /\ ~inTrans[c] THEN Append(table[j], pos[c])
    ELSE table[j]

\* A statement that cannot be sent: the handle is null, or it was prepared in a
\* session that is closed.
Unusable(c) == ~handle[c] \/ (stale[c] /\ IsPrepared(c))

\* The server executes the statement.
SendOk(c) ==
    /\ pc[c] \in Sending
    /\ ~Unusable(c)
    /\ table' = [table EXCEPT ![job[c]] = Durable(c)]
    /\ inTrans' = [inTrans EXCEPT ![c] = (pc[c] = "begin") \/ (pc[c] = "query" /\ @)]
    /\ work' = [work EXCEPT ![c] = IF pc[c] = "query" /\ inTrans[c]
                                   THEN Append(@, pos[c]) ELSE <<>>]
    /\ Advance(c, pc[c])
    /\ UNCHANGED <<handle, stale, job, resume, attempts, loopVars, aborted, faultVars>>

\* The server refuses the statement (ER_DUP_ENTRY, ER_WRONG_VALUE_COUNT, ...), or
\* chooses its transaction as the victim of a deadlock and rolls it back. START
\* TRANSACTION, COMMIT and ROLLBACK touch no row and are not refused.
SendFails(c, errno) ==
    /\ pc[c] = "query"
    /\ ~Unusable(c)
    /\ inTrans' = [inTrans EXCEPT ![c] = @ /\ errno # "deadlock"]
    /\ work' = [work EXCEPT ![c] = IF errno = "deadlock" THEN <<>> ELSE @]
    /\ Fall(c, "query", errno)
    /\ UNCHANGED <<handle, stale, table, job, resume, attempts, loopVars, aborted, faultVars>>

\* A null handle returns false at once. A statement of a closed session fails in the
\* client, which leaves the error in the statement: mysql_errno(_mysqlHandle) is 0.
SendUnusable(c) ==
    /\ pc[c] \in Sending
    /\ Unusable(c)
    /\ Fall(c, pc[c], "ok")
    /\ UNCHANGED <<handle, stale, serverVars, job, resume, attempts, loopVars, aborted, faultVars>>

\* CR_SERVER_GONE_ERROR, CR_SERVER_LOST: the session ends, before or after the server
\* executed the statement, and its open transaction is rolled back. HandleMySQLError
\* closes the handle, and with it every statement prepared on it.
SendLost(c) ==
    /\ pc[c] \in Sending
    /\ ~Unusable(c)
    /\ losses < MaxLosses
    /\ losses' = losses + 1
    /\ disturbed' = disturbed \cup {job[c]}
    /\ \/ table' = [table EXCEPT ![job[c]] = Durable(c)]
       \/ UNCHANGED table
    /\ inTrans' = [inTrans EXCEPT ![c] = FALSE]
    /\ work' = [work EXCEPT ![c] = <<>>]
    /\ handle' = [handle EXCEPT ![c] = FALSE]
    /\ stale' = [stale EXCEPT ![c] = TRUE]
    /\ resume' = [resume EXCEPT ![c] = pc[c]]
    /\ attempts' = [attempts EXCEPT ![c] = Attempts]
    /\ pc' = [pc EXCEPT ![c] = "reconnect"]
    /\ UNCHANGED <<job, pos, code, loopVars, aborted>>

\* ABORT: the process ends, the server rolls back what is open.
Abort == /\ aborted' = TRUE
         /\ inTrans' = [c \in Conns |-> FALSE]
         /\ work' = [c \in Conns |-> <<>>]
         /\ UNCHANGED <<handle, stale, table, pc, job, pos, code, resume, attempts,
                        loopVars, faultVars>>

\* ER_BAD_FIELD_ERROR, ER_NO_SUCH_TABLE, ER_PARSE_ERROR.
SendAborts(c) == /\ pc[c] = "query"
                 /\ ~Unusable(c)
                 /\ Abort

\* HandleMySQLError returns; its locals go out of scope.
Handled(c) == /\ resume' = [resume EXCEPT ![c] = "begin"]
              /\ attempts' = [attempts EXCEPT ![c] = 0]

\* HandleMySQLError: Open succeeds. PrepareStatements() only reads _prepareError, so
\* the statement list stays as it is. The caller sends its statement again.
Reopen(c) ==
    /\ pc[c] = "reconnect"
    /\ handle' = [handle EXCEPT ![c] = TRUE]
    /\ pc' = [pc EXCEPT ![c] = resume[c]]
    /\ Handled(c)
    /\ UNCHANGED <<stale, serverVars, job, pos, code, loopVars, aborted, faultVars>>

\* HandleMySQLError: Open fails and it was the last attempt.
LastReopenFails(c) == /\ pc[c] = "reconnect"
                      /\ attempts[c] = 1
                      /\ Abort

\* HandleMySQLError: Open fails with an error that the recursive call takes for a
\* lost connection.
ReopenFails(c) ==
    /\ pc[c] = "reconnect"
    /\ attempts[c] > 1
    /\ attempts' = [attempts EXCEPT ![c] = @ - 1]
    /\ UNCHANGED <<handle, stale, serverVars, pc, job, pos, code, resume, loopVars,
                   aborted, faultVars>>

\* HandleMySQLError: Open fails with any other error, which the recursive call does
\* not handle. The handle stays null, for which mysql_errno is 0.
ReopenRefused(c) ==
    /\ pc[c] = "reconnect"
    /\ attempts[c] > 1
    /\ Fall(c, resume[c], "ok")
    /\ Handled(c)
    /\ UNCHANGED <<handle, stale, serverVars, job, loopVars, aborted, faultVars>>

-------------------------------------------------------------------------------
\* The callers of ExecuteTransaction.

\* The local variables of the caller go out of scope.
Forget(c) == /\ pc' = [pc EXCEPT ![c] = "idle"]
             /\ job' = [job EXCEPT ![c] = None]
             /\ pos' = [pos EXCEPT ![c] = 1]
             /\ code' = [code EXCEPT ![c] = "ok"]
             /\ retries' = [retries EXCEPT ![c] = 0]

\* The job is over: what its caller learns; a lock_guard releases the mutex.
End(c, outcome) ==
    /\ status' = [status EXCEPT ![job[c]] = outcome]
    /\ deadlockLock' = IF deadlockLock = c THEN None ELSE deadlockLock
    /\ Forget(c)
    /\ UNCHANGED <<handle, stale, serverVars, resume, attempts, aborted, faultVars>>

\* Variant of Succeed: the return inside the loop forgets the mutex.
SucceedLocked(c) ==
    /\ pc[c] = "returned"
    /\ code[c] = "ok"
    /\ status' = [status EXCEPT ![job[c]] = "true"]
    /\ Forget(c)
    /\ UNCHANGED <<handle, stale, serverVars, resume, attempts, deadlockLock, aborted,
                   faultVars>>

\* Error code 0: return, and set_value(true) where there is a promise.
Succeed(c) == /\ pc[c] = "returned"
              /\ code[c] = "ok"
              /\ End(c, "true")

\* Execute the transaction again.
Again(c) == /\ Enter(c, job[c])
            /\ pos' = [pos EXCEPT ![c] = 1]
            /\ UNCHANGED <<handle, stale, serverVars, job, resume, attempts, status,
                           aborted, faultVars>>

IsTask(c) == Kind[job[c]] \in {"task", "result"}

\* The first attempt of a task met a deadlock: take _deadlockLock and try again.
LockAndRetry(c) == /\ pc[c] = "returned"
                   /\ IsTask(c) /\ code[c] = "deadlock"
                   /\ deadlockLock = None
                   /\ deadlockLock' = c
                   /\ UNCHANGED retries
                   /\ Again(c)

\* In the loop: any error is tried again while there is time.
RetryTask(c) == /\ pc[c] = "returned"
                /\ deadlockLock = c /\ code[c] # "ok"
                /\ UNCHANGED <<deadlockLock, retries>>
                /\ Again(c)

\* DEADLOCK_MAX_RETRY_TIME_MS is over: Cleanup, set_value(false).
GiveUp(c) == /\ pc[c] = "returned"
             /\ deadlockLock = c /\ code[c] # "ok"
             /\ End(c, "false")

\* DirectCommitTransaction: after a deadlock, loopBreaker further attempts.
RetryDirect(c) == /\ pc[c] = "returned"
                  /\ Kind[job[c]] = "direct"
                  /\ IF retries[c] = 0 THEN code[c] = "deadlock" ELSE code[c] # "ok"
                  /\ retries[c] < Retries
                  /\ retries' = [retries EXCEPT ![c] = @ + 1]
                  /\ UNCHANGED deadlockLock
                  /\ Again(c)

\* An error that is not tried again, or not any more: Cleanup.
Fail(c) == /\ pc[c] = "returned"
           /\ code[c] # "ok"
           /\ deadlockLock # c
           /\ \/ Kind[job[c]] = "statement"
              \/ IsTask(c) /\ code[c] = "error"
              \/ /\ Kind[job[c]] = "direct"
                 /\ \/ retries[c] = 0 /\ code[c] = "error"
                    \/ retries[c] = Retries
           /\ End(c, "false")

-------------------------------------------------------------------------------
Send(c) == \/ SendOk(c)
           \/ \E errno \in {"deadlock", "error"} : SendFails(c, errno)
           \/ SendUnusable(c)
           \/ SendLost(c)
           \/ SendAborts(c)

Reconnect(c) == Reopen(c) \/ LastReopenFails(c) \/ ReopenFails(c) \/ ReopenRefused(c)

Decide(c) == Succeed(c) \/ RetryTask(c) \/ GiveUp(c) \/ RetryDirect(c) \/ Fail(c)

Next == /\ ~aborted
        /\ \E c \in Conns : \/ \E j \in Jobs : Start(c, j)
                            \/ Send(c)
                            \/ Reconnect(c)
                            \/ LockAndRetry(c)
                            \/ Decide(c)

Spec == Init /\ [][Next]_vars

\* The server answers, Open returns, a thread goes on; a mutex that becomes free again
\* and again is obtained; the time of the retry loop runs out.
Fairness == \A c \in Conns : /\ WF_vars(~aborted /\ Send(c))
                             /\ WF_vars(~aborted /\ Reconnect(c))
                             /\ WF_vars(~aborted /\ Decide(c))
                             /\ SF_vars(~aborted /\ LockAndRetry(c))
                             /\ SF_vars(~aborted /\ GiveUp(c))

FairSpec == Spec /\ Fairness

-------------------------------------------------------------------------------
\* A job that never met a lost session has taken effect as a whole, in append order
\* and once, or not at all; and it has taken effect exactly when its caller was told
\* so. Deadlocks, refused statements, retries and ABORT do not change that.
Faithful ==
    \A j \in Jobs \ disturbed :
        /\ table[j] \in {<<>>, Upto(Size(j))}
        /\ status[j] = "true" => table[j] = Upto(Size(j))
        /\ status[j] = "false" => table[j] = <<>>

\* A connection that goes back to the pool carries no open transaction, whatever
\* happened on it: the next START TRANSACTION would commit a stranger's statements.
NoOpenTransactionLeft ==
    \A c \in Conns : pc[c] = "idle" => ~inTrans[c] /\ work[c] = <<>>

\* Which connection works on which job.
Binding == /\ \A c \in Conns : pc[c] = "idle" <=> job[c] = None
           /\ \A c, d \in Conns : job[c] # None /\ job[c] = job[d] => c = d
           /\ \A c \in Conns : job[c] # None => status[job[c]] = "running"

\* A transaction is open only between START TRANSACTION and COMMIT or ROLLBACK, and
\* only in a session that exists; a single statement starts none; a handle is null
\* only after a loss.
SessionOf(c) ==
    /\ inTrans[c] => /\ pc[c] \in {"query", "commit", "rollback"}
                     /\ Kind[job[c]] # "statement"
                     /\ handle[c]
    /\ ~inTrans[c] => work[c] = <<>>
    /\ pc[c] = "begin" \/ (pc[c] = "reconnect" /\ resume[c] = "begin")
           => Kind[job[c]] # "statement"
    /\ handle[c] \/ stale[c]

Session == \A c \in Conns : SessionOf(c)

\* How far the job of a connection has come, and what the server has of it, if it is
\* undisturbed.
ProgressOf(c) == LET j == job[c] IN
    j # None /\ j \notin disturbed =>
        /\ handle[c] /\ ~stale[c]
        /\ pc[c] # "reconnect"
        /\ pc[c] = "begin" => pos[c] = 1 /\ Size(j) > 0 /\ Kind[j] # "statement"
        /\ pc[c] = "query" => /\ pos[c] <= Size(j)
                              /\ IF Kind[j] = "statement" THEN pos[c] = 1
                                 ELSE inTrans[c] /\ work[c] = Upto(pos[c] - 1)
        /\ pc[c] = "commit" => work[c] = Upto(Size(j))
        /\ pc[c] = "rollback" => code[c] # "ok"
        /\ IF pc[c] = "returned" /\ code[c] = "ok" THEN table[j] = Upto(Size(j))
           ELSE table[j] = <<>>

Progress == \A c \in Conns : ProgressOf(c)

\* A job nobody has started has no effect, an idle thread has fresh locals.
Fresh == /\ \A j \in Jobs : status[j] = "new" => table[j] = <<>>
         /\ \A c \in Conns : pc[c] = "idle" => pos[c] = 1

\* The inductive invariant: Faithful follows from where every thread is. ABORT ends
\* the sessions, and nothing happens after it.
IndInv == /\ TypeOK /\ Binding /\ Session /\ Fresh /\ Faithful
          /\ aborted \/ Progress

\* Every job ends, or the process does: deadlocks, retries and reconnections do not
\* keep a thread for ever, as long as sessions are not lost for ever.
JobEnds == \A j \in Jobs : status[j] = "running" ~> (status[j] \in {"true", "false"} \/ aborted)

\* DatabaseWorkerPool.h:167: a transaction is rolled back automatically if it is not
\* committed "(Autocommit=0)". So no job leaves a part of its statements behind.
AllOrNothing == \A j \in Jobs : status[j] \in {"true", "false"} => table[j] \in {<<>>, Upto(Size(j))}

\* MySQLConnection.cpp:404: a reconnection re-prepares the statements, or the process
\* ends with "Could not re-prepare statements!". So a prepared statement that is sent
\* over an open handle belongs to the session of the handle.
PreparedInThisSession == \A c \in Conns : IsPrepared(c) /\ handle[c] => ~stale[c]
===============================================================================
