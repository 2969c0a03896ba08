------------------------------ MODULE OperationQueue ------------------------------
(*************************************************************************)
(* What the asynchronous half of DatabaseWorkerPool promises about the   *)
(* operations handed to Enqueue: they are handed over first in, first    *)
(* out, each one to a single worker, and each is executed at most once.  *)
(* How threads, the mutex and the condition variable achieve it is in    *)
(* AsyncQueue.                                                           *)
(*************************************************************************)
EXTENDS Sequences

CONSTANT Ops              \* AsyncOperation objects

VARIABLES
    pending,              \* operations nobody has taken yet, oldest first
    status                \* what became of every operation

vars == <<pending, status>>

Statuses == {"unborn", "queued", "held", "executed", "deleted", "dropped"}

TypeOK == /\ pending \in Seq(Ops)
          /\ status \in [Ops -> Statuses]

Init == /\ pending = <<>>
        /\ status = [o \in Ops |-> "unborn"]

\* DatabaseWorkerPool::Enqueue.
Enqueue(o) == /\ status[o] = "unborn"
              /\ pending' = Append(pending, o)
              /\ status' = [status EXCEPT ![o] = "queued"]

\* A worker takes the oldest pending operation.
HandOver == /\ pending # <<>>
            /\ pending' = Tail(pending)
            /\ status' = [status EXCEPT ![Head(pending)] = "held"]

\* The worker that took the operation has executed it.
Complete(o) == /\ status[o] = "held"
               /\ status' = [status EXCEPT ![o] = "executed"]
               /\ UNCHANGED pending

\* The worker that took the operation ends without executing it.
Drop(o) == /\ status[o] = "held"
           /\ status' = [status EXCEPT ![o] = "dropped"]
           /\ UNCHANGED pending

\* The queue is shut down: whatever is pending is deleted unexecuted.
Discard == /\ pending' = <<>>
           /\ status' = [o \in Ops |-> IF status[o] = "queued" THEN "deleted"
                                                               ELSE status[o]]

Next == \/ HandOver
        \/ Discard
        \/ \E o \in Ops : Enqueue(o) \/ Complete(o) \/ Drop(o)

Spec == Init /\ [][Next]_vars
===============================================================================
