------------------------------ MODULE MCWorkerPool ------------------------------
(* Small instances of WorkerPool. *)
EXTENDS WorkerPool

CONSTANTS u1, u2, s1, s2, a1, a2

VARIABLE scenario

\* Two threads and the main thread meet at the synchronous connections while the queue is
\* empty; the main thread meets the checker and the workers, which have operations to
\* execute; and a thread meets the checker and the workers.
Within == CASE scenario = "users"   -> queued' = 0
            [] scenario = "workers" -> /\ queued' <= MaxQueue
                                       /\ \A u \in Users : pc'[u] = "idle"
            [] scenario = "both"    -> \A t \in Callers \ {u1} : pc'[t] = "idle"

MCInit == Init /\ scenario \in {"users", "workers", "both"}

MCSpec == /\ MCInit
          /\ [][Next /\ UNCHANGED scenario /\ Within]_<<vars, scenario>>
          /\ Fairness
===============================================================================
