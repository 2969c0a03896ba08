------------------------------ MODULE MCConnection ------------------------------
(* Instances of Connection for TLC. *)
EXTENDS Connection, TLC

CONSTANTS c1, c2, stmt, task, result, direct, empty

AllKinds == stmt :> "statement" @@ task :> "task" @@ result :> "result"
            @@ direct :> "direct" @@ empty :> "result"

AllQueries == stmt :> <<"prepared">> @@ task :> <<"raw", "raw">>
              @@ result :> <<"raw", "prepared">> @@ direct :> <<"raw", "raw">> @@ empty :> <<>>

MCKind == [j \in Jobs |-> AllKinds[j]]
MCQueries == [j \in Jobs |-> AllQueries[j]]

\* The jobs that meet: two transactions that retry under _deadlockLock, one that retries
\* beside one that does not, and a single statement or an empty transaction beside both.
Scenarios == {{task, result}, {result, direct}, {stmt, task, empty}, {stmt, direct}}

VARIABLE scenario

MCInit == Init /\ scenario \in Scenarios

MCSpec == /\ MCInit
          /\ [][/\ Next /\ UNCHANGED scenario
                /\ \A j \in Jobs \ scenario : status'[j] = "new"]_<<vars, scenario>>
          /\ Fairness
===============================================================================
