------------------------------- MODULE MCStartUp -------------------------------
(* Instances of StartUp for TLC. *)
EXTENDS StartUp

CONSTANTS botPool, otherPool, MaxStarts

File(n, h, s) == [name |-> n, hash |-> h, state |-> s]

MCPools == <<otherPool, botPool>>

\* Two files; the second renamed and the first archived; the first changed, with a copy
\* among the custom files; the first gone, with two copies; a duplicate name.
MCTrees ==
    {{File(1, 1, "RELEASED"), File(2, 2, "RELEASED")},
     {File(1, 1, "ARCHIVED"), File(3, 2, "RELEASED")},
     {File(1, 2, "RELEASED"), File(2, 2, "CUSTOM")},
     {File(2, 1, "RELEASED"), File(3, 1, "MODULE")},
     {File(1, 1, "RELEASED"), File(1, 2, "CUSTOM")}}

MCHistories == {{}, {File(1, 0, "RELEASED")},
                {File(1, 1, "ARCHIVED"), File(2, 2, "RELEASED"), File(3, 2, "MODULE")}}

MCOptions == {[redundancy |-> TRUE,  rehash |-> TRUE,  archived |-> FALSE, clean |-> 1],
              [redundancy |-> TRUE,  rehash |-> FALSE, archived |-> TRUE,  clean |-> -1],
              [redundancy |-> FALSE, rehash |-> TRUE,  archived |-> FALSE, clean |-> 0]}

VARIABLE starts

MCVars == <<startVars, starts>>

MCInit == StartInit /\ starts = 0

MCSpec == /\ MCInit
          /\ [][/\ StartNext
                /\ starts' = starts + (IF phase = "down" THEN 1 ELSE 0)
                /\ starts' <= MaxStarts]_MCVars
          /\ WF_MCVars(Work /\ UNCHANGED starts)
===============================================================================
