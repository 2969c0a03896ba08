------------------------------ MODULE MCDiscordMgr ------------------------------
(* Instances of DiscordMgr for TLC. *)
EXTENDS DiscordMgr, TLC

CONSTANTS add1, add2, list, delete, chain, u1, u2, u3, nick, other

MCKind == [q \in Queries |-> CASE q = list -> "list" [] q = delete -> "delete"
                               [] q = chain -> "chain" [] OTHER -> "add"]
MCChain == [q \in Queries |-> IF q = chain THEN 2 ELSE 1]
MCUser == [q \in Queries |-> CASE q = add1 -> u1 [] q = add2 -> u2 [] OTHER -> u3]
MCAuthor == [r \in Requests |-> u1]
MCNick == [q \in Queries |-> IF q = list THEN other ELSE nick]

\* The commands and role checks that are given together; every command alone with the
\* role check, and the ones that meet in the table with each other.
Scenarios == {<<{add1, add2, delete}, 0>>, <<{add1, list, delete}, 0>>, <<{add1, add2, list}, 0>>,
              <<{chain, add1}, 0>>, <<{list}, 2>>, <<{add1}, 2>>}

VARIABLE scenario

MCVars == <<botAndButtonVars, scenario>>

MCInit == BotInit /\ scenario \in Scenarios

\* No command outside the scenario is given.
Within == /\ \A t \in Threads : adding'[t] \in scenario[1] \cup {None}
          /\ Len(made') <= scenario[2]
          /\ UNCHANGED scenario

MCSpec == /\ MCInit
          /\ [][BotNext /\ Within]_MCVars
          /\ BotFairness
===============================================================================
