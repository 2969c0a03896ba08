------------------------------ MODULE GuildPlayers ------------------------------
(*************************************************************************)
(* The commands of the bot about the players of a guild, from the event  *)
(* on a DPP shard thread over the asynchronous query, the callback on    *)
(* the main loop and the answer, to the end of the process.              *)
(*                                                                       *)
(* A shard is one thread, which handles its events one after another;    *)
(* the handlers of guild-players-list and guild-delete wait on it for a  *)
(* promise that the callback sets. The pool executes its queue with one  *)
(* static worker, in order.                                              *)
(*************************************************************************)
EXTENDS QueryCallback, FiniteSets

CONSTANTS
    Kind,               \* "add", "list" or "delete"; "chain": two queries, one after the other
    User, Nick,         \* who asks, about which player
    EnableRoleAdd,      \* DiscordGuildConfig::EnableRoleAdd
    MaxFields, PageAt   \* DISCORD_MAX_EMBED_FIELDS, the 23 of GuildGetPlayersHandler

Players == {[user |-> User[q], nick |-> Nick[q]] : q \in Queries}

ASSUME GuildPlayersAssumption ==
    /\ IsFiniteSet(Queries)
    /\ Kind \in [Queries -> {"add", "list", "delete", "chain"}]
    /\ \A q \in Queries : Chain[q] = IF Kind[q] = "chain" THEN 2 ELSE 1
    /\ EnableRoleAdd \in BOOLEAN
    /\ MaxFields \in Nat \ {0} /\ PageAt \in Nat \ {0}

VARIABLES
    rows,               \* guild_players of one guild
    ops,                \* AsyncDBQueue: what the worker will execute
    result,             \* rows the SELECT of a command has returned
    told,               \* what the user was told
    shown,              \* players in the messages of guild-players-list
    role,               \* REST calls that give the role: "none", "lookup", "adding", "given"
    stopped, closed     \* BotMgr::_stopEvent; CloseAllConnections was called

botVars == <<rows, ops, result, told, shown, role, stopped, closed>>
vars == <<callbackVars, botVars>>

Ops == [type : {"select", "insert", "delete"}, query : Queries]
Op(type, q) == [type |-> type, query |-> q]
Row(q) == [user |-> User[q], nick |-> Nick[q]]

TypeOK == /\ CallbackTypeOK
          /\ rows \subseteq Players
          /\ ops \in Seq(Ops)
          /\ result \in [Queries -> SUBSET Players]
          /\ told \in [Queries -> {"nothing", "added", "exists", "listed", "nobody",
                                   "removed", "unknown"}]
          /\ shown \in [Queries -> SUBSET Players]
          /\ role \in [Queries -> {"none", "lookup", "adding", "given"}]
          /\ stopped \in BOOLEAN /\ closed \in BOOLEAN

Init == /\ CallbackInit
        /\ rows \in SUBSET {Row(q) : q \in {p \in Queries : Kind[p] = "list"}}
        /\ ops = <<>>
        /\ result = [q \in Queries |-> {}]
        /\ told = [q \in Queries |-> "nothing"]
        /\ shown = [q \in Queries |-> {}]
        /\ role = [q \in Queries |-> "none"]
        /\ stopped = FALSE /\ closed = FALSE

-------------------------------------------------------------------------------
\* The database.

\* Enqueue: the queue of a closed pool is not served.
Enqueue(new) == ops' = IF closed THEN ops ELSE ops \o new

\* What the SELECT of a command returns.
Selected(q) == IF Kind[q] = "add" THEN {r \in rows : r.nick = Nick[q]} ELSE rows

\* Variant of Execute: a SELECT that fails sets no promise.
ExecuteSilently ==
    /\ ops # <<>>
    /\ LET op == Head(ops) q == op.query IN
       /\ IF op.type # "select" THEN UNCHANGED <<result, callbackVars>>
          ELSE \/ result' = [result EXCEPT ![q] = Selected(q)] /\ Answer(q)
               \/ UNCHANGED <<result, callbackVars>>
       /\ rows' = CASE op.type = "insert" -> rows \cup {Row(q)}
                    [] op.type = "delete" -> {r \in rows : r.nick # Nick[q]}
                    [] OTHER -> rows
    /\ ops' = Tail(ops)
    /\ UNCHANGED <<told, shown, role, stopped, closed>>

\* The worker executes the next operation. A SELECT that fails answers like one that
\* finds nothing; the key of the table is guild, user and nickname.
Execute ==
    /\ ops # <<>>
    /\ LET op == Head(ops) q == op.query IN
       \/ /\ op.type = "select"
          /\ \E found \in {Selected(q), {}} : result' = [result EXCEPT ![q] = found]
          /\ Answer(q)
          /\ UNCHANGED rows
       \/ /\ op.type = "insert"
          /\ rows' = rows \cup {Row(q)}
          /\ UNCHANGED <<result, callbackVars>>
       \/ /\ op.type = "delete"
          /\ rows' = {r \in rows : r.nick # Nick[q]}
          /\ UNCHANGED <<result, callbackVars>>
    /\ ops' = Tail(ops)
    /\ UNCHANGED <<told, shown, role, stopped, closed>>

-------------------------------------------------------------------------------
\* Shard threads.

\* on_form_submit with AddGuildNickName, GuildGetPlayersHandler or GuildDelHandler: the
\* query is enqueued and its callback is being added.
Ask(t, q) ==
    /\ told[q] = "nothing" /\ future[q] = "none" /\ left[q] = 0
    /\ q # current /\ \A u \in Threads : adding[u] # q
    /\ BeginAdd(t, q)
    /\ Enqueue(<<Op("select", q)>>)
    /\ UNCHANGED <<rows, result, told, shown, role, stopped, closed>>

\* The callback is attached; waiter->get_future().wait() where there is a waiter.
AttachHandler(t) ==
    /\ Attach(t, IF Kind[adding[t]] \in {"list", "delete"} THEN "waiting" ELSE "idle")
    /\ UNCHANGED botVars

\* The promise is set: event.reply(replyMessage), and the handler returns.
Reply(t) ==
    /\ stage[t] = "waiting" /\ told[adding[t]] # "nothing"
    /\ stage' = [stage EXCEPT ![t] = "idle"]
    /\ adding' = [adding EXCEPT ![t] = None]
    /\ UNCHANGED <<processorVars, queryVars, dangling, undefined, botVars>>

-------------------------------------------------------------------------------
\* The callbacks on the main loop.

\* guild-players-list: after k rows the message holds the fields of the first of them,
\* up to the limit of AddEmbedField. It is sent before every row from the 23rd on, and at
\* the end; the message that is made for the next page is another variable.
Fields(k) == 1 .. IF k < MaxFields THEN k ELSE MaxFields
Pages(n) == {Fields(k - 1) : k \in {i \in 1 .. n : i % 256 >= PageAt}} \cup {Fields(n)}

\* Which of the rows the messages show, for some order of the rows.
Shown(found) ==
    LET order == CHOOSE s \in [1 .. Cardinality(found) -> found] : IsInjective(s)
    IN  {order[i] : i \in UNION Pages(Cardinality(found))}

\* Variant of AddNickName: the INSERT is forgotten.
AddNickNameNowhere(q) ==
    /\ told' = [told EXCEPT ![q] = IF result[q] = {} THEN "added" ELSE "exists"]
    /\ UNCHANGED <<ops, role, shown>>

\* The callback of AddGuildNickName: the INSERT is sent if the nickname was not found, and
\* the member is looked up if the guild gives roles.
AddNickName(q) ==
    /\ IF result[q] = {}
       THEN /\ told' = [told EXCEPT ![q] = "added"]
            /\ Enqueue(<<Op("insert", q)>>)
            /\ role' = [role EXCEPT ![q] = IF EnableRoleAdd THEN "lookup" ELSE @]
       ELSE /\ told' = [told EXCEPT ![q] = "exists"]
            /\ UNCHANGED <<ops, role>>
    /\ UNCHANGED shown

\* The callback of GuildGetPlayersHandler.
ListPlayers(q) ==
    /\ told' = [told EXCEPT ![q] = IF result[q] = {} THEN "nobody" ELSE "listed"]
    /\ shown' = [shown EXCEPT ![q] = Shown(result[q])]
    /\ UNCHANGED <<ops, role>>

\* The callback of GuildDelHandler: the DELETE is sent if the nickname was found.
DeletePlayer(q) ==
    /\ IF \E r \in result[q] : r.nick = Nick[q]
       THEN /\ told' = [told EXCEPT ![q] = "removed"]
            /\ Enqueue(<<Op("delete", q)>>)
       ELSE /\ told' = [told EXCEPT ![q] = IF result[q] = {} THEN "nobody" ELSE "unknown"]
            /\ UNCHANGED ops
    /\ UNCHANGED <<shown, role>>

\* A client of the library that asks a second query from its first callback, or not.
Chained(q) == /\ told' = [told EXCEPT ![q] = "listed"]
              /\ UNCHANGED <<ops, shown, role>>

\* Call the function and come back from it.
CallBack ==
    /\ main = "callback"
    /\ LET q == current IN
       \/ Kind[q] = "add" /\ AddNickName(q) /\ Return(FALSE)
       \/ Kind[q] = "list" /\ ListPlayers(q) /\ Return(FALSE)
       \/ Kind[q] = "delete" /\ DeletePlayer(q) /\ Return(FALSE)
       \/ Kind[q] = "chain" /\ Chained(q) /\ Return(FALSE)
       \/ /\ Kind[q] = "chain"
          /\ Enqueue(<<Op("select", q)>>) /\ Return(TRUE)
          /\ UNCHANGED <<told, shown, role>>
    /\ UNCHANGED <<rows, result, stopped, closed>>

-------------------------------------------------------------------------------
\* main.

\* A signal: BotMgr::StopNow.
StopNow == /\ ~stopped
           /\ stopped' = TRUE
           /\ UNCHANGED <<callbackVars, rows, ops, result, told, shown, role, closed>>

\* ServerUpdateLoop: BotMgr::Update while there is no stop event.
Update == /\ main = "loop" => ~stopped
          /\ ProcessReadyCallbacks
          /\ UNCHANGED botVars

\* The loop ends; dbHandle calls CloseAllConnections: what is queued is not executed.
Close == /\ main = "loop" /\ stopped
         /\ main' = "closing"
         /\ closed' = TRUE
         /\ ops' = <<>>
         /\ UNCHANGED <<callbacks, updating, remaining, current, stage, adding, queryVars,
                        dangling, undefined, rows, result, told, shown, role, stopped>>

\* DiscordMgr::~DiscordMgr: Stop joins the thread of every shard (runner->join()), which
\* ends when the handler it is in has returned; _bot becomes null.
Stop == /\ main = "closing"
        /\ \A t \in Threads : stage[t] = "idle"
        /\ main' = "stopping"
        /\ UNCHANGED <<callbacks, updating, remaining, current, stage, adding, queryVars,
                       dangling, undefined, botVars>>

\* ~cluster joins the threads of its request queues.
Exit == /\ main = "stopping"
        /\ main' = "exited"
        /\ UNCHANGED <<callbacks, updating, remaining, current, stage, adding, queryVars,
                       dangling, undefined, botVars>>

-------------------------------------------------------------------------------
\* Threads of the request queues: confirmation callbacks.

\* guild_get_member: an error, or a member who has the role, ends it; otherwise the role
\* is asked for over _bot, which may be null by now.
MemberFound(q) ==
    /\ role[q] = "lookup"
    /\ \/ /\ role' = [role EXCEPT ![q] = "none"]
          /\ UNCHANGED undefined
       \/ /\ role' = [role EXCEPT ![q] = "adding"]
          /\ undefined' = (main = "stopping")
    /\ UNCHANGED <<processorVars, stage, adding, queryVars, dangling,
                   rows, ops, result, told, shown, stopped, closed>>

\* guild_member_add_role: the message is sent whatever came of it.
RoleAdded(q) ==
    /\ role[q] = "adding"
    /\ role' = [role EXCEPT ![q] = "given"]
    /\ UNCHANGED <<callbackVars, rows, ops, result, told, shown, stopped, closed>>

Thread(t) == \/ EndAdd(t) /\ UNCHANGED botVars
             \/ AttachHandler(t)
             \/ Reply(t)

Main == Update \/ CallBack \/ Close \/ Stop \/ Exit

Next == /\ ~undefined /\ main # "exited"
        /\ \/ \E t \in Threads, q \in Queries : Ask(t, q)
           \/ \E t \in Threads : Thread(t)
           \/ \E q \in Queries : MemberFound(q) \/ RoleAdded(q)
           \/ Execute
           \/ Main
           \/ StopNow

Spec == Init /\ [][Next]_vars

-------------------------------------------------------------------------------
\* A user who was told that a player was added finds the player: the INSERT is queued
\* or done, and only a removal somebody was told of undoes it.
ToldTheTruth ==
    ~closed =>
        \A q \in Queries : told[q] = "added" =>
            \/ \E i \in DOMAIN ops : ops[i] = Op("insert", q)
            \/ Row(q) \in rows
            \/ \E d \in Queries : Nick[d] = Nick[q] /\ told[d] = "removed"

\* Every command is answered while the bot runs: neither the chain of threads and
\* queues a request goes through nor a failed query leaves a handler waiting.
Answered ==
    \A q \in Queries : future[q] = "pending" ~> told[q] # "nothing" \/ stopped \/ undefined

\* Main.cpp:90: after the loop the process says "Halting process..." and returns from
\* main. So it ends.
Halts == stopped ~> main = "exited" \/ undefined

\* DiscordMgr.cpp:155: guild-players-list is there to "Получить список участников", to
\* get the list of the players. So the messages show every player that was found.
ListsEverybody == \A q \in Queries : told[q] = "listed" /\ Kind[q] = "list" => shown[q] = result[q]
===============================================================================
