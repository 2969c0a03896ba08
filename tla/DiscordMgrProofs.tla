--------------------------- MODULE DiscordMgrProofs ---------------------------
(***************************************************************************)
(* The commands about players, for any commands, users, nicknames and      *)
(* shard threads: what a user was told of an added player is so, and as    *)
(* long as the vector of callbacks is not used by two threads at once no   *)
(* callback is lost or called for nothing; and the buttons that confirm    *)
(* a command.                                                              *)
(***************************************************************************)
EXTENDS DiscordMgr, ConfirmButtons, TLAPS

\* The buttons of the role check. What is stored for an author is the author's newest request,
\* and it was not executed.
ButtonsInv == /\ ButtonsTypeOK
              /\ \A r \in Requests : r \notin Range(made) => executed[r] = 0
              /\ \A a \in Authors : confirmButtons[a] # Nothing =>
                    /\ Author[confirmButtons[a]] = a
                    /\ Newest(confirmButtons[a])
                    /\ executed[confirmButtons[a]] = 0

\* A new request of the author: it is the newest one.
LEMMA CheckRolesKeeps ==
    ASSUME ButtonsInv, NEW r \in Requests, CheckRoles(r)
    PROVE  ButtonsInv'
<1>1. /\ made \in Seq(Requests) /\ Author \in [Requests -> Authors] /\ Nothing \notin Requests
      /\ confirmButtons \in [Authors -> Requests \cup {Nothing}] /\ executed \in [Requests -> Nat]
      /\ messages \subseteq Requests
    BY ButtonsAssumption DEF ButtonsInv, ButtonsTypeOK
<1>2. /\ r \notin Range(made) /\ confirmButtons' = [confirmButtons EXCEPT ![Author[r]] = r]
      /\ made' = Append(made, r) /\ messages' = messages \cup {r} /\ executed' = executed
    BY DEF CheckRoles, AddConfirmButton
<1>3. /\ made' \in Seq(Requests) /\ Len(made) \in Nat /\ DOMAIN made = 1 .. Len(made)
      /\ DOMAIN made' = 1 .. Len(made) + 1 /\ made'[Len(made) + 1] = r
      /\ \A i \in 1 .. Len(made) : made'[i] = made[i]
      /\ \A i \in DOMAIN made : i \in DOMAIN made' /\ made'[i] = made[i]
  <2>1. made \in Seq(Requests) /\ made' = Append(made, r)
    BY Zenon, <1>1, <1>2
  <2> QED
    BY <2>1
<1>4. ButtonsTypeOK'
    BY Zenon, <1>1, <1>2, <1>3 DEF ButtonsTypeOK
<1>5. ASSUME NEW s \in Requests, s \notin Range(made') PROVE executed'[s] = 0
  <2>1. s \notin Range(made)
    BY Zenon, <1>3, <1>5 DEF Range
  <2> QED
    BY Zenon, <1>2, <2>1 DEF ButtonsInv
<1>6. ASSUME NEW a \in Authors, confirmButtons'[a] # Nothing
      PROVE  /\ Author[confirmButtons'[a]] = a
             /\ Newest(confirmButtons[a])'
             /\ executed'[confirmButtons'[a]] = 0
  <2>1. CASE a = Author[r]
    <3>1. confirmButtons'[a] = r
      BY Zenon, <1>1, <1>2, <2>1
    <3>2. Len(made) + 1 \in DOMAIN made' /\ \A j \in DOMAIN made' : ~(j > Len(made) + 1)
      BY <1>3
    <3>3. Newest(confirmButtons[a])'
      BY Zenon, <1>3, <3>1, <3>2 DEF Newest
    <3>4. executed[r] = 0
      BY Zenon, <1>2 DEF ButtonsInv
    <3> QED
      BY Zenon, <1>2, <2>1, <3>1, <3>3, <3>4
  <2>2. CASE a # Author[r]
    <3>1. PICK s : s = confirmButtons[a]
      OBVIOUS
    <3>2. confirmButtons'[a] = s /\ s # Nothing
      BY <1>1, <1>2, <1>6, <2>2, <3>1
    <3>3. Author[s] = a /\ Newest(s) /\ executed[s] = 0
      BY Zenon, <3>1, <3>2 DEF ButtonsInv
    <3>4. PICK i \in DOMAIN made : made[i] = s /\ \A j \in DOMAIN made : j > i => Author[made[j]] # a
      BY Zenon, <3>3 DEF Newest
    <3>5. i \in DOMAIN made' /\ made'[i] = s
      BY Zenon, <1>3, <3>4
    <3>6. ASSUME NEW j \in DOMAIN made', j > i PROVE Author[made'[j]] # a
      <4>1. CASE j = Len(made) + 1
        BY Zenon, <1>3, <2>2, <4>1
      <4>2. CASE j # Len(made) + 1
        <5>1. j \in DOMAIN made /\ made'[j] = made[j]
          BY <1>3, <4>2
        <5> QED
          BY Zenon, <3>4, <3>6, <5>1
      <4> QED
        BY Zenon, <4>1, <4>2
    <3>7. Newest(confirmButtons[a])'
      BY Zenon, <3>2, <3>3, <3>5, <3>6 DEF Newest
    <3> QED
      BY Zenon, <1>2, <3>2, <3>3, <3>7
  <2> QED
    BY Zenon, <2>1, <2>2
<1> QED
    BY Zenon, <1>4, <1>5, <1>6 DEF ButtonsInv

\* The invariant of the buttons, for every number of authors and requests.
THEOREM ButtonsInvHolds == ButtonsSpec => []ButtonsInv
<1>1. ButtonsInit => ButtonsInv
    BY DEF ButtonsInit, ButtonsInv, ButtonsTypeOK
<1>2. ButtonsInv /\ [ButtonsNext]_buttonVars => ButtonsInv'
  <2> SUFFICES ASSUME ButtonsInv, [ButtonsNext]_buttonVars PROVE ButtonsInv'
    OBVIOUS
  <2>1. ASSUME NEW r \in Requests, Confirm(r) PROVE ButtonsInv'
    <3>a. PICK a \in Authors : a = Author[r]
      BY ButtonsAssumption
    <3>b. PICK stored : stored = confirmButtons[a]
      OBVIOUS
    <3>1. a = Author[r] /\ stored = confirmButtons[a]
      BY Zenon, <3>a, <3>b
    <3>2. /\ stored # Nothing
          /\ executed' = [executed EXCEPT ![stored] = @ + 1]
          /\ confirmButtons' = [confirmButtons EXCEPT ![a] = Nothing]
          /\ UNCHANGED <<made, messages>>
      BY Zenon, <2>1, <3>1 DEF Confirm
    <3>3. /\ confirmButtons \in [Authors -> Requests \cup {Nothing}] /\ executed \in [Requests -> Nat]
      BY DEF ButtonsInv, ButtonsTypeOK
    <3>4. stored \in Requests /\ Author[stored] = a /\ Newest(stored)
      BY Zenon, <3>1, <3>2, <3>3 DEF ButtonsInv
    <3>5. stored \in Range(made)
      BY Zenon, <3>4 DEF Newest, Range
    <3>6. ButtonsTypeOK'
      <4>1. executed' \in [Requests -> Nat]
        BY <3>2, <3>3, <3>4
      <4>2. confirmButtons' \in [Authors -> Requests \cup {Nothing}]
        BY <3>2, <3>3
      <4> QED
        BY Zenon, <3>2, <4>1, <4>2 DEF ButtonsInv, ButtonsTypeOK
    <3>7. \A s \in Requests : s \notin Range(made') => executed'[s] = 0
      BY Zenon, <3>2, <3>3, <3>5 DEF ButtonsInv
    <3>8. ASSUME NEW b \in Authors, confirmButtons'[b] # Nothing
          PROVE  /\ Author[confirmButtons'[b]] = b
                 /\ Newest(confirmButtons[b])'
                 /\ executed'[confirmButtons'[b]] = 0
      <4>1. b # a /\ confirmButtons'[b] = confirmButtons[b]
        BY <3>2, <3>3, <3>8
      <4>2. PICK s : s = confirmButtons[b]
        OBVIOUS
      <4>3. s \in Requests /\ Author[s] = b /\ Newest(s) /\ executed[s] = 0
        BY Zenon, <3>3, <3>8, <4>1, <4>2 DEF ButtonsInv
      <4>4. s # stored
        BY Zenon, <3>4, <4>1, <4>3
      <4>5. Newest(confirmButtons[b])'
        <5>1. made' = made /\ confirmButtons'[b] = s
          BY Zenon, <3>2, <4>1, <4>2
        <5> QED
          BY <4>3, <5>1 DEF Newest
      <4> QED
        BY Zenon, <3>2, <3>3, <4>1, <4>2, <4>3, <4>4, <4>5
    <3> QED
      BY Zenon, <3>6, <3>7, <3>8 DEF ButtonsInv
  <2>2. ASSUME NEW r \in Requests, Delete(r) PROVE ButtonsInv'
    <3>1. UNCHANGED <<made, confirmButtons, executed>> /\ messages' \subseteq messages
      BY Zenon, <2>2 DEF Delete
    <3>2. ButtonsTypeOK'
      BY Zenon, <3>1 DEF ButtonsInv, ButtonsTypeOK
    <3> QED
      BY Zenon, <3>1, <3>2 DEF ButtonsInv, Newest
  <2>3. CASE UNCHANGED buttonVars
    BY Zenon, <2>3 DEF buttonVars, ButtonsInv, ButtonsTypeOK, Newest
  <2> QED
    BY <2>1, <2>2, <2>3, CheckRolesKeeps DEF ButtonsNext
<1> QED
    BY <1>1, <1>2, PTL DEF ButtonsSpec

\* Whichever message the button is pressed on, and however often, the roles of the author's
\* newest request are removed, once.
THEOREM ButtonsExecuteNewest == ButtonsSpec => ExecutesNewest
<1> DEFINE A == \A r \in Requests : executed'[r] # executed[r] => executed[r] = 0 /\ Newest(r)
<1>1. ButtonsInv /\ [ButtonsNext]_buttonVars => [A]_buttonVars
  <2> SUFFICES ASSUME ButtonsInv, ButtonsNext, NEW s \in Requests, executed'[s] # executed[s]
               PROVE  executed[s] = 0 /\ Newest(s)
    BY Zenon
  <2>1. PICK r \in Requests : Confirm(r)
    BY Zenon DEF ButtonsNext, CheckRoles, Delete
  <2>a. PICK a \in Authors : a = Author[r]
    BY Zenon, ButtonsAssumption
  <2>b. PICK stored : stored = confirmButtons[a]
    OBVIOUS
  <2>2. a = Author[r] /\ stored = confirmButtons[a]
    BY Zenon, <2>a, <2>b
  <2>3. stored # Nothing /\ executed' = [executed EXCEPT ![stored] = @ + 1]
    BY Zenon, <2>1, <2>2 DEF Confirm
  <2>4. s = stored
    BY <2>3 DEF ButtonsInv, ButtonsTypeOK
  <2> QED
    BY Zenon, <2>2, <2>3, <2>4 DEF ButtonsInv
<1> QED
    BY <1>1, ButtonsInvHolds, PTL DEF ButtonsSpec, ExecutesNewest

-------------------------------------------------------------------------------
\* What the callbacks and the queue hold.
QueueType == /\ callbacks \in Seq(Queries) /\ updating \in Seq(Queries) /\ remaining \in Seq(Queries)
             /\ adding \in [Threads -> Queries \cup {None}]
             /\ \A t \in Threads : stage[t] # "idle" => adding[t] \in Queries
             /\ future \in [Queries -> {"none", "pending", "ready"}]
             /\ DOMAIN stage = Threads
             /\ told \in [Queries -> {"nothing", "added", "exists", "listed", "nobody",
                                      "removed", "unknown"}]
             /\ ops \in Seq(Ops)
             /\ main = "callback" => current \in Queries

\* A command whose query is asked, or whose callback runs, has no answer yet: so no
\* command is answered twice, and an answer stays what it was.
Unanswered == /\ \A q \in Queries : future[q] # "none" => told[q] = "nothing"
              /\ main = "callback" => told[current] = "nothing"

\* A DELETE is sent only for a player somebody was told was removed.
DeletesAreTold == \A i \in DOMAIN ops : ops[i].type = "delete" => told[ops[i].query] = "removed"

TruthInv == QueueType /\ Unanswered /\ DeletesAreTold /\ ToldTheTruth

-------------------------------------------------------------------------------
\* Steps that answer nobody and send nothing: they keep what is said about answers as long
\* as no query is asked for a command that has one.
LEMMA SilentStep ==
    ASSUME TruthInv, QueueType', UNCHANGED <<told, ops, rows, closed>>,
           \A q \in Queries : future'[q] # "none" => future[q] # "none" \/ told[q] = "nothing",
           main' = "callback" => \/ main = "callback" /\ current' = current
                                 \/ future[current'] # "none"
    PROVE  TruthInv'
<1>1. Unanswered'
  BY DEF TruthInv, Unanswered, QueueType
<1>2. DeletesAreTold' /\ ToldTheTruth'
  BY DEF TruthInv, DeletesAreTold, ToldTheTruth
<1> QED
  BY <1>1, <1>2 DEF TruthInv

\* Ask: a SELECT goes to the end of the queue.
LEMMA AskStep ==
    ASSUME TruthInv, NEW t \in Threads, NEW q \in Queries, Ask(t, q)
    PROVE  TruthInv'
<1>1. /\ told[q] = "nothing" /\ stage' = [stage EXCEPT ![t] = "adding"]
      /\ adding' = [adding EXCEPT ![t] = q] /\ future' = [future EXCEPT ![q] = "pending"]
      /\ UNCHANGED <<callbacks, updating, remaining, main, current, told, rows, closed>>
      /\ ops' = IF closed THEN ops ELSE ops \o <<Op("select", q)>>
  BY DEF Ask, BeginAdd, Enqueue, processorVars
<1>2. Op("select", q) \in Ops /\ Op("select", q).type = "select"
  BY DEF Op, Ops
<1> DEFINE o == Op("select", q)
<1> HIDE DEF o
<1>3. /\ ops' \in Seq(Ops)
      /\ \A i \in DOMAIN ops : i \in DOMAIN ops' /\ ops'[i] = ops[i]
      /\ \A i \in DOMAIN ops' : i \in DOMAIN ops \/ ops'[i] = o
  <2>1. ops \in Seq(Ops) /\ o \in Ops
    BY <1>2 DEF TruthInv, QueueType, o
  <2>2. ops' = IF closed THEN ops ELSE ops \o <<o>>
    BY <1>1 DEF o
  <2> QED
    BY <2>1, <2>2
<1>4. QueueType'
  BY <1>1, <1>3 DEF TruthInv, QueueType
<1>5. Unanswered'
  BY <1>1 DEF TruthInv, Unanswered, QueueType
<1>6. DeletesAreTold'
  <2>1. ASSUME NEW i \in DOMAIN ops', ops'[i].type = "delete" PROVE told'[ops'[i].query] = "removed"
    <3>1. i \in DOMAIN ops /\ ops'[i] = ops[i]
      BY <1>2, <1>3, <2>1 DEF o
    <3> QED
      BY <1>1, <2>1, <3>1 DEF TruthInv, DeletesAreTold
  <2> QED
    BY <2>1 DEF DeletesAreTold
<1>7. ToldTheTruth'
  BY <1>1, <1>3 DEF TruthInv, ToldTheTruth
<1> QED
  BY <1>4, <1>5, <1>6, <1>7 DEF TruthInv

\* Execute: an INSERT makes its row; a DELETE takes rows away that somebody was told of.
LEMMA ExecuteStep ==
    ASSUME TruthInv, Execute
    PROVE  TruthInv'
<1> DEFINE op == Head(ops)
<1>1. /\ ops # <<>> /\ ops' = Tail(ops) /\ UNCHANGED <<told, closed>>
      /\ UNCHANGED <<callbacks, updating, remaining, adding, stage, main, current>>
  BY DEF Execute, Answer, callbackVars, processorVars
<1>2. /\ ops \in Seq(Ops) /\ op \in Ops /\ op = ops[1] /\ 1 \in DOMAIN ops /\ Tail(ops) \in Seq(Ops)
      /\ \A i \in DOMAIN ops : i # 1 => i - 1 \in DOMAIN Tail(ops) /\ Tail(ops)[i - 1] = ops[i]
      /\ \A i \in DOMAIN Tail(ops) : i + 1 \in DOMAIN ops /\ Tail(ops)[i] = ops[i + 1]
  BY SMTT(30), <1>1 DEF TruthInv, QueueType
<1>3. /\ future' \in [Queries -> {"none", "pending", "ready"}]
      /\ \A q \in Queries : future'[q] # "none" => future[q] # "none"
  <2>1. CASE op.type = "select" /\ Answer(op.query)
    BY Zenon, <2>1 DEF TruthInv, QueueType, Answer
  <2>2. CASE UNCHANGED callbackVars
    BY <2>2 DEF TruthInv, QueueType, callbackVars, queryVars
  <2> QED
    BY <2>1, <2>2 DEF Execute
<1>4. QueueType' /\ Unanswered'
  BY <1>1, <1>2, <1>3 DEF TruthInv, QueueType, Unanswered
<1>5. DeletesAreTold'
  BY <1>1, <1>2 DEF TruthInv, DeletesAreTold
<1>6. ToldTheTruth'
  <2> SUFFICES ASSUME ~closed', NEW q \in Queries, told'[q] = "added"
               PROVE  \/ \E i \in DOMAIN ops' : ops'[i] = Op("insert", q)
                      \/ Row(q) \in rows'
                      \/ \E d \in Queries : Nick[d] = Nick[q] /\ told'[d] = "removed"
    BY DEF ToldTheTruth
  <2>1. \/ \E i \in DOMAIN ops : ops[i] = Op("insert", q)
        \/ Row(q) \in rows
        \/ \E d \in Queries : Nick[d] = Nick[q] /\ told[d] = "removed"
    BY <1>1 DEF TruthInv, ToldTheTruth
  <2>2. CASE \E d \in Queries : Nick[d] = Nick[q] /\ told[d] = "removed"
    BY <1>1, <2>2
  <2>3. ASSUME NEW i \in DOMAIN ops, ops[i] = Op("insert", q), i # 1
        PROVE  \E j \in DOMAIN ops' : ops'[j] = Op("insert", q)
    BY ZenonT(30), <1>1, <1>2, <2>3
  <2>4. ASSUME ops[1] = Op("insert", q) PROVE Row(q) \in rows'
    <3>1. op.type = "insert" /\ op.query = q
      BY <1>2, <2>4 DEF Op
    <3> QED
      BY <3>1 DEF Execute
  <2>5. ASSUME Row(q) \in rows, Row(q) \notin rows'
        PROVE  \E d \in Queries : Nick[d] = Nick[q] /\ told[d] = "removed"
    <3>1. op.type = "delete" /\ rows' = {r \in rows : r.nick # Nick[op.query]}
      BY <2>5 DEF Execute
    <3>2. Nick[q] = Nick[op.query]
      BY <2>5, <3>1 DEF Row
    <3>3. op.query \in Queries /\ told[op.query] = "removed"
      BY <1>2, <3>1 DEF TruthInv, DeletesAreTold, Ops
    <3> QED
      BY <3>2, <3>3
  <2> QED
    BY SMTT(30), <1>1, <2>1, <2>2, <2>3, <2>4, <2>5
<1> QED
  BY SMTT(30), <1>4, <1>5, <1>6 DEF TruthInv

\* What a callback sends goes to the end of the queue, with the answer that goes with it.
LEMMA AnswerStep ==
    ASSUME TruthInv, QueueType', Unanswered', NEW q \in Queries, told[q] = "nothing",
           NEW answer, told' = [told EXCEPT ![q] = answer], UNCHANGED <<rows, closed>>,
           \/ UNCHANGED ops /\ answer # "added"
           \/ Enqueue(<<Op("insert", q)>>)
           \/ Enqueue(<<Op("delete", q)>>) /\ answer = "removed"
    PROVE  TruthInv'
<1> DEFINE ins == Op("insert", q)
           del == Op("delete", q)
<1>1. /\ ins \in Ops /\ del \in Ops /\ ins.type = "insert" /\ del.type = "delete" /\ del.query = q
  BY DEF Op, Ops
<1> HIDE DEF ins, del
<1>2. ops \in Seq(Ops) /\ told \in [Queries -> {"nothing", "added", "exists", "listed", "nobody",
                                                "removed", "unknown"}]
  BY DEF TruthInv, QueueType
<1>3. /\ \A i \in DOMAIN ops : i \in DOMAIN ops' /\ ops'[i] = ops[i]
      /\ \A i \in DOMAIN ops' : i \in DOMAIN ops \/ ops'[i] = ins \/ (ops'[i] = del /\ answer = "removed")
      /\ ~closed /\ answer = "added" => \E i \in DOMAIN ops' : ops'[i] = ins
  <2>1. CASE UNCHANGED ops /\ answer # "added"
    BY <2>1
  <2>2. CASE ops' = (IF closed THEN ops ELSE ops \o <<ins>>)
    <3>1. CASE ~closed
      <4>1. ops' = ops \o <<ins>>
        BY <2>2, <3>1
      <4>2. Len(ops) + 1 \in DOMAIN ops' /\ ops'[Len(ops) + 1] = ins
        BY <1>1, <1>2, <4>1
      <4>3. \A i \in DOMAIN ops : i \in DOMAIN ops' /\ ops'[i] = ops[i]
        BY <1>1, <1>2, <4>1
      <4>4. \A i \in DOMAIN ops' : i \in DOMAIN ops \/ ops'[i] = ins
        BY <1>1, <1>2, <4>1
      <4> QED
        BY <4>2, <4>3, <4>4
    <3> QED
      BY <2>2, <3>1
  <2>3. CASE ops' = (IF closed THEN ops ELSE ops \o <<del>>) /\ answer = "removed"
    BY SMTT(30), <1>1, <1>2, <2>3
  <2> QED
    BY <2>1, <2>2, <2>3 DEF Enqueue, ins, del
<1>4. told'[q] = answer /\ \A p \in Queries : told[p] # "nothing" => told'[p] = told[p]
  BY <1>2
<1>5. DeletesAreTold'
  <2>1. ASSUME NEW i \in DOMAIN ops', ops'[i].type = "delete" PROVE told'[ops'[i].query] = "removed"
    <3>1. CASE i \in DOMAIN ops
      <4>1. ops'[i] = ops[i] /\ told[ops[i].query] = "removed" /\ ops[i] \in Ops
        BY <1>2, <1>3, <2>1, <3>1 DEF TruthInv, DeletesAreTold
      <4> QED
        BY <1>4, <4>1 DEF Ops
    <3>2. CASE i \notin DOMAIN ops
      BY <1>1, <1>3, <1>4, <2>1, <3>2
    <3> QED
      BY <3>1, <3>2
  <2> QED
    BY <2>1 DEF DeletesAreTold
<1>6. ToldTheTruth'
  <2> SUFFICES ASSUME ~closed', NEW p \in Queries, told'[p] = "added"
               PROVE  \/ \E i \in DOMAIN ops' : ops'[i] = Op("insert", p)
                      \/ Row(p) \in rows'
                      \/ \E d \in Queries : Nick[d] = Nick[p] /\ told'[d] = "removed"
    BY DEF ToldTheTruth
  <2>1. CASE p = q
    BY <1>3, <1>4, <2>1 DEF ins
  <2>2. CASE p # q
    <3>1. told[p] = "added"
      BY <1>2, <2>2
    <3>2. \/ \E i \in DOMAIN ops : ops[i] = Op("insert", p)
          \/ Row(p) \in rows
          \/ \E d \in Queries : Nick[d] = Nick[p] /\ told[d] = "removed"
      BY <3>1 DEF TruthInv, ToldTheTruth
    <3> QED
      BY <1>3, <1>4, <3>2
  <2> QED
    BY <2>1, <2>2
<1> QED
  BY <1>5, <1>6 DEF TruthInv

\* The callbacks of the commands, each of which answers its command or asks again.
LEMMA CallBackStep ==
    ASSUME TruthInv, CallBack
    PROVE  TruthInv'
<1> DEFINE q == current
<1>1. /\ main = "callback" /\ q \in Queries /\ told[q] = "nothing" /\ UNCHANGED <<rows, closed>>
      /\ main' = "walking" /\ UNCHANGED <<callbacks, updating, stage, adding>>
  BY Zenon DEF CallBack, TruthInv, QueueType, Unanswered, Return
<1>2. /\ Op("insert", q) \in Ops /\ Op("delete", q) \in Ops /\ Op("select", q) \in Ops
  BY <1>1 DEF Op, Ops
<1>3. ASSUME NEW o \in Ops, Enqueue(<<o>>) PROVE ops' \in Seq(Ops)
  BY <1>3 DEF Enqueue, TruthInv, QueueType
<1>4. ops' \in Seq(Ops)
  <2>1. CASE UNCHANGED ops
    BY <2>1 DEF TruthInv, QueueType
  <2>2. CASE Enqueue(<<Op("insert", q)>>) \/ Enqueue(<<Op("delete", q)>>) \/ Enqueue(<<Op("select", q)>>)
    BY <1>2, <1>3, <2>2
  <2> QED
    BY Zenon, <2>1, <2>2 DEF CallBack, AddNickName, ListPlayers, DeletePlayer, Chained
<1>5. ASSUME NEW answer \in {"added", "exists", "listed", "nobody", "removed", "unknown"},
             told' = [told EXCEPT ![q] = answer], Return(FALSE),
             \/ UNCHANGED ops /\ answer # "added"
             \/ Enqueue(<<Op("insert", q)>>)
             \/ Enqueue(<<Op("delete", q)>>) /\ answer = "removed"
      PROVE  TruthInv'
  <2>1. /\ future' = [future EXCEPT ![q] = "none"] /\ remaining' = remaining
    BY <1>5 DEF Return
  <2>2. QueueType'
    BY <1>1, <1>4, <1>5, <2>1 DEF TruthInv, QueueType
  <2>3. Unanswered'
    BY <1>1, <1>5, <2>1 DEF TruthInv, QueueType, Unanswered
  <2> QED
    BY Zenon, <1>1, <1>5, <2>2, <2>3, AnswerStep
<1>6. CASE AddNickName(q) /\ Return(FALSE)
  BY Zenon, <1>5, <1>6 DEF AddNickName
<1>7. CASE ListPlayers(q) /\ Return(FALSE)
  BY Zenon, <1>5, <1>7 DEF ListPlayers
<1>8. CASE DeletePlayer(q) /\ Return(FALSE)
  BY Zenon, <1>5, <1>8 DEF DeletePlayer
<1>9. CASE Chained(q) /\ Return(FALSE)
  BY <1>5, <1>9 DEF Chained
<1>10. CASE Enqueue(<<Op("select", q)>>) /\ Return(TRUE) /\ UNCHANGED told
  <2>1. /\ future' = [future EXCEPT ![q] = "pending"] /\ remaining' = Append(remaining, q)
    BY <1>10 DEF Return
  <2>2. QueueType'
    BY <1>1, <1>4, <1>10, <2>1 DEF TruthInv, QueueType
  <2>3. Unanswered'
    BY <1>1, <1>10, <2>1 DEF TruthInv, QueueType, Unanswered
  <2>4. told' = [told EXCEPT ![q] = "nothing"]
    BY <1>1, <1>10 DEF TruthInv, QueueType
  <2>5. /\ \A i \in DOMAIN ops : i \in DOMAIN ops' /\ ops'[i] = ops[i]
        /\ \A i \in DOMAIN ops' : i \in DOMAIN ops \/ ops'[i].type = "select"
    <3>1. PICK o \in Ops : o = Op("select", q) /\ o.type = "select"
      BY <1>2 DEF Op
    <3>2. ops \in Seq(Ops) /\ ops' = IF closed THEN ops ELSE ops \o <<o>>
      BY <1>10, <3>1 DEF Enqueue, TruthInv, QueueType
    <3> QED
      BY <3>1, <3>2
  <2>6. DeletesAreTold' /\ ToldTheTruth'
    BY <1>1, <1>10, <2>5 DEF TruthInv, DeletesAreTold, ToldTheTruth
  <2> QED
    BY <2>2, <2>3, <2>6 DEF TruthInv
<1> QED
  BY Zenon, <1>6, <1>7, <1>8, <1>9, <1>10 DEF CallBack

\* The processor and the adding threads move callbacks and answer nobody.
LEMMA MovingStep ==
    ASSUME TruthInv, UNCHANGED botVars,
           \/ Update
           \/ \E t \in Threads : Thread(t)
    PROVE  TruthInv'
<1>1. UNCHANGED <<told, ops, rows, closed>>
  BY DEF botVars
<1> USE DEF QueueType
<1>2. QueueType
  BY DEF TruthInv
<1>3. ASSUME NEW t \in Threads, EndAdd(t) PROVE TruthInv'
  <2>1. QueueType'
    BY <1>1, <1>2, <1>3 DEF EndAdd, queryVars
  <2> QED
    BY Zenon, <1>1, <1>3, <2>1, SilentStep DEF EndAdd, queryVars
<1>4. ASSUME NEW t \in Threads, AttachHandler(t) PROVE TruthInv'
  <2>1. PICK next \in {"waiting", "idle"} : Attach(t, next)
    BY <1>4 DEF AttachHandler
  <2>2. QueueType'
    BY <1>1, <1>2, <2>1 DEF Attach, processorVars
  <2> QED
    BY <1>1, <2>1, <2>2, SilentStep DEF Attach, processorVars
<1>5. ASSUME NEW t \in Threads, Reply(t) PROVE TruthInv'
  <2>1. QueueType'
    BY <1>1, <1>2, <1>5 DEF Reply, processorVars, queryVars
  <2> QED
    BY <1>1, <1>5, <2>1, SilentStep DEF Reply, processorVars, queryVars
<1>6. CASE BeginProcess \/ Move \/ BeginInsert \/ Insert
  <2>1. QueueType'
    <3>1. CASE BeginProcess \/ BeginInsert
      BY Zenon, <1>1, <1>2, <3>1 DEF BeginProcess, BeginInsert, queryVars
    <3>2. CASE Move
      BY <1>1, <1>2, <3>2 DEF Move, queryVars
    <3>3. CASE Insert
      BY <1>1, <1>2, <3>3 DEF Insert, queryVars
    <3> QED
      BY <1>6, <3>1, <3>2, <3>3
  <2>2. UNCHANGED future /\ main' # "callback"
    BY Zenon, <1>6 DEF BeginProcess, Move, BeginInsert, Insert, queryVars
  <2> QED
    BY <1>1, <2>1, <2>2, SilentStep
<1>7. CASE NotReady
  <2>1. QueueType'
    BY <1>1, <1>2, <1>7 DEF NotReady, queryVars
  <2> QED
    BY Zenon, <1>1, <1>7, <2>1, SilentStep DEF NotReady, queryVars
<1>8. CASE Ready
  <2> DEFINE q == Head(updating)
  <2>1. /\ q \in Queries /\ Tail(updating) \in Seq(Queries) /\ future[q] = "ready"
        /\ main' = "callback" /\ current' = q /\ updating' = Tail(updating)
        /\ future' = [future EXCEPT ![q] = "none"]
        /\ UNCHANGED <<callbacks, remaining, stage, adding>>
    BY <1>2, <1>8 DEF Ready
  <2> HIDE DEF q
  <2>2. QueueType'
    BY <1>1, <1>2, <2>1
  <2>3. \A p \in Queries : future'[p] # "none" => future[p] # "none"
    BY <1>2, <2>1
  <2> QED
    BY Zenon, <1>1, <2>1, <2>2, <2>3, SilentStep
<1> QED
  BY SMTT(30), <1>3, <1>4, <1>5, <1>6, <1>7, <1>8 DEF Update, Thread, ProcessReadyCallbacks

\* Every step of the bot.
LEMMA TruthStep == TruthInv /\ [BotNext]_botAndButtonVars => TruthInv'
<1> SUFFICES ASSUME TruthInv, [BotNext]_botAndButtonVars PROVE TruthInv'
  OBVIOUS
<1>1. CASE UNCHANGED vars
  <2>1. QueueType'
    BY <1>1 DEF vars, botVars, callbackVars, processorVars, queryVars, TruthInv, QueueType
  <2> QED
    BY <1>1, <2>1, SilentStep DEF vars, botVars, callbackVars, processorVars, queryVars
<1>2. ASSUME NEW t \in Threads, NEW q \in Queries, Ask(t, q) PROVE TruthInv'
  BY SMTT(30), <1>2, AskStep
<1>3. ASSUME NEW t \in Threads, Thread(t) PROVE TruthInv'
  BY Zenon, <1>3, MovingStep DEF Thread, AttachHandler, Reply, EndAdd, botVars
<1>4. ASSUME NEW q \in Queries, MemberFound(q) \/ RoleAdded(q) PROVE TruthInv'
  <2>1. UNCHANGED <<processorVars, stage, adding, queryVars, rows, ops, told, closed>>
    BY <1>4 DEF MemberFound, RoleAdded, callbackVars
  <2>2. QueueType'
    BY <2>1 DEF processorVars, queryVars, TruthInv, QueueType
  <2> QED
    BY Zenon, <2>1, <2>2, SilentStep DEF processorVars, queryVars
<1>5. CASE Execute
  BY <1>5, ExecuteStep
<1>6. CASE Update
  BY <1>6, MovingStep DEF Update
<1>7. CASE CallBack
  BY <1>7, CallBackStep
<1>8. CASE Close
  <2>1. /\ main' # "callback" /\ closed' /\ ops' = <<>>
        /\ UNCHANGED <<callbacks, updating, remaining, stage, adding, future, told>>
    BY <1>8 DEF Close, queryVars
  <2>2. QueueType' /\ Unanswered'
    BY <2>1 DEF TruthInv, QueueType, Unanswered
  <2>3. DeletesAreTold' /\ ToldTheTruth'
    BY <2>1 DEF DeletesAreTold, ToldTheTruth
  <2> QED
    BY <2>2, <2>3 DEF TruthInv
<1>9. CASE Stop \/ Exit \/ StopNow
  <2>1. /\ main' = main \/ main' # "callback"
        /\ UNCHANGED <<callbacks, updating, remaining, current, stage, adding, future, told, ops, rows, closed>>
    BY Zenon, <1>9 DEF Stop, Exit, StopNow, callbackVars, processorVars, queryVars, botVars
  <2>2. QueueType'
    BY <2>1 DEF TruthInv, QueueType
  <2> QED
    BY SMTT(30), <2>1, <2>2, SilentStep
<1> QED
  BY SMTT(30), <1>1, <1>2, <1>3, <1>4, <1>5, <1>6, <1>7, <1>8, <1>9
  DEF BotNext, HandleButtons, botAndButtonVars, Next, Main

\* A user who was told that a player was added finds the player, unless somebody was told
\* that it was removed: no command is answered twice, the queue is executed in order, and
\* a DELETE is sent only with its answer.
THEOREM AddedIsThere == BotSpec => []ToldTheTruth
<1>1. BotInit => TruthInv
  BY DEF BotInit, Init, CallbackInit, TruthInv, QueueType, Unanswered, DeletesAreTold, ToldTheTruth
<1>2. TruthInv => ToldTheTruth
  BY DEF TruthInv
<1> QED
  BY <1>1, <1>2, TruthStep, PTL DEF BotSpec

-------------------------------------------------------------------------------
\* Sequences of callbacks by what is in them.
In(s, q) == \E i \in DOMAIN s : s[i] = q
Once(s) == \A i, j \in DOMAIN s : s[i] = s[j] => i = j

\* emplace_back of a callback that is not there.
LEMMA AppendOnce ==
    ASSUME NEW s \in Seq(Queries), NEW x \in Queries
    PROVE  /\ \A q : In(Append(s, x), q) <=> In(s, q) \/ q = x
           /\ Once(s) /\ ~In(s, x) => Once(Append(s, x))
<1>1. /\ DOMAIN Append(s, x) = 1 .. Len(s) + 1 /\ DOMAIN s = 1 .. Len(s) /\ Len(s) \in Nat
      /\ \A i \in 1 .. Len(s) : Append(s, x)[i] = s[i]
      /\ Append(s, x)[Len(s) + 1] = x
  OBVIOUS
<1>2. DOMAIN Append(s, x) = DOMAIN s \cup {Len(s) + 1}
  BY <1>1
<1>3. \A i \in DOMAIN s : Append(s, x)[i] = s[i]
  BY <1>1
<1>4. Len(s) + 1 \notin DOMAIN s
  BY <1>1
<1> QED
  BY Zenon, <1>1, <1>2, <1>3, <1>4 DEF In, Once

\* The front of the vector and the rest of it.
LEMMA TailOnce ==
    ASSUME NEW s \in Seq(Queries), s # <<>>
    PROVE  /\ Head(s) \in Queries /\ Tail(s) \in Seq(Queries)
           /\ \A q : In(s, q) <=> In(Tail(s), q) \/ q = Head(s)
           /\ Once(s) => Once(Tail(s)) /\ ~In(Tail(s), Head(s))
<1>1. /\ Head(s) \in Queries /\ Tail(s) \in Seq(Queries) /\ Head(s) = s[1] /\ 1 \in DOMAIN s
      /\ \A i \in DOMAIN Tail(s) : /\ i + 1 \in DOMAIN s /\ Tail(s)[i] = s[i + 1]
                                   /\ i \in Nat /\ i >= 1
      /\ \A i \in DOMAIN s : i \in Nat /\ (i # 1 => i - 1 \in DOMAIN Tail(s) /\ Tail(s)[i - 1] = s[i])
  OBVIOUS
<1>2. \A q : In(s, q) <=> In(Tail(s), q) \/ q = Head(s)
  BY ZenonT(30), <1>1 DEF In
<1>3. ASSUME Once(s) PROVE Once(Tail(s)) /\ ~In(Tail(s), Head(s))
  BY SMTT(30), <1>1, <1>3 DEF In, Once
<1> QED
  BY <1>1, <1>2, <1>3

\* insert of the remaining callbacks at the end.
LEMMA ConcatOnce ==
    ASSUME NEW s \in Seq(Queries), NEW r \in Seq(Queries)
    PROVE  /\ s \o r \in Seq(Queries)
           /\ \A q : In(s \o r, q) <=> In(s, q) \/ In(r, q)
           /\ Once(s) /\ Once(r) /\ (\A q \in Queries : ~(In(s, q) /\ In(r, q))) => Once(s \o r)
<1>1. /\ s \o r \in Seq(Queries) /\ Len(s) \in Nat /\ Len(r) \in Nat
      /\ DOMAIN (s \o r) = 1 .. Len(s) + Len(r) /\ DOMAIN s = 1 .. Len(s) /\ DOMAIN r = 1 .. Len(r)
      /\ \A i \in DOMAIN s : (s \o r)[i] = s[i] /\ s[i] \in Queries
      /\ \A i \in DOMAIN (s \o r) : i \notin DOMAIN s => (s \o r)[i] = r[i - Len(s)]
  OBVIOUS
<1>2. \A i \in DOMAIN (s \o r) : i \in DOMAIN s \/ i - Len(s) \in DOMAIN r
  BY <1>1
<1>3. \A i \in DOMAIN r : i + Len(s) \in DOMAIN (s \o r) /\ (s \o r)[i + Len(s)] = r[i]
  BY <1>1
<1>4. \A i \in DOMAIN s : i \in DOMAIN (s \o r)
  BY <1>1
<1>5. ASSUME NEW q PROVE In(s \o r, q) <=> In(s, q) \/ In(r, q)
  BY ZenonT(30), <1>1, <1>2, <1>3, <1>4 DEF In
<1>6. ASSUME Once(s), Once(r), \A q \in Queries : ~(In(s, q) /\ In(r, q)),
             NEW i \in DOMAIN (s \o r), NEW j \in DOMAIN (s \o r), (s \o r)[i] = (s \o r)[j]
      PROVE  i = j
  <2>1. CASE i \in DOMAIN s /\ j \in DOMAIN s
    BY Zenon, <1>1, <1>6, <2>1 DEF Once
  <2>2. CASE i \notin DOMAIN s /\ j \notin DOMAIN s
    <3>1. r[i - Len(s)] = r[j - Len(s)] /\ i - Len(s) \in DOMAIN r /\ j - Len(s) \in DOMAIN r
      BY Zenon, <1>1, <1>2, <1>6, <2>2
    <3>2. i - Len(s) = j - Len(s)
      BY Zenon, <1>6, <3>1 DEF Once
    <3> QED
      BY <1>1, <3>2
  <2>3. CASE i \in DOMAIN s /\ j \notin DOMAIN s
    BY Zenon, <1>1, <1>2, <1>6, <2>3 DEF In
  <2>4. CASE i \notin DOMAIN s /\ j \in DOMAIN s
    BY Zenon, <1>1, <1>2, <1>6, <2>4 DEF In
  <2> QED
    BY <2>1, <2>2, <2>3, <2>4
<1> QED
  BY Zenon, <1>1, <1>5, <1>6 DEF Once

-------------------------------------------------------------------------------
Placed(q) == In(callbacks, q) \/ In(updating, q) \/ In(remaining, q)
BeingAdded(q) == \E t \in Threads : stage[t] = "adding" /\ adding[t] = q

\* Every vector has a callback once, no two have the same one; a callback is in one of them
\* or being added exactly while its query is asked; the copy of the vector is empty where
\* the main loop is not walking it.
Disjoint == \A q \in Queries : /\ ~(In(callbacks, q) /\ In(updating, q))
                               /\ ~(In(callbacks, q) /\ In(remaining, q))
                               /\ ~(In(updating, q) /\ In(remaining, q))
OnceEach == Once(callbacks) /\ Once(updating) /\ Once(remaining)
PlacedIsAsked == \A q \in Queries : Placed(q) => future[q] # "none"
AskedIsPlaced == \A q \in Queries : future[q] # "none" => Placed(q) \/ BeingAdded(q)
AddingIsNew == \A t \in Threads : stage[t] = "adding" =>
                   /\ future[adding[t]] # "none" /\ ~Placed(adding[t])
                   /\ \A u \in Threads \ {t} : stage[u] = "adding" => adding[u] # adding[t]
LoopState == /\ main = "callback" => future[current] = "none"
             /\ main \in {"loop", "moving"} => updating = <<>> /\ remaining = <<>>
             /\ main = "inserting" => updating = <<>>

Places == /\ OnceEach /\ Disjoint /\ PlacedIsAsked /\ AskedIsPlaced /\ AddingIsNew /\ LoopState
PlaceInv == ~undefined => Places

\* Nothing is in an empty vector.
LEMMA EmptyOnce == Once(<<>>) /\ \A q : ~In(<<>>, q)
BY DEF Once, In

\* Steps that move no callback.
LEMMA RestingStep ==
    ASSUME QueueType, Places, UNCHANGED <<callbacks, updating, remaining, current>>,
           \A q \in Queries : future'[q] = "none" <=> future[q] = "none",
           \A t \in Threads : /\ stage'[t] = "adding" <=> stage[t] = "adding"
                              /\ stage[t] = "adding" => adding'[t] = adding[t],
           \/ main' = main
           \/ main' \notin {"callback", "loop", "inserting", "moving"}
           \/ main = "loop" /\ main' = "moving"
           \/ main' = "inserting" /\ updating = <<>>
    PROVE  Places'
<1>1. \A q : (Placed(q)' <=> Placed(q)) /\ (BeingAdded(q)' <=> BeingAdded(q))
  BY DEF Placed, BeingAdded
<1>2. OnceEach' /\ Disjoint'
  BY Zenon DEF Places, OnceEach, Disjoint
<1>3. PlacedIsAsked' /\ AskedIsPlaced'
  BY Zenon, <1>1 DEF Places, PlacedIsAsked, AskedIsPlaced
<1>4. AddingIsNew'
  <2>1. \A t \in Threads : stage[t] = "adding" => adding[t] \in Queries
    BY Zenon DEF QueueType
  <2> QED
    BY SMTT(30), <2>1 DEF Places, AddingIsNew, Placed
<1>5. LoopState'
  BY Zenon DEF Places, LoopState, QueueType
<1> QED
  BY SMTT(30), <1>2, <1>3, <1>4, <1>5 DEF Places

\* Ask: the callback is new, and it is being added.
LEMMA BeginAddStep ==
    ASSUME QueueType, Places, NEW t \in Threads, NEW q \in Queries, BeginAdd(t, q),
           future[q] = "none", q # current, \A u \in Threads : adding[u] # q
    PROVE  Places'
<1>1. /\ stage[t] = "idle" /\ stage' = [stage EXCEPT ![t] = "adding"]
      /\ adding' = [adding EXCEPT ![t] = q] /\ future' = [future EXCEPT ![q] = "pending"]
      /\ UNCHANGED <<callbacks, updating, remaining, main, current>>
  BY DEF BeginAdd, processorVars
<1>2. /\ \A u \in Threads \ {t} : stage'[u] = stage[u] /\ adding'[u] = adding[u]
      /\ stage'[t] = "adding" /\ adding'[t] = q
      /\ \A p \in Queries \ {q} : future'[p] = future[p]
      /\ future'[q] # "none"
  BY Zenon, <1>1 DEF QueueType
<1>3. ~Placed(q)
  BY Zenon DEF Places, PlacedIsAsked
<1>4. \A p : Placed(p)' <=> Placed(p)
  BY <1>1 DEF Placed
<1>5. \A p \in Queries : BeingAdded(p)' <=> BeingAdded(p) \/ p = q
  BY Zenon, <1>1, <1>2 DEF BeingAdded
<1>6. OnceEach' /\ Disjoint' /\ LoopState'
  BY Zenon, <1>1, <1>2 DEF Places, OnceEach, Disjoint, LoopState, QueueType
<1>7. PlacedIsAsked' /\ AskedIsPlaced'
  BY ZenonT(30), <1>2, <1>4, <1>5 DEF Places, PlacedIsAsked, AskedIsPlaced
<1>8. AddingIsNew'
  <2>1. \A u \in Threads : stage[u] = "adding" => adding[u] \in Queries
    BY DEF QueueType
  <2>2. \A u \in Threads : stage'[u] = "adding" => future'[adding'[u]] # "none"
    <3>1. \A u \in Threads : stage[u] = "adding" => future[adding[u]] # "none"
      BY Zenon DEF Places, AddingIsNew
    <3> QED
      BY ZenonT(30), <1>2, <2>1, <3>1
  <2>3. \A u \in Threads : stage'[u] = "adding" => ~Placed(adding[u])'
    <3>1. \A u \in Threads : stage'[u] = "adding" => ~Placed(adding'[u])
      BY Zenon, <1>2, <1>3 DEF Places, AddingIsNew
    <3> QED
      BY SMTT(30), <1>1, <3>1 DEF Placed
  <2>4. \A u, v \in Threads : u # v /\ stage'[u] = "adding" /\ stage'[v] = "adding" => adding'[u] # adding'[v]
    <3>1. /\ \A u, v \in Threads :
                u # v /\ stage[u] = "adding" /\ stage[v] = "adding" => adding[u] # adding[v]
          /\ \A u \in Threads : adding[u] # q
      BY Zenon DEF Places, AddingIsNew
    <3>2. ASSUME NEW u \in Threads, NEW v \in Threads, u # v,
                 stage'[u] = "adding", stage'[v] = "adding"
          PROVE  adding'[u] # adding'[v]
      <4>1. CASE u = t
        BY Zenon, <1>2, <3>1, <3>2, <4>1
      <4>2. CASE v = t
        BY Zenon, <1>2, <3>1, <3>2, <4>2
      <4>3. CASE u # t /\ v # t
        <5>1. /\ stage'[u] = stage[u] /\ adding'[u] = adding[u]
              /\ stage'[v] = stage[v] /\ adding'[v] = adding[v]
          BY Zenon, <1>2, <4>3
        <5> QED
          BY Zenon, <3>1, <3>2, <5>1
      <4> QED
        BY Zenon, <4>1, <4>2, <4>3
    <3> QED
      BY Zenon, <3>2
  <2> QED
    BY Zenon, <2>2, <2>3, <2>4 DEF AddingIsNew
<1> QED
  BY Zenon, <1>6, <1>7, <1>8 DEF Places

\* EndAdd: the callback that was being added is in the vector.
LEMMA EndAddStep ==
    ASSUME QueueType, Places, NEW t \in Threads, EndAdd(t)
    PROVE  Places'
<1> DEFINE q == adding[t]
<1>1. /\ stage[t] = "adding" /\ callbacks' = Append(callbacks, q) /\ q \in Queries
      /\ stage' = [stage EXCEPT ![t] = "attaching"]
      /\ UNCHANGED <<updating, remaining, main, current, adding, future>>
  BY DEF EndAdd, queryVars, QueueType
<1>2. /\ \A p : In(callbacks', p) <=> In(callbacks, p) \/ p = q
      /\ Once(callbacks) /\ ~In(callbacks, q) => Once(callbacks')
  BY <1>1, AppendOnce DEF QueueType
<1>3. ~Placed(q) /\ future[q] # "none"
  BY <1>1 DEF Places, AddingIsNew
<1>4. \A p : Placed(p)' <=> Placed(p) \/ p = q
  BY <1>1, <1>2 DEF Placed
<1>5. \A u \in Threads : stage'[u] = "adding" <=> u # t /\ stage[u] = "adding"
  BY SMTT(30), <1>1 DEF QueueType
<1>6. OnceEach' /\ Disjoint' /\ LoopState'
  BY Zenon, <1>1, <1>2, <1>3 DEF Places, OnceEach, Disjoint, LoopState, Placed
<1>7. PlacedIsAsked' /\ AskedIsPlaced'
  BY Zenon, <1>1, <1>3, <1>4, <1>5 DEF Places, PlacedIsAsked, AskedIsPlaced, BeingAdded
<1>8. AddingIsNew'
  <2>1. \A u \in Threads : stage'[u] = "adding" => adding[u] # q /\ ~Placed(adding[u])
    BY Zenon, <1>1, <1>5 DEF Places, AddingIsNew
  <2>2. \A u \in Threads : stage'[u] = "adding" => ~Placed(adding[u])'
    BY <1>1, <1>2, <2>1 DEF Placed
  <2> QED
    BY Zenon, <1>1, <1>5, <2>2 DEF Places, AddingIsNew
<1> QED
  BY <1>6, <1>7, <1>8 DEF Places

\* Steps of the main loop that carry callbacks from one vector to another.
LEMMA CarryStep ==
    ASSUME QueueType, Places, UNCHANGED <<stage, adding, future>>,
           \A q : Placed(q)' <=> Placed(q),
           OnceEach', Disjoint', LoopState'
    PROVE  Places'
<1>1. PlacedIsAsked' /\ AskedIsPlaced'
  BY Zenon DEF Places, PlacedIsAsked, AskedIsPlaced, BeingAdded
<1>2. \A t \in Threads : stage[t] = "adding" => ~Placed(adding[t])'
  <2>1. ASSUME NEW t \in Threads, stage[t] = "adding", NEW q \in Queries, q = adding[t] PROVE ~Placed(q)'
    BY Zenon, <2>1 DEF Places, AddingIsNew
  <2>2. \A t \in Threads : stage[t] = "adding" => adding[t] \in Queries
    BY DEF QueueType
  <2> QED
    BY Zenon, <2>1, <2>2 DEF Placed
<1>3. AddingIsNew'
  BY Zenon, <1>2 DEF Places, AddingIsNew
<1> QED
  BY <1>1, <1>3 DEF Places

\* The main loop: the vector is moved away, walked and put back.
LEMMA WalkStep ==
    ASSUME QueueType, Places, Move \/ NotReady \/ Insert
    PROVE  Places'
<1>1. CASE Move
  <2>1. /\ updating = <<>> /\ remaining = <<>> /\ updating' = callbacks /\ callbacks' = <<>>
        /\ main' = "walking" /\ UNCHANGED <<remaining, stage, adding, future>>
    BY <1>1 DEF Move, queryVars, Places, LoopState
  <2>2. \A q : Placed(q)' <=> Placed(q)
    BY SMTT(30), <2>1, EmptyOnce DEF Placed
  <2>3. OnceEach' /\ Disjoint' /\ LoopState'
    BY Zenon, <2>1, EmptyOnce DEF Places, OnceEach, Disjoint, LoopState
  <2> QED
    BY SMTT(30), <2>1, <2>2, <2>3, CarryStep
<1>2. CASE NotReady
  <2> DEFINE h == Head(updating)
  <2>1. /\ updating # <<>> /\ remaining' = Append(remaining, h) /\ updating' = Tail(updating)
        /\ main = "walking" /\ UNCHANGED <<callbacks, main, stage, adding, future>>
    BY Zenon, <1>2 DEF NotReady, queryVars
  <2>2. /\ h \in Queries /\ Once(updating') /\ ~In(updating', h)
        /\ \A q : In(updating, q) <=> In(updating', q) \/ q = h
    BY Zenon, <2>1, TailOnce DEF QueueType, Places, OnceEach
  <2>3. ~In(remaining, h) /\ ~In(callbacks, h)
    BY <2>2 DEF Places, Disjoint
  <2>4. Once(remaining') /\ \A q : In(remaining', q) <=> In(remaining, q) \/ q = h
    BY Zenon, <2>1, <2>2, <2>3, AppendOnce DEF QueueType, Places, OnceEach
  <2> HIDE DEF h
  <2>5. \A q : Placed(q)' <=> Placed(q)
    BY SMTT(30), <2>1, <2>2, <2>4 DEF Placed
  <2>6. OnceEach' /\ Disjoint' /\ LoopState'
    BY Zenon, <2>1, <2>2, <2>3, <2>4 DEF Places, OnceEach, Disjoint, LoopState
  <2> QED
    BY SMTT(30), <2>1, <2>5, <2>6, CarryStep
<1>3. CASE Insert
  <2>1. /\ callbacks' = callbacks \o remaining /\ remaining' = <<>> /\ updating = <<>>
        /\ main' = "loop" /\ UNCHANGED <<updating, stage, adding, future>>
    BY Zenon, <1>3 DEF Insert, queryVars, Places, LoopState
  <2>2. Once(callbacks') /\ \A q : In(callbacks', q) <=> In(callbacks, q) \/ In(remaining, q)
    BY Zenon, <2>1, ConcatOnce DEF QueueType, Places, OnceEach, Disjoint
  <2>3. \A q : Placed(q)' <=> Placed(q)
    BY SMTT(30), <2>1, <2>2, EmptyOnce DEF Placed
  <2>4. OnceEach' /\ Disjoint' /\ LoopState'
    BY Zenon, <2>1, <2>2, EmptyOnce DEF Places, OnceEach, Disjoint, LoopState
  <2> QED
    BY SMTT(30), <2>1, <2>3, <2>4, CarryStep
<1> QED
  BY <1>1, <1>2, <1>3

\* InvokeIfReady takes a callback out of the vector together with its future.
LEMMA ReadyStep ==
    ASSUME QueueType, Places, Ready
    PROVE  Places'
<1> DEFINE h == Head(updating)
<1>1. /\ updating # <<>> /\ main' = "callback" /\ current' = h /\ updating' = Tail(updating)
      /\ future' = [future EXCEPT ![h] = "none"] /\ UNCHANGED <<callbacks, remaining, stage, adding>>
  BY DEF Ready
<1>2. /\ h \in Queries /\ Once(updating') /\ ~In(updating', h)
      /\ \A q : In(updating, q) <=> In(updating', q) \/ q = h
  BY Zenon, <1>1, TailOnce DEF QueueType, Places, OnceEach
<1>3. ~In(remaining, h) /\ ~In(callbacks, h) /\ Placed(h)
  BY <1>2 DEF Places, Disjoint, Placed
<1> HIDE DEF h
<1>4. \A q : Placed(q) <=> Placed(q)' \/ q = h
  BY Zenon, <1>1, <1>2 DEF Placed
<1>6. future'[h] = "none" /\ \A q \in Queries \ {h} : future'[q] = future[q]
  BY Zenon, <1>1, <1>2 DEF QueueType
<1>7. OnceEach' /\ Disjoint' /\ LoopState'
  BY Zenon, <1>1, <1>2, <1>6 DEF Places, OnceEach, Disjoint, LoopState
<1>8. PlacedIsAsked' /\ AskedIsPlaced'
  <2>1. ASSUME NEW q \in Queries, Placed(q)' PROVE future'[q] # "none"
    <3>1. Placed(q) /\ q # h
      BY Zenon, <1>1, <1>2, <1>3, <1>4, <2>1 DEF Placed
    <3> QED
      BY Zenon, <1>6, <3>1 DEF Places, PlacedIsAsked
  <2>2. AskedIsPlaced'
    BY Zenon, <1>1, <1>4, <1>6 DEF Places, AskedIsPlaced, BeingAdded
  <2> QED
    BY <2>1, <2>2 DEF PlacedIsAsked
<1>9. AddingIsNew'
  <2>1. \A t \in Threads : stage[t] = "adding" => adding[t] \in Queries /\ ~Placed(adding[t]) /\ adding[t] # h
    BY Zenon, <1>3 DEF QueueType, Places, AddingIsNew
  <2>2. \A t \in Threads : stage[t] = "adding" => ~Placed(adding[t])'
    BY Zenon, <1>1, <1>2, <2>1 DEF Placed
  <2> QED
    BY Zenon, <1>1, <1>6, <2>1, <2>2 DEF Places, AddingIsNew
<1> QED
  BY <1>7, <1>8, <1>9 DEF Places

\* A function returns: its callback is gone, or asks the next query and is kept.
LEMMA ReturnedStep ==
    ASSUME QueueType, Places, NEW next \in BOOLEAN, Return(next)
    PROVE  Places'
<1> DEFINE q == current
<1>1. /\ main = "callback" /\ q \in Queries /\ future[q] = "none" /\ main' = "walking"
      /\ UNCHANGED <<callbacks, updating, stage, adding>>
  BY Zenon DEF Return, QueueType, Places, LoopState
<1>2. ~Placed(q) /\ ~BeingAdded(q)
  BY Zenon, <1>1 DEF Places, PlacedIsAsked, AddingIsNew, BeingAdded
<1> HIDE DEF q
<1>3. CASE next
  <2>1. future' = [future EXCEPT ![q] = "pending"] /\ remaining' = Append(remaining, q)
    BY <1>3 DEF Return, q
  <2>2. Once(remaining') /\ \A p : In(remaining', p) <=> In(remaining, p) \/ p = q
    BY Zenon, <1>1, <1>2, <2>1, AppendOnce DEF QueueType, Places, OnceEach, Placed
  <2>3. future'[q] # "none" /\ \A p \in Queries \ {q} : future'[p] = future[p]
    BY <1>1, <2>1 DEF QueueType
  <2>4. \A p : Placed(p)' <=> Placed(p) \/ p = q
    BY <1>1, <2>2 DEF Placed
  <2>5. OnceEach' /\ Disjoint' /\ LoopState'
    BY Zenon, <1>1, <1>2, <2>2 DEF Places, OnceEach, Disjoint, LoopState, Placed
  <2>6. PlacedIsAsked' /\ AskedIsPlaced'
    BY <1>1, <2>3, <2>4 DEF Places, PlacedIsAsked, AskedIsPlaced, BeingAdded
  <2>7. \A t \in Threads : stage[t] = "adding" => adding[t] \in Queries /\ ~Placed(adding[t]) /\ adding[t] # q
    BY <1>2 DEF QueueType, Places, AddingIsNew, BeingAdded
  <2>8. \A t \in Threads : stage[t] = "adding" => ~Placed(adding[t])'
    BY Zenon, <1>1, <2>2, <2>7 DEF Placed
  <2>9. AddingIsNew'
    BY Zenon, <1>1, <2>3, <2>7, <2>8 DEF Places, AddingIsNew
  <2> QED
    BY <2>5, <2>6, <2>9 DEF Places
<1>4. CASE ~next
  <2>1. future' = [future EXCEPT ![q] = "none"] /\ remaining' = remaining
    BY <1>4 DEF Return, q
  <2>2. future' = future
    BY <1>1, <2>1 DEF QueueType
  <2>3. /\ \A p : Placed(p)' <=> Placed(p)
        /\ OnceEach' /\ Disjoint' /\ LoopState'
    BY Zenon, <1>1, <2>1 DEF Places, OnceEach, Disjoint, LoopState, Placed
  <2> QED
    BY <1>1, <2>2, <2>3, CarryStep
<1> QED
  BY <1>3, <1>4

\* Every step of the bot that does not leave the program undefined.
LEMMA PlaceStep == QueueType /\ PlaceInv /\ [BotNext]_botAndButtonVars => PlaceInv'
<1> SUFFICES ASSUME QueueType, PlaceInv, [BotNext]_botAndButtonVars, ~undefined' PROVE Places'
  BY DEF PlaceInv
<1>1. CASE UNCHANGED vars
  <2>1. /\ UNCHANGED <<callbacks, updating, remaining, current, main, future, stage, adding>> /\ Places
    BY <1>1 DEF vars, callbackVars, processorVars, queryVars, PlaceInv
  <2> QED
    BY Zenon, <2>1, RestingStep
<1>2. CASE Next
  <2>1. Places
    BY SMTT(30), <1>2 DEF Next, PlaceInv
  <2>2. ASSUME NEW t \in Threads, NEW q \in Queries, Ask(t, q) PROVE Places'
    BY Zenon, <2>1, <2>2, BeginAddStep DEF Ask
  <2>3. ASSUME NEW t \in Threads, EndAdd(t) PROVE Places'
    BY SMTT(30), <2>1, <2>3, EndAddStep
  <2>4. ASSUME NEW t \in Threads, AttachHandler(t) PROVE Places'
    <3>1. PICK next \in {"waiting", "idle"} : Attach(t, next)
      BY <2>4 DEF AttachHandler
    <3>2. /\ stage[t] = "attaching" /\ stage' = [stage EXCEPT ![t] = next]
          /\ \A u \in Threads \ {t} : adding'[u] = adding[u]
          /\ UNCHANGED <<callbacks, updating, remaining, current, main, future>>
      BY Zenon, <3>1 DEF Attach, processorVars, QueueType
    <3>3. \A u \in Threads : /\ stage'[u] = "adding" <=> stage[u] = "adding"
                             /\ stage[u] = "adding" => adding'[u] = adding[u]
      BY Zenon, <3>2 DEF QueueType
    <3> QED
      BY Zenon, <2>1, <3>2, <3>3, RestingStep
  <2>5. ASSUME NEW t \in Threads, Reply(t) PROVE Places'
    <3>1. /\ stage[t] = "waiting" /\ stage' = [stage EXCEPT ![t] = "idle"]
          /\ \A u \in Threads \ {t} : adding'[u] = adding[u]
          /\ UNCHANGED <<callbacks, updating, remaining, current, main, future>>
      BY Zenon, <2>5 DEF Reply, processorVars, queryVars, QueueType
    <3>2. \A u \in Threads : /\ stage'[u] = "adding" <=> stage[u] = "adding"
                             /\ stage[u] = "adding" => adding'[u] = adding[u]
      BY Zenon, <3>1 DEF QueueType
    <3> QED
      BY Zenon, <2>1, <3>1, <3>2, RestingStep
  <2>6. ASSUME UNCHANGED <<callbacks, updating, remaining, current, future, stage, adding>>,
               \/ main' = main
               \/ main' \notin {"callback", "loop", "inserting", "moving"}
               \/ main = "loop" /\ main' = "moving"
               \/ main' = "inserting" /\ updating = <<>>
        PROVE  Places'
    BY Zenon, <2>1, <2>6, RestingStep
  <2>7. ASSUME NEW q \in Queries, MemberFound(q) \/ RoleAdded(q) PROVE Places'
    BY Zenon, <2>6, <2>7 DEF MemberFound, RoleAdded, callbackVars, processorVars, queryVars
  <2>8. CASE Execute
    <3>1. CASE UNCHANGED callbackVars
      BY Zenon, <2>6, <3>1 DEF callbackVars, processorVars, queryVars
    <3>2. ASSUME NEW q, Answer(q) PROVE Places'
      <4>1. /\ \A p \in Queries : future'[p] = "none" <=> future[p] = "none"
            /\ UNCHANGED <<callbacks, updating, remaining, current, main, stage, adding>>
        BY Zenon, <3>2 DEF Answer, QueueType, processorVars
      <4> QED
        BY Zenon, <2>1, <4>1, RestingStep
    <3> QED
      BY Zenon, <2>8, <3>1, <3>2 DEF Execute
  <2>9. CASE BeginProcess \/ BeginInsert
    BY Zenon, <2>6, <2>9 DEF BeginProcess, BeginInsert, queryVars
  <2>10. CASE Move \/ NotReady \/ Insert
    BY <2>1, <2>10, WalkStep
  <2>11. CASE Ready
    BY <2>1, <2>11, ReadyStep
  <2>12. CASE CallBack
    <3>1. PICK next \in BOOLEAN : Return(next)
      BY ZenonT(30), <2>12 DEF CallBack
    <3> QED
      BY SMTT(30), <2>1, <3>1, ReturnedStep
  <2>13. CASE Close \/ Stop \/ Exit \/ StopNow
    BY Zenon, <2>6, <2>13 DEF Close, Stop, Exit, StopNow, callbackVars, processorVars, queryVars
  <2> QED
    BY Zenon, <1>2, <2>2, <2>3, <2>4, <2>5, <2>7, <2>8, <2>9, <2>10, <2>11, <2>12, <2>13
    DEF Next, Main, Thread, Update, ProcessReadyCallbacks
<1> QED
  BY <1>1, <1>2 DEF BotNext, HandleButtons, botAndButtonVars

\* While the vector is not used by two threads at once, every callback whose query is asked
\* is in exactly one place where the processor finds it, or on its way there.
THEOREM CallbacksAreKept == BotSpec => []NothingLost
<1>1. BotInit => TruthInv /\ PlaceInv
  <2>1. BotInit => TruthInv
    BY DEF BotInit, Init, CallbackInit, TruthInv, QueueType, Unanswered, DeletesAreTold, ToldTheTruth
  <2>2. BotInit => PlaceInv
    BY EmptyOnce
       DEF BotInit, Init, CallbackInit, PlaceInv, Places, OnceEach, Disjoint, PlacedIsAsked,
                     AskedIsPlaced, AddingIsNew, LoopState, Placed
  <2> QED
    BY SMTT(30), <2>1, <2>2
<1>2. TruthInv => QueueType
  BY SMTT(30) DEF TruthInv
<1>3. QueueType /\ PlaceInv => NothingLost
  <2> SUFFICES ASSUME QueueType, Places
               PROVE  /\ IsInjective(callbacks \o updating \o remaining)
                      /\ \A q \in Queries : future[q] # "none" =>
                             \/ q \in Range(callbacks \o updating \o remaining)
                             \/ \E t \in Threads : stage[t] = "adding" /\ adding[t] = q
    BY Zenon DEF PlaceInv, NothingLost
  <2> DEFINE two == callbacks \o updating
             all == callbacks \o updating \o remaining
  <2>1. /\ two \in Seq(Queries) /\ Once(two)
        /\ \A q : In(two, q) <=> In(callbacks, q) \/ In(updating, q)
    BY Zenon, ConcatOnce DEF QueueType, Places, OnceEach, Disjoint
  <2> HIDE DEF two
  <2>2. /\ Once(two \o remaining) /\ \A q : In(two \o remaining, q) <=> Placed(q)
    BY Zenon, <2>1, ConcatOnce DEF QueueType, Places, OnceEach, Disjoint, Placed
  <2>3. Once(all) /\ \A q : In(all, q) <=> Placed(q)
    BY <2>2 DEF two
  <2> HIDE DEF all
  <2>4. IsInjective(all)
    BY SMTT(30), <2>3 DEF IsInjective, Once
  <2>5. \A q \in Queries : future[q] # "none" => q \in Range(all) \/ BeingAdded(q)
    BY Zenon, <2>3 DEF Places, AskedIsPlaced, In, Range
  <2> QED
    BY Zenon, <2>4, <2>5 DEF all, BeingAdded
<1> QED
  BY <1>1, <1>2, <1>3, TruthStep, PlaceStep, PTL DEF BotSpec

-------------------------------------------------------------------------------
\* The types of all of it. A callback runs only where a function was left to call, so the
\* number of functions does not go below zero: a function attached in the meantime adds to it.
BotTypeInv == /\ BotTypeOK
              /\ \A t \in Threads : stage[t] # "idle" => adding[t] \in Queries
              /\ main = "callback" => current \in Queries
              /\ main = "callback" /\ ~undefined => left[current] > 0

\* A command is asked.
LEMMA AskTypes ==
    ASSUME BotTypeInv, NEW t \in Threads, NEW q \in Queries, Ask(t, q), UNCHANGED buttonVars, ~undefined
    PROVE  BotTypeInv'
<1>1. Op("select", q) \in Ops
  BY DEF Op, Ops
<1>2. ops' \in Seq(Ops)
  <2>1. ops \in Seq(Ops) /\ (ops' = ops \/ ops' = ops \o <<Op("select", q)>>)
    BY Zenon DEF Ask, Enqueue, BotTypeInv, BotTypeOK, TypeOK
  <2> QED
    BY <1>1, <2>1
<1>3. /\ stage' = [stage EXCEPT ![t] = "adding"] /\ adding' = [adding EXCEPT ![t] = q]
      /\ future' = [future EXCEPT ![q] = "pending"] /\ undefined' = Contended(t)
      /\ UNCHANGED <<callbacks, updating, remaining, main, current, left, dangling,
                     rows, result, told, shown, role, stopped, closed>>
  BY Zenon DEF Ask, BeginAdd, processorVars
<1>4. undefined' \in BOOLEAN
  BY <1>3 DEF Contended
<1>5. CallbackTypeOK'
  BY Zenon, <1>3, <1>4 DEF BotTypeInv, BotTypeOK, TypeOK, CallbackTypeOK
<1>6. BotTypeOK'
  BY Zenon, <1>2, <1>3, <1>5 DEF BotTypeInv, BotTypeOK, TypeOK, ButtonsTypeOK, buttonVars
<1>7. \A u \in Threads : stage'[u] # "idle" => adding'[u] \in Queries
  BY Zenon, <1>3 DEF BotTypeInv, BotTypeOK, TypeOK, CallbackTypeOK
<1> QED
  BY Zenon, <1>3, <1>6, <1>7 DEF BotTypeInv

\* The worker executes an operation.
LEMMA ExecuteTypes ==
    ASSUME BotTypeInv, Execute, UNCHANGED buttonVars
    PROVE  BotTypeInv'
<1>1. ops # <<>> /\ ops \in Seq(Ops) /\ ops' = Tail(ops)
  BY Zenon DEF Execute, BotTypeInv, BotTypeOK, TypeOK
<1>2. PICK op \in Ops : op = Head(ops)
  BY <1>1
<1>3. PICK q \in Queries : q = op.query
  BY DEF Ops
<1>4. /\ ops' \in Seq(Ops)
      /\ UNCHANGED <<callbacks, updating, remaining, main, current, stage, adding, left, dangling,
                     undefined, told, shown, role, stopped, closed>>
  <2>1. ops' \in Seq(Ops)
    BY <1>1
  <2> QED
    BY Zenon, <2>1 DEF Execute, Answer, callbackVars, processorVars, queryVars
<1>5. future' \in [Queries -> {"none", "pending", "ready"}]
  <2>1. UNCHANGED future \/ future' = [future EXCEPT ![q] = "ready"]
    BY Zenon, <1>2, <1>3 DEF Execute, Answer, callbackVars, queryVars
  <2> QED
    BY Zenon, <2>1 DEF BotTypeInv, BotTypeOK, TypeOK, CallbackTypeOK
<1>6. rows' \subseteq Players
  <2>1. UNCHANGED rows \/ rows' = rows \cup {Row(q)} \/ rows' \subseteq rows
    BY Zenon, <1>2, <1>3 DEF Execute
  <2>2. Row(q) \in Players
    BY Zenon DEF Row, Players
  <2> QED
    BY Zenon, <2>1, <2>2 DEF BotTypeInv, BotTypeOK, TypeOK
<1>7. result' \in [Queries -> SUBSET Players]
  <2>1. \/ UNCHANGED result
        \/ \E found \in {Selected(q), {}} : result' = [result EXCEPT ![q] = found]
    BY Zenon, <1>2, <1>3 DEF Execute
  <2>2. Selected(q) \subseteq Players
    BY Zenon DEF Selected, BotTypeInv, BotTypeOK, TypeOK
  <2>3. result \in [Queries -> SUBSET Players]
    BY Zenon DEF BotTypeInv, BotTypeOK, TypeOK
  <2> QED
    BY <2>1, <2>2, <2>3
<1>8. CallbackTypeOK'
  BY Zenon, <1>4, <1>5 DEF BotTypeInv, BotTypeOK, TypeOK, CallbackTypeOK
<1>9. BotTypeOK'
  BY Zenon, <1>4, <1>6, <1>7, <1>8 DEF BotTypeInv, BotTypeOK, TypeOK, ButtonsTypeOK, buttonVars
<1> QED
  BY Zenon, <1>4, <1>9 DEF BotTypeInv

\* A thread goes on: its callback is in the vector, is attached, or is answered.
LEMMA ThreadTypes ==
    ASSUME BotTypeInv, NEW t \in Threads, Thread(t), UNCHANGED buttonVars, ~undefined
    PROVE  BotTypeInv'
<1>1. /\ callbacks \in Seq(Queries) /\ stage \in [Threads -> {"idle", "adding", "attaching", "waiting"}]
      /\ adding \in [Threads -> Queries \cup {None}] /\ left \in [Queries -> Nat]
      /\ dangling \subseteq Queries /\ undefined \in BOOLEAN /\ current \in Queries \cup {None}
      /\ \A u \in Threads : stage[u] # "idle" => adding[u] \in Queries
      /\ main = "callback" => current \in Queries /\ left[current] > 0
  BY Zenon DEF BotTypeInv, BotTypeOK, TypeOK, CallbackTypeOK
<1>2. UNCHANGED botVars /\ UNCHANGED <<updating, remaining, main, current, future>>
  BY Zenon DEF Thread, EndAdd, AttachHandler, Attach, Reply, processorVars, queryVars
<1>3. /\ callbacks' \in Seq(Queries) /\ stage' \in [Threads -> {"idle", "adding", "attaching", "waiting"}]
      /\ adding' \in [Threads -> Queries \cup {None}] /\ left' \in [Queries -> Nat]
      /\ dangling' \subseteq Queries /\ undefined' \in BOOLEAN
      /\ \A u \in Threads : stage'[u] # "idle" => adding'[u] \in Queries
      /\ main = "callback" => left'[current] > 0
  <2>1. CASE EndAdd(t)
    <3>1. /\ adding[t] \in Queries /\ callbacks' = Append(callbacks, adding[t])
          /\ stage' = [stage EXCEPT ![t] = "attaching"]
          /\ dangling' \subseteq dangling \cup Attaching
          /\ UNCHANGED <<adding, left, undefined>>
      BY Zenon, <1>1, <2>1 DEF EndAdd, queryVars
    <3>2. Attaching \subseteq Queries
      BY <1>1 DEF Attaching
    <3>3. callbacks' \in Seq(Queries)
      BY <1>1, <3>1
    <3> QED
      BY Zenon, <1>1, <3>1, <3>2, <3>3
  <2>2. CASE AttachHandler(t)
    <3>a. PICK q \in Queries : q = adding[t]
      BY Zenon, <1>1, <2>2 DEF AttachHandler, Attach
    <3>b. PICK next \in {"idle", "waiting"} : next = IF Kind[q] \in {"list", "delete"} THEN "waiting" ELSE "idle"
      OBVIOUS
    <3>1. Attach(t, next)
      BY Zenon, <2>2, <3>a, <3>b DEF AttachHandler
    <3>2. /\ \/ undefined' = TRUE /\ UNCHANGED left
             \/ left' = [left EXCEPT ![q] = Chain[q]] /\ UNCHANGED undefined
          /\ stage' = [stage EXCEPT ![t] = next]
          /\ adding' = [adding EXCEPT ![t] = IF next = "idle" THEN None ELSE @]
          /\ UNCHANGED <<callbacks, dangling>>
      BY Zenon, <3>1, <3>a DEF Attach, processorVars
    <3>3. Chain[q] \in Nat /\ Chain[q] > 0
      BY QueryCallbackAssumption
    <3>4. left' \in [Queries -> Nat] /\ (main = "callback" => left'[current] > 0)
      BY Zenon, <1>1, <3>2, <3>3
    <3>5. /\ stage' \in [Threads -> {"idle", "adding", "attaching", "waiting"}]
          /\ adding' \in [Threads -> Queries \cup {None}]
          /\ \A u \in Threads : stage'[u] # "idle" => adding'[u] \in Queries
      BY <1>1, <3>2, <3>a
    <3>6. callbacks' = callbacks /\ dangling' = dangling /\ undefined' \in BOOLEAN
      BY Zenon, <1>1, <3>2
    <3> QED
      BY Zenon, <1>1, <3>4, <3>5, <3>6
  <2>3. CASE Reply(t)
    <3>1. /\ stage' = [stage EXCEPT ![t] = "idle"] /\ adding' = [adding EXCEPT ![t] = None]
          /\ UNCHANGED <<callbacks, left, dangling, undefined>>
      BY Zenon, <2>3 DEF Reply, processorVars, queryVars
    <3> QED
      BY Zenon, <1>1, <3>1
  <2> QED
    BY Zenon, <2>1, <2>2, <2>3 DEF Thread
<1>4. CallbackTypeOK'
  BY Zenon, <1>2, <1>3 DEF BotTypeInv, BotTypeOK, TypeOK, CallbackTypeOK
<1>5. BotTypeOK'
  BY Zenon, <1>2, <1>4 DEF BotTypeInv, BotTypeOK, TypeOK, ButtonsTypeOK, buttonVars, botVars
<1> QED
  BY Zenon, <1>1, <1>2, <1>3, <1>5 DEF BotTypeInv

\* ProcessReadyCallbacks: a function is called where one is left.
LEMMA UpdateTypes ==
    ASSUME BotTypeInv, Update, UNCHANGED buttonVars, ~undefined
    PROVE  BotTypeInv'
<1>1. /\ callbacks \in Seq(Queries) /\ updating \in Seq(Queries) /\ remaining \in Seq(Queries)
      /\ current \in Queries \cup {None}
      /\ adding \in [Threads -> Queries \cup {None}] /\ left \in [Queries -> Nat]
      /\ future \in [Queries -> {"none", "pending", "ready"}]
      /\ dangling \subseteq Queries /\ undefined \in BOOLEAN
      /\ \A u \in Threads : stage[u] # "idle" => adding[u] \in Queries
  BY Zenon DEF BotTypeInv, BotTypeOK, TypeOK, CallbackTypeOK
<1>2. Attaching \subseteq Queries
  BY <1>1 DEF Attaching
<1>3. UNCHANGED <<stage, adding, left>> /\ UNCHANGED botVars
  BY Zenon
     DEF Update, ProcessReadyCallbacks, BeginProcess, Move, NotReady, Ready, BeginInsert, Insert, queryVars
<1>4. /\ callbacks' \in Seq(Queries) /\ updating' \in Seq(Queries) /\ remaining' \in Seq(Queries)
      /\ main' \in {"loop", "moving", "walking", "callback", "inserting", "closing", "stopping", "exited"}
      /\ current' \in Queries \cup {None}
      /\ future' \in [Queries -> {"none", "pending", "ready"}]
      /\ dangling' \subseteq Queries /\ undefined' \in BOOLEAN
      /\ main' = "callback" => current' \in Queries
      /\ main' = "callback" /\ ~undefined' => left[current'] > 0
  <2>1. CASE BeginProcess \/ BeginInsert
    BY Zenon, <1>1, <2>1 DEF BeginProcess, BeginInsert, queryVars
  <2>2. CASE Move \/ Insert
    <3>1. /\ main' \in {"walking", "loop"} /\ dangling' = dangling \cup Attaching
          /\ UNCHANGED <<current, future, undefined>>
      BY <2>2 DEF Move, Insert, queryVars
    <3>2. callbacks' \in Seq(Queries) /\ updating' \in Seq(Queries) /\ remaining' \in Seq(Queries)
      <4>1. CASE Move
        BY <1>1, <4>1 DEF Move
      <4>2. CASE Insert
        <5>1. callbacks' = callbacks \o remaining /\ remaining' = <<>> /\ updating' = updating
          BY <4>2 DEF Insert
        <5> QED
          BY <1>1, <5>1
      <4> QED
        BY <2>2, <4>1, <4>2
    <3> QED
      BY Zenon, <1>1, <1>2, <3>1, <3>2
  <2>3. CASE NotReady \/ Ready
    <3>1. updating # <<>> /\ UNCHANGED <<callbacks, dangling>> /\ updating' = Tail(updating)
      BY Zenon, <2>3 DEF NotReady, Ready
    <3>2. PICK q \in Queries : q = Head(updating)
      BY <1>1, <3>1
    <3>3. updating' \in Seq(Queries)
      BY <1>1, <3>1
    <3>4. CASE NotReady
      <4>1. remaining' = Append(remaining, q) /\ main' = "walking" /\ UNCHANGED <<current, future, undefined>>
        BY <3>2, <3>4 DEF NotReady, queryVars
      <4>2. remaining' \in Seq(Queries)
        BY <1>1, <4>1
      <4> QED
        BY Zenon, <1>1, <3>1, <3>3, <4>1, <4>2
    <3>5. CASE Ready
      <4>1. /\ main' = "callback" /\ current' = q /\ future' = [future EXCEPT ![q] = "none"]
            /\ undefined' = (left[q] = 0) /\ UNCHANGED remaining
        BY Zenon, <3>2, <3>5 DEF Ready
      <4>2. left[q] \in Nat
        BY <1>1
      <4>3. ~undefined' => left[current'] > 0
        <5>1. ~undefined' => left[q] # 0
          BY Zenon, <4>1
        <5> QED
          BY <4>1, <4>2, <5>1
      <4>4. undefined' \in BOOLEAN
        BY Zenon, <4>1
      <4> QED
        BY Zenon, <1>1, <3>1, <3>3, <4>1, <4>3, <4>4
    <3> QED
      BY Zenon, <2>3, <3>4, <3>5
  <2> QED
    BY Zenon, <2>1, <2>2, <2>3 DEF Update, ProcessReadyCallbacks
<1>5. CallbackTypeOK'
  BY Zenon, <1>3, <1>4 DEF BotTypeInv, BotTypeOK, TypeOK, CallbackTypeOK
<1>6. BotTypeOK'
  BY Zenon, <1>3, <1>5 DEF BotTypeInv, BotTypeOK, TypeOK, ButtonsTypeOK, buttonVars, botVars
<1> QED
  BY Zenon, <1>1, <1>3, <1>4, <1>6 DEF BotTypeInv

\* Answers of Discord, and the end of the process.
LEMMA RestTypes ==
    ASSUME BotTypeInv, UNCHANGED buttonVars, ~undefined,
           Close \/ Stop \/ Exit \/ StopNow \/ \E q \in Queries : MemberFound(q) \/ RoleAdded(q)
    PROVE  BotTypeInv'
<1>1. CASE Close \/ Stop \/ Exit
  <2>1. /\ main' \in {"closing", "stopping", "exited"} /\ closed' \in BOOLEAN
        /\ ops' = <<>> \/ UNCHANGED ops
        /\ UNCHANGED <<callbacks, updating, remaining, current, stage, adding, queryVars, dangling,
                       undefined, rows, result, told, shown, role, stopped>>
    <3>1. closed \in BOOLEAN
      BY Zenon DEF BotTypeInv, BotTypeOK, TypeOK
    <3> QED
      BY Zenon, <1>1, <3>1 DEF Close, Stop, Exit, botVars
  <2>2. CallbackTypeOK'
    BY Zenon, <2>1 DEF BotTypeInv, BotTypeOK, TypeOK, CallbackTypeOK, queryVars
  <2>3. ops' \in Seq(Ops)
    <3>1. ops \in Seq(Ops)
      BY Zenon DEF BotTypeInv, BotTypeOK, TypeOK
    <3>2. <<>> \in Seq(Ops)
      OBVIOUS
    <3> QED
      BY Zenon, <2>1, <3>1, <3>2
  <2>4. BotTypeOK'
    BY Zenon, <2>1, <2>2, <2>3 DEF BotTypeInv, BotTypeOK, TypeOK, ButtonsTypeOK, buttonVars
  <2> QED
    BY Zenon, <2>1, <2>4 DEF BotTypeInv
<1>2. CASE StopNow
  <2>1. /\ stopped' = TRUE
        /\ UNCHANGED <<callbacks, updating, remaining, main, current, stage, adding, future, left,
                       dangling, undefined, rows, ops, result, told, shown, role, closed>>
    BY Zenon, <1>2 DEF StopNow, callbackVars, processorVars, queryVars
  <2>2. CallbackTypeOK'
    BY Zenon, <2>1 DEF BotTypeInv, BotTypeOK, TypeOK, CallbackTypeOK
  <2>3. BotTypeOK'
    BY Zenon, <2>1, <2>2 DEF BotTypeInv, BotTypeOK, TypeOK, ButtonsTypeOK, buttonVars
  <2> QED
    BY Zenon, <2>1, <2>3 DEF BotTypeInv
<1>3. ASSUME NEW q \in Queries, MemberFound(q) \/ RoleAdded(q) PROVE BotTypeInv'
  <2>1. /\ \E to \in {"none", "adding", "given"} : role' = [role EXCEPT ![q] = to]
        /\ undefined' \in BOOLEAN
        /\ UNCHANGED <<callbacks, updating, remaining, main, current, stage, adding, future, left,
                       dangling, rows, ops, result, told, shown, stopped, closed>>
    <3>1. CASE MemberFound(q)
      <4>1. undefined' \in BOOLEAN
        <5>1. undefined \in BOOLEAN
          BY Zenon DEF BotTypeInv, BotTypeOK, TypeOK, CallbackTypeOK
        <5> QED
          BY Zenon, <3>1, <5>1 DEF MemberFound
      <4> QED
        BY Zenon, <3>1, <4>1 DEF MemberFound, processorVars, queryVars
    <3>2. CASE RoleAdded(q)
      <4>1. undefined' = undefined /\ undefined \in BOOLEAN
        BY Zenon, <3>2 DEF RoleAdded, callbackVars, BotTypeInv, BotTypeOK, TypeOK, CallbackTypeOK
      <4> QED
        BY Zenon, <3>2, <4>1 DEF RoleAdded, callbackVars, processorVars, queryVars
    <3> QED
      BY Zenon, <1>3, <3>1, <3>2
  <2>2. CallbackTypeOK'
    BY Zenon, <2>1 DEF BotTypeInv, BotTypeOK, TypeOK, CallbackTypeOK
  <2>3. role' \in [Queries -> {"none", "lookup", "adding", "given"}]
    BY Zenon, <2>1 DEF BotTypeInv, BotTypeOK, TypeOK
  <2>4. BotTypeOK'
    BY Zenon, <2>1, <2>2, <2>3 DEF BotTypeInv, BotTypeOK, TypeOK, ButtonsTypeOK, buttonVars
  <2> QED
    BY Zenon, <2>1, <2>4 DEF BotTypeInv
<1> QED
  BY <1>1, <1>2, <1>3

INSTANCE FiniteSetTheorems

\* GuildGetPlayersHandler: the messages show only players that were found. There is an order
\* of the rows, and no field has a number beyond the last row.
LEMMA ShownAreFound ==
    ASSUME NEW found, IsFiniteSet(found)
    PROVE  Shown(found) \subseteq found
<1> DEFINE n == Cardinality(found)
           order == CHOOSE s \in [1 .. Cardinality(found) -> found] : IsInjective(s)
<1>1. n \in Nat /\ ExistsBijection(1 .. n, found)
  BY FS_CardinalityType
<1>2. \E s \in [1 .. n -> found] : IsInjective(s)
  BY Zenon, <1>1 DEF ExistsBijection, Bijection, Injection, IsInjective
<1>3. order \in [1 .. n -> found]
  BY <1>2
<1>4. ASSUME NEW i \in UNION Pages(n) PROVE i \in 1 .. n
  <2>1. PICK k \in 0 .. n : i \in Fields(k)
    BY <1>1, <1>4 DEF Pages
  <2> QED
    BY <1>1, <2>1, GuildPlayersAssumption DEF Fields
<1>5. Shown(found) = {order[i] : i \in UNION Pages(n)}
  BY Zenon DEF Shown
<1> HIDE DEF n, order
<1> QED
  BY <1>3, <1>4, <1>5

\* There are finitely many players, so finitely many are found.
LEMMA PlayersAreFinite == ASSUME NEW found, found \subseteq Players PROVE IsFiniteSet(found)
<1>1. IsFiniteSet(Queries)
  BY GuildPlayersAssumption
<1>2. ExistsSurjection(Queries, Players)
  <2> DEFINE f == [q \in Queries |-> [user |-> User[q], nick |-> Nick[q]]]
  <2>1. f \in [Queries -> Players] /\ \A p \in Players : \E q \in Queries : f[q] = p
    BY Zenon DEF Players
  <2> QED
    BY Zenon, <2>1 DEF ExistsSurjection, Surjection
<1>3. IsFiniteSet(Players)
  BY Zenon, <1>1, <1>2, FS_Surjection DEF ExistsSurjection
<1> QED
  BY Zenon, <1>3, FS_Subset

\* The callbacks of the commands.
LEMMA CallBackTypes ==
    ASSUME BotTypeInv, CallBack, UNCHANGED buttonVars, ~undefined
    PROVE  BotTypeInv'
<1>1. PICK q \in Queries : q = current
  BY Zenon DEF CallBack, BotTypeInv
<1>2. /\ main = "callback" /\ left \in [Queries -> Nat] /\ left[q] > 0 /\ remaining \in Seq(Queries)
      /\ future \in [Queries -> {"none", "pending", "ready"}]
      /\ told \in [Queries -> {"nothing", "added", "exists", "listed", "nobody", "removed", "unknown"}]
      /\ result \in [Queries -> SUBSET Players] /\ shown \in [Queries -> SUBSET Players]
      /\ role \in [Queries -> {"none", "lookup", "adding", "given"}] /\ ops \in Seq(Ops)
  BY Zenon, <1>1 DEF CallBack, BotTypeInv, BotTypeOK, TypeOK, CallbackTypeOK
<1>3. PICK next \in BOOLEAN : Return(next)
  BY Zenon DEF CallBack
<1>4. /\ left' = [left EXCEPT ![q] = @ - 1]
      /\ future' = [future EXCEPT ![q] = IF next THEN "pending" ELSE "none"]
      /\ remaining' = IF next THEN Append(remaining, q) ELSE remaining
      /\ main' = "walking" /\ current' = None
      /\ UNCHANGED <<callbacks, updating, stage, adding, dangling, undefined>>
  BY Zenon, <1>1, <1>3 DEF Return
<1>5. left' \in [Queries -> Nat] /\ remaining' \in Seq(Queries)
  BY <1>2, <1>4
<1>6. future' \in [Queries -> {"none", "pending", "ready"}]
  BY Zenon, <1>2, <1>4
<1>7. CallbackTypeOK'
  BY Zenon, <1>4, <1>5, <1>6 DEF BotTypeInv, BotTypeOK, TypeOK, CallbackTypeOK
<1>8. UNCHANGED <<rows, result, stopped, closed>>
  BY Zenon DEF CallBack
<1>9. /\ told' \in [Queries -> {"nothing", "added", "exists", "listed", "nobody", "removed", "unknown"}]
      /\ shown' \in [Queries -> SUBSET Players]
      /\ role' \in [Queries -> {"none", "lookup", "adding", "given"}] /\ ops' \in Seq(Ops)
  <2>1. \A type \in {"select", "insert", "delete"} : Op(type, q) \in Ops
    BY Zenon DEF Op, Ops
  <2>2. ASSUME NEW type \in {"select", "insert", "delete"}, Enqueue(<<Op(type, q)>>) PROVE ops' \in Seq(Ops)
    <3>1. <<Op(type, q)>> \in Seq(Ops)
      BY <2>1
    <3> QED
      BY <1>2, <2>2, <3>1 DEF Enqueue
  <2>3. CASE AddNickName(q)
    <3>1. ops' \in Seq(Ops)
      BY Zenon, <1>2, <2>2, <2>3 DEF AddNickName
    <3>2. told' = [told EXCEPT ![q] = "added"] \/ told' = [told EXCEPT ![q] = "exists"]
      BY Zenon, <2>3 DEF AddNickName
    <3>3. UNCHANGED role \/ role' = [role EXCEPT ![q] = IF EnableRoleAdd THEN "lookup" ELSE @]
      BY Zenon, <2>3 DEF AddNickName
    <3>4. UNCHANGED shown
      BY Zenon, <2>3 DEF AddNickName
    <3> QED
      BY Zenon, <1>2, <3>1, <3>2, <3>3, <3>4
  <2>4. CASE ListPlayers(q)
    <3>1. PICK found \in SUBSET Players : found = result[q]
      BY Zenon, <1>2
    <3>2. Shown(found) \subseteq found
      BY Zenon, <3>1, PlayersAreFinite, ShownAreFound
    <3>3. /\ told' = [told EXCEPT ![q] = IF found = {} THEN "nobody" ELSE "listed"]
          /\ shown' = [shown EXCEPT ![q] = Shown(found)] /\ UNCHANGED <<ops, role>>
      BY Zenon, <2>4, <3>1 DEF ListPlayers
    <3> QED
      BY Zenon, <1>2, <3>2, <3>3
  <2>5. CASE DeletePlayer(q)
    <3>1. ops' \in Seq(Ops)
      BY Zenon, <1>2, <2>2, <2>5 DEF DeletePlayer
    <3>2. \/ told' = [told EXCEPT ![q] = "removed"]
          \/ told' = [told EXCEPT ![q] = IF result[q] = {} THEN "nobody" ELSE "unknown"]
      BY Zenon, <2>5 DEF DeletePlayer
    <3>3. UNCHANGED <<shown, role>>
      BY Zenon, <2>5 DEF DeletePlayer
    <3> QED
      BY Zenon, <1>2, <3>1, <3>2, <3>3
  <2>6. CASE Chained(q)
    BY Zenon, <1>2, <2>6 DEF Chained
  <2>7. CASE Enqueue(<<Op("select", q)>>) /\ UNCHANGED <<told, shown, role>>
    BY Zenon, <1>2, <2>2, <2>7
  <2> QED
    BY Zenon, <1>1, <2>3, <2>4, <2>5, <2>6, <2>7 DEF CallBack
<1>10. BotTypeOK'
  BY Zenon, <1>7, <1>8, <1>9 DEF BotTypeInv, BotTypeOK, TypeOK, ButtonsTypeOK, buttonVars
<1> QED
  BY Zenon, <1>4, <1>10 DEF BotTypeInv

\* One step per handler; the buttons change nothing of the commands.
LEMMA BotTypeStep == BotTypeInv /\ [BotNext]_botAndButtonVars => BotTypeInv'
<1> SUFFICES ASSUME BotTypeInv, [BotNext]_botAndButtonVars PROVE BotTypeInv'
  OBVIOUS
<1>1. CASE Next /\ UNCHANGED buttonVars
  BY Zenon, <1>1, AskTypes, ThreadTypes, ExecuteTypes, UpdateTypes, CallBackTypes, RestTypes
     DEF Next, Main
<1>2. CASE UNCHANGED vars /\ (HandleButtons \/ UNCHANGED buttonVars)
  <2>1. UNCHANGED <<callbacks, updating, remaining, main, current, stage, adding, future, left, dangling,
                    undefined, rows, ops, result, told, shown, role, stopped, closed>>
    BY Zenon, <1>2 DEF vars, callbackVars, processorVars, queryVars, botVars
  <2>2. TypeOK'
    <3>1. CallbackTypeOK'
      BY Zenon, <2>1 DEF BotTypeInv, BotTypeOK, TypeOK, CallbackTypeOK
    <3> QED
      BY Zenon, <2>1, <3>1 DEF BotTypeInv, BotTypeOK, TypeOK
  <2>3. ButtonsTypeOK'
    <3>1. CASE UNCHANGED buttonVars
      BY Zenon, <3>1 DEF BotTypeInv, BotTypeOK, ButtonsTypeOK, buttonVars
    <3>2. ASSUME NEW r \in Requests, CheckRoles(r) PROVE ButtonsTypeOK'
      <4>1. /\ confirmButtons' = [confirmButtons EXCEPT ![Author[r]] = r] /\ made' = Append(made, r)
            /\ messages' = messages \cup {r} /\ executed' = executed
        BY Zenon, <3>2 DEF CheckRoles, AddConfirmButton
      <4>2. made' \in Seq(Requests)
        BY <4>1 DEF BotTypeInv, BotTypeOK, ButtonsTypeOK
      <4> QED
        BY Zenon, <4>1, <4>2 DEF BotTypeInv, BotTypeOK, ButtonsTypeOK
    <3>3. ASSUME NEW r \in Requests, Confirm(r) PROVE ButtonsTypeOK'
      <4>1. PICK a \in Authors : a = Author[r]
        BY ButtonsAssumption
      <4>2. PICK stored \in Requests : stored = confirmButtons[a]
        BY Zenon, <3>3, <4>1 DEF Confirm, BotTypeInv, BotTypeOK, ButtonsTypeOK
      <4>3. /\ executed' = [executed EXCEPT ![stored] = @ + 1]
            /\ confirmButtons' = [confirmButtons EXCEPT ![a] = Nothing]
            /\ UNCHANGED <<made, messages>>
        BY Zenon, <3>3, <4>1, <4>2 DEF Confirm
      <4> QED
        BY <4>3 DEF BotTypeInv, BotTypeOK, ButtonsTypeOK
    <3>4. ASSUME NEW r \in Requests, Delete(r) PROVE ButtonsTypeOK'
      BY Zenon, <3>4 DEF Delete, BotTypeInv, BotTypeOK, ButtonsTypeOK
    <3> QED
      BY Zenon, <1>2, <3>1, <3>2, <3>3, <3>4 DEF HandleButtons, ButtonsNext
  <2> QED
    BY Zenon, <2>1, <2>2, <2>3 DEF BotTypeInv, BotTypeOK
<1> QED
  BY <1>1, <1>2 DEF BotNext, HandleButtons, botAndButtonVars

\* Every variable of the bot keeps its type, for any commands and threads: above all no callback
\* is called that has no function left, and no message shows a player that was not found.
THEOREM BotTypes == BotSpec => []BotTypeOK
<1>1. BotInit => BotTypeInv
  <2> SUFFICES ASSUME BotInit PROVE BotTypeInv
    OBVIOUS
  <2>1. CallbackTypeOK /\ (\A t \in Threads : stage[t] = "idle") /\ main = "loop"
    <3>1. callbacks \in Seq(Queries) /\ updating \in Seq(Queries) /\ remaining \in Seq(Queries)
      BY DEF BotInit, Init, CallbackInit
    <3> QED
      BY Zenon, <3>1 DEF BotInit, Init, CallbackInit, CallbackTypeOK
  <2>2. rows \subseteq Players
    <3>1. rows \subseteq {Row(q) : q \in {p \in Queries : Kind[p] = "list"}}
      BY DEF BotInit, Init
    <3>2. \A q \in Queries : Row(q) \in Players
      BY Zenon DEF Row, Players
    <3> QED
      BY Zenon, <3>1, <3>2
  <2>3. TypeOK
    <3>1. ops \in Seq(Ops)
      BY DEF BotInit, Init
    <3> QED
      BY Zenon, <2>1, <2>2, <3>1 DEF BotInit, Init, TypeOK
  <2>4. ButtonsTypeOK
    BY DEF BotInit, ButtonsInit, ButtonsTypeOK
  <2> QED
    BY Zenon, <2>1, <2>3, <2>4 DEF BotTypeInv, BotTypeOK
<1>2. BotTypeInv => BotTypeOK
  BY Zenon DEF BotTypeInv
<1> QED
  BY <1>1, <1>2, BotTypeStep, PTL DEF BotSpec
===============================================================================
