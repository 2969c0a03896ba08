------------------------------ MODULE TaskScheduler ------------------------------
(*************************************************************************)
(* TaskScheduler and TaskContext: tasks ordered by the time they are due,*)
(* callables for the next tick, and handlers that change the scheduler   *)
(* while Dispatch walks it. The pool's keep-alive, clean-up and queue    *)
(* check run on it.                                                      *)
(*                                                                       *)
(* One step is one call of a method. The code around the scheduler, the  *)
(* callables and the task handlers may call any method any number of     *)
(* times; a handler may keep a copy of its context to repeat its task    *)
(* later.                                                                *)
(*************************************************************************)
EXTENDS Naturals, Sequences, Functions, FiniteSets

CONSTANTS
    Tasks,              \* Task objects
    Groups,             \* group_t
    Durations,          \* durations handed to Schedule, Delay and Reschedule
    MaxTime, MaxEnd,    \* bounds on _now and _end
    MaxAsync,           \* bound on the callables waiting
    None                \* no task, no group

ASSUME SchedulerAssumption ==
    /\ Durations \subseteq Nat /\ MaxTime \in Nat /\ MaxEnd \in Nat /\ MaxAsync \in Nat
    /\ None \notin Tasks /\ None \notin Groups

VARIABLES
    now,                \* _now
    queue,              \* TaskQueue::container, a multiset ordered by _end
    end, group,         \* _end and _group of every task
    asyncs,             \* size of _asyncHolder
    valid,              \* what _predicate returns
    pc, cur,            \* Dispatch: "idle", "async" or "task"; the task invoked
    live,               \* tasks with a context that is not consumed
    kept,               \* tasks whose context somebody kept a copy of
    undefined           \* pop() was called on an empty queue

clock    == <<now, valid, undefined>>
contexts == <<pc, cur, live, kept>>
vars == <<clock, contexts, queue, end, group, asyncs>>

Queued == Range(queue)

TypeOK == /\ now \in 0 .. MaxTime
          /\ queue \in Seq(Tasks)
          /\ end \in [Tasks -> Nat]
          /\ group \in [Tasks -> Groups \cup {None}]
          /\ asyncs \in 0 .. MaxAsync
          /\ valid \in BOOLEAN /\ undefined \in BOOLEAN
          /\ pc \in {"idle", "async", "task"}
          /\ cur \in Tasks \cup {None}
          /\ live \subseteq Tasks /\ kept \subseteq Tasks

Init == /\ now = 0
        /\ queue = <<>>
        /\ end = [t \in Tasks |-> 0]
        /\ group = [t \in Tasks |-> None]
        /\ asyncs = 0
        /\ valid = TRUE
        /\ pc = "idle" /\ cur = None
        /\ live = {} /\ kept = {}
        /\ undefined = FALSE

-------------------------------------------------------------------------------
\* TaskQueue.

\* A loop over q that takes the members of S, one after another.
Walk(q, S) ==
    LET found[i \in 0 .. Len(q)] ==
            IF i = 0 THEN <<>>
            ELSE IF q[i] \in S THEN Append(found[i - 1], q[i]) ELSE found[i - 1]
    IN  found[Len(q)]

\* multiset::insert: in front of the first element that is due later, or at the end.
PushInto(q, e, t) ==
    LET n == CHOOSE n \in 1 .. Len(q) + 1 :
                 /\ \A i \in 1 .. n - 1 : e[q[i]] <= e[t]
                 /\ n <= Len(q) => e[q[n]] > e[t]
    IN  SubSeq(q, 1, n - 1) \o <<t>> \o SubSeq(q, n, Len(q))

\* multiset::insert of a range: one after the other.
InsertRange(q, e, cache) ==
    LET inserted[i \in 0 .. Len(cache)] ==
            IF i = 0 THEN q ELSE PushInto(inserted[i - 1], e, cache[i])
    IN  inserted[Len(cache)]

\* RemoveIf: a walk over the container that leaves out the tasks of some groups.
RemoveIf(gs) == Walk(queue, {t \in Queued : group[t] \notin gs})

\* ModifyIf: the elements the filter has changed are taken out and inserted again.
Modified(in, e) == InsertRange(Walk(queue, Queued \ in), e, Walk(queue, in))

-------------------------------------------------------------------------------
\* Dispatch.

\* The context of the handler that has returned is gone, unless a copy was kept.
Surviving == live \ ({cur} \ kept)

\* The validation failed: Dispatch returns without calling its callback.
Stop == /\ pc' = "idle" /\ cur' = None
        /\ live' = Surviving
        /\ UNCHANGED queue

\* The loop over the tasks, at time n: the first task is taken out and invoked, or
\* none is due and Dispatch calls its callback and returns.
DispatchTasks(n) ==
    IF queue # <<>> /\ end[Head(queue)] <= n
    THEN /\ pc' = "task" /\ cur' = Head(queue)
         /\ queue' = Tail(queue)
         /\ live' = Surviving \cup {Head(queue)}
    ELSE Stop

\* Update: the time goes on, then Dispatch.
Update(n) ==
    /\ pc = "idle"
    /\ now' = n
    /\ \/ ~valid /\ Stop
       \/ valid /\ asyncs > 0 /\ pc' = "async" /\ UNCHANGED <<cur, queue, live>>
       \/ valid /\ asyncs = 0 /\ DispatchTasks(n)
    /\ UNCHANGED <<end, group, asyncs, valid, kept, undefined>>

\* The callable in front of _asyncHolder returns and is popped. If it has emptied the
\* holder itself, pop() finds nothing.
AsyncReturns ==
    /\ pc = "async"
    /\ IF asyncs = 0 THEN undefined' = TRUE /\ UNCHANGED <<asyncs, pc, cur, queue, live>>
       ELSE /\ asyncs' = asyncs - 1
            /\ \/ ~valid /\ Stop
               \/ valid /\ asyncs' > 0 /\ UNCHANGED <<pc, cur, queue, live>>
               \/ valid /\ asyncs' = 0 /\ DispatchTasks(now)
            /\ UNCHANGED undefined
    /\ UNCHANGED <<now, end, group, valid, kept>>

\* Variant of TaskReturns: Dispatch leaves after one task.
TaskReturnsAlone ==
    /\ pc = "task"
    /\ Stop
    /\ UNCHANGED <<clock, end, group, asyncs, kept>>

\* The handler returns; Dispatch goes on with what is the first task now.
TaskReturns ==
    /\ pc = "task"
    /\ IF valid THEN DispatchTasks(now) ELSE Stop
    /\ UNCHANGED <<clock, end, group, asyncs, kept>>

-------------------------------------------------------------------------------
\* Methods of the scheduler, called between two ticks, by a callable, or through the
\* context of a task.

\* SetValidator, ClearValidator: from now on the predicate answers differently.
SetValidator == /\ valid' = ~valid
                /\ UNCHANGED <<contexts, now, undefined, queue, end, group, asyncs>>

Async == /\ asyncs < MaxAsync
         /\ asyncs' = asyncs + 1
         /\ UNCHANGED <<clock, contexts, queue, end, group>>

\* A task object nobody refers to any more.
Unused(t) == t \notin Queued /\ t \notin live /\ t # cur

\* ScheduleAt, InsertTask.
ScheduleAt(t, base, d, g) ==
    /\ Unused(t)
    /\ base + d <= MaxEnd
    /\ end' = [end EXCEPT ![t] = base + d]
    /\ group' = [group EXCEPT ![t] = g]
    /\ queue' = PushInto(queue, end', t)
    /\ UNCHANGED <<clock, contexts, asyncs>>

\* TaskScheduler::Schedule counts from _now ("Never call this from within a task
\* context!"), TaskContext::Schedule from the time the calling task was due.
Schedule(t, d, g) == pc # "task" /\ ScheduleAt(t, now, d, g)
ContextSchedule(t, d, g) == pc = "task" /\ ScheduleAt(t, end[cur], d, g)

\* CancelAll: both holders are emptied, the callable being executed included.
CancelAll == /\ queue' = <<>>
             /\ asyncs' = 0
             /\ UNCHANGED <<clock, contexts, end, group>>

\* CancelGroup, CancelGroupsOf.
CancelGroupsOf(gs) == /\ queue' = RemoveIf(gs)
                      /\ UNCHANGED <<clock, contexts, end, group, asyncs>>

\* The tasks a Delay or Reschedule call is about: all of them, or one group.
Affected(g) == {t \in Queued : g = None \/ group[t] = g}

\* DelayAll, DelayGroup.
Delay(g, d) ==
    /\ \A t \in Affected(g) : end[t] + d <= MaxEnd
    /\ end' = [t \in Tasks |-> IF t \in Affected(g) THEN end[t] + d ELSE end[t]]
    /\ queue' = Modified(Affected(g), end')
    /\ UNCHANGED <<clock, contexts, group, asyncs>>

\* RescheduleAll, RescheduleGroup.
Reschedule(g, d) ==
    /\ end' = [t \in Tasks |-> IF t \in Affected(g) THEN now + d ELSE end[t]]
    /\ queue' = Modified(Affected(g), end')
    /\ UNCHANGED <<clock, contexts, group, asyncs>>

-------------------------------------------------------------------------------
\* Methods of a context.

\* Repeat: due d after the last due time, not after _now. AssertOnConsumed: a context
\* repeats its task once.
Repeat(t, d) ==
    /\ t \in live
    /\ t = cur \/ t \in kept
    /\ end[t] + d <= MaxEnd
    /\ end' = [end EXCEPT ![t] = @ + d]
    /\ queue' = PushInto(queue, end', t)
    /\ live' = live \ {t}
    /\ kept' = kept \ {t}
    /\ UNCHANGED <<clock, group, asyncs, pc, cur>>

\* The handler copies its context somewhere.
Keep == /\ pc = "task" /\ cur \in live
        /\ kept' = kept \cup {cur}
        /\ UNCHANGED <<clock, queue, end, group, asyncs, pc, cur, live>>

\* SetGroup, ClearGroup.
SetGroup(g) == /\ pc = "task"
               /\ group' = [group EXCEPT ![cur] = g]
               /\ UNCHANGED <<clock, contexts, queue, end, asyncs>>
-------------------------------------------------------------------------------
Call == \/ SetValidator
        \/ Async
        \/ CancelAll
        \/ Keep
        \/ \E gs \in SUBSET Groups : CancelGroupsOf(gs)
        \/ \E t \in Tasks, d \in Durations, g \in Groups \cup {None} :
               Schedule(t, d, g) \/ ContextSchedule(t, d, g)
        \/ \E g \in Groups \cup {None}, d \in Durations : Delay(g, d) \/ Reschedule(g, d)
        \/ \E t \in Tasks, d \in Durations : Repeat(t, d)
        \/ \E g \in Groups \cup {None} : SetGroup(g)

Next == /\ ~undefined
        /\ \/ \E n \in now .. MaxTime : Update(n)
           \/ AsyncReturns
           \/ TaskReturns
           \/ Call

Spec == Init /\ [][Next]_vars

\* Callables and handlers return.
FairSpec == Spec /\ WF_vars(~undefined /\ AsyncReturns) /\ WF_vars(~undefined /\ TaskReturns)

-------------------------------------------------------------------------------
\* The container stays ordered by due time although ModifyIf changes the keys of
\* elements that sit in it.
Sorted == \A i, j \in DOMAIN queue : i < j => end[queue[i]] <= end[queue[j]]

\* A task waits in one place: once in the container, or in the hands of one context
\* that may still repeat it, however contexts are copied, kept and used late.
OnePlace == /\ IsInjective(queue)
            /\ Queued \cap live = {}

\* When Dispatch has gone through the tasks and its validator still agrees, no task is
\* left that is due: not one that was scheduled, delayed, rescheduled or repeated by a
\* handler in the meantime either.
AllDueRan == [][pc = "task" /\ pc' = "idle" /\ valid
                    => \A t \in Range(queue') : end'[t] > now']_vars

\* A tick that has come to the tasks ends, whatever the handlers schedule and repeat, as
\* long as they use durations that are not zero.
UpdateReturns == pc = "task" ~> pc = "idle"

\* TaskScheduler.h:222: "Its safe to modify the TaskScheduler from within the callable."
CallablesMayModify == ~undefined
===============================================================================
