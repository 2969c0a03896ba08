------------------------------- MODULE MPSCQueue -------------------------------
(*************************************************************************)
(* The lock-free queue with several producers and one consumer, in both  *)
(* variants: with nodes of its own, and linked through the elements. One *)
(* step is one access to memory that another thread may write to. A node *)
(* is named by its element; Dummy is the first node of the one variant   *)
(* and the dummy of the other.                                           *)
(*************************************************************************)
EXTENDS Naturals, Sequences, Functions

CONSTANTS Elements, Dummy, Null

ASSUME MPSCAssumption == Dummy \notin Elements /\ Null \notin Elements \cup {Dummy}

Nodes == Elements \cup {Dummy}

VARIABLES
    intrusive,          \* which of the variants
    head, tail,         \* _head, _tail
    next,               \* Next, IntrusiveLink
    prevHead,           \* in the Enqueue of a node, between the exchange and the store
    order,              \* elements in the order of their exchange
    taken,              \* elements in the order of their Dequeue
    freed,              \* nodes that were deleted or handed to the consumer
    consumer,           \* where the consumer is in Dequeue, or "gone"
    closing             \* the destructor is running

linkVars == <<head, next, prevHead, order>>
mpscVars == <<intrusive, linkVars, tail, taken, freed, consumer, closing>>

MPSCTypeOK == /\ intrusive \in BOOLEAN /\ closing \in BOOLEAN
              /\ head \in Nodes /\ tail \in Nodes
              /\ next \in [Nodes -> Nodes \cup {Null}]
              /\ prevHead \in [Nodes -> Nodes \cup {Null}]
              /\ order \in Seq(Elements) /\ taken \in Seq(Elements)
              /\ freed \subseteq Nodes
              /\ consumer \in {"idle", "last", "dummy", "again", "gone"}

MPSCInit == /\ intrusive \in BOOLEAN /\ closing = FALSE
            /\ head = Dummy /\ tail = Dummy
            /\ next = [n \in Nodes |-> Null] /\ prevHead = [n \in Nodes |-> Null]
            /\ order = <<>> /\ taken = <<>> /\ freed = {}
            /\ consumer = "idle"

-------------------------------------------------------------------------------
\* Enqueue of a node: its link is cleared, it becomes the head, and the old head is linked
\* to it, in two steps that other threads get between.
Exchange(n) == /\ prevHead' = [prevHead EXCEPT ![n] = head]
               /\ head' = n
               /\ next' = [next EXCEPT ![n] = Null]

Link(n) == /\ prevHead[n] # Null
           /\ next' = [next EXCEPT ![prevHead[n]] = n]
           /\ prevHead' = [prevHead EXCEPT ![n] = Null]
           /\ UNCHANGED <<head, order>>

Enqueue(e) == /\ ~closing
              /\ \/ e \notin Range(order) /\ Exchange(e) /\ order' = Append(order, e)
                 \/ Link(e)
              /\ UNCHANGED <<intrusive, tail, taken, freed, consumer, closing>>

-------------------------------------------------------------------------------
\* Dequeue of the variant with nodes: the next node carries the element and is the new
\* tail, the old one is deleted. Without a next node it returns false.
DequeueNode ==
    /\ ~intrusive /\ consumer = "idle"
    /\ next[tail] # Null
    /\ tail' = next[tail]
    /\ taken' = Append(taken, next[tail])
    /\ freed' = freed \cup {tail}
    /\ UNCHANGED <<intrusive, linkVars, consumer, closing>>

\* Variant of PassDummy: whatever is at the tail is passed over.
PassAny ==
    /\ intrusive /\ consumer = "idle"
    /\ next[tail] # Null
    /\ tail' = next[tail]
    /\ UNCHANGED <<intrusive, linkVars, taken, freed, consumer, closing>>

\* Dequeue of the intrusive variant: the dummy is passed over.
PassDummy ==
    /\ intrusive /\ consumer = "idle"
    /\ tail = Dummy /\ next[tail] # Null
    /\ tail' = next[tail]
    /\ UNCHANGED <<intrusive, linkVars, taken, freed, consumer, closing>>

\* Variant of TakeElement: the dummy is handed out like an element.
TakeAny ==
    /\ intrusive /\ consumer \in {"idle", "again"}
    /\ next[tail] # Null
    /\ tail' = next[tail]
    /\ taken' = Append(taken, tail)
    /\ freed' = freed \cup {tail}
    /\ consumer' = "idle"
    /\ UNCHANGED <<intrusive, linkVars, closing>>

\* The element at the tail is taken when a node follows it.
TakeElement ==
    /\ intrusive /\ consumer \in {"idle", "again"}
    /\ tail # Dummy /\ next[tail] # Null
    /\ tail' = next[tail]
    /\ taken' = Append(taken, tail)
    /\ freed' = freed \cup {tail}
    /\ consumer' = "idle"
    /\ UNCHANGED <<intrusive, linkVars, closing>>

\* None follows it: _head is loaded next.
SeeLast ==
    /\ intrusive /\ consumer = "idle"
    /\ tail # Dummy /\ next[tail] = Null
    /\ consumer' = "last"
    /\ UNCHANGED <<intrusive, linkVars, tail, taken, freed, closing>>

\* Variant of CompareHead: the dummy is enqueued in any case.
CompareNothing ==
    /\ consumer = "last"
    /\ consumer' = "dummy"
    /\ UNCHANGED <<intrusive, linkVars, tail, taken, freed, closing>>

\* If it is the head, the dummy is enqueued behind it; otherwise a producer is about to
\* link its node, and Dequeue returns false.
CompareHead ==
    /\ consumer = "last"
    /\ consumer' = IF tail = head THEN "dummy" ELSE "idle"
    /\ UNCHANGED <<intrusive, linkVars, tail, taken, freed, closing>>

EnqueueDummy ==
    /\ consumer = "dummy"
    /\ \/ prevHead[Dummy] = Null /\ Exchange(Dummy) /\ UNCHANGED <<order, consumer>>
       \/ Link(Dummy) /\ consumer' = "again"
    /\ UNCHANGED <<intrusive, tail, taken, freed, closing>>

\* A producer came in before the dummy and has not linked its node.
NotYet ==
    /\ consumer = "again" /\ next[tail] = Null
    /\ consumer' = "idle"
    /\ UNCHANGED <<intrusive, linkVars, tail, taken, freed, closing>>

\* The destructor dequeues until Dequeue returns false, and deletes the node that is left
\* over. No Enqueue is running by then.
Destroy ==
    /\ consumer = "idle" /\ \A e \in Elements : prevHead[e] = Null
    /\ \/ ~closing /\ closing' = TRUE /\ UNCHANGED <<freed, consumer>>
       \/ /\ closing /\ next[tail] = Null
          /\ intrusive => tail = Dummy
          /\ consumer' = "gone"
          /\ freed' = IF intrusive THEN freed ELSE freed \cup {head}
          /\ UNCHANGED closing
    /\ UNCHANGED <<intrusive, linkVars, tail, taken>>

Consumer == DequeueNode \/ PassDummy \/ TakeElement \/ SeeLast \/ CompareHead \/ EnqueueDummy \/ NotYet

MPSCNext == (\E e \in Elements : Enqueue(e)) \/ Consumer \/ Destroy

MPSCSpec == MPSCInit /\ [][MPSCNext]_mpscVars

\* Producers go on; the consumer calls Dequeue again and again.
MPSCFairness == WF_mpscVars(Consumer) /\ \A e \in Elements : WF_mpscVars(Enqueue(e))

-------------------------------------------------------------------------------
\* Elements come out in the order of their exchange, none twice and none passed over,
\* although the list has gaps while producers are between their two steps.
InOrderOfExchange == Len(taken) <= Len(order) /\ taken = SubSeq(order, 1, Len(taken))

\* No thread is about to write to a node that was deleted or handed over, and in the end
\* every node has been.
FreedInTime ==
    /\ \A n \in Nodes : prevHead[n] \notin freed
    /\ tail \notin freed \/ consumer = "gone"
    /\ consumer = "gone" => Nodes \cap (Range(order) \cup (IF intrusive THEN {} ELSE {Dummy}))
                              = freed

\* Every element that was exchanged in comes out, also when the consumer met a gap.
ComesOut == \A e \in Elements : e \in Range(order) ~> e \in Range(taken)
===============================================================================
