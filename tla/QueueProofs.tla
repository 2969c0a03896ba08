------------------------------ MODULE QueueProofs ------------------------------
(***************************************************************************)
(* The two queues between threads, for every value of their constants: the *)
(* lock-free queue, and the queue of the asynchronous connections with     *)
(* its workers.                                                            *)
(***************************************************************************)
EXTENDS AsyncQueue, MPSCQueue, TLAPS

\* The nodes from the tail to the head, although some links between them are missing: each
\* node but the first is linked to the one before it, or its producer remembers to do so.
Linked(c) ==
    /\ c # <<>> /\ c[1] = tail /\ c[Len(c)] = head
    /\ IsInjective(c)
    /\ next[head] = Null
    /\ \A i \in 1 .. Len(c) - 1 :
          \/ next[c[i]] = c[i + 1] /\ prevHead[c[i + 1]] = Null
          \/ next[c[i]] = Null /\ prevHead[c[i + 1]] = c[i]
    /\ \A n \in Nodes : prevHead[n] # Null => \E i \in 2 .. Len(c) : c[i] = n

\* What has still to be taken, behind what was: these nodes without the one at d. That is
\* the first one, whose element was taken, in the variant with nodes, and the dummy in the
\* other, or none where the dummy is not among them.
Behind(c, d) ==
    /\ d \in 1 .. Len(c) + 1
    /\ Len(order) = Len(taken) + (IF d <= Len(c) THEN Len(c) - 1 ELSE Len(c))
    /\ \A i \in 1 .. Len(c) : i < d => order[Len(taken) + i] = c[i]
    /\ \A i \in 1 .. Len(c) : i > d => order[Len(taken) + i - 1] = c[i]
    /\ IF intrusive THEN d <= Len(c) => c[d] = Dummy
       ELSE d = 1 /\ tail \in Range(taken) \cup {Dummy}

TakenFirst == /\ Len(taken) <= Len(order)
              /\ \A i \in 1 .. Len(taken) : taken[i] = order[i]
              /\ IsInjective(order)

\* What was deleted or handed over.
Gone == IF intrusive THEN freed = Range(taken)
        ELSE IF consumer = "gone" THEN freed = Range(taken) \cup {Dummy}
        ELSE freed = (Range(taken) \cup {Dummy}) \ {tail}

\* Where the consumer is in Dequeue: past the first test there is an element at the tail, and
\* the dummy is enqueued only when it is not in the queue.
ConsumerInv ==
    /\ consumer \in {"last", "dummy", "again"} => intrusive /\ tail # Dummy
    /\ prevHead[Dummy] # Null => consumer = "dummy"
    /\ consumer = "gone" => closing /\ order = taken

DummyOutside(c) == consumer = "dummy" /\ prevHead[Dummy] = Null => \A i \in 1 .. Len(c) : c[i] # Dummy

Shape(c, d) == Linked(c) /\ Behind(c, d) /\ DummyOutside(c)

\* The invariant of the proofs.
QueueInv == /\ MPSCTypeOK /\ TakenFirst /\ Gone /\ ConsumerInv
            /\ \E c \in Seq(Nodes), d \in Nat : Shape(c, d)

-------------------------------------------------------------------------------
\* A node that is exchanged in is the last of the chain; its producer remembers the one
\* before it.
LEMMA ExchangeLinked ==
    ASSUME MPSCTypeOK, NEW c \in Seq(Nodes), Linked(c), NEW n \in Nodes,
           \A i \in 1 .. Len(c) : c[i] # n, Exchange(n), UNCHANGED tail
    PROVE  Linked(Append(c, n))'
<1> DEFINE b == Append(c, n)
<1>1. /\ b \in Seq(Nodes) /\ Len(b) = Len(c) + 1 /\ b[Len(b)] = n
      /\ \A i \in 1 .. Len(c) : b[i] = c[i]
  OBVIOUS
<1>2. /\ Len(c) >= 1 /\ c[1] = tail /\ c[Len(c)] = head /\ prevHead[n] = Null
      /\ next[head] = Null /\ head \in Nodes /\ head # n
  <2>1. Len(c) \in Nat /\ Len(c) # 0 /\ c[1] = tail /\ c[Len(c)] = head /\ next[head] = Null
    BY DEF Linked
  <2>2. prevHead[n] = Null
    BY DEF Linked
  <2> QED
    BY <2>1, <2>2
<1>3. /\ head' = n /\ tail' = tail
      /\ next' = [next EXCEPT ![n] = Null] /\ prevHead' = [prevHead EXCEPT ![n] = head]
      /\ next \in [Nodes -> Nodes \cup {Null}] /\ prevHead \in [Nodes -> Nodes \cup {Null}]
  BY DEF Exchange, MPSCTypeOK
<1>4. b # <<>> /\ b[1] = tail' /\ b[Len(b)] = head'
  BY SMTT(30), <1>1, <1>2, <1>3
<1>5. IsInjective(b)
  <2>1. \A i, j \in 1 .. Len(c) : c[i] = c[j] => i = j
    BY DEF Linked, IsInjective
  <2>2. SUFFICES ASSUME NEW i \in 1 .. Len(b), NEW j \in 1 .. Len(b), b[i] = b[j] PROVE i = j
    BY <1>1 DEF IsInjective
  <2> QED
    BY SMTT(30), <1>1, <2>1, <2>2
<1>6. next'[head'] = Null
  BY <1>3
<1>7. ASSUME NEW i \in 1 .. Len(b) - 1
      PROVE  \/ next'[b[i]] = b[i + 1] /\ prevHead'[b[i + 1]] = Null
             \/ next'[b[i]] = Null /\ prevHead'[b[i + 1]] = b[i]
  <2>1. CASE i = Len(c)
    BY SMTT(30), <1>1, <1>2, <1>3, <2>1
  <2>2. CASE i < Len(c)
    <3>1. i \in 1 .. Len(c) - 1 /\ i + 1 \in 1 .. Len(c) /\ b[i] = c[i] /\ b[i + 1] = c[i + 1]
      BY <1>1, <1>7, <2>2
    <3>2. c[i] \in Nodes /\ c[i] # n /\ c[i + 1] \in Nodes /\ c[i + 1] # n
      BY <3>1
    <3>3. \/ next[c[i]] = c[i + 1] /\ prevHead[c[i + 1]] = Null
          \/ next[c[i]] = Null /\ prevHead[c[i + 1]] = c[i]
      BY Zenon, <3>1 DEF Linked
    <3> QED
      BY Zenon, <1>3, <3>1, <3>2, <3>3
  <2> QED
    BY SMTT(30), <1>1, <1>2, <2>1, <2>2
<1>8. ASSUME NEW m \in Nodes, prevHead'[m] # Null PROVE \E i \in 2 .. Len(b) : b[i] = m
  <2>1. CASE m = n
    BY <1>1, <1>2, <2>1
  <2>2. CASE m # n
    <3>1. prevHead[m] # Null
      BY <1>3, <1>8, <2>2
    <3>2. PICK i \in 2 .. Len(c) : c[i] = m
      BY Zenon, <3>1 DEF Linked
    <3> QED
      BY <1>1, <3>2
  <2> QED
    BY Zenon, <2>1, <2>2
<1> QED
  BY <1>4, <1>5, <1>6, <1>7, <1>8 DEF Linked

\* The producer of a node links it: the chain is the same.
LEMMA LinkLinked ==
    ASSUME MPSCTypeOK, NEW c \in Seq(Nodes), Linked(c), NEW n \in Nodes, Link(n), UNCHANGED tail
    PROVE  Linked(c)'
<1>1. /\ head' = head /\ tail' = tail /\ prevHead[n] # Null
      /\ next' = [next EXCEPT ![prevHead[n]] = n] /\ prevHead' = [prevHead EXCEPT ![n] = Null]
      /\ next \in [Nodes -> Nodes \cup {Null}] /\ prevHead \in [Nodes -> Nodes \cup {Null}]
  BY DEF Link, MPSCTypeOK
<1>2. PICK k \in 2 .. Len(c) : c[k] = n
  BY <1>1 DEF Linked
<1>3. \A i, j \in 1 .. Len(c) : c[i] = c[j] => i = j
  BY DEF Linked, IsInjective
<1>4. \A i \in 1 .. Len(c) - 1 : \/ next[c[i]] = c[i + 1] /\ prevHead[c[i + 1]] = Null
                                 \/ next[c[i]] = Null /\ prevHead[c[i + 1]] = c[i]
  BY Zenon DEF Linked
<1>5. prevHead[n] = c[k - 1] /\ c[k - 1] \in Nodes /\ k - 1 \in 1 .. Len(c) - 1
  <2>1. k - 1 \in 1 .. Len(c) - 1 /\ (k - 1) + 1 = k
    BY <1>2
  <2> QED
    BY <1>1, <1>2, <1>4, <2>1
<1>6. next' = [next EXCEPT ![c[k - 1]] = n]
  BY <1>1, <1>5
<1>7. next'[head'] = Null
  <2>1. c[Len(c)] = head /\ Len(c) \in 1 .. Len(c) /\ next[head] = Null /\ head \in Nodes
    BY <1>2 DEF Linked, MPSCTypeOK
  <2>2. head # c[k - 1]
    BY <1>3, <1>5, <2>1
  <2> QED
    BY <1>1, <1>6, <2>1, <2>2
<1>8. ASSUME NEW i \in 1 .. Len(c) - 1
      PROVE  \/ next'[c[i]] = c[i + 1] /\ prevHead'[c[i + 1]] = Null
             \/ next'[c[i]] = Null /\ prevHead'[c[i + 1]] = c[i]
  <2>1. CASE i = k - 1
    <3>1. c[i + 1] = n
      BY <1>2, <2>1
    <3> QED
      BY <1>1, <1>5, <1>6, <2>1, <3>1
  <2>2. CASE i # k - 1
    <3>1. i \in 1 .. Len(c) /\ i + 1 \in 1 .. Len(c) /\ i + 1 # k /\ k - 1 \in 1 .. Len(c)
      BY <1>2, <1>8, <2>2
    <3>2. c[i] # c[k - 1] /\ c[i + 1] # n
      BY <1>2, <1>3, <2>2, <3>1
    <3> QED
      BY <1>1, <1>4, <1>6, <1>8, <3>1, <3>2
  <2> QED
    BY <2>1, <2>2
<1>9. ASSUME NEW m \in Nodes, prevHead'[m] # Null PROVE \E i \in 2 .. Len(c) : c[i] = m
  BY <1>1, <1>9 DEF Linked
<1> QED
  BY <1>1, <1>7, <1>8, <1>9 DEF Linked

\* The consumer goes on to the node behind the tail, which is linked.
LEMMA TailLinked ==
    ASSUME MPSCTypeOK, MPSCAssumption, NEW c \in Seq(Nodes), Linked(c), next[tail] # Null,
           tail' = next[tail], UNCHANGED linkVars
    PROVE  /\ Len(c) >= 2 /\ tail' = c[2] /\ Tail(c) \in Seq(Nodes)
           /\ Len(Tail(c)) = Len(c) - 1 /\ \A i \in 1 .. Len(c) - 1 : Tail(c)[i] = c[i + 1]
           /\ Linked(Tail(c))'
<1> DEFINE b == Tail(c)
<1>1. /\ Len(c) \in Nat /\ Len(c) # 0 /\ c[1] = tail /\ c[Len(c)] = head /\ next[head] = Null
      /\ \A i, j \in 1 .. Len(c) : c[i] = c[j] => i = j
  BY DEF Linked, IsInjective
<1>2. Len(c) >= 2
  BY <1>1
<1>3. b \in Seq(Nodes) /\ Len(b) = Len(c) - 1 /\ \A i \in 1 .. Len(c) - 1 : b[i] = c[i + 1]
  BY <1>2
<1>4. \A i \in 1 .. Len(c) - 1 : \/ next[c[i]] = c[i + 1] /\ prevHead[c[i + 1]] = Null
                                 \/ next[c[i]] = Null /\ prevHead[c[i + 1]] = c[i]
  BY DEF Linked
<1>5. tail' = c[2] /\ prevHead[c[2]] = Null
  BY <1>1, <1>2, <1>4
<1>6. head' = head /\ next' = next /\ prevHead' = prevHead
  BY DEF linkVars
<1>7. b # <<>> /\ b[1] = tail' /\ b[Len(b)] = head' /\ next'[head'] = Null
  <2> HIDE DEF b
  <2>1. 1 \in 1 .. Len(c) - 1 /\ Len(b) \in 1 .. Len(c) - 1 /\ Len(b) + 1 = Len(c)
    BY <1>1, <1>2, <1>3
  <2>2. b[1] = c[2] /\ b[Len(b)] = c[Len(c)]
    BY <1>3, <2>1
  <2>3. b # <<>>
    BY <1>3, <2>1
  <2> QED
    BY <1>1, <1>5, <1>6, <2>2, <2>3
<1>8. IsInjective(b)
  <2>1. SUFFICES ASSUME NEW i \in 1 .. Len(b), NEW j \in 1 .. Len(b), b[i] = b[j] PROVE i = j
    BY <1>3 DEF IsInjective
  <2>2. b[i] = c[i + 1] /\ b[j] = c[j + 1] /\ i + 1 \in 1 .. Len(c) /\ j + 1 \in 1 .. Len(c)
    BY <1>1, <1>3
  <2>3. i + 1 = j + 1
    BY <1>1, <2>1, <2>2
  <2> QED
    BY <2>3
<1>9. ASSUME NEW i \in 1 .. Len(b) - 1
      PROVE  \/ next'[b[i]] = b[i + 1] /\ prevHead'[b[i + 1]] = Null
             \/ next'[b[i]] = Null /\ prevHead'[b[i + 1]] = b[i]
  <2>1. b[i] = c[i + 1] /\ b[i + 1] = c[(i + 1) + 1] /\ i + 1 \in 1 .. Len(c) - 1
    BY <1>1, <1>3
  <2> QED
    BY <1>4, <1>6, <2>1
<1>10. ASSUME NEW m \in Nodes, prevHead'[m] # Null PROVE \E i \in 2 .. Len(b) : b[i] = m
  <2>1. PICK k \in 2 .. Len(c) : c[k] = m
    BY <1>6, <1>10 DEF Linked
  <2>2. k # 2
    BY Zenon, <1>5, <1>6, <1>10, <2>1
  <2>3. k - 1 \in 2 .. Len(b) /\ b[k - 1] = c[(k - 1) + 1] /\ (k - 1) + 1 = k
    BY SMTT(30), <1>1, <1>3, <2>1, <2>2
  <2> QED
    BY Zenon, <2>1, <2>3
<1> QED
  BY Zenon, <1>2, <1>3, <1>5, <1>7, <1>8, <1>9, <1>10 DEF Linked
-------------------------------------------------------------------------------
\* An element that is appended is the only one that is added.
LEMMA RangeAppend ==
    ASSUME NEW S, NEW s \in Seq(S), NEW e \in S
    PROVE  Range(Append(s, e)) = Range(s) \cup {e}
<1> DEFINE t == Append(s, e)
<1>1. /\ DOMAIN s = 1 .. Len(s) /\ DOMAIN t = 1 .. Len(s) + 1 /\ t[Len(s) + 1] = e
      /\ Len(s) \in Nat /\ \A i \in 1 .. Len(s) : t[i] = s[i]
  OBVIOUS
<1>2. ASSUME NEW x PROVE x \in Range(t) <=> x \in Range(s) \cup {e}
  <2>1. x \in Range(t) <=> \E i \in 1 .. Len(s) + 1 : x = t[i]
    BY <1>1 DEF Range
  <2>2. x \in Range(s) <=> \E i \in 1 .. Len(s) : x = s[i]
    BY <1>1 DEF Range
  <2>3. (\E i \in 1 .. Len(s) + 1 : x = t[i]) <=> (\E i \in 1 .. Len(s) : x = s[i]) \/ x = e
    <3> HIDE DEF t
    <3> QED
      BY <1>1
  <2> QED
    BY <2>1, <2>2, <2>3
<1> QED
  BY <1>2

\* Every node of the chain but the one at d is an element that is still to be taken, and
\* the one at d is none.
LEMMA ChainNodes ==
    ASSUME MPSCTypeOK, MPSCAssumption, TakenFirst, NEW c \in Seq(Nodes), NEW d \in Nat,
           Linked(c), Behind(c, d)
    PROVE  /\ \A i \in 1 .. Len(c) : i # d => c[i] \in Elements \ Range(taken)
           /\ \A i \in 1 .. Len(c) : c[i] \in Range(order) \cup {Dummy}
<1>1. /\ Len(order) \in Nat /\ Len(taken) \in Nat /\ Len(c) \in Nat
      /\ \A i \in 1 .. Len(order) : order[i] \in Elements
      /\ Range(taken) = {taken[i] : i \in 1 .. Len(taken)}
      /\ Range(order) = {order[i] : i \in 1 .. Len(order)}
  BY SMTT(30) DEF MPSCTypeOK, Range
<1>2. \A i, j \in 1 .. Len(order) : order[i] = order[j] => i = j
  BY DEF TakenFirst, IsInjective, MPSCTypeOK
<1>3. /\ d \in 1 .. Len(c) + 1
      /\ Len(order) = Len(taken) + (IF d <= Len(c) THEN Len(c) - 1 ELSE Len(c))
      /\ \A i \in 1 .. Len(c) : i < d => order[Len(taken) + i] = c[i]
      /\ \A i \in 1 .. Len(c) : i > d => order[Len(taken) + i - 1] = c[i]
  BY Zenon DEF Behind
<1>4. Len(taken) <= Len(order) /\ \A i \in 1 .. Len(taken) : taken[i] = order[i]
  BY Zenon DEF TakenFirst
<1>5. ASSUME NEW i \in 1 .. Len(c), i # d
      PROVE  \E k \in 1 .. Len(order) : k > Len(taken) /\ order[k] = c[i]
  <2>1. CASE i < d
    <3>1. Len(taken) + i \in 1 .. Len(order) /\ Len(taken) + i > Len(taken)
      BY <1>1, <1>3, <2>1
    <3> QED
      BY <1>3, <2>1, <3>1
  <2>2. CASE i > d
    <3>1. Len(taken) + i - 1 \in 1 .. Len(order) /\ Len(taken) + i - 1 > Len(taken)
      BY <1>1, <1>3, <2>2
    <3> QED
      BY <1>3, <2>2, <3>1
  <2> QED
    BY <1>1, <1>3, <1>5, <2>1, <2>2
<1>6. ASSUME NEW i \in 1 .. Len(c), i # d
      PROVE  c[i] \in Elements \ Range(taken) /\ c[i] \in Range(order)
  <2>1. PICK k \in 1 .. Len(order) : k > Len(taken) /\ order[k] = c[i]
    BY SMTT(30), <1>5, <1>6
  <2>2. ASSUME c[i] \in Range(taken) PROVE FALSE
    <3>1. PICK j \in 1 .. Len(taken) : c[i] = taken[j]
      BY Zenon, <1>1, <2>2
    <3>2. j \in 1 .. Len(order) /\ order[j] = order[k]
      BY <1>1, <1>4, <2>1, <3>1
    <3> QED
      BY <1>2, <2>1, <3>2
  <2> QED
    BY <1>1, <2>1, <2>2
<1>7. ASSUME NEW i \in 1 .. Len(c), i = d PROVE c[i] \in Range(order) \cup {Dummy}
  <2>1. CASE intrusive
    BY <1>1, <1>7, <2>1 DEF Behind
  <2>2. CASE ~intrusive
    <3>1. c[i] = tail /\ tail \in Range(taken) \cup {Dummy}
      BY <1>7, <2>2 DEF Behind, Linked
    <3>2. Range(taken) \subseteq Range(order)
      BY SMTT(30), <1>1, <1>4
    <3> QED
      BY Zenon, <3>1, <3>2
  <2> QED
    BY <2>1, <2>2
<1> QED
  BY Zenon, <1>6, <1>7

\* In the intrusive variant the node at d is the dummy, wherever it is in the chain.
LEMMA DummyAt ==
    ASSUME MPSCTypeOK, MPSCAssumption, TakenFirst, NEW c \in Seq(Nodes), NEW d \in Nat,
           Linked(c), Behind(c, d), intrusive
    PROVE  \A i \in 1 .. Len(c) : c[i] = Dummy <=> i = d
<1>1. \A i \in 1 .. Len(c) : i # d => c[i] \in Elements
  BY ChainNodes
<1>2. d <= Len(c) => c[d] = Dummy
  BY DEF Behind
<1> QED
  BY <1>1, <1>2 DEF MPSCAssumption

\* An element that is enqueued is the last of those to be taken.
LEMMA EnqueueBehind ==
    ASSUME MPSCTypeOK, NEW c \in Seq(Nodes), NEW d \in Nat, Behind(c, d), c # <<>>, NEW e \in Elements,
           order' = Append(order, e), UNCHANGED <<taken, tail, intrusive>>
    PROVE  \E k \in Nat : Behind(Append(c, e), k)'
<1> DEFINE b == Append(c, e)
           o == Append(order, e)
           k == IF d <= Len(c) THEN d ELSE d + 1
<1>1. /\ Len(b) = Len(c) + 1 /\ b[Len(c) + 1] = e /\ Len(c) \in Nat
      /\ \A i \in 1 .. Len(c) : b[i] = c[i]
  BY DEF Nodes
<1>2. /\ Len(o) = Len(order) + 1 /\ o[Len(order) + 1] = e /\ Len(order) \in Nat
      /\ (\A i \in 1 .. Len(order) : o[i] = order[i]) /\ Len(taken) \in Nat
  BY DEF MPSCTypeOK
<1>3. /\ d \in 1 .. Len(c) + 1
      /\ Len(order) = Len(taken) + (IF d <= Len(c) THEN Len(c) - 1 ELSE Len(c))
      /\ \A i \in 1 .. Len(c) : i < d => order[Len(taken) + i] = c[i]
      /\ \A i \in 1 .. Len(c) : i > d => order[Len(taken) + i - 1] = c[i]
      /\ IF intrusive THEN d <= Len(c) => c[d] = Dummy
         ELSE d = 1 /\ tail \in Range(taken) \cup {Dummy}
  BY DEF Behind
<1>4. order' = o /\ taken' = taken /\ tail' = tail /\ intrusive' = intrusive
  OBVIOUS
<1> HIDE DEF b, o
<1>5. k \in 1 .. Len(b) + 1 /\ Len(o) = Len(taken) + (IF k <= Len(b) THEN Len(b) - 1 ELSE Len(b))
  BY SMTT(30), <1>1, <1>2, <1>3
<1>6. ASSUME NEW i \in 1 .. Len(b), i < k PROVE o[Len(taken) + i] = b[i]
  <2>1. CASE i <= Len(c)
    <3>1. Len(taken) + i \in 1 .. Len(order) /\ i < d /\ i \in 1 .. Len(c)
      BY SMTT(30), <1>1, <1>2, <1>3, <1>6, <2>1
    <3> QED
      BY Zenon, <1>1, <1>2, <1>3, <3>1
  <2>2. CASE i = Len(c) + 1
    <3>1. Len(taken) + i = Len(order) + 1
      BY <1>1, <1>2, <1>3, <1>6, <2>2
    <3> QED
      BY <1>1, <1>2, <2>2, <3>1
  <2> QED
    BY <1>1, <2>1, <2>2
<1>7. ASSUME NEW i \in 1 .. Len(b), i > k PROVE o[Len(taken) + i - 1] = b[i]
  <2>1. CASE i <= Len(c)
    <3>1. Len(taken) + i - 1 \in 1 .. Len(order) /\ i > d /\ i \in 1 .. Len(c)
      BY SMTT(30), <1>1, <1>2, <1>3, <1>7, <2>1
    <3> QED
      BY Zenon, <1>1, <1>2, <1>3, <3>1
  <2>2. CASE i = Len(c) + 1
    <3>1. Len(taken) + i - 1 = Len(order) + 1
      BY <1>1, <1>2, <1>3, <1>7, <2>2
    <3> QED
      BY <1>1, <1>2, <2>2, <3>1
  <2> QED
    BY <1>1, <2>1, <2>2
<1>8. IF intrusive THEN k <= Len(b) => b[k] = Dummy
      ELSE k = 1 /\ tail \in Range(taken) \cup {Dummy}
  <2>1. Len(c) >= 1
    BY <1>1
  <2>2. CASE intrusive
    <3>1. ASSUME k <= Len(b) PROVE d <= Len(c) /\ k = d /\ d \in 1 .. Len(c)
      BY <1>1, <1>3, <3>1
    <3> QED
      BY <1>1, <1>3, <2>2, <3>1
  <2>3. CASE ~intrusive
    BY <1>3, <2>1, <2>3
  <2> QED
    BY <2>2, <2>3
<1>9. Behind(b, k)'
  <2> HIDE DEF k
  <2> QED
    BY <1>4, <1>5, <1>6, <1>7, <1>8 DEF Behind
<1> QED
  BY <1>3, <1>9 DEF b
-------------------------------------------------------------------------------
\* The facts of the invariant, for a chain that has been picked.
Picked(c, d) == /\ MPSCTypeOK /\ TakenFirst /\ Gone /\ ConsumerInv
                /\ c \in Seq(Nodes) /\ d \in Nat /\ Shape(c, d)

\* The invariant, from the chain that proves it.
LEMMA PickedInv ==
    ASSUME NEW c, NEW d, Picked(c, d)'
    PROVE  QueueInv'
BY DEF Picked, QueueInv

\* Enqueue of an element, first step.
LEMMA EnqueueExchange ==
    ASSUME MPSCAssumption, NEW c, NEW d, Picked(c, d), NEW e \in Elements, ~closing,
           e \notin Range(order), Exchange(e), order' = Append(order, e),
           UNCHANGED <<intrusive, tail, taken, freed, consumer, closing>>
    PROVE  QueueInv'
<1> USE DEF Picked, Shape
<1>1. MPSCTypeOK'
  BY DEF MPSCTypeOK, Exchange, Nodes
<1>2. Linked(Append(c, e))'
  <2>1. \A i \in 1 .. Len(c) : c[i] \in Range(order) \cup {Dummy}
    BY Zenon, ChainNodes
  <2>2. \A i \in 1 .. Len(c) : c[i] # e
    BY Zenon, <2>1 DEF MPSCAssumption
  <2> QED
    BY Zenon, <2>2, ExchangeLinked DEF Nodes
<1>3. PICK k \in Nat : Behind(Append(c, e), k)'
  BY Zenon, EnqueueBehind DEF Linked
<1>4. e # Dummy /\ prevHead'[Dummy] = prevHead[Dummy]
  BY DEF MPSCTypeOK, Exchange, MPSCAssumption, Nodes
<1>5. DummyOutside(Append(c, e))'
  <2>1. SUFFICES ASSUME consumer = "dummy", prevHead[Dummy] = Null,
                        NEW i \in 1 .. Len(Append(c, e))
                 PROVE  Append(c, e)[i] # Dummy
    BY <1>4 DEF DummyOutside
  <2>2. \A j \in 1 .. Len(c) : c[j] # Dummy
    BY <2>1 DEF DummyOutside
  <2>3. i \in 1 .. Len(c) \/ i = Len(c) + 1
    BY DEF Nodes
  <2> QED
    BY <1>4, <2>2, <2>3 DEF Nodes
<1>6. TakenFirst'
  <2>1. /\ Len(order') = Len(order) + 1 /\ order'[Len(order) + 1] = e /\ Len(order) \in Nat
        /\ \A i \in 1 .. Len(order) : order'[i] = order[i]
        /\ Len(taken) \in Nat /\ order' \in Seq(Elements)
    BY DEF MPSCTypeOK
  <2>2. /\ Len(taken) <= Len(order) /\ \A i \in 1 .. Len(taken) : taken[i] = order[i]
        /\ \A i, j \in 1 .. Len(order) : order[i] = order[j] => i = j
    BY SMTT(30) DEF TakenFirst, IsInjective, MPSCTypeOK
  <2>3. \A i \in 1 .. Len(order) : order[i] # e
    BY SMTT(30) DEF Range, MPSCTypeOK
  <2>4. \A i, j \in 1 .. Len(order') : order'[i] = order'[j] => i = j
    BY SMTT(30), <2>1, <2>2, <2>3
  <2>5. IsInjective(order')
    BY <2>1, <2>4 DEF IsInjective
  <2> QED
    BY <2>1, <2>2, <2>5 DEF TakenFirst
<1>7. Gone'
  BY DEF Gone
<1>8. ConsumerInv'
  BY Zenon, <1>4 DEF ConsumerInv
<1>9. Append(c, e) \in Seq(Nodes)
  BY DEF Nodes
<1> QED
  BY Zenon, <1>1, <1>2, <1>3, <1>5, <1>6, <1>7, <1>8, <1>9, PickedInv

\* The producer of an element, or the consumer for the dummy, links its node.
LEMMA LinkStep ==
    ASSUME MPSCAssumption, NEW c, NEW d, Picked(c, d), NEW n \in Nodes, Link(n),
           UNCHANGED <<intrusive, tail, taken, freed, closing>>,
           \/ n # Dummy /\ UNCHANGED consumer
           \/ n = Dummy /\ consumer = "dummy" /\ consumer' = "again"
    PROVE  QueueInv'
<1> USE DEF Picked, Shape
<1>1. MPSCTypeOK'
  BY DEF MPSCTypeOK, Link
<1>2. Linked(c)'
  BY LinkLinked
<1>3. Behind(c, d)' /\ TakenFirst'
  BY Zenon DEF Behind, TakenFirst, Link
<1>4. /\ n # Dummy => prevHead'[Dummy] = prevHead[Dummy]
      /\ n = Dummy => prevHead'[Dummy] = Null
  BY DEF MPSCTypeOK, Link, Nodes
<1>5. DummyOutside(c)' /\ ConsumerInv'
  BY Zenon, <1>4 DEF DummyOutside, ConsumerInv, Link
<1>6. Gone'
  BY DEF Gone
<1> QED
  BY <1>1, <1>2, <1>3, <1>5, <1>6, PickedInv

\* The consumer enqueues the dummy, which is not in the chain.
LEMMA DummyExchange ==
    ASSUME MPSCAssumption, NEW c, NEW d, Picked(c, d), consumer = "dummy",
           prevHead[Dummy] = Null, Exchange(Dummy),
           UNCHANGED <<order, consumer, intrusive, tail, taken, freed, closing>>
    PROVE  QueueInv'
<1> USE DEF Picked, Shape
<1>1. MPSCTypeOK'
  BY DEF MPSCTypeOK, Exchange, Nodes
<1>2. intrusive /\ \A i \in 1 .. Len(c) : c[i] # Dummy
  BY Zenon DEF ConsumerInv, DummyOutside
<1>3. Linked(Append(c, Dummy))'
  BY Zenon, <1>2, ExchangeLinked DEF Nodes
<1>4. /\ d = Len(c) + 1 /\ Len(c) \in Nat /\ Len(order) = Len(taken) + Len(c)
      /\ \A i \in 1 .. Len(c) : order[Len(taken) + i] = c[i]
  BY <1>2 DEF Behind
<1> DEFINE b == Append(c, Dummy)
<1>5. /\ Len(b) = Len(c) + 1 /\ b[Len(c) + 1] = Dummy /\ b \in Seq(Nodes)
      /\ \A i \in 1 .. Len(c) : b[i] = c[i]
  BY SMTT(30) DEF Nodes
<1>6. Behind(b, d)'
  <2> HIDE DEF b
  <2>1. d <= Len(b) /\ Len(b) - 1 = Len(c) /\ d \in 1 .. Len(b) + 1 /\ b[d] = Dummy
    BY SMTT(30), <1>4, <1>5
  <2>2. /\ \A i \in 1 .. Len(b) : i < d => order[Len(taken) + i] = b[i]
        /\ \A i \in 1 .. Len(b) : ~(i > d)
    BY <1>4, <1>5
  <2> QED
    BY Zenon, <1>2, <1>4, <2>1, <2>2 DEF Behind
<1>7. prevHead'[Dummy] = head /\ head # Null
  BY DEF MPSCTypeOK, Exchange, Nodes, MPSCAssumption
<1>8. DummyOutside(b)' /\ ConsumerInv' /\ Gone' /\ TakenFirst'
  BY Zenon, <1>7 DEF DummyOutside, ConsumerInv, Gone, TakenFirst
<1> QED
  BY Zenon, <1>1, <1>3, <1>5, <1>6, <1>8, PickedInv
-------------------------------------------------------------------------------
\* The consumer goes on to the next node. What an action says of the others is left to the
\* lemmas below: here are the chain and what is known of its second node.
LEMMA GoesOn ==
    ASSUME MPSCAssumption, NEW c, NEW d, Picked(c, d), next[tail] # Null, tail' = next[tail],
           UNCHANGED linkVars
    PROVE  /\ Len(c) \in Nat /\ Len(c) >= 2 /\ c[1] = tail /\ tail' = c[2]
           /\ Tail(c) \in Seq(Nodes) /\ Len(Tail(c)) = Len(c) - 1
           /\ \A i \in 1 .. Len(c) - 1 : Tail(c)[i] = c[i + 1]
           /\ Linked(Tail(c))'
           /\ order' = order /\ prevHead' = prevHead
           /\ Len(order) \in Nat /\ Len(taken) \in Nat /\ d \in 1 .. Len(c) + 1
           /\ Len(order) = Len(taken) + (IF d <= Len(c) THEN Len(c) - 1 ELSE Len(c))
           /\ \A i \in 1 .. Len(c) : i < d => order[Len(taken) + i] = c[i]
           /\ \A i \in 1 .. Len(c) : i > d => order[Len(taken) + i - 1] = c[i]
<1>1. c \in Seq(Nodes) /\ Linked(c) /\ MPSCTypeOK /\ Behind(c, d)
  BY Zenon DEF Picked, Shape
<1>2. /\ Len(c) >= 2 /\ tail' = c[2] /\ Tail(c) \in Seq(Nodes)
      /\ Len(Tail(c)) = Len(c) - 1 /\ \A i \in 1 .. Len(c) - 1 : Tail(c)[i] = c[i + 1]
      /\ Linked(Tail(c))'
  BY Zenon, <1>1, TailLinked
<1>3. c[1] = tail /\ Len(c) \in Nat /\ Len(order) \in Nat /\ Len(taken) \in Nat
  BY <1>1 DEF Linked, MPSCTypeOK
<1> QED
  BY Zenon, <1>1, <1>2, <1>3 DEF Behind, linkVars

\* One more element is taken: it is the next one of the order.
LEMMA TakesNext ==
    ASSUME MPSCTypeOK, TakenFirst, NEW e, e = order[Len(taken) + 1], Len(taken) < Len(order),
           taken' = Append(taken, e), order' = order
    PROVE  /\ TakenFirst' /\ e \in Elements /\ taken' \in Seq(Elements)
           /\ e \notin Range(taken) /\ Range(taken') = Range(taken) \cup {e}
           /\ Len(taken') = Len(taken) + 1
<1>1. /\ Len(taken) \in Nat /\ Len(order) \in Nat /\ Len(taken) + 1 \in 1 .. Len(order)
      /\ e \in Elements
  BY DEF MPSCTypeOK
<1>2. /\ taken' \in Seq(Elements) /\ Len(taken') = Len(taken) + 1 /\ taken'[Len(taken) + 1] = e
      /\ \A i \in 1 .. Len(taken) : taken'[i] = taken[i]
  BY <1>1 DEF MPSCTypeOK
<1>3. \A i \in 1 .. Len(taken) : taken[i] = order[i]
  BY DEF TakenFirst
<1>4. TakenFirst'
  BY <1>1, <1>2, <1>3 DEF TakenFirst
<1>5. ASSUME e \in Range(taken) PROVE FALSE
  <2>1. PICK j \in 1 .. Len(taken) : e = taken[j]
    BY <1>5 DEF Range, MPSCTypeOK
  <2>2. j \in 1 .. Len(order) /\ order[j] = order[Len(taken) + 1]
    BY <1>1, <1>3, <2>1
  <2>3. j = Len(taken) + 1
    BY <1>1, <2>2 DEF TakenFirst, IsInjective, MPSCTypeOK
  <2> QED
    BY <1>1, <2>1, <2>3
<1>6. Range(taken') = Range(taken) \cup {e}
  BY <1>1, RangeAppend DEF MPSCTypeOK
<1> QED
  BY <1>1, <1>2, <1>4, <1>5, <1>6

\* Dequeue of the variant with nodes.
LEMMA DequeueNodeStep ==
    ASSUME MPSCAssumption, NEW c, NEW d, Picked(c, d), DequeueNode
    PROVE  QueueInv'
<1> DEFINE b == Tail(c)
<1>1. /\ ~intrusive /\ consumer = "idle" /\ next[tail] # Null /\ tail' = next[tail]
      /\ taken' = Append(taken, next[tail]) /\ freed' = freed \cup {tail}
      /\ intrusive' = intrusive /\ consumer' = consumer /\ closing' = closing /\ UNCHANGED linkVars
  BY DEF DequeueNode
<1>2. MPSCTypeOK /\ TakenFirst /\ Gone /\ ConsumerInv /\ d = 1 /\ tail \in Range(taken) \cup {Dummy}
  BY <1>1 DEF Picked, Shape, Behind
<1>3. /\ Len(c) \in Nat /\ Len(c) >= 2 /\ c[1] = tail /\ tail' = c[2]
      /\ b \in Seq(Nodes) /\ Len(b) = Len(c) - 1
      /\ \A i \in 1 .. Len(c) - 1 : b[i] = c[i + 1]
      /\ Linked(b)'
      /\ order' = order /\ prevHead' = prevHead
      /\ Len(order) \in Nat /\ Len(taken) \in Nat
      /\ Len(order) = Len(taken) + (Len(c) - 1)
      /\ \A i \in 1 .. Len(c) : i > 1 => order[Len(taken) + i - 1] = c[i]
  BY <1>1, <1>2, GoesOn
<1> HIDE DEF b
<1>4. c[2] = order[Len(taken) + 1] /\ Len(taken) < Len(order) /\ next[tail] = c[2]
  <2>1. 2 \in 1 .. Len(c) /\ Len(taken) + 2 - 1 = Len(taken) + 1
    BY <1>3
  <2> QED
    BY <1>1, <1>3, <2>1
<1>5. /\ TakenFirst' /\ c[2] \in Elements /\ taken' \in Seq(Elements)
      /\ c[2] \notin Range(taken) /\ Range(taken') = Range(taken) \cup {c[2]}
      /\ Len(taken') = Len(taken) + 1
  BY Zenon, <1>1, <1>2, <1>3, <1>4, TakesNext
<1>6. MPSCTypeOK'
  BY ZenonT(30), <1>1, <1>2, <1>3, <1>5 DEF MPSCTypeOK, linkVars, Nodes
<1>7. Behind(b, 1)'
  <2>1. 1 \in 1 .. Len(b) + 1 /\ 1 <= Len(b) /\ Len(order) = (Len(taken) + 1) + (Len(b) - 1)
    BY <1>3
  <2>2. ASSUME NEW i \in 1 .. Len(b), i > 1 PROVE order[(Len(taken) + 1) + i - 1] = b[i]
    <3>1. /\ i + 1 \in 1 .. Len(c) /\ i + 1 > 1 /\ i \in 1 .. Len(c) - 1
          /\ Len(taken) + (i + 1) - 1 = (Len(taken) + 1) + i - 1
      BY <1>3
    <3> QED
      BY Zenon, <1>3, <3>1
  <2>3. \A i \in 1 .. Len(b) : ~(i < 1)
    OBVIOUS
  <2> QED
    BY Zenon, <1>1, <1>3, <1>5, <2>1, <2>2, <2>3 DEF Behind
<1>8. Gone'
  <2>1. c[2] # Dummy
    BY <1>5 DEF MPSCAssumption
  <2>2. freed = (Range(taken) \cup {Dummy}) \ {tail}
    BY <1>1, <1>2 DEF Gone
  <2>3. freed' = Range(taken) \cup {Dummy}
    BY Zenon, <1>1, <1>2, <2>2
  <2>4. freed' = (Range(taken') \cup {Dummy}) \ {tail'}
    BY <1>3, <1>5, <2>1, <2>3
  <2> QED
    BY <1>1, <2>4 DEF Gone
<1>9. ConsumerInv' /\ DummyOutside(b)'
  BY Zenon, <1>1, <1>2, <1>3 DEF ConsumerInv, DummyOutside
<1> QED
  BY Zenon, <1>3, <1>5, <1>6, <1>7, <1>8, <1>9, PickedInv DEF Picked, Shape

\* Dequeue of the other one passes over the dummy.
LEMMA PassDummyStep ==
    ASSUME MPSCAssumption, NEW c, NEW d, Picked(c, d), PassDummy
    PROVE  QueueInv'
<1> DEFINE b == Tail(c)
<1>1. /\ intrusive /\ consumer = "idle" /\ next[tail] # Null /\ tail' = next[tail]
      /\ taken' = taken /\ freed' = freed /\ tail = Dummy
      /\ intrusive' = intrusive /\ consumer' = consumer /\ closing' = closing /\ UNCHANGED linkVars
  BY DEF PassDummy
<1>2. MPSCTypeOK /\ TakenFirst /\ Gone /\ ConsumerInv /\ Linked(c) /\ Behind(c, d) /\ d \in Nat
      /\ c \in Seq(Nodes)
  BY DEF Picked, Shape
<1>3. d = 1
  <2>1. 1 \in 1 .. Len(c) /\ c[1] = Dummy
    BY <1>1, <1>2 DEF Linked
  <2> QED
    BY <1>1, <1>2, <2>1, DummyAt
<1>4. /\ Len(c) \in Nat /\ Len(c) >= 2 /\ tail' = c[2]
      /\ b \in Seq(Nodes) /\ Len(b) = Len(c) - 1
      /\ \A i \in 1 .. Len(c) - 1 : b[i] = c[i + 1]
      /\ Linked(b)'
      /\ order' = order /\ prevHead' = prevHead
      /\ Len(order) \in Nat /\ Len(taken) \in Nat
      /\ Len(order) = Len(taken) + (Len(c) - 1)
      /\ \A i \in 1 .. Len(c) : i > 1 => order[Len(taken) + i - 1] = c[i]
  BY <1>1, <1>3, GoesOn
<1> HIDE DEF b
<1>5. MPSCTypeOK' /\ TakenFirst'
  BY SMTT(30), <1>1, <1>2, <1>4 DEF MPSCTypeOK, linkVars, Nodes, TakenFirst
<1>6. Behind(b, Len(c))'
  <2>1. Len(c) \in 1 .. Len(b) + 1 /\ ~(Len(c) <= Len(b)) /\ Len(order) = Len(taken) + Len(b)
    BY <1>4
  <2>2. ASSUME NEW i \in 1 .. Len(b) PROVE order[Len(taken) + i] = b[i]
    <3>1. /\ i + 1 \in 1 .. Len(c) /\ i + 1 > 1 /\ i \in 1 .. Len(c) - 1
          /\ Len(taken) + (i + 1) - 1 = Len(taken) + i
      BY <1>4
    <3> QED
      BY Zenon, <1>4, <3>1
  <2>3. \A i \in 1 .. Len(b) : ~(i > Len(c))
    BY <1>4
  <2> QED
    BY Zenon, <1>1, <1>4, <2>1, <2>2, <2>3 DEF Behind
<1>7. Gone' /\ ConsumerInv' /\ DummyOutside(b)'
  BY Zenon, <1>1, <1>2, <1>4 DEF Gone, ConsumerInv, DummyOutside
<1> QED
  BY Zenon, <1>4, <1>5, <1>6, <1>7, PickedInv DEF Picked, Shape

\* It takes the element at the tail.
LEMMA TakeStep ==
    ASSUME MPSCAssumption, NEW c, NEW d, Picked(c, d), TakeElement
    PROVE  QueueInv'
<1> DEFINE b == Tail(c)
<1>1. /\ intrusive /\ consumer \in {"idle", "again"} /\ next[tail] # Null /\ tail' = next[tail]
      /\ taken' = Append(taken, tail) /\ freed' = freed \cup {tail} /\ tail # Dummy
      /\ intrusive' = intrusive /\ consumer' = "idle" /\ closing' = closing /\ UNCHANGED linkVars
  BY DEF TakeElement
<1>2. MPSCTypeOK /\ TakenFirst /\ Gone /\ ConsumerInv /\ Linked(c) /\ Behind(c, d) /\ d \in Nat
      /\ c \in Seq(Nodes) /\ (d <= Len(c) => c[d] = Dummy)
  BY Zenon, <1>1 DEF Picked, Shape, Behind
<1>3. /\ Len(c) \in Nat /\ Len(c) >= 2 /\ c[1] = tail /\ tail' = c[2]
      /\ b \in Seq(Nodes) /\ Len(b) = Len(c) - 1
      /\ \A i \in 1 .. Len(c) - 1 : b[i] = c[i + 1]
      /\ Linked(b)'
      /\ order' = order /\ prevHead' = prevHead
      /\ Len(order) \in Nat /\ Len(taken) \in Nat /\ d \in 1 .. Len(c) + 1
      /\ Len(order) = Len(taken) + (IF d <= Len(c) THEN Len(c) - 1 ELSE Len(c))
      /\ \A i \in 1 .. Len(c) : i < d => order[Len(taken) + i] = c[i]
      /\ \A i \in 1 .. Len(c) : i > d => order[Len(taken) + i - 1] = c[i]
  BY <1>1, GoesOn
<1> HIDE DEF b
<1>4. d >= 2
  BY SMTT(30), <1>1, <1>2, <1>3
<1>5. tail = order[Len(taken) + 1] /\ Len(taken) < Len(order)
  <2>1. 1 \in 1 .. Len(c) /\ 1 < d
    BY <1>3, <1>4
  <2> QED
    BY SMTT(30), <1>3, <2>1
<1>6. /\ TakenFirst' /\ tail \in Elements /\ taken' \in Seq(Elements)
      /\ tail \notin Range(taken) /\ Range(taken') = Range(taken) \cup {tail}
      /\ Len(taken') = Len(taken) + 1
  BY Zenon, <1>1, <1>2, <1>3, <1>5, TakesNext
<1>7. MPSCTypeOK'
  BY SMTT(30), <1>1, <1>2, <1>3, <1>6 DEF MPSCTypeOK, linkVars, Nodes
<1>8. Behind(b, d - 1)'
  <2>0. /\ Len(c) \in Nat /\ Len(b) = Len(c) - 1 /\ Len(order) \in Nat /\ Len(taken) \in Nat
        /\ d \in 1 .. Len(c) + 1
        /\ Len(order) = Len(taken) + (IF d <= Len(c) THEN Len(c) - 1 ELSE Len(c))
    BY Zenon, <1>3
  <2>1. /\ d - 1 \in 1 .. Len(b) + 1
        /\ Len(order) = (Len(taken) + 1) + (IF d - 1 <= Len(b) THEN Len(b) - 1 ELSE Len(b))
    <3>1. CASE d <= Len(c)
      BY <1>4, <2>0, <3>1
    <3>2. CASE ~(d <= Len(c))
      BY <1>4, <2>0, <3>2
    <3> QED
      BY Zenon, <3>1, <3>2
  <2>2. ASSUME NEW i \in 1 .. Len(b), i < d - 1 PROVE order[(Len(taken) + 1) + i] = b[i]
    <3>1. /\ i + 1 \in 1 .. Len(c) /\ i + 1 < d /\ i \in 1 .. Len(c) - 1
          /\ Len(taken) + (i + 1) = (Len(taken) + 1) + i
      BY <2>0, <2>2
    <3> QED
      BY ZenonT(30), <1>3, <3>1
  <2>3. ASSUME NEW i \in 1 .. Len(b), i > d - 1 PROVE order[(Len(taken) + 1) + i - 1] = b[i]
    <3>1. /\ i + 1 \in 1 .. Len(c) /\ i + 1 > d /\ i \in 1 .. Len(c) - 1
          /\ Len(taken) + (i + 1) - 1 = (Len(taken) + 1) + i - 1
      BY <2>0, <2>3
    <3> QED
      BY Zenon, <1>3, <3>1
  <2>4. d - 1 <= Len(b) => b[d - 1] = Dummy
    <3>1. ASSUME d - 1 <= Len(b) PROVE d - 1 \in 1 .. Len(c) - 1 /\ (d - 1) + 1 = d /\ d <= Len(c)
      BY <1>4, <2>0, <3>1
    <3> QED
      BY Zenon, <1>2, <1>3, <3>1
  <2> QED
    BY ZenonT(30), <1>1, <1>3, <1>6, <2>1, <2>2, <2>3, <2>4 DEF Behind
<1>9. Gone' /\ ConsumerInv' /\ DummyOutside(b)'
  BY Zenon, <1>1, <1>2, <1>3, <1>6 DEF Gone, ConsumerInv, DummyOutside
<1>10. d - 1 \in Nat
  BY <1>3, <1>4
<1> QED
  BY Zenon, <1>3, <1>6, <1>7, <1>8, <1>9, <1>10, PickedInv DEF Picked, Shape
-------------------------------------------------------------------------------
\* The steps of the consumer that leave the nodes alone: it looks at the tail, at the head,
\* and at the tail again.
LEMMA LookStep ==
    ASSUME MPSCAssumption, NEW c, NEW d, Picked(c, d), SeeLast \/ CompareHead \/ NotYet
    PROVE  QueueInv'
<1>1. /\ UNCHANGED <<intrusive, linkVars, tail, taken, freed, closing>>
      /\ consumer # "gone" /\ consumer' \in {"idle", "last", "dummy"}
      /\ consumer' = "last" => intrusive /\ tail # Dummy
      /\ consumer' = "dummy" => consumer = "last" /\ tail = head
      /\ consumer # "dummy"
  BY DEF SeeLast, CompareHead, NotYet
<1>2. MPSCTypeOK /\ TakenFirst /\ Gone /\ ConsumerInv /\ Linked(c) /\ Behind(c, d) /\ d \in Nat
      /\ c \in Seq(Nodes)
  BY DEF Picked, Shape
<1>3. /\ intrusive' = intrusive /\ head' = head /\ next' = next /\ prevHead' = prevHead
      /\ order' = order /\ tail' = tail /\ taken' = taken /\ freed' = freed /\ closing' = closing
  BY <1>1 DEF linkVars
<1>4. MPSCTypeOK'
  BY <1>1, <1>2, <1>3 DEF MPSCTypeOK
<1>5. Linked(c)' /\ Behind(c, d)' /\ TakenFirst'
  BY Zenon, <1>2, <1>3 DEF Linked, Behind, TakenFirst
<1>6. Gone' /\ ConsumerInv'
  BY SMTT(30), <1>1, <1>2, <1>3 DEF Gone, ConsumerInv
<1>7. DummyOutside(c)'
  <2>1. SUFFICES ASSUME consumer' = "dummy", NEW i \in 1 .. Len(c) PROVE c[i] # Dummy
    BY Zenon DEF DummyOutside
  <2>2. tail = head /\ tail # Dummy
    BY Zenon, <1>1, <1>2, <2>1 DEF ConsumerInv
  <2>3. Len(c) = 1 /\ c[1] = tail
    <3>1. c[1] = tail /\ c[Len(c)] = tail /\ 1 \in 1 .. Len(c) /\ Len(c) \in 1 .. Len(c)
      BY SMTT(30), <1>2, <2>2 DEF Linked
    <3>2. \A k, l \in 1 .. Len(c) : c[k] = c[l] => k = l
      BY <1>2 DEF Linked, IsInjective
    <3>3. Len(c) = 1
      BY <3>1, <3>2
    <3> QED
      BY <3>1, <3>3
  <2> QED
    BY <2>2, <2>3
<1> QED
  BY <1>2, <1>4, <1>5, <1>6, <1>7, PickedInv DEF Picked, Shape

\* With no link missing and no node behind the tail, the chain is that one node, and all
\* that was exchanged in has been taken.
LEMMA DestroyStep ==
    ASSUME MPSCAssumption, NEW c, NEW d, Picked(c, d), Destroy
    PROVE  QueueInv'
<1>1. /\ consumer = "idle" /\ \A e \in Elements : prevHead[e] = Null
      /\ intrusive' = intrusive /\ head' = head /\ next' = next /\ prevHead' = prevHead
      /\ order' = order /\ tail' = tail /\ taken' = taken
  BY Zenon DEF Destroy, linkVars
<1>2. MPSCTypeOK /\ TakenFirst /\ Gone /\ ConsumerInv /\ Linked(c) /\ Behind(c, d) /\ d \in Nat
      /\ c \in Seq(Nodes)
  BY DEF Picked, Shape
<1>3. Linked(c)' /\ Behind(c, d)' /\ TakenFirst'
  BY Zenon, <1>1, <1>2 DEF Linked, Behind, TakenFirst
<1>4. CASE closing' = TRUE /\ UNCHANGED <<freed, consumer>>
  <2>1. MPSCTypeOK' /\ Gone' /\ ConsumerInv' /\ DummyOutside(c)'
    BY Zenon, <1>1, <1>2, <1>4 DEF MPSCTypeOK, Gone, ConsumerInv, DummyOutside
  <2> QED
    BY <1>2, <1>3, <2>1, PickedInv DEF Picked, Shape
<1>5. CASE /\ closing /\ next[tail] = Null /\ (intrusive => tail = Dummy) /\ consumer' = "gone"
           /\ freed' = IF intrusive THEN freed ELSE freed \cup {head}
           /\ closing' = closing
  <2>1. \A n \in Nodes : prevHead[n] = Null
    BY <1>1, <1>2 DEF ConsumerInv, Nodes
  <2>2. Len(c) = 1 /\ c[1] = tail /\ head = tail
    <3>1. c[1] = tail /\ c[Len(c)] = head /\ Len(c) \in Nat /\ Len(c) # 0
      BY <1>2 DEF Linked
    <3>2. ASSUME Len(c) >= 2 PROVE FALSE
      <4>1. 1 \in 1 .. Len(c) - 1 /\ 1 + 1 = 2 /\ c[2] \in Nodes /\ c[1] \in Nodes
        BY <1>2, <3>1, <3>2
      <4>2. \/ next[c[1]] = c[2]
            \/ prevHead[c[2]] = c[1]
        BY <1>2, <4>1 DEF Linked
      <4> QED
        BY <1>5, <2>1, <3>1, <4>1, <4>2 DEF MPSCAssumption, Nodes
    <3> QED
      BY <3>1, <3>2
  <2>3. d = 1
    <3>1. CASE intrusive
      BY SMTT(30), <1>2, <1>5, <2>2, <3>1, DummyAt
    <3>2. CASE ~intrusive
      BY <1>2, <3>2 DEF Behind
    <3> QED
      BY <3>1, <3>2
  <2>4. order = taken
    <3>1. Len(order) = Len(taken) /\ order \in Seq(Elements) /\ taken \in Seq(Elements)
      BY <1>2, <2>2, <2>3 DEF Behind, MPSCTypeOK
    <3> QED
      BY <1>2, <3>1 DEF TakenFirst
  <2>5. Gone'
    <3>1. CASE intrusive
      BY Zenon, <1>1, <1>2, <1>5, <3>1 DEF Gone
    <3>2. CASE ~intrusive
      <4>1. tail \in Range(taken) \cup {Dummy} /\ freed = (Range(taken) \cup {Dummy}) \ {tail}
        BY Zenon, <1>1, <1>2, <3>2 DEF Gone, Behind
      <4> QED
        BY Zenon, <1>1, <1>5, <2>2, <3>2, <4>1 DEF Gone
    <3> QED
      BY <3>1, <3>2
  <2>6. MPSCTypeOK' /\ ConsumerInv' /\ DummyOutside(c)'
    BY Zenon, <1>1, <1>2, <1>5, <2>1, <2>4 DEF MPSCTypeOK, ConsumerInv, DummyOutside, Nodes
  <2> QED
    BY <1>2, <1>3, <2>5, <2>6, PickedInv DEF Picked, Shape
<1> QED
  BY Zenon, <1>4, <1>5 DEF Destroy

-------------------------------------------------------------------------------
\* The nodes form such a chain from the tail to the head in every state, in both variants.
THEOREM QueueInvHolds == MPSCSpec => []QueueInv
<1> USE MPSCAssumption
<1>1. MPSCInit => QueueInv
  <2>1. SUFFICES ASSUME MPSCInit PROVE QueueInv
    OBVIOUS
  <2>2. MPSCTypeOK
    <3>1. /\ next \in [Nodes -> Nodes \cup {Null}] /\ prevHead \in [Nodes -> Nodes \cup {Null}]
          /\ head \in Nodes /\ tail \in Nodes
      BY <2>1 DEF MPSCInit, Nodes
    <3>2. order \in Seq(Elements) /\ taken \in Seq(Elements)
      BY <2>1 DEF MPSCInit
    <3> QED
      BY Zenon, <2>1, <3>1, <3>2 DEF MPSCInit, MPSCTypeOK
  <2>3. TakenFirst /\ Gone /\ ConsumerInv
    BY <2>1 DEF MPSCInit, TakenFirst, Gone, ConsumerInv, IsInjective, Range, Nodes
  <2> DEFINE c == <<Dummy>>
  <2>4. c \in Seq(Nodes) /\ Len(c) = 1 /\ c[1] = Dummy /\ c # <<>>
    BY DEF Nodes
  <2> HIDE DEF c
  <2>5. Linked(c)
    <3>1. /\ c[1] = tail /\ c[Len(c)] = head /\ next[head] = Null
          /\ \A n \in Nodes : prevHead[n] = Null
      BY <2>1, <2>4 DEF MPSCInit, Nodes
    <3>2. IsInjective(c)
      BY <2>4 DEF IsInjective
    <3> QED
      BY SMTT(30), <2>4, <3>1, <3>2 DEF Linked
  <2>6. Behind(c, 1) /\ DummyOutside(c)
    BY <2>1, <2>4 DEF MPSCInit, Behind, DummyOutside
  <2> QED
    BY <2>2, <2>3, <2>4, <2>5, <2>6 DEF QueueInv, Shape
<1>2. QueueInv /\ [MPSCNext]_mpscVars => QueueInv'
  <2>1. SUFFICES ASSUME QueueInv, [MPSCNext]_mpscVars PROVE QueueInv'
    OBVIOUS
  <2>2. PICK c \in Seq(Nodes), d \in Nat : Shape(c, d)
    BY <2>1 DEF QueueInv
  <2>3. Picked(c, d)
    BY <2>1, <2>2 DEF QueueInv, Picked
  <2>4. CASE \E e \in Elements : Enqueue(e)
    <3>1. PICK e \in Elements : Enqueue(e)
      BY <2>4
    <3>2. e \in Nodes /\ e # Dummy
      BY DEF Nodes, MPSCAssumption
    <3> QED
      BY <2>3, <3>1, <3>2, EnqueueExchange, LinkStep DEF Enqueue
  <2>5. CASE DequeueNode
    BY <2>3, <2>5, DequeueNodeStep
  <2>6. CASE PassDummy
    BY <2>3, <2>6, PassDummyStep
  <2>7. CASE TakeElement
    BY <2>3, <2>7, TakeStep
  <2>8. CASE SeeLast \/ CompareHead \/ NotYet
    BY <2>3, <2>8, LookStep
  <2>9. CASE EnqueueDummy
    <3>1. Dummy \in Nodes
      BY DEF Nodes
    <3> QED
      BY Zenon, <2>3, <2>9, <3>1, DummyExchange, LinkStep DEF EnqueueDummy
  <2>10. CASE Destroy
    BY <2>3, <2>10, DestroyStep
  <2>11. CASE UNCHANGED mpscVars
    <3>1. /\ intrusive' = intrusive /\ head' = head /\ next' = next /\ prevHead' = prevHead
          /\ order' = order /\ tail' = tail /\ taken' = taken /\ freed' = freed
          /\ closing' = closing /\ consumer' = consumer
      BY <2>11 DEF mpscVars, linkVars
    <3>2. Linked(c)' /\ Behind(c, d)' /\ DummyOutside(c)'
      BY Zenon, <2>2, <3>1 DEF Shape, Linked, Behind, DummyOutside
    <3>3. MPSCTypeOK' /\ TakenFirst' /\ Gone' /\ ConsumerInv'
      BY Zenon, <2>1, <3>1 DEF QueueInv, MPSCTypeOK, TakenFirst, Gone, ConsumerInv
    <3> QED
      BY <2>2, <3>2, <3>3 DEF QueueInv, Shape
  <2> QED
    BY <2>1, <2>4, <2>5, <2>6, <2>7, <2>8, <2>9, <2>10, <2>11 DEF MPSCNext, Consumer
<1> QED
  BY <1>1, <1>2, PTL DEF MPSCSpec

\* Elements come out of Dequeue in the order of their exchange, none twice and none passed
\* over, for any number of producers and in both variants.
THEOREM QueueInOrder == MPSCSpec => []InOrderOfExchange
<1>1. QueueInv => InOrderOfExchange
  <2>1. SUFFICES ASSUME MPSCTypeOK, TakenFirst
                 PROVE  Len(taken) <= Len(order) /\ taken = SubSeq(order, 1, Len(taken))
    BY DEF QueueInv, InOrderOfExchange
  <2>2. taken = SubSeq(order, 1, Len(taken))
    BY <2>1 DEF MPSCTypeOK, TakenFirst
  <2> QED
    BY Zenon, <2>1, <2>2 DEF TakenFirst
<1> QED
  BY <1>1, QueueInvHolds, PTL

\* No producer is about to write to a node that was deleted or handed over, the tail is not
\* one of them, and after the destructor every node is, once.
THEOREM QueueFreedInTime == MPSCSpec => []FreedInTime
<1> USE MPSCAssumption
<1>1. QueueInv => FreedInTime
  <2>1. SUFFICES ASSUME QueueInv PROVE FreedInTime
    OBVIOUS
  <2>2. PICK c \in Seq(Nodes), d \in Nat : Linked(c) /\ Behind(c, d)
    BY <2>1 DEF QueueInv, Shape
  <2>3. MPSCTypeOK /\ TakenFirst /\ Gone /\ ConsumerInv
    BY <2>1 DEF QueueInv
  <2>4. \A i \in 1 .. Len(c) : i # d => c[i] \in Elements \ Range(taken)
    BY <2>2, <2>3, ChainNodes
  <2>5. Len(c) \in Nat /\ Len(c) # 0 /\ c[1] = tail
    BY <2>2 DEF Linked
  <2>6. Range(taken) \subseteq Elements
    BY <2>3 DEF MPSCTypeOK, Range
  <2>7. ASSUME NEW i \in 1 .. Len(c), i < Len(c) \/ consumer # "gone" PROVE c[i] \notin freed
    <3>1. CASE intrusive
      <4>1. freed = Range(taken)
        BY <2>3, <3>1 DEF Gone
      <4>2. i = d => c[i] = Dummy
        BY <2>2, <3>1 DEF Behind
      <4> QED
        BY <2>4, <2>6, <4>1, <4>2 DEF MPSCAssumption
    <3>2. CASE ~intrusive
      <4>1. d = 1 /\ Len(order) = Len(taken) + (IF d <= Len(c) THEN Len(c) - 1 ELSE Len(c))
        BY <2>2, <3>2 DEF Behind
      <4>2. consumer # "gone"
        <5>1. SUFFICES ASSUME consumer = "gone" PROVE FALSE
          OBVIOUS
        <5>2. order = taken /\ Len(taken) \in Nat
          BY <2>3, <5>1 DEF ConsumerInv, MPSCTypeOK
        <5> QED
          BY <2>5, <2>7, <4>1, <5>1, <5>2
      <4>3. freed = (Range(taken) \cup {Dummy}) \ {tail}
        BY <2>3, <3>2, <4>2 DEF Gone
      <4> QED
        BY <2>4, <2>5, <4>1, <4>3 DEF MPSCAssumption
    <3> QED
      BY <3>1, <3>2
  <2>8. ASSUME NEW n \in Nodes PROVE prevHead[n] \notin freed
    <3>1. CASE prevHead[n] = Null
      BY <2>3, <3>1 DEF MPSCTypeOK, Nodes, MPSCAssumption
    <3>2. CASE prevHead[n] # Null
      <4>1. PICK k \in 2 .. Len(c) : c[k] = n
        BY <2>2, <3>2 DEF Linked
      <4>2. k - 1 \in 1 .. Len(c) - 1 /\ k - 1 \in 1 .. Len(c) /\ k - 1 < Len(c) /\ (k - 1) + 1 = k
        BY <2>5, <4>1
      <4>3. prevHead[n] = c[k - 1]
        BY SMTT(30), <2>2, <3>2, <4>1, <4>2 DEF Linked
      <4> QED
        BY <2>7, <4>2, <4>3
    <3> QED
      BY <3>1, <3>2
  <2>9. tail \notin freed \/ consumer = "gone"
    BY <2>5, <2>7
  <2>10. consumer = "gone" => Nodes \cap (Range(order) \cup (IF intrusive THEN {} ELSE {Dummy}))
                                = freed
    BY Zenon, <2>3, <2>6 DEF ConsumerInv, Gone, Nodes
  <2> QED
    BY <2>8, <2>9, <2>10 DEF FreedInTime
<1> QED
  BY <1>1, QueueInvHolds, PTL

-------------------------------------------------------------------------------
\* Popping the front of a queue shifts every other element one place forward.
LEMMA PopShifts ==
  ASSUME NEW S, NEW s \in Seq(S), s # <<>>
  PROVE  /\ Head(s) = s[1] /\ s[1] \in S /\ 1 \in DOMAIN s
         /\ Tail(s) \in Seq(S)
         /\ \A i \in DOMAIN Tail(s) : /\ i \in Nat \ {0}
                                    /\ i + 1 \in DOMAIN s
                                    /\ Tail(s)[i] = s[i + 1]
<1>1. Len(s) \in Nat \ {0} /\ DOMAIN s = 1 .. Len(s)
  OBVIOUS
<1>2. /\ Tail(s) \in Seq(S)
      /\ Len(Tail(s)) = Len(s) - 1
      /\ \A i \in 1 .. Len(Tail(s)) : Tail(s)[i] = s[i + 1]
  OBVIOUS
<1>3. DOMAIN Tail(s) = 1 .. Len(Tail(s))
  BY <1>2
<1>4. Head(s) = s[1] /\ s[1] \in S
  BY <1>1
<1> QED
  BY <1>1, <1>2, <1>3, <1>4

\* In a queue without duplicates, popping removes exactly the front.
LEMMA PopRemoves ==
  ASSUME NEW S, NEW s \in Seq(S), s # <<>>,
         \A i, j \in DOMAIN s : s[i] = s[j] => i = j,
         NEW x
  PROVE  (\E i \in DOMAIN Tail(s) : Tail(s)[i] = x) <=> (x # Head(s) /\ \E i \in DOMAIN s : s[i] = x)
<1>1. ASSUME NEW i \in DOMAIN Tail(s), Tail(s)[i] = x
      PROVE  x # Head(s) /\ \E j \in DOMAIN s : s[j] = x
  <2>1. i \in Nat \ {0} /\ i + 1 \in DOMAIN s /\ s[i + 1] = x /\ Head(s) = s[1] /\ 1 \in DOMAIN s
    BY <1>1, PopShifts
  <2>2. i + 1 # 1
    BY <2>1
  <2> QED
    BY <2>1, <2>2
<1>2. ASSUME NEW i \in DOMAIN s, s[i] = x, x # Head(s)
      PROVE  \E j \in DOMAIN Tail(s) : Tail(s)[j] = x
  <2>1. i \in 1 .. Len(s) /\ Len(s) \in Nat /\ i # 1
    BY <1>2, PopShifts
  <2>2. /\ Len(Tail(s)) = Len(s) - 1
        /\ \A j \in 1 .. Len(Tail(s)) : Tail(s)[j] = s[j + 1]
        /\ DOMAIN Tail(s) = 1 .. Len(Tail(s))
    OBVIOUS
  <2>3. i - 1 \in DOMAIN Tail(s) /\ Tail(s)[i - 1] = s[i]
    BY <2>1, <2>2
  <2> QED
    BY <1>2, <2>3
<1> QED
  BY <1>1, <1>2

\* The type of every variable is preserved by every step.
LEMMA TypeStep == TypeOK /\ [Next]_vars => TypeOK'
<1> SUFFICES ASSUME TypeOK, [Next]_vars PROVE TypeOK'
  OBVIOUS
<1> USE NoneAssumption DEF TypeOK, Locations, queueVars, workerVars
<1>1. CASE Cancel
  BY <1>1 DEF Cancel
<1>2. ASSUME NEW o \in Ops, Push(o) PROVE TypeOK'
  BY <1>2 DEF Push, NotifyOne
<1>3. ASSUME NEW w \in Workers, Start(w) PROVE TypeOK'
  BY <1>3 DEF Start
<1>4. ASSUME NEW w \in Workers, Test(w) PROVE TypeOK'
  BY <1>4 DEF Test
<1>5. ASSUME NEW w \in Workers, Block(w) PROVE TypeOK'
  BY <1>5 DEF Block
<1>6. ASSUME NEW w \in Workers, Take(w) PROVE TypeOK'
  <2>1. CASE queue = <<>> \/ shutdown \/ cancel[w]
    BY <1>6, <2>1 DEF Take
  <2>2. CASE ~(queue = <<>> \/ shutdown \/ cancel[w])
    <3>1. Head(queue) \in Ops /\ Tail(queue) \in Seq(Ops)
      BY <2>2
    <3> QED
      BY ZenonT(30), <1>6, <2>2, <3>1 DEF Take
  <2> QED
    BY <2>1, <2>2
<1>7. ASSUME NEW w \in Workers, Exit(w) \/ Retry(w) \/ Begin(w) PROVE TypeOK'
  BY Zenon, <1>7 DEF Exit, Retry, Begin
<1>8. ASSUME NEW w \in Workers, Finish(w) PROVE TypeOK'
  BY Zenon, <1>8 DEF Finish
<1>9. ASSUME NEW w \in Workers, SpuriousWakeup(w) \/ SetCancel(w) \/ NotifyAll(w) \/ Join(w)
      PROVE TypeOK'
  BY Zenon, <1>9 DEF SpuriousWakeup, SetCancel, NotifyAll, Join
<1>10. CASE UNCHANGED vars
  BY <1>10 DEF vars
<1> QED
  BY Zenon, <1>1, <1>2, <1>3, <1>4, <1>5, <1>6, <1>7, <1>8, <1>9, <1>10 DEF Next, ThreadStep

\* The facts about the mutex, the waiters and the destructors are preserved by every step.
LEMMA ThreadStepInv == TypeOK /\ ThreadInv /\ [Next]_vars => ThreadInv'
<1> SUFFICES ASSUME TypeOK, ThreadInv, [Next]_vars PROVE ThreadInv'
  OBVIOUS
<1> USE NoneAssumption DEF TypeOK, Locations, queueVars, workerVars, ThreadInv,
        LockDiscipline, BlockedInWait, CancelIsDestruction, NotifiedNeverSleeps,
        SleepOnlyWhenIdle, OperationScope
<1>1. CASE Cancel
  BY <1>1 DEF Cancel
<1>2. ASSUME NEW o \in Ops, Push(o) PROVE ThreadInv'
  BY <1>2 DEF Push, NotifyOne
<1>3. ASSUME NEW w \in Workers, Start(w) PROVE ThreadInv'
  BY <1>3 DEF Start
<1>4. ASSUME NEW w \in Workers, Test(w) PROVE ThreadInv'
  BY <1>4 DEF Test
<1>5. ASSUME NEW w \in Workers, Block(w) PROVE ThreadInv'
  BY <1>5 DEF Block
<1>6. ASSUME NEW w \in Workers, Take(w) PROVE ThreadInv'
  BY <1>6 DEF Take
<1>7. ASSUME NEW w \in Workers, Exit(w) PROVE ThreadInv'
  BY <1>7 DEF Exit
<1>8. ASSUME NEW w \in Workers, Retry(w) PROVE ThreadInv'
  BY <1>8 DEF Retry
<1>9. ASSUME NEW w \in Workers, Begin(w) PROVE ThreadInv'
  BY <1>9 DEF Begin
<1>10. ASSUME NEW w \in Workers, Finish(w) PROVE ThreadInv'
  BY <1>10 DEF Finish
<1>11. ASSUME NEW w \in Workers, SpuriousWakeup(w) PROVE ThreadInv'
  BY Zenon, <1>11 DEF SpuriousWakeup
<1>12. ASSUME NEW w \in Workers, SetCancel(w) PROVE ThreadInv'
  BY <1>12 DEF SetCancel
<1>13. ASSUME NEW w \in Workers, NotifyAll(w) PROVE ThreadInv'
  BY <1>13 DEF NotifyAll
<1>14. ASSUME NEW w \in Workers, Join(w) PROVE ThreadInv'
  BY <1>14 DEF Join
<1>15. CASE UNCHANGED vars
  BY Zenon, <1>15 DEF vars
<1> QED
  BY Zenon, <1>1, <1>2, <1>3, <1>4, <1>5, <1>6, <1>7, <1>8, <1>9, <1>10,
     <1>11, <1>12, <1>13, <1>14, <1>15 DEF Next, ThreadStep

\* No step loses a wake-up.
LEMMA WakeupStep == TypeOK /\ ThreadInv /\ NoLostWakeup /\ [Next]_vars => NoLostWakeup'
<1> SUFFICES ASSUME TypeOK, ThreadInv, NoLostWakeup, [Next]_vars PROVE NoLostWakeup'
  OBVIOUS
<1> USE NoneAssumption DEF TypeOK, Locations, queueVars, workerVars, ThreadInv,
        LockDiscipline, BlockedInWait, CancelIsDestruction, NotifiedNeverSleeps,
        SleepOnlyWhenIdle, NoLostWakeup, Attentive
<1>1. CASE Cancel
  BY Zenon, <1>1 DEF Cancel
<1>2. ASSUME NEW o \in Ops, Push(o) PROVE NoLostWakeup'
  BY Zenon, <1>2 DEF Push, NotifyOne
<1>3. ASSUME NEW w \in Workers, Start(w) PROVE NoLostWakeup'
  BY <1>3 DEF Start
<1>4. ASSUME NEW w \in Workers, Test(w) PROVE NoLostWakeup'
  BY <1>4 DEF Test
<1>5. ASSUME NEW w \in Workers, Block(w) PROVE NoLostWakeup'
  BY Zenon, <1>5 DEF Block
<1>6. ASSUME NEW w \in Workers, Take(w) PROVE NoLostWakeup'
  BY <1>6 DEF Take
<1>7. ASSUME NEW w \in Workers, Exit(w) PROVE NoLostWakeup'
  BY <1>7 DEF Exit
<1>8. ASSUME NEW w \in Workers, Retry(w) PROVE NoLostWakeup'
  BY <1>8 DEF Retry
<1>9. ASSUME NEW w \in Workers, Begin(w) PROVE NoLostWakeup'
  BY <1>9 DEF Begin
<1>10. ASSUME NEW w \in Workers, Finish(w) PROVE NoLostWakeup'
  BY <1>10 DEF Finish
<1>11. ASSUME NEW w \in Workers, SpuriousWakeup(w) PROVE NoLostWakeup'
  BY Zenon, <1>11 DEF SpuriousWakeup
<1>12. ASSUME NEW w \in Workers, SetCancel(w) PROVE NoLostWakeup'
  BY <1>12 DEF SetCancel
<1>13. ASSUME NEW w \in Workers, NotifyAll(w) PROVE NoLostWakeup'
  BY Zenon, <1>13 DEF NotifyAll
<1>14. ASSUME NEW w \in Workers, Join(w) PROVE NoLostWakeup'
  BY <1>14 DEF Join
<1>15. CASE UNCHANGED vars
  BY Zenon, <1>15 DEF vars
<1> QED
  BY Zenon, <1>1, <1>2, <1>3, <1>4, <1>5, <1>6, <1>7, <1>8, <1>9, <1>10,
     <1>11, <1>12, <1>13, <1>14, <1>15 DEF Next, ThreadStep

\* Every operation keeps a single owner.
LEMMA OwnershipStep == TypeOK /\ ThreadInv /\ Ownership /\ [Next]_vars => Ownership'
<1> SUFFICES ASSUME TypeOK, ThreadInv, Ownership, [Next]_vars PROVE Ownership'
  OBVIOUS
<1> USE NoneAssumption DEF TypeOK, Locations, queueVars, workerVars, ThreadInv, OperationScope, Ownership, Queued, Held
<1>1. CASE Cancel
  BY <1>1 DEF Cancel
<1>2. ASSUME NEW o \in Ops, Push(o) PROVE Ownership'
  BY SMTT(30), <1>2 DEF Push, NotifyOne
<1>3. ASSUME NEW w \in Workers, Start(w) PROVE Ownership'
  BY Zenon, <1>3 DEF Start
<1>4. ASSUME NEW w \in Workers, Test(w) PROVE Ownership'
  BY Zenon, <1>4 DEF Test
<1>5. ASSUME NEW w \in Workers, Block(w) PROVE Ownership'
  BY Zenon, <1>5 DEF Block
<1>6. ASSUME NEW w \in Workers, Take(w) PROVE Ownership'
  <2>1. CASE queue = <<>> \/ shutdown \/ cancel[w]
    BY <1>6, <2>1 DEF Take
  <2>2. CASE ~(queue = <<>> \/ shutdown \/ cancel[w])
    <3> DEFINE o == queue[1]
    <3>1. /\ o \in Ops /\ 1 \in DOMAIN queue
          /\ \A i \in DOMAIN queue' : /\ i \in Nat \ {0}
                                     /\ i + 1 \in DOMAIN queue
                                     /\ queue'[i] = queue[i + 1]
      BY SMTT(30), <1>6, <2>2, PopShifts DEF Take
    <3>2. operation' = [operation EXCEPT ![w] = o] /\ heap' = heap
      BY Zenon, <1>6, <2>2, PopShifts DEF Take
    <3>3. \A i, j \in DOMAIN queue' : queue'[i] = queue'[j] => i = j
      BY <3>1
    <3>4. \A i \in DOMAIN queue' : queue'[i] # o
      BY <3>1
    <3>5. \A v \in Workers : operation[v] # o
      BY Zenon, <3>1
    <3>6. \A v, u \in Workers : operation'[v] # None /\ operation'[v] = operation'[u] => v = u
      BY <3>2, <3>5
    <3>7. \A p \in Ops : Queued(p)' => p # o /\ Queued(p)
      BY <3>1, <3>4
    <3>8. \A p \in Ops : Held(p)' => p = o \/ Held(p)
      BY Zenon, <3>2
    <3> QED
      BY ZenonT(30), <3>1, <3>2, <3>3, <3>6, <3>7, <3>8
  <2> QED
    BY Zenon, <2>1, <2>2
<1>7. ASSUME NEW w \in Workers, Exit(w) PROVE Ownership'
  BY <1>7 DEF Exit
<1>8. ASSUME NEW w \in Workers, Retry(w) PROVE Ownership'
  BY Zenon, <1>8 DEF Retry
<1>9. ASSUME NEW w \in Workers, Begin(w) PROVE Ownership'
  BY Zenon, <1>9 DEF Begin
<1>10. ASSUME NEW w \in Workers, Finish(w) PROVE Ownership'
  BY <1>10 DEF Finish
<1>11. ASSUME NEW w \in Workers, SpuriousWakeup(w) PROVE Ownership'
  BY Zenon, <1>11 DEF SpuriousWakeup
<1>12. ASSUME NEW w \in Workers, SetCancel(w) PROVE Ownership'
  BY Zenon, <1>12 DEF SetCancel
<1>13. ASSUME NEW w \in Workers, NotifyAll(w) PROVE Ownership'
  BY Zenon, <1>13 DEF NotifyAll
<1>14. ASSUME NEW w \in Workers, Join(w) PROVE Ownership'
  BY Zenon, <1>14 DEF Join
<1>15. CASE UNCHANGED vars
  BY Zenon, <1>15 DEF vars
<1> HIDE DEF TypeOK, Locations, queueVars, workerVars, ThreadInv, OperationScope, Ownership, Queued, Held
<1> QED
  BY Zenon, <1>1, <1>2, <1>3, <1>4, <1>5, <1>6, <1>7, <1>8, <1>9, <1>10,
     <1>11, <1>12, <1>13, <1>14, <1>15 DEF Next, ThreadStep

\* The state the constructors leave behind satisfies the inductive invariant.
LEMMA InitInv == Init => IndInv
<1> SUFFICES ASSUME Init PROVE IndInv
  OBVIOUS
<1> USE NoneAssumption DEF Init
<1>1. TypeOK
  <2>1. queue \in Seq(Ops)
    OBVIOUS
  <2> QED
    BY Zenon, <2>1 DEF TypeOK, Locations
<1>2. ThreadInv
  BY Zenon DEF ThreadInv, LockDiscipline, BlockedInWait, CancelIsDestruction,
         NotifiedNeverSleeps, SleepOnlyWhenIdle, OperationScope
<1>3. Ownership
  <2>1. DOMAIN queue = {}
    OBVIOUS
  <2>2. \A o \in Ops : ~Queued(o) /\ ~Held(o)
    BY Zenon, <2>1 DEF Queued, Held
  <2> QED
    BY Zenon, <2>1, <2>2 DEF Ownership
<1>4. NoLostWakeup
  BY DEF NoLostWakeup
<1> QED
  BY <1>1, <1>2, <1>3, <1>4 DEF IndInv

\* Every step of the queue, a worker or a destructor preserves the inductive
\* invariant: the four lemmas above, put together.
LEMMA IndInvStep == IndInv /\ [Next]_vars => IndInv'
  BY TypeStep, ThreadStepInv, OwnershipStep, WakeupStep DEF IndInv

\* In every reachable state of ProducerConsumerQueue and its worker threads the inductive
\* invariant holds, for any sets of operations and workers.
THEOREM Invariance == Spec => []IndInv
<1>1. Init => IndInv
  BY InitInv
<1>2. IndInv /\ [Next]_vars => IndInv'
  BY IndInvStep
<1> QED
  BY <1>1, <1>2, PTL DEF Spec

\* The queue, the condition variable, the flags of the workers and what they hold keep
\* their types, whatever the order of Push, WaitAndPop, Cancel and the destructors.
THEOREM TypeCorrect == Spec => []TypeOK
  BY Invariance, PTL DEF IndInv

\* No operation is ever executed by two workers, executed twice, or executed after it
\* was deleted: WaitAndPop hands it to one thread.
THEOREM OwnershipHolds == Spec => []Ownership
  BY Invariance, PTL DEF IndInv

\* A worker never sleeps on a non-empty queue with nobody left to look at it: one
\* notify_one per Push and the NotifyAll of the destructors are enough.
THEOREM WakeupsAreKept == Spec => []NoLostWakeup
  BY Invariance, PTL DEF IndInv

-------------------------------------------------------------------------------
\* A step that leaves the queue, the heap and the local variables alone, is invisible.
LEMMA InvisibleStep ==
  ASSUME UNCHANGED <<queue, heap, operation>>
  PROVE  UNCHANGED Promise!vars
  BY DEF Promise!vars, StatusOf, Queued, Held

\* Every step of the threads is a step of OperationQueue or leaves its variables alone.
LEMMA StepKeepsPromise ==
  ASSUME IndInv, [Next]_vars
  PROVE  [Promise!Next]_(Promise!vars)
<1> DEFINE st == [o \in Ops |-> StatusOf(o)]
<1> USE NoneAssumption DEF IndInv, TypeOK, queueVars, workerVars
<1>1. CASE Cancel
  <2>1. queue' = <<>> /\ operation' = operation
        /\ heap' = [o \in Ops |-> IF Queued(o) THEN "deleted" ELSE heap[o]]
    BY Zenon, <1>1 DEF Cancel
  <2>2. \A o \in Ops : ~Queued(o)' /\ (Held(o)' <=> Held(o))
    BY <2>1 DEF Queued, Held
  <2>3. \A o \in Ops : StatusOf(o)' = IF StatusOf(o) = "queued" THEN "deleted" ELSE StatusOf(o)
    BY Zenon, <2>1, <2>2 DEF StatusOf, Ownership
  <2>4. Promise!Discard
    BY Zenon, <2>1, <2>3 DEF Promise!Discard
  <2> QED
    BY <2>4 DEF Promise!Next
<1>2. ASSUME NEW o \in Ops, Push(o) PROVE Promise!Enqueue(o)
  <2>1. /\ queue' = Append(queue, o) /\ operation' = operation
        /\ heap[o] = "unborn" /\ heap' = [heap EXCEPT ![o] = "live"]
    BY Zenon, <1>2 DEF Push
  <2>2. \A p \in Ops : (Held(p)' <=> Held(p)) /\ (Queued(p)' <=> Queued(p) \/ p = o)
    <3>1. /\ Len(queue) \in Nat
          /\ DOMAIN queue = 1 .. Len(queue)
          /\ DOMAIN queue' = 1 .. (Len(queue) + 1)
          /\ \A i \in 1 .. Len(queue) : queue'[i] = queue[i]
          /\ queue'[Len(queue) + 1] = o
      BY <2>1
    <3> QED
      BY SMTT(30), <2>1, <3>1 DEF Queued, Held
  <2>3. StatusOf(o) = "unborn" /\ StatusOf(o)' = "queued"
    BY Zenon, <2>1, <2>2 DEF StatusOf
  <2>4. \A p \in Ops \ {o} : StatusOf(p)' = StatusOf(p)
    BY Zenon, <2>1, <2>2 DEF StatusOf
  <2> QED
    BY Zenon, <2>1, <2>3, <2>4 DEF Promise!Enqueue
<1>3. ASSUME NEW w \in Workers, Take(w) PROVE Promise!HandOver \/ UNCHANGED Promise!vars
  <2>1. CASE queue = <<>> \/ shutdown \/ cancel[w]
    <3>1. UNCHANGED <<queue, heap, operation>>
      BY Zenon, <1>3, <2>1 DEF Take
    <3> QED
      BY <3>1, InvisibleStep
  <2>2. CASE ~(queue = <<>> \/ shutdown \/ cancel[w])
    <3>1. PICK o \in Ops : o = Head(queue)
      BY <2>2, PopShifts
    <3>2. /\ queue' = Tail(queue) /\ heap' = heap
          /\ operation' = [operation EXCEPT ![w] = o] /\ operation[w] = None
      BY Zenon, <1>3, <2>2, <3>1 DEF Take, ThreadInv, OperationScope
    <3>3. \A p \in Ops : Held(p)' <=> Held(p) \/ p = o
      BY <3>2 DEF Held
    <3>4. \A p \in Ops : Queued(p)' <=> p # o /\ Queued(p)
      <4> TAKE p \in Ops
      <4>1. \A i, j \in DOMAIN queue : queue[i] = queue[j] => i = j
        BY Zenon DEF Ownership
      <4>2. (\E i \in DOMAIN Tail(queue) : Tail(queue)[i] = p)
             <=> (p # Head(queue) /\ \E i \in DOMAIN queue : queue[i] = p)
        BY Zenon, <2>2, <4>1, PopRemoves
      <4> QED
        BY Zenon, <3>1, <3>2, <4>2 DEF Queued
    <3>5. heap[o] = "live"
      BY Zenon, <2>2, <3>1, PopShifts DEF Queued, Ownership
    <3>6. StatusOf(o)' = "held"
      BY Zenon, <3>2, <3>3, <3>4, <3>5 DEF StatusOf
    <3>7. \A p \in Ops \ {o} : StatusOf(p)' = StatusOf(p)
      BY Zenon, <3>2, <3>3, <3>4 DEF StatusOf
    <3>8. Promise!HandOver
      BY Zenon, <2>2, <3>1, <3>2, <3>6, <3>7 DEF Promise!HandOver
    <3> QED
      BY <3>8
  <2> QED
    BY <2>1, <2>2
<1>4. ASSUME NEW w \in Workers, Exit(w)
      PROVE  (\E o \in Ops : Promise!Drop(o)) \/ UNCHANGED Promise!vars
  <2>1. CASE operation[w] = None
    <3>1. UNCHANGED <<queue, heap, operation>>
      BY <1>4, <2>1 DEF Exit
    <3> QED
      BY <3>1, InvisibleStep
  <2>2. CASE operation[w] # None
    <3>1. PICK o \in Ops : o = operation[w]
      BY <2>2
    <3>2. UNCHANGED <<queue, heap>> /\ operation' = [operation EXCEPT ![w] = None]
      BY Zenon, <1>4 DEF Exit
    <3>3. \A p \in Ops : (Queued(p)' <=> Queued(p)) /\ (Held(p)' <=> p # o /\ Held(p))
      BY <2>2, <3>1, <3>2 DEF Queued, Held, Ownership
    <3>4. Held(o) /\ ~Queued(o) /\ heap[o] = "live"
      BY Zenon, <3>1 DEF Held, Ownership
    <3>5. StatusOf(o) = "held" /\ StatusOf(o)' = "dropped"
      BY Zenon, <3>2, <3>3, <3>4 DEF StatusOf
    <3>6. \A p \in Ops \ {o} : StatusOf(p)' = StatusOf(p)
      BY Zenon, <3>2, <3>3 DEF StatusOf
    <3>7. Promise!Drop(o)
      BY Zenon, <3>2, <3>5, <3>6 DEF Promise!Drop
    <3> QED
      BY <3>7
  <2> QED
    BY <2>1, <2>2
<1>5. ASSUME NEW w \in Workers, Finish(w) PROVE \E o \in Ops : Promise!Complete(o)
  <2>1. PICK o \in Ops : o = operation[w]
    BY Zenon, <1>5 DEF Finish, ThreadInv, OperationScope
  <2>2. /\ queue' = queue /\ operation' = [operation EXCEPT ![w] = None]
        /\ heap' = [heap EXCEPT ![o] = "executed"]
    BY <1>5, <2>1 DEF Finish
  <2>3. \A p \in Ops : (Queued(p)' <=> Queued(p)) /\ (Held(p)' <=> p # o /\ Held(p))
    BY <2>1, <2>2 DEF Queued, Held, Ownership
  <2>4. Held(o) /\ ~Queued(o) /\ heap[o] = "live"
    BY <2>1 DEF Held, Ownership
  <2>5. StatusOf(o) = "held" /\ StatusOf(o)' = "executed"
    BY Zenon, <2>2, <2>4 DEF StatusOf
  <2>6. \A p \in Ops \ {o} : StatusOf(p)' = StatusOf(p)
    BY Zenon, <2>2, <2>3 DEF StatusOf
  <2>7. Promise!Complete(o)
    BY Zenon, <2>2, <2>5, <2>6 DEF Promise!Complete
  <2> QED
    BY <2>7
<1>6. ASSUME NEW w \in Workers,
             \/ Start(w) \/ Test(w) \/ Block(w) \/ Retry(w) \/ Begin(w)
             \/ SpuriousWakeup(w) \/ SetCancel(w) \/ NotifyAll(w) \/ Join(w)
      PROVE  UNCHANGED Promise!vars
  <2>1. UNCHANGED <<queue, heap, operation>>
    BY Zenon, <1>6 DEF Start, Test, Block, Retry, Begin, SpuriousWakeup, SetCancel, NotifyAll, Join
  <2> QED
    BY Zenon, <2>1, InvisibleStep
<1>7. CASE UNCHANGED vars
  <2>1. UNCHANGED <<queue, heap, operation>>
    BY Zenon, <1>7 DEF vars
  <2> QED
    BY <2>1, InvisibleStep
<1> QED
  BY Zenon, <1>1, <1>2, <1>3, <1>4, <1>5, <1>6, <1>7 DEF Next, ThreadStep, Promise!Next

\* ProducerConsumerQueue with its workers keeps the promise of OperationQueue: operations
\* are handed over first in, first out, each to one worker, and executed at most once.
THEOREM Refinement == Spec => KeepsPromise
<1>1. Init => Promise!Init
  BY DEF Init, Promise!Init, StatusOf
<1>2. IndInv /\ [Next]_vars => [Promise!Next]_(Promise!vars)
  BY StepKeepsPromise
<1> QED
  BY <1>1, <1>2, Invariance, PTL DEF Spec, KeepsPromise, Promise!Spec

===============================================================================
