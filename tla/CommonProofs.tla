----------------------------- MODULE CommonProofs -----------------------------
(***************************************************************************)
(* The task scheduler, the output of a child process, signals and the      *)
(* progress bar, for every value of their constants. The loops of the      *)
(* scheduler are recursive functions: such a function exists, and what     *)
(* every round preserves holds of its last value.                          *)
(***************************************************************************)
EXTENDS TaskScheduler, ChildProcess, Signals, ProgressBar, Integers,
        WellFoundedInduction, TLAPS

\* A set of natural numbers has a least one: the principle the loops are proved by.
LEMMA LeastNumber == ASSUME NEW T \in SUBSET Nat, T # {}
                     PROVE  \E n \in T : \A m \in T : n <= m
<1> DEFINE R == OpToRel(<, Nat)
<1>1. IsWellFoundedOn(R, Nat)
    BY Zenon, NatLessThanWellFounded
<1>2. \A x \in T, y \in T : y < x => <<y, x>> \in R
    BY DEF OpToRel
<1> HIDE DEF R
<1>3. PICK x \in T : \A y \in T : <<y, x>> \notin R
    BY Zenon, <1>1, WFMin
<1>4. \A y \in T : ~(y < x)
    BY Zenon, <1>2, <1>3
<1>5. \A y \in T : x \in Nat /\ y \in Nat
    BY <1>3
<1>6. \A y \in T : x <= y
    BY <1>4, <1>5
<1> QED
    BY <1>3, <1>6

\* What holds before the first round of a loop over 1 .. n, and after a round when it held
\* before it, holds after every round. T: the rounds after which it holds.
LEMMA LoopInduction ==
    ASSUME NEW n \in Nat, NEW T, 0 \in T, \A i \in 1 .. n : i - 1 \in T => i \in T
    PROVE  \A i \in 0 .. n : i \in T
<1> DEFINE Bad == {i \in 0 .. n : i \notin T}
<1> SUFFICES ASSUME Bad # {} PROVE FALSE
    OBVIOUS
<1>1. PICK k \in Bad : \A m \in Bad : k <= m
  <2>1. Bad \in SUBSET Nat
    OBVIOUS
  <2> HIDE DEF Bad
  <2> QED
    BY <2>1, LeastNumber
<1>2. k \in 1 .. n
    BY <1>1
<1>3. k - 1 \in 0 .. n /\ k - 1 \notin Bad
    BY <1>1, <1>2
<1> QED
    BY <1>1, <1>2, <1>3

\* The values after every round of a loop over 1 .. n that starts with x0, and of which round
\* i makes step[i, x] of x.
Loop(n, X, x0, step) ==
    {f \in [0 .. n -> X] : f[0] = x0 /\ \A i \in 1 .. n : f[i] = step[<<i, f[i - 1]>>]}

\* A loop has a value after every round: the recursive functions that stand for the loops exist.
LEMMA LoopExists ==
    ASSUME NEW n \in Nat, NEW X, NEW x0 \in X, NEW step \in [(1 .. n) \X X -> X]
    PROVE  Loop(n, X, x0, step) # {}
<1> DEFINE Upto(k) == \E f \in [0 .. k -> X] :
                         f[0] = x0 /\ \A i \in 1 .. k : f[i] = step[<<i, f[i - 1]>>]
<1>1. Upto(0)
  <2> DEFINE f == [i \in 0 .. 0 |-> x0]
  <2>1. f \in [0 .. 0 -> X] /\ f[0] = x0 /\ 1 .. 0 = {}
    OBVIOUS
  <2> HIDE DEF f
  <2> QED
    BY <2>1
<1>2. ASSUME NEW k \in 0 .. n - 1, Upto(k) PROVE Upto(k + 1)
  <2>1. PICK f \in [0 .. k -> X] : f[0] = x0 /\ \A i \in 1 .. k : f[i] = step[<<i, f[i - 1]>>]
    BY <1>2
  <2> DEFINE h == [i \in 0 .. k + 1 |-> IF i = k + 1 THEN step[<<k + 1, f[k]>>] ELSE f[i]]
  <2>2. step[<<k + 1, f[k]>>] \in X
    OBVIOUS
  <2>3. h \in [0 .. k + 1 -> X]
    BY <2>2
  <2>4. \A i \in 0 .. k : h[i] = f[i]
    OBVIOUS
  <2>5. h[k + 1] = step[<<k + 1, f[k]>>]
    OBVIOUS
  <2> HIDE DEF h
  <2>6. h[0] = x0
    BY <2>1, <2>4
  <2>7. ASSUME NEW i \in 1 .. k + 1 PROVE h[i] = step[<<i, h[i - 1]>>]
    <3>1. i - 1 \in 0 .. k /\ h[i - 1] = f[i - 1]
      BY <2>4
    <3>2. CASE i = k + 1
      BY <3>1, <3>2, <2>5
    <3>3. CASE i \in 1 .. k
      BY <3>1, <3>3, <2>1, <2>4
    <3> QED
      BY <3>2, <3>3
  <2> QED
    BY Zenon, <2>3, <2>6, <2>7
<1>3. Upto(n)
  <2> DEFINE T == {k \in 0 .. n : Upto(k)}
  <2> HIDE DEF Upto
  <2>1. 0 \in T
    BY <1>1
  <2>2. ASSUME NEW i \in 1 .. n, i - 1 \in T PROVE i \in T
    <3>1. i - 1 \in 0 .. n - 1 /\ i - 1 + 1 = i
      OBVIOUS
    <3> QED
      BY <3>1, <2>2, <1>2
  <2>3. \A i \in 0 .. n : i \in T
    <3> HIDE DEF T
    <3> QED
      BY <2>1, <2>2, LoopInduction
  <2> QED
    BY <2>3
<1> QED
    BY <1>3 DEF Loop

-------------------------------------------------------------------------------
\* The loop of Walk: what is found after every round.
IsWalk(found, q, S) ==
    /\ Walk(q, S) = found[Len(q)]
    /\ found[0] = <<>>
    /\ \A i \in 1 .. Len(q) :
          found[i] = IF q[i] \in S THEN Append(found[i - 1], q[i]) ELSE found[i - 1]

\* A walk is such a loop.
LEMMA WalkSteps ==
    ASSUME NEW A, NEW q \in Seq(A), NEW S
    PROVE  \E found : IsWalk(found, q, S)
<1> DEFINE n == Len(q)
           X == Seq(A)
           none == <<>>
           Round(i, x) == IF q[i] \in S THEN Append(x, q[i]) ELSE x
           step == [r \in (1 .. n) \X X |-> Round(r[1], r[2])]
           Step(f, i) == IF i = 0 THEN none ELSE Round(i, f[i - 1])
<1>1. n \in Nat /\ none \in X /\ \A i \in 1 .. n : q[i] \in A
    OBVIOUS
<1>2. \A i \in 1 .. n, x \in X : Round(i, x) \in X /\ step[<<i, x>>] = Round(i, x)
    BY <1>1
<1>3. step \in [(1 .. n) \X X -> X]
    BY <1>2
<1> HIDE DEF step, n, X, none, Round
<1>4. PICK f \in [0 .. n -> X] : f[0] = none /\ \A i \in 1 .. n : f[i] = step[<<i, f[i - 1]>>]
  <2>1. Loop(n, X, none, step) # {}
    BY Zenon, <1>1, <1>3, LoopExists
  <2> QED
    BY <2>1 DEF Loop
<1>5. \A i \in 0 .. n : f[i] = Step(f, i)
  <2> SUFFICES ASSUME NEW i \in 0 .. n PROVE f[i] = Step(f, i)
    OBVIOUS
  <2>1. CASE i = 0
    BY <2>1, <1>4
  <2>2. CASE i \in 1 .. n
    <3>1. i - 1 \in 0 .. n /\ i # 0
      BY <2>2, <1>1
    <3>2. f[i] = Round(i, f[i - 1])
      BY Zenon, <2>2, <3>1, <1>2, <1>4
    <3> QED
      BY <3>1, <3>2
  <2> QED
    BY <2>1, <2>2, <1>1
<1> HIDE DEF Step
<1>6. f = [i \in 0 .. n |-> Step(f, i)]
    BY <1>5
<1> DEFINE found == CHOOSE h : h = [i \in 0 .. n |-> Step(h, i)]
<1>7. found = [i \in 0 .. n |-> Step(found, i)]
    BY Zenon, <1>6
<1>8. Walk(q, S) = found[n]
    BY DEF Walk, Step, Round, n, none
<1> HIDE DEF found
<1>9. \A i \in 0 .. n : found[i] = Step(found, i)
    BY Zenon, <1>7
<1>10. found[0] = none /\ \A i \in 1 .. n : found[i] = Round(i, found[i - 1])
    BY <1>9, <1>1 DEF Step
<1> QED
    BY <1>8, <1>10 DEF IsWalk, n, none, Round

-------------------------------------------------------------------------------
\* The tasks of q are due in order.
InOrder(q, e) == \A i, j \in DOMAIN q : i < j => e[q[i]] <= e[q[j]]

\* The task t at place n of q.
PutAt(q, n, t) == SubSeq(q, 1, n - 1) \o <<t>> \o SubSeq(q, n, Len(q))

\* Where multiset::insert puts a task: behind the ones that are not due later, which are in
\* front of the others.
LEMMA PushPlace ==
    ASSUME NEW q \in Seq(Tasks), NEW e \in [Tasks -> Nat], NEW t \in Tasks, InOrder(q, e)
    PROVE  \E n \in 1 .. Len(q) + 1 :
              /\ PushInto(q, e, t) = PutAt(q, n, t)
              /\ \A i \in 1 .. n - 1 : e[q[i]] <= e[t]
              /\ \A i \in n .. Len(q) : e[t] <= e[q[i]]
<1> DEFINE T == {i \in 1 .. Len(q) + 1 : i = Len(q) + 1 \/ ~(e[q[i]] <= e[t])}
           Fits(m) == /\ \A i \in 1 .. m - 1 : e[q[i]] <= e[t]
                      /\ m <= Len(q) => e[q[m]] > e[t]
           n == CHOOSE m \in 1 .. Len(q) + 1 : Fits(m)
<1>1. Len(q) \in Nat /\ DOMAIN q = 1 .. Len(q) /\ \A i \in 1 .. Len(q) : e[q[i]] \in Nat
    OBVIOUS
<1>2. T \in SUBSET Nat /\ Len(q) + 1 \in T
    BY <1>1
<1>3. \E m \in 1 .. Len(q) + 1 : Fits(m)
  <2>1. PICK m \in T : \A k \in T : m <= k
    <3> HIDE DEF T
    <3> QED
      BY Zenon, <1>2, LeastNumber
  <2>2. m \in 1 .. Len(q) + 1 /\ m \in Nat
    BY <1>1
  <2>3. \A i \in 1 .. m - 1 : i \in 1 .. Len(q) /\ i \notin T
    BY <1>1, <2>1, <2>2
  <2>4. \A i \in 1 .. m - 1 : e[q[i]] <= e[t]
    BY <1>1, <2>3
  <2>5. m <= Len(q) => e[q[m]] > e[t]
    BY <1>1, <2>2
  <2> QED
    BY Zenon, <2>2, <2>4, <2>5
<1>4. n \in 1 .. Len(q) + 1 /\ Fits(n)
  <2> HIDE DEF Fits
  <2> QED
    BY Zenon, <1>3
<1>5. PushInto(q, e, t) = PutAt(q, n, t)
    BY Zenon DEF PushInto, PutAt
<1> HIDE DEF n
<1>6. ASSUME NEW i \in n .. Len(q) PROVE e[t] <= e[q[i]]
  <2>1. n \in 1 .. Len(q) /\ i \in 1 .. Len(q) /\ e[q[n]] > e[t]
    BY <1>1, <1>4
  <2>2. e[q[n]] \in Nat /\ e[q[i]] \in Nat /\ e[t] \in Nat
    BY <1>1, <2>1
  <2>3. n = i \/ n < i
    BY <2>1
  <2>4. n < i => e[q[n]] <= e[q[i]]
    BY Zenon, <1>1, <2>1 DEF InOrder
  <2> QED
    BY <2>1, <2>2, <2>3, <2>4
<1> QED
    BY Zenon, <1>4, <1>5, <1>6

\* PutAt keeps what is there and its order.
LEMMA PutAtElements ==
    ASSUME NEW X, NEW q \in Seq(X), NEW t \in X, NEW n \in 1 .. Len(q) + 1
    PROVE  /\ PutAt(q, n, t) \in Seq(X)
           /\ Len(PutAt(q, n, t)) = Len(q) + 1
           /\ \A i \in 1 .. Len(q) + 1 :
                 PutAt(q, n, t)[i] = IF i < n THEN q[i] ELSE IF i = n THEN t ELSE q[i - 1]
<1> DEFINE a == SubSeq(q, 1, n - 1)  b == SubSeq(q, n, Len(q))
<1>1. Len(q) \in Nat /\ n \in Nat /\ DOMAIN q = 1 .. Len(q)
    OBVIOUS
<1>2. a \in Seq(X) /\ Len(a) = n - 1 /\ \A i \in 1 .. n - 1 : a[i] = q[i]
    BY <1>1
<1>3. b \in Seq(X) /\ Len(b) = Len(q) + 1 - n /\ \A i \in 1 .. Len(b) : b[i] = q[i + n - 1]
    BY <1>1
<1>4. PutAt(q, n, t) = (a \o <<t>>) \o b
    BY DEF PutAt
<1> HIDE DEF a, b
<1> DEFINE c == a \o <<t>>
<1>5. c \in Seq(X) /\ Len(c) = n /\ c[n] = t /\ \A i \in 1 .. n - 1 : c[i] = q[i]
    BY SMTT(30), <1>1, <1>2
<1>6. PutAt(q, n, t) = c \o b
    BY <1>4
<1> HIDE DEF c
<1>7. c \o b \in Seq(X) /\ Len(c \o b) = Len(q) + 1
    BY <1>1, <1>3, <1>5
<1>8. ASSUME NEW i \in 1 .. Len(q) + 1
      PROVE  (c \o b)[i] = IF i < n THEN q[i] ELSE IF i = n THEN t ELSE q[i - 1]
  <2>1. CASE i < n
    BY SMTT(30), <2>1, <1>1, <1>3, <1>5
  <2>2. CASE i = n
    BY <2>2, <1>1, <1>3, <1>5
  <2>3. CASE i > n
    <3>1. (c \o b)[i] = b[i - n] /\ i - n \in 1 .. Len(b)
      BY SMTT(30), <2>3, <1>1, <1>3, <1>5
    <3>2. b[i - n] = q[i - n + n - 1] /\ i - n + n - 1 = i - 1
      BY <3>1, <1>1, <1>3
    <3> QED
      BY SMTT(30), <2>3, <3>1, <3>2, <1>1
  <2>4. i \in Nat
    OBVIOUS
  <2>5. i < n \/ i = n \/ i > n
    BY <2>4, <1>1
  <2> QED
    BY Zenon, <2>1, <2>2, <2>3, <2>5
<1> QED
    BY <1>6, <1>7, <1>8

\* multiset::insert adds one task and keeps the order.
LEMMA PushKeeps ==
    ASSUME NEW q \in Seq(Tasks), NEW e \in [Tasks -> Nat], NEW t \in Tasks, InOrder(q, e)
    PROVE  /\ PushInto(q, e, t) \in Seq(Tasks)
           /\ InOrder(PushInto(q, e, t), e)
           /\ Range(PushInto(q, e, t)) = Range(q) \cup {t}
           /\ IsInjective(q) /\ t \notin Range(q) => IsInjective(PushInto(q, e, t))
<1>1. PICK n \in 1 .. Len(q) + 1 :
              /\ PushInto(q, e, t) = PutAt(q, n, t)
              /\ \A i \in 1 .. n - 1 : e[q[i]] <= e[t]
              /\ \A i \in n .. Len(q) : e[t] <= e[q[i]]
    BY Zenon, PushPlace
<1> DEFINE p == PutAt(q, n, t)
<1>2. /\ p \in Seq(Tasks) /\ Len(p) = Len(q) + 1
      /\ \A i \in 1 .. Len(q) + 1 : p[i] = IF i < n THEN q[i] ELSE IF i = n THEN t ELSE q[i - 1]
    BY PutAtElements
<1> HIDE DEF p
<1>3. PushInto(q, e, t) = p
    BY <1>1 DEF p
<1>4. Len(q) \in Nat /\ n \in Nat /\ DOMAIN q = 1 .. Len(q) /\ DOMAIN p = 1 .. Len(q) + 1
    BY <1>2
\* Where an element of p comes from.
<1>5. /\ \A i \in DOMAIN p : i < n => i \in DOMAIN q /\ p[i] = q[i]
      /\ n \in DOMAIN p /\ p[n] = t
      /\ \A i \in DOMAIN p : i > n => i - 1 \in DOMAIN q /\ p[i] = q[i - 1]
  <2>1. \A i \in DOMAIN p : i < n => i \in DOMAIN q /\ p[i] = q[i]
    BY <1>2, <1>4
  <2>2. n \in DOMAIN p /\ p[n] = t
    BY <1>2, <1>4
  <2>3. ASSUME NEW i \in DOMAIN p, i > n PROVE i - 1 \in DOMAIN q /\ p[i] = q[i - 1]
    <3>1. i \in 1 .. Len(q) + 1 /\ ~(i < n) /\ i # n
      BY <2>3, <1>4
    <3>2. p[i] = q[i - 1]
      BY Zenon, <3>1, <1>2
    <3> QED
      BY <3>1, <3>2, <2>3, <1>4
  <2> QED
    BY <2>1, <2>2, <2>3
<1>6. InOrder(p, e)
  <2> SUFFICES ASSUME NEW i \in DOMAIN p, NEW j \in DOMAIN p, i < j PROVE e[p[i]] <= e[p[j]]
    BY DEF InOrder
  <2>1. i \in Nat /\ j \in Nat /\ e[t] \in Nat
    BY <1>4
  <2>2. CASE j < n
    <3>1. p[i] = q[i] /\ p[j] = q[j] /\ i \in DOMAIN q /\ j \in DOMAIN q
      BY <1>5, <1>4, <2>1, <2>2
    <3> QED
      BY <3>1 DEF InOrder
  <2>3. CASE j = n
    <3>1. p[i] = q[i] /\ p[j] = t /\ i \in 1 .. n - 1
      BY <1>5, <1>4, <2>1, <2>3
    <3> QED
      BY SMTT(30), <3>1, <1>1
  <2>4. CASE j > n /\ i < n
    <3>1. p[i] = q[i] /\ p[j] = q[j - 1] /\ i \in DOMAIN q /\ j - 1 \in DOMAIN q /\ i <= j - 1
      BY <1>5, <1>4, <2>1, <2>4
    <3>2. i \in 1 .. n - 1 /\ j - 1 \in n .. Len(q)
      BY SMTT(30), <3>1, <2>1, <2>4, <1>4
    <3>3. e[q[i]] <= e[t] /\ e[t] <= e[q[j - 1]] /\ e[q[i]] \in Nat /\ e[q[j - 1]] \in Nat
      BY <3>1, <3>2, <1>1
    <3> QED
      BY SMTT(30), <3>1, <3>3, <2>1
  <2>5. CASE i = n
    <3>1. p[i] = t /\ p[j] = q[j - 1] /\ j - 1 \in n .. Len(q)
      BY <1>5, <1>4, <2>1, <2>5
    <3> QED
      BY <3>1, <1>1
  <2>6. CASE i > n
    <3>1. p[i] = q[i - 1] /\ p[j] = q[j - 1] /\ i - 1 \in DOMAIN q /\ j - 1 \in DOMAIN q
      BY SMTT(30), <1>5, <1>4, <2>1, <2>6
    <3>2. i - 1 < j - 1
      BY <2>1
    <3> QED
      BY <3>1, <3>2 DEF InOrder
  <2> QED
    BY <2>1, <2>2, <2>3, <2>4, <2>5, <2>6, <1>4
<1>7. Range(p) = Range(q) \cup {t}
  <2>1. Range(p) \subseteq Range(q) \cup {t}
    BY SMTT(30), <1>4, <1>5 DEF Range
  <2>2. t \in Range(p)
    <3>1. n \in DOMAIN p /\ p[n] = t
      BY <1>2, <1>4
    <3> QED
      BY <3>1 DEF Range
  <2>3. ASSUME NEW i \in DOMAIN q PROVE q[i] \in Range(p)
    <3>1. CASE i < n
      <4>1. i \in DOMAIN p /\ p[i] = q[i]
        BY SMTT(30), <3>1, <1>2, <1>4
      <4> QED
        BY <4>1 DEF Range
    <3>2. CASE i >= n
      <4>1. i + 1 \in DOMAIN p /\ p[i + 1] = q[i]
        <5>1. i + 1 \in 1 .. Len(q) + 1 /\ ~(i + 1 < n) /\ i + 1 # n /\ i + 1 - 1 = i
          BY SMTT(30), <3>2, <1>4
        <5> QED
          BY <5>1, <1>2, <1>4
      <4> QED
        BY <4>1 DEF Range
    <3> QED
      BY <3>1, <3>2, <1>4
  <2> QED
    BY Zenon, <2>1, <2>2, <2>3 DEF Range
<1>8. ASSUME IsInjective(q), t \notin Range(q) PROVE IsInjective(p)
  <2>1. \A i \in DOMAIN q : q[i] # t
    BY <1>8 DEF Range
  <2>2. \A i, j \in DOMAIN q : q[i] = q[j] => i = j
    BY <1>8 DEF IsInjective
  <2> SUFFICES ASSUME NEW i \in DOMAIN p, NEW j \in DOMAIN p, p[i] = p[j] PROVE i = j
    BY DEF IsInjective
  <2>3. i \in Nat /\ j \in Nat
    BY <1>4
  <2>4. ASSUME NEW k \in DOMAIN p, p[k] = t PROVE k = n
    <3>1. k \in Nat
      BY <1>4
    <3>2. ~(k < n)
      BY <2>4, <2>1, <1>5
    <3>3. ~(k > n)
      BY <2>4, <2>1, <1>5
    <3> QED
      BY <3>1, <3>2, <3>3, <1>4
  <2>5. (i = n) <=> (j = n)
    BY <2>4, <1>5
  <2>6. CASE i = n
    BY <2>5, <2>6
  <2>7. CASE i < n
    <3>1. i \in DOMAIN q /\ p[i] = q[i]
      BY <2>7, <2>3, <1>4, <1>5
    <3>2. j # n
      BY <2>5, <2>7, <2>3, <1>4
    <3>3. ~(j > n)
      <4> SUFFICES ASSUME j > n PROVE FALSE
        OBVIOUS
      <4>1. j - 1 \in DOMAIN q /\ p[j] = q[j - 1]
        BY <2>3, <1>4, <1>5
      <4>2. i = j - 1
        BY Zenon, <3>1, <4>1, <2>2
      <4> QED
        BY <4>2, <2>3, <2>7, <1>4
    <3>4. j < n
      BY <3>2, <3>3, <2>3, <1>4
    <3>5. j \in DOMAIN q /\ p[j] = q[j]
      BY <3>4, <2>3, <1>4, <1>5
    <3> QED
      BY Zenon, <3>1, <3>5, <2>2
  <2>8. CASE i > n
    <3>1. i - 1 \in DOMAIN q /\ p[i] = q[i - 1]
      BY <2>8, <2>3, <1>4, <1>5
    <3>2. j # n
      BY <2>5, <2>8, <2>3, <1>4
    <3>3. ~(j < n)
      <4> SUFFICES ASSUME j < n PROVE FALSE
        OBVIOUS
      <4>1. j \in DOMAIN q /\ p[j] = q[j]
        BY <2>3, <1>4, <1>5
      <4>2. i - 1 = j
        BY Zenon, <3>1, <4>1, <2>2
      <4> QED
        BY <4>2, <2>3, <2>8, <1>4
    <3>4. j > n
      BY <3>2, <3>3, <2>3, <1>4
    <3>5. j - 1 \in DOMAIN q /\ p[j] = q[j - 1]
      BY <3>4, <2>3, <1>4, <1>5
    <3>6. i - 1 = j - 1
      BY Zenon, <3>1, <3>5, <2>2
    <3> QED
      BY <3>6, <2>3
  <2> QED
    BY <2>6, <2>7, <2>8, <2>3, <1>4
<1> QED
    BY <1>2, <1>3, <1>6, <1>7, <1>8

\* A task that is due last is appended.
LEMMA AppendKeeps ==
    ASSUME NEW q \in Seq(Tasks), NEW e \in [Tasks -> Nat], NEW t \in Tasks,
           InOrder(q, e), IsInjective(q), t \notin Range(q), \A u \in Range(q) : e[u] <= e[t]
    PROVE  /\ Append(q, t) \in Seq(Tasks) /\ Range(Append(q, t)) = Range(q) \cup {t}
           /\ InOrder(Append(q, t), e) /\ IsInjective(Append(q, t))
<1> DEFINE p == Append(q, t)  n == Len(q) + 1
<1>1. /\ p \in Seq(Tasks) /\ Len(p) = n /\ p[n] = t /\ DOMAIN p = 1 .. n
      /\ DOMAIN q = 1 .. Len(q) /\ Len(q) \in Nat
      /\ \A i \in DOMAIN q : p[i] = q[i]
    OBVIOUS
<1> HIDE DEF p
<1>2. \A i \in DOMAIN p : i = n \/ i \in DOMAIN q
    BY <1>1
<1>3. \A i \in DOMAIN q : i \in DOMAIN p /\ i < n /\ i # n
    BY SMTT(30), <1>1
<1>4. n \in DOMAIN p /\ \A i \in DOMAIN p : ~(n < i)
    BY <1>1
<1> HIDE DEF n
<1>5. Range(p) = Range(q) \cup {t}
    BY SMTT(30), <1>1, <1>2, <1>3, <1>4 DEF Range
<1>6. InOrder(p, e)
  <2> SUFFICES ASSUME NEW i \in DOMAIN p, NEW j \in DOMAIN p, i < j PROVE e[p[i]] <= e[p[j]]
    BY Zenon DEF InOrder
  <2>1. i \in DOMAIN q /\ p[i] = q[i] /\ p[i] \in Range(q)
    BY Zenon, <1>1, <1>2, <1>4 DEF Range
  <2>2. CASE j = n
    BY Zenon, <1>1, <2>1, <2>2
  <2>3. CASE j \in DOMAIN q
    BY Zenon, <1>1, <2>1, <2>3 DEF InOrder
  <2> QED
    BY Zenon, <1>2, <2>2, <2>3
<1>7. IsInjective(p)
  <2> SUFFICES ASSUME NEW i \in DOMAIN p, NEW j \in DOMAIN p, p[i] = p[j] PROVE i = j
    BY Zenon DEF IsInjective
  <2>1. \A k \in DOMAIN q : p[k] \in Range(q)
    BY Zenon, <1>1 DEF Range
  <2>2. CASE i \in DOMAIN q /\ j \in DOMAIN q
    BY Zenon, <1>1, <2>2 DEF IsInjective
  <2>3. CASE i = n \/ j = n
    BY Zenon, <1>1, <1>2, <2>1, <2>3
  <2> QED
    BY Zenon, <1>2, <2>2, <2>3
<1> QED
    BY <1>1, <1>5, <1>6, <1>7 DEF p

\* What RemoveIf leaves, and what ModifyIf takes out: the tasks of S, in order, each once.
LEMMA WalkKeeps ==
    ASSUME NEW q \in Seq(Tasks), NEW e \in [Tasks -> Nat], NEW S, InOrder(q, e), IsInjective(q)
    PROVE  /\ Walk(q, S) \in Seq(Tasks) /\ Range(Walk(q, S)) = Range(q) \cap S
           /\ InOrder(Walk(q, S), e) /\ IsInjective(Walk(q, S))
<1>0. PICK found : IsWalk(found, q, S)
    BY Zenon, WalkSteps
<1>1. /\ Walk(q, S) = found[Len(q)]
      /\ found[0] = <<>>
      /\ \A i \in 1 .. Len(q) :
            found[i] = IF q[i] \in S THEN Append(found[i - 1], q[i]) ELSE found[i - 1]
    BY <1>0 DEF IsWalk
<1> DEFINE Before(i) == {q[k] : k \in 1 .. i} \cap S
           P(i) == /\ found[i] \in Seq(Tasks) /\ Range(found[i]) = Before(i)
                   /\ InOrder(found[i], e) /\ IsInjective(found[i])
           T == {i \in 0 .. Len(q) : P(i)}
<1>2. Len(q) \in Nat /\ DOMAIN q = 1 .. Len(q)
    OBVIOUS
<1>3. 0 \in T
  <2>1. found[0] = <<>> /\ DOMAIN <<>> = {} /\ 1 .. 0 = {}
    BY <1>1
  <2>2. Before(0) = {} /\ Range(<<>>) = {} /\ InOrder(<<>>, e) /\ IsInjective(<<>>)
    BY <2>1 DEF Range, InOrder, IsInjective
  <2>3. P(0)
    BY <2>1, <2>2
  <2> HIDE DEF P
  <2> QED
    BY <2>3, <1>2
<1>4. ASSUME NEW i \in 1 .. Len(q), i - 1 \in T PROVE i \in T
  <2>0. i \in 0 .. Len(q) /\ q[i] \in Tasks
    BY <1>2
  <2>1. P(i - 1) /\ i \in 0 .. Len(q) /\ q[i] \in Tasks
    BY Zenon, <1>4, <2>0
  <2>2. Before(i) = Before(i - 1) \cup ({q[i]} \cap S)
    <3>1. 1 .. i = (1 .. i - 1) \cup {i}
      BY <1>2
    <3> QED
      BY Zenon, <3>1
  <2>3. CASE q[i] \in S
    <3>1. found[i] = Append(found[i - 1], q[i])
      BY Zenon, <1>1, <2>3
    <3>2. q[i] \notin Before(i - 1)
      BY <1>2 DEF IsInjective
    <3>3. \A u \in Before(i - 1) : e[u] <= e[q[i]]
      <4>1. \A k \in 1 .. i - 1 : k \in DOMAIN q /\ i \in DOMAIN q /\ k < i
        BY <1>2
      <4> QED
        BY Zenon, <4>1 DEF InOrder
    <3>4. Before(i) = Before(i - 1) \cup {q[i]}
      BY <2>2, <2>3
    <3> HIDE DEF Before
    <3>5. P(i)
      <4> DEFINE x == found[i - 1]
      <4>1. /\ x \in Seq(Tasks) /\ Range(x) = Before(i - 1) /\ InOrder(x, e) /\ IsInjective(x)
            /\ found[i] = Append(x, q[i])
        BY <2>1, <3>1
      <4> HIDE DEF x
      <4>2. /\ Append(x, q[i]) \in Seq(Tasks) /\ Range(Append(x, q[i])) = Range(x) \cup {q[i]}
            /\ InOrder(Append(x, q[i]), e) /\ IsInjective(Append(x, q[i]))
        BY Zenon, <2>1, <3>2, <3>3, <4>1, AppendKeeps
      <4> QED
        BY <3>4, <4>1, <4>2
    <3> QED
      BY <2>1, <3>5
  <2>4. CASE q[i] \notin S
    <3>1. found[i] = found[i - 1]
      BY SMTT(30), <1>1, <2>4
    <3>2. Before(i) = Before(i - 1)
      BY <2>2, <2>4
    <3> HIDE DEF Before
    <3>3. P(i)
      BY <2>1, <3>1, <3>2
    <3> QED
      BY <2>1, <3>3
  <2> QED
    BY <2>3, <2>4
<1>5. \A i \in 0 .. Len(q) : i \in T
  <2> HIDE DEF T
  <2> QED
    BY Zenon, <1>2, <1>3, <1>4, LoopInduction
<1>6. P(Len(q))
  <2> HIDE DEF P
  <2> QED
    BY <1>2, <1>5
<1>7. Before(Len(q)) = Range(q) \cap S
    BY <1>2 DEF Range
<1> HIDE DEF Before
<1> QED
    BY <1>1, <1>6, <1>7

\* The order is one of the due times of the tasks that are there.
LEMMA SameDueTimes ==
    ASSUME NEW q \in Seq(Tasks), NEW e, NEW d, InOrder(q, e), \A t \in Range(q) : d[t] = e[t]
    PROVE  InOrder(q, d)
    BY DEF InOrder, Range

\* The insertion of a range: what is there after every round.
IsInsertion(inserted, q, e, cache) ==
    /\ InsertRange(q, e, cache) = inserted[Len(cache)]
    /\ inserted[0] = q
    /\ \A i \in 1 .. Len(cache) : inserted[i] = PushInto(inserted[i - 1], e, cache[i])

\* The insertion of a range is such a loop.
LEMMA InsertSteps ==
    ASSUME NEW q \in Seq(Tasks), NEW e \in [Tasks -> Nat], NEW cache \in Seq(Tasks), InOrder(q, e)
    PROVE  \E inserted : IsInsertion(inserted, q, e, cache)
<1> DEFINE n == Len(cache)
           X == {p \in Seq(Tasks) : InOrder(p, e)}
           Round(i, x) == PushInto(x, e, cache[i])
           step == [r \in (1 .. n) \X X |-> Round(r[1], r[2])]
           Step(f, i) == IF i = 0 THEN q ELSE Round(i, f[i - 1])
<1>1. n \in Nat /\ q \in X /\ \A i \in 1 .. n : cache[i] \in Tasks
    OBVIOUS
<1>2. ASSUME NEW i \in 1 .. n, NEW x \in X PROVE Round(i, x) \in X /\ step[<<i, x>>] = Round(i, x)
  <2>1. Round(i, x) \in X
    BY Zenon, <1>1, PushKeeps
  <2> HIDE DEF X, Round
  <2> QED
    BY <2>1
<1>3. step \in [(1 .. n) \X X -> X]
  <2> HIDE DEF X, Round
  <2> QED
    BY Zenon, <1>2
<1> HIDE DEF step, n, X, Round
<1>4. PICK f \in [0 .. n -> X] : f[0] = q /\ \A i \in 1 .. n : f[i] = step[<<i, f[i - 1]>>]
  <2>1. Loop(n, X, q, step) # {}
    BY Zenon, <1>1, <1>3, LoopExists
  <2> QED
    BY <2>1 DEF Loop
<1>5. \A i \in 0 .. n : f[i] = Step(f, i)
  <2> SUFFICES ASSUME NEW i \in 0 .. n PROVE f[i] = Step(f, i)
    OBVIOUS
  <2>1. CASE i = 0
    BY <2>1, <1>4
  <2>2. CASE i \in 1 .. n
    <3>1. i - 1 \in 0 .. n /\ i # 0
      BY <2>2, <1>1
    <3>2. f[i] = Round(i, f[i - 1])
      BY Zenon, <2>2, <3>1, <1>2, <1>4
    <3> QED
      BY <3>1, <3>2
  <2> QED
    BY <2>1, <2>2, <1>1
<1> HIDE DEF Step
<1>6. f = [i \in 0 .. n |-> Step(f, i)]
    BY <1>5
<1> DEFINE inserted == CHOOSE h : h = [i \in 0 .. n |-> Step(h, i)]
<1>7. inserted = [i \in 0 .. n |-> Step(inserted, i)]
    BY Zenon, <1>6
<1>8. InsertRange(q, e, cache) = inserted[n]
    BY DEF InsertRange, Step, Round, n
<1> HIDE DEF inserted
<1>9. \A i \in 0 .. n : inserted[i] = Step(inserted, i)
    BY Zenon, <1>7
<1>10. inserted[0] = q /\ \A i \in 1 .. n : inserted[i] = Round(i, inserted[i - 1])
    BY <1>9, <1>1 DEF Step
<1> QED
    BY <1>8, <1>10 DEF IsInsertion, n, Round

\* ModifyIf keeps the order by the new due times and every task.
LEMMA InsertKeeps ==
    ASSUME NEW q \in Seq(Tasks), NEW e \in [Tasks -> Nat], NEW cache \in Seq(Tasks),
           InOrder(q, e), IsInjective(q), IsInjective(cache), Range(q) \cap Range(cache) = {}
    PROVE  /\ InsertRange(q, e, cache) \in Seq(Tasks)
           /\ Range(InsertRange(q, e, cache)) = Range(q) \cup Range(cache)
           /\ InOrder(InsertRange(q, e, cache), e)
           /\ IsInjective(InsertRange(q, e, cache))
<1>0. PICK inserted : IsInsertion(inserted, q, e, cache)
    BY Zenon, InsertSteps
<1>1. /\ InsertRange(q, e, cache) = inserted[Len(cache)]
      /\ inserted[0] = q
      /\ \A i \in 1 .. Len(cache) : inserted[i] = PushInto(inserted[i - 1], e, cache[i])
    BY Zenon, <1>0 DEF IsInsertion
<1> DEFINE Before(i) == {cache[k] : k \in 1 .. i}
           P(i) == /\ inserted[i] \in Seq(Tasks) /\ Range(inserted[i]) = Range(q) \cup Before(i)
                   /\ InOrder(inserted[i], e) /\ IsInjective(inserted[i])
           T == {i \in 0 .. Len(cache) : P(i)}
<1>2. Len(cache) \in Nat /\ DOMAIN cache = 1 .. Len(cache)
    OBVIOUS
<1>3. 0 \in T
  <2>1. Before(0) = {}
    OBVIOUS
  <2> HIDE DEF Before
  <2>2. P(0)
    BY Zenon, <2>1, <1>1
  <2> HIDE DEF P
  <2> QED
    BY <2>2, <1>2
<1>4. ASSUME NEW i \in 1 .. Len(cache), i - 1 \in T PROVE i \in T
  <2>0. i \in 0 .. Len(cache) /\ cache[i] \in Tasks
    BY <1>2
  <2>1. P(i - 1) /\ i \in 0 .. Len(cache) /\ cache[i] \in Tasks
    BY Zenon, <1>4, <2>0
  <2>2. Before(i) = Before(i - 1) \cup {cache[i]}
    <3>1. 1 .. i = (1 .. i - 1) \cup {i}
      BY <1>2
    <3> QED
      BY <3>1
  <2>3. cache[i] \notin Before(i - 1)
    <3>1. \A k \in 1 .. i - 1 : k \in DOMAIN cache /\ i \in DOMAIN cache /\ k # i
      BY <1>2
    <3> QED
      BY Zenon, <3>1 DEF IsInjective
  <2>4. cache[i] \notin Range(q)
    BY Zenon, <1>2 DEF Range
  <2> DEFINE x == inserted[i - 1]
  <2>5. /\ x \in Seq(Tasks) /\ Range(x) = Range(q) \cup Before(i - 1)
        /\ InOrder(x, e) /\ IsInjective(x)
        /\ inserted[i] = PushInto(x, e, cache[i])
    BY Zenon, <2>1, <1>1
  <2> HIDE DEF x, Before
  <2>6. /\ PushInto(x, e, cache[i]) \in Seq(Tasks)
        /\ InOrder(PushInto(x, e, cache[i]), e)
        /\ Range(PushInto(x, e, cache[i])) = Range(x) \cup {cache[i]}
        /\ IsInjective(PushInto(x, e, cache[i]))
    BY ZenonT(30), <2>1, <2>3, <2>4, <2>5, PushKeeps
  <2>7. P(i)
    BY Zenon, <2>2, <2>5, <2>6
  <2> QED
    BY Zenon, <2>1, <2>7
<1>5. \A i \in 0 .. Len(cache) : i \in T
  <2> HIDE DEF T
  <2> QED
    BY Zenon, <1>2, <1>3, <1>4, LoopInduction
<1>6. P(Len(cache))
  <2> HIDE DEF P
  <2> QED
    BY <1>2, <1>5
<1>7. Before(Len(cache)) = Range(cache)
    BY Zenon, <1>2 DEF Range
<1> HIDE DEF Before
<1> QED
    BY Zenon, <1>1, <1>6, <1>7

-------------------------------------------------------------------------------
SchedulerInv == /\ TypeOK
                /\ pc = "task" => cur \in Tasks
                /\ Sorted
                /\ OnePlace

\* Sorted is InOrder of the container.
LEMMA SortedIsInOrder == Sorted <=> InOrder(queue, end)
    BY DEF Sorted, InOrder

\* The first task leaves the container, and Dispatch holds its context; or Dispatch stops.
LEMMA DispatchKeeps ==
    ASSUME SchedulerInv, NEW n, UNCHANGED end, DispatchTasks(n) \/ Stop
    PROVE  /\ queue' \in Seq(Tasks) /\ pc' \in {"idle", "task"} /\ cur' \in Tasks \cup {None}
           /\ live' \subseteq Tasks /\ (pc' = "task" => cur' \in Tasks)
           /\ Sorted' /\ OnePlace'
<1>1. TypeOK /\ Sorted /\ IsInjective(queue) /\ Queued \cap live = {}
    BY DEF SchedulerInv, OnePlace
<1>2. Surviving \subseteq live
    BY DEF Surviving
<1>3. CASE Stop
    BY <1>1, <1>2, <1>3 DEF Stop, TypeOK, Sorted, OnePlace, IsInjective, Queued
<1>4. CASE ~Stop
  <2>1. /\ queue # <<>> /\ pc' = "task" /\ cur' = Head(queue) /\ queue' = Tail(queue)
        /\ live' = Surviving \cup {Head(queue)}
    BY <1>4 DEF DispatchTasks
  <2>2. queue \in Seq(Tasks) /\ live \subseteq Tasks
    BY <1>1 DEF TypeOK
  <2>3. Head(queue) \in Tasks /\ Tail(queue) \in Seq(Tasks) /\ Head(queue) = queue[1]
    BY <2>1, <2>2
  <2>4. /\ DOMAIN Tail(queue) = 1 .. Len(queue) - 1 /\ DOMAIN queue = 1 .. Len(queue)
        /\ Len(queue) \in Nat /\ Len(queue) > 0
        /\ \A i \in 1 .. Len(queue) - 1 : Tail(queue)[i] = queue[i + 1]
    BY <2>1, <2>2
  <2>5. \A i \in DOMAIN Tail(queue) : i + 1 \in DOMAIN queue /\ i + 1 # 1 /\ Tail(queue)[i] = queue[i + 1]
    BY <2>4
  <2>6. Sorted'
    <3> SUFFICES ASSUME NEW i \in DOMAIN Tail(queue), NEW j \in DOMAIN Tail(queue), i < j
                 PROVE  end[Tail(queue)[i]] <= end[Tail(queue)[j]]
      BY <2>1 DEF Sorted
    <3>1. i + 1 < j + 1
      BY <2>4
    <3> QED
      BY <3>1, <2>5, <1>1 DEF Sorted
  <2>7. IsInjective(Tail(queue))
    <3> SUFFICES ASSUME NEW i \in DOMAIN Tail(queue), NEW j \in DOMAIN Tail(queue),
                        Tail(queue)[i] = Tail(queue)[j]
                 PROVE  i = j
      BY DEF IsInjective
    <3>1. i + 1 = j + 1
      BY <2>5, <1>1 DEF IsInjective
    <3> QED
      BY <3>1, <2>4
  <2>8. Range(Tail(queue)) \subseteq Queued \ {Head(queue)}
    <3> SUFFICES ASSUME NEW i \in DOMAIN Tail(queue)
                 PROVE  Tail(queue)[i] \in Queued /\ Tail(queue)[i] # queue[1]
      BY Zenon, <2>3 DEF Range
    <3>1. 1 \in DOMAIN queue
      BY <2>4
    <3> QED
      BY <3>1, <2>5, <1>1 DEF IsInjective, Queued, Range
  <2> QED
    BY <1>1, <1>2, <2>1, <2>2, <2>3, <2>6, <2>7, <2>8 DEF OnePlace, Queued
<1> QED
    BY <1>3, <1>4

\* A tick: Update, and Dispatch as it goes on when a callable or a task has returned.
LEMMA TickKeeps ==
    ASSUME SchedulerInv, (\E n \in now .. MaxTime : Update(n)) \/ AsyncReturns \/ TaskReturns
    PROVE  SchedulerInv'
<1> DEFINE Kept == /\ queue' \in Seq(Tasks) /\ pc' \in {"idle", "task"}
                   /\ cur' \in Tasks \cup {None} /\ live' \subseteq Tasks
                   /\ (pc' = "task" => cur' \in Tasks) /\ Sorted' /\ OnePlace'
<1> HIDE DEF Kept
<1>1. TypeOK /\ (pc = "task" => cur \in Tasks) /\ Sorted /\ OnePlace
    BY DEF SchedulerInv
<1>2. MaxTime \in Nat /\ MaxAsync \in Nat
    BY SchedulerAssumption
<1>3. ASSUME NEW n \in now .. MaxTime, Update(n) PROVE SchedulerInv'
  <2>1. /\ now' = n /\ UNCHANGED <<end, group, asyncs, valid, kept, undefined>>
        /\ \/ DispatchTasks(n) \/ Stop
           \/ pc' = "async" /\ UNCHANGED <<cur, queue, live>>
    BY <1>3 DEF Update
  <2>2. now' \in 0 .. MaxTime
    BY <1>1, <1>2, <2>1 DEF TypeOK
  <2>3. CASE DispatchTasks(n) \/ Stop
    <3>1. Kept
      BY <2>1, <2>3, DispatchKeeps DEF Kept
    <3> QED
      BY Zenon, <1>1, <2>1, <2>2, <3>1 DEF SchedulerInv, TypeOK, Kept
  <2>4. CASE pc' = "async" /\ UNCHANGED <<cur, queue, live>>
    BY Zenon, <1>1, <2>1, <2>2, <2>4 DEF SchedulerInv, TypeOK, Sorted, OnePlace, Queued
  <2> QED
    BY <2>1, <2>3, <2>4
<1>4. CASE AsyncReturns
  <2>1. UNCHANGED <<now, end, group, valid, kept>>
    BY Zenon, <1>4 DEF AsyncReturns
  <2>2. CASE asyncs = 0
    BY Zenon, <1>1, <1>4, <2>1, <2>2
       DEF AsyncReturns, SchedulerInv, TypeOK, Sorted, OnePlace, Queued
  <2>3. CASE asyncs # 0
    <3>1. /\ asyncs' = asyncs - 1 /\ UNCHANGED undefined
          /\ \/ DispatchTasks(now) \/ Stop
             \/ UNCHANGED <<pc, cur, queue, live>>
      BY Zenon, <1>4, <2>3 DEF AsyncReturns
    <3>2. asyncs' \in 0 .. MaxAsync
      BY <1>1, <1>2, <2>3, <3>1 DEF TypeOK
    <3>3. CASE DispatchTasks(now) \/ Stop
      <4>1. Kept
        BY <2>1, <3>3, DispatchKeeps DEF Kept
      <4> QED
        BY Zenon, <1>1, <2>1, <3>1, <3>2, <4>1 DEF SchedulerInv, TypeOK, Kept
    <3>4. CASE UNCHANGED <<pc, cur, queue, live>>
      BY Zenon, <1>1, <2>1, <3>1, <3>2, <3>4 DEF SchedulerInv, TypeOK, Sorted, OnePlace, Queued
    <3> QED
      BY <3>1, <3>3, <3>4
  <2> QED
    BY <2>2, <2>3
<1>5. CASE TaskReturns
  <2>1. UNCHANGED <<clock, end, group, asyncs, kept>> /\ (DispatchTasks(now) \/ Stop)
    BY <1>5 DEF TaskReturns
  <2>2. Kept
    BY <2>1, DispatchKeeps DEF Kept
  <2> QED
    BY Zenon, <1>1, <2>1, <2>2 DEF SchedulerInv, TypeOK, Kept, clock
<1> QED
    BY <1>3, <1>4, <1>5

\* A task that nobody refers to, or whose context was not consumed, enters the container with
\* a new due time.
LEMMA InsertedKeeps ==
    ASSUME SchedulerInv, NEW t \in Tasks, t \notin Queued, NEW at \in Nat,
           end' = [end EXCEPT ![t] = at], queue' = PushInto(queue, end', t)
    PROVE  /\ queue' \in Seq(Tasks) /\ end' \in [Tasks -> Nat] /\ Sorted'
           /\ IsInjective(queue') /\ Queued' = Queued \cup {t}
<1>1. queue \in Seq(Tasks) /\ end \in [Tasks -> Nat] /\ InOrder(queue, end) /\ IsInjective(queue)
    BY SortedIsInOrder DEF SchedulerInv, TypeOK, OnePlace
<1>2. PICK e \in [Tasks -> Nat] : e = [end EXCEPT ![t] = at]
    BY Zenon, <1>1
<1>3. InOrder(queue, e)
  <2>1. \A u \in Range(queue) : u \in Tasks /\ u # t
    <3>1. Range(queue) \subseteq Tasks
      BY <1>1 DEF Range
    <3> QED
      BY Zenon, <3>1 DEF Queued
  <2>2. \A u \in Range(queue) : e[u] = end[u]
    BY <1>1, <1>2, <2>1
  <2> QED
    BY SMTT(30), <1>1, <2>2, SameDueTimes
<1>4. PICK q : q = PushInto(queue, e, t)
    OBVIOUS
<1>5. /\ q \in Seq(Tasks) /\ InOrder(q, e) /\ Range(q) = Queued \cup {t} /\ IsInjective(q)
    BY Zenon, <1>1, <1>3, <1>4, PushKeeps DEF Queued
<1>6. queue' = q /\ end' = e
    BY <1>2, <1>4
<1> QED
    BY Zenon, <1>5, <1>6 DEF Sorted, InOrder, Queued

\* Delay and Reschedule: the tasks in have new due times and are inserted again.
LEMMA ModifiedKeeps ==
    ASSUME SchedulerInv, NEW in \in SUBSET Queued, NEW e \in [Tasks -> Nat],
           \A t \in Tasks \ in : e[t] = end[t], end' = e, queue' = Modified(in, e)
    PROVE  queue' \in Seq(Tasks) /\ Sorted' /\ IsInjective(queue') /\ Queued' = Queued
<1>1. queue \in Seq(Tasks) /\ end \in [Tasks -> Nat] /\ InOrder(queue, end) /\ IsInjective(queue)
    BY SortedIsInOrder DEF SchedulerInv, TypeOK, OnePlace
<1>2. PICK stay : stay = Walk(queue, Queued \ in)
    OBVIOUS
<1>3. PICK cache : cache = Walk(queue, in)
    OBVIOUS
<1>4. /\ stay \in Seq(Tasks) /\ Range(stay) = Queued \ in
      /\ InOrder(stay, end) /\ IsInjective(stay)
    BY SMTT(30), <1>1, <1>2, WalkKeeps DEF Queued
<1>5. cache \in Seq(Tasks) /\ Range(cache) = in /\ IsInjective(cache)
  <2>1. cache \in Seq(Tasks) /\ Range(cache) = Queued \cap in /\ IsInjective(cache)
    BY Zenon, <1>1, <1>3, WalkKeeps DEF Queued
  <2> QED
    BY <2>1
<1>6. Range(stay) \subseteq Tasks \ in
    BY <1>1, <1>4 DEF Queued, Range
<1>7. InOrder(stay, e)
    BY <1>4, <1>6, SameDueTimes
<1>8. PICK q : q = InsertRange(stay, e, cache)
    OBVIOUS
<1>9. /\ q \in Seq(Tasks) /\ Range(q) = Range(stay) \cup Range(cache)
      /\ InOrder(q, e) /\ IsInjective(q)
    BY Zenon, <1>4, <1>5, <1>7, <1>8, InsertKeeps
<1>10. queue' = q
    BY <1>2, <1>3, <1>8 DEF Modified
<1>11. Range(q) = Queued
    BY <1>4, <1>5, <1>9
<1> QED
    BY Zenon, <1>9, <1>10, <1>11 DEF Sorted, InOrder, Queued

\* A call of a method of the scheduler or of a context.
LEMMA CallKeeps == ASSUME SchedulerInv, Call PROVE SchedulerInv'
<1>1. TypeOK /\ (pc = "task" => cur \in Tasks) /\ Sorted /\ OnePlace
    BY DEF SchedulerInv
<1>2. Durations \subseteq Nat /\ MaxAsync \in Nat
    BY SchedulerAssumption
<1>a. IsInjective(queue) /\ Queued \cap live = {}
    BY <1>1 DEF OnePlace
<1>3. CASE SetValidator
    BY Zenon, <1>1, <1>3 DEF SetValidator, contexts, SchedulerInv, TypeOK, Sorted, OnePlace, Queued
<1>4. CASE Async
  <2>1. asyncs' \in 0 .. MaxAsync
    BY <1>1, <1>2, <1>4 DEF Async, TypeOK
  <2> QED
    BY Zenon, <1>1, <1>4, <2>1
    DEF Async, clock, contexts, SchedulerInv, TypeOK, Sorted, OnePlace, Queued
<1>5. CASE CancelAll
  <2>1. queue' = <<>> /\ asyncs' = 0 /\ UNCHANGED <<clock, contexts, end, group>>
    BY <1>5 DEF CancelAll
  <2>2. queue' \in Seq(Tasks) /\ DOMAIN queue' = {} /\ asyncs' \in 0 .. MaxAsync
    BY <1>2, <2>1
  <2>3. Sorted' /\ IsInjective(queue') /\ Range(queue') = {}
    BY Zenon, <2>2 DEF Sorted, IsInjective, Range
  <2> QED
    BY Zenon, <1>1, <2>1, <2>2, <2>3 DEF clock, contexts, SchedulerInv, TypeOK, OnePlace, Queued
<1>6. CASE Keep
    BY Zenon, <1>1, <1>6 DEF Keep, clock, SchedulerInv, TypeOK, Sorted, OnePlace, Queued
<1>7. ASSUME NEW gs \in SUBSET Groups, CancelGroupsOf(gs) PROVE SchedulerInv'
  <2>1. queue' = RemoveIf(gs) /\ UNCHANGED <<clock, contexts, end, group, asyncs>>
    BY <1>7 DEF CancelGroupsOf
  <2>2. queue \in Seq(Tasks) /\ end \in [Tasks -> Nat] /\ InOrder(queue, end)
    BY <1>1, SortedIsInOrder DEF TypeOK
  <2>3. PICK q : q = RemoveIf(gs)
    OBVIOUS
  <2>4. q \in Seq(Tasks) /\ InOrder(q, end) /\ IsInjective(q) /\ Range(q) \subseteq Queued
    BY Zenon, <1>a, <2>2, <2>3, WalkKeeps DEF RemoveIf, Queued
  <2>5. queue' = q /\ end' = end
    BY <2>1, <2>3
  <2>6. queue' \in Seq(Tasks) /\ Sorted' /\ IsInjective(queue') /\ Queued' \subseteq Queued
    BY Zenon, <2>4, <2>5 DEF Sorted, InOrder, Queued
  <2> QED
    BY Zenon, <1>1, <1>a, <2>1, <2>6 DEF clock, contexts, SchedulerInv, TypeOK, OnePlace
<1>8. ASSUME NEW t \in Tasks, NEW d \in Durations, NEW g \in Groups \cup {None},
             Schedule(t, d, g) \/ ContextSchedule(t, d, g)
      PROVE  SchedulerInv'
  <2>1. PICK base \in Nat : ScheduleAt(t, base, d, g)
    BY <1>1, <1>8 DEF Schedule, ContextSchedule, TypeOK
  <2>2. base + d \in Nat
    BY <1>2
  <2>3. /\ t \notin Queued /\ t \notin live
        /\ end' = [end EXCEPT ![t] = base + d]
        /\ group' = [group EXCEPT ![t] = g]
        /\ queue' = PushInto(queue, end', t)
        /\ UNCHANGED <<clock, contexts, asyncs>>
    BY <2>1 DEF ScheduleAt, Unused
  <2>4. /\ queue' \in Seq(Tasks) /\ end' \in [Tasks -> Nat] /\ Sorted'
        /\ IsInjective(queue') /\ Queued' = Queued \cup {t}
    BY Zenon, <2>2, <2>3, InsertedKeeps
  <2> QED
    BY Zenon, <1>1, <1>a, <2>3, <2>4 DEF clock, contexts, SchedulerInv, TypeOK, OnePlace
<1>9. ASSUME NEW g \in Groups \cup {None}, NEW d \in Durations, Delay(g, d) \/ Reschedule(g, d)
      PROVE  SchedulerInv'
  <2>1. now \in Nat /\ d \in Nat /\ end \in [Tasks -> Nat] /\ Affected(g) \subseteq Queued
    BY <1>1, <1>2, SchedulerAssumption DEF TypeOK, Affected
  <2>2. PICK e \in [Tasks -> Nat] : end' = e /\ \A t \in Tasks \ Affected(g) : e[t] = end[t]
    <3>1. CASE Delay(g, d)
      BY <2>1, <3>1 DEF Delay
    <3>2. CASE Reschedule(g, d)
      BY <2>1, <3>2 DEF Reschedule
    <3> QED
      BY <1>9, <3>1, <3>2
  <2>3. queue' = Modified(Affected(g), e) /\ UNCHANGED <<clock, contexts, group, asyncs>>
    BY Zenon, <1>9, <2>2 DEF Delay, Reschedule
  <2>4. queue' \in Seq(Tasks) /\ Sorted' /\ IsInjective(queue') /\ Queued' = Queued
    BY Zenon, <2>1, <2>2, <2>3, ModifiedKeeps
  <2> QED
    BY Zenon, <1>1, <1>a, <2>2, <2>3, <2>4 DEF clock, contexts, SchedulerInv, TypeOK, OnePlace
<1>10. ASSUME NEW t \in Tasks, NEW d \in Durations, Repeat(t, d) PROVE SchedulerInv'
  <2>1. end[t] + d \in Nat /\ t \notin Queued
    BY <1>1, <1>2, <1>a, <1>10 DEF Repeat, TypeOK
  <2>2. /\ end' = [end EXCEPT ![t] = end[t] + d]
        /\ queue' = PushInto(queue, end', t)
        /\ live' = live \ {t} /\ kept' = kept \ {t}
        /\ UNCHANGED <<clock, group, asyncs, pc, cur>>
    BY <1>10 DEF Repeat
  <2>3. /\ queue' \in Seq(Tasks) /\ end' \in [Tasks -> Nat] /\ Sorted'
        /\ IsInjective(queue') /\ Queued' = Queued \cup {t}
    BY Zenon, <2>1, <2>2, InsertedKeeps
  <2> QED
    BY Zenon, <1>1, <1>a, <2>2, <2>3 DEF clock, SchedulerInv, TypeOK, OnePlace
<1>11. ASSUME NEW g \in Groups \cup {None}, SetGroup(g) PROVE SchedulerInv'
    BY Zenon, <1>1, <1>11
       DEF SetGroup, clock, contexts, SchedulerInv, TypeOK, Sorted, OnePlace, Queued
<1> QED
    BY Zenon, <1>3, <1>4, <1>5, <1>6, <1>7, <1>8, <1>9, <1>10, <1>11 DEF Call

\* The scheduler's invariant: what every method of TaskScheduler, TaskQueue and TaskContext
\* keeps, for any tasks, durations and times.
THEOREM SchedulerInvHolds == Spec => []SchedulerInv
<1>1. Init => SchedulerInv
  <2> SUFFICES ASSUME Init PROVE SchedulerInv
    OBVIOUS
  <2>1. queue = <<>> /\ DOMAIN queue = {} /\ queue \in Seq(Tasks)
    BY DEF Init
  <2>2. Sorted /\ IsInjective(queue) /\ Range(queue) = {}
    BY <2>1 DEF Sorted, IsInjective, Range
  <2>3. now \in 0 .. MaxTime /\ asyncs \in 0 .. MaxAsync
    BY SchedulerAssumption DEF Init
  <2>4. TypeOK /\ pc # "task"
    BY Zenon, <2>1, <2>3 DEF Init, TypeOK
  <2> QED
    BY <2>2, <2>4 DEF Init, SchedulerInv, OnePlace, Queued
<1>2. SchedulerInv /\ [Next]_vars => SchedulerInv'
  <2> SUFFICES ASSUME SchedulerInv, [Next]_vars PROVE SchedulerInv'
    OBVIOUS
  <2>1. CASE Next
    BY <2>1, TickKeeps, CallKeeps DEF Next
  <2>2. CASE UNCHANGED vars
    BY Zenon, <2>2 DEF vars, clock, contexts, SchedulerInv, TypeOK, Sorted, OnePlace, Queued
  <2> QED
    BY <2>1, <2>2
<1> QED
    BY <1>1, <1>2, PTL DEF Spec

\* The container stays ordered by due time (TaskQueue's multiset), although Delay and
\* Reschedule change the keys of the tasks in it.
THEOREM SchedulerSorted == Spec => []Sorted
<1>1. SchedulerInv => Sorted
    BY DEF SchedulerInv
<1> QED
    BY <1>1, SchedulerInvHolds, PTL

\* A task is in the container once, or in the hands of a context that may repeat it.
THEOREM SchedulerOnePlace == Spec => []OnePlace
<1>1. SchedulerInv => OnePlace
    BY DEF SchedulerInv
<1> QED
    BY <1>1, SchedulerInvHolds, PTL

\* When Dispatch has gone through the tasks and its validator still agrees, no task is left
\* that is due.
THEOREM SchedulerRunsAllDue == Spec => AllDueRan
<1> DEFINE Ran == pc = "task" /\ pc' = "idle" /\ valid => \A t \in Range(queue') : end'[t] > now'
<1>1. SchedulerInv /\ [Next]_vars => [Ran]_vars
  <2> SUFFICES ASSUME SchedulerInv, Next, pc = "task", pc' = "idle", valid
               PROVE  \A t \in Range(queue') : end'[t] > now'
    OBVIOUS
  <2>1. TypeOK /\ Sorted
    BY DEF SchedulerInv
  <2>2. TaskReturns
    BY Zenon
       DEF Next, Update, AsyncReturns, Call, SetValidator, Async, CancelAll, Keep, CancelGroupsOf,
           Schedule, ContextSchedule, ScheduleAt, Delay, Reschedule, Repeat, SetGroup, contexts
  <2>3. DispatchTasks(now) /\ UNCHANGED <<now, end>>
    BY <2>2 DEF TaskReturns, clock
  <2>4. UNCHANGED queue /\ ~(queue # <<>> /\ end[Head(queue)] <= now)
    BY <2>3 DEF DispatchTasks, Stop
  <2>5. ASSUME NEW i \in DOMAIN queue PROVE end[queue[i]] > now
    <3>1. queue # <<>> /\ 1 \in DOMAIN queue /\ Head(queue) = queue[1]
      BY <2>1, <2>5 DEF TypeOK
    <3>2. end[queue[1]] <= end[queue[i]]
      <4>1. CASE i = 1
        BY <2>1, <3>1, <4>1 DEF TypeOK
      <4>2. CASE i # 1
        <5>1. 1 < i
          BY <2>1, <2>5, <4>2 DEF TypeOK
        <5> QED
          BY <2>1, <3>1, <5>1 DEF Sorted
      <4> QED
        BY Zenon, <4>1, <4>2
    <3>3. ~(end[queue[1]] <= now)
      BY <2>4, <3>1
    <3>4. end[queue[1]] \in Nat /\ end[queue[i]] \in Nat /\ now \in Nat
      BY <2>1, <3>1, SchedulerAssumption DEF TypeOK
    <3> QED
      BY <3>2, <3>3, <3>4
  <2> QED
    BY <2>3, <2>4, <2>5 DEF Range
<1> QED
    BY <1>1, SchedulerInvHolds, PTL DEF Spec, AllDueRan

-------------------------------------------------------------------------------
\* What the child has written of a stream is logged or still in the pipe, in this order.
StreamInv(s) ==
    /\ pipes[s] \in Seq(Nat) /\ logged[s] \in Seq(Nat)
    /\ Increasing(logged[s]) /\ Increasing(pipes[s])
    /\ \A x \in Range(logged[s]), y \in Range(pipes[s]) : x < y
    /\ Range(logged[s]) \cup Range(pipes[s]) = {i \in 1 .. written : script[i] = s}

\* A stream the parent is done with has ended.
ProcessInv ==
    /\ ProcessTypeOK
    /\ DOMAIN pipes = Streams /\ DOMAIN logged = Streams
    /\ \A s \in Streams : StreamInv(s)
    /\ parent = "start" => child = "none"
    /\ child = "none" => parent \in {"start", "returned"} /\ \A s \in Streams : pipes[s] = <<>>
    /\ parent \in {"err", "wait", "returned"} => child # "running" /\ pipes["out"] = <<>>
    /\ parent \in {"wait", "returned"} => pipes["err"] = <<>>
    /\ myChild => parent = "wait"

-------------------------------------------------------------------------------
\* A line that is appended, to the log or to a pipe, behind those that came before it.
LEMMA AppendedSet ==
    ASSUME NEW q \in Seq(Nat), NEW e \in Nat
    PROVE  /\ Range(Append(q, e)) = Range(q) \cup {e} /\ Append(q, e) \in Seq(Nat)
           /\ Increasing(q) /\ (\A x \in Range(q) : x < e) => Increasing(Append(q, e))
<1> DEFINE t == Append(q, e)
<1>1. /\ DOMAIN q = 1 .. Len(q) /\ DOMAIN t = 1 .. Len(q) + 1 /\ t[Len(q) + 1] = e
      /\ Len(q) \in Nat /\ (\A i \in 1 .. Len(q) : t[i] = q[i] /\ q[i] \in Nat) /\ t \in Seq(Nat)
  OBVIOUS
<1>2. Range(q) = {q[i] : i \in 1 .. Len(q)} /\ Range(t) = {t[i] : i \in 1 .. Len(q) + 1}
  BY Zenon, <1>1 DEF Range
<1> HIDE DEF t
<1>3. Range(t) = Range(q) \cup {e}
  <2>1. ASSUME NEW x PROVE x \in Range(t) <=> x \in Range(q) \/ x = e
    <3>1. x \in Range(t) <=> \E i \in 1 .. Len(q) + 1 : x = t[i]
      BY Zenon, <1>2
    <3>2. x \in Range(q) <=> \E i \in 1 .. Len(q) : x = q[i]
      BY Zenon, <1>2
    <3> QED
      BY SMTT(30), <1>1, <3>1, <3>2
  <2> QED
    BY <2>1
<1>4. ASSUME Increasing(q), \A x \in Range(q) : x < e PROVE Increasing(t)
  <2>1. SUFFICES ASSUME NEW i \in 1 .. Len(q) + 1, NEW j \in 1 .. Len(q) + 1, i < j
                 PROVE  t[i] < t[j]
    BY Zenon, <1>1 DEF Increasing
  <2>2. i \in 1 .. Len(q) /\ q[i] \in Range(q)
    BY SMTT(30), <1>1, <1>2, <2>1
  <2>3. j \in 1 .. Len(q) \/ j = Len(q) + 1
    BY <1>1
  <2> QED
    BY Zenon, <1>1, <1>4, <2>1, <2>2, <2>3 DEF Increasing
<1> QED
  BY <1>1, <1>3, <1>4 DEF t

\* A line that is taken from the front of a pipe comes before the rest.
LEMMA WithoutHead ==
    ASSUME NEW q \in Seq(Nat), q # <<>>
    PROVE  /\ Range(q) = {Head(q)} \cup Range(Tail(q)) /\ Head(q) \in Nat /\ Tail(q) \in Seq(Nat)
           /\ Len(Tail(q)) <= Len(q)
           /\ Increasing(q) => Increasing(Tail(q)) /\ \A x \in Range(Tail(q)) : Head(q) < x
<1> DEFINE t == Tail(q)
<1>1. /\ DOMAIN q = 1 .. Len(q) /\ Len(q) \in Nat /\ Len(q) >= 1 /\ DOMAIN t = 1 .. Len(q) - 1
      /\ Head(q) = q[1] /\ (\A i \in 1 .. Len(q) - 1 : t[i] = q[i + 1]) /\ t \in Seq(Nat)
      /\ q[1] \in Nat /\ Len(t) = Len(q) - 1
  OBVIOUS
<1>2. Range(q) = {q[i] : i \in 1 .. Len(q)} /\ Range(t) = {t[i] : i \in 1 .. Len(q) - 1}
  BY Zenon, <1>1 DEF Range
<1> HIDE DEF t
<1>3. ASSUME NEW x PROVE x \in Range(q) <=> x = q[1] \/ x \in Range(t)
  <2>1. ASSUME NEW i \in 1 .. Len(q), x = q[i] PROVE x = q[1] \/ x \in Range(t)
    <3>1. CASE i = 1
      BY <2>1, <3>1
    <3>2. CASE i # 1
      <4>1. i - 1 \in 1 .. Len(q) - 1 /\ (i - 1) + 1 = i
        BY <1>1, <3>2
      <4>2. t[i - 1] = q[i]
        BY <1>1, <4>1
      <4> QED
        BY <1>2, <2>1, <4>1, <4>2
    <3> QED
      BY <3>1, <3>2
  <2>2. ASSUME NEW i \in 1 .. Len(q) - 1, x = t[i] PROVE x \in Range(q)
    <3>1. i + 1 \in 1 .. Len(q) /\ t[i] = q[i + 1]
      BY <1>1
    <3> QED
      BY <1>2, <2>2, <3>1
  <2>3. q[1] \in Range(q)
    BY <1>1, <1>2
  <2> QED
    BY <1>2, <2>1, <2>2, <2>3
<1>4. ASSUME Increasing(q) PROVE Increasing(t) /\ \A x \in Range(t) : q[1] < x
  <2>1. ASSUME NEW i \in 1 .. Len(q) - 1, NEW j \in 1 .. Len(q) - 1, i < j PROVE t[i] < t[j]
    <3>1. i + 1 \in 1 .. Len(q) /\ j + 1 \in 1 .. Len(q) /\ i + 1 < j + 1
      BY <1>1, <2>1
    <3> QED
      BY Zenon, <1>1, <1>4, <3>1 DEF Increasing
  <2>2. ASSUME NEW i \in 1 .. Len(q) - 1 PROVE q[1] < t[i]
    <3>1. i + 1 \in 1 .. Len(q) /\ 1 \in 1 .. Len(q) /\ 1 < i + 1
      BY <1>1
    <3> QED
      BY Zenon, <1>1, <1>4, <3>1 DEF Increasing
  <2> QED
    BY Zenon, <1>1, <1>2, <2>1, <2>2 DEF Increasing
<1>5. Range(q) = {q[1]} \cup Range(t)
  BY <1>3
<1> QED
  BY <1>1, <1>4, <1>5 DEF t

\* A line that is written is behind all lines of its stream.
LEMMA ChildWritesStep ==
    ASSUME ProcessAssumption, ProcessInv, ChildWrites
    PROVE  ProcessInv'
<1>0. PICK stream \in Streams : stream = script[written + 1]
  BY DEF ChildWrites, ProcessInv, ProcessTypeOK, ProcessAssumption, Streams
<1>1. /\ child = "running" /\ written < Len(script) /\ Len(pipes[stream]) < PipeSize
      /\ pipes' = [pipes EXCEPT ![stream] = Append(@, written + 1)] /\ written' = written + 1
      /\ UNCHANGED <<script, child, parent, logged, myChild, wasTerminated, exitCode>>
  BY Zenon, <1>0 DEF ChildWrites
<1>2. /\ ProcessTypeOK /\ script \in Seq(Streams) /\ written \in Nat
      /\ DOMAIN pipes = Streams /\ DOMAIN logged = Streams /\ StreamInv(stream)
  BY <1>1 DEF ProcessInv, ProcessTypeOK, ProcessAssumption, Streams
<1>3. parent = "out"
  BY Zenon, <1>1, <1>2 DEF ProcessInv, ProcessTypeOK, Streams
<1>4. /\ pipes'[stream] = Append(pipes[stream], written + 1) /\ DOMAIN pipes' = Streams
      /\ \A s \in Streams : s # stream => pipes'[s] = pipes[s]
  BY <1>1, <1>2
<1>5. written' \in 0 .. Len(script) /\ Len(pipes'[stream]) <= PipeSize
  <2>1. Len(pipes'[stream]) = Len(pipes[stream]) + 1 /\ Len(pipes[stream]) \in Nat
    BY <1>2, <1>4 DEF StreamInv
  <2> QED
    BY <1>1, <1>2, <2>1 DEF ProcessAssumption
<1>6. ProcessTypeOK'
  BY Zenon, <1>1, <1>2, <1>4, <1>5 DEF ProcessTypeOK
<1>7. StreamInv(stream)'
  <2>1. Range(logged[stream]) \cup Range(pipes[stream]) = {i \in 1 .. written : script[i] = stream}
    BY Zenon, <1>2 DEF StreamInv
  <2>2. \A x \in Range(logged[stream]) \cup Range(pipes[stream]) : x < written + 1
    BY <1>2, <2>1
  <2>3. /\ Range(pipes'[stream]) = Range(pipes[stream]) \cup {written + 1}
        /\ Increasing(pipes'[stream]) /\ pipes'[stream] \in Seq(Nat)
    <3>1. pipes[stream] \in Seq(Nat) /\ Increasing(pipes[stream])
      BY Zenon, <1>2 DEF StreamInv
    <3>2. written + 1 \in Nat
      BY <1>2
    <3>3. \A x \in Range(pipes[stream]) : x < written + 1
      BY Zenon, <2>2
    <3> QED
      BY ZenonT(30), <1>4, <3>1, <3>2, <3>3, AppendedSet
  <2>4. {i \in 1 .. written + 1 : script[i] = stream}
          = {i \in 1 .. written : script[i] = stream} \cup {written + 1}
    BY <1>0, <1>2
  <2>5. Range(logged[stream]) \cup Range(pipes'[stream])
          = {i \in 1 .. written + 1 : script[i] = stream}
    BY Zenon, <2>1, <2>3, <2>4
  <2>6. \A x \in Range(logged[stream]), y \in Range(pipes'[stream]) : x < y
    BY ZenonT(30), <1>2, <2>2, <2>3 DEF StreamInv
  <2>7. script' = script /\ written' = written + 1 /\ logged' = logged
    BY <1>1
  <2> QED
    BY Zenon, <1>2, <2>3, <2>5, <2>6, <2>7 DEF StreamInv
<1>8. ASSUME NEW s \in Streams, s # stream PROVE StreamInv(s)'
  <2>1. StreamInv(s) /\ pipes'[s] = pipes[s] /\ logged'[s] = logged[s] /\ script' = script
    BY Zenon, <1>1, <1>4, <1>8 DEF ProcessInv
  <2>2. {i \in 1 .. written + 1 : script[i] = s} = {i \in 1 .. written : script[i] = s}
    BY SMTT(30), <1>0, <1>2, <1>8
  <2> QED
    BY Zenon, <1>1, <2>1, <2>2 DEF StreamInv
<1> QED
  BY Zenon, <1>1, <1>2, <1>3, <1>4, <1>6, <1>7, <1>8 DEF ProcessInv

\* The first line in the pipe is the next one of the log.
LEMMA CopyLineStep ==
    ASSUME ProcessAssumption, ProcessInv, CopyLine
    PROVE  ProcessInv'
<1>1. /\ parent \in Streams /\ pipes[parent] # <<>>
      /\ logged' = [logged EXCEPT ![parent] = Append(@, Head(pipes[parent]))]
      /\ pipes' = [pipes EXCEPT ![parent] = Tail(@)]
      /\ UNCHANGED <<script, written, child, parent, myChild, wasTerminated, exitCode>>
  BY Zenon DEF CopyLine
<1> DEFINE line == Head(pipes[parent])
<1>2. /\ ProcessTypeOK /\ DOMAIN pipes = Streams /\ DOMAIN logged = Streams /\ StreamInv(parent)
      /\ PipeSize \in Nat
  BY Zenon, <1>1 DEF ProcessInv, ProcessAssumption
<1>3. /\ pipes'[parent] = Tail(pipes[parent]) /\ logged'[parent] = Append(logged[parent], line)
      /\ DOMAIN pipes' = Streams /\ DOMAIN logged' = Streams
      /\ \A s \in Streams : s # parent => pipes'[s] = pipes[s] /\ logged'[s] = logged[s]
  BY Zenon, <1>1, <1>2
<1>4. /\ Range(pipes[parent]) = {line} \cup Range(Tail(pipes[parent])) /\ line \in Nat
      /\ Tail(pipes[parent]) \in Seq(Nat) /\ Len(Tail(pipes[parent])) <= Len(pipes[parent])
      /\ Increasing(Tail(pipes[parent])) /\ \A x \in Range(Tail(pipes[parent])) : line < x
  BY Zenon, <1>1, <1>2, WithoutHead DEF StreamInv
<1>5. /\ Range(logged'[parent]) = Range(logged[parent]) \cup {line}
      /\ logged'[parent] \in Seq(Nat) /\ Increasing(logged'[parent])
  <2>1. \A x \in Range(logged[parent]) : x < line
    BY Zenon, <1>2, <1>4 DEF StreamInv
  <2>2. logged[parent] \in Seq(Nat) /\ Increasing(logged[parent]) /\ line \in Nat
    BY Zenon, <1>2, <1>4 DEF StreamInv
  <2> HIDE DEF line
  <2>3. /\ Range(Append(logged[parent], line)) = Range(logged[parent]) \cup {line}
        /\ Append(logged[parent], line) \in Seq(Nat) /\ Increasing(Append(logged[parent], line))
    BY Zenon, <2>1, <2>2, AppendedSet
  <2> QED
    BY Zenon, <1>3, <2>3
<1> HIDE DEF line
<1>6. StreamInv(parent)'
  <2>1. /\ Range(logged'[parent]) \cup Range(pipes'[parent])
             = Range(logged[parent]) \cup Range(pipes[parent])
        /\ \A x \in Range(logged'[parent]), y \in Range(pipes'[parent]) : x < y
    BY Zenon, <1>2, <1>3, <1>4, <1>5 DEF StreamInv
  <2>2. parent' = parent /\ script' = script /\ written' = written
    BY Zenon, <1>1
  <2> QED
    BY Zenon, <1>2, <1>3, <1>4, <1>5, <2>1, <2>2 DEF StreamInv
<1>7. ASSUME NEW s \in Streams, s # parent PROVE StreamInv(s)'
  BY Zenon, <1>1, <1>3, <1>7 DEF ProcessInv, StreamInv
<1>8. ProcessTypeOK'
  <2>1. Len(pipes'[parent]) <= PipeSize
    <3>1. Len(pipes[parent]) <= PipeSize /\ Len(pipes[parent]) \in Nat /\ Len(pipes'[parent]) \in Nat
      BY <1>1, <1>2, <1>3, <1>4 DEF ProcessTypeOK, StreamInv
    <3>2. PipeSize \in Nat /\ Len(pipes'[parent]) <= Len(pipes[parent])
      BY Zenon, <1>2, <1>3, <1>4
    <3> QED
      BY <3>1, <3>2
  <2> QED
    BY Zenon, <1>1, <1>2, <1>3, <2>1 DEF ProcessTypeOK
<1>9. /\ parent' = parent /\ child' = child /\ myChild' = myChild
  BY Zenon, <1>1
<1>10. parent = "err" => pipes'["out"] = <<>>
  BY Zenon, <1>2, <1>3 DEF ProcessInv, Streams
<1>11. \A s \in Streams : StreamInv(s)'
  BY <1>6, <1>7, <1>9
<1>12. child # "none"
  BY Zenon, <1>1 DEF ProcessInv, Streams
<1> QED
  BY <1>1, <1>3, <1>8, <1>9, <1>10, <1>11, <1>12 DEF ProcessInv, Streams
-------------------------------------------------------------------------------
\* The steps that leave the lines alone.
LEMMA StreamsStay ==
    ASSUME ProcessInv, UNCHANGED <<script, written, pipes, logged>>
    PROVE  /\ DOMAIN pipes' = Streams /\ DOMAIN logged' = Streams
           /\ \A s \in Streams : StreamInv(s)'
BY Zenon DEF ProcessInv, StreamInv

\* Where the lines of a child are is known in every state.
THEOREM ProcessInvHolds == ProcessSpec => []ProcessInv
<1> USE ProcessAssumption
<1>1. ProcessInit => ProcessInv
  <2>1. SUFFICES ASSUME ProcessInit PROVE ProcessInv
    OBVIOUS
  <2>2. \A s \in Streams : pipes[s] = <<>> /\ logged[s] = <<>>
    BY <2>1 DEF ProcessInit
  <2>3. Range(<<>>) = {} /\ <<>> \in Seq(Nat) /\ Increasing(<<>>) /\ Len(<<>>) = 0
    BY DEF Range, Increasing
  <2>4. \A s \in Streams : StreamInv(s)
    BY <2>1, <2>2, <2>3 DEF StreamInv, ProcessInit
  <2>5. written \in 0 .. Len(script)
    BY <2>1 DEF ProcessInit, ProcessAssumption
  <2>6. ProcessTypeOK
    <3>1. \A s \in Streams : Len(pipes[s]) <= PipeSize
      BY <2>2, <2>3 DEF ProcessAssumption
    <3> QED
      BY Zenon, <2>1, <2>5, <3>1 DEF ProcessInit, ProcessTypeOK
  <2> QED
    BY Zenon, <2>1, <2>2, <2>4, <2>6 DEF ProcessInit, ProcessInv
<1>2. ProcessInv /\ [ProcessNext]_processVars => ProcessInv'
  <2>1. SUFFICES ASSUME ProcessInv, [ProcessNext]_processVars PROVE ProcessInv'
    OBVIOUS
  <2>2. CASE StartChild
    BY Zenon, <2>1, <2>2, StreamsStay DEF StartChild, ProcessInv, ProcessTypeOK, Streams
  <2>3. CASE StartFails
    BY Zenon, <2>1, <2>3, StreamsStay DEF StartFails, ProcessInv, ProcessTypeOK, Streams
  <2>4. CASE CopyLine
    BY <2>1, <2>4, CopyLineStep
  <2>5. CASE EndOfStream
    <3>1. /\ parent \in {"out", "err"} /\ pipes[parent] = <<>> /\ child = "exited"
          /\ parent' = (IF parent = "out" THEN "err" ELSE "wait") /\ myChild' = (parent = "err")
          /\ UNCHANGED <<script, written, child, pipes, logged, wasTerminated, exitCode>>
      BY Zenon, <2>5 DEF EndOfStream, AfterCopy, Streams
    <3>2. ProcessTypeOK'
      BY Zenon, <2>1, <3>1 DEF ProcessInv, ProcessTypeOK, Streams
    <3>3. CASE parent = "out"
      BY Zenon, <2>1, <3>1, <3>2, <3>3, StreamsStay DEF ProcessInv
    <3>4. CASE parent = "err"
      BY Zenon, <2>1, <3>1, <3>2, <3>4, StreamsStay DEF ProcessInv
    <3> QED
      BY Zenon, <3>1, <3>3, <3>4
  <2>6. CASE Wait
    BY Zenon, <2>1, <2>6, StreamsStay DEF Wait, ProcessInv, ProcessTypeOK, Streams
  <2>7. CASE ChildWrites
    BY <2>1, <2>7, ChildWritesStep
  <2>8. CASE ChildExits
    BY Zenon, <2>1, <2>8, StreamsStay DEF ChildExits, ProcessInv, ProcessTypeOK, Streams
  <2>9. CASE Terminate
    BY Zenon, <2>1, <2>9, StreamsStay DEF Terminate, ProcessInv, ProcessTypeOK, Streams
  <2>10. CASE UNCHANGED processVars
    <3>1. ProcessTypeOK'
      BY Zenon, <2>1, <2>10 DEF processVars, ProcessInv, ProcessTypeOK
    <3> QED
      BY Zenon, <2>1, <2>10, <3>1, StreamsStay DEF processVars, ProcessInv
  <2> QED
    BY <2>1, <2>2, <2>3, <2>4, <2>5, <2>6, <2>7, <2>8, <2>9, <2>10
       DEF ProcessNext, ParentStep, ChildStep
<1> QED
  BY <1>1, <1>2, PTL DEF ProcessSpec

\* When StartProcess returns, every line the child has written is in the log, once and in
\* the order of its stream, whatever the child writes and however small the pipes are.
THEOREM ProcessLogsAll == ProcessSpec => []AllLogged
<1>1. ProcessInv => AllLogged
  <2>1. SUFFICES ASSUME ProcessInv, parent = "returned", NEW s \in Streams
                 PROVE  /\ Range(logged[s]) = {i \in 1 .. written : script[i] = s}
                        /\ Increasing(logged[s])
    BY Zenon DEF AllLogged
  <2>2. pipes[s] = <<>> /\ StreamInv(s)
    BY Zenon, <2>1 DEF ProcessInv, Streams
  <2>3. Range(<<>>) = {}
    BY DEF Range
  <2> QED
    BY Zenon, <2>2, <2>3 DEF StreamInv
<1> QED
  BY <1>1, ProcessInvHolds, PTL

-------------------------------------------------------------------------------
\* Signals. The wait for a signal ends, and the io context is stopped, in the handler alone,
\* which sets the event too.
SignalInv == /\ SignalTypeOK
             /\ RunsUntilStopped
             /\ ioStopped => stopEvent
             /\ stage = "begin" => ioThread = "none"
             /\ stage # "begin" /\ ~waiting => stopEvent

\* The invariant of start-up and signals, for every combination of stages that fail.
THEOREM SignalInvHolds == SignalSpec => []SignalInv
<1>1. SignalInit => SignalInv
  <2> SUFFICES ASSUME SignalInit PROVE SignalInv
    OBVIOUS
  <2>1. signals \in 0 .. MaxSignals
    BY DEF SignalInit, MaxSignals
  <2> QED
    BY Zenon, <2>1 DEF SignalInit, SignalInv, SignalTypeOK, RunsUntilStopped, Stages
<1>2. SignalInv /\ [SignalNext]_signalVars => SignalInv'
  <2> SUFFICES ASSUME SignalInv, [SignalNext]_signalVars PROVE SignalInv'
    OBVIOUS
  <2> USE DEF SignalInv, SignalTypeOK, RunsUntilStopped, Stages
  <2>1. CASE Signal
    <3>1. signals' \in 0 .. MaxSignals
      BY <2>1 DEF Signal, MaxSignals
    <3> QED
      BY Zenon, <2>1, <3>1 DEF Signal
  <2>2. CASE InitializeSignals
    BY Zenon, <2>2 DEF InitializeSignals
  <2>3. CASE LoadOrReturn
    BY Zenon, <2>3 DEF LoadOrReturn
  <2>4. CASE LeaveLoop
    BY Zenon, <2>4 DEF LeaveLoop
  <2>5. CASE JoinThreads
    BY Zenon, <2>5 DEF JoinThreads
  <2>6. CASE Handler
    BY Zenon, <2>6 DEF Handler
  <2>7. CASE RunReturns
    BY Zenon, <2>7 DEF RunReturns
  <2>8. CASE UNCHANGED signalVars
    BY Zenon, <2>8 DEF signalVars
  <2> QED
    BY Zenon, <2>1, <2>2, <2>3, <2>4, <2>5, <2>6, <2>7, <2>8 DEF SignalNext, Main, IoThread
<1> QED
    BY <1>1, <1>2, PTL DEF SignalSpec

\* The thread of the io context does not end before the program is asked to stop.
THEOREM SignalsRunUntilStopped == SignalSpec => []RunsUntilStopped
<1>1. SignalInv => RunsUntilStopped
    BY DEF SignalInv
<1> QED
    BY <1>1, SignalInvHolds, PTL

-------------------------------------------------------------------------------
\* ProgressBar. What is reported is shown or saved; what is saved does not complete the bar.
BarInv == /\ BarTypeOK
          /\ reported = barCurrent + unprint
          /\ ~barCompleted => reported < BarSize
          /\ ~barStopped /\ barCompleted => reported >= BarSize
          /\ barStopped => barCompleted

\* The invariant of the bar, for every size and every amount of progress.
THEOREM BarInvHolds == BarSpec => []BarInv
<1>1. BarInit => BarInv
  <2> SUFFICES ASSUME BarInit PROVE BarInv
    OBVIOUS
  <2>1. /\ barCurrent \in 0 .. BarSize + MaxProgress + 1
        /\ unprint \in 0 .. BarSize + MaxProgress + 1
        /\ reported \in 0 .. BarSize + MaxProgress + 1
        /\ reported = barCurrent + unprint /\ reported < BarSize
    BY BarAssumption DEF BarInit
  <2> QED
    BY Zenon, <2>1 DEF BarInit, BarInv, BarTypeOK
<1>2. BarInv /\ [BarNext]_barVars => BarInv'
  <2> SUFFICES ASSUME BarInv, [BarNext]_barVars PROVE BarInv'
    OBVIOUS
  <2>1. ASSUME NEW progress \in 0 .. MaxProgress, NEW elapsed \in BOOLEAN,
               UpdateBar(progress, elapsed)
        PROVE  BarInv'
    <3>1. PICK saved : saved = SaveUnprintProgress(progress)
      OBVIOUS
    <3>2. /\ BarSize \in Nat /\ BarSize > 0 /\ MaxProgress \in Nat
          /\ barCurrent \in Nat /\ unprint \in Nat /\ reported \in Nat
          /\ reported = barCurrent + unprint /\ reported < BarSize /\ ~barCompleted /\ ~barStopped
      BY <2>1, BarAssumption DEF BarInv, BarTypeOK, UpdateBar
    <3>3. saved \in Nat /\ saved > unprint /\ saved <= unprint + MaxProgress + 1
      BY <3>1, <3>2 DEF SaveUnprintProgress
    <3>4. reported' = barCurrent + saved /\ barStopped' = barStopped
          /\ barShown' \in BOOLEAN
      BY <2>1, <3>1, <3>2, <3>3 DEF UpdateBar
    <3>5. CASE CanPrintProgress(saved, elapsed)
      <4>1. unprint' = 0 /\ barCurrent' = barCurrent + saved /\ barCompleted' = (barCurrent' >= BarSize)
        BY Zenon, <2>1, <3>1, <3>5 DEF UpdateBar
      <4>2. barCompleted' \in BOOLEAN /\ barStopped' = FALSE
        BY <3>2, <3>4, <4>1
      <4>3. /\ barCurrent' \in 0 .. BarSize + MaxProgress + 1
            /\ unprint' \in 0 .. BarSize + MaxProgress + 1
            /\ reported' \in 0 .. BarSize + MaxProgress + 1
            /\ reported' = barCurrent' + unprint'
            /\ ~(barCurrent' >= BarSize) => reported' < BarSize
            /\ barCurrent' >= BarSize => reported' >= BarSize
        BY <3>2, <3>3, <3>4, <4>1
      <4> QED
        BY Zenon, <3>4, <4>1, <4>2, <4>3 DEF BarInv, BarTypeOK
    <3>6. CASE ~CanPrintProgress(saved, elapsed)
      <4>1. unprint' = saved /\ barCurrent' = barCurrent /\ barCompleted' = (barCurrent >= BarSize)
        BY Zenon, <2>1, <3>1, <3>6 DEF UpdateBar
      <4>2. barCurrent + saved < BarSize
        BY <3>2, <3>3, <3>6 DEF CanPrintProgress
      <4>3. ~(barCurrent >= BarSize)
        BY <3>2
      <4>a. ~barCompleted' /\ barCompleted' \in BOOLEAN
        <5>1. barCompleted' \in BOOLEAN
          BY <3>2, <4>1
        <5>2. barCompleted' => barCurrent >= BarSize
          BY Zenon, <3>2, <4>1
        <5> QED
          BY <4>3, <5>1, <5>2
      <4>b. barStopped' = FALSE
        BY <3>2, <3>4
      <4>4. /\ barCurrent' \in 0 .. BarSize + MaxProgress + 1
            /\ unprint' \in 0 .. BarSize + MaxProgress + 1
            /\ reported' \in 0 .. BarSize + MaxProgress + 1
            /\ reported' = barCurrent' + unprint' /\ reported' < BarSize
        BY <3>2, <3>3, <3>4, <4>1, <4>2
      <4> QED
        BY Zenon, <3>4, <4>a, <4>b, <4>4 DEF BarInv, BarTypeOK
    <3> QED
      BY <3>5, <3>6
  <2>2. CASE StopBar
    BY Zenon, <2>2 DEF StopBar, BarInv, BarTypeOK
  <2>3. CASE UNCHANGED barVars
    BY Zenon, <2>3 DEF barVars, BarInv, BarTypeOK
  <2> QED
    BY <2>1, <2>2, <2>3 DEF BarNext
<1> QED
    BY <1>1, <1>2, PTL DEF BarSpec

\* The bar is completed by the Update that reports the last of the work, and by no other.
THEOREM BarCompletes == BarSpec => []CompletedWithTheWork
<1>1. BarInv => CompletedWithTheWork
    BY BarAssumption DEF BarInv, BarTypeOK, CompletedWithTheWork
<1> QED
    BY <1>1, BarInvHolds, PTL
===============================================================================
