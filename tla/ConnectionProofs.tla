---------------------------- MODULE ConnectionProofs ----------------------------
(*************************************************************************)
(* Proofs about Connection: for any number of connections and jobs, any  *)
(* length of the transactions and any bound on attempts and retries.     *)
(*************************************************************************)
EXTENDS Connection, TLAPS

Codes == {"ok", "deadlock", "error"}

\* Where a call of ExecuteTransaction or Execute starts: at p, with return code k.
Entered(c, j, p, k) ==
    /\ pc' = [pc EXCEPT ![c] = p]
    /\ code' = [code EXCEPT ![c] = k]
    /\ p = "returned" => Size(j) = 0 /\ k = "error"
    /\ p = "query" => Size(j) > 0 /\ Kind[j] = "statement"
    /\ p = "begin" => Size(j) > 0 /\ Kind[j] # "statement"

\* Where the thread is after the statement of stage s was executed.
Advanced(c, s, p, k, q) ==
    /\ pc' = [pc EXCEPT ![c] = p]
    /\ code' = [code EXCEPT ![c] = k]
    /\ pos' = [pos EXCEPT ![c] = q]
    /\ s = "begin" => p = "query" /\ q = pos[c]
    /\ s = "query" => \/ p = "query" /\ q = pos[c] + 1 /\ pos[c] < Size(job[c])
                      \/ p = "commit" /\ pos[c] = Size(job[c]) /\ Kind[job[c]] # "statement"
                      \/ /\ p = "returned" /\ k = "ok"
                         /\ pos[c] = Size(job[c]) /\ Kind[job[c]] = "statement"
    /\ s = "commit" => p = "returned" /\ k = "ok"
    /\ s = "rollback" => p = "returned" /\ k = code[c]

\* Where the thread is after the statement of stage s returned false.
Fallen(c, s, errno, p, k) ==
    /\ pc' = [pc EXCEPT ![c] = p]
    /\ code' = [code EXCEPT ![c] = k]
    /\ pos' = pos
    /\ s = "begin" <=> p = "query"
    /\ s = "query" => IF Kind[job[c]] = "statement" THEN p = "returned" /\ k = "error"
                      ELSE p = "rollback" /\ k = errno
    /\ s \in {"commit", "rollback"} => p = "returned"

\* A step of another thread leaves connection d and its thread alone.
SameAt(d) == /\ handle'[d] = handle[d] /\ stale'[d] = stale[d]
             /\ inTrans'[d] = inTrans[d] /\ work'[d] = work[d]
             /\ pc'[d] = pc[d] /\ job'[d] = job[d] /\ pos'[d] = pos[d] /\ code'[d] = code[d]
             /\ resume'[d] = resume[d]

\* A session that a step leaves alone is as it was.
LEMMA SessionKept ==
    ASSUME Session, NEW c \in Conns, \A d \in Conns \ {c} : SameAt(d), SessionOf(c)'
    PROVE  Session'
<1>1. ASSUME NEW d \in Conns \ {c} PROVE SessionOf(d)'
  BY <1>1 DEF Session, SessionOf, SameAt
<1> QED
  BY <1>1 DEF Session

\* A step of one thread, which touches the durable statements of its own job only,
\* leaves the progress of the others as it was.
LEMMA ProgressKept ==
    ASSUME Binding, Progress, NEW c \in Conns, \A d \in Conns \ {c} : SameAt(d),
           \A i \in Jobs : i # job'[c] => table'[i] = table[i],
           disturbed \subseteq disturbed',
           \A d \in Conns \ {c} : job[d] # None => job[d] \in Jobs /\ job[d] # job'[c],
           ProgressOf(c)'
    PROVE  Progress'
<1>1. ASSUME NEW d \in Conns \ {c} PROVE ProgressOf(d)'
  <2>1. ProgressOf(d) /\ SameAt(d)
    BY DEF Progress
  <2>2. job[d] # None /\ job[d] \notin disturbed' =>
            table'[job[d]] = table[job[d]] /\ job[d] \notin disturbed
    OBVIOUS
  <2> QED
    BY <2>1, <2>2 DEF ProgressOf, SameAt
<1> QED
  BY <1>1 DEF Progress

\* The uncommitted statements grow by the one that was executed.
LEMMA AppendNext == ASSUME NEW n \in Nat \ {0} PROVE Append(Upto(n - 1), n) = Upto(n)
<1>1. Upto(n - 1) \in Seq(Nat) /\ Len(Upto(n - 1)) = n - 1
  BY DEF Upto
<1>2. Upto(n) \in Seq(Nat) /\ Len(Upto(n)) = n
  BY DEF Upto
<1> QED
  BY <1>1, <1>2 DEF Upto

\* An empty transaction has nothing to apply, a single statement is the first.
LEMMA UptoSmall == Upto(0) = <<>> /\ Append(<<>>, 1) = Upto(1)
<1>1. Upto(0) = <<>>
  BY DEF Upto
<1>2. PICK n \in Nat \ {0} : n = 1
  OBVIOUS
<1>3. Append(Upto(n - 1), n) = Upto(n)
  BY Zenon, AppendNext
<1>4. n - 1 = 0
  BY <1>2
<1> QED
  BY Zenon, <1>1, <1>2, <1>3, <1>4

\* COMMIT on behalf of a job without durable statements.
LEMMA CommitFirst == ASSUME NEW s \in Seq(Nat) PROVE <<>> \o s = s
OBVIOUS

\* Transactions are finite.
LEMMA SizeType == \A j \in Jobs : Size(j) \in Nat
BY ConnectionAssumption DEF Size

\* A call starts at its first statement, or returns at once.
LEMMA EnterFacts ==
    ASSUME TypeOK, NEW c \in Conns, NEW j \in Jobs, Enter(c, j)
    PROVE  \E p \in {"returned", "query", "begin"}, k \in Codes : Entered(c, j, p, k)
<1>1. CASE Size(j) = 0
  BY <1>1 DEF Entered, Enter, Codes
<1>2. CASE Size(j) # 0
  <2>1. code' = [code EXCEPT ![c] = code[c]] /\ code[c] \in Codes
    BY <1>2 DEF Entered, Enter, TypeOK, Codes
  <2>2. Size(j) > 0
    BY <1>2, SizeType
  <2>3. CASE Kind[j] = "statement"
    BY Zenon, <1>2, <2>1, <2>2, <2>3 DEF Entered, Enter
  <2>4. CASE Kind[j] # "statement"
    BY Zenon, <1>2, <2>1, <2>2, <2>4 DEF Entered, Enter
  <2> QED
    BY <2>3, <2>4
<1> QED
  BY <1>1, <1>2

\* The six continuations of a statement that was executed.
LEMMA AdvanceFacts ==
    ASSUME TypeOK, NEW c \in Conns, NEW s \in Sending, job[c] \in Jobs, Advance(c, s)
    PROVE  \E p \in {"returned", "query", "commit"}, k \in Codes, q \in Nat \ {0} :
              Advanced(c, s, p, k, q)
<1>1. code[c] \in Codes /\ code = [code EXCEPT ![c] = code[c]]
  BY DEF TypeOK, Codes
<1>2. pos[c] \in Nat \ {0} /\ pos = [pos EXCEPT ![c] = pos[c]] /\ pos[c] + 1 \in Nat \ {0}
  BY SMTT(30) DEF TypeOK
<1>3. CASE s = "begin"
  BY <1>1, <1>2, <1>3 DEF Advanced, Advance
<1>4. CASE s = "query"
  BY <1>1, <1>2, <1>4 DEF Advanced, Advance, ReturnOk, Codes
<1>5. CASE s = "commit"
  BY <1>1, <1>2, <1>5 DEF Advanced, Advance, ReturnOk, Codes
<1>6. CASE s = "rollback"
  BY <1>1, <1>2, <1>6 DEF Advanced, Advance
<1> QED
  BY <1>3, <1>4, <1>5, <1>6 DEF Sending

\* The continuations of a statement that returned false.
LEMMA FallFacts ==
    ASSUME TypeOK, NEW c \in Conns, NEW s \in Sending, NEW errno \in Codes,
           job[c] \in Jobs, Fall(c, s, errno)
    PROVE  \E p \in {"returned", "query", "rollback"}, k \in Codes :
              Fallen(c, s, errno, p, k)
<1>1. CASE s = "query"
  <2>1. CASE Kind[job[c]] = "statement"
    BY <1>1, <2>1 DEF Fallen, Fall, Codes
  <2>2. CASE Kind[job[c]] # "statement"
    BY <1>1, <2>2 DEF Fallen, Fall, Codes
  <2> QED
    BY <2>1, <2>2
<1>2. CASE s # "query"
  <2>1. Advance(c, s)
    BY <1>2 DEF Fall
  <2>2. pos' = pos
    BY <1>2, <2>1 DEF Advance, ReturnOk
  <2> QED
    BY <1>2, <2>1, <2>2, AdvanceFacts DEF Sending, Advanced, Fallen
<1> QED
  BY <1>1, <1>2

\* A connection takes a job: the job has no effect yet.
LEMMA StartStep ==
    ASSUME IndInv, ~aborted, NEW c \in Conns, NEW j \in Jobs, Start(c, j)
    PROVE  IndInv'
<1> USE ConnectionAssumption
<1>0. TypeOK /\ Binding /\ Session /\ Fresh /\ Faithful /\ Progress
  BY DEF IndInv
<1>1. PICK p \in {"returned", "query", "begin"}, k \in Codes : Entered(c, j, p, k)
  BY <1>0, EnterFacts DEF Start
<1>frame. \A d \in Conns \ {c} : SameAt(d)
  BY <1>0, <1>1 DEF Start, Entered, SameAt, TypeOK, serverVars
<1>2. TypeOK'
  BY Zenon, <1>0, <1>1 DEF Start, Entered, Codes, TypeOK, Sending, serverVars, loopVars, faultVars
<1>3. Binding'
  <2>1. \A d \in Conns : job[d] # j
    BY Zenon, <1>0 DEF Start, Binding
  <2>2. pc' = [pc EXCEPT ![c] = p] /\ p # "idle" /\ job' = [job EXCEPT ![c] = j] /\ j # None
    BY <1>0, <1>1 DEF Start, Entered
  <2>3. status' = [status EXCEPT ![j] = "running"]
    BY DEF Start
  <2>4. \A d \in Conns : job'[d] # None => status'[job'[d]] = "running"
    <3>1. /\ job'[c] = j /\ status'[j] = "running" /\ \A d \in Conns \ {c} : job'[d] = job[d]
          /\ \A i \in Jobs : status'[i] = IF i = j THEN "running" ELSE status[i]
      BY Zenon, <1>0, <2>2, <2>3 DEF TypeOK
    <3>2. \A d \in Conns : job[d] # None => job[d] \in Jobs /\ status[job[d]] = "running"
      BY <1>0 DEF TypeOK, Binding
    <3> QED
      BY Zenon, <3>1, <3>2
  <2>5. \A d, e \in Conns : job'[d] # None /\ job'[d] = job'[e] => d = e
    <3>1. job'[c] = j /\ \A d \in Conns \ {c} : job'[d] = job[d]
      BY Zenon, <1>0, <2>2 DEF TypeOK
    <3>2. \A d, e \in Conns : job[d] # None /\ job[d] = job[e] => d = e
      BY Zenon, <1>0 DEF Binding
    <3> QED
      BY <2>1, <3>1, <3>2
  <2>6. \A d \in Conns : pc'[d] = "idle" <=> job'[d] = None
    BY <1>0, <2>2 DEF TypeOK, Binding
  <2> QED
    BY <2>4, <2>5, <2>6 DEF Binding
<1>4. Session'
  <2>1. SessionOf(c)
    BY <1>0 DEF Session
  <2>2. SessionOf(c)'
    BY <1>0, <1>1, <2>1 DEF Start, Entered, SessionOf, TypeOK, Sending, serverVars
  <2> QED
    BY <1>0, <1>frame, <2>2, SessionKept
<1>5. Fresh'
  BY SMTT(30), <1>0, <1>1 DEF Start, Entered, TypeOK, Binding, Sending, serverVars, loopVars, Fresh
<1>6. Faithful'
  BY SMTT(30), <1>0, <1>1
     DEF Start, TypeOK, Binding, serverVars, loopVars, faultVars, Fresh, Faithful
<1>7. (aborted \/ Progress)'
  <2>1. /\ \A i \in Jobs : i # job'[c] => table'[i] = table[i]
        /\ disturbed \subseteq disturbed'
    BY <1>0 DEF Start, TypeOK, serverVars, faultVars
  <2>2. \A d \in Conns \ {c} : job[d] # None => job[d] \in Jobs /\ job[d] # job'[c]
    BY <1>0 DEF Start, TypeOK, Binding
  <2>3. ProgressOf(c)'
    <3>1. table[j] = <<>> /\ pos[c] = 1 /\ (~stale[c] => handle[c])
      BY <1>0 DEF Start, Fresh, Session, SessionOf
    <3>2. /\ pc'[c] = p /\ code'[c] = k /\ job'[c] = j /\ pos'[c] = 1
          /\ table' = table /\ handle' = handle /\ stale' = stale
      BY <1>0, <1>1, <3>1 DEF Start, Entered, TypeOK, serverVars
    <3>3. j \notin disturbed' => ~stale[c]
      BY DEF Start
    <3> QED
      BY <1>1, <3>1, <3>2, <3>3, SizeType DEF Entered, ProgressOf
  <2> QED
    BY Zenon, <1>0, <1>frame, <2>1, <2>2, <2>3, ProgressKept
<1> QED
  BY <1>2, <1>3, <1>4, <1>5, <1>6, <1>7 DEF IndInv

\* The server executes a statement.
LEMMA SendOkStep ==
    ASSUME IndInv, ~aborted, NEW c \in Conns, SendOk(c)
    PROVE  IndInv'
<1> USE ConnectionAssumption
<1>0. TypeOK /\ Binding /\ Session /\ Fresh /\ Faithful /\ Progress
  BY DEF IndInv
<1>1. job[c] \in Jobs
  BY SMTT(30), <1>0 DEF SendOk, TypeOK, Binding, Sending
<1>2. PICK p \in {"returned", "query", "commit"}, k \in Codes, q \in Nat \ {0} :
               Advanced(c, pc[c], p, k, q)
  BY Zenon, <1>0, <1>1, AdvanceFacts DEF SendOk
<1>3. /\ inTrans'[c] = (pc[c] = "begin" \/ (pc[c] = "query" /\ inTrans[c]))
      /\ work'[c] = IF pc[c] = "query" /\ inTrans[c] THEN Append(work[c], pos[c]) ELSE <<>>
      /\ pc'[c] = p /\ pos'[c] = q /\ code'[c] = k
      /\ job'[c] = job[c] /\ handle'[c] = handle[c] /\ stale'[c] = stale[c] /\ handle[c]
      /\ table'[job[c]] = Durable(c) /\ disturbed' = disturbed
  BY SMTT(30), <1>0, <1>1, <1>2 DEF SendOk, Advanced, TypeOK, Unusable, faultVars
\* What the server has of an undisturbed job after the statement.
<1>4. job[c] \notin disturbed =>
          table'[job[c]] = IF p = "returned" /\ k = "ok" THEN Upto(Size(job[c])) ELSE <<>>
  <2> SUFFICES ASSUME job[c] \notin disturbed
               PROVE  Durable(c) = IF p = "returned" /\ k = "ok" THEN Upto(Size(job[c])) ELSE <<>>
    BY Zenon, <1>3
  <2>1. ProgressOf(c) /\ job[c] # None
    BY <1>0, <1>1 DEF Progress
  <2>2. table[job[c]] = <<>>
    BY Zenon, <2>1 DEF SendOk, ProgressOf, Sending
  <2>3. CASE pc[c] = "begin"
    BY Zenon, <1>2, <2>2, <2>3 DEF Durable, Advanced
  <2>4. CASE pc[c] = "query" /\ Kind[job[c]] = "statement"
    <3>1. pos[c] = 1 /\ Size(job[c]) = 1 /\ ~inTrans[c]
      BY <1>0, <1>1, <2>1, <2>4 DEF ProgressOf, Size, Session, SessionOf
    <3> QED
      BY <1>2, <2>2, <2>4, <3>1, UptoSmall DEF Durable, Advanced
  <2>5. CASE pc[c] = "query" /\ Kind[job[c]] # "statement"
    BY Zenon, <1>2, <2>1, <2>2, <2>5 DEF Durable, Advanced, ProgressOf
  <2>6. CASE pc[c] = "commit"
    BY SMTT(30), <1>0, <1>2, <2>1, <2>2, <2>6, CommitFirst DEF Durable, Advanced, ProgressOf, TypeOK
  <2>7. CASE pc[c] = "rollback"
    BY Zenon, <1>2, <2>1, <2>2, <2>7 DEF Durable, Advanced, ProgressOf
  <2> QED
    BY Zenon, <2>3, <2>4, <2>5, <2>6, <2>7 DEF SendOk, Sending
<1>frame. \A d \in Conns \ {c} : SameAt(d)
  BY Zenon, <1>0, <1>2 DEF SendOk, Advanced, SameAt, TypeOK, serverVars
<1>5. TypeOK'
  <2>1. Durable(c) \in Seq(Nat)
    BY <1>0, <1>1 DEF Durable, TypeOK
  <2>2. table' \in [Jobs -> Seq(Nat)]
    BY <1>0, <1>1, <2>1 DEF SendOk, TypeOK
  <2>3. work' \in [Conns -> Seq(Nat)]
    BY <1>0 DEF SendOk, TypeOK
  <2>4. inTrans' \in [Conns -> BOOLEAN]
    BY <1>0 DEF SendOk, TypeOK
  <2>5. /\ pc' \in [Conns -> Sending \cup {"idle", "reconnect", "returned"}]
        /\ code' \in [Conns -> Codes] /\ pos' \in [Conns -> Nat \ {0}]
    BY Zenon, <1>0, <1>2 DEF Advanced, TypeOK, Codes, Sending
  <2> QED
    BY Zenon, <1>0, <2>2, <2>3, <2>4, <2>5 DEF SendOk, TypeOK, Codes, loopVars, faultVars
<1>6. Binding'
  BY ZenonT(30), <1>0, <1>1, <1>2 DEF SendOk, Advanced, Durable, TypeOK, Binding, Sending, loopVars
<1>7. Session'
  <2>1. SessionOf(c)
    BY <1>0 DEF Session
  <2>2. SessionOf(c)'
    BY Zenon, <1>2, <1>3, <2>1 DEF SendOk, Advanced, SessionOf, Sending
  <2> QED
    BY <1>0, <1>frame, <2>2, SessionKept
<1>8. Fresh'
  BY <1>0, <1>1, <1>2, ZenonT(60)
     DEF SendOk, Advanced, Durable, TypeOK, Binding, Sending, serverVars, loopVars, Fresh
<1>9. Faithful'
  <2>1. ASSUME NEW i \in Jobs, i \notin disturbed, i # job[c]
        PROVE  table'[i] = table[i] /\ status'[i] = status[i]
    BY <1>0, <1>1, <2>1 DEF SendOk, TypeOK, loopVars
  <2>2. job[c] \notin disturbed => table'[job[c]] \in {<<>>, Upto(Size(job[c]))}
    BY <1>4
  <2>3. status'[job[c]] = "running" /\ disturbed' = disturbed
    BY Zenon, <1>0, <1>1 DEF SendOk, Binding, loopVars, faultVars
  <2> QED
    BY <1>0, <2>1, <2>2, <2>3 DEF Faithful
<1>10. (aborted \/ Progress)'
  <2>1. /\ \A i \in Jobs : i # job'[c] => table'[i] = table[i]
        /\ disturbed \subseteq disturbed'
    BY <1>0 DEF SendOk, TypeOK, serverVars, faultVars
  <2>2. \A d \in Conns \ {c} : job[d] # None => job[d] \in Jobs /\ job[d] # job'[c]
    BY <1>0 DEF SendOk, TypeOK, Binding
  <2>3. ProgressOf(c)'
    <3> SUFFICES ASSUME job[c] \notin disturbed PROVE ProgressOf(c)'
      BY Zenon, <1>3 DEF ProgressOf
    <3>1. ProgressOf(c) /\ job[c] # None
      BY <1>0, <1>1 DEF Progress
    <3>2. pos[c] \in Nat \ {0} /\ Size(job[c]) \in Nat
      BY <1>0, <1>1, SizeType DEF TypeOK
    <3>3. CASE pc[c] = "begin"
      <4>1. q = 1 /\ p = "query" /\ Upto(q - 1) = <<>>
        BY <1>2, <3>1, <3>3, UptoSmall, SMTT(30) DEF Advanced, ProgressOf
      <4>2. inTrans'[c] /\ work'[c] = <<>> /\ table'[job[c]] = <<>>
        BY Zenon, <1>3, <1>4, <3>3, <4>1
      <4> QED
        BY <1>3, <3>1, <3>2, <3>3, <4>1, <4>2, SMTT(30) DEF ProgressOf
    <3>4. CASE pc[c] = "query" /\ Kind[job[c]] = "statement"
      <4>1. Size(job[c]) = 1
        BY <1>1, <3>4 DEF Size
      <4> QED
        BY <1>2, <1>3, <1>4, <3>1, <3>2, <3>4, <4>1, SMTT(30) DEF Advanced, ProgressOf
    <3>5. CASE pc[c] = "query" /\ Kind[job[c]] # "statement"
      <4>1. inTrans'[c] /\ work'[c] = Upto(pos[c])
        BY Zenon, <1>3, <3>1, <3>2, <3>5, AppendNext DEF ProgressOf
      <4> QED
        BY <1>2, <1>3, <1>4, <3>1, <3>2, <3>5, <4>1, SMTT(30) DEF Advanced, ProgressOf
    <3>6. CASE pc[c] \in {"commit", "rollback"}
      BY Zenon, <1>2, <1>3, <1>4, <3>1, <3>2, <3>6 DEF Advanced, ProgressOf
    <3> QED
      BY Zenon, <3>3, <3>4, <3>5, <3>6 DEF SendOk, Sending
  <2> QED
    BY Zenon, <1>0, <1>frame, <2>1, <2>2, <2>3, ProgressKept
<1> QED
  BY <1>5, <1>6, <1>7, <1>8, <1>9, <1>10 DEF IndInv

\* The server refuses a statement.
LEMMA SendFailsStep ==
    ASSUME IndInv, ~aborted, NEW c \in Conns, NEW errno \in {"deadlock", "error"}, SendFails(c, errno)
    PROVE  IndInv'
<1> USE ConnectionAssumption
<1>0. TypeOK /\ Binding /\ Session /\ Fresh /\ Faithful /\ Progress
  BY DEF IndInv
<1>1. job[c] \in Jobs
  BY <1>0 DEF SendFails, TypeOK, Binding, Sending
<1>2. errno \in Codes /\ "query" \in Sending
  BY DEF Codes, Sending
<1>3. PICK p \in {"returned", "query", "rollback"}, k \in Codes : Fallen(c, "query", errno, p, k)
  BY <1>0, <1>1, <1>2, FallFacts DEF SendFails
<1>frame. \A d \in Conns \ {c} : SameAt(d)
  BY <1>0, <1>3 DEF SendFails, Fallen, SameAt, TypeOK, serverVars
<1>4. TypeOK'
  <2>1. inTrans' \in [Conns -> BOOLEAN]
    BY <1>0 DEF SendFails, TypeOK
  <2>2. work' \in [Conns -> Seq(Nat)]
    BY <1>0 DEF SendFails, TypeOK
  <2>3. /\ pc' \in [Conns -> Sending \cup {"idle", "reconnect", "returned"}]
        /\ code' \in [Conns -> Codes] /\ pos' \in [Conns -> Nat \ {0}]
    BY Zenon, <1>0, <1>3 DEF Fallen, TypeOK, Codes, Sending
  <2> QED
    BY Zenon, <1>0, <2>1, <2>2, <2>3 DEF SendFails, TypeOK, Codes, loopVars, faultVars
<1>5. Binding'
  BY SMTT(30), <1>0, <1>1, <1>2, <1>3 DEF SendFails, Fallen, TypeOK, Binding, Sending, loopVars
<1>6. Session'
  <2>1. SessionOf(c)
    BY <1>0 DEF Session
  <2>2. SessionOf(c)'
    BY Zenon, <1>0, <1>3, <2>1 DEF SendFails, Fallen, SessionOf, TypeOK, Sending, serverVars
  <2> QED
    BY <1>0, <1>frame, <2>2, SessionKept
<1>7. Fresh'
  BY <1>0, <1>1, <1>2, <1>3
     DEF SendFails, Fallen, TypeOK, Binding, Sending, serverVars, loopVars, Fresh
<1>8. Faithful'
  BY Zenon, <1>0, <1>1, <1>2, <1>3
     DEF SendFails, TypeOK, Binding, serverVars, loopVars, faultVars, Faithful
<1>9. (aborted \/ Progress)'
  <2>1. /\ \A i \in Jobs : i # job'[c] => table'[i] = table[i]
        /\ disturbed \subseteq disturbed'
    BY <1>0 DEF SendFails, TypeOK, serverVars, faultVars
  <2>2. \A d \in Conns \ {c} : job[d] # None => job[d] \in Jobs /\ job[d] # job'[c]
    BY <1>0 DEF SendFails, TypeOK, Binding
  <2>3. ProgressOf(c)'
    BY ZenonT(30), <1>0, <1>1, <1>2, <1>3
       DEF SendFails, Fallen, TypeOK, serverVars, faultVars, ProgressOf, Progress
  <2> QED
    BY Zenon, <1>0, <1>frame, <2>1, <2>2, <2>3, ProgressKept
<1> QED
  BY <1>4, <1>5, <1>6, <1>7, <1>8, <1>9 DEF IndInv

\* A statement is not sent: its job is disturbed.
LEMMA SendUnusableStep ==
    ASSUME IndInv, ~aborted, NEW c \in Conns, SendUnusable(c)
    PROVE  IndInv'
<1> USE ConnectionAssumption
<1>0. TypeOK /\ Binding /\ Session /\ Fresh /\ Faithful /\ Progress
  BY DEF IndInv
<1>1. job[c] \in Jobs
  BY SMTT(30), <1>0 DEF SendUnusable, TypeOK, Binding, Sending
<1>2. "ok" \in Codes
  BY DEF Codes
<1>3. PICK p \in {"returned", "query", "rollback"}, k \in Codes : Fallen(c, pc[c], "ok", p, k)
  BY Zenon, <1>0, <1>1, <1>2, FallFacts DEF SendUnusable
<1>4. job[c] \in disturbed /\ (pc[c] # "query" => ~handle[c])
  BY Zenon, <1>0, <1>1 DEF SendUnusable, Unusable, IsPrepared, Progress, ProgressOf, Binding
<1>frame. \A d \in Conns \ {c} : SameAt(d)
  BY Zenon, <1>0, <1>3 DEF SendUnusable, Fallen, SameAt, TypeOK, serverVars
<1>5. TypeOK'
  BY Zenon, <1>0, <1>1, <1>2, <1>3, <1>4
     DEF SendUnusable, Fallen, Codes, TypeOK, Sending, serverVars, loopVars, faultVars
<1>6. Binding'
  BY SMTT(30), <1>0, <1>1, <1>2, <1>3, <1>4
     DEF SendUnusable, Fallen, TypeOK, Binding, Sending, loopVars
<1>7. Session'
  <2>1. SessionOf(c)
    BY <1>0 DEF Session
  <2>2. SessionOf(c)'
    BY Zenon, <1>0, <1>3, <1>4, <2>1
       DEF SendUnusable, Fallen, SessionOf, TypeOK, Sending, serverVars
  <2> QED
    BY <1>0, <1>frame, <2>2, SessionKept
<1>8. Fresh'
  BY <1>0, <1>1, <1>2, <1>3, <1>4
     DEF SendUnusable, Fallen, TypeOK, Binding, Sending, serverVars, loopVars, Fresh
<1>9. Faithful'
  BY Zenon, <1>0, <1>1, <1>2, <1>3, <1>4
     DEF SendUnusable, TypeOK, Binding, serverVars, loopVars, faultVars, Faithful
<1>10. (aborted \/ Progress)'
  <2>1. /\ \A i \in Jobs : i # job'[c] => table'[i] = table[i]
        /\ disturbed \subseteq disturbed'
    BY <1>0 DEF SendUnusable, TypeOK, serverVars, faultVars
  <2>2. \A d \in Conns \ {c} : job[d] # None => job[d] \in Jobs /\ job[d] # job'[c]
    BY <1>0 DEF SendUnusable, TypeOK, Binding
  <2>3. ProgressOf(c)'
    BY Zenon, <1>0, <1>1, <1>2, <1>3, <1>4
       DEF SendUnusable, Fallen, TypeOK, serverVars, faultVars, ProgressOf
  <2> QED
    BY Zenon, <1>0, <1>frame, <2>1, <2>2, <2>3, ProgressKept
<1> QED
  BY <1>5, <1>6, <1>7, <1>8, <1>9, <1>10 DEF IndInv

\* The session is lost: the job becomes disturbed.
LEMMA SendLostStep ==
    ASSUME IndInv, ~aborted, NEW c \in Conns, SendLost(c)
    PROVE  IndInv'
<1> USE ConnectionAssumption
<1>0. TypeOK /\ Binding /\ Session /\ Fresh /\ Faithful /\ Progress
  BY DEF IndInv
<1>1. job[c] \in Jobs
  BY SMTT(30), <1>0 DEF SendLost, TypeOK, Binding, Sending
<1>2. Durable(c) \in Seq(Nat)
  BY <1>0, <1>1 DEF Durable, TypeOK
<1>3. PICK t \in Seq(Nat) : table' = [table EXCEPT ![job[c]] = t]
  BY SMTT(30), <1>0, <1>1, <1>2 DEF SendLost, TypeOK
<1>frame. \A d \in Conns \ {c} : SameAt(d)
  BY Zenon, <1>0 DEF SendLost, SameAt, TypeOK, serverVars
<1>4. TypeOK'
  <2>1. table' \in [Jobs -> Seq(Nat)]
    BY <1>0, <1>1, <1>3 DEF TypeOK
  <2>2. work' \in [Conns -> Seq(Nat)]
    BY <1>0 DEF SendLost, TypeOK
  <2>3. losses' \in 0 .. MaxLosses
    BY <1>0 DEF SendLost, TypeOK
  <2>4. disturbed' \in SUBSET Jobs
    BY Zenon, <1>0, <1>1 DEF SendLost, TypeOK
  <2>5. /\ handle' \in [Conns -> BOOLEAN] /\ stale' \in [Conns -> BOOLEAN]
        /\ inTrans' \in [Conns -> BOOLEAN]
    BY Zenon, <1>0 DEF SendLost, TypeOK
  <2>6. /\ pc' \in [Conns -> Sending \cup {"idle", "reconnect", "returned"}]
        /\ resume' \in [Conns -> Sending] /\ attempts' \in [Conns -> 0 .. Attempts]
    BY SMTT(30), <1>0 DEF SendLost, TypeOK
  <2> QED
    BY Zenon, <1>0, <2>1, <2>2, <2>3, <2>4, <2>5, <2>6 DEF SendLost, TypeOK, loopVars
<1>5. Binding'
  BY <1>0, <1>1, <1>2, <1>3 DEF SendLost, TypeOK, Binding, Sending, loopVars
<1>6. Session'
  <2>1. SessionOf(c)
    BY <1>0 DEF Session
  <2>2. SessionOf(c)'
    BY ZenonT(30), <1>0, <2>1 DEF SendLost, SessionOf, TypeOK, Sending, serverVars
  <2> QED
    BY <1>0, <1>frame, <2>2, SessionKept
<1>7. Fresh'
  <2>1. status[job[c]] = "running" /\ status' = status
    BY Zenon, <1>0, <1>1 DEF SendLost, Binding, loopVars
  <2>2. \A i \in Jobs : i # job[c] => table'[i] = table[i]
    BY <1>0, <1>3 DEF TypeOK
  <2>3. \A d \in Conns : pc'[d] = "idle" => pc[d] = "idle" /\ pos'[d] = pos[d]
    BY Zenon, <1>0 DEF SendLost, TypeOK
  <2> QED
    BY Zenon, <1>0, <2>1, <2>2, <2>3 DEF Fresh
<1>8. Faithful'
  BY Zenon, <1>0, <1>1, <1>2, <1>3
     DEF SendLost, TypeOK, Binding, serverVars, loopVars, faultVars, Faithful
<1>9. (aborted \/ Progress)'
  <2>1. /\ \A i \in Jobs : i # job'[c] => table'[i] = table[i]
        /\ disturbed \subseteq disturbed'
    BY Zenon, <1>0, <1>3 DEF SendLost, TypeOK, serverVars, faultVars
  <2>2. \A d \in Conns \ {c} : job[d] # None => job[d] \in Jobs /\ job[d] # job'[c]
    BY <1>0 DEF SendLost, TypeOK, Binding
  <2>3. ProgressOf(c)'
    BY Zenon, <1>0, <1>1, <1>2, <1>3 DEF SendLost, TypeOK, serverVars, faultVars, ProgressOf
  <2> QED
    BY Zenon, <1>0, <1>frame, <2>1, <2>2, <2>3, ProgressKept
<1> QED
  BY <1>4, <1>5, <1>6, <1>7, <1>8, <1>9 DEF IndInv

\* The process ends.
LEMMA AbortStep ==
    ASSUME IndInv, ~aborted, Abort
    PROVE  IndInv'
<1> USE ConnectionAssumption
<1>0. TypeOK /\ Binding /\ Session /\ Fresh /\ Faithful /\ Progress
  BY DEF IndInv
<1>1. TypeOK'
  BY <1>0 DEF Abort, TypeOK, Sending, serverVars, loopVars, faultVars
<1>2. Binding'
  BY Zenon, <1>0 DEF Abort, TypeOK, Binding, Sending, loopVars
<1>3. Session'
  BY Zenon, <1>0 DEF Abort, Session, SessionOf
<1>4. Fresh'
  BY Zenon, <1>0 DEF Abort, TypeOK, Binding, Sending, serverVars, loopVars, Fresh
<1>5. Faithful'
  BY Zenon, <1>0 DEF Abort, TypeOK, Binding, serverVars, loopVars, faultVars, Faithful
<1>6. (aborted \/ Progress)'
  BY <1>0 DEF Abort
<1> QED
  BY <1>1, <1>2, <1>3, <1>4, <1>5, <1>6 DEF IndInv

\* The statement will be sent again in a new session.
LEMMA ReopenStep ==
    ASSUME IndInv, ~aborted, NEW c \in Conns, Reopen(c)
    PROVE  IndInv'
<1> USE ConnectionAssumption
<1>0. TypeOK /\ Binding /\ Session /\ Fresh /\ Faithful /\ Progress
  BY DEF IndInv
<1>1. job[c] \in Jobs
  BY <1>0 DEF Reopen, TypeOK, Binding, Sending
<1>2. job[c] \in disturbed
  BY Zenon, <1>0, <1>1 DEF Reopen, Progress, ProgressOf, Binding
<1>frame. \A d \in Conns \ {c} : SameAt(d)
  BY Zenon, <1>0 DEF Reopen, Handled, SameAt, TypeOK, serverVars
<1>3. TypeOK'
  <2>1. pc' \in [Conns -> Sending \cup {"idle", "reconnect", "returned"}]
    BY <1>0 DEF Reopen, TypeOK
  <2>2. resume' \in [Conns -> Sending] /\ attempts' \in [Conns -> 0 .. Attempts]
    BY <1>0 DEF Reopen, Handled, TypeOK, Sending
  <2> QED
    BY Zenon, <1>0, <2>1, <2>2 DEF Reopen, TypeOK, serverVars, loopVars, faultVars
<1>4. Binding'
  BY ZenonT(30), <1>0, <1>1, <1>2 DEF Reopen, Handled, TypeOK, Binding, Sending, loopVars
<1>5. Session'
  <2>1. SessionOf(c)
    BY <1>0 DEF Session
  <2>2. SessionOf(c)'
    BY Zenon, <1>0, <2>1 DEF Reopen, Handled, SessionOf, TypeOK, Sending, serverVars
  <2> QED
    BY <1>0, <1>frame, <2>2, SessionKept
<1>6. Fresh'
  BY <1>0, <1>1, <1>2, ZenonT(60)
     DEF Reopen, Handled, TypeOK, Binding, Sending, serverVars, loopVars, Fresh
<1>7. Faithful'
  BY Zenon, <1>0, <1>1, <1>2
     DEF Reopen, Handled, TypeOK, Binding, serverVars, loopVars, faultVars, Faithful
<1>8. (aborted \/ Progress)'
  <2>1. /\ \A i \in Jobs : i # job'[c] => table'[i] = table[i]
        /\ disturbed \subseteq disturbed'
    BY Zenon, <1>0 DEF Reopen, Handled, TypeOK, serverVars, faultVars
  <2>2. \A d \in Conns \ {c} : job[d] # None => job[d] \in Jobs /\ job[d] # job'[c]
    BY <1>0 DEF Reopen, Handled, TypeOK, Binding
  <2>3. ProgressOf(c)'
    BY Zenon, <1>0, <1>1, <1>2 DEF Reopen, Handled, TypeOK, serverVars, faultVars, ProgressOf
  <2> QED
    BY Zenon, <1>0, <1>frame, <2>1, <2>2, <2>3, ProgressKept
<1> QED
  BY <1>3, <1>4, <1>5, <1>6, <1>7, <1>8 DEF IndInv

\* There are attempts left.
LEMMA ReopenFailsStep ==
    ASSUME IndInv, ~aborted, NEW c \in Conns, ReopenFails(c)
    PROVE  IndInv'
<1> USE ConnectionAssumption
<1>0. TypeOK /\ Binding /\ Session /\ Fresh /\ Faithful /\ Progress
  BY DEF IndInv
<1>frame. \A d \in Conns \ {c} : SameAt(d)
  BY Zenon, <1>0 DEF ReopenFails, SameAt, TypeOK, serverVars
<1>1. TypeOK'
  <2>1. attempts[c] - 1 \in 0 .. Attempts
    BY SMTT(30), <1>0 DEF ReopenFails, TypeOK
  <2>2. attempts' \in [Conns -> 0 .. Attempts]
    BY Zenon, <1>0, <2>1 DEF ReopenFails, TypeOK
  <2> QED
    BY Zenon, <1>0, <2>2 DEF ReopenFails, TypeOK, serverVars, loopVars, faultVars
<1>2. Binding'
  BY Zenon, <1>0 DEF ReopenFails, TypeOK, Binding, Sending, loopVars
<1>3. Session'
  <2>1. SessionOf(c)
    BY <1>0 DEF Session
  <2>2. SessionOf(c)'
    BY Zenon, <1>0, <2>1 DEF ReopenFails, SessionOf, TypeOK, Sending, serverVars
  <2> QED
    BY <1>0, <1>frame, <2>2, SessionKept
<1>4. Fresh'
  BY Zenon, <1>0 DEF ReopenFails, TypeOK, Binding, Sending, serverVars, loopVars, Fresh
<1>5. Faithful'
  BY Zenon, <1>0 DEF ReopenFails, TypeOK, Binding, serverVars, loopVars, faultVars, Faithful
<1>6. (aborted \/ Progress)'
  <2>1. /\ \A i \in Jobs : i # job'[c] => table'[i] = table[i]
        /\ disturbed \subseteq disturbed'
    BY Zenon, <1>0 DEF ReopenFails, TypeOK, serverVars, faultVars
  <2>2. \A d \in Conns \ {c} : job[d] # None => job[d] \in Jobs /\ job[d] # job'[c]
    BY SMTT(30), <1>0 DEF ReopenFails, TypeOK, Binding
  <2>3. ProgressOf(c)'
    BY Zenon, <1>0 DEF ReopenFails, TypeOK, serverVars, faultVars, ProgressOf, Progress
  <2> QED
    BY Zenon, <1>0, <1>frame, <2>1, <2>2, <2>3, ProgressKept
<1> QED
  BY <1>1, <1>2, <1>3, <1>4, <1>5, <1>6 DEF IndInv

\* The connection stays without a session.
LEMMA ReopenRefusedStep ==
    ASSUME IndInv, ~aborted, NEW c \in Conns, ReopenRefused(c)
    PROVE  IndInv'
<1> USE ConnectionAssumption
<1>0. TypeOK /\ Binding /\ Session /\ Fresh /\ Faithful /\ Progress
  BY DEF IndInv
<1>1. job[c] \in Jobs
  BY <1>0 DEF ReopenRefused, TypeOK, Binding, Sending
<1>2. "ok" \in Codes /\ resume[c] \in Sending
  BY SMTT(30), <1>0 DEF Codes, TypeOK
<1>3. PICK p \in {"returned", "query", "rollback"}, k \in Codes : Fallen(c, resume[c], "ok", p, k)
  <2>1. Fall(c, resume[c], "ok")
    BY Zenon DEF ReopenRefused
  <2> QED
    BY Zenon, <1>0, <1>1, <1>2, <2>1, FallFacts
<1>4. job[c] \in disturbed
  BY Zenon, <1>0, <1>1 DEF ReopenRefused, Progress, ProgressOf, Binding
<1>frame. \A d \in Conns \ {c} : SameAt(d)
  BY Zenon, <1>0, <1>3 DEF ReopenRefused, Handled, Fallen, SameAt, TypeOK, serverVars
<1>5. TypeOK'
  <2>1. resume' \in [Conns -> Sending] /\ attempts' \in [Conns -> 0 .. Attempts]
    BY SMTT(30), <1>0 DEF ReopenRefused, Handled, TypeOK, Sending
  <2>2. /\ pc' \in [Conns -> Sending \cup {"idle", "reconnect", "returned"}]
        /\ code' \in [Conns -> Codes] /\ pos' \in [Conns -> Nat \ {0}]
    BY Zenon, <1>0, <1>3 DEF Fallen, TypeOK, Codes, Sending
  <2> QED
    BY Zenon, <1>0, <2>1, <2>2 DEF ReopenRefused, TypeOK, Codes, serverVars, loopVars, faultVars
<1>6. Binding'
  BY ZenonT(30), <1>0, <1>1, <1>2, <1>3, <1>4
     DEF ReopenRefused, Handled, Fallen, TypeOK, Binding, Sending, loopVars
<1>7. Session'
  <2>1. SessionOf(c)
    BY <1>0 DEF Session
  <2>2. SessionOf(c)'
    BY Zenon, <1>0, <1>3, <2>1
       DEF ReopenRefused, Handled, Fallen, SessionOf, TypeOK, Sending, serverVars
  <2> QED
    BY <1>0, <1>frame, <2>2, SessionKept
<1>8. Fresh'
  BY ZenonT(30), <1>0, <1>1, <1>2, <1>3, <1>4
     DEF ReopenRefused, Handled, Fallen, TypeOK, Binding, Sending, serverVars, loopVars, Fresh
<1>9. Faithful'
  BY Zenon, <1>0, <1>1, <1>2, <1>3, <1>4
     DEF ReopenRefused, Handled, TypeOK, Binding, serverVars, loopVars, faultVars, Faithful
<1>10. (aborted \/ Progress)'
  <2>1. /\ \A i \in Jobs : i # job'[c] => table'[i] = table[i]
        /\ disturbed \subseteq disturbed'
    BY Zenon, <1>0 DEF ReopenRefused, Handled, TypeOK, serverVars, faultVars
  <2>2. \A d \in Conns \ {c} : job[d] # None => job[d] \in Jobs /\ job[d] # job'[c]
    BY <1>0 DEF ReopenRefused, Handled, TypeOK, Binding
  <2>3. ProgressOf(c)'
    BY Zenon, <1>0, <1>1, <1>2, <1>3, <1>4
       DEF ReopenRefused, Handled, Fallen, TypeOK, serverVars, faultVars, ProgressOf
  <2> QED
    BY Zenon, <1>0, <1>frame, <2>1, <2>2, <2>3, ProgressKept
<1> QED
  BY <1>5, <1>6, <1>7, <1>8, <1>9, <1>10 DEF IndInv

\* A failed transaction is tried again: nothing of it is durable.
LEMMA AgainStep ==
    ASSUME IndInv, ~aborted, NEW c \in Conns, pc[c] = "returned", code[c] # "ok", Again(c), 
           retries' \in [Conns -> 0 .. Retries], deadlockLock' \in Conns \cup {None}
    PROVE  IndInv'
<1> USE ConnectionAssumption
<1>0. TypeOK /\ Binding /\ Session /\ Fresh /\ Faithful /\ Progress
  BY Zenon DEF IndInv
<1>1. job[c] \in Jobs
  BY <1>0 DEF TypeOK, Binding
<1>2. PICK p \in {"returned", "query", "begin"}, k \in Codes : Entered(c, job[c], p, k)
  BY Zenon, <1>0, <1>1, EnterFacts DEF Again
<1>frame. \A d \in Conns \ {c} : SameAt(d)
  BY Zenon, <1>0, <1>2 DEF Again, Entered, SameAt, TypeOK, serverVars
<1>3. TypeOK'
  BY <1>0, <1>1, <1>2, SMTT(30)
     DEF Again, Entered, Codes, TypeOK, Sending, serverVars, loopVars, faultVars
<1>4. Binding'
  BY <1>0, <1>1, <1>2, SMTT(30) DEF Again, Entered, TypeOK, Binding, Sending, loopVars
<1>5. Session'
  <2>1. SessionOf(c)
    BY Zenon, <1>0 DEF Session
  <2>2. SessionOf(c)'
    BY ZenonT(30), <1>0, <1>2, <2>1 DEF Again, Entered, SessionOf, TypeOK, Sending, serverVars
  <2> QED
    BY Zenon, <1>0, <1>frame, <2>2, SessionKept
<1>6. Fresh'
  BY ZenonT(30), <1>0, <1>1, <1>2
     DEF Again, Entered, TypeOK, Binding, Sending, serverVars, loopVars, Fresh
<1>7. Faithful'
  BY Zenon, <1>0, <1>1, <1>2 DEF Again, TypeOK, Binding, serverVars, loopVars, faultVars, Faithful
<1>8. (aborted \/ Progress)'
  <2>1. /\ \A i \in Jobs : i # job'[c] => table'[i] = table[i]
        /\ disturbed \subseteq disturbed'
    BY Zenon, <1>0 DEF Again, TypeOK, serverVars, faultVars
  <2>2. \A d \in Conns \ {c} : job[d] # None => job[d] \in Jobs /\ job[d] # job'[c]
    BY <1>0, SMTT(30) DEF Again, TypeOK, Binding
  <2>3. ProgressOf(c)'
    <3>1. ProgressOf(c) /\ job[c] # None
      BY Zenon, <1>0, <1>1 DEF Progress
    <3>2. /\ pc'[c] = p /\ code'[c] = k /\ job'[c] = job[c] /\ pos'[c] = 1
          /\ table' = table /\ handle' = handle /\ stale' = stale /\ disturbed' = disturbed
      BY Zenon, <1>0, <1>2 DEF Again, Entered, TypeOK, serverVars, faultVars
    <3>3. p = "returned" => k = "error"
      BY Zenon, <1>2 DEF Entered
    <3>4. /\ p = "query" => Size(job[c]) > 0 /\ Kind[job[c]] = "statement"
          /\ p = "begin" => Size(job[c]) > 0 /\ Kind[job[c]] # "statement"
      BY Zenon, <1>2 DEF Entered
    <3>5. Size(job[c]) \in Nat
      BY Zenon, <1>1, SizeType
    <3>6. job[c] \notin disturbed => handle[c] /\ ~stale[c] /\ table[job[c]] = <<>>
      BY Zenon, <3>1 DEF ProgressOf
    <3>7. CASE p = "returned"
      BY ZenonT(30), <3>2, <3>3, <3>6, <3>7 DEF ProgressOf
    <3>8. CASE p = "query"
      <4>1. 1 <= Size(job[c])
        BY <3>4, <3>5, <3>8
      <4> QED
        BY ZenonT(30), <3>2, <3>4, <3>6, <3>8, <4>1 DEF ProgressOf
    <3>9. CASE p = "begin"
      BY Zenon, <3>2, <3>4, <3>6, <3>9 DEF ProgressOf
    <3> QED
      BY Zenon, <3>7, <3>8, <3>9
  <2> QED
    BY Zenon, <1>0, <1>frame, <2>1, <2>2, <2>3, ProgressKept
<1> QED
  BY Zenon, <1>3, <1>4, <1>5, <1>6, <1>7, <1>8 DEF IndInv

\* A job ends: its caller learns what has happened.
LEMMA EndStep ==
    ASSUME IndInv, ~aborted, NEW c \in Conns, pc[c] = "returned", NEW outcome \in {"true", "false"}, 
           outcome = "true" <=> code[c] = "ok", End(c, outcome)
    PROVE  IndInv'
<1> USE ConnectionAssumption
<1>0. TypeOK /\ Binding /\ Session /\ Fresh /\ Faithful /\ Progress
  BY DEF IndInv
<1>1. job[c] \in Jobs
  BY <1>0 DEF TypeOK, Binding
<1>frame. \A d \in Conns \ {c} : SameAt(d)
  BY Zenon, <1>0 DEF End, Forget, SameAt, TypeOK, serverVars
<1>2. TypeOK'
  BY <1>0, <1>1, SMTT(30) DEF End, Forget, TypeOK, Sending, serverVars, loopVars, faultVars
<1>3. Binding'
  BY SMTT(30), <1>0, <1>1 DEF End, Forget, TypeOK, Binding, Sending, loopVars
<1>4. Session'
  <2>1. SessionOf(c)
    BY Zenon, <1>0 DEF Session
  <2>2. SessionOf(c)'
    BY Zenon, <1>0, <2>1 DEF End, Forget, SessionOf, TypeOK, Sending, serverVars
  <2> QED
    BY Zenon, <1>0, <1>frame, <2>2, SessionKept
<1>5. Fresh'
  BY <1>0, <1>1, ZenonT(60) DEF End, Forget, TypeOK, Binding, Sending, serverVars, loopVars, Fresh
<1>6. Faithful'
  <2>1. /\ table' = table /\ disturbed' = disturbed
        /\ \A j \in Jobs : status'[j] = IF j = job[c] THEN outcome ELSE status[j]
    BY Zenon, <1>0, <1>1 DEF End, TypeOK, serverVars, faultVars
  <2>2. job[c] # None
    BY Zenon, <1>1
  <2>3. job[c] \notin disturbed =>
            IF code[c] = "ok" THEN table[job[c]] = Upto(Size(job[c])) ELSE table[job[c]] = <<>>
    BY Zenon, <1>0, <2>2 DEF Progress, ProgressOf
  <2> QED
    BY Zenon, <1>0, <2>1, <2>3 DEF Faithful
<1>7. (aborted \/ Progress)'
  <2>1. /\ \A i \in Jobs : i # job'[c] => table'[i] = table[i]
        /\ disturbed \subseteq disturbed'
    BY Zenon, <1>0 DEF End, Forget, TypeOK, serverVars, faultVars
  <2>2. \A d \in Conns \ {c} : job[d] # None => job[d] \in Jobs /\ job[d] # job'[c]
    BY <1>0, SMTT(30) DEF End, Forget, TypeOK, Binding
  <2>3. ProgressOf(c)'
    BY Zenon, <1>0, <1>1 DEF End, Forget, TypeOK, serverVars, faultVars, ProgressOf
  <2> QED
    BY Zenon, <1>0, <1>frame, <2>1, <2>2, <2>3, ProgressKept
<1> QED
  BY Zenon, <1>2, <1>3, <1>4, <1>5, <1>6, <1>7 DEF IndInv

\* Every job is new, every session idle.
LEMMA InitInv == Init => IndInv
<1> USE ConnectionAssumption
<1> SUFFICES ASSUME Init PROVE IndInv
  OBVIOUS
<1>1. TypeOK
  <2>1. work \in [Conns -> Seq(Nat)] /\ table \in [Jobs -> Seq(Nat)]
    BY DEF Init
  <2>2. /\ attempts \in [Conns -> 0 .. Attempts] /\ retries \in [Conns -> 0 .. Retries]
        /\ losses \in 0 .. MaxLosses /\ pos \in [Conns -> Nat \ {0}]
    BY DEF Init
  <2> QED
    BY Zenon, <2>1, <2>2 DEF Init, TypeOK, Sending
<1>2. Binding /\ Session /\ Fresh
  BY Zenon DEF Init, Binding, Session, SessionOf, Fresh
<1>3. Faithful /\ Progress
  BY Zenon DEF Init, Faithful, Progress, ProgressOf
<1> QED
  BY <1>1, <1>2, <1>3 DEF IndInv

\* Every step of every thread preserves the invariant.
LEMMA IndInvStep == IndInv /\ [Next]_vars => IndInv'
<1> USE ConnectionAssumption
<1> SUFFICES ASSUME IndInv, [Next]_vars PROVE IndInv'
  OBVIOUS
<1>1. CASE Next
  <2>0. ~aborted /\ TypeOK
    BY Zenon, <1>1 DEF Next, IndInv
  <2>1. PICK c \in Conns : \/ \E j \in Jobs : Start(c, j)
                           \/ Send(c) \/ Reconnect(c) \/ LockAndRetry(c) \/ Decide(c)
    BY Zenon, <1>1 DEF Next
  <2>2. ASSUME NEW j \in Jobs, Start(c, j) PROVE IndInv'
    BY <2>0, <2>2, StartStep
  <2>3. CASE Send(c)
    BY Zenon, <2>0, <2>3, SendOkStep, SendFailsStep, SendUnusableStep, SendLostStep, AbortStep
       DEF Send, SendAborts
  <2>4. CASE Reconnect(c)
    BY Zenon, <2>0, <2>4, ReopenStep, ReopenFailsStep, ReopenRefusedStep, AbortStep
       DEF Reconnect, LastReopenFails
  <2>5. CASE LockAndRetry(c)
    <3>1. retries' \in [Conns -> 0 .. Retries] /\ deadlockLock' \in Conns \cup {None}
      BY Zenon, <2>0, <2>5 DEF LockAndRetry, TypeOK
    <3>2. pc[c] = "returned" /\ code[c] # "ok" /\ Again(c)
      BY Zenon, <2>5 DEF LockAndRetry
    <3> QED
      BY Zenon, <2>0, <3>1, <3>2, AgainStep
  <2>6. CASE RetryTask(c)
    <3>1. retries' \in [Conns -> 0 .. Retries] /\ deadlockLock' \in Conns \cup {None}
      BY Zenon, <2>0, <2>6 DEF RetryTask, TypeOK
    <3>2. pc[c] = "returned" /\ code[c] # "ok" /\ Again(c)
      BY Zenon, <2>6 DEF RetryTask
    <3> QED
      BY <2>0, <3>1, <3>2, AgainStep
  <2>7. CASE RetryDirect(c)
    <3>1. retries[c] + 1 \in 0 .. Retries
      BY SMTT(30), <2>0, <2>7 DEF RetryDirect, TypeOK
    <3>2. retries' \in [Conns -> 0 .. Retries] /\ deadlockLock' \in Conns \cup {None}
      BY Zenon, <2>0, <2>7, <3>1 DEF RetryDirect, TypeOK
    <3>3. pc[c] = "returned" /\ code[c] # "ok" /\ Again(c)
      BY Zenon, <2>7 DEF RetryDirect
    <3> QED
      BY <2>0, <3>2, <3>3, AgainStep
  <2>8. CASE Succeed(c)
    BY Zenon, <2>0, <2>8, EndStep DEF Succeed
  <2>9. CASE GiveUp(c)
    BY Zenon, <2>0, <2>9, EndStep DEF GiveUp
  <2>10. CASE Fail(c)
    BY Zenon, <2>0, <2>10, EndStep DEF Fail
  <2> QED
    BY Zenon, <2>1, <2>2, <2>3, <2>4, <2>5, <2>6, <2>7, <2>8, <2>9, <2>10 DEF Decide
<1>2. CASE UNCHANGED vars
  <2>1. /\ handle' = handle /\ stale' = stale /\ inTrans' = inTrans /\ work' = work
        /\ table' = table /\ pc' = pc /\ job' = job /\ pos' = pos /\ code' = code
        /\ resume' = resume /\ attempts' = attempts /\ retries' = retries
        /\ deadlockLock' = deadlockLock /\ status' = status /\ aborted' = aborted
        /\ losses' = losses /\ disturbed' = disturbed
    BY Zenon, <1>2 DEF vars, serverVars, loopVars, faultVars
  <2>2. TypeOK' /\ Binding' /\ Session' /\ Fresh' /\ Faithful'
    BY Zenon, <2>1 DEF IndInv, TypeOK, Binding, Session, SessionOf, Fresh, Faithful
  <2>3. (aborted \/ Progress)'
    BY Zenon, <2>1 DEF IndInv, Progress, ProgressOf
  <2> QED
    BY Zenon, <2>2, <2>3 DEF IndInv
<1> QED
  BY <1>1, <1>2

\* Where every thread is and what the server has of its job stay consistent, in every
\* interleaving of connections, refusals, deadlocks, losses and retries.
THEOREM Invariance == Spec => []IndInv
BY InitInv, IndInvStep, PTL DEF Spec

\* The values the variables of the connections and of the retry loops take.
THEOREM TypeCorrect == Spec => []TypeOK
<1>1. IndInv => TypeOK
  BY DEF IndInv
<1> QED
  BY <1>1, Invariance, PTL

\* A job that met no lost session takes effect as a whole, in append order and once,
\* exactly when its caller is told so, after any number of deadlocks and retries.
THEOREM AppliedFaithfully == Spec => []Faithful
<1>1. IndInv => Faithful
  BY SMTT(30) DEF IndInv
<1> QED
  BY <1>1, Invariance, PTL

\* No path through ExecuteTransaction, HandleMySQLError or a retry loop hands back a
\* connection with an open transaction.
THEOREM ReturnedClean == Spec => []NoOpenTransactionLeft
<1>1. IndInv => NoOpenTransactionLeft
  BY Zenon DEF IndInv, Session, SessionOf, NoOpenTransactionLeft
<1> QED
  BY <1>1, Invariance, PTL
===============================================================================
