---------------------------- MODULE DatabaseProofs ----------------------------
(***************************************************************************)
(* The parts of the database layer that stand alone, for every value of    *)
(* their constants: the rows of a prepared result, the values of a field,  *)
(* the parameters of prepared statements and query holders.                *)
(***************************************************************************)
EXTENDS Binding, QueryHolder, PreparedResult, Field, TLAPS

\* While the columns are placed, and afterwards: the slots of the first n columns lie in the
\* row one after the other.
Laid(f, n) == \A i \in 1 .. n :
                 /\ f[i] + SizeOfColumn(i) <= rowSize
                 /\ \A j \in 1 .. i - 1 : f[j] + SizeOfColumn(j) <= f[i]

\* The k-th slot of a column whose first one is at a.
At(a, k) == a + k * rowSize

\* While rows are fetched, first being the slots of the first row: a pointer has moved by
\* whole rows, at most by one for each row that was fetched, and past every value.
Fetching(first) ==
    /\ first \in [Columns -> Nat] /\ Laid(first, Len(ResultColumns))
    /\ \A i \in Columns : \E k \in 0 .. rowPosition : bind[i] = At(first[i], k)
    /\ \A r \in DOMAIN rows : \A i \in Columns :
          ~isNull[r][i] => /\ \E k \in 0 .. rowCount : rows[r][i] = At(first[i], k)
                           /\ rows[r][i] + rowSize <= bind[i]

\* Nothing that a result or its statement points to was freed, unless the server has failed.
Alive == ~failed => /\ ~twice /\ "freed" \notin {metadata, rBind}
                    /\ freedArrays \subseteq 1 .. queries - 1
                    /\ bindDone /\ set \notin {"store", "bind"} => arrays = queries
                    /\ bindDone /\ set \in {"store", "bind"} => arrays < queries

ResultInv == /\ ResultTypeOK
             /\ set \in {"store", "bind"} => rowPosition = 0 /\ rows = <<>>
             /\ set = "store" => placed = 0 /\ rowSize = 0
             /\ set = "bind" => Laid(bind, placed)
             /\ set = "fetch" => /\ rowPosition = Len(rows)
                                 /\ buffer = [b \in 0 .. rowSize * rowCount - 1 |-> buffer[b]]
                                 /\ \E first \in [Columns -> Nat] : Fetching(first)
             /\ set # "none" => queries > 0
             /\ bindDone => arrays > 0
             /\ RowsAsSent
             /\ Alive

-------------------------------------------------------------------------------
\* A slot has a number of bytes, whatever the type of the column.
LEMMA SizeType == \A i \in Columns : SizeOfColumn(i) \in Nat
<1> SUFFICES ASSUME NEW i \in Columns PROVE SizeOfColumn(i) \in Nat
    OBVIOUS
<1> DEFINE S == [type : ColumnTypes, maxLength : Nat]
<1>1. ResultColumns[i] \in S
  <2>1. ResultColumns \in Seq(S)
    BY ResultAssumption
  <2> HIDE DEF S
  <2> QED
    BY <2>1 DEF Columns
<1>2. ResultColumns[i].maxLength \in Nat
    BY <1>1
<1> QED
    BY <1>2 DEF SizeOfColumn, SizeForType

\* A later row begins where an earlier one has ended, or further on.
LEMMA LaterRow == ASSUME NEW R \in Nat, NEW k \in Nat, NEW m \in Nat, k < m
                  PROVE  k * R + R <= m * R
<1> DEFINE d == m - (k + 1)
<1>1. d \in Nat /\ m = k + 1 + d
    OBVIOUS
<1> HIDE DEF d
<1>2. m * R = k * R + R + d * R
    BY <1>1
<1>3. d * R \in Nat /\ k * R \in Nat
    BY <1>1
<1> QED
    BY <1>2, <1>3

\* The slots of two columns do not overlap, in whichever rows they are.
LEMMA SlotsApart ==
    ASSUME ResultTypeOK, NEW f \in [Columns -> Nat], Laid(f, Len(ResultColumns)),
           NEW i \in Columns, NEW j \in Columns, i # j, NEW k \in Nat, NEW m \in Nat
    PROVE  Slot(i, At(f[i], k)) \cap Slot(j, At(f[j], m)) = {}
<1> DEFINE a == k * rowSize  c == m * rowSize
<1>1. rowSize \in Nat /\ a \in Nat /\ c \in Nat /\ f[i] \in Nat /\ f[j] \in Nat
    BY DEF ResultTypeOK
<1>2. SizeOfColumn(i) \in Nat /\ SizeOfColumn(j) \in Nat
    BY SizeType
<1>3. Columns = 1 .. Len(ResultColumns) /\ i \in Nat /\ j \in Nat
    BY SMTT(30), ResultAssumption DEF Columns
<1>4. f[i] + SizeOfColumn(i) <= rowSize /\ f[j] + SizeOfColumn(j) <= rowSize
    BY <1>3 DEF Laid
<1>5. f[i] + SizeOfColumn(i) <= f[j] \/ f[j] + SizeOfColumn(j) <= f[i]
    BY <1>3 DEF Laid
<1>6. k < m => a + rowSize <= c
    BY LaterRow, <1>1
<1>7. m < k => c + rowSize <= a
    BY LaterRow, <1>1
<1>8. k = m => a = c
    OBVIOUS
<1>9. At(f[i], k) = f[i] + a /\ At(f[j], m) = f[j] + c
    BY DEF At
<1> HIDE DEF a, c
<1>10. At(f[i], k) + SizeOfColumn(i) <= At(f[j], m) \/ At(f[j], m) + SizeOfColumn(j) <= At(f[i], k)
  <2>1. CASE k < m
    BY SMTT(30), <2>1, <1>1, <1>2, <1>4, <1>6, <1>9
  <2>2. CASE m < k
    BY SMTT(30), <2>2, <1>1, <1>2, <1>4, <1>7, <1>9
  <2>3. CASE k = m
    BY SMTT(30), <2>3, <1>1, <1>2, <1>5, <1>8, <1>9
  <2> QED
    BY <2>1, <2>2, <2>3
<1>11. At(f[i], k) \in Nat /\ At(f[j], m) \in Nat
    BY <1>1, <1>9
<1> QED
    BY SMTT(30), <1>2, <1>10, <1>11 DEF Slot

\* A slot of one of the first n rows is within the buffer of n rows.
LEMMA SlotInRows ==
    ASSUME ResultTypeOK, NEW f \in [Columns -> Nat], Laid(f, Len(ResultColumns)),
           NEW i \in Columns, NEW k \in Nat, NEW n \in Nat, k < n
    PROVE  Slot(i, At(f[i], k)) \subseteq 0 .. rowSize * n - 1
<1> DEFINE a == k * rowSize  c == n * rowSize
<1>1. rowSize \in Nat /\ a \in Nat /\ c \in Nat /\ f[i] \in Nat /\ SizeOfColumn(i) \in Nat
    BY SizeType DEF ResultTypeOK
<1>2. f[i] + SizeOfColumn(i) <= rowSize
    BY ResultAssumption DEF Laid, Columns
<1>3. a + rowSize <= c
    BY LaterRow, <1>1
<1>4. At(f[i], k) = f[i] + a /\ rowSize * n = c
    BY <1>1 DEF At
<1> HIDE DEF a, c
<1>5. SUFFICES ASSUME NEW b \in Slot(i, At(f[i], k)) PROVE b \in 0 .. c - 1
    BY <1>4
<1>6. b \in f[i] + a .. f[i] + a + SizeOfColumn(i) - 1
    BY <1>4 DEF Slot
<1> QED
    BY SMTT(30), <1>1, <1>2, <1>3, <1>6

\* Where the pointers of the columns are.
LEMMA PointersAt ==
    ASSUME ResultTypeOK, NEW first, Fetching(first), NEW i \in Columns
    PROVE  \E k \in Nat : k <= rowPosition /\ bind[i] = At(first[i], k)
<1>1. PICK k \in 0 .. rowPosition : bind[i] = At(first[i], k)
    BY DEF Fetching
<1>2. rowPosition \in Nat
    BY DEF ResultTypeOK
<1> QED
    BY <1>1, <1>2

\* The bytes mysql_stmt_fetch writes for a row are those of its values, each of one value.
LEMMA FetchWrites ==
    ASSUME ResultInv, FetchRow, NEW i \in Columns, ~isNull[rowPosition + 1][i],
           NEW b \in Slot(i, bind[i])
    PROVE  b \in DOMAIN buffer' /\ buffer'[b] = <<rowPosition + 1, i>>
<1> DEFINE now == rowPosition + 1
           values == {j \in Columns : ~isNull[now][j]}
<1>1. ResultTypeOK /\ set = "fetch" /\ rowPosition < rowCount /\ rowPosition \in Nat /\ rowCount \in Nat
    BY SMTT(30) DEF ResultInv, ResultTypeOK, FetchRow
<1>2. PICK first \in [Columns -> Nat] : Fetching(first)
    BY <1>1 DEF ResultInv
<1>3. DOMAIN buffer = 0 .. rowSize * rowCount - 1
    BY <1>1 DEF ResultInv
<1>4. Laid(first, Len(ResultColumns))
    BY Zenon, <1>2 DEF Fetching
<1>5. PICK k \in Nat : k <= rowPosition /\ bind[i] = At(first[i], k)
    BY Zenon, <1>1, <1>2, PointersAt
<1>6. k < rowCount
    BY SMTT(30), <1>1, <1>5
<1>7. b \in DOMAIN buffer
    BY Zenon, <1>1, <1>2, <1>3, <1>4, <1>5, <1>6, SlotInRows
<1>8. \A j \in values : b \in Slot(j, bind[j]) => j = i
  <2> SUFFICES ASSUME NEW j \in Columns, j # i, b \in Slot(j, bind[j]) PROVE FALSE
    OBVIOUS
  <2>1. PICK m \in Nat : m <= rowPosition /\ bind[j] = At(first[j], m)
    BY Zenon, <1>1, <1>2, PointersAt
  <2>2. Slot(i, At(first[i], k)) \cap Slot(j, At(first[j], m)) = {}
    BY Zenon, <1>1, <1>2, <1>4, SlotsApart
  <2> QED
    BY Zenon, <2>1, <2>2, <1>5
<1>9. i \in values
    BY Zenon
<1>10. buffer' = [c \in DOMAIN buffer |->
                     IF \E j \in values : c \in Slot(j, bind[j])
                     THEN <<now, CHOOSE j \in values : c \in Slot(j, bind[j])>>
                     ELSE buffer[c]]
    BY Zenon DEF FetchRow
<1> HIDE DEF values, now
<1>11. (CHOOSE j \in values : b \in Slot(j, bind[j])) = i
    BY Zenon, <1>8, <1>9
<1> QED
    BY Zenon, <1>7, <1>9, <1>10, <1>11 DEF now

\* No byte of a value that was fetched before is written.
LEMMA FetchSpares ==
    ASSUME ResultInv, FetchRow, NEW r \in DOMAIN rows, NEW i \in Columns, ~isNull[r][i],
           NEW b \in Slot(i, rows[r][i])
    PROVE  b \in DOMAIN buffer' /\ buffer'[b] = buffer[b]
<1> DEFINE now == rowPosition + 1
           values == {j \in Columns : ~isNull[now][j]}
<1>1. ResultTypeOK /\ set = "fetch" /\ rowCount \in Nat
    BY SMTT(30) DEF ResultInv, ResultTypeOK, FetchRow
<1>2. PICK first \in [Columns -> Nat] : Fetching(first)
    BY <1>1 DEF ResultInv
<1>3. Laid(first, Len(ResultColumns))
    BY Zenon, <1>2 DEF Fetching
<1>4. b \in DOMAIN buffer
    BY <1>1 DEF ResultInv, RowsAsSent
<1>5. PICK k \in 0 .. rowCount : rows[r][i] = At(first[i], k)
    BY Zenon, <1>2 DEF Fetching
<1>6. rows[r][i] + rowSize <= bind[i]
    BY Zenon, <1>2 DEF Fetching
<1>7. \A j \in values : b \notin Slot(j, bind[j])
  <2> SUFFICES ASSUME NEW j \in Columns, b \in Slot(j, bind[j]) PROVE FALSE
    OBVIOUS
  <2>1. PICK m \in Nat : m <= rowPosition /\ bind[j] = At(first[j], m)
    BY Zenon, <1>1, <1>2, PointersAt
  <2>2. CASE j # i
    <3>1. Slot(i, At(first[i], k)) \cap Slot(j, At(first[j], m)) = {}
      <4>1. k \in Nat
        BY SMTT(30), <1>1
      <4> QED
        BY Zenon, <4>1, <1>1, <1>2, <1>3, <2>2, SlotsApart
    <3> QED
      BY Zenon, <2>1, <3>1, <1>5
  <2>3. CASE j = i
    <3>1. SizeOfColumn(i) \in Nat /\ first[i] \in Nat /\ rowSize \in Nat /\ bind[i] \in Nat
      BY Zenon, <1>1, <1>2, SizeType DEF ResultTypeOK
    <3>2. first[i] + SizeOfColumn(i) <= rowSize
      BY SMTT(30), <1>3, ResultAssumption DEF Laid, Columns
    <3>3. rows[r][i] \in Nat
      BY <1>1, <1>5, <3>1 DEF At
    <3>4. b < rows[r][i] + SizeOfColumn(i) /\ bind[i] <= b
      BY <2>3, <3>1, <3>3 DEF Slot
    <3>5. b \in Int
      BY <3>1, <3>3 DEF Slot
    <3> QED
      BY SMTT(30), <3>1, <3>2, <3>3, <3>4, <3>5, <1>6
  <2> QED
    BY Zenon, <2>2, <2>3
<1>8. buffer' = [c \in DOMAIN buffer |->
                     IF \E j \in values : c \in Slot(j, bind[j])
                     THEN <<now, CHOOSE j \in values : c \in Slot(j, bind[j])>>
                     ELSE buffer[c]]
    BY Zenon DEF FetchRow
<1> HIDE DEF values, now
<1> QED
    BY Zenon, <1>4, <1>7, <1>8

\* One round of the loop over the rows keeps the invariant.
LEMMA FetchKeeps == ASSUME ResultInv, FetchRow PROVE ResultInv'
<1> DEFINE now == rowPosition + 1
           where == [i \in Columns |-> IF ~isNull[now][i] THEN bind[i] ELSE NullValue]
<1>1. /\ set = "fetch" /\ set' = "fetch" /\ rowPosition < rowCount /\ rowPosition' = now
      /\ UNCHANGED <<rowCount, placed, rowSize, isNull, metadata, rBind, arrays, freedArrays,
                     bindDone, queries, failed, twice>>
      /\ DOMAIN buffer' = DOMAIN buffer
    BY Zenon DEF FetchRow
<1>2. rows' = Append(rows, where) /\ bind' = Advance(now)
    BY DEF FetchRow
<1>3. ResultTypeOK /\ rowPosition = Len(rows) /\ rowPosition \in Nat /\ rowCount \in Nat /\ rowSize \in Nat
    BY <1>1 DEF ResultInv, ResultTypeOK
<1>4. now \in 1 .. rowCount /\ isNull[now] \in [Columns -> BOOLEAN] /\ now = Len(rows) + 1
    BY SMTT(30), <1>1, <1>3 DEF ResultTypeOK
<1>5. bind \in [Columns -> Nat] /\ rows \in Seq([Columns -> Nat \cup {NullValue}])
    BY <1>3 DEF ResultTypeOK
<1>6. where \in [Columns -> Nat \cup {NullValue}]
    BY <1>5
<1>7. /\ rows' \in Seq([Columns -> Nat \cup {NullValue}])
      /\ Len(rows') = now /\ DOMAIN rows' = 1 .. now /\ DOMAIN rows = 1 .. rowPosition
      /\ rows'[now] = where
      /\ \A r \in DOMAIN rows : rows'[r] = rows[r]
  <2> HIDE DEF where
  <2> QED
    BY <1>2, <1>3, <1>4, <1>5, <1>6
<1>8. Advance(now) \in [Columns -> Nat]
    BY <1>3, <1>5 DEF Advance
<1>9. ResultTypeOK'
    BY SMTT(30), <1>1, <1>2, <1>3, <1>4, <1>7, <1>8 DEF ResultTypeOK
<1>10. RowsAsSent'
  <2> SUFFICES ASSUME NEW r \in DOMAIN rows', NEW i \in Columns
               PROVE  IF isNull[r][i] THEN rows'[r][i] = NullValue
                      ELSE \A b \in Slot(i, rows'[r][i]) : b \in DOMAIN buffer' /\ buffer'[b] = <<r, i>>
    BY Zenon, <1>1 DEF RowsAsSent, Slot
  <2>1. CASE r = now
    <3>1. rows'[r][i] = IF ~isNull[now][i] THEN bind[i] ELSE NullValue
      BY ZenonT(30), <1>7, <2>1
    <3>2. CASE isNull[r][i]
      BY <3>1, <3>2, <2>1
    <3>3. CASE ~isNull[r][i]
      <4> SUFFICES ASSUME NEW b \in Slot(i, bind[i])
                   PROVE  b \in DOMAIN buffer' /\ buffer'[b] = <<now, i>>
        BY <3>1, <3>3, <2>1
      <4> QED
        BY <3>3, <2>1, FetchWrites
    <3> QED
      BY Zenon, <3>2, <3>3
  <2>2. CASE r \in DOMAIN rows
    <3>1. rows'[r] = rows[r]
      BY Zenon, <1>7, <2>2
    <3>2. IF isNull[r][i] THEN rows[r][i] = NullValue
          ELSE \A b \in Slot(i, rows[r][i]) : b \in DOMAIN buffer /\ buffer[b] = <<r, i>>
      BY <1>1, <2>2 DEF ResultInv, RowsAsSent
    <3>3. ~isNull[r][i] => \A b \in Slot(i, rows[r][i]) : b \in DOMAIN buffer' /\ buffer'[b] = buffer[b]
      BY Zenon, <2>2, FetchSpares
    <3> QED
      BY Zenon, <3>1, <3>2, <3>3
  <2> QED
    BY SMTT(30), <2>1, <2>2, <1>3, <1>7
<1>11. \E first \in [Columns -> Nat] : Fetching(first)'
  <2>1. PICK first \in [Columns -> Nat] : Fetching(first)
    BY <1>1 DEF ResultInv
  <2> SUFFICES Fetching(first)'
    OBVIOUS
  <2>2. Laid(first, Len(ResultColumns))'
    BY Zenon, <2>1, <1>1 DEF Fetching, Laid
  <2>3. \A i \in Columns : bind'[i] = IF isNull[now][i] THEN bind[i] ELSE bind[i] + rowSize
    BY Zenon, <1>2 DEF Advance
  <2>4. ASSUME NEW i \in Columns PROVE \E k \in 0 .. now : bind'[i] = At(first[i], k)
    <3>1. PICK k \in Nat : k <= rowPosition /\ bind[i] = At(first[i], k)
      BY <1>3, <2>1, PointersAt
    <3>2. At(first[i], k) + rowSize = At(first[i], k + 1)
      <4>1. (k + 1) * rowSize = k * rowSize + rowSize /\ k * rowSize \in Nat
        BY <1>3
      <4>2. first[i] \in Nat
        OBVIOUS
      <4> QED
        BY <1>3, <4>1, <4>2 DEF At
    <3>3. k \in 0 .. now /\ k + 1 \in 0 .. now
      BY <3>1, <1>3
    <3> QED
      BY <2>3, <3>1, <3>2, <3>3
  <2>5. ASSUME NEW r \in DOMAIN rows', NEW i \in Columns, ~isNull[r][i]
        PROVE  /\ \E k \in 0 .. rowCount : rows'[r][i] = At(first[i], k)
               /\ rows'[r][i] + rowSize <= bind'[i]
    <3>1. CASE r = now
      <4>1. rows'[r][i] = bind[i] /\ bind'[i] = bind[i] + rowSize /\ bind[i] \in Nat
        BY Zenon, <3>1, <2>3, <2>5, <1>5, <1>7
      <4>2. PICK k \in Nat : k <= rowPosition /\ bind[i] = At(first[i], k)
        BY Zenon, <1>3, <2>1, PointersAt
      <4>3. k \in 0 .. rowCount
        BY SMTT(30), <4>2, <1>1, <1>3
      <4> QED
        BY SMTT(30), <4>1, <4>2, <4>3, <1>3
    <3>2. CASE r \in DOMAIN rows
      <4>1. rows'[r] = rows[r]
        BY Zenon, <1>7, <3>2
      <4>2. PICK k \in 0 .. rowCount : rows[r][i] = At(first[i], k) /\ rows[r][i] + rowSize <= bind[i]
        BY Zenon, <2>1, <2>5, <3>2 DEF Fetching
      <4>3. At(first[i], k) \in Nat
        BY <1>3 DEF At
      <4>4. bind[i] \in Nat /\ bind'[i] \in Nat /\ bind[i] <= bind'[i]
        BY SMTT(30), <2>3, <1>3, <1>5
      <4> QED
        BY SMTT(30), <4>1, <4>2, <4>3, <4>4, <1>3
    <3> QED
      BY SMTT(30), <3>1, <3>2, <1>3, <1>7
  <2> QED
    BY Zenon, <2>1, <2>2, <2>4, <2>5, <1>1 DEF Fetching, At
<1>12. Alive'
    BY <1>1 DEF Alive, ResultInv
<1>13. buffer' = [b \in 0 .. rowSize' * rowCount' - 1 |-> buffer'[b]]
  <2>1. DOMAIN buffer = 0 .. rowSize * rowCount - 1
    BY <1>1 DEF ResultInv
  <2>2. buffer' = [b \in DOMAIN buffer' |-> buffer'[b]]
    BY Zenon DEF FetchRow
  <2> QED
    BY <1>1, <2>1, <2>2
<1> QED
    BY Zenon, <1>1, <1>3, <1>4, <1>7, <1>9, <1>10, <1>11, <1>12, <1>13 DEF ResultInv

\* The next column is placed behind those that have their slot.
LEMMA PlaceKeeps == ASSUME ResultInv, PlaceColumn PROVE ResultInv'
<1> DEFINE n == placed + 1
<1>1. /\ set = "bind" /\ set' = "bind" /\ placed < Len(ResultColumns) /\ placed' = n
      /\ bind' = [bind EXCEPT ![n] = rowSize] /\ rowSize' = rowSize + SizeOfColumn(n)
      /\ UNCHANGED <<rowPosition, rowCount, isNull, buffer, rows, metadata, rBind, arrays,
                     freedArrays, bindDone, queries, failed, twice>>
    BY DEF PlaceColumn
<1>2. ResultTypeOK /\ Laid(bind, placed) /\ placed \in Nat /\ rowSize \in Nat /\ bind \in [Columns -> Nat]
    BY SMTT(30), <1>1 DEF ResultInv, ResultTypeOK
<1>3. Columns = 1 .. Len(ResultColumns) /\ Len(ResultColumns) \in Nat
    BY ResultAssumption DEF Columns
<1>4. n \in Columns /\ n \in 0 .. Len(ResultColumns)
    BY <1>1, <1>2, <1>3
<1>5. SizeOfColumn(n) \in Nat
    BY <1>4, SizeType
<1>6. ResultTypeOK'
    BY SMTT(30), <1>1, <1>2, <1>4, <1>5 DEF ResultTypeOK
<1>7. bind'[n] = rowSize /\ \A i \in 1 .. placed : i \in Columns /\ i # n /\ bind'[i] = bind[i]
    BY <1>1, <1>2, <1>3, <1>4
<1>8. \A i \in 1 .. n : /\ bind'[i] + SizeOfColumn(i) <= rowSize'
                        /\ \A j \in 1 .. i - 1 : bind'[j] + SizeOfColumn(j) <= bind'[i]
  <2> SUFFICES ASSUME NEW i \in 1 .. n
               PROVE  /\ bind'[i] + SizeOfColumn(i) <= rowSize'
                      /\ \A j \in 1 .. i - 1 : bind'[j] + SizeOfColumn(j) <= bind'[i]
    OBVIOUS
  <2>1. \A j \in 1 .. placed : /\ bind[j] \in Nat /\ SizeOfColumn(j) \in Nat
                               /\ bind[j] + SizeOfColumn(j) <= rowSize
    BY <1>2, <1>7, SizeType DEF Laid
  <2>2. CASE i = n
    <3>1. i - 1 = placed
      BY <2>2, <1>2
    <3> QED
      BY <3>1, <2>1, <2>2, <1>1, <1>2, <1>5, <1>7
  <2>3. CASE i \in 1 .. placed
    <3>1. bind'[i] + SizeOfColumn(i) <= rowSize'
      BY SMTT(30), <2>1, <2>3, <1>1, <1>2, <1>5, <1>7
    <3>2. \A j \in 1 .. i - 1 : j \in 1 .. placed /\ bind[j] + SizeOfColumn(j) <= bind[i]
      BY <2>3, <1>2 DEF Laid
    <3> QED
      BY <3>1, <3>2, <2>3, <1>7
  <2> QED
    BY <2>2, <2>3, <1>2
<1> HIDE DEF n
<1>9. Laid(bind, placed)'
    BY <1>1, <1>8 DEF Laid
<1>10. Alive'
    BY <1>1 DEF Alive, ResultInv
<1> QED
    BY Zenon, <1>1, <1>6, <1>9, <1>10 DEF ResultInv, RowsAsSent

\* The statement is bound to the slots of the first row.
LEMMA BindKeeps == ASSUME ResultInv, Bind PROVE ResultInv'
<1>1. /\ set = "bind" /\ set' = "fetch" /\ placed = Len(ResultColumns)
      /\ buffer' = [b \in 0 .. rowSize * rowCount - 1 |-> <<>>]
      /\ arrays' = queries /\ bindDone' = TRUE
      /\ UNCHANGED <<rowPosition, rowCount, placed, rowSize, isNull, bind, rows, metadata, rBind,
                     freedArrays, queries, failed, twice>>
    BY DEF Bind
<1>2. ResultTypeOK /\ rowPosition = 0 /\ rows = <<>> /\ Laid(bind, placed) /\ queries > 0
    BY <1>1 DEF ResultInv
<1>3. ResultTypeOK'
    BY <1>1, <1>2 DEF ResultTypeOK
<1>4. RowsAsSent'
    BY SMTT(30), <1>1, <1>2 DEF RowsAsSent
<1>5. bind \in [Columns -> Nat] /\ rowSize \in Nat /\ queries \in Nat
    BY <1>2 DEF ResultTypeOK
<1>6. Fetching(bind)
  <2>1. \A i \in Columns : bind[i] = At(bind[i], 0)
    BY <1>5 DEF At
  <2> QED
    BY SMTT(30), <2>1, <1>1, <1>2, <1>5 DEF Fetching
<1>7. \E first \in [Columns -> Nat] : Fetching(first)'
  <2>1. PICK first \in [Columns -> Nat] : first = bind
    BY <1>5
  <2>2. Fetching(first)
    BY <2>1, <1>6
  <2>3. Fetching(first)'
    BY Zenon, <2>2, <1>1 DEF Fetching, Laid, At
  <2> QED
    BY <2>3
<1>8. Alive'
    BY <1>1, <1>2, <1>5 DEF Alive, ResultInv
<1>9. buffer' = [b \in 0 .. rowSize' * rowCount' - 1 |-> buffer'[b]]
    BY <1>1
<1> QED
    BY <1>1, <1>2, <1>3, <1>4, <1>7, <1>8, <1>9 DEF ResultInv

\* The other steps leave the buffer and the rows alone, or there are none.
LEMMA OtherStepsKeep ==
    ASSUME ResultInv, \/ Construct \/ StoreFails \/ BindFails \/ EndOfFetch \/ NextRow \/ CleanUp
                      \/ \E nulls \in Nulls : Store(nulls)
    PROVE  ResultInv'
<1> USE DEF ResultInv
<1>0. MaxRows \in Nat /\ MaxQueries \in Nat
    BY ResultAssumption
<1>1. CASE Construct
  <2>1. ResultTypeOK'
    <3>1. isNull' \in [1 .. 0 -> [Columns -> BOOLEAN]] /\ 0 \in 0 .. Len(ResultColumns)
      BY <1>1, ResultAssumption DEF Construct
    <3>2. freedArrays' \subseteq 1 .. MaxQueries
      BY SMTT(30), <1>0, <1>1 DEF Construct, ResultTypeOK
    <3> QED
      BY SMTT(30), <1>0, <1>1, <3>1, <3>2 DEF Construct, ResultTypeOK
  <2>2. RowsAsSent'
    BY Zenon, <1>1 DEF Construct, RowsAsSent
  <2>3. Alive'
    BY SMTT(30), <1>1 DEF Construct, Alive, ResultTypeOK
  <2> QED
    BY SMTT(30), <1>1, <2>1, <2>2, <2>3 DEF Construct, ResultTypeOK
<1>2. CASE StoreFails
  <2>1. ResultTypeOK'
    BY <1>0, <1>2 DEF StoreFails, ResultTypeOK
  <2>2. RowsAsSent'
    BY SMTT(30), <1>2 DEF StoreFails, RowsAsSent
  <2>3. Alive'
    BY <1>2 DEF StoreFails, Alive
  <2> QED
    BY <1>2, <2>1, <2>2, <2>3 DEF StoreFails
<1>3. CASE BindFails
  <2>1. ResultTypeOK'
    BY SMTT(30), <1>0, <1>3 DEF BindFails, ResultTypeOK
  <2>2. RowsAsSent'
    BY <1>3 DEF BindFails, RowsAsSent
  <2>3. Alive'
    BY <1>3 DEF BindFails, Alive
  <2> QED
    BY <1>3, <2>1, <2>2, <2>3 DEF BindFails
<1>4. CASE EndOfFetch
  <2>1. ResultTypeOK'
    BY SMTT(30), <1>0, <1>4 DEF EndOfFetch, ResultTypeOK
  <2>2. RowsAsSent'
    BY Zenon, <1>4 DEF EndOfFetch, RowsAsSent, Slot
  <2>3. Alive'
    BY Zenon, <1>4 DEF EndOfFetch, Alive
  <2> QED
    BY <1>4, <2>1, <2>2, <2>3 DEF EndOfFetch
<1>5. CASE NextRow
  <2>1. ResultTypeOK'
    BY SMTT(30), <1>0, <1>5 DEF NextRow, ResultTypeOK
  <2>2. RowsAsSent'
    BY Zenon, <1>5 DEF NextRow, RowsAsSent, Slot
  <2>3. Alive'
    BY Zenon, <1>5 DEF NextRow, Alive
  <2> QED
    BY <1>5, <2>1, <2>2, <2>3 DEF NextRow
<1>6. CASE CleanUp
  <2>1. ResultTypeOK'
    BY Zenon, <1>0, <1>6 DEF CleanUp, ResultTypeOK
  <2>2. RowsAsSent'
    BY Zenon, <1>6 DEF CleanUp, RowsAsSent
  <2>3. Alive'
    BY Zenon, <1>6 DEF CleanUp, Alive
  <2> QED
    BY <1>6, <2>1, <2>2, <2>3 DEF CleanUp
<1>7. ASSUME NEW nulls \in Nulls, Store(nulls) PROVE ResultInv'
  <2>1. PICK n \in 0 .. MaxRows : nulls \in [1 .. n -> [Columns -> BOOLEAN]]
    BY DEF Nulls
  <2>2. Len(nulls) = n
    BY <1>0, <2>1
  <2>3. ResultTypeOK'
    BY SMTT(30), <1>0, <1>7, <2>1, <2>2 DEF Store, ResultTypeOK
  <2>4. RowsAsSent'
    BY Zenon, <1>7 DEF Store, RowsAsSent
  <2>5. Laid(bind, placed)'
    BY <1>7 DEF Store, Laid
  <2>6. Alive'
    BY Zenon, <1>7 DEF Store, Alive
  <2> QED
    BY Zenon, <1>7, <2>3, <2>4, <2>5, <2>6 DEF Store
<1> QED
    BY Zenon, <1>1, <1>2, <1>3, <1>4, <1>5, <1>6, <1>7

\* A step that changes nothing keeps the invariant.
LEMMA ResultStutters == ASSUME ResultInv, UNCHANGED resultVars PROVE ResultInv'
<1> USE DEF resultVars
<1>1. ResultTypeOK'
    BY Zenon DEF ResultInv, ResultTypeOK
<1>2. RowsAsSent' /\ Alive'
    BY Zenon DEF ResultInv, RowsAsSent, Alive, Slot
<1>3. set = "bind" => Laid(bind, placed)'
    BY DEF ResultInv, Laid
<1>4. set = "fetch" => \E first \in [Columns -> Nat] : Fetching(first)'
    BY ZenonT(30) DEF ResultInv, Fetching, Laid, At
<1> QED
    BY <1>1, <1>2, <1>3, <1>4 DEF ResultInv

\* The invariant holds for every number and every type of columns, and for any number of
\* rows, whichever of their values are NULL, and of results.
THEOREM ResultInvHolds == ResultSpec => []ResultInv
<1>1. ResultInit => ResultInv
  <2> SUFFICES ASSUME ResultInit PROVE ResultInv
    OBVIOUS
  <2>1. ResultTypeOK
    <3>1. isNull \in [1 .. 0 -> [Columns -> BOOLEAN]] /\ 0 \in 0 .. Len(ResultColumns)
      BY ResultAssumption DEF ResultInit
    <3>2. MaxRows \in Nat /\ MaxQueries \in Nat
      BY ResultAssumption
    <3>3. bind \in [Columns -> Nat]
      BY DEF ResultInit
    <3>4. rows \in Seq([Columns -> Nat \cup {NullValue}]) /\ Len(rows) = 0
      BY DEF ResultInit
    <3>5. /\ rowCount \in 0 .. MaxRows /\ rowPosition \in 0 .. rowCount /\ rowSize \in Nat
          /\ placed \in 0 .. Len(ResultColumns) /\ queries \in 0 .. MaxQueries
          /\ isNull \in [1 .. rowCount -> [Columns -> BOOLEAN]] /\ Len(rows) <= rowCount
          /\ arrays \in 0 .. MaxQueries /\ freedArrays \subseteq 1 .. MaxQueries
      BY <3>1, <3>2, <3>4 DEF ResultInit
    <3> QED
      BY Zenon, <3>3, <3>4, <3>5 DEF ResultInit, ResultTypeOK
  <2> QED
    BY Zenon, <2>1 DEF ResultInit, ResultInv, RowsAsSent, Alive
<1>2. ResultInv /\ [ResultNext]_resultVars => ResultInv'
    BY FetchKeeps, PlaceKeeps, BindKeeps, OtherStepsKeep, ResultStutters DEF ResultNext
<1> QED
    BY <1>1, <1>2, PTL DEF ResultSpec

\* RowsAsSent: what is read from a row of a PreparedResultSet is what the server has sent
\* for that row and column.
THEOREM PreparedRowsAsSent == ResultSpec => []RowsAsSent
    BY ResultInvHolds, PTL DEF ResultInv

\* FreedOnce: while storing and binding succeed, neither the arrays of the statement nor
\* the metadata or the buffer of a result are freed twice.
THEOREM PreparedFreedOnce == ResultSpec => []FreedOnce
<1>1. ResultInv => FreedOnce
    BY DEF ResultInv, Alive, FreedOnce
<1> QED
    BY <1>1, ResultInvHolds, PTL

-------------------------------------------------------------------------------
\* The remainder of a number that is small enough, and of one that is negative and small enough.
LEMMA SmallRemainder == ASSUME NEW s \in Nat, s > 0, NEW v \in Int, v >= 0, v < s
                        PROVE  v % s = v
    OBVIOUS

\* A negative number wraps around once.
LEMMA NegativeRemainder == ASSUME NEW s \in Nat, s > 0, NEW v \in Int, v < 0, v >= -s
                           PROVE  v % s = v + s
    OBVIOUS

\* What is stored in a type is an integer.
LEMMA RemainderType == ASSUME NEW s \in Nat, s > 0, NEW v \in Int
                       PROVE  v % s \in Int
    OBVIOUS

\* The values of a signed type are negative for the upper half.
LEMMA HalfOf == ASSUME NEW h \in Nat PROVE (2 * h) \div 2 = h
    OBVIOUS

\* The size of a type is made of the sizes of its bytes.
LEMMA Product == ASSUME NEW h \in Nat, h > 0, NEW k \in Nat, k > 0
                 PROVE  h * (2 * k) \in Nat /\ h * (2 * k) > 0 /\ (2 * h) * (2 * k) = 2 * (h * (2 * k))
    OBVIOUS

\* A type of every size has an even number of values.
LEMMA SizeIsEven == ASSUME NEW T \in GetDataTypes
                    PROVE  \E h \in Nat : h > 0 /\ Size(T) = 2 * h
<1>1. PICK h \in Nat : h > 0 /\ ByteValues = 2 * h
    BY FieldAssumption
<1>2. PICK two \in Nat : two > 0 /\ ByteValues * ByteValues = 2 * two
    BY <1>1, Product
<1>3. PICK four \in Nat : four > 0 /\ (2 * two) * (2 * two) = 2 * four
    BY <1>2, Product
<1>4. PICK eight \in Nat : eight > 0 /\ (2 * four) * (2 * four) = 2 * eight
    BY <1>3, Product
<1>5. SizeOf(T) \in {1, 2, 4, 8}
    BY DEF SizeOf, GetDataTypes, Unsigned, Signed
<1>6. CASE SizeOf(T) = 1
    BY <1>1, <1>6 DEF Size
<1>7. CASE SizeOf(T) = 2
    BY <1>2, <1>7 DEF Size
<1>8. CASE SizeOf(T) = 4
    BY <1>2, <1>3, <1>8 DEF Size
<1>9. CASE SizeOf(T) = 8
    BY <1>2, <1>3, <1>4, <1>9 DEF Size
<1> QED
    BY <1>5, <1>6, <1>7, <1>8, <1>9

\* static_cast to a type that can hold the number leaves it as it is.
LEMMA CastInRange == ASSUME NEW T \in GetDataTypes, NEW v \in Int, InRange(T, v)
                     PROVE  Cast(T, v) = v
<1>1. PICK h \in Nat : h > 0 /\ Size(T) = 2 * h
    BY SizeIsEven
<1>2. Size(T) \in Nat /\ Size(T) > 0 /\ Size(T) \div 2 = h
    BY <1>1, HalfOf
<1>3. CASE Floating(T)
    BY <1>3 DEF Cast
<1>4. CASE T = "bool" /\ v \in {0, 1}
    BY <1>4 DEF Cast, Floating
<1>5. CASE T \in Unsigned /\ v \in 0 .. Size(T) - 1
  <2>1. v % Size(T) = v
    BY <1>2, <1>5, SmallRemainder
  <2> QED
    BY <1>5, <2>1 DEF Cast, Floating, Unsigned
<1>6. CASE T \in Signed /\ v \in -(Size(T) \div 2) .. (Size(T) \div 2) - 1
  <2>1. T \notin Unsigned /\ ~Floating(T) /\ T # "bool"
    BY <1>6 DEF Signed, Unsigned, Floating
  <2>2. CASE v >= 0
    <3>1. v % Size(T) = v /\ v < Size(T) \div 2
      BY <1>1, <1>2, <1>6, <2>2, SmallRemainder
    <3> QED
      BY <2>1, <3>1 DEF Cast
  <2>3. CASE v < 0
    <3>1. v >= -Size(T)
      BY <1>1, <1>2, <1>6, <2>3
    <3>2. v % Size(T) = v + Size(T)
      BY <1>2, <2>3, <3>1, NegativeRemainder
    <3>3. ~(v + Size(T) < Size(T) \div 2)
      BY <1>1, <1>2, <1>6, <2>3
    <3>4. Cast(T, v) = (v + Size(T)) - Size(T)
      BY <2>1, <3>2, <3>3 DEF Cast
    <3> QED
      BY <1>2, <3>4
  <2> QED
    BY <2>2, <2>3
<1> QED
    BY <1>3, <1>4, <1>5, <1>6 DEF InRange

\* A cast gives an integer.
LEMMA CastType == ASSUME NEW T \in GetDataTypes, NEW v \in Int PROVE Cast(T, v) \in Int
<1>1. PICK h \in Nat : h > 0 /\ Size(T) = 2 * h
    BY SizeIsEven
<1>2. Size(T) \in Nat /\ Size(T) > 0
    BY <1>1
<1>3. v % Size(T) \in Int
    BY <1>2, RemainderType
<1> QED
    BY <1>2, <1>3 DEF Cast

\* A negative number read as unsigned wraps around once.
LEMMA CastWraps ==
    ASSUME NEW T \in Unsigned, NEW v \in Int, ~InRange(T, v), InRange(SignedOf[T], v)
    PROVE  v < 0 /\ Cast(T, v) = Size(T) + v /\ InRange(T, Size(T) + v)
<1>1. /\ SignedOf[T] \in Signed /\ T \in GetDataTypes /\ SignedOf[T] \in GetDataTypes
      /\ SizeOf(SignedOf[T]) = SizeOf(T)
    BY DEF SignedOf, Unsigned, Signed, GetDataTypes, SizeOf
<1>2. Size(SignedOf[T]) = Size(T)
    BY <1>1 DEF Size
<1>3. PICK h \in Nat : h > 0 /\ Size(T) = 2 * h
    BY <1>1, SizeIsEven
<1>4. Size(T) \in Nat /\ Size(T) > 0 /\ Size(T) \div 2 = h
    BY <1>3, HalfOf
<1>5. v \in -h .. h - 1
    BY <1>1, <1>2, <1>4 DEF InRange, Signed, Unsigned, Floating
<1>6. ~(v \in 0 .. Size(T) - 1)
    BY DEF InRange
<1>7. v < 0 /\ v >= -Size(T) /\ Size(T) + v \in 0 .. Size(T) - 1
    BY SMTT(30), <1>3, <1>4, <1>5, <1>6
<1>8. v % Size(T) = v + Size(T)
    BY <1>4, <1>7, NegativeRemainder
<1>9. Cast(T, v) = v + Size(T)
    BY <1>8 DEF Cast, Unsigned, Floating
<1> QED
    BY SMTT(30), <1>4, <1>7, <1>9 DEF InRange

\* What GetData makes of a text, read as the type it was asked for.
LEMMA TextRead ==
    ASSUME NEW T \in GetDataTypes, data \in Int
    PROVE  /\ FromText(T) \in Int
           /\ \/ Cast(T, FromText(T)) \in {data, GetDefaultValue(T)}
              \/ T \in Unsigned /\ data < 0 /\ Cast(T, FromText(T)) = Size(T) + data
<1>1. GetDefaultValue(T) \in Int /\ Cast(T, GetDefaultValue(T)) = GetDefaultValue(T)
  <2>1. CASE Floating(T)
    BY <2>1 DEF GetDefaultValue, Cast
  <2>2. CASE ~Floating(T)
    <3>1. GetDefaultValue(T) = 0
      BY <2>2 DEF GetDefaultValue
    <3>2. PICK h \in Nat : h > 0 /\ Size(T) = 2 * h
      BY SizeIsEven
    <3>3. 0 \in 0 .. Size(T) - 1 /\ 0 \in -(Size(T) \div 2) .. (Size(T) \div 2) - 1
      BY <3>2, HalfOf
    <3>4. InRange(T, 0)
      BY <2>2, <3>3 DEF InRange, GetDataTypes, Floating
    <3> QED
      BY <3>1, <3>4, CastInRange
  <2> QED
    BY <2>1, <2>2
<1>2. CASE InRange(T, data)
    BY Zenon, <1>2, CastInRange DEF FromText
<1>3. CASE ~InRange(T, data) /\ T \in Unsigned /\ InRange(SignedOf[T], data)
  <2>1. FromText(T) = Cast(T, data)
    BY <1>3 DEF FromText
  <2>2. data < 0 /\ Cast(T, data) = Size(T) + data /\ InRange(T, Size(T) + data)
    BY Zenon, <1>3, CastWraps
  <2>3. Cast(T, data) \in Int
    BY CastType
  <2>4. Cast(T, Size(T) + data) = Size(T) + data
    BY <2>2, <2>3, CastInRange
  <2> QED
    BY Zenon, <1>3, <2>1, <2>2, <2>3, <2>4
<1>4. CASE ~InRange(T, data) /\ ~(T \in Unsigned /\ InRange(SignedOf[T], data))
    BY Zenon, <1>1, <1>4 DEF FromText
<1> QED
    BY Zenon, <1>2, <1>3, <1>4

-------------------------------------------------------------------------------
\* GetData calls itself for an aggregate alone, and with the type the aggregate has.
FieldInv == /\ FieldTypeOK
            /\ \/ wanted = asked
               \/ alias \in {"sum", "avg"} /\ wanted = "double"
               \/ alias = "count" /\ wanted = "uint64"
            /\ ReadAsStored

\* A type that IsCorrectFieldType allows, and the type of an aggregate, fit in the slot.
LEMMA FitsSlot ==
    ASSUME FieldInv, IsCorrectFieldType(asked, Type)
    PROVE  ~PastSlot(wanted)
<1>1. column \in ColumnTypes /\ asked \in GetDataTypes /\ column \in AliasOf[alias]
    BY FieldAssumption DEF FieldInv, FieldTypeOK
<1>2. SizeOf("double") = 8 /\ SizeOf("uint64") = 8
    BY DEF SizeOf
<1>3. CASE wanted = asked
  <2>1. PICK type : type = Type
    OBVIOUS
  <2>2. /\ type = "Int8" => SizeOf(asked) = 1 /\ SizeForType(column, 8) = 1
        /\ type = "Int16" => SizeOf(asked) = 2 /\ SizeForType(column, 8) = 2
        /\ type = "Int32" => SizeOf(asked) = 4 /\ SizeForType(column, 8) = 4
        /\ type = "Int64" => SizeOf(asked) = 8 /\ SizeForType(column, 8) = 8
        /\ type = "Float" => SizeOf(asked) = 4 /\ SizeForType(column, 8) = 4
        /\ type = "Double" => SizeOf(asked) = 8 /\ SizeForType(column, 8) = 8
        /\ type = "Decimal" => SizeOf(asked) = 8 /\ SizeForType(column, 8) = 64
    BY <1>1, <2>1 DEF Type, MysqlTypeToFieldType, ColumnTypes, Strings, Times, Decimals,
                      IsCorrectFieldType, SizeForType, SizeOf
  <2>3. type \in {"Int8", "Int16", "Int32", "Int64", "Float", "Double", "Decimal"}
    BY <2>1 DEF IsCorrectFieldType
  <2> QED
    BY SMTT(30), <1>2, <1>3, <2>2, <2>3 DEF PastSlot
<1>4. CASE alias \in {"sum", "avg"} /\ wanted = "double"
  <2>1. column \in {"NEWDECIMAL", "DOUBLE"}
    BY SMTT(30), <1>1, <1>4 DEF AliasOf
  <2>2. SizeForType(column, 8) \in {8, 64}
    BY <2>1 DEF SizeForType, Decimals, Times, Strings
  <2> QED
    BY <1>2, <1>4, <2>2 DEF PastSlot
<1>5. CASE alias = "count" /\ wanted = "uint64"
  <2>1. column = "LONGLONG"
    BY Zenon, <1>1, <1>5 DEF AliasOf
  <2>2. SizeForType(column, 8) = 8
    BY <2>1 DEF SizeForType, Decimals, Times, Strings
  <2> QED
    BY <1>2, <1>5, <2>2 DEF PastSlot
<1> QED
    BY <1>3, <1>4, <1>5 DEF FieldInv

\* The invariant of a call of GetData, for every value, column and type, and every size of a
\* byte.
THEOREM FieldInvHolds == FieldSpec => []FieldInv
<1>1. FieldInit => FieldInv
  <2> SUFFICES ASSUME FieldInit PROVE FieldInv
    OBVIOUS
  <2>1. answer \in Int
    BY DEF FieldInit
  <2> QED
    BY Zenon, <2>1
       DEF FieldInit, FieldInv, FieldTypeOK, ReadAsStored, NotAnotherNumber, CorrectTypesFit
<1>2. FieldInv /\ [GetData]_fieldVars => FieldInv'
  <2> SUFFICES ASSUME FieldInv, [GetData]_fieldVars PROVE FieldInv'
    OBVIOUS
  <2>1. CASE UNCHANGED fieldVars
    BY Zenon, <2>1
       DEF fieldVars, FieldInv, FieldTypeOK, ReadAsStored, NotAnotherNumber, CorrectTypesFit, Type
  <2>2. CASE GetData
    <3>1. ~answered /\ UNCHANGED <<column, alias, data, raw, asked>>
      BY Zenon, <2>2 DEF GetData
    <3>2. asked \in GetDataTypes /\ wanted \in GetDataTypes /\ badRead \in BOOLEAN
      BY Zenon DEF FieldInv, FieldTypeOK
    <3>3. CASE data = NoData
      <4>1. answered' = TRUE /\ answer' = GetDefaultValue(wanted) /\ UNCHANGED <<wanted, badRead>>
        BY Zenon, <2>2, <3>3 DEF GetData
      <4>2. answer' \in Int
        BY <4>1 DEF GetDefaultValue
      <4> QED
        BY Zenon, <3>1, <3>3, <4>1, <4>2
        DEF FieldInv, FieldTypeOK, ReadAsStored, NotAnotherNumber, CorrectTypesFit, Type
    <3>4. CASE data # NoData
      <4>1. badRead' = (badRead \/ PastSlot(wanted))
        BY Zenon, <2>2, <3>4 DEF GetData
      <4>2. CorrectTypesFit' /\ badRead' \in BOOLEAN
        <5>1. IsCorrectFieldType(asked, Type) => ~badRead /\ ~PastSlot(wanted)
          BY FitsSlot DEF FieldInv, ReadAsStored, CorrectTypesFit
        <5>2. PICK type : type = Type
          OBVIOUS
        <5>3. Type' = type
          BY <3>1, <5>2 DEF Type
        <5>4. badRead' \in BOOLEAN
          BY <3>2, <4>1
        <5>5. badRead' => ~IsCorrectFieldType(asked, type)
          BY Zenon, <4>1, <5>1, <5>2
        <5> QED
          BY <3>1, <5>3, <5>4, <5>5 DEF CorrectTypesFit, IsCorrectFieldType
      <4>3. data \in Int
        BY Zenon, <3>4, FieldAssumption DEF FieldInv, FieldTypeOK
      <4>4. CASE AskAgain # "no"
        <5>1. wanted' = AskAgain /\ UNCHANGED <<answered, answer>>
          BY Zenon, <2>2, <3>4, <4>4 DEF GetData
        <5>2. \/ alias \in {"sum", "avg"} /\ wanted' = "double"
              \/ alias = "count" /\ wanted' = "uint64"
          BY <4>4, <5>1 DEF AskAgain
        <5>3. wanted' \in GetDataTypes
          BY <5>2 DEF GetDataTypes, Unsigned
        <5> QED
          BY Zenon, <3>1, <4>2, <5>1, <5>2, <5>3
             DEF FieldInv, FieldTypeOK, ReadAsStored, NotAnotherNumber
      <4>5. CASE AskAgain = "no"
        <5>1. /\ answered' = TRUE /\ UNCHANGED wanted
              /\ \E v \in IF raw THEN FromRaw(wanted) ELSE {FromText(wanted)} : answer' = Cast(asked, v)
          BY Zenon, <2>2, <3>4, <4>5 DEF GetData
        <5>2. CASE raw
          <6>1. PICK v \in FromRaw(wanted) : answer' = Cast(asked, v)
            BY <5>1, <5>2
          <6>2. \A u \in FieldValues : Cast(wanted, u) \in Int
            BY <3>2, CastType, FieldAssumption
          <6>3. v \in Int
            BY <4>3, <3>2, <6>1, <6>2, CastType DEF FromRaw
          <6>4. answer' \in Int
            BY <3>2, <6>1, <6>3, CastType
          <6> QED
            BY Zenon, <3>1, <4>2, <5>1, <5>2, <6>4
               DEF FieldInv, FieldTypeOK, ReadAsStored, NotAnotherNumber
        <5>3. CASE ~raw
          <6>1. answer' = Cast(asked, FromText(wanted))
            BY <5>1, <5>3
          <6>2. answer' \in Int
            BY <3>2, <4>3, <6>1, TextRead, CastType
          <6>3. alias \notin {"count", "sum", "avg"} => wanted = asked
            BY DEF FieldInv
          <6>4. alias \notin {"count", "sum", "avg"} =>
                   \/ answer' \in {data, GetDefaultValue(asked)}
                   \/ asked \in Unsigned /\ data < 0 /\ answer' = Size(asked) + data
            BY <3>2, <4>3, <6>1, <6>3, TextRead
          <6>5. PICK a, d, s : a = asked /\ d = GetDefaultValue(asked) /\ s = Size(asked)
            OBVIOUS
          <6>6. asked' = a /\ GetDefaultValue(asked') = d /\ Size(asked') = s
            BY <3>1, <6>5
          <6>7. NotAnotherNumber'
            BY <3>1, <6>4, <6>5, <6>6 DEF NotAnotherNumber
          <6> QED
            BY Zenon, <3>1, <4>2, <5>1, <6>2, <6>7 DEF FieldInv, FieldTypeOK, ReadAsStored
        <5> QED
          BY <5>2, <5>3
      <4> QED
        BY <4>4, <4>5
    <3> QED
      BY <3>3, <3>4
  <2> QED
    BY <2>1, <2>2
<1> QED
    BY <1>1, <1>2, PTL DEF FieldSpec

\* A number that came as text is not taken for another one, and one that came in binary form
\* is read within its slot.
THEOREM FieldReadAsStored == FieldSpec => []ReadAsStored
<1>1. FieldInv => ReadAsStored
    BY DEF FieldInv
<1> QED
    BY <1>1, FieldInvHolds, PTL

-------------------------------------------------------------------------------
\* A holder goes through the hands of its caller, of a worker and of the thread that waits,
\* one after the other. The rows of a result are read while nobody writes it.
HolderInv ==
    /\ HolderTypeOK
    /\ results = answers
    /\ ready => task \in {"ended", "dropped"}
    /\ task = "ended" => left = {}
    /\ holder = "called" => ready
    /\ holder = "filled" => task = "none"
    /\ \A i \in HolderIndexes :
          /\ got[i] \in Seq(Nat)
          /\ \A k \in 1 .. Len(got[i]) : got[i][k] = k
          /\ Len(got[i]) = IF row[i] <= results[i] THEN row[i] ELSE results[i]
          /\ row[i] <= results[i] + 1
          /\ holder # "called" => row[i] = 0

\* The results are written by the worker alone, before the promise has its value.
LEMMA ExecuteOneStep ==
    ASSUME HolderAssumption, HolderInv, NEW i \in HolderIndexes, NEW n \in 0 .. HolderRows,
           ExecuteOne(i, n)
    PROVE  HolderInv'
<1>1. /\ task = "running" /\ i \in left /\ left' = left \ {i}
      /\ answers' = [answers EXCEPT ![i] = n] /\ results' = [results EXCEPT ![i] = n]
      /\ UNCHANGED <<row, holder, holderQueries, task, ready, got>>
  BY Zenon DEF ExecuteOne, SetResult
<1>2. HolderTypeOK'
  <2>1. answers \in [HolderIndexes -> 0 .. HolderRows] /\ results \in [HolderIndexes -> 0 .. HolderRows]
    BY DEF HolderInv, HolderTypeOK
  <2>2. {answers, results}' \subseteq [HolderIndexes -> 0 .. HolderRows]
    BY <1>1, <2>1
  <2> QED
    BY Zenon, <1>1, <2>2 DEF HolderInv, HolderTypeOK
<1>3. holder # "called" /\ \A j \in HolderIndexes : row[j] = 0
  BY Zenon, <1>1 DEF HolderInv
<1>4. \A j \in HolderIndexes : results'[j] \in Nat /\ results[j] \in Nat
  <2>1. /\ results \in [HolderIndexes -> 0 .. HolderRows] /\ results' \in [HolderIndexes -> 0 .. HolderRows]
        /\ HolderRows \in Nat
    BY Zenon, <1>2 DEF HolderTypeOK, HolderAssumption, HolderInv
  <2> QED
    BY <2>1
<1>5. ASSUME NEW j \in HolderIndexes
      PROVE  /\ Len(got[j]) = IF row[j] <= results'[j] THEN row[j] ELSE results'[j]
             /\ row[j] <= results'[j] + 1
  BY SMTT(30), <1>3, <1>4 DEF HolderInv
<1> QED
  BY Zenon, <1>1, <1>2, <1>3, <1>5 DEF HolderInv

\* GetResult gives the next row, until there is none.
LEMMA GetResultStep ==
    ASSUME HolderAssumption, HolderInv, NEW i \in HolderIndexes, GetResult(i)
    PROVE  HolderInv'
<1>1. /\ holder = "called" /\ results[i] # 0 /\ row[i] <= results[i]
      /\ row' = [row EXCEPT ![i] = @ + 1]
      /\ got' = IF row[i] < results[i] THEN [got EXCEPT ![i] = Append(@, row[i] + 1)] ELSE got
      /\ UNCHANGED <<holder, holderQueries, task, left, ready, answers, results>>
  BY Zenon DEF GetResult
<1>2. /\ HolderTypeOK /\ results[i] \in Nat /\ row[i] \in Nat /\ results[i] <= HolderRows
      /\ row \in [HolderIndexes -> 0 .. HolderRows + 1] /\ DOMAIN got = HolderIndexes
      /\ HolderRows \in Nat
  <2>1. /\ HolderTypeOK /\ results \in [HolderIndexes -> 0 .. HolderRows] /\ DOMAIN got = HolderIndexes
        /\ row \in [HolderIndexes -> 0 .. HolderRows + 1] /\ HolderRows \in Nat
    BY Zenon DEF HolderInv, HolderTypeOK, HolderAssumption
  <2> QED
    BY <2>1
<1>3. /\ got[i] \in Seq(Nat) /\ (\A k \in 1 .. Len(got[i]) : got[i][k] = k)
      /\ Len(got[i]) = row[i]
  BY Zenon, <1>1 DEF HolderInv
<1>4. row'[i] = row[i] + 1 /\ row'[i] <= results[i] + 1
      /\ \A j \in HolderIndexes : j # i => row'[j] = row[j]
  <2>1. /\ row \in [HolderIndexes -> 0 .. HolderRows + 1] /\ row' = [row EXCEPT ![i] = @ + 1]
        /\ row[i] \in Nat /\ results[i] \in Nat /\ row[i] <= results[i]
    BY Zenon, <1>1, <1>2
  <2> QED
    BY <2>1
<1>5. \A j \in HolderIndexes : j # i => got'[j] = got[j]
  BY <1>1, <1>2
<1>6. /\ got'[i] \in Seq(Nat) /\ \A k \in 1 .. Len(got'[i]) : got'[i][k] = k
      /\ Len(got'[i]) = IF row'[i] <= results[i] THEN row'[i] ELSE results[i]
  <2>1. CASE row[i] < results[i]
    <3> DEFINE s == Append(got[i], row[i] + 1)
    <3>1. got'[i] = s
      BY Zenon, <1>1, <1>2, <2>1
    <3>2. /\ s \in Seq(Nat) /\ Len(s) = row[i] + 1 /\ s[row[i] + 1] = row[i] + 1
          /\ \A k \in 1 .. row[i] : s[k] = got[i][k]
      <4>1. got[i] \in Seq(Nat) /\ Len(got[i]) = row[i] /\ row[i] \in Nat
        BY Zenon, <1>2, <1>3
      <4> QED
        BY <4>1
    <3> HIDE DEF s
    <3>3. ASSUME NEW k \in 1 .. row[i] + 1 PROVE s[k] = k
      <4>1. k \in 1 .. row[i] \/ k = row[i] + 1
        BY <1>2
      <4> QED
        BY SMTT(30), <1>3, <3>2, <4>1
    <3>4. row'[i] <= results[i]
      BY <1>2, <1>4, <2>1
    <3> QED
      BY Zenon, <1>4, <3>1, <3>2, <3>3, <3>4
  <2>2. CASE ~(row[i] < results[i])
    <3>1. got'[i] = got[i] /\ row[i] = results[i] /\ ~(row'[i] <= results[i])
      BY <1>1, <1>2, <1>4, <2>2
    <3> QED
      BY Zenon, <1>3, <3>1
  <2> QED
    BY Zenon, <2>1, <2>2
<1>7. HolderTypeOK'
  <2>1. row' \in [HolderIndexes -> 0 .. HolderRows + 1]
    BY SMTT(30), <1>1, <1>2
  <2>2. DOMAIN got' = HolderIndexes
    BY <1>1, <1>2
  <2> QED
    BY Zenon, <1>1, <1>2, <2>1, <2>2 DEF HolderTypeOK
<1>8. ASSUME NEW j \in HolderIndexes
      PROVE  /\ got'[j] \in Seq(Nat)
             /\ \A k \in 1 .. Len(got'[j]) : got'[j][k] = k
             /\ Len(got'[j]) = IF row'[j] <= results'[j] THEN row'[j] ELSE results'[j]
             /\ row'[j] <= results'[j] + 1
  <2>1. CASE j = i
    BY Zenon, <1>1, <1>4, <1>6, <2>1
  <2>2. CASE j # i
    BY ZenonT(30), <1>1, <1>4, <1>5, <2>2 DEF HolderInv
  <2> QED
    BY Zenon, <2>1, <2>2
<1> QED
  BY Zenon, <1>1, <1>7, <1>8 DEF HolderInv

\* The stages of a holder follow one another in every state.
THEOREM HolderInvHolds == HolderSpec => []HolderInv
<1> USE HolderAssumption
<1>1. HolderInit => HolderInv
  <2>1. SUFFICES ASSUME HolderInit PROVE HolderInv
    OBVIOUS
  <2>2. /\ answers \in [HolderIndexes -> 0 .. HolderRows]
        /\ row \in [HolderIndexes -> 0 .. HolderRows + 1]
        /\ DOMAIN got = HolderIndexes /\ DOMAIN holderQueries = {}
    BY <2>1 DEF HolderInit, HolderAssumption
  <2>3. HolderTypeOK
    BY Zenon, <2>1, <2>2 DEF HolderInit, HolderTypeOK
  <2>4. \A i \in HolderIndexes : got[i] = <<>> /\ row[i] = 0 /\ results[i] = 0
    BY <2>1 DEF HolderInit
  <2> QED
    BY <2>1, <2>3, <2>4 DEF HolderInit, HolderInv
<1>2. HolderInv /\ [HolderNext]_holderVars => HolderInv'
  <2>1. SUFFICES ASSUME HolderInv, [HolderNext]_holderVars PROVE HolderInv'
    OBVIOUS
  <2>2. ASSUME NEW i \in HolderIndexes, NEW kind \in {"plain", "prepared"}, AddQuery(i, kind)
        PROVE  HolderInv'
    <3>1. HolderTypeOK'
      BY Zenon, <2>1, <2>2 DEF HolderInv, HolderTypeOK, AddQuery
    <3> QED
      BY Zenon, <2>1, <2>2, <3>1 DEF HolderInv, AddQuery
  <2>3. CASE DelayQueryHolder
    BY Zenon, <2>1, <2>3 DEF HolderInv, HolderTypeOK, DelayQueryHolder
  <2>4. CASE BeginExecute
    BY Zenon, <2>1, <2>4 DEF HolderInv, HolderTypeOK, BeginExecute
  <2>5. ASSUME NEW i \in HolderIndexes, NEW n \in 0 .. HolderRows, ExecuteOne(i, n)
        PROVE  HolderInv'
    BY <2>1, <2>5, ExecuteOneStep
  <2>6. CASE EndExecute
    BY Zenon, <2>1, <2>6 DEF HolderInv, HolderTypeOK, EndExecute
  <2>7. CASE DropTask
    BY Zenon, <2>1, <2>7 DEF HolderInv, HolderTypeOK, DropTask
  <2>8. CASE InvokeIfReady
    BY Zenon, <2>1, <2>8 DEF HolderInv, HolderTypeOK, InvokeIfReady
  <2>9. ASSUME NEW i \in HolderIndexes, GetResult(i) PROVE HolderInv'
    BY <2>1, <2>9, GetResultStep
  <2>10. CASE UNCHANGED holderVars
    BY Zenon, <2>1, <2>10 DEF HolderInv, HolderTypeOK, holderVars
  <2> QED
    BY <2>1, <2>2, <2>3, <2>4, <2>5, <2>6, <2>7, <2>8, <2>9, <2>10 DEF HolderNext, Worker
<1> QED
  BY <1>1, <1>2, PTL DEF HolderSpec

\* The callback of a holder that was executed has the answers to all of its queries, and
\* reads the rows of each from the first one on, for any number of queries and rows.
THEOREM HolderHasAll == HolderSpec => []ResultsOfAll
<1>1. HolderInv => ResultsOfAll
  <2>1. SUFFICES ASSUME HolderInv PROVE ResultsOfAll
    OBVIOUS
  <2>2. AllAnswered
    BY Zenon, <2>1 DEF HolderInv, AllAnswered
  <2>3. ASSUME NEW i \in HolderIndexes PROVE got[i] = [k \in 1 .. Len(got[i]) |-> k]
    BY SMTT(30), <2>1 DEF HolderInv
  <2> QED
    BY <2>2, <2>3 DEF ResultsOfAll, EachRowOnce
<1> QED
  BY <1>1, HolderInvHolds, PTL

-------------------------------------------------------------------------------
\* A prepared statement and the bindings of MySQLPreparedStatement as they are created.
LEMMA BindInitTypes == BindInit => BindTypeOK
<1>1. NotSet \in ParamValues /\ 0 \in 0 .. MaxRetries
  BY BindingAssumption DEF NotSet, ParamValues
<1>2. NewBind \in [type : {"zero", "number", "string", "NULL"},
                  buffer : ParamValues \cup {Empty}, length : BOOLEAN]
  BY DEF NewBind
<1>3. DOMAIN <<>> = {}
  OBVIOUS
<1> QED
  BY <1>1, <1>2, <1>3 DEF BindInit, BindTypeOK

INSTANCE FiniteSetTheorems

\* Outside an execution the bindings point to nothing; during one, a binding that was set
\* has been set from the statement at hand, also by an execution that is tried again.
BoundTo(i) == binds[i] = SetParameter(binds[i], statementData[i])
Unbound(i) == binds[i].buffer = Empty /\ ~binds[i].length

BindInv ==
    /\ BindTypeOK
    /\ NoParameterLost
    /\ executed # <<>> => statement = "none" /\ executed = statementData
    /\ statement \in {"none", "filled"} => \A i \in Params : Unbound(i)
    /\ statement = "submitted" => \A i \in Params : Unbound(i) \/ BoundTo(i)
    /\ statement = "bound" => \A i \in Params : BoundTo(i)

-------------------------------------------------------------------------------
\* A set of parameters of the statement can be counted.
LEMMA CountParams ==
    ASSUME BindingAssumption, NEW S, S \subseteq Params
    PROVE  Cardinality(S) \in Nat
<1>1. IsFiniteSet(Params)
  BY FS_Interval DEF Params, BindingAssumption
<1>2. IsFiniteSet(S)
  BY <1>1, FS_Subset
<1> QED
  BY <1>2, FS_CardinalityType

\* BindParameters counts the buffers and the lengths it has to free.
LEMMA CountOfBinds ==
    ASSUME BindingAssumption, NEW some
    PROVE  Buffers(some) \in Nat /\ Lengths(some) \in Nat
<1>1. {i \in Params : some[i].buffer # Empty} \subseteq Params
  OBVIOUS
<1>2. {i \in Params : some[i].length} \subseteq Params
  OBVIOUS
<1> QED
  BY Zenon, <1>1, <1>2, CountParams DEF Buffers, Lengths

\* What a binding that was set from a value holds, and what it is sent as.
LEMMA BindingSet ==
    ASSUME NEW value \in ParamValues, NEW b
    PROVE  /\ SetParameter(b, value) \in [type : {"zero", "number", "string", "NULL"},
                                          buffer : ParamValues \cup {Empty}, length : BOOLEAN]
           /\ SetParameter(SetParameter(b, value), value) = SetParameter(b, value)
           /\ Value(SetParameter(b, value)) = value
           /\ SetParameter(b, value).length => value.type = "string"
<1>1. CASE value \in [type : {"number"}, is : Numbers]
  BY <1>1 DEF SetParameter, Value, ParamValues, Empty
<1>2. CASE value \in [type : {"string"}, is : Texts]
  BY <1>2 DEF SetParameter, Value, ParamValues, Empty
<1>3. CASE value = [type |-> "NULL"]
  BY <1>3 DEF SetParameter, Value, ParamValues, Empty
<1> QED
  BY Zenon, <1>1, <1>2, <1>3 DEF ParamValues

\* SetParameter loses no length that is still allocated, for none is where a number comes.
LEMMA BindParametersStep ==
    ASSUME BindingAssumption, BindInv, BindParameters
    PROVE  BindInv'
<1> DEFINE lost == {i \in Params : binds[i].length /\ statementData[i].type = "number"}
<1>1. /\ statement = "submitted" /\ statement' = "bound"
      /\ binds' = [i \in Params |-> SetParameter(binds[i], statementData[i])]
      /\ buffers' = buffers - Buffers(binds) + Buffers(binds')
      /\ lengths' = lengths - (Lengths(binds) - Cardinality(lost)) + Lengths(binds')
      /\ UNCHANGED <<statementData, paramsSet, retries, executed>>
  BY Zenon DEF BindParameters
<1>2. BindTypeOK /\ buffers = Buffers(binds) /\ lengths = Lengths(binds) /\ executed = <<>>
  BY Zenon, <1>1 DEF BindInv, NoParameterLost
<1>3. lost = {}
  <2>1. ASSUME NEW i \in Params, binds[i].length, statementData[i].type = "number" PROVE FALSE
    <3>1. BoundTo(i) /\ statementData[i] \in ParamValues
      BY Zenon, <1>1, <1>2, <2>1 DEF BindInv, Unbound, BindTypeOK
    <3>2. binds[i] = SetParameter(binds[i], statementData[i])
      BY Zenon, <3>1 DEF BoundTo
    <3>3. SetParameter(binds[i], statementData[i]).length => statementData[i].type = "string"
      BY Zenon, <3>1, BindingSet
    <3> QED
      BY Zenon, <2>1, <3>2, <3>3
  <2> QED
    BY Zenon, <2>1
<1>4. Cardinality(lost) = 0
  BY Zenon, <1>3, FS_EmptySet
<1> HIDE DEF lost
<1>5. NoParameterLost'
  <2>1. /\ Buffers(binds) \in Nat /\ Lengths(binds) \in Nat
        /\ Buffers(binds') \in Nat /\ Lengths(binds') \in Nat
    BY Zenon, CountOfBinds
  <2>2. buffers' = Buffers(binds') /\ lengths' = Lengths(binds')
    BY <1>1, <1>2, <1>4, <2>1
  <2> QED
    BY Zenon, <2>2 DEF NoParameterLost, Buffers, Lengths
<1>6. \A i \in Params : BoundTo(i)'
  <2>1. ASSUME NEW i \in Params PROVE BoundTo(i)'
    <3>1. statementData[i] \in ParamValues /\ binds'[i] = SetParameter(binds[i], statementData[i])
      BY Zenon, <1>1, <1>2 DEF BindTypeOK
    <3> QED
      BY Zenon, <1>1, <3>1, BindingSet DEF BoundTo
  <2> QED
    BY <2>1
<1>7. BindTypeOK'
  <2>1. binds' \in [Params -> [type : {"zero", "number", "string", "NULL"},
                               buffer : ParamValues \cup {Empty}, length : BOOLEAN]]
    BY Zenon, <1>1, <1>2, BindingSet DEF BindTypeOK
  <2>2. buffers' \in Nat /\ lengths' \in Nat
    BY <1>5, CountOfBinds DEF NoParameterLost
  <2> QED
    BY Zenon, <1>1, <1>2, <2>1, <2>2 DEF BindTypeOK
<1> QED
  BY Zenon, <1>1, <1>2, <1>5, <1>6, <1>7 DEF BindInv

\* After an execution, or one that failed, nothing is bound.
LEMMA ClearParametersStep ==
    ASSUME BindingAssumption, BindInv, ClearParameters
    PROVE  /\ NoParameterLost' /\ \A i \in Params : Unbound(i)'
           /\ binds' \in [Params -> [type : {"zero", "number", "string", "NULL"},
                                     buffer : ParamValues \cup {Empty}, length : BOOLEAN]]
           /\ buffers' \in Nat /\ lengths' \in Nat
<1>1. /\ binds' = [i \in Params |-> [binds[i] EXCEPT !.buffer = Empty, !.length = FALSE]]
      /\ buffers' = buffers - Buffers(binds) /\ lengths' = lengths - Lengths(binds)
      /\ buffers = Buffers(binds) /\ lengths = Lengths(binds)
      /\ binds \in [Params -> [type : {"zero", "number", "string", "NULL"},
                               buffer : ParamValues \cup {Empty}, length : BOOLEAN]]
  BY Zenon DEF ClearParameters, BindInv, BindTypeOK, NoParameterLost
<1>2. buffers' = 0 /\ lengths' = 0
  <2>1. Buffers(binds) \in Nat /\ Lengths(binds) \in Nat
    BY CountOfBinds
  <2>2. /\ buffers' = buffers - Buffers(binds) /\ buffers = Buffers(binds)
        /\ lengths' = lengths - Lengths(binds) /\ lengths = Lengths(binds)
    BY Zenon DEF ClearParameters, BindInv, NoParameterLost
  <2> QED
    BY <2>1, <2>2
<1>3. \A i \in Params : binds'[i].buffer = Empty /\ ~binds'[i].length
  BY Zenon, <1>1
<1>4. {i \in Params : binds'[i].buffer # Empty} = {} /\ {i \in Params : binds'[i].length} = {}
  BY Zenon, <1>3
<1>5. Buffers(binds') = 0 /\ Lengths(binds') = 0
  BY Zenon, <1>4, FS_EmptySet DEF Buffers, Lengths
<1>6. NoParameterLost'
  BY Zenon, <1>2, <1>5 DEF NoParameterLost, Buffers, Lengths
<1> QED
  BY ZenonT(30), <1>1, <1>2, <1>3, <1>6 DEF Unbound

\* What is bound is known in every state.
THEOREM BindInvHolds == BindSpec => []BindInv
<1> USE BindingAssumption
<1>1. BindInit => BindInv
  <2>1. SUFFICES ASSUME BindInit PROVE BindInv
    OBVIOUS
  <2>2. \A i \in Params : Unbound(i)
    BY Zenon, <2>1 DEF BindInit, Unbound, NewBind
  <2>3. {i \in Params : binds[i].buffer # Empty} = {} /\ {i \in Params : binds[i].length} = {}
    BY <2>2 DEF Unbound
  <2>4. NoParameterLost
    BY Zenon, <2>1, <2>3, FS_EmptySet DEF BindInit, NoParameterLost, Buffers, Lengths
  <2>5. BindTypeOK
    BY Zenon, <2>1, BindInitTypes
  <2> QED
    BY Zenon, <2>1, <2>2, <2>4, <2>5 DEF BindInv, BindInit
<1>2. BindInv /\ [BindNext]_bindVars => BindInv'
  <2>1. SUFFICES ASSUME BindInv, [BindNext]_bindVars PROVE BindInv'
    OBVIOUS
  <2>2. CASE GetPreparedStatement
    <3>1. BindTypeOK'
      <4>1. NotSet \in ParamValues
        BY Zenon, BindingAssumption DEF NotSet, ParamValues
      <4>2. 0 \in 0 .. MaxRetries /\ DOMAIN <<>> = {}
        BY BindingAssumption
      <4> QED
        BY Zenon, <2>1, <2>2, <4>1, <4>2 DEF BindInv, BindTypeOK, GetPreparedStatement
    <3>2. NoParameterLost' /\ \A i \in Params : Unbound(i)'
      BY Zenon, <2>1, <2>2
         DEF BindInv, GetPreparedStatement, NoParameterLost, Buffers, Lengths, Unbound
    <3> QED
      BY Zenon, <2>2, <3>1, <3>2 DEF BindInv, GetPreparedStatement
  <2>3. ASSUME NEW i \in Params, NEW value \in ParamValues, SetValidData(i, value) PROVE BindInv'
    <3>1. BindTypeOK'
      BY Zenon, <2>1, <2>3 DEF BindInv, BindTypeOK, SetValidData
    <3>2. NoParameterLost' /\ \A k \in Params : Unbound(k)'
      BY Zenon, <2>1, <2>3 DEF BindInv, SetValidData, NoParameterLost, Buffers, Lengths, Unbound
    <3> QED
      BY Zenon, <2>1, <2>3, <3>1, <3>2 DEF BindInv, SetValidData
  <2>4. ASSUME NEW checked \in BOOLEAN, IsAllParamsSet(checked) PROVE BindInv'
    <3>1. BindTypeOK'
      BY Zenon, <2>1, <2>4 DEF BindInv, BindTypeOK, IsAllParamsSet
    <3>2. NoParameterLost' /\ \A k \in Params : Unbound(k)'
      BY Zenon, <2>1, <2>4 DEF BindInv, IsAllParamsSet, NoParameterLost, Buffers, Lengths, Unbound
    <3> QED
      BY Zenon, <2>1, <2>4, <3>1, <3>2 DEF BindInv, IsAllParamsSet
  <2>5. CASE BindParameters
    BY Zenon, <2>1, <2>5, BindParametersStep
  <2>6. CASE Execute
    <3>1. /\ NoParameterLost' /\ \A i \in Params : Unbound(i)'
          /\ binds' \in [Params -> [type : {"zero", "number", "string", "NULL"},
                                    buffer : ParamValues \cup {Empty}, length : BOOLEAN]]
          /\ buffers' \in Nat /\ lengths' \in Nat
      BY Zenon, <2>1, <2>6, ClearParametersStep DEF Execute
    <3>2. ASSUME NEW i \in Params PROVE Value(binds[i]) = statementData[i]
      <4>1. BoundTo(i) /\ statementData[i] \in ParamValues
        BY Zenon, <2>1, <2>6 DEF BindInv, BindTypeOK, Execute
      <4> QED
        BY Zenon, <4>1, BindingSet DEF BoundTo
    <3>3. executed' = statementData /\ statementData' = statementData
      BY Zenon, <2>1, <2>6, <3>2 DEF Execute, BindInv, BindTypeOK
    <3>4. BindTypeOK'
      BY Zenon, <2>1, <2>6, <3>1, <3>3 DEF BindInv, BindTypeOK, Execute
    <3> QED
      BY Zenon, <2>6, <3>1, <3>3, <3>4 DEF BindInv, Execute
  <2>7. CASE ExecuteFails
    <3>1. /\ NoParameterLost' /\ \A i \in Params : Unbound(i)'
          /\ binds' \in [Params -> [type : {"zero", "number", "string", "NULL"},
                                    buffer : ParamValues \cup {Empty}, length : BOOLEAN]]
          /\ buffers' \in Nat /\ lengths' \in Nat
      BY Zenon, <2>1, <2>7, ClearParametersStep DEF ExecuteFails
    <3>2. BindTypeOK'
      BY Zenon, <2>1, <2>7, <3>1 DEF BindInv, BindTypeOK, ExecuteFails
    <3> QED
      BY Zenon, <2>1, <2>7, <3>1, <3>2 DEF BindInv, ExecuteFails
  <2>8. CASE TryAgain
    <3>1. BindTypeOK'
      BY <2>1, <2>8 DEF BindInv, BindTypeOK, TryAgain, BindingAssumption
    <3>2. NoParameterLost' /\ \A i \in Params : BoundTo(i)'
      BY Zenon, <2>1, <2>8 DEF BindInv, TryAgain, NoParameterLost, Buffers, Lengths, BoundTo
    <3> QED
      BY Zenon, <2>1, <2>8, <3>1, <3>2 DEF BindInv, TryAgain
  <2>9. CASE UNCHANGED bindVars
    BY Zenon, <2>1, <2>9
       DEF BindInv, bindVars, BindTypeOK, NoParameterLost, Buffers, Lengths, BoundTo,
                      Unbound
  <2> QED
    BY Zenon, <2>1, <2>2, <2>3, <2>4, <2>5, <2>6, <2>7, <2>8, <2>9 DEF BindNext
<1> QED
  BY <1>1, <1>2, PTL DEF BindSpec

\* An execution is sent what its own caller has set and no memory of a parameter is lost,
\* for any number of parameters, over any sequence of executions, failures and retries.
THEOREM BindingSendsAsSet == BindSpec => []AllSentAsSet
<1>1. BindInv => AllSentAsSet
  BY DEF BindInv, AllSentAsSet, SentAsSet
<1> QED
  BY <1>1, BindInvHolds, PTL
===============================================================================
