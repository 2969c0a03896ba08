----------------------------- MODULE PreparedResult -----------------------------
(*************************************************************************)
(* PreparedResultSet: the one buffer all rows of a result are fetched    *)
(* into, and the memory that outlives the result because the statement   *)
(* points to it. The results of one statement follow one another.        *)
(*                                                                       *)
(* The buffer is modelled byte by byte, a byte by the value it is of.    *)
(*************************************************************************)
EXTENDS Integers, Sequences, MySQLTypes

CONSTANTS
    ResultColumns,      \* of the result: [type, maxLength], in order
    MaxRows, MaxQueries \* bounds of the model

ASSUME ResultAssumption == /\ ResultColumns \in Seq([type : ColumnTypes, maxLength : Nat])
                           /\ MaxRows \in Nat /\ MaxQueries \in Nat

VARIABLES
    set,                \* where the result is: "none", "store", "bind", "fetch" or "ready"
    rowPosition, rowCount,
    placed,             \* the columns that have their slot in the first row
    rowSize,            \* the bytes of these slots: both rowSize and offset
    isNull,             \* of the rows the server sends: which values are NULL
    bind,               \* _stmt->bind[i].buffer
    buffer,             \* the bytes of dataBuffer
    rows,               \* _rows: of each row that was fetched, where its values are
    metadata, rBind,    \* _metadataResult and _rBind: "null", "live" or "freed"
    arrays,             \* the arrays of lengths and null flags the statement points to,
    freedArrays,        \* and those that were freed, by number of the query
    bindDone,           \* _stmt->bind_result_done
    queries,
    failed,             \* mysql_stmt_store_result or mysql_stmt_bind_result has failed
    twice               \* memory was freed twice

resultVars == <<set, rowPosition, rowCount, placed, rowSize, isNull, bind, buffer, rows, metadata,
                rBind, arrays, freedArrays, bindDone, queries, failed, twice>>

Columns == DOMAIN ResultColumns
SizeOfColumn(i) == SizeForType(ResultColumns[i].type, ResultColumns[i].maxLength)
Slot(i, address) == address .. address + SizeOfColumn(i) - 1
NullValue == -1

ResultTypeOK == /\ set \in {"none", "store", "bind", "fetch", "ready"}
                /\ rowCount \in 0 .. MaxRows /\ rowPosition \in 0 .. rowCount
                /\ placed \in 0 .. Len(ResultColumns) /\ rowSize \in Nat
                /\ isNull \in [1 .. rowCount -> [Columns -> BOOLEAN]]
                /\ bind \in [Columns -> Nat]
                /\ rows \in Seq([Columns -> Nat \cup {NullValue}]) /\ Len(rows) <= rowCount
                /\ {metadata, rBind} \subseteq {"null", "live", "freed"}
                /\ queries \in 0 .. MaxQueries
                /\ arrays \in 0 .. MaxQueries /\ freedArrays \subseteq 1 .. MaxQueries
                /\ {bindDone, failed, twice} \subseteq BOOLEAN

ResultInit == /\ set = "none" /\ rowPosition = 0 /\ rowCount = 0
              /\ placed = 0 /\ rowSize = 0
              /\ isNull = <<>> /\ rows = <<>> /\ buffer = <<>>
              /\ bind = [i \in Columns |-> 0]
              /\ metadata = "null" /\ rBind = "null"
              /\ arrays = 0 /\ freedArrays = {} /\ bindDone = FALSE
              /\ queries = 0 /\ failed = FALSE /\ twice = FALSE

-------------------------------------------------------------------------------
\* The constructor up to mysql_stmt_store_result: frees the arrays of the result before.
Construct ==
    /\ set = "none" /\ queries < MaxQueries
    /\ set' = "store" /\ queries' = queries + 1
    /\ metadata' = "live" /\ rBind' = "live" /\ rowPosition' = 0 /\ rowCount' = 0
    /\ placed' = 0 /\ rowSize' = 0
    /\ isNull' = <<>> /\ rows' = <<>> /\ buffer' = <<>>
    /\ freedArrays' = IF bindDone THEN freedArrays \cup {arrays} ELSE freedArrays
    /\ twice' = (twice \/ (bindDone /\ arrays \in freedArrays))
    /\ UNCHANGED <<bind, arrays, bindDone, failed>>

\* The result cannot be stored: everything new is freed, but _rBind keeps its address.
StoreFails ==
    /\ set = "store"
    /\ set' = "ready" /\ rBind' = "freed"
    /\ freedArrays' = freedArrays \cup {queries} /\ failed' = TRUE
    /\ UNCHANGED <<rowPosition, rowCount, placed, rowSize, isNull, bind, buffer, rows, metadata,
                   arrays, bindDone, queries, twice>>

\* The server has sent the rows.
Store(nulls) ==
    /\ set = "store"
    /\ set' = "bind"
    /\ rowCount' = Len(nulls) /\ isNull' = nulls
    /\ UNCHANGED <<rowPosition, placed, rowSize, bind, buffer, rows, metadata, rBind, arrays,
                   freedArrays, bindDone, queries, failed, twice>>

\* A round of the loops over the columns: its slot of the first row follows the one of the
\* column before.
PlaceColumn ==
    /\ set = "bind" /\ placed < Len(ResultColumns)
    /\ placed' = placed + 1
    /\ bind' = [bind EXCEPT ![placed + 1] = rowSize]
    /\ rowSize' = rowSize + SizeOfColumn(placed + 1)
    /\ UNCHANGED <<set, rowPosition, rowCount, isNull, buffer, rows, metadata, rBind, arrays,
                   freedArrays, bindDone, queries, failed, twice>>

\* The statement takes the addresses of the slots and of the arrays.
Bind ==
    /\ set = "bind" /\ placed = Len(ResultColumns)
    /\ set' = "fetch"
    /\ buffer' = [b \in 0 .. rowSize * rowCount - 1 |-> <<>>]
    /\ arrays' = queries /\ bindDone' = TRUE
    /\ UNCHANGED <<rowPosition, rowCount, placed, rowSize, isNull, bind, rows, metadata, rBind,
                   freedArrays, queries, failed, twice>>

\* mysql_stmt_bind_result has taken the addresses of the arrays when it fails; CleanUp
\* frees the metadata, which keeps its address, and _rBind with the buffer.
BindFails ==
    /\ set = "bind" /\ placed = Len(ResultColumns)
    /\ set' = "ready" /\ metadata' = "freed" /\ rBind' = "null"
    /\ arrays' = queries /\ freedArrays' = freedArrays \cup {queries} /\ failed' = TRUE
    /\ UNCHANGED <<rowPosition, rowCount, placed, rowSize, isNull, bind, buffer, rows, bindDone,
                   queries, twice>>

\* Variant of Advance: to the next slot, not to the next row.
AdvanceSlot(row) ==
    [i \in Columns |-> IF isNull[row][i] THEN bind[i] ELSE bind[i] + SizeOfColumn(i)]

\* The pointer of a column moves to the next row, for a value that is not NULL.
Advance(row) == [i \in Columns |-> IF isNull[row][i] THEN bind[i] ELSE bind[i] + rowSize]

\* One round of the loop: mysql_stmt_fetch writes the values to where the pointers are.
FetchRow ==
    LET row == rowPosition + 1
        values == {i \in Columns : ~isNull[row][i]}
    IN  /\ set = "fetch" /\ rowPosition < rowCount
        /\ buffer' = [b \in DOMAIN buffer |->
                         IF \E i \in values : b \in Slot(i, bind[i])
                         THEN <<row, CHOOSE i \in values : b \in Slot(i, bind[i])>>
                         ELSE buffer[b]]
        /\ rows' = Append(rows, [i \in Columns |-> IF i \in values THEN bind[i] ELSE NullValue])
        /\ bind' = Advance(row)
        /\ rowPosition' = row
        /\ UNCHANGED <<set, rowCount, placed, rowSize, isNull, metadata, rBind, arrays,
                       freedArrays, bindDone, queries, failed, twice>>

\* All rows are there, or mysql_stmt_fetch has failed.
EndOfFetch ==
    /\ set = "fetch"
    /\ set' = "ready" /\ rowPosition' = 0
    /\ UNCHANGED <<rowCount, placed, rowSize, isNull, bind, buffer, rows, metadata, rBind,
                   arrays, freedArrays, bindDone, queries, failed, twice>>

NextRow ==
    /\ set = "ready" /\ rowPosition < rowCount
    /\ rowPosition' = rowPosition + 1
    /\ UNCHANGED <<set, rowCount, placed, rowSize, isNull, bind, buffer, rows, metadata, rBind,
                   arrays, freedArrays, bindDone, queries, failed, twice>>

\* The destructor.
CleanUp ==
    /\ set = "ready"
    /\ set' = "none" /\ metadata' = "null" /\ rBind' = "null"
    /\ twice' = (twice \/ "freed" \in {metadata, rBind})
    /\ UNCHANGED <<rowPosition, rowCount, placed, rowSize, isNull, bind, buffer, rows, arrays,
                   freedArrays, bindDone, queries, failed>>

Nulls == UNION {[1 .. n -> [Columns -> BOOLEAN]] : n \in 0 .. MaxRows}

ResultNext == \/ Construct \/ StoreFails \/ PlaceColumn \/ Bind \/ BindFails
              \/ FetchRow \/ EndOfFetch \/ NextRow \/ CleanUp
              \/ \E nulls \in Nulls : Store(nulls)

ResultSpec == ResultInit /\ [][ResultNext]_resultVars

-------------------------------------------------------------------------------
\* What is read from a row is what the server has sent for that row and column, for all
\* rows at any time until the result is destroyed: the values are in the buffer, and no
\* value has overwritten a byte of another, whichever of the values are NULL.
RowsAsSent ==
    set \in {"fetch", "ready"} =>
        \A r \in DOMAIN rows : \A i \in Columns :
            IF isNull[r][i] THEN rows[r][i] = NullValue
            ELSE \A b \in Slot(i, rows[r][i]) : b \in DOMAIN buffer /\ buffer[b] = <<r, i>>

\* Nothing is freed twice, over all results of a statement, as long as the server lets
\* every result be stored and bound. (Once it did not, the destructor frees _rBind or the
\* metadata again, and the next result the arrays.)
FreedOnce == twice => failed
===============================================================================
