-------------------------------- MODULE Field --------------------------------
(*************************************************************************)
(* Field::GetData: a value of a result, raw from a prepared statement or *)
(* as text, read as an arithmetic type. A value of an aggregate is read  *)
(* again as the type the aggregate has.                                  *)
(*                                                                       *)
(* The value is an integer; which rounding a floating point type brings  *)
(* is left out.                                                          *)
(*************************************************************************)
EXTENDS Integers, MySQLTypes

CONSTANTS FieldValues,      \* values of a column, integers
          FieldColumns,     \* types of columns
          ByteValues,       \* values of a byte: 256 in the code, fewer for TLC's integers
          NoData            \* data.value is a null pointer

ASSUME FieldAssumption == /\ FieldColumns \subseteq ColumnTypes
                          /\ FieldValues \subseteq Int
                          /\ ByteValues \in Nat
                          /\ \E half \in 1 .. ByteValues : ByteValues = 2 * half

VARIABLES
    column, alias,      \* of the metadata: type, and the alias up to its bracket
    data, raw,          \* data.value and data.raw
    asked,              \* the type GetData is called with
    wanted,             \* and the one it calls itself with
    answered, answer,   \* whether it has returned, and what
    badRead             \* bytes past the end of a slot were read

fieldVars == <<column, alias, data, raw, asked, wanted, answered, answer, badRead>>

\* What the server gives as the type of an aggregate.
AliasOf == [sum |-> {"NEWDECIMAL", "DOUBLE"}, avg |-> {"NEWDECIMAL", "DOUBLE"},
            count |-> {"LONGLONG"}, min |-> ColumnTypes, max |-> ColumnTypes,
            none |-> ColumnTypes]

FieldTypeOK == /\ alias \in DOMAIN AliasOf /\ column \in FieldColumns \cap AliasOf[alias]
               /\ data \in FieldValues \cup {NoData} /\ raw \in BOOLEAN
               /\ {asked, wanted} \subseteq GetDataTypes
               /\ answered \in BOOLEAN /\ answer \in Int /\ badRead \in BOOLEAN

FieldInit == /\ alias \in DOMAIN AliasOf /\ column \in FieldColumns \cap AliasOf[alias]
             /\ data \in FieldValues \cup {NoData} /\ raw \in BOOLEAN
             /\ asked \in GetDataTypes /\ wanted = asked
             /\ answered = FALSE /\ answer = 0 /\ badRead = FALSE

-------------------------------------------------------------------------------
Type == MysqlTypeToFieldType(column)

\* How many values a type of so many bytes has.
Size(T) == LET two == ByteValues * ByteValues  four == two * two
           IN  CASE SizeOf(T) = 1 -> ByteValues
                 [] SizeOf(T) = 2 -> two
                 [] SizeOf(T) = 4 -> four
                 [] SizeOf(T) = 8 -> four * four
Floating(T) == T \in {"float", "double"}
InRange(T, v) == \/ Floating(T)
                 \/ T = "bool" /\ v \in {0, 1}
                 \/ T \in Unsigned /\ v \in 0 .. Size(T) - 1
                 \/ T \in Signed /\ v \in -(Size(T) \div 2) .. (Size(T) \div 2) - 1

GetDefaultValue(T) == IF Floating(T) THEN 1 ELSE 0

\* static_cast<T>, and what the bytes of an integer are as T.
Cast(T, v) == IF Floating(T) THEN v
              ELSE IF T = "bool" THEN IF v = 0 THEN 0 ELSE 1
              ELSE IF T \in Unsigned \/ v % Size(T) < Size(T) \div 2 THEN v % Size(T)
              ELSE (v % Size(T)) - Size(T)

SignedOf == [uint8 |-> "int8", uint16 |-> "int16", uint32 |-> "int32", uint64 |-> "int64"]

\* Variant of FromText: a number that is too large is cut.
FromTextCut(T) == Cast(T, data)

\* StringTo<T>; for an unsigned T once more as a signed number; at last the default.
FromText(T) == IF InRange(T, data) THEN data
               ELSE IF T \in Unsigned /\ InRange(SignedOf[T], data) THEN Cast(T, data)
               ELSE GetDefaultValue(T)

\* The bytes of the slot as T. A decimal is text in its slot, which only double knows;
\* bytes of another kind of number, or of a string, are any value.
Readable(T) == CASE Type \in {"Int8", "Int16", "Int32", "Int64"} -> ~Floating(T)
                 [] Type = "Float" -> T = "float"
                 [] Type \in {"Double", "Decimal"} -> T = "double"
                 [] OTHER -> FALSE
PastSlot(T) == raw /\ SizeOf(T) > SizeForType(column, SizeOf("double"))
FromRaw(T) == IF Readable(T) /\ ~PastSlot(T) THEN {Cast(T, data)}
              ELSE {Cast(T, v) : v \in FieldValues}

\* GetData<T> returns what GetData of another type returns, for an aggregate that T does
\* not fit.
AskAgain == CASE alias \in {"sum", "avg"} /\ ~IsCorrectAlias(wanted, Type, alias) -> "double"
              [] alias = "count" /\ ~IsCorrectAlias(wanted, Type, alias) -> "uint64"
              [] OTHER -> "no"

GetData ==
    /\ ~answered
    /\ UNCHANGED <<column, alias, data, raw, asked>>
    /\ IF data = NoData
       THEN /\ answered' = TRUE /\ answer' = GetDefaultValue(wanted)
            /\ UNCHANGED <<wanted, badRead>>
       ELSE /\ badRead' = (badRead \/ PastSlot(wanted))
            /\ IF AskAgain # "no"
               THEN wanted' = AskAgain /\ UNCHANGED <<answered, answer>>
               ELSE /\ answered' = TRUE /\ UNCHANGED wanted
                    /\ \E v \in IF raw THEN FromRaw(wanted) ELSE {FromText(wanted)} :
                           answer' = Cast(asked, v)

FieldSpec == FieldInit /\ [][GetData]_fieldVars
FieldFairness == WF_fieldVars(GetData)

-------------------------------------------------------------------------------
\* GetData of an aggregate, for which it calls itself, returns, whatever type it is asked
\* for. Only SUM and AVG of a column of type double are left out: IsCorrectAlias<double>
\* knows them as decimals alone, and GetData<double> calls itself for ever.
GetDataReturns ==
    alias # "none" /\ ~(alias \in {"sum", "avg"} /\ Type = "Double") ~> answered

\* A number that came as text is not taken for another one: it is read as itself, or as
\* the default when the type cannot hold it, and only a negative number that is read as
\* unsigned wraps around. (COUNT, SUM and AVG are cut to the type that was asked for.)
NotAnotherNumber ==
    /\ answered /\ ~raw /\ data # NoData /\ alias \notin {"count", "sum", "avg"}
    => \/ answer \in {data, GetDefaultValue(asked)}
       \/ asked \in Unsigned /\ data < 0 /\ answer = Size(asked) + data

\* The tables agree: a value that is read as a type IsCorrectFieldType allows for its
\* column is read within the slot that SizeForType gave it.
CorrectTypesFit == badRead => ~IsCorrectFieldType(asked, Type)

\* A value is read as what the server sent, from within its slot: NotAnotherNumber for one
\* that came as text, CorrectTypesFit for one that came in binary form.
ReadAsStored == NotAnotherNumber /\ CorrectTypesFit
===============================================================================
