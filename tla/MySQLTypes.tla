------------------------------ MODULE MySQLTypes ------------------------------
(*************************************************************************)
(* The tables QueryResult.cpp and Field.cpp keep about the types of      *)
(* MySQL columns and the C++ types they are read as.                     *)
(*************************************************************************)
EXTENDS Naturals

Strings == {"TINY_BLOB", "MEDIUM_BLOB", "LONG_BLOB", "BLOB", "STRING", "VAR_STRING"}
Times == {"TIMESTAMP", "DATE", "TIME", "DATETIME"}
Decimals == {"DECIMAL", "NEWDECIMAL"}
ColumnTypes == Strings \cup Times \cup Decimals \cup
               {"NULL", "TINY", "YEAR", "SHORT", "INT24", "LONG", "FLOAT", "DOUBLE",
                "LONGLONG", "BIT", "GEOMETRY"}

\* Bytes of the slot of a value in the buffer of a prepared result; maxLength is that of
\* the longest value of the column, and 40 is sizeof(MYSQL_TIME).
SizeForType(type, maxLength) ==
    CASE type = "TINY"                           -> 1
      [] type \in {"YEAR", "SHORT"}              -> 2
      [] type \in {"INT24", "LONG", "FLOAT"}     -> 4
      [] type \in {"DOUBLE", "LONGLONG", "BIT"}  -> 8
      [] type \in Times                          -> 40
      [] type \in Strings                        -> maxLength + 1
      [] type \in Decimals                       -> 64
      [] OTHER                                   -> 0

MysqlTypeToFieldType(type) ==
    CASE type = "TINY"                 -> "Int8"
      [] type \in {"YEAR", "SHORT"}    -> "Int16"
      [] type \in {"INT24", "LONG"}    -> "Int32"
      [] type \in {"LONGLONG", "BIT"}  -> "Int64"
      [] type = "FLOAT"                -> "Float"
      [] type = "DOUBLE"               -> "Double"
      [] type \in Decimals             -> "Decimal"
      [] type \in Times                -> "Date"
      [] type \in Strings              -> "Binary"
      [] OTHER                         -> "Null"

\* The arithmetic types GetData is instantiated for: bytes, and whether signed.
Unsigned == {"uint8", "uint16", "uint32", "uint64"}
Signed == {"int8", "int16", "int32", "int64"}
GetDataTypes == Unsigned \cup Signed \cup {"bool", "float", "double"}

SizeOf(T) == CASE T \in {"bool", "uint8", "int8"}             -> 1
               [] T \in {"uint16", "int16"}                   -> 2
               [] T \in {"uint32", "int32", "float"}          -> 4
               [] T \in {"uint64", "int64", "double"}         -> 8

IsCorrectFieldType(T, type) ==
    \/ type = "Int8" /\ T \in {"bool", "int8", "uint8"}
    \/ type = "Int16" /\ T \in {"int16", "uint16"}
    \/ type = "Int32" /\ T \in {"int32", "uint32"}
    \/ type = "Int64" /\ T \in {"int64", "uint64"}
    \/ type = "Float" /\ T = "float"
    \/ type \in {"Double", "Decimal"} /\ T = "double"

IsCorrectAlias(T, type, alias) ==
    CASE T = "double" -> alias \in {"sum", "avg"} /\ type = "Decimal"
      [] T = "uint64" -> alias = "count" /\ type = "Int64"
      [] OTHER        -> alias \in {"min", "max"} /\ IsCorrectFieldType(T, type)
===============================================================================
