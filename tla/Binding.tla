-------------------------------- MODULE Binding --------------------------------
(*************************************************************************)
(* The parameters of prepared statements: PreparedStatementBase holds    *)
(* what the caller sets, MySQLPreparedStatement the MYSQL_BIND           *)
(* structures that all executions of a statement on a connection share.  *)
(*                                                                       *)
(* A parameter is NULL, a number, or a string with a length of its own.  *)
(*************************************************************************)
EXTENDS Integers, FiniteSets

CONSTANTS
    ParamCount,         \* of the statement
    Numbers, Texts,     \* values of parameters
    MaxRetries          \* bound of the model: reconnections during an execution

ASSUME BindingAssumption == /\ ParamCount \in Nat /\ MaxRetries \in Nat
                            /\ 0 \in Numbers /\ Numbers \subseteq Nat

Params == 1 .. ParamCount
ParamValues == [type : {"number"}, is : Numbers] \cup [type : {"string"}, is : Texts]
               \cup {[type |-> "NULL"]}
\* The variant of a parameter that was not set holds its first alternative, false.
NotSet == [type |-> "number", is |-> 0]

VARIABLES
    statement,          \* "none", "filled" by the caller, "submitted" or "bound"
    statementData,      \* _statementData of the PreparedStatementBase,
    paramsSet,          \* and its _paramsSet
    binds,              \* _bind: type, buffer and whether there is a length
    buffers, lengths,   \* allocated, not freed
    retries,
    executed            \* the parameters of the last execution, none for one that failed

bindVars == <<statement, statementData, paramsSet, binds, buffers, lengths, retries, executed>>

Empty == [type |-> "zero"]
NewBind == [type |-> "zero", buffer |-> Empty, length |-> FALSE]

BindTypeOK == /\ statement \in {"none", "filled", "submitted", "bound"}
              /\ statementData \in [Params -> ParamValues] /\ paramsSet \subseteq Params
              /\ binds \in [Params -> [type : {"zero", "number", "string", "NULL"},
                                       buffer : ParamValues \cup {Empty}, length : BOOLEAN]]
              /\ buffers \in Nat /\ lengths \in Nat /\ retries \in 0 .. MaxRetries
              /\ DOMAIN executed \in {{}, Params}

BindInit == /\ statement = "none" /\ statementData = [i \in Params |-> NotSet] /\ paramsSet = {}
            /\ binds = [i \in Params |-> NewBind] /\ buffers = 0 /\ lengths = 0
            /\ retries = 0 /\ executed = <<>>

-------------------------------------------------------------------------------
GetPreparedStatement ==
    /\ statement = "none"
    /\ statement' = "filled"
    /\ statementData' = [i \in Params |-> NotSet] /\ paramsSet' = {}
    /\ retries' = 0 /\ executed' = <<>>
    /\ UNCHANGED <<binds, buffers, lengths>>

SetValidData(i, value) ==
    /\ statement = "filled"
    /\ statementData' = [statementData EXCEPT ![i] = value]
    /\ paramsSet' = paramsSet \cup {i}
    /\ UNCHANGED <<statement, binds, buffers, lengths, retries, executed>>

\* Execute and Query of the pool refuse a statement with a parameter that is not set;
\* AsyncQuery, transactions and holders take it.
IsAllParamsSet(checked) ==
    /\ statement = "filled"
    /\ statement' = IF checked /\ paramsSet # Params THEN "none" ELSE "submitted"
    /\ UNCHANGED <<statementData, paramsSet, binds, buffers, lengths, retries, executed>>

\* Variant of SetParameter: a number leaves the type as it was.
SetParameterUntyped(bind, value) ==
    CASE value.type = "number" -> [bind EXCEPT !.buffer = value, !.length = FALSE]
      [] value.type = "string" -> [type |-> "string", buffer |-> value, length |-> TRUE]
      [] value.type = "NULL"   -> [type |-> "NULL", buffer |-> Empty, length |-> FALSE]

SetParameter(bind, value) ==
    CASE value.type = "number" -> [type |-> "number", buffer |-> value, length |-> FALSE]
      [] value.type = "string" -> [type |-> "string", buffer |-> value, length |-> TRUE]
      [] value.type = "NULL"   -> [type |-> "NULL", buffer |-> Empty, length |-> FALSE]

Buffers(some) == Cardinality({i \in Params : some[i].buffer # Empty})
Lengths(some) == Cardinality({i \in Params : some[i].length})

\* SetParameter frees the buffer before; the length only for a string or NULL.
BindParameters ==
    LET lost == {i \in Params : binds[i].length /\ statementData[i].type = "number"}
    IN  /\ statement = "submitted"
        /\ statement' = "bound"
        /\ binds' = [i \in Params |-> SetParameter(binds[i], statementData[i])]
        /\ buffers' = buffers - Buffers(binds) + Buffers(binds')
        /\ lengths' = lengths - (Lengths(binds) - Cardinality(lost)) + Lengths(binds')
        /\ UNCHANGED <<statementData, paramsSet, retries, executed>>

ClearParameters ==
    /\ binds' = [i \in Params |-> [binds[i] EXCEPT !.buffer = Empty, !.length = FALSE]]
    /\ buffers' = buffers - Buffers(binds) /\ lengths' = lengths - Lengths(binds)

\* What the server is sent of a parameter.
Value(bind) == IF bind.type = "NULL" THEN [type |-> "NULL"]
               ELSE IF bind.type = bind.buffer.type THEN bind.buffer
               ELSE [type |-> "garbage"]

Execute ==
    /\ statement = "bound"
    /\ statement' = "none"
    /\ executed' = [i \in Params |-> Value(binds[i])]
    /\ ClearParameters
    /\ UNCHANGED <<statementData, paramsSet, retries>>

ExecuteFails ==
    /\ statement = "bound"
    /\ statement' = "none"
    /\ ClearParameters
    /\ UNCHANGED <<statementData, paramsSet, retries, executed>>

\* The connection was lost and opened again: from the beginning, with what is still bound.
\* Whether the server takes the statement then is Connection's matter.
TryAgain ==
    /\ statement = "bound" /\ retries < MaxRetries
    /\ statement' = "submitted" /\ retries' = retries + 1
    /\ UNCHANGED <<statementData, paramsSet, binds, buffers, lengths, executed>>

BindNext == \/ GetPreparedStatement \/ BindParameters \/ Execute \/ ExecuteFails \/ TryAgain
            \/ \E i \in Params, value \in ParamValues : SetValidData(i, value)
            \/ \E checked \in BOOLEAN : IsAllParamsSet(checked)

BindSpec == BindInit /\ [][BindNext]_bindVars

-------------------------------------------------------------------------------
\* An execution is sent what its own caller has set, whatever the executions before have
\* left in the bindings: nothing of an earlier NULL or string, of a failure or a retry.
\* A parameter that was not set is sent as 0.
SentAsSet == executed # <<>> => executed = statementData

\* The memory of parameters that is allocated is the one the bindings point to.
NoParameterLost == buffers = Buffers(binds) /\ lengths = Lengths(binds)

\* What a statement sends is what was set for this execution, out of memory that belongs to
\* its bindings, over any sequence of executions, failures and retries.
AllSentAsSet == SentAsSet /\ NoParameterLost
===============================================================================
