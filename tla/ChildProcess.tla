------------------------------ MODULE ChildProcess ------------------------------
(*************************************************************************)
(* StartProcess: a child whose output is copied to the log, first all of *)
(* its standard output and then all of its standard error, before it is  *)
(* waited for; StartAsyncProcess does the same on a thread of its own    *)
(* and gives its caller Terminate().                                     *)
(*************************************************************************)
EXTENDS Naturals, Sequences, Functions

CONSTANTS
    Scripts,            \* what a child may write: sequences of "out" and "err"
    PipeSize            \* lines that fit into a pipe

ASSUME ProcessAssumption == /\ Scripts \subseteq Seq({"out", "err"})
                            /\ PipeSize \in Nat \ {0}

VARIABLES
    script,             \* what the child will write
    written,            \* how many lines of it are written
    child,              \* "none", "running" or "exited"
    pipes,              \* lines in the two pipes
    parent,             \* "start", "out", "err", "wait", or "returned"
    logged,             \* the lines that were logged, numbered as the child wrote them
    myChild,            \* my_child of an asynchronous process is set
    wasTerminated, exitCode

processVars == <<script, written, child, pipes, parent, logged, myChild, wasTerminated, exitCode>>

Streams == {"out", "err"}
ProcessTypeOK == /\ script \in Scripts /\ written \in 0 .. Len(script)
                 /\ child \in {"none", "running", "exited"}
                 /\ parent \in Streams \cup {"start", "wait", "returned"}
                 /\ \A s \in Streams : Len(pipes[s]) <= PipeSize
                 /\ myChild \in BOOLEAN /\ wasTerminated \in BOOLEAN
                 /\ exitCode \in {"none", "own", "failure", "thrown"}

ProcessInit == /\ script \in Scripts /\ written = 0
               /\ child = "none" /\ parent = "start"
               /\ pipes = [s \in Streams |-> <<>>] /\ logged = [s \in Streams |-> <<>>]
               /\ myChild = FALSE /\ wasTerminated = FALSE /\ exitCode = "none"

-------------------------------------------------------------------------------
StartChild == /\ parent = "start"
              /\ parent' = "out" /\ child' = "running"
              /\ UNCHANGED <<script, written, pipes, logged, myChild, wasTerminated, exitCode>>

\* The constructor of the child throws when the executable cannot be started.
StartFails == /\ parent = "start"
              /\ parent' = "returned" /\ exitCode' = "thrown"
              /\ UNCHANGED <<script, written, child, pipes, logged, myChild, wasTerminated>>

\* The child: a line goes to its pipe as soon as the pipe has room; at the end it exits.
ChildWrites == LET stream == script[written + 1]
               IN  /\ child = "running" /\ written < Len(script)
                   /\ Len(pipes[stream]) < PipeSize
                   /\ pipes' = [pipes EXCEPT ![stream] = Append(@, written + 1)]
                   /\ written' = written + 1
                   /\ UNCHANGED <<script, child, parent, logged, myChild, wasTerminated, exitCode>>

ChildExits == /\ child = "running" /\ written = Len(script)
              /\ child' = "exited"
              /\ UNCHANGED <<script, written, pipes, parent, logged, myChild, wasTerminated, exitCode>>

\* boost::iostreams::copy with the sink that logs line by line.
CopyLine == /\ parent \in Streams /\ pipes[parent] # <<>>
            /\ logged' = [logged EXCEPT ![parent] = Append(@, Head(pipes[parent]))]
            /\ pipes' = [pipes EXCEPT ![parent] = Tail(@)]
            /\ UNCHANGED <<script, written, child, parent, myChild, wasTerminated, exitCode>>

AfterCopy(stream) == IF stream = "out" THEN "err" ELSE "wait"

\* Variant of EndOfStream: an empty pipe is taken for the end.
EndOfStreamEarly == /\ parent \in Streams /\ pipes[parent] = <<>>
                    /\ parent' = AfterCopy(parent) /\ myChild' = (parent = "err")
                    /\ UNCHANGED <<script, written, child, pipes, logged, wasTerminated, exitCode>>

\* The end of a stream is the exit of the child. The waiter sets my_child only then.
EndOfStream == /\ parent \in Streams /\ pipes[parent] = <<>> /\ child = "exited"
               /\ parent' = AfterCopy(parent) /\ myChild' = (parent = "err")
               /\ UNCHANGED <<script, written, child, pipes, logged, wasTerminated, exitCode>>

Wait == /\ parent = "wait" /\ child = "exited"
        /\ parent' = "returned" /\ myChild' = FALSE
        /\ exitCode' = IF wasTerminated THEN "failure" ELSE "own"
        /\ UNCHANGED <<script, written, child, pipes, logged, wasTerminated>>

\* Terminate() finds no child before all of its output was copied.
Terminate == /\ myChild
             /\ wasTerminated' = TRUE /\ child' = "exited"
             /\ UNCHANGED <<script, written, pipes, parent, logged, myChild, exitCode>>

ParentStep == StartChild \/ StartFails \/ CopyLine \/ EndOfStream \/ Wait
ChildStep == ChildWrites \/ ChildExits
ProcessNext == ParentStep \/ ChildStep \/ Terminate

ProcessSpec == ProcessInit /\ [][ProcessNext]_processVars

-------------------------------------------------------------------------------
Increasing(lines) == \A i, j \in DOMAIN lines : i < j => lines[i] < lines[j]

\* When StartProcess returns, every line the child has written is in the log, once, those
\* of a stream in the order in which they were written.
AllLogged == parent = "returned" =>
                 \A s \in Streams : /\ Range(logged[s]) = {i \in 1 .. written : script[i] = s}
                                    /\ Increasing(logged[s])

Errors == SelectSeq(script, LAMBDA line : line = "err")

\* StartProcess returns once the child was started, provided what the child writes to its
\* standard error fits into the pipe: standard error is read only after standard output has
\* ended, so that a child with more errors to write waits for the parent, which waits for
\* the child.
ProcessReturns ==
    parent # "start" /\ Len(Errors) <= PipeSize ~> parent = "returned"
===============================================================================
