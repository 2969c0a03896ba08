-------------------------------- MODULE Updater --------------------------------
(*************************************************************************)
(* DBUpdater and UpdateFetcher: filling an empty database with the base  *)
(* files, and bringing a database up to date with the SQL files of the   *)
(* source tree. The table `updates` records what was applied; a start    *)
(* compares it with the files by name and by hash.                       *)
(*                                                                       *)
(* A file is applied by the mysql client, which reports failure, and     *)
(* recorded by a statement whose failure goes unnoticed (DirectExecute   *)
(* returns nothing). The process may end between any two of these steps. *)
(* A file name is a number, in the order of the names; a hash stands for *)
(* the contents it is the hash of.                                       *)
(*************************************************************************)
EXTENDS Integers, Sequences, FiniteSets, Functions

CONSTANTS
    Names, Hashes,      \* of update files
    Empty,              \* the empty hash of a row that was entered by hand
    Trees,              \* source trees: sets of files
    NoTree,
    BaseFiles           \* tables made by the files of the base directory

States == {"RELEASED", "CUSTOM", "MODULE", "ARCHIVED"}
Files == [name : Names, hash : Hashes, state : States]
Entries == [name : Names, hash : Hashes \cup {Empty}, state : States]

ASSUME UpdaterAssumption ==
    /\ Names \subseteq Nat /\ Empty \notin Hashes
    /\ Trees \subseteq SUBSET Files /\ NoTree \notin Trees
    /\ \A files \in Trees : IsFiniteSet(files) /\ Cardinality(files) \in Nat
    /\ {"updates", "updates_include"} \subseteq BaseFiles

VARIABLES
    options,            \* Updates.Redundancy, AllowRehash, ArchivedRedundancy, CleanDeadRefMaxCount
    tree,               \* the source tree of this start
    tables,             \* tables of the database that exist
    updates,            \* the table `updates`
    effects,            \* hashes of the files whose statements were executed
    vouched,            \* hashes that were recorded for a row with an empty hash
    stage,              \* where Populate or Update is
    todo,               \* files ApplyUpdateFile has still to be called for, in this order
    applied, fetched,   \* the map applied; what it was when hashToName was filled
    disturbed,          \* a database call of this start has failed
    settled             \* the tree that the last start has completed without a failure

optionVars   == <<options, tree>>
databaseVars == <<tables, updates, effects, vouched>>
localVars    == <<todo, applied, fetched>>
updaterVars  == <<optionVars, databaseVars, stage, localVars, disturbed, settled>>

UpdaterTypeOK ==
    /\ options \in [redundancy : BOOLEAN, rehash : BOOLEAN, archived : BOOLEAN, clean : Int]
    /\ tree \in Trees
    /\ tables \subseteq BaseFiles
    /\ updates \subseteq Entries /\ applied \subseteq Entries /\ fetched \subseteq Entries
    /\ \A e, f \in updates : e.name = f.name => e = f
    /\ effects \subseteq Hashes /\ vouched \subseteq Hashes
    /\ stage \in {"off", "populate", "populated", "update", "retrieve", "walk", "record",
                 "ok", "failed"}
    /\ todo \in Seq(Files)
    /\ disturbed \in BOOLEAN
    /\ settled \in Trees \cup {NoTree}

Without(entries, names) == {e \in entries : e.name \notin names}
Named(entries, name) == {e \in entries : e.name = name}

\* A file that cannot be read or applied, no mysql client, two files of one name: the
\* exception ends the update.
Fail == /\ stage' = "failed"
        /\ UNCHANGED <<optionVars, databaseVars, localVars, disturbed, settled>>

-------------------------------------------------------------------------------
\* DBUpdater.

\* Populate: SHOW TABLES, which finds nothing where it fails, and if there is no table
\* the base files, one by one and in any order, until one of them fails.
Populate ==
    /\ stage = "populate"
    /\ \/ /\ tables # {}
          /\ stage' = "populated"
          /\ UNCHANGED <<tables, disturbed>>
       \/ \E done \in SUBSET BaseFiles :
             /\ tables' = tables \cup done
             /\ stage' = IF done = BaseFiles THEN "populated" ELSE "failed"
             /\ disturbed' = (disturbed \/ tables # {})
    /\ UNCHANGED <<optionVars, updates, effects, vouched, localVars, settled>>

\* Update: CheckUpdateTable for both tables of the updater.
CheckUpdateTable ==
    /\ stage = "update"
    /\ tables' = tables \cup {"updates", "updates_include"}
    /\ stage' = "retrieve"
    /\ UNCHANGED <<optionVars, updates, effects, vouched, localVars, disturbed, settled>>

-------------------------------------------------------------------------------
\* UpdateFetcher.

Unique(files) == \A f, g \in files : f.name = g.name => f = g

\* Update applies the released and archived files, then the custom ones, then those of
\* modules, each kind in the order of the names.
Pass(f) == CASE f.state = "CUSTOM" -> 2 [] f.state = "MODULE" -> 3 [] OTHER -> 1
Earlier(f, g) == Pass(f) < Pass(g) \/ (Pass(f) = Pass(g) /\ f.name < g.name)
InOrder(files) == {s \in [1 .. Cardinality(files) -> files] :
                      /\ Range(s) = files
                      /\ \A i, j \in DOMAIN s : i < j => Earlier(s[i], s[j])}

\* A query that fails finds nothing, and then every file is a new one.
ReceiveAppliedFiles == \/ applied' = updates /\ UNCHANGED disturbed
                       \/ applied' = {} /\ disturbed' = TRUE

\* GetFileList, and the cache hashToName.
Retrieve ==
    /\ stage = "retrieve"
    /\ Unique(tree)
    /\ ReceiveAppliedFiles
    /\ fetched' = applied'
    /\ todo' \in InOrder(tree)
    /\ stage' = "walk"
    /\ UNCHANGED <<optionVars, databaseVars, settled>>

\* _apply: the statement is executed, or fails and nobody notices.
Write(new) == \/ updates' = new /\ UNCHANGED disturbed
              \/ UNCHANGED updates /\ disturbed' = TRUE

\* ApplyUpdateFile is done with a file.
Done(f) == /\ stage' = "walk"
           /\ todo' = Tail(todo)
           /\ applied' = Without(applied, {f.name})
           /\ UNCHANGED <<optionVars, tables, fetched, settled>>

\* Variant of Trusted: a recorded file is never looked at.
TrustedByName(f, e) == TRUE

\* The file counts as applied without a look at its contents.
Trusted(f, e) == \/ ~options.redundancy
                 \/ ~options.archived /\ e.state = "ARCHIVED" /\ f.state = "ARCHIVED"

\* A file that is recorded under its name: skipped, moved to another kind of directory
\* (UpdateState) or hashed for the first time; otherwise its contents differ.
Skip(f, e) ==
    /\ \/ Trusted(f, e)
       \/ e.hash = f.hash /\ e.state = f.state
    /\ Done(f)
    /\ UNCHANGED <<updates, effects, vouched, disturbed>>

UpdateState(f, e) ==
    /\ ~Trusted(f, e) /\ e.hash = f.hash /\ e.state # f.state
    /\ Write({IF u.name = f.name THEN [u EXCEPT !.state = f.state] ELSE u : u \in updates})
    /\ Done(f)
    /\ UNCHANGED <<effects, vouched>>

\* Variants of UpdateEntry: INSERT of a second row; INSERT IGNORE.
InsertEntry(f) == Write(updates \cup {f})
InsertIgnore(f) == Write(IF Named(updates, f.name) = {} THEN updates \cup {f} ELSE updates)

\* UpdateEntry: REPLACE INTO `updates`.
UpdateEntry(f) == Write(Without(updates, {f.name}) \cup {f})

Rehash(f, e) ==
    /\ ~Trusted(f, e) /\ options.rehash /\ e.hash = Empty
    /\ UpdateEntry(f)
    /\ vouched' = vouched \cup {f.hash}
    /\ Done(f)
    /\ UNCHANGED effects

Changed(f, e) == ~Trusted(f, e) /\ e.hash # f.hash /\ ~(options.rehash /\ e.hash = Empty)

\* hashToName.find: the name of an entry that had the hash of the file.
SameHash(f) == {e.name : e \in {u \in fetched : u.hash = f.hash}}

\* A file that is not recorded, and has the hash of one that is gone: RenameEntry.
Rename(f, old) ==
    /\ Named(applied, f.name) = {}
    /\ old \in SameHash(f) /\ Named(tree, old) = {}
    /\ Write({IF u.name = old THEN [u EXCEPT !.name = f.name] ELSE u
              : u \in Without(updates, {f.name})})
    /\ stage' = "walk"
    /\ todo' = Tail(todo)
    /\ applied' = Without(applied, {old})
    /\ UNCHANGED <<optionVars, tables, effects, vouched, fetched, settled>>

\* A file that is not recorded and does not replace another one, or whose contents have
\* changed: the mysql client applies it.
New(f) == /\ Named(applied, f.name) = {}
          /\ \/ SameHash(f) = {}
             \/ \E old \in SameHash(f) : Named(tree, old) # {}

\* Variant of Apply: the exit code of the client is not looked at.
ApplyUnchecked(f) ==
    /\ New(f) \/ \E e \in Named(applied, f.name) : Changed(f, e)
    /\ effects' \in {effects, effects \cup {f.hash}}
    /\ stage' = "record"
    /\ UNCHANGED <<optionVars, tables, updates, vouched, localVars, disturbed, settled>>

Apply(f) ==
    /\ New(f) \/ \E e \in Named(applied, f.name) : Changed(f, e)
    /\ effects' = effects \cup {f.hash}
    /\ stage' = "record"
    /\ UNCHANGED <<optionVars, tables, updates, vouched, localVars, disturbed, settled>>

ApplyUpdateFile ==
    \/ /\ stage = "walk" /\ todo # <<>>
       /\ LET f == Head(todo) IN
          \/ \E e \in Named(applied, f.name) : Skip(f, e) \/ UpdateState(f, e) \/ Rehash(f, e)
          \/ \E old \in Names : Rename(f, old)
          \/ Apply(f)
    \/ /\ stage = "record"
       /\ UpdateEntry(Head(todo)) /\ Done(Head(todo))
       /\ UNCHANGED <<effects, vouched>>

\* What is left of applied is recorded and has no file. CleanUp removes it, except for
\* modules, if it is not too much; -1 is no limit.
CleanUp ==
    /\ stage = "walk" /\ todo = <<>>
    /\ IF options.clean < 0 \/ Cardinality(applied) <= options.clean
       THEN Write(Without(updates, {e.name : e \in {u \in applied : u.state # "MODULE"}}))
       ELSE UNCHANGED <<updates, disturbed>>
    /\ stage' = "ok"
    /\ settled' = IF disturbed' THEN NoTree ELSE tree
    /\ UNCHANGED <<optionVars, tables, effects, vouched, localVars>>

UpdaterNext == \/ Populate \/ CheckUpdateTable \/ Retrieve \/ ApplyUpdateFile \/ CleanUp
               \/ stage \in {"populate", "update", "retrieve", "walk"} /\ Fail

-------------------------------------------------------------------------------
\* A file is recorded only after it was applied, or because the row was there with an
\* empty hash: whatever fails, and wherever the process ends, a start never takes for
\* done what was not done.
RecordedMeansApplied == \A e \in updates : e.hash \in effects \cup vouched \cup {Empty}

\* When Update returns true and the contents of files are looked at, the contents of
\* every file have reached the database, over renames, copies, failed records and restarts.
UpToDate ==
    stage = "ok" /\ options.redundancy =>
        \A f \in tree : \/ f.hash \in effects \cup vouched
                        \/ ~options.archived /\ f.state = "ARCHIVED"

\* A start with the files of the last one, if nothing failed in either and no two files
\* are copies, applies nothing.
NothingTwice ==
    [][effects' # effects \/ stage' = "record" =>
           ~(settled = tree /\ ~disturbed /\ \A f, g \in tree : f.hash = g.hash => f = g)
      ]_updaterVars
===============================================================================
