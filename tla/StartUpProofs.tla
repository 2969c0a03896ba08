----------------------------- MODULE StartUpProofs -----------------------------
(*************************************************************************)
(* The start-up, for any number of pools, source trees, options,         *)
(* histories, failing calls and ends of the process: what the table      *)
(* `updates` says is true, a completed update reaches every file and is  *)
(* not repeated, a pool that is open is registered to be closed, a start *)
(* that fails closes them all, and one that succeeds has all the bot     *)
(* needs.                                                                *)
(*************************************************************************)
EXTENDS StartUp, TLAPS

Reached == effects \cup vouched
Known(entries) == \A e \in entries : e.hash \in Reached \cup {Empty}
Covered(f) == f.hash \in Reached \/ (~options.archived /\ f.state = "ARCHIVED")

UpdaterTypes == /\ tree \in Trees
                /\ updates \subseteq Entries /\ applied \subseteq Entries /\ fetched \subseteq Entries
                /\ todo \in Seq(Files)

\* The strengthening of RecordedMeansApplied and UpToDate: what ApplyUpdateFile compares
\* with was recorded rightly, a file that is about to be recorded was applied, and the files
\* that are no longer on the list have been dealt with.
UpdaterInv ==
    /\ UpdaterTypes
    /\ Known(updates) /\ Known(applied) /\ Known(fetched)
    /\ stage # "off" => phase \in {"populate", "update"}
    /\ stage = "record" => todo # <<>> /\ Head(todo).hash \in Reached
    /\ stage = "ok" => todo = <<>>
    /\ stage \in {"walk", "record", "ok"} /\ options.redundancy =>
           \A f \in tree : f \in Range(todo) \/ Covered(f)

-------------------------------------------------------------------------------
\* The list of the files that are left loses its first one with every ApplyUpdateFile.
LEMMA OneLess ==
    ASSUME NEW s \in Seq(Files), s # <<>>
    PROVE  /\ Head(s) \in Files /\ Tail(s) \in Seq(Files)
           /\ \A f \in Range(s) : f = Head(s) \/ f \in Range(Tail(s))
<1>1. Head(s) \in Files /\ Tail(s) \in Seq(Files)
  OBVIOUS
<1>2. ASSUME NEW i \in DOMAIN s, i # 1 PROVE s[i] \in Range(Tail(s))
  <2>1. i - 1 \in DOMAIN Tail(s) /\ Tail(s)[i - 1] = s[i]
    BY <1>2
  <2> QED
    BY <2>1 DEF Range
<1> QED
  BY <1>1, <1>2 DEF Range

\* ApplyUpdateFile is done with a file that is accounted for: the invariant goes on to the
\* rest of the list.
LEMMA DoneFacts ==
    ASSUME UpdaterInv, stage \in {"walk", "record"}, todo # <<>>,
           updates' \subseteq Entries,
           effects \subseteq effects', vouched \subseteq vouched',
           Known(updates)', UNCHANGED <<optionVars, fetched>>, UNCHANGED phase,
           stage' = "walk", todo' = Tail(todo), applied' \subseteq applied,
           options.redundancy => \/ Head(todo).hash \in effects' \cup vouched'
                                 \/ ~options.archived /\ Head(todo).state = "ARCHIVED"
    PROVE  UpdaterInv'
<1> USE DEF UpdaterInv, UpdaterTypes, optionVars
<1>0. todo \in Seq(Files)
  OBVIOUS
<1>5. /\ Tail(todo) \in Seq(Files)
      /\ \A f \in Range(todo) : f = Head(todo) \/ f \in Range(Tail(todo))
  BY <1>0, OneLess
<1>1. UpdaterTypes'
  BY <1>5
<1>2. Known(applied)' /\ Known(fetched)'
  BY DEF Known, Reached
<1>3. \A f \in tree : Covered(f) => Covered(f)'
  BY DEF Covered, Reached
<1>4. ASSUME options.redundancy, NEW f \in tree
      PROVE  f \in Range(Tail(todo)) \/ Covered(f)'
  <2>1. f \in Range(todo) \/ Covered(f)
    BY <1>4
  <2>2. CASE f = Head(todo)
    BY <2>2, <1>4 DEF Covered, Reached
  <2> QED
    BY <1>3, <1>5, <2>1, <2>2, <1>4
<1> QED
  BY <1>1, <1>2, <1>4

\* One step of the updater.
LEMMA UpdaterNextStep ==
    UpdaterInv /\ UpdaterNext /\ UNCHANGED <<mgrVars, exists>> => UpdaterInv'
<1> SUFFICES ASSUME UpdaterInv, UpdaterNext, UNCHANGED <<mgrVars, exists>>
             PROVE  UpdaterInv'
  OBVIOUS
<1>a. UNCHANGED phase
  BY DEF mgrVars
<1>1. CASE Populate
  <2>1. UNCHANGED <<optionVars, updates, effects, vouched, localVars>> /\ stage' \in {"populated", "failed"}
    BY <1>1 DEF Populate
  <2> QED
    BY <1>1, <1>a, <2>1
       DEF Populate, UpdaterInv, UpdaterTypes, Known, Reached, optionVars, localVars
<1>2. CASE CheckUpdateTable
  BY <1>2, <1>a
     DEF CheckUpdateTable, UpdaterInv, UpdaterTypes, Known, Reached, optionVars, localVars
<1>3. CASE Retrieve
  <2>1. tree \in Trees /\ IsFiniteSet(tree) /\ tree \subseteq Files
    BY UpdaterAssumption DEF UpdaterInv, UpdaterTypes
  <2>2. todo' \in Seq(Files) /\ Range(todo') = tree
    <3>1. Cardinality(tree) \in Nat
      BY Zenon, <2>1, UpdaterAssumption
    <3> QED
      BY <1>3, <2>1, <3>1 DEF Retrieve, InOrder
  <2>3. applied' \subseteq updates /\ fetched' = applied'
    BY <1>3 DEF Retrieve, ReceiveAppliedFiles
  <2>4. UNCHANGED <<optionVars, updates, effects, vouched>> /\ stage' = "walk"
    BY <1>3 DEF Retrieve, databaseVars
  <2> QED
    BY <1>3, <1>a, <2>2, <2>3, <2>4
       DEF Retrieve, UpdaterInv, UpdaterTypes, Known, Reached, optionVars
<1>4. CASE stage = "walk" /\ todo # <<>> /\ ApplyUpdateFile
  <2> DEFINE f == Head(todo)
  <2>1. f \in Files /\ f.hash # Empty
    BY Zenon, <1>4, OneLess, UpdaterAssumption DEF UpdaterInv, UpdaterTypes, Files
  <2>a. ASSUME Done(f)
        PROVE  /\ UNCHANGED <<optionVars, fetched>> /\ stage' = "walk" /\ todo' = Tail(todo)
               /\ applied' \subseteq applied
    BY <2>a DEF Done, Without
  <2>b. /\ updates \subseteq Entries /\ \A u \in updates : u.hash \in Reached \cup {Empty}
        /\ \A u \in applied \cup fetched : u.hash \in Reached \cup {Empty}
    BY DEF UpdaterInv, UpdaterTypes, Known
  <2>2. ASSUME NEW e \in Named(applied, f.name), Skip(f, e) PROVE UpdaterInv'
    <3>1. options.redundancy => f.hash \in Reached \/ (~options.archived /\ f.state = "ARCHIVED")
      BY <2>1, <2>b, <2>2 DEF Skip, Trusted, Named
    <3>2. Done(f) /\ UNCHANGED <<updates, effects, vouched>>
      BY <2>2 DEF Skip
    <3>3. Known(updates)'
      BY <2>b, <3>2 DEF Known, Reached
    <3> QED
      BY <1>4, <1>a, <2>a, <2>b, <3>1, <3>2, <3>3, DoneFacts DEF Reached
  <2>3. ASSUME NEW e \in Named(applied, f.name), UpdateState(f, e) PROVE UpdaterInv'
    <3> DEFINE new == {IF u.name = f.name THEN [u EXCEPT !.state = f.state] ELSE u : u \in updates}
    <3>1. f.hash \in Reached
      BY <2>1, <2>b, <2>3 DEF UpdateState, Named
    <3>2. Done(f) /\ Write(new) /\ UNCHANGED <<effects, vouched>>
      BY <2>3 DEF UpdateState
    <3>3. new \subseteq Entries /\ \A u \in new : u.hash \in Reached \cup {Empty}
      BY <2>1, <2>b DEF Entries, Files
    <3>4. updates' \subseteq Entries /\ \A u \in updates' : u.hash \in Reached \cup {Empty}
      BY <2>b, <3>2, <3>3 DEF Write
    <3>5. Known(updates)'
      BY <3>2, <3>4 DEF Known, Reached
    <3> QED
      BY SMTT(30), <1>4, <1>a, <2>a, <3>1, <3>2, <3>4, <3>5, DoneFacts DEF Reached
  <2>4. ASSUME NEW e \in Named(applied, f.name), Rehash(f, e) PROVE UpdaterInv'
    <3> DEFINE new == Without(updates, {f.name}) \cup {f}
    <3>1. Done(f) /\ Write(new) /\ UNCHANGED effects /\ vouched' = vouched \cup {f.hash}
      BY <2>4 DEF Rehash, UpdateEntry
    <3>2. new \subseteq Entries /\ \A u \in new : u.hash \in Reached \cup {Empty, f.hash}
      BY <2>1, <2>b DEF Entries, Files, Without
    <3>3. updates' \subseteq Entries /\ \A u \in updates' : u.hash \in Reached \cup {Empty, f.hash}
      BY Zenon, <2>b, <3>1, <3>2 DEF Write
    <3>4. Known(updates)'
      BY <3>1, <3>3 DEF Known, Reached
    <3> QED
      BY SMTT(30), <1>4, <1>a, <2>a, <3>1, <3>3, <3>4, DoneFacts
  <2>5. ASSUME NEW old \in Names, Rename(f, old) PROVE UpdaterInv'
    <3> DEFINE new == {IF u.name = old THEN [u EXCEPT !.name = f.name] ELSE u
                       : u \in Without(updates, {f.name})}
    <3>1. f.hash \in Reached
      BY <2>1, <2>b, <2>5 DEF Rename, SameHash
    <3>2. /\ Write(new) /\ UNCHANGED <<optionVars, effects, vouched, fetched>>
          /\ stage' = "walk" /\ todo' = Tail(todo) /\ applied' \subseteq applied
      BY <2>5 DEF Rename, Without
    <3>3. new \subseteq Entries /\ \A u \in new : u.hash \in Reached \cup {Empty}
      BY <2>1, <2>b DEF Entries, Files, Without
    <3>4. updates' \subseteq Entries /\ \A u \in updates' : u.hash \in Reached \cup {Empty}
      BY Zenon, <2>b, <3>2, <3>3 DEF Write
    <3>5. Known(updates)'
      BY <3>2, <3>4 DEF Known, Reached
    <3> QED
      BY <1>4, <1>a, <3>1, <3>2, <3>4, <3>5, DoneFacts DEF Reached
  <2>6. CASE Apply(f)
    <3>1. /\ effects' = effects \cup {f.hash} /\ stage' = "record" /\ UNCHANGED <<vouched, updates>>
          /\ UNCHANGED <<optionVars, localVars>>
      BY <2>6 DEF Apply
    <3>2. Known(updates)' /\ Known(applied)' /\ Known(fetched)'
      BY <2>b, <3>1 DEF Known, Reached, localVars
    <3>3. UpdaterTypes'
      BY <3>1 DEF UpdaterInv, UpdaterTypes, optionVars, localVars
    <3>4. \A g \in tree : Covered(g) => Covered(g)'
      BY <3>1 DEF Covered, Reached, optionVars
    <3>5. (Head(todo).hash \in Reached)'
      BY <3>1 DEF Reached, localVars
    <3> QED
      BY <1>4, <1>a, <3>1, <3>2, <3>3, <3>4, <3>5 DEF UpdaterInv, optionVars, localVars
  <2> QED
    BY SMTT(30), <1>4, <2>2, <2>3, <2>4, <2>5, <2>6 DEF ApplyUpdateFile
<1>7. CASE stage = "record" /\ ApplyUpdateFile
  <2> DEFINE f == Head(todo)
             new == Without(updates, {f.name}) \cup {f}
  <2>1. todo # <<>> /\ f \in Files /\ f.hash \in Reached
    BY <1>7, OneLess DEF UpdaterInv, UpdaterTypes
  <2>2. Write(new) /\ Done(f) /\ UNCHANGED <<effects, vouched>>
    BY <1>7 DEF ApplyUpdateFile, UpdateEntry
  <2>3. new \subseteq Entries /\ \A u \in new : u.hash \in Reached \cup {Empty}
    BY <2>1 DEF UpdaterInv, UpdaterTypes, Known, Entries, Files, Without
  <2>4. updates' \subseteq Entries /\ \A u \in updates' : u.hash \in Reached \cup {Empty}
    BY Zenon, <2>2, <2>3 DEF Write, UpdaterInv, UpdaterTypes, Known
  <2>5. Known(updates)'
    BY <2>2, <2>4 DEF Known, Reached
  <2> QED
    BY SMTT(30), <1>7, <1>a, <2>1, <2>2, <2>4, <2>5, DoneFacts DEF Done, Without, Reached
<1>5. CASE CleanUp
  <2>1. updates' \subseteq updates
    BY <1>5 DEF CleanUp, Write, Without
  <2> QED
    BY <1>5, <1>a, <2>1
       DEF CleanUp, UpdaterInv, UpdaterTypes, Known, Covered, Reached, optionVars, localVars
<1>6. CASE stage \in {"populate", "update", "retrieve", "walk"} /\ Fail
  BY <1>6, <1>a
     DEF Fail, UpdaterInv, UpdaterTypes, Known, Reached, optionVars, localVars, databaseVars
<1> QED
  BY <1>1, <1>2, <1>3, <1>4, <1>5, <1>6, <1>7 DEF UpdaterNext, ApplyUpdateFile

-------------------------------------------------------------------------------
\* The history of the database at the first start was recorded rightly.
LEMMA UpdaterStart == StartInit => UpdaterInv
<1> SUFFICES ASSUME StartInit PROVE UpdaterInv
  OBVIOUS
<1>1. UpdaterTypes
  BY StartUpAssumption DEF StartInit, UpdaterTypes
<1>2. Known(updates) /\ Known(applied) /\ Known(fetched)
  BY DEF StartInit, Known, Reached
<1> QED
  BY <1>1, <1>2 DEF StartInit, UpdaterInv

\* A step of the start-up: where it is not one of the updater, it leaves the database alone,
\* and begins, ends or abandons the work of the updater.
LEMMA UpdaterStep == UpdaterInv /\ [StartNext]_startVars => UpdaterInv'
<1> SUFFICES ASSUME UpdaterInv, [StartNext]_startVars PROVE UpdaterInv'
  OBVIOUS
<1>a. ASSUME UNCHANGED updaterVars, stage = "off" PROVE UpdaterInv'
  BY <1>a
     DEF updaterVars, optionVars, databaseVars, localVars, UpdaterInv, UpdaterTypes, Known, Reached
<1>1. CASE BeginStart
  <2>1. stage = "off" /\ UNCHANGED <<stage, databaseVars, localVars>> /\ tree' \in Trees
    BY <1>1 DEF BeginStart, Load, UpdaterInv
  <2> QED
    BY <2>1 DEF databaseVars, localVars, UpdaterInv, UpdaterTypes, Known, Reached
<1>2. CASE Open
  BY <1>2, <1>a DEF Open, UpdaterInv
<1>3. CASE BeginStep
  BY <1>3 DEF BeginStep, mgrVars, optionVars, databaseVars, localVars, UpdaterInv, UpdaterTypes,
              Known, Reached
<1>4. CASE EndStep
  <2>1. stage' = "off" /\ UNCHANGED <<optionVars, databaseVars, localVars>>
    BY <1>4 DEF EndStep
  <2> QED
    BY Zenon, <2>1 DEF optionVars, databaseVars, localVars, UpdaterInv, UpdaterTypes, Known, Reached
<1>5. CASE Prepare \/ NotPrepare \/ Close
  <2>1. UNCHANGED updaterVars /\ phase \in {"prepare", "running"}
    BY <1>5 DEF Prepare, NotPrepare, Close, Prepared, NotPrepared, CloseAllConnections
  <2> QED
    BY <1>a, <2>1 DEF UpdaterInv
<1>6. CASE End
  <2>1. /\ stage' = "off" /\ todo' = <<>> /\ applied' = {} /\ fetched' = {}
        /\ UNCHANGED <<optionVars, databaseVars>>
    BY <1>6 DEF End
  <2> QED
    BY <2>1 DEF optionVars, databaseVars, UpdaterInv, UpdaterTypes, Known, Reached
<1>7. CASE UpdaterNext /\ UNCHANGED <<mgrVars, exists>>
  BY <1>7, UpdaterNextStep
<1>8. CASE UNCHANGED startVars
  BY <1>8 DEF startVars, mgrVars, updaterVars, optionVars, databaseVars, localVars, UpdaterInv,
              UpdaterTypes, Known, Covered, Reached
<1> QED
  BY SMTT(30), <1>1, <1>2, <1>3, <1>4, <1>5, <1>6, <1>7, <1>8 DEF StartNext, Work

\* What ApplyUpdateFile compares with, and what it still has to do, is as it should be in
\* every state of every start.
THEOREM UpdaterInvariance == StartSpec => []UpdaterInv
  BY UpdaterStart, UpdaterStep, PTL DEF StartSpec

\* The table `updates` never has a hash of a file that was not applied, but for rows that
\* were entered by hand: whatever fails, and wherever the process ends between the mysql
\* client and UpdateEntry, for any files, options and number of starts.
THEOREM RecordsAreTrue == StartSpec => []RecordedMeansApplied
<1>1. UpdaterInv => RecordedMeansApplied
  BY DEF UpdaterInv, Known, Reached, RecordedMeansApplied
<1> QED
  BY <1>1, UpdaterInvariance, PTL

\* When UpdateFetcher::Update returns and the contents of files are looked at, the contents
\* of every file of the source tree have reached the database, over renames, copies, failed
\* records and restarts.
THEOREM UpdateReachesAll == StartSpec => []UpToDate
<1>1. UpdaterInv => UpToDate
  BY DEF UpdaterInv, UpToDate, Covered, Reached, Range
<1> QED
  BY <1>1, UpdaterInvariance, PTL

-------------------------------------------------------------------------------
\* The row a file is recorded with keeps ApplyUpdateFile from applying it.
Good(f, rows) == \E e \in rows : e.name = f.name /\ (Trusted(f, e) \/ e.hash = f.hash)
Distinct == \A f, g \in tree : f.hash = g.hash => f = g

\* While the files are walked: what is left of applied is in the table, or has no file; a row
\* under whose name there is no file is there until the file with its hash is renamed.
Walking ==
    /\ Unique(tree) /\ IsInjective(todo) /\ Range(todo) \subseteq tree
    /\ Unique(fetched) /\ applied \subseteq fetched
    /\ \A e \in applied, f \in tree : e.name = f.name => f \in Range(todo)
    /\ \A e \in applied, f \in Range(todo) : e.name = f.name => e \in updates
    /\ Distinct => \A e \in fetched, f \in Range(todo) :
                      e.hash = f.hash /\ Named(tree, e.name) = {} => e \in updates
    /\ Distinct /\ ~disturbed => \A f \in tree \ Range(todo) : Good(f, updates)
    /\ Distinct /\ ~disturbed /\ settled = tree =>
           stage = "walk" /\ \A f \in Range(todo) : Good(f, applied)

\* The strengthening of NothingTwice: the tree that the last start has settled is recorded
\* completely.
TwiceInv ==
    /\ Unique(updates)
    /\ settled \in {NoTree, tree}
    /\ settled = tree => Unique(tree) /\ (Distinct => \A f \in tree : Good(f, updates))
    /\ stage \in {"walk", "record"} => Walking

\* Whether a row keeps a file from being applied depends on the options alone.
LEMMA GoodLater ==
    ASSUME NEW f, NEW rows, UNCHANGED options
    PROVE  (\E e \in rows : e.name = f.name /\ (Trusted(f, e)' \/ e.hash = f.hash)) <=> Good(f, rows)
    BY DEF Good, Trusted

\* What Tail(todo) holds.
LEMMA RestOfTodo ==
    ASSUME IsInjective(todo), todo \in Seq(Files), todo # <<>>
    PROVE  /\ IsInjective(Tail(todo)) /\ Tail(todo) \in Seq(Files)
           /\ Head(todo) \in Range(todo)
           /\ Range(Tail(todo)) = Range(todo) \ {Head(todo)}
<1> DEFINE s == todo
<1>1. /\ Tail(s) \in Seq(Files) /\ Len(Tail(s)) = Len(s) - 1
      /\ Len(s) \in Nat /\ Len(s) > 0
      /\ DOMAIN s = 1 .. Len(s) /\ DOMAIN Tail(s) = 1 .. Len(s) - 1
      /\ Head(s) = s[1] /\ \A i \in 1 .. Len(s) - 1 : Tail(s)[i] = s[i + 1]
    OBVIOUS
<1>2. /\ 1 \in DOMAIN s
      /\ \A i \in DOMAIN Tail(s) : i + 1 \in DOMAIN s /\ i + 1 # 1 /\ Tail(s)[i] = s[i + 1]
    BY <1>1
<1>3. IsInjective(Tail(s))
  <2> SUFFICES ASSUME NEW i \in DOMAIN Tail(s), NEW j \in DOMAIN Tail(s), Tail(s)[i] = Tail(s)[j]
               PROVE  i = j
    BY DEF IsInjective
  <2>1. i + 1 = j + 1
    BY <1>2 DEF IsInjective
  <2> QED
    BY <1>1, <2>1
<1>4. Range(Tail(s)) \subseteq Range(s) \ {Head(s)}
  <2> SUFFICES ASSUME NEW i \in DOMAIN Tail(s) PROVE Tail(s)[i] \in Range(s) /\ Tail(s)[i] # s[1]
    BY <1>1 DEF Range
  <2> QED
    BY <1>2 DEF IsInjective, Range
<1>5. Head(s) \in Range(s)
    BY <1>1, <1>2 DEF Range
<1>6. Range(s) \ {Head(s)} \subseteq Range(Tail(s))
    BY OneLess
<1> QED
    BY <1>1, <1>3, <1>4, <1>5, <1>6

\* ApplyUpdateFile is done with a file: it has written no rows but those of this name, and of
\* a name for which there is no file.
LEMMA FileDone ==
    ASSUME TwiceInv, UpdaterInv, stage \in {"walk", "record"}, todo # <<>>,
           NEW f, f = Head(todo), NEW old, Named(tree, old) = {},
           UNCHANGED <<options, tree, fetched, settled>>,
           stage' = "walk", todo' = Tail(todo),
           applied' \subseteq applied, Named(applied', f.name) = {},
           \A e \in applied : e.name # f.name /\ Named(tree, e.name) # {} => e \in applied',
           Unique(updates'),
           \A e : e.name # f.name /\ e.name # old => (e \in updates' <=> e \in updates),
           \A e \in fetched : e.name = old => e.hash = f.hash \/ e \in updates',
           disturbed => disturbed',
           ~disturbed' /\ Distinct => Good(f, updates'),
           Good(f, updates) /\ Distinct => Good(f, updates')
    PROVE  TwiceInv'
<1>1. Walking /\ todo \in Seq(Files)
    BY Zenon DEF TwiceInv, UpdaterInv, UpdaterTypes
<1>2. /\ IsInjective(Tail(todo)) /\ f \in Range(todo) /\ f \in tree
      /\ Range(Tail(todo)) = Range(todo) \ {f}
    BY Zenon, <1>1, RestOfTodo DEF Walking
<1>3. \A g \in tree : g # f => g.name # f.name /\ g.name # old
    BY Zenon, <1>1, <1>2 DEF Walking, Unique, Named
<1>4. PICK new : new = updates'
    BY Zenon
<1>5. \A g \in tree : g # f => (Good(g, new) <=> Good(g, updates))
    BY Zenon, <1>3, <1>4 DEF Good
<1>6. \A g, rows : (\E e \in rows : e.name = g.name /\ (Trusted(g, e)' \/ e.hash = g.hash))
                   <=> Good(g, rows)
    BY Zenon, GoodLater
<1>7. \A g : Good(g, updates)' <=> Good(g, new)
    BY Zenon, <1>4, <1>6 DEF Good
<1>8. PICK left : left = applied'
    BY Zenon
<1>9. \A g : Good(g, applied)' <=> Good(g, left)
    BY Zenon, <1>6, <1>8 DEF Good
<1>10. Distinct' <=> Distinct
    BY Zenon DEF Distinct
<1>11. ASSUME settled' = tree' PROVE Unique(tree') /\ (Distinct' => \A g \in tree' : Good(g, updates)')
  <2>1. settled = tree /\ Unique(tree) /\ (Distinct => \A g \in tree : Good(g, updates))
    BY Zenon, <1>11 DEF TwiceInv
  <2>2. ASSUME Distinct, NEW g \in tree PROVE Good(g, new)
    BY Zenon, <2>1, <2>2, <1>4, <1>5
  <2> QED
    BY Zenon, <2>1, <2>2, <1>7, <1>10
<1>12. \A e \in left, g \in tree : e.name = g.name => g \in Range(Tail(todo))
    BY Zenon, <1>1, <1>2, <1>8 DEF Walking, Named
<1>13. \A e \in left, g \in Range(Tail(todo)) : e.name = g.name => e \in new
    BY Zenon, <1>1, <1>2, <1>3, <1>4, <1>8 DEF Walking
<1>14. ASSUME Distinct, NEW e \in fetched, NEW g \in Range(Tail(todo)),
              e.hash = g.hash, Named(tree, e.name) = {}
       PROVE  e \in new
  <2>1. e \in updates /\ e.name # f.name /\ g \in tree /\ g # f
    BY Zenon, <1>1, <1>2, <1>14 DEF Walking, Named
  <2>2. g.hash # f.hash
    BY Zenon, <1>2, <1>14, <2>1 DEF Distinct
  <2> QED
    BY Zenon, <1>4, <1>14, <2>1, <2>2
<1>15. ASSUME Distinct, ~disturbed', NEW g \in tree, g \notin Range(Tail(todo)) PROVE Good(g, new)
  <2>1. CASE g = f
    BY Zenon, <1>4, <1>15, <2>1
  <2>2. CASE g # f
    <3>1. Good(g, updates)
      BY Zenon, <1>1, <1>2, <1>15, <2>2 DEF Walking
    <3> QED
      BY Zenon, <1>5, <2>2, <3>1
  <2> QED
    BY Zenon, <2>1, <2>2
<1>16. ASSUME Distinct, ~disturbed', settled = tree, NEW g \in Range(Tail(todo)) PROVE Good(g, left)
  <2>1. g \in tree /\ g.name # f.name /\ Good(g, applied)
    BY Zenon, <1>1, <1>2, <1>3, <1>16 DEF Walking
  <2>2. PICK e \in applied : e.name = g.name /\ (Trusted(g, e) \/ e.hash = g.hash)
    BY Zenon, <2>1 DEF Good
  <2>3. e \in left
    BY Zenon, <1>8, <2>1, <2>2 DEF Named
  <2> QED
    BY Zenon, <2>2, <2>3 DEF Good
<1>17. Walking'
  <2>1. Unique(tree)' /\ IsInjective(todo') /\ Range(todo') \subseteq tree'
    BY Zenon, <1>1, <1>2 DEF Walking, Unique
  <2>2. Unique(fetched)' /\ applied' \subseteq fetched'
    BY Zenon, <1>1 DEF Walking, Unique
  <2>3. \A e \in fetched : Named(tree, e.name)' = Named(tree, e.name)
    BY Zenon DEF Named
  <2> QED
    BY Zenon, <1>2, <1>4, <1>7, <1>8, <1>9, <1>10, <1>12, <1>13, <1>14, <1>15, <1>16, <2>1, <2>2, <2>3
    DEF Walking
<1>18. Unique(updates)' /\ settled' \in {NoTree, tree'}
    BY Zenon DEF TwiceInv, Unique
<1> QED
    BY Zenon, <1>11, <1>17, <1>18 DEF TwiceInv, Unique

\* A file that the last start has settled is not applied again.
LEMMA NotAgain ==
    ASSUME Walking, todo \in Seq(Files), todo # <<>>, Distinct, ~disturbed, settled = tree
    PROVE  ~Apply(Head(todo))
<1>1. Head(todo) \in Range(todo)
    BY RestOfTodo DEF Walking
<1>2. PICK e \in applied : /\ e.name = Head(todo).name
                           /\ Trusted(Head(todo), e) \/ e.hash = Head(todo).hash
    BY Zenon, <1>1 DEF Walking, Good
<1>3. ~New(Head(todo))
    BY <1>2 DEF New, Named
<1>4. \A u \in Named(applied, Head(todo).name) : u = e
    BY Zenon, <1>2 DEF Walking, Unique, Named
<1>5. ~Changed(Head(todo), e)
    BY <1>2 DEF Changed
<1> QED
    BY Zenon, <1>3, <1>4, <1>5 DEF Apply

\* Nothing that matters changes, and ApplyUpdateFile is not under way.
LEMMA NotWalking ==
    ASSUME TwiceInv, UNCHANGED <<options, tree, updates, settled>>, stage' \notin {"walk", "record"}
    PROVE  TwiceInv'
<1>1. \A g : Good(g, updates)' <=> Good(g, updates)
    BY Zenon, GoodLater DEF Good
<1>2. Distinct' <=> Distinct
    BY DEF Distinct
<1> QED
    BY <1>1, <1>2 DEF TwiceInv, Unique

\* ApplyUpdateFile deals with a file without, or after, its application.
LEMMA WalkStep ==
    ASSUME TwiceInv, UpdaterInv, ApplyUpdateFile
    PROVE  TwiceInv'
<1> DEFINE f == Head(todo)
<1>1. stage \in {"walk", "record"} /\ Walking /\ todo \in Seq(Files) /\ todo # <<>> /\ Unique(updates)
    BY DEF ApplyUpdateFile, TwiceInv, UpdaterInv, UpdaterTypes
<1>2. f \in Range(todo) /\ f \in Files /\ f \in tree
    BY <1>1, RestOfTodo, OneLess DEF Walking
<1>3. tree \subseteq Files /\ fetched \subseteq Entries /\ updates \subseteq Entries
    BY UpdaterAssumption DEF UpdaterInv, UpdaterTypes
<1>4. Named(tree, -1) = {} /\ \A e \in fetched : e.name # -1
  <2>1. -1 \notin Names /\ (\A g \in tree : g.name \in Names) /\ \A e \in fetched : e.name \in Names
    BY <1>3, UpdaterAssumption DEF Files, Entries
  <2> QED
    BY <2>1 DEF Named
<1>5. \A e \in applied : e.name = f.name => e \in updates
    BY Zenon, <1>1, <1>2 DEF Walking
<1> HIDE DEF f
<1>6. ASSUME Done(f), disturbed => disturbed', Unique(updates'),
             \A e : e.name # f.name => (e \in updates' <=> e \in updates),
             (~disturbed' \/ Good(f, updates)) => Good(f, updates')
      PROVE  TwiceInv'
  <2>1. /\ UNCHANGED <<options, tree, fetched, settled>> /\ stage' = "walk" /\ todo' = Tail(todo)
        /\ applied' = Without(applied, {f.name})
    BY Zenon, <1>6 DEF Done, optionVars
  <2>2. /\ applied' \subseteq applied /\ Named(applied', f.name) = {}
        /\ \A e \in applied : e.name # f.name /\ Named(tree, e.name) # {} => e \in applied'
    BY <2>1 DEF Without, Named
  <2>3. f = Head(todo)
    BY DEF f
  <2> QED
    BY Zenon, <1>1, <1>4, <1>6, <2>1, <2>2, <2>3, FileDone
<1>7. ASSUME UpdateEntry(f), Done(f) PROVE TwiceInv'
  <2> DEFINE new == Without(updates, {f.name}) \cup {f}
  <2>1. /\ Unique(new) /\ Good(f, new)
        /\ \A e : e.name # f.name => (e \in new <=> e \in updates)
    BY <1>1 DEF Unique, Good, Without
  <2>2. \/ updates' = new /\ disturbed' = disturbed
        \/ updates' = updates /\ disturbed' = TRUE
    BY <1>7 DEF UpdateEntry, Write
  <2> HIDE DEF new
  <2> QED
    BY Zenon, <1>1, <1>6, <1>7, <2>1, <2>2
<1>8. ASSUME NEW e \in Named(applied, f.name), Skip(f, e) PROVE TwiceInv'
  <2>1. Done(f) /\ UNCHANGED <<updates, disturbed>> /\ (Trusted(f, e) \/ e.hash = f.hash)
    BY <1>8 DEF Skip
  <2>2. Good(f, updates)
    BY <1>5, <1>8, <2>1 DEF Good, Named
  <2> QED
    BY Zenon, <1>1, <1>6, <2>1, <2>2
<1>9. ASSUME NEW e \in Named(applied, f.name), UpdateState(f, e) PROVE TwiceInv'
  <2> DEFINE new == {IF u.name = f.name THEN [u EXCEPT !.state = f.state] ELSE u : u \in updates}
  <2>1. Done(f) /\ Write(new) /\ e.hash = f.hash /\ e \in updates /\ e.name = f.name
    BY <1>5, <1>9 DEF UpdateState, Named
  <2>2. \A u \in updates : LET v == [u EXCEPT !.state = f.state] IN v.name = u.name /\ v.hash = u.hash
    BY <1>3 DEF Entries
  <2>3. Good(f, new)
    <3>1. [e EXCEPT !.state = f.state] \in new
      BY <2>1
    <3> QED
      BY Zenon, <2>1, <2>2, <3>1 DEF Good
  <2>4. Unique(new)
    <3> SUFFICES ASSUME NEW a \in new, NEW b \in new, a.name = b.name PROVE a = b
      BY DEF Unique
    <3>1. PICK u \in updates : a = IF u.name = f.name THEN [u EXCEPT !.state = f.state] ELSE u
      OBVIOUS
    <3>2. PICK v \in updates : b = IF v.name = f.name THEN [v EXCEPT !.state = f.state] ELSE v
      OBVIOUS
    <3>3. u.name = a.name /\ v.name = b.name
      BY <2>2, <3>1, <3>2
    <3>4. u = v
      BY <1>1, <3>3 DEF Unique
    <3> QED
      BY <3>1, <3>2, <3>4
  <2>5. \A u : u.name # f.name => (u \in new <=> u \in updates)
    BY Zenon, <2>2
  <2>6. \/ updates' = new /\ disturbed' = disturbed
        \/ updates' = updates /\ disturbed' = TRUE
    BY <2>1 DEF Write
  <2> HIDE DEF new
  <2> QED
    BY Zenon, <1>1, <1>6, <2>1, <2>3, <2>4, <2>5, <2>6
<1>10. ASSUME NEW e \in Named(applied, f.name), Rehash(f, e) PROVE TwiceInv'
    BY <1>7, <1>10 DEF Rehash
<1>11. ASSUME NEW old \in Names, Rename(f, old) PROVE TwiceInv'
  <2> DEFINE Moved(u) == [u EXCEPT !.name = f.name]
             new == {IF u.name = old THEN Moved(u) ELSE u : u \in Without(updates, {f.name})}
  <2>1. /\ Named(applied, f.name) = {} /\ old \in SameHash(f) /\ Named(tree, old) = {}
        /\ Write(new) /\ stage' = "walk" /\ todo' = Tail(todo)
        /\ applied' = Without(applied, {old})
        /\ UNCHANGED <<options, tree, fetched, settled>>
    BY <1>11 DEF Rename, optionVars
  <2>2. PICK e \in fetched : e.hash = f.hash /\ e.name = old
    BY <2>1 DEF SameHash
  <2>3. /\ \A u \in fetched : u.name = old => u.hash = f.hash
        /\ old # f.name
        /\ Distinct => e \in updates
    BY <1>1, <1>2, <2>1, <2>2 DEF Walking, Unique, Named
  <2>4. \A u \in updates : Moved(u).name = f.name /\ Moved(u).hash = u.hash
    BY <1>3 DEF Entries
  <2>5. Distinct => Good(f, new)
    <3> SUFFICES ASSUME Distinct PROVE Good(f, new)
      OBVIOUS
    <3>1. Moved(e) \in new
      BY SMTT(30), <2>2, <2>3 DEF Without
    <3> QED
      BY Zenon, <2>2, <2>3, <2>4, <3>1 DEF Good
  <2>6. Unique(new)
    <3> SUFFICES ASSUME NEW a \in new, NEW b \in new, a.name = b.name PROVE a = b
      BY SMTT(30) DEF Unique
    <3>1. PICK u \in updates : u.name # f.name /\ a = IF u.name = old THEN Moved(u) ELSE u
      BY DEF Without
    <3>2. PICK v \in updates : v.name # f.name /\ b = IF v.name = old THEN Moved(v) ELSE v
      BY DEF Without
    <3>3. u.name = v.name
      BY <2>4, <3>1, <3>2
    <3>4. u = v
      BY <1>1, <3>3 DEF Unique
    <3> QED
      BY <3>1, <3>2, <3>4
  <2>7. \A u : u.name # f.name /\ u.name # old => (u \in new <=> u \in updates)
    BY Zenon, <2>4 DEF Without
  <2>8. \/ updates' = new /\ disturbed' = disturbed
        \/ updates' = updates /\ disturbed' = TRUE
    BY Zenon, <2>1 DEF Write
  <2>9. /\ applied' \subseteq applied /\ Named(applied', f.name) = {}
        /\ \A u \in applied : u.name # f.name /\ Named(tree, u.name) # {} => u \in applied'
    BY <2>1 DEF Without, Named
  <2>10. f = Head(todo)
    BY DEF f
  <2> HIDE DEF new
  <2>11. /\ Unique(updates') /\ (disturbed => disturbed')
         /\ ~disturbed' /\ Distinct => Good(f, updates')
         /\ Good(f, updates) /\ Distinct => Good(f, updates')
         /\ \A u : u.name # f.name /\ u.name # old => (u \in updates' <=> u \in updates)
    BY <1>1, <2>5, <2>6, <2>7, <2>8
  <2> QED
    BY ZenonT(30), <1>1, <2>1, <2>3, <2>9, <2>10, <2>11, FileDone
<1>12. ASSUME Apply(f), stage = "walk" PROVE TwiceInv'
  <2>1. ~(Distinct /\ ~disturbed /\ settled = tree)
    BY <1>1, <1>12, NotAgain DEF f
  <2>2. /\ stage' = "record"
        /\ UNCHANGED <<options, tree, updates, todo, applied, fetched, disturbed, settled>>
    BY <1>12 DEF Apply, optionVars, localVars
  <2>3. \A g : Good(g, updates)' <=> Good(g, updates)
    BY Zenon, <2>2, GoodLater DEF Good
  <2>4. (Distinct' <=> Distinct) /\ \A n : Named(tree, n)' = Named(tree, n)
    BY <2>2 DEF Distinct, Named
  <2>5. Walking'
    BY Zenon, <1>1, <2>1, <2>2, <2>3, <2>4 DEF Walking, Unique
  <2> QED
    BY Zenon, <2>2, <2>3, <2>4, <2>5 DEF TwiceInv, Unique
<1> QED
    BY Zenon, <1>7, <1>8, <1>9, <1>10, <1>11, <1>12 DEF ApplyUpdateFile, f

\* The list that UpdateFetcher makes of the files: each is on it once.
LEMMA OnceOnTheList ==
    ASSUME tree \in Trees, NEW s \in InOrder(tree)
    PROVE  IsInjective(s) /\ Range(s) = tree
<1>1. IsFiniteSet(tree) /\ tree \subseteq Files /\ Names \subseteq Nat
    BY UpdaterAssumption
<1>2. Cardinality(tree) \in Nat
    BY Zenon, UpdaterAssumption
<1>3. /\ s \in [1 .. Cardinality(tree) -> tree] /\ Range(s) = tree
      /\ \A i, j \in DOMAIN s : i < j => Earlier(s[i], s[j])
    BY DEF InOrder
<1>4. \A g \in tree : g.name \in Nat /\ Pass(g) \in Nat
  <2> SUFFICES ASSUME NEW g \in tree PROVE g.name \in Nat /\ Pass(g) \in Nat
    OBVIOUS
  <2>1. g.name \in Names
    BY <1>1 DEF Files
  <2>2. Pass(g) \in Nat
    BY DEF Pass
  <2> QED
    BY Zenon, UpdaterAssumption, <2>1, <2>2
<1>5. \A g \in tree : ~Earlier(g, g)
    BY <1>4 DEF Earlier
<1>6. ASSUME NEW i \in DOMAIN s, NEW j \in DOMAIN s, s[i] = s[j] PROVE i = j
  <2>1. i \in Nat /\ j \in Nat /\ s[i] \in tree
    BY <1>2, <1>3
  <2>2. ~(i < j) /\ ~(j < i)
    BY <1>3, <1>5, <1>6, <2>1
  <2> QED
    BY <2>1, <2>2
<1> QED
    BY <1>3, <1>6 DEF IsInjective

\* The list and the map applied are filled.
LEMMA RetrieveStep ==
    ASSUME TwiceInv, UpdaterInv, Retrieve
    PROVE  TwiceInv'
<1>1. /\ UNCHANGED <<options, tree, updates, settled>> /\ stage' = "walk"
      /\ Unique(tree) /\ fetched' = applied' /\ todo' \in InOrder(tree)
      /\ applied' = updates \/ (applied' = {} /\ disturbed')
    BY DEF Retrieve, ReceiveAppliedFiles, optionVars, databaseVars
<1>2. PICK s : s = todo'
    OBVIOUS
<1>3. IsInjective(s) /\ Range(s) = tree
    BY <1>1, <1>2, OnceOnTheList DEF UpdaterInv, UpdaterTypes
<1>4. \A g : Good(g, updates)' <=> Good(g, updates)
    BY Zenon, <1>1, GoodLater DEF Good
<1>5. (Distinct' <=> Distinct) /\ Unique(updates)' /\ Unique(tree)'
    BY Zenon, <1>1 DEF Distinct, TwiceInv, Unique
<1>6. Unique(fetched') /\ applied' \subseteq updates
    BY <1>1 DEF Unique, TwiceInv
<1>7. ASSUME Distinct, ~disturbed', settled = tree, NEW g \in tree PROVE Good(g, applied)'
  <2>1. Good(g, updates) /\ applied' = updates
    BY <1>1, <1>7 DEF TwiceInv
  <2>2. Good(g, updates)'
    BY <1>4, <2>1
  <2> QED
    BY Zenon, <1>1, <2>1, <2>2 DEF Good
<1>8. Walking'
  <2>1. IsInjective(todo') /\ Range(todo') = tree
    BY <1>2, <1>3
  <2>2. tree' \ Range(todo') = {} /\ Range(todo') \subseteq tree'
    BY <1>1, <2>1
  <2> QED
    BY Zenon, <1>1, <1>5, <1>6, <1>7, <2>1, <2>2 DEF Walking
<1> QED
    BY <1>1, <1>4, <1>5, <1>8 DEF TwiceInv

\* CleanUp removes no row of a file of the tree, and what it completes is settled.
LEMMA CleanUpStep ==
    ASSUME TwiceInv, UpdaterInv, CleanUp
    PROVE  TwiceInv'
<1>1. /\ UNCHANGED <<options, tree>> /\ stage' = "ok" /\ Walking /\ todo = <<>>
      /\ settled' = IF disturbed' THEN NoTree ELSE tree
    BY Zenon DEF CleanUp, TwiceInv, optionVars
<1>2. Range(todo) = {}
    BY <1>1 DEF Range
<1>3. /\ disturbed => disturbed'
      /\ updates' \subseteq updates
      /\ \A e \in updates : e.name \in {u.name : u \in applied} \/ e \in updates'
    BY DEF CleanUp, Write, Without
<1>4. PICK new : new = updates'
    OBVIOUS
<1>5. \A g : Good(g, updates)' <=> Good(g, new)
    BY Zenon, <1>1, <1>4, GoodLater DEF Good
<1>6. Unique(new) /\ (Distinct' <=> Distinct)
    BY Zenon, <1>1, <1>3, <1>4 DEF TwiceInv, Unique, Distinct
<1>7. ASSUME Distinct, ~disturbed', NEW g \in tree PROVE Good(g, new)
  <2>1. Good(g, updates)
    BY Zenon, <1>1, <1>2, <1>3, <1>7 DEF Walking
  <2>2. g.name \notin {u.name : u \in applied}
    BY Zenon, <1>1, <1>2, <1>7 DEF Walking
  <2> QED
    BY Zenon, <1>3, <1>4, <2>1, <2>2 DEF Good
<1>8. settled' = tree' => ~disturbed'
    BY Zenon, <1>1, UpdaterAssumption DEF UpdaterInv, UpdaterTypes
<1>9. Unique(tree')
    BY Zenon, <1>1 DEF Walking
<1>10. settled' \in {NoTree, tree'}
    BY <1>1
<1>11. Unique(updates)'
    BY <1>4, <1>6 DEF Unique
<1>12. settled' = tree' => Unique(tree)' /\ (Distinct' => \A g \in tree' : Good(g, updates)')
    BY <1>1, <1>5, <1>6, <1>7, <1>8, <1>9 DEF Unique
<1> QED
    BY <1>1, <1>10, <1>11, <1>12 DEF TwiceInv

\* The next start, of the same tree or another one.
LEMMA BeginStartStep ==
    ASSUME TwiceInv, UpdaterInv, BeginStart
    PROVE  TwiceInv'
<1>1. /\ UNCHANGED <<options, updates, stage>> /\ stage = "off" /\ tree' \in Trees
      /\ settled' = IF tree' = settled THEN settled ELSE NoTree
    BY DEF BeginStart, Load, databaseVars, UpdaterInv
<1>2. settled' \in {NoTree, tree'} /\ (settled' = tree' => settled = tree /\ tree' = tree)
    BY <1>1, UpdaterAssumption DEF TwiceInv
<1>3. \A g : Good(g, updates)' <=> Good(g, updates)
    BY Zenon, <1>1, GoodLater DEF Good
<1>4. settled' = tree' => Unique(tree)' /\ (Distinct' => \A g \in tree' : Good(g, updates)')
  <2> SUFFICES ASSUME settled' = tree'
               PROVE  Unique(tree)' /\ (Distinct' => \A g \in tree' : Good(g, updates)')
    OBVIOUS
  <2>1. settled = tree /\ tree' = tree
    BY <1>2
  <2>2. Distinct' <=> Distinct
    BY <2>1 DEF Distinct
  <2> QED
    BY Zenon, <1>3, <2>1, <2>2 DEF TwiceInv, Unique
<1> QED
    BY Zenon, <1>1, <1>2, <1>4 DEF TwiceInv, Unique

\* A step of the start-up.
LEMMA TwiceStep ==
    ASSUME TwiceInv, UpdaterInv, [StartNext]_startVars
    PROVE  TwiceInv'
<1>1. CASE BeginStart
    BY <1>1, BeginStartStep
<1>2. CASE Open \/ Prepare \/ NotPrepare \/ Close
  <2>1. UNCHANGED updaterVars /\ stage = "off"
    BY Zenon, <1>2
       DEF Open, Prepare, NotPrepare, Close, Prepared, NotPrepared, CloseAllConnections, UpdaterInv
  <2> QED
    BY <2>1, NotWalking DEF updaterVars, optionVars, databaseVars
<1>3. CASE BeginStep
  <2>1. /\ stage' \in {"populate", "update"} /\ UNCHANGED <<options, tree, updates, settled>>
    BY <1>3 DEF BeginStep, optionVars, databaseVars
  <2> QED
    BY <2>1, NotWalking
<1>4. CASE EndStep
    BY Zenon, <1>4, NotWalking DEF EndStep, optionVars, databaseVars
<1>5. CASE End
    BY <1>5, NotWalking DEF End, optionVars, databaseVars
<1>6. CASE Populate
  <2>1. stage' \in {"populated", "failed"} /\ UNCHANGED <<options, tree, updates, settled>>
    BY <1>6 DEF Populate, optionVars
  <2> QED
    BY <2>1, NotWalking
<1>7. CASE CheckUpdateTable
    BY <1>7, NotWalking DEF CheckUpdateTable, optionVars
<1>8. CASE Fail
    BY <1>8, NotWalking DEF Fail, optionVars, databaseVars
<1>9. CASE Retrieve
    BY <1>9, RetrieveStep
<1>10. CASE ApplyUpdateFile
    BY <1>10, WalkStep
<1>11. CASE CleanUp
    BY <1>11, CleanUpStep
<1>12. CASE UNCHANGED startVars
  <2>1. UNCHANGED <<options, tree, updates, settled, stage, todo, applied, fetched, disturbed>>
    BY <1>12 DEF startVars, updaterVars, optionVars, databaseVars, localVars
  <2>2. \A g : Good(g, updates)' <=> Good(g, updates)
    BY Zenon, <2>1, GoodLater DEF Good
  <2>3. \A g : Good(g, applied)' <=> Good(g, applied)
    BY Zenon, <2>1, GoodLater DEF Good
  <2>4. (Distinct' <=> Distinct) /\ \A n : Named(tree, n)' = Named(tree, n)
    BY <2>1 DEF Distinct, Named
  <2>5. Walking => Walking'
    BY Zenon, <2>1, <2>2, <2>3, <2>4 DEF Walking, Unique
  <2> QED
    BY Zenon, <2>1, <2>2, <2>4, <2>5 DEF TwiceInv, Unique
<1> QED
    BY Zenon, <1>1, <1>2, <1>3, <1>4, <1>5, <1>6, <1>7, <1>8, <1>9, <1>10, <1>11, <1>12
    DEF StartNext, Work, UpdaterNext

\* The first start has settled nothing.
LEMMA TwiceStart == StartInit => TwiceInv
<1> SUFFICES ASSUME StartInit PROVE TwiceInv
  OBVIOUS
<1>1. Unique(updates) /\ settled = NoTree /\ tree # NoTree /\ stage = "off"
    BY Zenon, StartUpAssumption, UpdaterAssumption DEF StartInit
<1> QED
    BY <1>1 DEF TwiceInv

\* What a completed start has recorded still keeps the next one from applying it, in every
\* state of every start.
THEOREM TwiceInvariance == StartSpec => [](UpdaterInv /\ TwiceInv)
<1>1. UpdaterInv /\ TwiceInv /\ [StartNext]_startVars => (UpdaterInv /\ TwiceInv)'
    BY UpdaterStep, TwiceStep
<1> QED
    BY UpdaterStart, TwiceStart, <1>1, PTL DEF StartSpec

\* UpdateFetcher::Update applies nothing at a start with the files of the last one, if that
\* was completed, no database call has failed in either, and no two files are copies: for any
\* files, options, histories and number of starts, over renames, changed contents, moves
\* between directories and the removal of rows without a file.
THEOREM UpdatesNothingTwice == StartSpec => NothingTwice
<1> DEFINE Again == settled = tree /\ ~disturbed /\ \A f, g \in tree : f.hash = g.hash => f = g
<1>1. ASSUME UpdaterInv, TwiceInv, [StartNext]_startVars
      PROVE  [effects' # effects \/ stage' = "record" => ~Again]_updaterVars
  <2>1. CASE ApplyUpdateFile
    <3>1. CASE stage = "walk" /\ Apply(Head(todo)) /\ todo # <<>>
      <4>1. Walking /\ todo \in Seq(Files)
        BY <1>1, <3>1 DEF TwiceInv, UpdaterInv, UpdaterTypes
      <4> QED
        BY <3>1, <4>1, NotAgain DEF Distinct
    <3>2. CASE ~(stage = "walk" /\ Apply(Head(todo)) /\ todo # <<>>)
      <4>1. stage' = "walk" /\ effects' = effects
        BY Zenon, <2>1, <3>2 DEF ApplyUpdateFile, Skip, UpdateState, Rehash, Rename, Done
      <4> QED
        BY <4>1
    <3> QED
      BY <3>1, <3>2
  <2>2. CASE UNCHANGED startVars
    BY <2>2 DEF startVars
  <2>3. CASE ~ApplyUpdateFile /\ StartNext
    <3>1. (effects' = effects /\ stage' # "record") \/ UNCHANGED updaterVars
      <4>1. CASE BeginStart
        BY Zenon, <1>1, <4>1 DEF BeginStart, Load, databaseVars, UpdaterInv
      <4>2. CASE Open \/ Prepare \/ NotPrepare \/ Close
        BY Zenon, <4>2 DEF Open, Prepare, NotPrepare, Close
      <4>3. CASE BeginStep \/ EndStep \/ End
        BY <4>3 DEF BeginStep, EndStep, End, databaseVars
      <4>4. CASE Populate \/ CheckUpdateTable \/ Retrieve \/ CleanUp \/ Fail
        BY Zenon, <4>4 DEF Populate, CheckUpdateTable, Retrieve, CleanUp, Fail, databaseVars
      <4> QED
        BY <2>3, <4>1, <4>2, <4>3, <4>4 DEF StartNext, Work, UpdaterNext
    <3> QED
      BY <3>1
  <2> QED
    BY <1>1, <2>1, <2>2, <2>3
<1> QED
    BY <1>1, TwiceInvariance, PTL DEF StartSpec, NothingTwice

-------------------------------------------------------------------------------
PoolSet == Range(Pools)
IsOpen(p) == conns[p].async > 0 /\ conns[p].sync = 1

MgrTypes == /\ phase \in {"open", "populate", "update", "prepare", "running", "down", "failed"}
            /\ conns \in [PoolSet -> [async : Nat, sync : {0, 1}]]
            /\ close \in Seq(PoolSet)
            /\ poolList \subseteq PoolSet

\* While the pools are opened: each is either open and registered, or still in the queue,
\* and only of the first of the queue an attempt may have left a connection behind.
OpenInv == /\ poolQueue \in Seq(PoolSet) /\ poolQueue # <<>> /\ IsInjective(poolQueue)
           /\ \A p \in PoolSet : p \in Range(close) <=> p \notin Range(poolQueue)
           /\ \A p \in Range(close) : IsOpen(p)
           /\ \A p \in Range(poolQueue) : /\ conns[p].sync = 0
                                          /\ p # Head(poolQueue) => conns[p] = NoConns

AllOpen == /\ Range(close) = PoolSet
           /\ \A p \in PoolSet : IsOpen(p)

\* While the statements are prepared: the pools that are not in the queue are in _poolList.
PrepareInv == /\ poolQueue \in Seq(PoolSet) /\ poolQueue # <<>>
              /\ \A p \in PoolSet : p \in poolList \/ p \in Range(poolQueue)

\* The strengthening of OpenIsRegistered, FailureCloses and RunningIsReady.
MgrInv == /\ MgrTypes
          /\ OpenIsRegistered /\ FailureCloses
          /\ phase = "down" => \A p \in PoolSet : conns[p] = NoConns
          /\ phase = "down" => close = <<>>
          /\ phase = "open" => OpenInv
          /\ phase \in {"populate", "update", "prepare", "running"} => AllOpen
          /\ phase = "prepare" => PrepareInv
          /\ phase = "running" => poolList = PoolSet
          /\ Enabled \cap poolList # {} => Players \subseteq tables
          /\ stage # "off" => phase \in {"populate", "update"}

-------------------------------------------------------------------------------
\* The first phase after a given one that has something to do.
LEMMA SkippingFacts ==
    /\ Skipping(2) \in 2 .. 4 /\ Skipping(3) \in 3 .. 4 /\ Skipping(4) = 4 /\ Skipping(5) = 5
<1> DEFINE Q(j) == QueueOf(Phases[j]) # <<>>
           IsNext(i, j) == /\ Q(j) \/ j = 5
                           /\ \A k \in i .. j - 1 : ~Q(k)
<1>1. Len(Phases) = 5 /\ Q(4)
  BY DatabaseMgrAssumption DEF Phases, QueueOf
<1> HIDE DEF Q
<1>2. \A i \in 2 .. 5 : Skipping(i) = CHOOSE j \in i .. 5 : IsNext(i, j)
  BY Zenon, <1>1 DEF Skipping, Q
<1>3. \A i \in 2 .. 5 : \E j \in i .. 5 : IsNext(i, j)
  <2>1. IsNext(5, 5) /\ IsNext(4, 4)
    BY <1>1
  <2>2. \E j \in {3, 4} : IsNext(3, j)
    <3>1. CASE Q(3)
      BY <3>1
    <3>2. CASE ~Q(3)
      BY <1>1, <3>2
    <3> QED
      BY <3>1, <3>2
  <2>3. \E j \in {2, 3, 4} : IsNext(2, j)
    <3>1. CASE Q(2)
      BY <3>1
    <3>2. CASE ~Q(2) /\ Q(3)
      BY <1>1, <3>2
    <3>3. CASE ~Q(2) /\ ~Q(3)
      BY <1>1, <3>3
    <3> QED
      BY <3>1, <3>2, <3>3
  <2>4. ASSUME NEW i \in 2 .. 5 PROVE i = 2 \/ i = 3 \/ i = 4 \/ i = 5
    OBVIOUS
  <2> QED
    BY <2>1, <2>2, <2>3, <2>4
<1>4. \A i \in 2 .. 5 : Skipping(i) \in i .. 5 /\ IsNext(i, Skipping(i))
  <2> HIDE DEF IsNext
  <2> QED
    BY <1>2, <1>3
<1> QED
  BY <1>1, <1>4

\* Process goes on to the next pool, or to the next phase.
LEMMA PopFacts ==
    ASSUME Pop, phase \in {"open", "populate", "update", "prepare"}
    PROVE  \/ Len(poolQueue) > 1 /\ poolQueue' = Tail(poolQueue) /\ phase' = phase
           \/ /\ ~(Len(poolQueue) > 1) /\ phase # "prepare"
              /\ phase' \in {"populate", "update", "prepare"}
              /\ phase' = "prepare" => poolQueue' = Pools
           \/ ~(Len(poolQueue) > 1) /\ phase = "prepare" /\ phase' = "running"
<1> DEFINE i == CHOOSE i \in DOMAIN Phases : Phases[i] = phase
           next == Skipping(1 + i)
<1>1. CASE Len(poolQueue) > 1
  BY <1>1 DEF Pop
<1>2. CASE ~(Len(poolQueue) > 1)
  <2>1. phase' = Phases[next] /\ poolQueue' = QueueOf(Phases[next])
    BY <1>2 DEF Pop
  <2>2. i \in 1 .. 4 /\ Phases[i] = phase
    BY DEF Phases
  <2>3. \/ phase # "prepare" /\ next \in 2 .. 4
        \/ phase = "prepare" /\ next = 5
    <3> HIDE DEF i
    <3>1. i = 1 \/ i = 2 \/ i = 3 \/ i = 4
      BY <2>2
    <3>2. phase = "prepare" <=> i = 4
      BY <2>2, <3>1 DEF Phases
    <3> QED
      BY <3>1, <3>2, SkippingFacts
  <2> HIDE DEF next
  <2>4. CASE phase # "prepare"
    <3>1. next = 2 \/ next = 3 \/ next = 4
      BY <2>3, <2>4
    <3>2. Phases[2] = "populate" /\ Phases[3] = "update" /\ Phases[4] = "prepare"
      BY DEF Phases
    <3>3. QueueOf("prepare") = Pools
      BY DEF QueueOf
    <3> QED
      BY <1>2, <2>1, <2>4, <3>1, <3>2, <3>3
  <2>5. CASE phase = "prepare"
    BY <1>2, <2>1, <2>3, <2>5 DEF Phases
  <2> QED
    BY <2>4, <2>5
<1> QED
  BY <1>1, <1>2

\* A queue of pools and its rest.
LEMMA QueueFacts ==
    ASSUME NEW q \in Seq(PoolSet), q # <<>>
    PROVE  /\ Head(q) \in PoolSet /\ Head(q) \in Range(q)
           /\ Tail(q) \in Seq(PoolSet) /\ (Len(q) > 1 => Tail(q) # <<>>)
           /\ \A p \in Range(q) : p = Head(q) \/ (Len(q) > 1 /\ p \in Range(Tail(q)))
           /\ Range(Tail(q)) \subseteq Range(q)
           /\ IsInjective(q) => IsInjective(Tail(q)) /\ Head(q) \notin Range(Tail(q))
<1>1. /\ Head(q) \in PoolSet /\ Tail(q) \in Seq(PoolSet) /\ (Len(q) > 1 => Tail(q) # <<>>)
      /\ Len(q) \in Nat \ {0} /\ Head(q) = q[1] /\ DOMAIN q = 1 .. Len(q)
  BY SMTT(30)
<1>2. /\ DOMAIN Tail(q) = 1 .. Len(q) - 1
      /\ \A i \in 1 .. Len(q) - 1 : Tail(q)[i] = q[i + 1]
  OBVIOUS
<1>3. ASSUME NEW i \in 1 .. Len(q), i # 1
      PROVE  Len(q) > 1 /\ i - 1 \in 1 .. Len(q) - 1 /\ Tail(q)[i - 1] = q[i]
  BY <1>1, <1>2, <1>3
<1>4. \A p \in Range(q) : p = Head(q) \/ (Len(q) > 1 /\ p \in Range(Tail(q)))
  <2> SUFFICES ASSUME NEW i \in 1 .. Len(q), i # 1
               PROVE  Len(q) > 1 /\ q[i] \in Range(Tail(q))
    BY Zenon, <1>1 DEF Range
  <2> QED
    BY Zenon, <1>2, <1>3 DEF Range
<1>5. Range(Tail(q)) \subseteq Range(q) /\ Head(q) \in Range(q)
  BY <1>1, <1>2 DEF Range
<1>6. ASSUME IsInjective(q) PROVE IsInjective(Tail(q)) /\ Head(q) \notin Range(Tail(q))
  BY SMTT(30), <1>1, <1>2, <1>6 DEF IsInjective, Range
<1> QED
  BY <1>1, <1>4, <1>5, <1>6

\* Process fails: what is registered is closed, and nothing else may be open.
LEMMA FailedFacts ==
    ASSUME MgrInv, NEW now \in [PoolSet -> [async : Nat, sync : {0, 1}]], Failed(now),
           \A p \in PoolSet : \/ p \in Range(close) \/ now[p] = NoConns
                              \/ poolQueue # <<>> /\ p = Head(poolQueue) /\ now[p].sync = 0,
           stage' = "off", UNCHANGED tables
    PROVE  MgrInv'
<1>1. /\ phase' = "failed" /\ close' = <<>> /\ UNCHANGED <<poolQueue, poolList>>
      /\ conns' = [p \in PoolSet |-> IF p \in Range(close) THEN NoConns ELSE now[p]]
  BY DEF Failed
<1>2. MgrTypes'
  BY <1>1 DEF MgrInv, MgrTypes, NoConns
<1>3. FailureCloses'
  BY Zenon, <1>1 DEF FailureCloses, PoolSet, NoConns
<1>4. OpenIsRegistered'
  <2>1. \A p \in PoolSet : conns'[p].sync = 0
    BY <1>1 DEF NoConns
  <2> QED
    BY <1>1, <2>1 DEF OpenIsRegistered, IsInjective, PoolSet
<1> QED
  BY Zenon, <1>1, <1>2, <1>3, <1>4 DEF MgrInv

\* One more pool is registered to be closed.
LEMMA RegisterFacts ==
    ASSUME NEW p \in PoolSet, close \in Seq(PoolSet), IsInjective(close), p \notin Range(close)
    PROVE  LET now == Append(close, p)
           IN  now \in Seq(PoolSet) /\ IsInjective(now) /\ Range(now) = Range(close) \cup {p}
<1> DEFINE now == Append(close, p)
<1>1. /\ now \in Seq(PoolSet) /\ DOMAIN now = 1 .. Len(close) + 1 /\ now[Len(close) + 1] = p
      /\ DOMAIN close = 1 .. Len(close) /\ Len(close) \in Nat
      /\ \A i \in 1 .. Len(close) : now[i] = close[i]
  OBVIOUS
<1> HIDE DEF now
<1>2. IsInjective(now)
  BY <1>1 DEF IsInjective, Range
<1>3. Range(now) = Range(close) \cup {p}
  BY <1>1 DEF Range
<1> QED
  BY Zenon, <1>1, <1>2, <1>3 DEF now

\* The pool at the front of the queue was opened.
LEMMA OpenedStep == MgrInv /\ Opened /\ UNCHANGED updaterVars => MgrInv'
<1> SUFFICES ASSUME MgrInv, Opened, UNCHANGED updaterVars PROVE MgrInv'
  OBVIOUS
<1> DEFINE p == Head(poolQueue)
<1>1. /\ phase = "open" /\ OpenInv /\ MgrTypes /\ IsInjective(close)
      /\ p \in PoolSet /\ p \in Range(poolQueue) /\ p \notin Range(close)
  BY Zenon, QueueFacts DEF Opened, MgrInv, OpenInv, OpenIsRegistered
<1>2. /\ conns' = [conns EXCEPT ![p] = [async |-> @.async + 1, sync |-> 1]]
      /\ close' = Append(close, p) /\ Pop /\ UNCHANGED <<poolList, tables, stage>>
  BY Zenon DEF Opened, updaterVars, databaseVars
<1>3. close' \in Seq(PoolSet) /\ IsInjective(close') /\ Range(close') = Range(close) \cup {p}
  BY Zenon, <1>1, <1>2, RegisterFacts DEF MgrTypes
<1>4. conns' \in [PoolSet -> [async : Nat, sync : {0, 1}]]
  BY <1>1, <1>2 DEF MgrTypes
<1>5. \A c \in Range(close') : IsOpen(c)'
  <2>2. ASSUME NEW c \in Range(close) PROVE IsOpen(c)'
    <3>1. c \in PoolSet /\ c # p /\ IsOpen(c)
      BY SMTT(30), <1>1, <2>2 DEF MgrTypes, OpenInv, Range
    <3> QED
      BY Zenon, <1>1, <1>2, <3>1 DEF MgrTypes, IsOpen
  <2>3. ASSUME NEW c \in Range(close'), c = p PROVE IsOpen(c)'
    BY <1>1, <1>2, <2>3 DEF MgrTypes, IsOpen
  <2> QED
    BY <1>3, <2>2, <2>3
<1>6. \A c \in PoolSet : c \notin Range(close') => conns'[c] = NoConns
  <2> SUFFICES ASSUME NEW c \in PoolSet, c \notin Range(close') PROVE conns'[c] = NoConns
    OBVIOUS
  <2>1. c # p /\ c \in Range(poolQueue)
    BY Zenon, <1>1, <1>3 DEF OpenInv
  <2> QED
    BY Zenon, <1>1, <1>2, <2>1 DEF OpenInv, MgrTypes
<1>7. OpenIsRegistered'
  BY <1>3, <1>6 DEF OpenIsRegistered, NoConns, PoolSet
<1>8. stage = "off"
  BY <1>1 DEF MgrInv
<1>9. CASE Len(poolQueue) > 1 /\ poolQueue' = Tail(poolQueue) /\ phase' = phase
  <2>1. /\ poolQueue' \in Seq(PoolSet) /\ poolQueue' # <<>> /\ IsInjective(poolQueue')
        /\ p \notin Range(poolQueue') /\ Range(poolQueue') \subseteq Range(poolQueue)
        /\ \A c \in Range(poolQueue) : c = p \/ c \in Range(poolQueue')
    BY Zenon, <1>1, <1>9, QueueFacts DEF OpenInv
  <2>2. \A c \in PoolSet : c \in Range(close') <=> c \notin Range(poolQueue')
    BY Zenon, <1>1, <1>3, <2>1 DEF OpenInv
  <2>3. Range(poolQueue') \subseteq PoolSet
    BY <2>1 DEF Range
  <2>4. \A c \in Range(poolQueue') : conns'[c] = NoConns
    BY Zenon, <1>6, <2>2, <2>3
  <2>5. OpenInv'
    BY <1>5, <2>1, <2>2, <2>4 DEF OpenInv, NoConns
  <2> QED
    BY Zenon, <1>1, <1>2, <1>3, <1>4, <1>7, <1>8, <1>9, <2>5 DEF MgrInv, MgrTypes, FailureCloses
<1>10. CASE /\ ~(Len(poolQueue) > 1) /\ phase' \in {"populate", "update", "prepare"}
            /\ phase' = "prepare" => poolQueue' = Pools
  <2>1. \A c \in Range(poolQueue) : c = p
    BY Zenon, <1>1, <1>10, QueueFacts DEF OpenInv
  <2>2. Range(close') = PoolSet
    <3>1. Range(close') \subseteq PoolSet
      BY <1>3 DEF Range
    <3> QED
      BY Zenon, <1>1, <1>3, <2>1, <3>1 DEF OpenInv
  <2>3. AllOpen'
    BY <1>5, <2>2 DEF AllOpen
  <2>4. phase' = "prepare" => PrepareInv'
    BY <1>10, DatabaseMgrAssumption DEF PrepareInv, PoolSet
  <2> QED
    BY Zenon, <1>1, <1>2, <1>3, <1>4, <1>7, <1>8, <1>10, <2>3, <2>4
       DEF MgrInv, MgrTypes, FailureCloses
<1> QED
  BY Zenon, <1>1, <1>2, <1>9, <1>10, PopFacts

\* Open has failed: the server is tried again, the database is created, or Process fails.
LEMMA NotOpenedStep ==
    ASSUME NEW error, NEW half \in BOOLEAN, MgrInv, NotOpened(error, half), UNCHANGED updaterVars
    PROVE  MgrInv'
<1> DEFINE p == Head(poolQueue)
           now == [conns EXCEPT ![p].async = IF half THEN @ + 1 ELSE @]
<1>1. /\ phase = "open" /\ OpenInv /\ MgrTypes /\ stage = "off"
      /\ p \in PoolSet /\ p \in Range(poolQueue) /\ UNCHANGED <<tables, stage>>
  BY QueueFacts DEF NotOpened, MgrInv, OpenInv, updaterVars, databaseVars
<1>2. /\ now \in [PoolSet -> [async : Nat, sync : {0, 1}]]
      /\ \A c \in PoolSet : /\ now[c].sync = conns[c].sync
                            /\ c # p => now[c] = conns[c]
  BY SMTT(30), <1>1 DEF MgrTypes
<1> HIDE DEF now
<1>3. CASE Failed(now)
  <2>1. ASSUME NEW c \in PoolSet, c \notin Range(close)
        PROVE  now[c] = NoConns \/ (poolQueue # <<>> /\ c = p /\ now[c].sync = 0)
    BY Zenon, <1>1, <1>2, <2>1 DEF OpenInv
  <2> QED
    BY Zenon, <1>1, <1>2, <1>3, <2>1, FailedFacts
<1>4. CASE conns' = now /\ UNCHANGED <<phase, poolQueue, close, poolList>>
  <2>1. \A c \in Range(close) : IsOpen(c)'
    <3> SUFFICES ASSUME NEW c \in Range(close) PROVE IsOpen(c)'
      OBVIOUS
    <3>1. c \in PoolSet /\ IsOpen(c) /\ c # p
      BY SMTT(30), <1>1 DEF OpenInv, MgrTypes, Range
    <3> QED
      BY Zenon, <1>2, <1>4, <3>1 DEF IsOpen
  <2>2. \A c \in Range(poolQueue) : c \in PoolSet
    BY <1>1 DEF OpenInv, Range
  <2>3. OpenInv'
    BY Zenon, <1>1, <1>2, <1>4, <2>1, <2>2 DEF OpenInv
  <2>4. OpenIsRegistered'
    BY Zenon, <1>2, <1>4 DEF MgrInv, OpenIsRegistered, PoolSet
  <2> QED
    BY Zenon, <1>1, <1>2, <1>4, <2>3, <2>4 DEF MgrInv, MgrTypes, FailureCloses
<1> QED
  BY <1>3, <1>4 DEF NotOpened, now

\* A step of the start-up.
LEMMA MgrStep == MgrInv /\ [StartNext]_startVars => MgrInv'
<1> SUFFICES ASSUME MgrInv, [StartNext]_startVars PROVE MgrInv'
  OBVIOUS
<1>a. ASSUME UNCHANGED mgrVars, tables \subseteq tables',
             stage' # "off" => phase \in {"populate", "update"}
      PROVE  MgrInv'
  BY Zenon, <1>a
     DEF mgrVars, MgrInv, MgrTypes, OpenIsRegistered, FailureCloses, OpenInv, AllOpen, PrepareInv, IsOpen
<1>b. conns \in [PoolSet -> [async : Nat, sync : {0, 1}]]
  BY DEF MgrInv, MgrTypes
<1>1. CASE BeginStart
  <2>1. /\ phase = "down" /\ phase' = "open" /\ poolQueue' = Pools
        /\ UNCHANGED <<conns, close, poolList, stage, tables>>
    BY <1>1 DEF BeginStart, Load, QueueOf, databaseVars
  <2>2. close = <<>> /\ \A p \in PoolSet : conns[p] = NoConns
    BY <2>1 DEF MgrInv
  <2>3. Range(close) = {}
    BY <2>2 DEF Range
  <2>4. OpenInv'
    <3>1. Pools \in Seq(PoolSet) /\ Pools # <<>> /\ IsInjective(Pools) /\ Range(Pools) = PoolSet
      BY DatabaseMgrAssumption DEF PoolSet
    <3>2. \A p \in PoolSet : conns[p] = NoConns /\ conns[p].sync = 0
      BY <2>2 DEF NoConns
    <3> QED
      BY Zenon, <2>1, <2>3, <3>1, <3>2 DEF OpenInv
  <2> QED
    BY Zenon, <2>1, <2>4 DEF MgrInv, MgrTypes, OpenIsRegistered, FailureCloses
<1>2. CASE Open
  <2>1. UNCHANGED updaterVars
    BY <1>2 DEF Open
  <2>2. CASE Opened
    BY <2>1, <2>2, OpenedStep
  <2>3. ASSUME NEW half \in BOOLEAN, NEW error, NotOpened(error, half) PROVE MgrInv'
    BY <2>1, <2>3, NotOpenedStep
  <2> QED
    BY Zenon, <1>2, <2>2, <2>3 DEF Open
<1>3. CASE BeginStep
  BY <1>3, <1>a DEF BeginStep, databaseVars
<1>4. CASE EndStep
  <2>1. /\ phase \in {"populate", "update"} /\ AllOpen /\ stage' = "off" /\ UNCHANGED tables
    BY Zenon, <1>4 DEF EndStep, MgrInv, databaseVars
  <2>2. CASE stage = "failed"
    BY Zenon, <1>4, <1>b, <2>1, <2>2, FailedFacts DEF EndStep, AllOpen
  <2>3. CASE stage # "failed"
    <3>1. Pop /\ UNCHANGED <<conns, close, poolList>>
      BY Zenon, <1>4, <2>3 DEF EndStep
    <3>2. /\ phase' \in {"populate", "update", "prepare"}
          /\ phase' = "prepare" => poolQueue' = Pools
      BY Zenon, <2>1, <3>1, PopFacts
    <3>3. phase' = "prepare" => PrepareInv'
      BY <3>2, DatabaseMgrAssumption DEF PrepareInv, PoolSet
    <3> QED
      BY Zenon, <2>1, <3>1, <3>2, <3>3
         DEF MgrInv, MgrTypes, OpenIsRegistered, FailureCloses, AllOpen, IsOpen
  <2> QED
    BY <2>2, <2>3
<1>5. CASE Prepare
  <2> DEFINE p == Head(poolQueue)
  <2>1. /\ phase = "prepare" /\ PrepareInv /\ AllOpen /\ p \in PoolSet /\ stage = "off"
        /\ poolList' = poolList \cup {p} /\ Pop /\ UNCHANGED <<conns, close, tables, stage>>
        /\ p \in Enabled => Players \subseteq tables
    BY Zenon, <1>5, QueueFacts DEF Prepare, Prepared, MgrInv, PrepareInv, updaterVars, databaseVars
  <2>2. Enabled \cap poolList' # {} => Players \subseteq tables
    BY Zenon, <2>1 DEF MgrInv
  <2>3. poolList' \subseteq PoolSet
    BY Zenon, <2>1 DEF MgrInv, MgrTypes
  <2>4. CASE Len(poolQueue) > 1 /\ poolQueue' = Tail(poolQueue) /\ phase' = phase
    <3>1. PrepareInv'
      BY Zenon, <2>1, <2>4, QueueFacts DEF PrepareInv
    <3> QED
      BY Zenon, <2>1, <2>2, <2>3, <2>4, <3>1
         DEF MgrInv, MgrTypes, OpenIsRegistered, FailureCloses, AllOpen, IsOpen
  <2>5. CASE ~(Len(poolQueue) > 1) /\ phase' = "running"
    <3>1. poolList' = PoolSet
      BY Zenon, <2>1, <2>3, <2>5, QueueFacts DEF PrepareInv
    <3> QED
      BY Zenon, <2>1, <2>2, <2>3, <2>5, <3>1
         DEF MgrInv, MgrTypes, OpenIsRegistered, FailureCloses, AllOpen, IsOpen
  <2> QED
    BY Zenon, <2>1, <2>4, <2>5, PopFacts
<1>6. CASE NotPrepare \/ Close
  <2>1. /\ AllOpen /\ stage' = "off" /\ UNCHANGED tables
        /\ \/ Failed(conns)
           \/ Head(poolQueue) \in PoolSet /\ Failed([conns EXCEPT ![Head(poolQueue)] = NoConns])
    BY Zenon, <1>6, QueueFacts
       DEF NotPrepare, NotPrepared, Close, CloseAllConnections, MgrInv, PrepareInv,
                            updaterVars, databaseVars
  <2>2. [conns EXCEPT ![Head(poolQueue)] = NoConns] \in [PoolSet -> [async : Nat, sync : {0, 1}]]
    BY ZenonT(30), <1>b DEF NoConns
  <2> QED
    BY Zenon, <1>b, <2>1, <2>2, FailedFacts DEF AllOpen
<1>7. CASE End
  <2>1. /\ phase' = "down" /\ close' = <<>> /\ poolList' = {} /\ stage' = "off"
        /\ conns' = [p \in PoolSet |-> NoConns]
    BY <1>7 DEF End, ProcessEnds, PoolSet
  <2> QED
    BY <2>1 DEF MgrInv, MgrTypes, OpenIsRegistered, FailureCloses, IsInjective, NoConns, PoolSet
<1>8. CASE UpdaterNext /\ UNCHANGED <<mgrVars, exists>>
  <2>1. stage # "off"
    BY Zenon, <1>8 DEF UpdaterNext, Populate, CheckUpdateTable, Retrieve, ApplyUpdateFile, CleanUp
  <2>2. tables \subseteq tables'
    BY Zenon, <1>8
       DEF UpdaterNext, Populate, CheckUpdateTable, Retrieve, ApplyUpdateFile, CleanUp, Fail,
                Skip, UpdateState, Rehash, Rename, Apply, Done, databaseVars
  <2> QED
    BY Zenon, <1>8, <1>a, <2>1, <2>2 DEF MgrInv
<1>9. CASE UNCHANGED startVars
  BY Zenon, <1>9, <1>a DEF startVars, updaterVars, databaseVars, MgrInv
<1> QED
  BY SMTT(30), <1>1, <1>2, <1>3, <1>4, <1>5, <1>6, <1>7, <1>8, <1>9 DEF StartNext, Work

\* Before the first start there is nothing to close.
LEMMA MgrStart == StartInit => MgrInv
<1> SUFFICES ASSUME StartInit PROVE MgrInv
    OBVIOUS
<1>1. /\ phase = "down" /\ close = <<>> /\ poolList = {} /\ stage = "off"
      /\ conns = [p \in PoolSet |-> NoConns]
    BY Zenon DEF StartInit, MgrInit, PoolSet
<1>2. MgrTypes
    BY <1>1 DEF MgrTypes, NoConns
<1>3. OpenIsRegistered /\ FailureCloses
    BY <1>1 DEF OpenIsRegistered, FailureCloses, IsInjective, NoConns, PoolSet
<1> QED
    BY <1>1, <1>2, <1>3 DEF MgrInv

-------------------------------------------------------------------------------
\* The phases of Load, its queues and the lists of pools fit together in every state.
THEOREM MgrInvariance == StartSpec => []MgrInv
  BY MgrStart, MgrStep, PTL DEF StartSpec

\* A pool with a synchronous connection is registered in _close, and once: for any number of
\* pools, and wherever AddDatabase or a later step has failed.
THEOREM PoolsAreRegistered == StartSpec => []OpenIsRegistered
  BY MgrInvariance, PTL DEF MgrInv

\* After a failed step of Load no pool is open, but for asynchronous connections of the one
\* pool whose Open has failed half-way.
THEOREM FailedStartCloses == StartSpec => []FailureCloses
  BY MgrInvariance, PTL DEF MgrInv

\* When Load returns true every pool has connections of both kinds and its statements, and
\* the tables the statements need exist.
THEOREM RunningMeansReady == StartSpec => []RunningIsReady
<1>1. MgrInv => RunningIsReady
  BY Zenon, DatabaseMgrAssumption DEF MgrInv, RunningIsReady, AllOpen, IsOpen, PoolSet
<1> QED
  BY <1>1, MgrInvariance, PTL

-------------------------------------------------------------------------------
\* The strengthening of the bounds on the connections: every attempt leaves at most one
\* behind, and only that of the pool whose turn it is.
TypeInv ==
    /\ StartTypeOK
    /\ phase = "open" => conns[Head(poolQueue)].async <= tries

\* The pools of a phase.
LEMMA QueueType == \A ph : QueueOf(ph) \in Seq(PoolSet)
<1>1. Pools \in Seq(PoolSet) /\ <<>> \in Seq(PoolSet)
    BY DatabaseMgrAssumption DEF PoolSet
<1>2. Enabled # {} => <<CHOOSE p \in Enabled : TRUE>> \in Seq(PoolSet)
    BY DatabaseMgrAssumption DEF PoolSet
<1> QED
    BY <1>1, <1>2 DEF QueueOf

\* The rest of a queue, or the next one.
LEMMA PopType ==
    ASSUME Pop, poolQueue \in Seq(PoolSet)
    PROVE  poolQueue' \in Seq(PoolSet) /\ tries' = 0
<1>1. CASE Len(poolQueue) > 1
    BY <1>1 DEF Pop
<1>2. CASE ~(Len(poolQueue) > 1)
  <2>1. \E next : poolQueue' = QueueOf(Phases[next])
    BY Zenon, <1>2 DEF Pop
  <2> QED
    BY Zenon, <2>1, QueueType DEF Pop
<1> QED
    BY <1>1, <1>2

\* The types that MgrTypeOK adds to those of MgrInv, after a step.
LEMMA MgrTypeFacts ==
    ASSUME MgrInv', poolQueue' \in Seq(PoolSet), tries' \in 0 .. Attempts + 1,
           \A p \in PoolSet : conns'[p].async <= Attempts + 2
    PROVE  MgrTypeOK'
<1>1. /\ phase' \in {"open", "populate", "update", "prepare", "running", "down", "failed"}
      /\ conns' \in [PoolSet -> [async : Nat, sync : {0, 1}]]
      /\ close' \in Seq(PoolSet) /\ poolList' \subseteq PoolSet
    BY Zenon DEF MgrInv, MgrTypes
<1>2. phase' \in Range(Phases) \cup {"down", "failed"}
  <2>1. /\ DOMAIN Phases = 1 .. 5
        /\ Phases[1] = "open" /\ Phases[2] = "populate" /\ Phases[3] = "update"
        /\ Phases[4] = "prepare" /\ Phases[5] = "running"
    BY DEF Phases
  <2>2. {"open", "populate", "update", "prepare", "running"} \subseteq Range(Phases)
    BY <2>1 DEF Range
  <2> QED
    BY <1>1, <2>2
<1>3. PICK c : c = conns'
    OBVIOUS
<1>4. c \in [PoolSet -> [async : 0 .. Attempts + 2, sync : 0 .. 1]]
  <2>1. ASSUME NEW p \in PoolSet PROVE c[p] \in [async : 0 .. Attempts + 2, sync : 0 .. 1]
    <3>1. c[p].async \in 0 .. Attempts + 2 /\ c[p].sync \in 0 .. 1
      BY <1>1, <1>3, DatabaseMgrAssumption
    <3>2. c[p] = [async |-> c[p].async, sync |-> c[p].sync]
      BY Zenon, <1>1, <1>3
    <3> QED
      BY Zenon, <3>1, <3>2
  <2> QED
    BY <1>1, <1>3, <2>1
<1> QED
    BY Zenon, <1>1, <1>2, <1>3, <1>4 DEF MgrTypeOK, PoolSet

\* A step of Load that closes pools and opens none.
LEMMA ClosingType ==
    ASSUME TypeInv, MgrInv, MgrInv', NEW now, Failed(now), DOMAIN now = PoolSet,
           \A p \in PoolSet : now[p].async <= Attempts + 2
    PROVE  MgrTypeOK' /\ phase' # "open"
<1>1. /\ phase' = "failed" /\ UNCHANGED <<poolQueue, tries>>
      /\ conns' = [p \in PoolSet |-> IF p \in Range(close) THEN NoConns ELSE now[p]]
    BY Zenon DEF Failed
<1>2. poolQueue \in Seq(PoolSet) /\ tries \in 0 .. Attempts + 1
    BY Zenon DEF TypeInv, StartTypeOK, MgrTypeOK, PoolSet
<1>3. \A p \in PoolSet : conns'[p].async <= Attempts + 2
    BY <1>1, DatabaseMgrAssumption DEF NoConns
<1>4. MgrTypeOK'
  <2>1. poolQueue' \in Seq(PoolSet) /\ tries' \in 0 .. Attempts + 1
    BY Zenon, <1>1, <1>2
  <2> QED
    BY Zenon, <1>3, <2>1, MgrTypeFacts
<1> QED
    BY Zenon, <1>1, <1>4

\* A step of Load.
LEMMA MgrTypeStep ==
    ASSUME TypeInv, MgrInv, MgrInv', StartNext
    PROVE  MgrTypeOK' /\ (phase' = "open" => conns'[Head(poolQueue')].async <= tries')
<1>1. /\ poolQueue \in Seq(PoolSet) /\ tries \in 0 .. Attempts + 1
      /\ conns \in [PoolSet -> [async : 0 .. Attempts + 2, sync : 0 .. 1]]
    BY Zenon DEF TypeInv, StartTypeOK, MgrTypeOK, PoolSet
<1>2. /\ \A p \in PoolSet : conns[p].async \in Nat /\ conns[p].async <= Attempts + 2
      /\ tries \in Nat /\ tries <= Attempts + 1 /\ Attempts \in Nat /\ DOMAIN conns = PoolSet
    BY <1>1, DatabaseMgrAssumption
<1>3. CASE BeginStart
  <2>1. /\ phase = "down" /\ poolQueue' = QueueOf("open") /\ tries' = 0 /\ conns' = conns
        /\ QueueOf("open") = Pools
    BY <1>3 DEF BeginStart, Load, QueueOf
  <2>2. \A p \in PoolSet : conns[p] = NoConns
    BY Zenon, <2>1 DEF MgrInv
  <2>3. Head(Pools) \in PoolSet
    BY DatabaseMgrAssumption DEF PoolSet
  <2>4. conns'[Head(poolQueue')].async <= tries'
    BY <2>1, <2>2, <2>3 DEF NoConns
  <2>5. poolQueue' \in Seq(PoolSet) /\ tries' \in 0 .. Attempts + 1
    BY <2>1, <1>2, QueueType
  <2> QED
    BY Zenon, <1>2, <2>1, <2>4, <2>5, MgrTypeFacts
<1>4. CASE Opened
  <2> DEFINE p == Head(poolQueue)
  <2>1. /\ phase = "open" /\ OpenInv /\ p \in PoolSet /\ conns[p].async <= tries
        /\ conns' = [conns EXCEPT ![p] = [async |-> @.async + 1, sync |-> 1]] /\ Pop
    BY Zenon, <1>4, QueueFacts DEF Opened, MgrInv, OpenInv, TypeInv
  <2>2. poolQueue' \in Seq(PoolSet) /\ tries' = 0
    BY Zenon, <1>1, <2>1, PopType
  <2>3. \A c \in PoolSet : conns'[c].async <= Attempts + 2
    BY <1>1, <1>2, <2>1
  <2>4. MgrTypeOK'
    BY <1>2, <2>2, <2>3, MgrTypeFacts
  <2>5. ASSUME phase' = "open" PROVE conns'[Head(poolQueue')].async <= tries'
    <3>1. Len(poolQueue) > 1 /\ poolQueue' = Tail(poolQueue)
      BY Zenon, <2>1, <2>5, PopFacts
    <3>2. /\ poolQueue' # <<>> /\ Head(poolQueue') \in Range(poolQueue') /\ Head(poolQueue') \in PoolSet
          /\ Head(poolQueue') \in Range(poolQueue) /\ Head(poolQueue') # p
      BY Zenon, <2>1, <3>1, QueueFacts DEF OpenInv
    <3>3. conns[Head(poolQueue')] = NoConns
      BY Zenon, <2>1, <3>2 DEF OpenInv
    <3>4. conns'[Head(poolQueue')] = NoConns
      BY Zenon, <1>1, <2>1, <3>2, <3>3
    <3> QED
      BY <2>2, <3>4 DEF NoConns
  <2> QED
    BY Zenon, <2>4, <2>5
<1>5. ASSUME NEW error, NEW half \in BOOLEAN, NotOpened(error, half)
      PROVE  MgrTypeOK' /\ (phase' = "open" => conns'[Head(poolQueue')].async <= tries')
  <2> DEFINE p == Head(poolQueue)
             now == [conns EXCEPT ![p].async = IF half THEN @ + 1 ELSE @]
  <2>1. /\ phase = "open" /\ OpenInv /\ p \in PoolSet /\ conns[p].async <= tries
    BY Zenon, <1>5, QueueFacts DEF NotOpened, MgrInv, OpenInv, TypeInv
  <2>2. /\ DOMAIN now = PoolSet /\ now[p].async <= tries + 1
        /\ \A c \in PoolSet : now[c].async <= Attempts + 2
    BY SMTT(30), <1>1, <1>2, <2>1
  <2> HIDE DEF now
  <2>3. CASE Failed(now)
    BY Zenon, <2>2, <2>3, ClosingType
  <2>4. CASE /\ conns' = now /\ poolQueue' = poolQueue
             /\ \/ tries < Attempts /\ tries' = tries + 1
                \/ tries <= Attempts /\ tries' = Attempts + 1
    <3>1. tries' \in 0 .. Attempts + 1 /\ tries + 1 <= tries'
      BY <1>2, <2>4
    <3>2. now[p].async <= tries'
      <4>1. now[p].async \in Nat
        BY SMTT(30), <1>1, <1>2, <2>1 DEF now
      <4> QED
        BY <1>2, <2>2, <3>1, <4>1
    <3> QED
      BY Zenon, <1>1, <2>2, <2>4, <3>1, <3>2, MgrTypeFacts
  <2> QED
    BY <1>5, <2>3, <2>4 DEF NotOpened, now
<1>6. CASE EndStep \/ Prepare
  <2>1. CASE Pop /\ UNCHANGED conns
    <3>1. phase \in {"populate", "update", "prepare"}
      BY Zenon, <1>6 DEF EndStep, Prepare, Prepared, MgrInv
    <3>2. poolQueue' \in Seq(PoolSet) /\ tries' \in 0 .. Attempts + 1
      BY <1>1, <1>2, <2>1, PopType
    <3>3. phase' # "open"
      BY <2>1, <3>1, PopFacts
    <3> QED
      BY Zenon, <1>2, <2>1, <3>2, <3>3, MgrTypeFacts
  <2>2. CASE Failed(conns)
    BY Zenon, <1>2, <2>2, ClosingType
  <2> QED
    BY Zenon, <1>6, <2>1, <2>2 DEF EndStep, Prepare, Prepared
<1>7. CASE NotPrepare \/ Close
  <2> DEFINE now == [conns EXCEPT ![Head(poolQueue)] = NoConns]
  <2>1. Failed(conns) \/ Failed(now)
    BY <1>7 DEF NotPrepare, NotPrepared, Close, CloseAllConnections
  <2>2. DOMAIN now = PoolSet /\ \A p \in PoolSet : now[p].async <= Attempts + 2
    BY <1>1, <1>2 DEF NoConns
  <2> HIDE DEF now
  <2> QED
    BY Zenon, <1>2, <2>1, <2>2, ClosingType
<1>8. CASE End
  <2>1. /\ phase' = "down" /\ poolQueue' = <<>> /\ tries' = 0
        /\ conns' = [p \in PoolSet |-> NoConns]
    BY Zenon, <1>8 DEF End, ProcessEnds, PoolSet
  <2>2. /\ poolQueue' \in Seq(PoolSet) /\ tries' \in 0 .. Attempts + 1
        /\ \A p \in PoolSet : conns'[p].async <= Attempts + 2
    BY <1>2, <2>1 DEF NoConns
  <2> QED
    BY Zenon, <2>1, <2>2, MgrTypeFacts
<1>9. CASE UNCHANGED mgrVars
  <2>1. UNCHANGED <<phase, poolQueue, tries, conns>>
    BY <1>9 DEF mgrVars
  <2>2. phase' = "open" => conns'[Head(poolQueue')].async <= tries'
    BY Zenon, <2>1 DEF TypeInv
  <2> QED
    BY Zenon, <1>1, <1>2, <2>1, <2>2, MgrTypeFacts
<1> QED
    BY Zenon, <1>3, <1>4, <1>5, <1>6, <1>7, <1>8, <1>9 DEF StartNext, Work, Open, BeginStep

\* A step of the updater, or around it.
LEMMA UpdaterTypeStep ==
    ASSUME UpdaterTypeOK, UpdaterInv, UpdaterInv', TwiceInv', StartNext
    PROVE  UpdaterTypeOK'
<1> USE DEF UpdaterTypeOK
<1> DEFINE Others == /\ options' = options /\ tables' \subseteq BaseFiles
                     /\ effects' \subseteq Hashes /\ vouched' \subseteq Hashes
                     /\ stage' \in {"off", "populate", "populated", "update", "retrieve", "walk",
                                    "record", "ok", "failed"}
                     /\ disturbed' \in BOOLEAN
<1>1. SUFFICES Others
  <2>1. /\ tree' \in Trees /\ todo' \in Seq(Files)
        /\ updates' \subseteq Entries /\ applied' \subseteq Entries /\ fetched' \subseteq Entries
    BY Zenon DEF UpdaterInv, UpdaterTypes
  <2>2. Unique(updates') /\ settled' \in {NoTree, tree'}
    BY Zenon DEF TwiceInv, Unique
  <2>3. settled' \in Trees \cup {NoTree}
    BY Zenon, <2>1, <2>2
  <2> QED
    BY Zenon, <2>1, <2>2, <2>3 DEF Unique
<1>2. CASE BeginStart
    BY Zenon, <1>2 DEF BeginStart, databaseVars
<1>3. CASE Open \/ Prepare \/ NotPrepare \/ Close
    BY Zenon, <1>3 DEF Open, Prepare, NotPrepare, Close, updaterVars, optionVars, databaseVars
<1>4. CASE BeginStep \/ EndStep \/ End
    BY Zenon, <1>4 DEF BeginStep, EndStep, End, optionVars, databaseVars
<1>5. CASE Populate
    BY Zenon, <1>5 DEF Populate, optionVars
<1>6. CASE CheckUpdateTable
    BY Zenon, <1>6, UpdaterAssumption DEF CheckUpdateTable, optionVars
<1>7. CASE Retrieve
    BY Zenon, <1>7 DEF Retrieve, ReceiveAppliedFiles, optionVars, databaseVars
<1>8. CASE CleanUp
    BY Zenon, <1>8 DEF CleanUp, Write, optionVars
<1>9. CASE Fail
    BY Zenon, <1>9 DEF Fail, optionVars, databaseVars
<1>10. CASE ApplyUpdateFile
  <2>1. todo \in Seq(Files) /\ todo # <<>>
    BY Zenon, <1>10 DEF ApplyUpdateFile, UpdaterInv, UpdaterTypes
  <2>2. Head(todo).hash \in Hashes
    BY Zenon, <2>1, OneLess DEF Files
  <2>3. /\ options' = options /\ tables' = tables /\ stage' \in {"walk", "record"}
        /\ effects' \in {effects, effects \cup {Head(todo).hash}}
        /\ vouched' \in {vouched, vouched \cup {Head(todo).hash}}
        /\ disturbed' \in {disturbed, TRUE}
    BY Zenon, <1>10
       DEF ApplyUpdateFile, Skip, UpdateState, Rehash, Rename, Apply, Done, UpdateEntry, Write,
                 optionVars, localVars
  <2> QED
    BY Zenon, <2>2, <2>3
<1> QED
    BY Zenon, <1>2, <1>3, <1>4, <1>5, <1>6, <1>7, <1>8, <1>9, <1>10 DEF StartNext, Work, UpdaterNext

\* All that the start-up has to remember, in one invariant.
AllInv == UpdaterInv /\ TwiceInv /\ MgrInv /\ TypeInv

\* Every step of a start keeps all of it.
LEMMA TypeStep == AllInv /\ [StartNext]_startVars => AllInv'
<1> SUFFICES ASSUME AllInv, [StartNext]_startVars PROVE AllInv'
    OBVIOUS
<1>1. UpdaterInv' /\ TwiceInv' /\ MgrInv'
    BY UpdaterStep, TwiceStep, MgrStep DEF AllInv
<1>2. CASE StartNext
  <2>1. MgrTypeOK' /\ (phase' = "open" => conns'[Head(poolQueue')].async <= tries')
    BY Zenon, <1>1, <1>2, MgrTypeStep DEF AllInv
  <2>2. UpdaterTypeOK'
    BY Zenon, <1>1, <1>2, UpdaterTypeStep DEF AllInv, TypeInv, StartTypeOK
  <2>3. exists' \subseteq Range(Pools)
    <3>1. exists \subseteq Range(Pools)
      BY DEF AllInv, TypeInv, StartTypeOK
    <3>2. CASE Open
      <4>1. Head(poolQueue) \in Range(Pools)
        BY Zenon, <3>2, QueueFacts DEF Open, AllInv, MgrInv, OpenInv, PoolSet
      <4> QED
        BY Zenon, <3>1, <3>2, <4>1 DEF Open
    <3>3. CASE ~Open
      BY Zenon, <1>2, <3>1, <3>3
         DEF StartNext, Work, BeginStart, BeginStep, EndStep, Prepare, NotPrepare,
                              Close, End
    <3> QED
      BY <3>2, <3>3
  <2> QED
    BY Zenon, <1>1, <2>1, <2>2, <2>3 DEF AllInv, TypeInv, StartTypeOK
<1>3. CASE UNCHANGED startVars
  <2>1. TypeInv'
    BY ZenonT(30), <1>3
       DEF AllInv, TypeInv, StartTypeOK, MgrTypeOK, UpdaterTypeOK, startVars, mgrVars, updaterVars,
                optionVars, databaseVars, localVars
  <2> QED
    BY <1>1, <2>1 DEF AllInv
<1> QED
    BY <1>2, <1>3

\* The first start.
LEMMA TypeStart == StartInit => AllInv
<1> SUFFICES ASSUME StartInit PROVE AllInv
    OBVIOUS
<1>1. UpdaterInv /\ TwiceInv /\ MgrInv
    BY UpdaterStart, TwiceStart, MgrStart
<1>2. MgrTypeOK /\ phase = "down"
  <2>1. /\ phase = "down" /\ poolQueue = <<>> /\ tries = 0 /\ close = <<>> /\ poolList = {}
        /\ conns = [p \in Range(Pools) |-> NoConns]
    BY Zenon DEF StartInit, MgrInit
  <2>2. tries \in 0 .. Attempts + 1 /\ NoConns \in [async : 0 .. Attempts + 2, sync : 0 .. 1]
    BY <2>1, DatabaseMgrAssumption DEF NoConns
  <2>3. poolQueue \in Seq(Range(Pools)) /\ close \in Seq(Range(Pools))
    BY <2>1
  <2> QED
    BY Zenon, <2>1, <2>2, <2>3 DEF MgrTypeOK
<1>3. UpdaterTypeOK
  <2>1. effects \subseteq Hashes
    BY StartUpAssumption DEF StartInit, Entries
  <2>2. \A e, f \in updates : e.name = f.name => e = f
    BY <1>1 DEF TwiceInv, Unique
  <2> QED
    BY Zenon, <1>1, <2>1, <2>2, StartUpAssumption
       DEF StartInit, UpdaterTypeOK, UpdaterInv, UpdaterTypes
<1> QED
    BY Zenon, <1>1, <1>2, <1>3 DEF StartInit, AllInv, TypeInv, StartTypeOK

\* The variables of the start-up keep their types and bounds: attempts that fail half-way
\* leave at most Attempts + 1 connections behind, and `updates` has one row for a name.
THEOREM StartUpTypes == StartSpec => []StartTypeOK
<1>1. StartSpec => []AllInv
    BY TypeStart, TypeStep, PTL DEF StartSpec
<1>2. AllInv => StartTypeOK
    BY Zenon DEF AllInv, TypeInv
<1> QED
    BY <1>1, <1>2, PTL
===============================================================================
