-------------------------- MODULE RepositoryIndex --------------------------
(***************************************************************************)
(* The SQLite index of a workspace against the files it describes.          *)
(* `codecraft index` walks the workspace (sync), the observer of a session  *)
(* re-reads the files a tool has just changed (refresh_paths), searches     *)
(* compare the stamp of each hit with the file (_validated_result), and     *)
(* everybody else edits the files in between.                               *)
(*                                                                         *)
(* SQLite is external: one writer at a time, from its first write to its    *)
(* commit; readers see what was committed; a connection closed without a    *)
(* commit leaves nothing. A stamp stands for (mtime_ns, size), a text for   *)
(* the content and its digest, a row for the file's row with its chunks and *)
(* symbols.                                                                 *)
(***************************************************************************)
EXTENDS Integers, FiniteSetsExt

CONSTANTS
  PathCount,   \* files of the workspace, in the order of their paths
  Ignored,     \* those below a directory of SKIPPED_NAMES
  Syncs,       \* runs of `codecraft index`
  Refreshes,   \* refreshes by observers
  Searches,    \* indexed searches
  Edits,       \* what happens to files
  MaxWrites    \* bound: changes of files

EditKinds == {"text", "binary", "large", "delete", "touch", "revert"}
Paths == 1..PathCount
Indexers == Syncs \cup Refreshes
Nobody == "nobody"

ASSUME IndexAssumption ==
  /\ PathCount \in Nat /\ MaxWrites \in Nat
  /\ Ignored \subseteq Paths /\ Edits \subseteq EditKinds
  /\ Syncs \cap Refreshes = {} /\ Nobody \notin Indexers

VARIABLES
  file,      \* the workspace: kind, stamp and text of each file
  clock,     \* the latest stamp given
  built,     \* whether a first commit has given the database its schema and owner
  rows,      \* the committed rows
  work,      \* the rows of the open transaction
  lock,      \* the indexer whose transaction is open
  pc,        \* where an indexer is
  todo,      \* the paths it still has to look at
  given,     \* the paths a sync has listed, or a refresh was given
  seen,      \* of the path it is at: the row, the stamp and the content it has read
  changed,   \* history: the files changed since it began
  search     \* a search: the rows it got, those to validate, its matches

fsVars == <<file, clock>>
dbVars == <<built, rows, work, lock>>
vars == <<fsVars, dbVars, pc, todo, given, seen, changed, search>>

Kinds == {"text", "binary", "large", "absent"}
Times == 0..MaxWrites
NoRow == [stamp |-> -1, text |-> -1]
Rows == [stamp : Times, text : Times] \cup {NoRow}
Files == [kind : Kinds, stamp : Times, text : Times]
Ended == {"idle", "done", "skipped", "failed"}

TypeOK ==
  /\ file \in [Paths -> Files] /\ clock \in Times
  /\ built \in BOOLEAN
  /\ rows \in [Paths -> Rows] /\ work \in [Paths -> Rows]
  /\ lock \in Indexers \cup {Nobody}
  /\ pc \in [Indexers -> Ended \cup {"begin", "select", "stat", "read", "store"}]
  /\ todo \in [Indexers -> SUBSET Paths] /\ given \in [Indexers -> SUBSET Paths]
  /\ seen \in [Indexers -> [row : Rows, stamp : Times, file : Files]]
  /\ changed \in [Indexers -> SUBSET Paths]
  /\ search \in [Searches -> [pc : {"idle", "validate", "done", "unavailable"},
                              rows : [Paths -> Rows], todo : SUBSET Paths, matches : SUBSET Paths]]

Empty == [p \in Paths |-> NoRow]
NothingSeen == [row |-> NoRow, stamp |-> 0, file |-> [kind |-> "text", stamp |-> 0, text |-> 0]]
OldFile == [kind |-> "text", stamp |-> 0, text |-> 0]

\* What an earlier sync of the workspace has left.
FirstRows == [p \in Paths |-> IF p \in Ignored THEN NoRow ELSE [stamp |-> 0, text |-> 0]]

Init ==
  /\ file = [p \in Paths |-> OldFile] /\ clock = 0
  /\ built \in BOOLEAN /\ rows = IF built THEN FirstRows ELSE Empty
  /\ work = Empty /\ lock = Nobody
  /\ pc = [i \in Indexers |-> "idle"]
  /\ todo = [i \in Indexers |-> {}] /\ given = [i \in Indexers |-> {}]
  /\ seen = [i \in Indexers |-> NothingSeen]
  /\ changed = [i \in Indexers |-> {}]
  /\ search = [s \in Searches |-> [pc |-> "idle", rows |-> Empty, todo |-> {}, matches |-> {}]]

-----------------------------------------------------------------------------
(* The workspace: every change gives a new stamp, and all but a touch and a *)
(* revert a content the file never had.                                     *)

Edit(p) ==
  LET now == clock + 1 IN
  /\ clock < MaxWrites /\ clock' = now
  /\ \E kind \in Edits :
       CASE kind = "delete" -> /\ file[p].kind # "absent"
                               /\ file' = [file EXCEPT ![p].kind = "absent"]
         [] kind = "touch"  -> /\ file[p].kind # "absent"
                               /\ file' = [file EXCEPT ![p].stamp = now]
         [] kind = "revert" -> \E old \in 0..clock :
                                 file' = [file EXCEPT ![p] = [kind |-> "text", stamp |-> now, text |-> old]]
         [] OTHER           -> file' = [file EXCEPT ![p] = [kind |-> kind, stamp |-> now, text |-> now]]
  /\ changed' = [i \in Indexers |-> IF pc[i] \in Ended THEN {} ELSE changed[i] \cup {p}]
  /\ UNCHANGED <<dbVars, pc, todo, given, seen, search>>

-----------------------------------------------------------------------------
(* Common steps of the indexers *)

Goto(i, label) == pc' = [pc EXCEPT ![i] = label]

\* A first write opens the transaction, on what is committed by then.
Acquire(i) == lock \in {Nobody, i} /\ lock' = i

CurrentIgnoresWork(i) == rows  \* mutant: the transaction does not see its own writes

Current(i) == IF lock = i THEN work ELSE rows

Write(i, p, row) ==
  /\ Acquire(i)
  /\ work' = [Current(i) EXCEPT ![p] = row]
  /\ UNCHANGED <<built, rows>>

Commit(i, result) ==
  /\ lock \in {Nobody, i} /\ lock' = Nobody
  /\ rows' = result /\ work' = Empty
  /\ built' = TRUE

NextPath(i, p) ==
  /\ todo' = [todo EXCEPT ![i] = @ \ {p}] /\ seen' = [seen EXCEPT ![i] = NothingSeen]
  /\ Goto(i, "select")

\* Closing the connection rolls back what is not committed.
Close(i) ==
  /\ lock' = IF lock = i THEN Nobody ELSE lock
  /\ work' = IF lock = i THEN Empty ELSE work
  /\ UNCHANGED <<built, rows>>

\* The process dies, a read raises or the database stays locked for longer than its timeout.
Fail(i) ==
  /\ pc[i] \notin Ended /\ Goto(i, "failed") /\ Close(i)
  /\ todo' = [todo EXCEPT ![i] = {}] /\ seen' = [seen EXCEPT ![i] = NothingSeen]
  /\ UNCHANGED <<fsVars, given, changed, search>>

\* What the file system says of the path. Its size is looked at by stat() alone: a file that has
\* grown too large by the time it is read is a text like any other.
Taken(i) ==
  LET f == file[Min(todo[i])] IN
  IF pc[i] = "read" /\ f.kind = "large" THEN [f EXCEPT !.kind = "text"] ELSE f

\* On to the next step with this path, or past it.
Go(i, label) ==
  /\ Goto(i, label)
  /\ seen' = [seen EXCEPT ![i].file = Taken(i),
                          ![i].stamp = IF pc[i] = "stat" THEN Taken(i).stamp ELSE @]
  /\ UNCHANGED <<fsVars, dbVars, todo, given, changed, search>>

Skip(i) == NextPath(i, Min(todo[i])) /\ UNCHANGED <<fsVars, dbVars, given, changed, search>>

\* The rows of the files are read in one query by a sync, which holds the lock by then, and one
\* by one by a refresh, which has no lock before its first write.
Select(i) ==
  /\ pc[i] = "select" /\ todo[i] # {} /\ Goto(i, "stat")
  /\ seen' = [seen EXCEPT ![i].row = Current(i)[Min(todo[i])]]
  /\ UNCHANGED <<fsVars, dbVars, todo, given, changed, search>>

\* stat(): a file that is gone ends a sync with an error and is deleted by a refresh; one that is
\* too large is deleted; one with the stamp of its row is left alone.
Stat(i) ==
  LET p == Min(todo[i]) IN
  /\ pc[i] = "stat"
  /\ IF file[p].kind = "absent" /\ i \in Syncs THEN Fail(i)
     ELSE IF file[p].kind \in {"absent", "large"} THEN Go(i, "store")
     ELSE IF seen[i].row.stamp = file[p].stamp THEN Skip(i)
     ELSE Go(i, "read")

ReadWaits(i) ==  \* mutant: a file that is gone is waited for
  /\ pc[i] = "read" /\ file[Min(todo[i])].kind # "absent" /\ Go(i, "store")

\* read_bytes(): a file that is gone by now is passed over by a sync and fails a refresh.
Read(i) ==
  LET p == Min(todo[i]) IN
  /\ pc[i] = "read"
  /\ IF file[p].kind # "absent" THEN Go(i, "store")
     ELSE IF i \in Syncs THEN Skip(i)
     ELSE Fail(i)

StoredStampOfNow(i, p) ==  \* mutant: the stamp is taken when the row is written
  [stamp |-> file[p].stamp, text |-> seen[i].file.text]

\* The row a text gets: an equal digest moves the stamp of whatever row there is by now, another
\* one replaces it.
Stored(i, p) ==
  LET row == Current(i)[p] IN
  IF seen[i].row.text = seen[i].file.text
  THEN IF row = NoRow THEN NoRow ELSE [row EXCEPT !.stamp = seen[i].stamp]
  ELSE [stamp |-> seen[i].stamp, text |-> seen[i].file.text]

Store(i) ==
  LET p == Min(todo[i]) IN
  /\ pc[i] = "store" /\ NextPath(i, p)
  /\ Write(i, p, IF seen[i].file.kind = "text" THEN Stored(i, p) ELSE NoRow)
  /\ UNCHANGED <<fsVars, given, changed, search>>

-----------------------------------------------------------------------------
(* sync *)

Start(i, paths, label) ==
  /\ pc[i] = "idle" /\ Goto(i, label)
  /\ todo' = [todo EXCEPT ![i] = paths] /\ given' = [given EXCEPT ![i] = paths]
  /\ changed' = [changed EXCEPT ![i] = {}]
  /\ UNCHANGED <<fsVars, dbVars, seen, search>>

Listed == {p \in Paths \ Ignored : file[p].kind # "absent"}

SyncStart(i) == Start(i, Listed, "begin")

\* Writing the owner of the database opens the transaction before the rows are read.
SyncBegin(i) ==
  /\ pc[i] = "begin" /\ Goto(i, "select")
  /\ Acquire(i) /\ work' = rows
  /\ UNCHANGED <<fsVars, built, rows, todo, given, seen, changed, search>>

SyncResultKeeps(i) == work  \* mutant: rows of files that are gone stay

\* Rows of files that were not listed are deleted.
SyncResult(i) == [p \in Paths |-> IF p \in given[i] THEN work[p] ELSE NoRow]

SyncFinish(i) ==
  /\ pc[i] = "select" /\ todo[i] = {} /\ Goto(i, "done")
  /\ Commit(i, SyncResult(i))
  /\ UNCHANGED <<fsVars, todo, given, seen, changed, search>>

-----------------------------------------------------------------------------
(* refresh_paths *)

\* A database without schema or owner is no index.
OpenExisting == built

\* The paths a tool reports; without an index the observer reports that it skipped them.
RefreshStart(i) ==
  \E paths \in (SUBSET Paths) \ {{}} : Start(i, paths, IF OpenExisting THEN "select" ELSE "skipped")

RefreshFinishAlone(i) ==  \* mutant: what the refresh was not given is deleted, as by a sync
  /\ pc[i] = "select" /\ todo[i] = {} /\ Goto(i, "done")
  /\ Commit(i, [p \in Paths |-> IF p \in given[i] THEN Current(i)[p] ELSE NoRow])
  /\ UNCHANGED <<fsVars, todo, given, seen, changed, search>>

RefreshFinish(i) ==
  /\ pc[i] = "select" /\ todo[i] = {} /\ Goto(i, "done")
  /\ Commit(i, Current(i))
  /\ UNCHANGED <<fsVars, todo, given, seen, changed, search>>

-----------------------------------------------------------------------------
(* search_lexical, search_symbols *)

SearchStart(s) ==
  /\ search[s].pc = "idle"
  /\ search' = [search EXCEPT ![s] =
       IF OpenExisting THEN [pc |-> "validate", rows |-> rows, matches |-> {},
                      todo |-> {p \in Paths : rows[p] # NoRow}]
                ELSE [@ EXCEPT !.pc = "unavailable"]]
  /\ UNCHANGED <<fsVars, dbVars, pc, todo, given, seen, changed>>

FreshBySize(s, p) == file[p].kind # "absent"  \* mutant: the modification time is not compared

Fresh(s, p) == file[p].kind # "absent" /\ file[p].stamp = search[s].rows[p].stamp

Validate(s) ==
  LET p == Min(search[s].todo) IN
  /\ search[s].pc = "validate" /\ search[s].todo # {}
  /\ search' = [search EXCEPT ![s].todo = @ \ {p},
                              ![s].matches = IF Fresh(s, p) THEN @ \cup {p} ELSE @]
  /\ UNCHANGED <<fsVars, dbVars, pc, todo, given, seen, changed>>

\* Hits that are all stale make the index unavailable, and the engine falls back to a scan.
Answer(s) ==
  /\ search[s].pc = "validate" /\ search[s].todo = {}
  /\ search' = [search EXCEPT ![s].rows = Empty, ![s].pc =
       IF search[s].matches = {} /\ search[s].rows # Empty THEN "unavailable" ELSE "done"]
  /\ UNCHANGED <<fsVars, dbVars, pc, todo, given, seen, changed>>

-----------------------------------------------------------------------------

\* What asyncio.to_thread runs by itself, the wait for a locked database included.
LockTimeout(i) ==
  /\ pc[i] \in {"begin", "store"} \/ (pc[i] = "select" /\ todo[i] = {})
  /\ lock \notin {Nobody, i}
  /\ Fail(i)

Step(i) ==
  \/ Select(i) \/ Stat(i) \/ Read(i) \/ Store(i) \/ LockTimeout(i)
  \/ i \in Syncs /\ (SyncBegin(i) \/ SyncFinish(i))
  \/ i \in Refreshes /\ RefreshFinish(i)

Next ==
  \/ \E p \in Paths : Edit(p)
  \/ \E i \in Syncs : SyncStart(i)
  \/ \E i \in Refreshes : RefreshStart(i)
  \/ \E i \in Indexers : Step(i) \/ Fail(i)
  \/ \E s \in Searches : SearchStart(s) \/ Validate(s) \/ Answer(s)

Spec == Init /\ [][Next]_vars /\ \A i \in Indexers : WF_vars(Step(i))

-----------------------------------------------------------------------------
(* Properties *)

Describes(row, f) == f.kind = "text" /\ row.text = f.text

\* A committed row whose stamp is the file's holds the file's text: what `_validated_result` takes
\* for fresh, and what sync and refresh_paths take for unchanged, has been read since the last change.
FreshRowsAreCurrent ==
  \A p \in Paths :
    (rows[p] # NoRow /\ file[p].kind # "absent" /\ rows[p].stamp = file[p].stamp) => Describes(rows[p], file[p])

\* A search (`search_lexical`, `search_symbols`) takes a hit for fresh only while the text it
\* found is the text of the file.
MatchesAreCurrent ==
  [][\A s \in Searches : \A p \in search'[s].matches \ search[s].matches :
       Describes(search[s].rows[p], file[p])]_vars

RowFor(p) ==
  IF file[p].kind = "text" THEN [stamp |-> file[p].stamp, text |-> file[p].text] ELSE NoRow

Finishes(i) == pc[i] # "done" /\ pc'[i] = "done"

\* A sync that completes leaves the exact row, or none, for each file that was not changed while
\* it ran, whatever the index held before and whoever else wrote to it.
SyncAgrees ==
  [][\A i \in Syncs : Finishes(i) =>
       \A p \in Paths \ changed[i] : rows'[p] = IF p \in Ignored THEN NoRow ELSE RowFor(p)]_vars

\* The same of a refresh and its paths.
RefreshAgrees ==
  [][\A i \in Refreshes : Finishes(i) =>
       \A p \in given[i] \ changed[i] : rows'[p] = RowFor(p)]_vars

\* A refresh leaves the rows of all other files as they were committed, also those another
\* indexer has committed since it began (`refresh_paths`).
RefreshKeepsOthers ==
  [][\A i \in Refreshes : Finishes(i) =>
       \A p \in Paths \ given[i] : rows'[p] = rows[p]]_vars

\* A refresh that completes leaves the exact rows of its own files and nothing else changed.
RefreshIsExact == RefreshAgrees /\ RefreshKeepsOthers

\* An indexer that has started comes to an end, also when another one holds the database or dies.
IndexersEnd == \A i \in Indexers : pc[i] \notin Ended ~> pc[i] \in Ended
=============================================================================
