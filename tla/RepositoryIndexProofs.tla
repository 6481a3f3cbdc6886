------------------------ MODULE RepositoryIndexProofs ------------------------
(***************************************************************************)
(* The index of a workspace, for any number of files, syncs, refreshes,     *)
(* searches and changes of files.                                           *)
(***************************************************************************)
EXTENDS RepositoryIndex, TLAPS, WellFoundedInduction

-----------------------------------------------------------------------------
(* The conditions *)

Live(i) == pc[i] \notin Ended

\* One refresh at a time, as in a session that lets each tool finish; any number of syncs.
OneRefresh == \A i, j \in Refreshes : Live(i) /\ Live(j) => i = j

\* No sync commits while a refresh is at work.
SyncsApart == \A j \in Syncs : Finishes(j) => \A i \in Refreshes : ~Live(i)

\* No file gets an old text back.
NoReverts == "revert" \notin Edits

-----------------------------------------------------------------------------
(* The invariant *)

Here(i) == Min(todo[i])
AtPath(i) == pc[i] \in {"stat", "read", "store"}

\* An indexer at a path has one, and works on what it was given.
PlaceInv == \A i \in Indexers : (AtPath(i) => todo[i] # {}) /\ todo[i] \subseteq given[i]

\* A sync holds the database from its first write on; a transaction is that of an indexer at
\* work.
LockInv ==
  /\ \A i \in Syncs : pc[i] \in {"select", "stat", "read", "store"} => lock = i
  /\ lock # Nobody => pc[lock] \in {"select", "stat", "read", "store"}
  /\ lock = Nobody => work = Empty

\* A row tells no more than there was, and the truth if its stamp is the file's.
Honest(p, row) ==
  row # NoRow =>
    /\ row.stamp <= clock /\ row.text <= file[p].text
    /\ file[p].kind # "absent" /\ row.stamp = file[p].stamp => Describes(row, file[p])

RowsHonest ==
  /\ \A p \in Paths : /\ Honest(p, rows[p]) /\ Honest(p, work[p])
                       /\ file[p].text <= clock /\ file[p].stamp <= clock
  /\ \A s \in Searches, p \in Paths : Honest(p, search[s].rows[p])

\* What an indexer has read of the path it is at.
ReadHonest ==
  \A i \in Indexers :
    /\ seen[i].stamp <= clock
    /\ AtPath(i) => Honest(Here(i), seen[i].row)
    /\ pc[i] = "store" /\ seen[i].file.kind = "text" =>
         Honest(Here(i), [stamp |-> seen[i].stamp, text |-> seen[i].file.text])
    /\ pc[i] = "read" /\ file[Here(i)].kind = "large" => seen[i].stamp # file[Here(i)].stamp

\* A row is no older than what was known of the file.
NoOlder(row, text) == row = NoRow \/ row.text >= text

\* The row an indexer at a path has read is the one it will write to, or an older one.
SeenInv ==
  /\ \A i \in Indexers : AtPath(i) =>
       IF lock = i THEN work[Here(i)] = seen[i].row
                   ELSE NoOlder(rows[Here(i)], seen[i].row.text)
  /\ lock \in Syncs =>
       /\ \A p \in Paths : NoOlder(work[p], rows[p].text)
       /\ \A i \in Refreshes : AtPath(i) => NoOlder(work[Here(i)], seen[i].row.text)
       /\ pc[lock] = "store" /\ seen[lock].file.kind = "text" =>
            /\ seen[lock].file.text >= rows[Here(lock)].text
            /\ \A i \in Refreshes : AtPath(i) /\ Here(i) = Here(lock) =>
                 seen[lock].file.text >= seen[i].row.text

HonestInv == PlaceInv /\ LockInv /\ RowsHonest /\ ReadHonest /\ SeenInv

\* A file that has not changed since the indexer began has been brought up to date, is being
\* looked at, or is still to come.
Exact(i) ==
  /\ AtPath(i) => Current(i)[Here(i)] = seen[i].row
  /\ \A p \in given[i] \ changed[i] :
       /\ Live(i) /\ p \notin todo[i] => Current(i)[p] = RowFor(p)
       /\ pc[i] \in {"read", "store"} /\ p = Here(i) =>
            /\ pc[i] = "read" => file[p].kind \notin {"absent", "large"}
            /\ pc[i] = "store" => seen[i].file = file[p]
            /\ file[p].kind \in {"text", "binary"} => seen[i].stamp = file[p].stamp

\* What a sync did not list was not there.
Unlisted(i) ==
  /\ Live(i) => given[i] \cap Ignored = {}
  /\ \A p \in Paths \ (Ignored \cup changed[i]) :
       Live(i) /\ p \notin given[i] => file[p].kind = "absent"

\* Nothing is done before the first write.
AllToDo(i) == pc[i] = "begin" => todo[i] = given[i]

SyncInv == \A i \in Syncs : Exact(i) /\ Unlisted(i) /\ AllToDo(i)
RefreshInv == \A i \in Refreshes : Exact(i)

\* A refresh changes the rows of its own files only.
OthersKept ==
  \A i \in Refreshes : lock = i => \A p \in Paths \ given[i] : work[p] = rows[p]

-----------------------------------------------------------------------------
(* The next path *)

\* A set of paths that is not empty has a least one.
LEMMA Least ==
  ASSUME NEW S, S \subseteq Nat, S # {}
  PROVE  \E x \in S : \A y \in S : x <= y
<1>1. PICK x \in S : \A y \in S : ~(<<y, x>> \in OpToRel(<, Nat))
  BY NatLessThanWellFounded, WFMin
<1>2. \A y \in S : ~(y < x)
  BY <1>1 DEF OpToRel
<1> QED
  BY <1>2

LEMMA MinIn ==
  ASSUME NEW S, S \subseteq Paths, S # {}
  PROVE  Min(S) \in S /\ Min(S) \in Paths
<1>1. S \subseteq Nat
  BY IndexAssumption DEF Paths
<1>2. \E x \in S : \A y \in S : x <= y
  BY <1>1, Least
<1> QED
  BY <1>2 DEF Min

LEMMA HereIn ==
  ASSUME TypeOK, NEW i \in Indexers, todo[i] # {}
  PROVE  Here(i) \in todo[i] /\ Here(i) \in Paths
  BY MinIn DEF TypeOK, Here

-----------------------------------------------------------------------------
(* Types *)

LEMMA RowTypes ==
  /\ NoRow \in Rows /\ Empty \in [Paths -> Rows] /\ FirstRows \in [Paths -> Rows]
  /\ \A stamp, text \in Times : [stamp |-> stamp, text |-> text] \in Rows
  /\ NothingSeen \in [row : Rows, stamp : Times, file : Files] /\ OldFile \in Files
  /\ 0 \in Times
<1>1. 0 \in Times
  BY IndexAssumption DEF Times
<1>2. NoRow \in Rows /\ \A stamp, text \in Times : [stamp |-> stamp, text |-> text] \in Rows
  BY DEF Rows
<1>3. OldFile \in Files
  BY <1>1 DEF OldFile, Files, Kinds
<1>4. NothingSeen \in [row : Rows, stamp : Times, file : Files]
  BY <1>1, <1>2, <1>3 DEF NothingSeen, OldFile
<1> QED
  BY <1>1, <1>2, <1>3, <1>4 DEF Empty, FirstRows

LEMMA IndexInitType == Init => TypeOK /\ PlaceInv
  BY RowTypes DEF Init, TypeOK, PlaceInv, AtPath, Ended

\* What an edit leaves.
LEMMA EditType ==
  ASSUME TypeOK, NEW p \in Paths, Edit(p)
  PROVE  /\ clock' = clock + 1 /\ clock' \in Times /\ clock \in Times
         /\ \E f \in Files :
              /\ file' = [file EXCEPT ![p] = f]
              /\ \/ f.kind = "absent" /\ f.text = file[p].text /\ f.stamp = file[p].stamp
                 \/ /\ f.stamp = clock'
                    /\ NoReverts => f.text \in {file[p].text, clock'}
<1>1. clock' = clock + 1 /\ clock < MaxWrites /\ clock \in Times /\ clock' \in Times
  BY IndexAssumption DEF Edit, TypeOK, Times
<1>2. PICK kind \in Edits :
        CASE kind = "delete" -> /\ file[p].kind # "absent"
                                /\ file' = [file EXCEPT ![p].kind = "absent"]
          [] kind = "touch"  -> /\ file[p].kind # "absent"
                                /\ file' = [file EXCEPT ![p].stamp = clock + 1]
          [] kind = "revert" -> \E old \in 0..clock :
                                  file' = [file EXCEPT ![p] = [kind |-> "text", stamp |-> clock + 1,
                                                               text |-> old]]
          [] OTHER           -> file' = [file EXCEPT ![p] = [kind |-> kind, stamp |-> clock + 1,
                                                             text |-> clock + 1]]
  BY DEF Edit
<1>3. file[p] \in Files /\ file \in [Paths -> Files]
  BY DEF TypeOK
<1>4. kind \in EditKinds
  BY IndexAssumption
<1>5. CASE kind = "delete"
  <2>1. [file[p] EXCEPT !.kind = "absent"] \in Files
    BY <1>3 DEF Files, Kinds
  <2> QED
    BY <1>1, <1>2, <1>3, <1>5, <2>1 DEF Files
<1>6. CASE kind = "touch"
  <2>1. [file[p] EXCEPT !.stamp = clock + 1] \in Files
    BY <1>1, <1>3 DEF Files
  <2> QED
    BY <1>1, <1>2, <1>3, <1>6, <2>1 DEF Files
<1>7. CASE kind = "revert"
  <2>1. \A old \in 0..clock : [kind |-> "text", stamp |-> clock + 1, text |-> old] \in Files
    BY <1>1, IndexAssumption DEF Files, Kinds, Times
  <2>2. ~NoReverts
    BY <1>7 DEF NoReverts
  <2> QED
    BY <1>1, <1>2, <1>7, <2>1, <2>2
<1>8. CASE kind \in {"text", "binary", "large"}
  <2>1. [kind |-> kind, stamp |-> clock + 1, text |-> clock + 1] \in Files
    BY <1>1, <1>8 DEF Files, Kinds
  <2> QED
    BY <1>1, <1>2, <1>8, <2>1
<1> QED
  BY <1>4, <1>5, <1>6, <1>7, <1>8 DEF EditKinds

\* A step of indexer i changes its own place, and what it has read, alone.
Own(i, label, todos, read) ==
  /\ pc' = [pc EXCEPT ![i] = label]
  /\ todo' = [todo EXCEPT ![i] = todos]
  /\ seen' = [seen EXCEPT ![i] = read]
  /\ UNCHANGED <<fsVars, search>>

Advances(i, label, todos, read) == Own(i, label, todos, read) /\ UNCHANGED <<given, changed>>

\* What each step of an indexer does.
Failing(i) ==
  /\ Advances(i, "failed", {}, NothingSeen) /\ UNCHANGED <<built, rows>> /\ Live(i)
  /\ IF lock = i THEN lock' = Nobody /\ work' = Empty ELSE UNCHANGED <<lock, work>>

Going(i, label) ==
  /\ UNCHANGED dbVars /\ pc[i] \in {"stat", "read"}
  /\ Advances(i, label, todo[i],
       [seen[i] EXCEPT !.file = Taken(i),
                       !.stamp = IF pc[i] = "stat" THEN Taken(i).stamp ELSE @])
  /\ label \in {"read", "store"}
  /\ label = "read" => pc[i] = "stat" /\ file[Here(i)].kind \in {"text", "binary"}
  /\ label = "store" =>
       IF pc[i] = "stat" THEN file[Here(i)].kind \in {"absent", "large"}
                         ELSE file[Here(i)].kind # "absent"

Skipping(i) ==
  /\ UNCHANGED dbVars /\ Advances(i, "select", todo[i] \ {Here(i)}, NothingSeen)
  /\ \/ /\ pc[i] = "stat" /\ seen[i].row.stamp = file[Here(i)].stamp
        /\ file[Here(i)].kind \in {"text", "binary"}
     \/ pc[i] = "read" /\ file[Here(i)].kind = "absent"

Selecting(i) ==
  /\ pc[i] = "select" /\ todo[i] # {} /\ UNCHANGED dbVars
  /\ Advances(i, "stat", todo[i], [seen[i] EXCEPT !.row = Current(i)[Here(i)]])

Storing(i) ==
  /\ pc[i] = "store" /\ lock \in {Nobody, i} /\ lock' = i /\ UNCHANGED <<built, rows>>
  /\ work' = [Current(i) EXCEPT ![Here(i)] =
                IF seen[i].file.kind = "text" THEN Stored(i, Here(i)) ELSE NoRow]
  /\ Advances(i, "select", todo[i] \ {Here(i)}, NothingSeen)

Beginning(i) ==
  /\ pc[i] = "begin" /\ lock \in {Nobody, i} /\ lock' = i /\ work' = rows
  /\ UNCHANGED <<built, rows>>
  /\ Advances(i, "select", todo[i], seen[i])

Finishing(i) ==
  /\ pc[i] = "select" /\ todo[i] = {} /\ lock \in {Nobody, i} /\ lock' = Nobody
  /\ work' = Empty /\ built' = TRUE
  /\ rows' = IF i \in Syncs THEN SyncResult(i) ELSE Current(i)
  /\ Advances(i, "done", todo[i], seen[i])

Starting(i) ==
  \E paths \in SUBSET Paths :
    \E label \in {"begin", "select", "skipped"} :
    /\ pc[i] = "idle" /\ Own(i, label, paths, seen[i]) /\ UNCHANGED dbVars
    /\ given' = [given EXCEPT ![i] = paths] /\ changed' = [changed EXCEPT ![i] = {}]
    /\ i \in Syncs => label = "begin" /\ paths = Listed
    /\ i \in Refreshes => label # "begin"

Works(i) ==
  \/ Failing(i) \/ (\E label : Going(i, label)) \/ Skipping(i) \/ Selecting(i) \/ Storing(i)
  \/ Finishing(i) \/ Starting(i)
  \/ i \in Syncs /\ Beginning(i)

LEMMA FailForm == ASSUME TypeOK, NEW i \in Indexers, Fail(i) PROVE Failing(i)
  BY DEF Fail, Failing, Close, Goto, Live, Advances, Own, dbVars

LEMMA SkipForm ==
  ASSUME TypeOK, NEW i \in Indexers, Skip(i)
  PROVE  UNCHANGED dbVars /\ Advances(i, "select", todo[i] \ {Here(i)}, NothingSeen)
  BY DEF Skip, NextPath, Goto, Advances, Own, Here, TypeOK

LEMMA GoForm ==
  ASSUME TypeOK, NEW i \in Indexers, NEW label, Go(i, label)
  PROVE  /\ UNCHANGED dbVars
         /\ Advances(i, label, todo[i],
              [seen[i] EXCEPT !.file = Taken(i),
                              !.stamp = IF pc[i] = "stat" THEN Taken(i).stamp ELSE @])
<1>1. /\ pc' = [pc EXCEPT ![i] = label]
      /\ UNCHANGED <<fsVars, dbVars, todo, given, changed, search>>
      /\ seen' = [seen EXCEPT ![i].file = Taken(i),
                              ![i].stamp = IF pc[i] = "stat" THEN Taken(i).stamp ELSE @]
  BY DEF Go, Goto
<1>2. seen[i] \in [row : Rows, stamp : Times, file : Files] /\ todo' = [todo EXCEPT ![i] = todo[i]]
  BY <1>1 DEF TypeOK
<1>3. seen' = [seen EXCEPT ![i] = [seen[i] EXCEPT !.file = Taken(i),
                 !.stamp = IF pc[i] = "stat" THEN Taken(i).stamp ELSE @]]
  BY <1>1 DEF TypeOK
<1> QED
  BY <1>1, <1>2, <1>3 DEF Advances, Own

\* The file as it is, but for the kind of one that has grown.
LEMMA TakenIs ==
  ASSUME TypeOK, NEW i \in Indexers, Here(i) \in Paths
  PROVE  /\ Taken(i) \in Files
         /\ Taken(i).text = file[Here(i)].text /\ Taken(i).stamp = file[Here(i)].stamp
         /\ pc[i] # "read" \/ file[Here(i)].kind # "large" => Taken(i) = file[Here(i)]
         /\ pc[i] = "read" /\ file[Here(i)].kind = "large" => Taken(i).kind = "text"
<1>1. file[Here(i)] \in Files
  BY DEF TypeOK
<1> QED
  BY <1>1 DEF Taken, Here, Files, Kinds

LEMMA StepForms ==
  ASSUME TypeOK, PlaceInv, NEW i \in Indexers,
         \/ Step(i) \/ Fail(i)
         \/ i \in Syncs /\ SyncStart(i)
         \/ i \in Refreshes /\ RefreshStart(i)
  PROVE  Works(i)
<1>1. CASE Fail(i) \/ LockTimeout(i)
  BY <1>1, FailForm DEF LockTimeout, Works
<1>2. CASE Select(i)
  <2>1. Selecting(i)
    BY <1>2 DEF Select, Selecting, Goto, Advances, Own, Here, TypeOK
  <2> QED
    BY <2>1 DEF Works
<1>3. CASE Stat(i)
  <2>1. pc[i] = "stat" /\ file[Here(i)] \in Files
    BY <1>3, HereIn DEF Stat, PlaceInv, AtPath, TypeOK
  <2>2. \/ Fail(i)
        \/ file[Here(i)].kind \in {"absent", "large"} /\ Go(i, "store")
        \/ /\ file[Here(i)].kind \in {"text", "binary"}
           /\ \/ seen[i].row.stamp = file[Here(i)].stamp /\ Skip(i)
              \/ Go(i, "read")
    BY <1>3, <2>1 DEF Stat, Here, Files, Kinds
  <2>3. Failing(i) \/ Skipping(i) \/ Going(i, "store") \/ Going(i, "read")
    BY <2>1, <2>2, FailForm, SkipForm, GoForm DEF Skipping, Going
  <2> QED
    BY <2>3 DEF Works
<1>4. CASE Read(i)
  <2>1. \/ pc[i] = "read" /\ file[Here(i)].kind # "absent" /\ Go(i, "store")
        \/ pc[i] = "read" /\ file[Here(i)].kind = "absent" /\ Skip(i)
        \/ Fail(i)
    BY <1>4 DEF Read, Here
  <2>2. Failing(i) \/ Skipping(i) \/ Going(i, "store")
    BY <2>1, FailForm, SkipForm, GoForm DEF Skipping, Going
  <2> QED
    BY <2>2 DEF Works
<1>5. CASE Store(i)
  <2>1. Storing(i)
    BY <1>5 DEF Store, Storing, NextPath, Write, Acquire, Goto, Advances, Own, Here, TypeOK
  <2> QED
    BY <2>1 DEF Works
<1>6. CASE i \in Syncs /\ SyncBegin(i)
  <2>1. Beginning(i)
    BY <1>6 DEF SyncBegin, Beginning, Acquire, Goto, Advances, Own, TypeOK
  <2> QED
    BY <1>6, <2>1 DEF Works
<1>7. CASE (i \in Syncs /\ SyncFinish(i)) \/ (i \in Refreshes /\ RefreshFinish(i))
  <2>1. Finishing(i)
    BY <1>7, IndexAssumption
       DEF SyncFinish, RefreshFinish, Finishing, Commit, Goto, Advances, Own, TypeOK
  <2> QED
    BY <2>1 DEF Works
<1>8. CASE i \in Syncs /\ SyncStart(i)
  <2>1. Listed \in SUBSET Paths
    BY DEF Listed
  <2>2. Starting(i)
    BY <1>8, <2>1, IndexAssumption DEF SyncStart, Starting, Start, Goto, Own, TypeOK
  <2> QED
    BY <2>2 DEF Works
<1>9. CASE i \in Refreshes /\ RefreshStart(i)
  <2>1. PICK paths \in SUBSET Paths :
          Start(i, paths, IF OpenExisting THEN "select" ELSE "skipped")
    BY <1>9 DEF RefreshStart
  <2>2. PICK label \in {"select", "skipped"} : Start(i, paths, label)
    BY <2>1
  <2>3. i \notin Syncs
    BY <1>9, IndexAssumption
  <2>4. seen' = [seen EXCEPT ![i] = seen[i]]
    BY <2>2 DEF Start, TypeOK
  <2>5. Own(i, label, paths, seen[i])
    BY <2>2, <2>4 DEF Start, Goto, Own
  <2>6. Starting(i)
    BY <2>2, <2>3, <2>5 DEF Starting, Start
  <2> QED
    BY <2>6 DEF Works
<1> QED
  BY <1>1, <1>2, <1>3, <1>4, <1>5, <1>6, <1>7, <1>8, <1>9 DEF Step

\* Where the others are, nothing changes.
Elsewhere(i) ==
  \A j \in Indexers \ {i} :
    /\ pc'[j] = pc[j] /\ todo'[j] = todo[j] /\ given'[j] = given[j]
    /\ seen'[j] = seen[j] /\ changed'[j] = changed[j]

LEMMA WorkElsewhere ==
  ASSUME TypeOK, NEW i \in Indexers, Works(i)
  PROVE  Elsewhere(i) /\ UNCHANGED <<file, clock, search>>
<1>1. ASSUME NEW label, NEW todos, NEW read, Own(i, label, todos, read)
      PROVE  /\ \A j \in Indexers \ {i} : pc'[j] = pc[j] /\ todo'[j] = todo[j] /\ seen'[j] = seen[j]
             /\ UNCHANGED <<file, clock, search>>
  BY <1>1 DEF Own, fsVars, TypeOK
<1>2. ASSUME NEW label, NEW todos, NEW read, Advances(i, label, todos, read)
      PROVE  Elsewhere(i) /\ UNCHANGED <<file, clock, search>>
  BY <1>1, <1>2 DEF Advances, Elsewhere
<1>3. CASE Starting(i)
  BY <1>1, <1>3 DEF Starting, Elsewhere, TypeOK
<1>4. CASE ~Starting(i)
  BY <1>2, <1>4 DEF Works, Failing, Going, Skipping, Selecting, Storing, Finishing, Beginning
<1> QED
  BY <1>3, <1>4

\* The row a text gets.
LEMMA StoredType ==
  ASSUME TypeOK, PlaceInv, NEW i \in Indexers, pc[i] = "store", seen[i].file.kind = "text"
  PROVE  /\ Stored(i, Here(i)) \in Rows
         /\ \/ seen[i].row.text = seen[i].file.text /\ Current(i)[Here(i)] = NoRow
               /\ Stored(i, Here(i)) = NoRow
            \/ /\ seen[i].row.text = seen[i].file.text /\ Current(i)[Here(i)] # NoRow
               /\ Stored(i, Here(i)) = [stamp |-> seen[i].stamp, text |-> Current(i)[Here(i)].text]
            \/ /\ seen[i].row.text # seen[i].file.text
               /\ Stored(i, Here(i)) = [stamp |-> seen[i].stamp, text |-> seen[i].file.text]
<1>1. Here(i) \in Paths
  BY HereIn DEF PlaceInv, AtPath
<1>2. Current(i)[Here(i)] \in Rows
  BY <1>1 DEF Current, TypeOK
<1>3. seen[i] \in [row : Rows, stamp : Times, file : Files]
  BY DEF TypeOK
<1>4. seen[i].stamp \in Times /\ seen[i].file.text \in Times
  BY <1>3 DEF Files
<1>5. \A row \in Rows : row # NoRow =>
        /\ row.text \in Times
        /\ [row EXCEPT !.stamp = seen[i].stamp] = [stamp |-> seen[i].stamp, text |-> row.text]
  BY DEF Rows
<1> QED
  BY <1>2, <1>4, <1>5, RowTypes DEF Stored

LEMMA WorkType ==
  ASSUME TypeOK, PlaceInv, NEW i \in Indexers, Works(i)
  PROVE  TypeOK' /\ PlaceInv'
<1>1. Elsewhere(i) /\ UNCHANGED <<file, clock, search>>
  BY WorkElsewhere
<1>2. todo[i] # {} => Here(i) \in todo[i] /\ Here(i) \in Paths
  BY HereIn
<1>3. ASSUME NEW label \in Ended \cup {"begin", "select", "stat", "read", "store"},
             NEW todos \in SUBSET Paths, NEW read \in [row : Rows, stamp : Times, file : Files],
             Own(i, label, todos, read),
             given' \in [Indexers -> SUBSET Paths], changed' \in [Indexers -> SUBSET Paths],
             todos \subseteq given'[i],
             label \in {"stat", "read", "store"} => todos # {},
             built' \in BOOLEAN, rows' \in [Paths -> Rows], work' \in [Paths -> Rows],
             lock' \in {lock, i, Nobody}
      PROVE  TypeOK' /\ PlaceInv'
  <2>1. /\ pc' \in [Indexers -> Ended \cup {"begin", "select", "stat", "read", "store"}]
        /\ todo' \in [Indexers -> SUBSET Paths]
        /\ seen' \in [Indexers -> [row : Rows, stamp : Times, file : Files]]
    BY <1>3 DEF Own, TypeOK
  <2>2. /\ file' \in [Paths -> Files] /\ clock' \in Times /\ lock' \in Indexers \cup {Nobody}
        /\ search' \in [Searches -> [pc : {"idle", "validate", "done", "unavailable"},
                              rows : [Paths -> Rows], todo : SUBSET Paths, matches : SUBSET Paths]]
    BY <1>1, <1>3 DEF TypeOK
  <2>3. TypeOK'
    BY <1>3, <2>1, <2>2 DEF TypeOK
  <2>4. pc'[i] = label /\ todo'[i] = todos
    BY <1>3 DEF Own, TypeOK
  <2>5. PlaceInv'
    BY <1>1, <1>3, <2>4 DEF PlaceInv, AtPath, Elsewhere
  <2> QED
    BY <2>3, <2>5
<1>4. /\ given \in [Indexers -> SUBSET Paths] /\ changed \in [Indexers -> SUBSET Paths]
      /\ built \in BOOLEAN /\ rows \in [Paths -> Rows] /\ work \in [Paths -> Rows]
      /\ Current(i) \in [Paths -> Rows] /\ Empty \in [Paths -> Rows]
      /\ todo[i] \in SUBSET Paths /\ seen[i] \in [row : Rows, stamp : Times, file : Files]
      /\ NothingSeen \in [row : Rows, stamp : Times, file : Files]
      /\ AtPath(i) => todo[i] # {}
      /\ todo[i] \subseteq given[i]
  BY RowTypes DEF TypeOK, PlaceInv, Current
<1>5. ASSUME NEW label \in Ended \cup {"begin", "select", "stat", "read", "store"},
             NEW todos \in SUBSET Paths, NEW read \in [row : Rows, stamp : Times, file : Files],
             Advances(i, label, todos, read), todos \subseteq given[i],
             label \in {"stat", "read", "store"} => todos # {},
             built' \in BOOLEAN, rows' \in [Paths -> Rows], work' \in [Paths -> Rows],
             lock' \in {lock, i, Nobody}
      PROVE  TypeOK' /\ PlaceInv'
  BY <1>3, <1>4, <1>5 DEF Advances
<1>6. CASE Failing(i)
  BY <1>4, <1>5, <1>6 DEF Failing, Ended
<1>7. ASSUME NEW label, Going(i, label)
      PROVE  TypeOK' /\ PlaceInv'
  <2>1. AtPath(i) /\ Taken(i) \in Files /\ Taken(i).stamp \in Times
    BY <1>2, <1>4, <1>7, TakenIs DEF Going, AtPath, Files
  <2>2. [seen[i] EXCEPT !.file = Taken(i),
                        !.stamp = IF pc[i] = "stat" THEN Taken(i).stamp ELSE @]
          \in [row : Rows, stamp : Times, file : Files]
    BY <1>4, <2>1
  <2> QED
    BY <1>4, <1>5, <1>7, <2>1, <2>2 DEF Going, dbVars
<1>8. CASE Skipping(i)
  <2>1. Advances(i, "select", todo[i] \ {Here(i)}, NothingSeen) /\ UNCHANGED dbVars
    BY <1>8 DEF Skipping
  <2>2. todo[i] \ {Here(i)} \in SUBSET Paths /\ todo[i] \ {Here(i)} \subseteq given[i]
    BY <1>4
  <2> QED
    BY <1>4, <1>5, <2>1, <2>2 DEF dbVars
<1>9. CASE Selecting(i)
  <2>1. [seen[i] EXCEPT !.row = Current(i)[Here(i)]] \in [row : Rows, stamp : Times, file : Files]
    BY <1>2, <1>4, <1>9 DEF Selecting
  <2> QED
    BY <1>4, <1>5, <1>9, <2>1 DEF Selecting, dbVars
<1>10. CASE Storing(i)
  <2>1. (IF seen[i].file.kind = "text" THEN Stored(i, Here(i)) ELSE NoRow) \in Rows
    BY <1>10, StoredType, RowTypes DEF Storing
  <2>2. work' \in [Paths -> Rows]
    BY <1>4, <1>10, <2>1 DEF Storing
  <2>3. Advances(i, "select", todo[i] \ {Here(i)}, NothingSeen)
        /\ lock' = i /\ UNCHANGED <<built, rows>>
    BY <1>10 DEF Storing
  <2>4. todo[i] \ {Here(i)} \in SUBSET Paths /\ todo[i] \ {Here(i)} \subseteq given[i]
    BY <1>4
  <2> QED
    BY <1>4, <1>5, <2>2, <2>3, <2>4
<1>11. CASE Finishing(i)
  <2>1. SyncResult(i) \in [Paths -> Rows]
    BY <1>4, RowTypes DEF SyncResult
  <2>2. rows' \in [Paths -> Rows]
    BY <1>4, <1>11, <2>1 DEF Finishing
  <2> QED
    BY <1>4, <1>5, <1>11, <2>2 DEF Finishing, Ended
<1>12. CASE Beginning(i)
  BY <1>4, <1>5, <1>12 DEF Beginning
<1>13. CASE Starting(i)
  <2>1. PICK paths \in SUBSET Paths, label \in {"begin", "select", "skipped"} :
          /\ Own(i, label, paths, seen[i]) /\ UNCHANGED dbVars
          /\ given' = [given EXCEPT ![i] = paths] /\ changed' = [changed EXCEPT ![i] = {}]
    BY <1>13 DEF Starting
  <2>2. /\ given' \in [Indexers -> SUBSET Paths] /\ changed' \in [Indexers -> SUBSET Paths]
        /\ given'[i] = paths
    BY <1>4, <2>1
  <2> QED
    BY <1>3, <1>4, <2>1, <2>2 DEF dbVars, Ended
<1> QED
  BY <1>6, <1>7, <1>8, <1>9, <1>10, <1>11, <1>12, <1>13 DEF Works

LEMMA EditKeepsTypes ==
  ASSUME TypeOK, PlaceInv, NEW p \in Paths, Edit(p)
  PROVE  TypeOK' /\ PlaceInv'
<1>1. UNCHANGED <<built, rows, work, lock, pc, todo, given, seen, search>>
  BY DEF Edit, dbVars
<1>2. PICK f \in Files : file' = [file EXCEPT ![p] = f]
  BY EditType
<1>3. file' \in [Paths -> Files] /\ clock' \in Times
  BY <1>2, EditType DEF TypeOK
<1>4. changed' \in [Indexers -> SUBSET Paths]
  BY DEF Edit, TypeOK
<1>5. TypeOK'
  BY <1>1, <1>3, <1>4 DEF TypeOK
<1> QED
  BY <1>1, <1>5 DEF PlaceInv, AtPath

\* What the steps of a search do.
SearchStates == [pc : {"idle", "validate", "done", "unavailable"}, rows : [Paths -> Rows],
                 todo : SUBSET Paths, matches : SUBSET Paths]

Searching(s) ==
  /\ UNCHANGED <<fsVars, dbVars, pc, todo, given, seen, changed>>
  /\ \E next \in SearchStates :
       /\ search' = [search EXCEPT ![s] = next]
       /\ next.rows \in {rows, search[s].rows, Empty}
       /\ \A p \in next.matches \ search[s].matches : Fresh(s, p)

LEMMA SearchForm ==
  ASSUME TypeOK, NEW s \in Searches, SearchStart(s) \/ Validate(s) \/ Answer(s)
  PROVE  Searching(s)
<1>1. search[s] \in SearchStates /\ DOMAIN search = Searches /\ rows \in [Paths -> Rows]
  BY DEF TypeOK, SearchStates
<1>2. UNCHANGED <<fsVars, dbVars, pc, todo, given, seen, changed>>
  BY DEF SearchStart, Validate, Answer
<1>3. ASSUME NEW next \in SearchStates, search' = [search EXCEPT ![s] = next],
             next.rows \in {rows, search[s].rows, Empty},
             \A p \in next.matches \ search[s].matches : Fresh(s, p)
      PROVE  Searching(s)
  BY <1>2, <1>3 DEF Searching
<1>4. CASE SearchStart(s)
  <2>1. CASE OpenExisting
    <3>1. PICK next : /\ next = [pc |-> "validate", rows |-> rows, matches |-> {},
                                 todo |-> {p \in Paths : rows[p] # NoRow}]
                      /\ search' = [search EXCEPT ![s] = next]
      BY <1>1, <1>4, <2>1 DEF SearchStart
    <3>2. next \in SearchStates /\ next.rows = rows /\ next.matches = {}
      BY <1>1, <3>1 DEF SearchStates
    <3> QED
      BY <1>3, <3>1, <3>2
  <2>2. CASE ~OpenExisting
    <3>1. PICK next : /\ next = [search[s] EXCEPT !.pc = "unavailable"]
                      /\ search' = [search EXCEPT ![s] = next]
      BY <1>1, <1>4, <2>2 DEF SearchStart
    <3>2. next \in SearchStates /\ next.rows = search[s].rows /\ next.matches = search[s].matches
      BY <1>1, <3>1 DEF SearchStates
    <3> QED
      BY <1>3, <3>1, <3>2
  <2> QED
    BY <2>1, <2>2
<1>5. CASE Validate(s)
  <2>1. PICK p \in Paths : p = Min(search[s].todo)
    BY <1>1, <1>5, MinIn DEF Validate, SearchStates
  <2>2. PICK matches \in SUBSET Paths :
          matches = IF Fresh(s, p) THEN search[s].matches \cup {p} ELSE search[s].matches
    BY <1>1 DEF SearchStates
  <2>3. PICK next : /\ next = [search[s] EXCEPT !.todo = search[s].todo \ {p}, !.matches = matches]
                    /\ search' = [search EXCEPT ![s] = next]
    BY <1>1, <1>5, <2>1, <2>2 DEF Validate
  <2>4. next \in SearchStates /\ next.rows = search[s].rows /\ next.matches = matches
    BY <1>1, <2>3 DEF SearchStates
  <2>5. \A q \in matches \ search[s].matches : Fresh(s, p) /\ q = p
    BY <2>2
  <2>6. \A q \in next.matches \ search[s].matches : Fresh(s, q)
    BY <2>4, <2>5
  <2> QED
    BY <1>3, <2>3, <2>4, <2>6
<1>6. CASE Answer(s)
  <2>1. PICK at \in {"unavailable", "done"} :
          at = IF search[s].matches = {} /\ search[s].rows # Empty THEN "unavailable" ELSE "done"
    OBVIOUS
  <2>2. PICK next : /\ next = [search[s] EXCEPT !.rows = Empty, !.pc = at]
                    /\ search' = [search EXCEPT ![s] = next]
    BY <1>1, <1>6, <2>1 DEF Answer
  <2>3. next \in SearchStates /\ next.rows = Empty /\ next.matches = search[s].matches
    BY <1>1, <2>2, RowTypes DEF SearchStates
  <2> QED
    BY <1>3, <2>2, <2>3
<1> QED
  BY <1>4, <1>5, <1>6

LEMMA SearchKeepsTypes ==
  ASSUME TypeOK, PlaceInv, NEW s \in Searches, Searching(s)
  PROVE  TypeOK' /\ PlaceInv'
<1>1. UNCHANGED <<file, clock, built, rows, work, lock, pc, todo, given, seen, changed>>
  BY DEF Searching, fsVars, dbVars
<1>2. search' \in [Searches -> SearchStates]
  BY DEF Searching, TypeOK, SearchStates
<1>3. TypeOK'
  BY <1>1, <1>2 DEF TypeOK, SearchStates
<1> QED
  BY <1>1, <1>3 DEF PlaceInv, AtPath

\* Every step is one of these.
LEMMA Steps ==
  ASSUME TypeOK, PlaceInv, [Next]_vars
  PROVE  \/ \E p \in Paths : Edit(p)
         \/ \E i \in Indexers : Works(i)
         \/ \E s \in Searches : Searching(s)
         \/ UNCHANGED vars
<1>1. \A i \in Syncs \cup Refreshes : i \in Indexers
  BY DEF Indexers
<1>2. ASSUME NEW i \in Indexers, \/ Step(i) \/ Fail(i) \/ (i \in Syncs /\ SyncStart(i))
                                \/ (i \in Refreshes /\ RefreshStart(i))
      PROVE  Works(i)
  BY <1>2, StepForms
<1> QED
  BY <1>1, <1>2, SearchForm DEF Next

LEMMA TypeStep == TypeOK /\ PlaceInv /\ [Next]_vars => TypeOK' /\ PlaceInv'
<1> SUFFICES ASSUME TypeOK, PlaceInv, [Next]_vars
             PROVE  TypeOK' /\ PlaceInv'
  OBVIOUS
<1>1. CASE UNCHANGED vars
  BY <1>1 DEF vars, fsVars, dbVars, TypeOK, PlaceInv, AtPath
<1> QED
  BY <1>1, Steps, EditKeepsTypes, WorkType, SearchKeepsTypes

\* The files, the rows committed and written, and the state of every sync, refresh and search
\* (`RepositoryIndex`) stay of their types, and an indexer that looks at a path has one.
THEOREM IndexTypes == Spec => [](TypeOK /\ PlaceInv)
<1>1. Init => TypeOK /\ PlaceInv
  BY IndexInitType
<1> QED
  BY <1>1, TypeStep, PTL DEF Spec

-----------------------------------------------------------------------------
(* What a step leaves *)

LEMMA AfterOwn ==
  ASSUME TypeOK, NEW i \in Indexers, NEW label, NEW todos, NEW read, Own(i, label, todos, read)
  PROVE  pc'[i] = label /\ todo'[i] = todos /\ seen'[i] = read
  BY DEF Own, TypeOK

LEMMA AfterAdvance ==
  ASSUME TypeOK, NEW i \in Indexers, NEW label, NEW todos, NEW read,
         Advances(i, label, todos, read)
  PROVE  pc'[i] = label /\ todo'[i] = todos /\ seen'[i] = read /\ UNCHANGED <<given, changed>>
  BY AfterOwn DEF Advances

\* Where another indexer is, nothing changes.
LEMMA Others ==
  ASSUME TypeOK, NEW i \in Indexers, Works(i), NEW j \in Indexers, j # i
  PROVE  /\ pc'[j] = pc[j] /\ todo'[j] = todo[j] /\ given'[j] = given[j] /\ seen'[j] = seen[j]
         /\ changed'[j] = changed[j] /\ Here(j)' = Here(j)
         /\ AtPath(j)' <=> AtPath(j)
         /\ Live(j)' <=> Live(j)
  BY WorkElsewhere DEF Elsewhere, Here, AtPath, Live

LEMMA LockStep ==
  ASSUME TypeOK, LockInv, [Next]_vars, PlaceInv
  PROVE  LockInv'
<1>1. CASE UNCHANGED vars
  BY <1>1 DEF vars, dbVars, LockInv
<1>2. ASSUME NEW p \in Paths, Edit(p)
      PROVE  LockInv'
  BY <1>2 DEF Edit, dbVars, LockInv
<1>3. ASSUME NEW s \in Searches, Searching(s)
      PROVE  LockInv'
  BY <1>3 DEF Searching, dbVars, LockInv
<1>4. ASSUME NEW i \in Indexers, Works(i)
      PROVE  LockInv'
  <2> DEFINE Busy == {"select", "stat", "read", "store"}
  <2>1. \A j \in Indexers \ {i} : pc'[j] = pc[j]
    BY <1>4, Others
  <2>2. lock \in Indexers \cup {Nobody} /\ Nobody \notin Indexers
    BY IndexAssumption DEF TypeOK
  <2>3. ASSUME UNCHANGED dbVars, pc[i] \in Busy => pc'[i] \in Busy,
               i \in Syncs /\ pc'[i] \in Busy => pc[i] \in Busy
        PROVE  LockInv'
    BY <2>1, <2>2, <2>3 DEF LockInv, dbVars, Indexers
  <2>4. ASSUME lock \in {Nobody, i}, lock' = i, pc'[i] \in Busy
        PROVE  LockInv'
    BY <2>1, <2>2, <2>4 DEF LockInv, Indexers
  <2>5. CASE Failing(i)
    <3>1. pc'[i] = "failed"
      BY <2>5, AfterAdvance DEF Failing
    <3>2. CASE lock = i
      BY <2>1, <2>2, <2>5, <3>1, <3>2 DEF LockInv, Failing, Indexers
    <3>3. CASE lock # i
      BY <2>1, <2>2, <2>5, <3>1, <3>3 DEF LockInv, Failing, Indexers
    <3> QED
      BY <3>2, <3>3
  <2>6. ASSUME NEW label, Going(i, label)
        PROVE  LockInv'
    BY <2>3, <2>6, AfterAdvance DEF Going
  <2>7. CASE Skipping(i)
    BY <2>3, <2>7, AfterAdvance DEF Skipping
  <2>8. CASE Selecting(i)
    BY <2>3, <2>8, AfterAdvance DEF Selecting
  <2>9. CASE Storing(i)
    BY <2>4, <2>9, AfterAdvance DEF Storing
  <2>10. CASE Finishing(i)
    <3>1. pc'[i] = "done" /\ lock \in {Nobody, i} /\ lock' = Nobody /\ work' = Empty
      BY <2>10, AfterAdvance DEF Finishing
    <3> QED
      BY <2>1, <2>2, <3>1 DEF LockInv, Indexers
  <2>11. CASE Starting(i)
    <3>1. PICK paths \in SUBSET Paths, label \in {"begin", "select", "skipped"} :
            /\ Own(i, label, paths, seen[i]) /\ UNCHANGED dbVars /\ pc[i] = "idle"
            /\ i \in Syncs => label = "begin"
      BY <2>11 DEF Starting
    <3>2. pc'[i] = label
      BY <3>1, AfterOwn
    <3> QED
      BY <2>3, <3>1, <3>2
  <2>12. CASE Beginning(i)
    BY <2>4, <2>12, AfterAdvance DEF Beginning
  <2> QED
    BY <1>4, <2>5, <2>6, <2>7, <2>8, <2>9, <2>10, <2>11, <2>12 DEF Works
<1> QED
  BY <1>1, <1>2, <1>3, <1>4, Steps

-----------------------------------------------------------------------------
(* A refresh and the rows of the files it was not given *)

LEMMA OthersStep ==
  ASSUME TypeOK, PlaceInv, LockInv, OthersKept, [Next]_vars
  PROVE  OthersKept'
<1>1. CASE UNCHANGED vars
  BY <1>1 DEF vars, dbVars, OthersKept
<1>2. ASSUME NEW p \in Paths, Edit(p)
      PROVE  OthersKept'
  BY <1>2 DEF Edit, dbVars, OthersKept
<1>3. ASSUME NEW s \in Searches, Searching(s)
      PROVE  OthersKept'
  BY <1>3 DEF Searching, dbVars, OthersKept
<1>4. ASSUME NEW i \in Indexers, Works(i)
      PROVE  OthersKept'
  <2>1. lock \in Indexers \cup {Nobody} /\ Nobody \notin Indexers
    BY IndexAssumption DEF TypeOK
  <2>2. ASSUME lock' = Nobody
        PROVE  OthersKept'
    BY <2>1, <2>2 DEF OthersKept, Indexers
  <2>3. ASSUME lock' = lock, UNCHANGED <<rows, work, given>>
        PROVE  OthersKept'
    BY <2>3 DEF OthersKept
  <2>4. CASE Failing(i)
    BY <2>1, <2>2, <2>3, <2>4 DEF Failing, Advances
  <2>5. CASE (\E label : Going(i, label)) \/ Skipping(i) \/ Selecting(i)
    BY <2>3, <2>5 DEF Going, Skipping, Selecting, Advances, dbVars
  <2>6. CASE Storing(i)
    <3>1. lock' = i /\ lock \in {Nobody, i} /\ UNCHANGED <<rows, given>> /\ Here(i) \in given[i]
      BY <2>6, HereIn DEF Storing, Advances, PlaceInv, AtPath
    <3>2. \A p \in Paths \ {Here(i)} : work'[p] = Current(i)[p]
      BY <2>6 DEF Storing, Current, TypeOK
    <3>3. i \in Refreshes => \A p \in Paths \ given[i] : Current(i)[p] = rows[p]
      BY DEF OthersKept, Current
    <3> QED
      BY <3>1, <3>2, <3>3 DEF OthersKept
  <2>7. CASE Finishing(i)
    BY <2>2, <2>7 DEF Finishing
  <2>8. CASE Starting(i)
    <3>1. \A j \in Indexers : j # i => given'[j] = given[j]
      BY <2>8, <1>4, Others
    <3>2. pc[i] = "idle" /\ UNCHANGED dbVars
      BY <2>8 DEF Starting
    <3>3. lock # i
      BY <2>1, <3>2 DEF LockInv
    <3> QED
      BY <3>1, <3>2, <3>3 DEF OthersKept, dbVars, Indexers
  <2>9. CASE i \in Syncs /\ Beginning(i)
    BY <2>9, IndexAssumption DEF Beginning, OthersKept
  <2> QED
    BY <1>4, <2>4, <2>5, <2>6, <2>7, <2>8, <2>9 DEF Works
<1> QED
  BY <1>1, <1>2, <1>3, <1>4, Steps

\* An indexer ends when it commits.
LEMMA FinishForm ==
  ASSUME TypeOK, PlaceInv, NEW i \in Indexers, [Next]_vars, Finishes(i)
  PROVE  Finishing(i)
<1>1. ~UNCHANGED pc
  BY DEF Finishes
<1>2. PICK j \in Indexers : Works(j)
  BY <1>1, Steps DEF Edit, Searching, vars
<1>3. j = i
  BY <1>2, Others DEF Finishes
<1>4. ~Starting(i)
  <2>1. ASSUME Starting(i)
        PROVE  pc'[i] # "done"
    <3>1. PICK paths \in SUBSET Paths, label \in {"begin", "select", "skipped"} :
            Own(i, label, paths, seen[i])
      BY <2>1 DEF Starting
    <3>2. pc'[i] = label
      BY <3>1, AfterOwn
    <3> QED
      BY <3>2
  <2> QED
    BY <2>1 DEF Finishes
<1>5. ASSUME NEW label, NEW todos, NEW read, Advances(i, label, todos, read)
      PROVE  label = "done"
  BY <1>5, AfterAdvance DEF Finishes
<1>6. ~Failing(i) /\ ~Skipping(i) /\ ~Selecting(i) /\ ~Storing(i) /\ ~Beginning(i)
  BY <1>5 DEF Failing, Skipping, Selecting, Storing, Beginning
<1>7. \A label : ~Going(i, label)
  BY <1>5 DEF Going
<1> QED
  BY <1>2, <1>3, <1>4, <1>6, <1>7 DEF Works

-----------------------------------------------------------------------------
(* Rows tell the truth *)

\* The texts of a file.
LEMMA Texts ==
  ASSUME TypeOK
  PROVE  /\ clock \in Nat
         /\ \A p \in Paths : file[p] \in Files /\ file[p].stamp \in Nat /\ file[p].text \in Nat
         /\ \A row \in Rows : /\ row.text \in Int /\ row.stamp \in Int
                              /\ row # NoRow => row.text \in Nat
         /\ NoRow.text = -1 /\ NoRow.stamp = -1
         /\ rows \in [Paths -> Rows] /\ work \in [Paths -> Rows]
         /\ \A i \in Indexers : /\ seen[i].row \in Rows /\ seen[i].stamp \in Times
                                /\ seen[i].stamp \in Nat
                                /\ seen[i].file \in Files /\ seen[i].file.text \in Times
                                /\ seen[i].file.text \in Nat
                                /\ Current(i) \in [Paths -> Rows]
<1>1. Times \subseteq Nat
  BY IndexAssumption DEF Times
<1>2. \A row \in Rows : row.text \in Int /\ row.stamp \in Int /\ (row # NoRow => row.text \in Nat)
  <2>1. NoRow.text \in Int /\ NoRow.stamp \in Int
    BY DEF NoRow
  <2>2. \A row \in [stamp : Times, text : Times] : row.text \in Nat /\ row.stamp \in Nat
    BY <1>1
  <2> QED
    BY <2>1, <2>2 DEF Rows
<1>3. \A f \in Files : f.stamp \in Nat /\ f.text \in Nat /\ f.text \in Times
  BY <1>1 DEF Files
<1> QED
  BY <1>1, <1>2, <1>3 DEF TypeOK, Current, NoRow

\* A row that was honest before a change of a file is honest after it.
LEMMA HonestEdit ==
  ASSUME TypeOK, RowsHonest, NoReverts, NEW p \in Paths, Edit(p), NEW q \in Paths
  PROVE  /\ file[q].text <= file'[q].text /\ file'[q].text <= clock' /\ clock <= clock'
         /\ file'[q].stamp <= clock'
         /\ \A row \in Rows : Honest(q, row) => Honest(q, row)'
<1>1. clock' = clock + 1 /\ clock \in Nat /\ file[q].text \in Nat /\ file[q].text <= clock
  BY Texts, EditType DEF RowsHonest
<1>2. PICK f \in Files :
        /\ file' = [file EXCEPT ![p] = f]
        /\ \/ f.kind = "absent" /\ f.text = file[p].text /\ f.stamp = file[p].stamp
           \/ f.stamp = clock' /\ f.text \in {file[p].text, clock'}
  BY EditType
<1>3. file'[q] = IF q = p THEN f ELSE file[q]
  BY <1>2 DEF TypeOK
<1>4. file[q].text <= file'[q].text /\ file'[q].text <= clock' /\ file'[q].stamp <= clock'
  <2>1. file[q].stamp \in Nat /\ file[q].stamp <= clock
    BY Texts DEF RowsHonest
  <2> QED
    BY <1>1, <1>2, <1>3, <2>1
<1>5. ASSUME NEW row \in Rows, Honest(q, row)
      PROVE  Honest(q, row)'
  <2>1. row.text \in Int /\ row.stamp \in Int /\ file'[q].text \in Nat
    BY <1>1, <1>2, <1>3, <1>4, Texts
  <2>2. CASE row = NoRow
    BY <2>2 DEF Honest
  <2>3. CASE row # NoRow
    <3>1. row.stamp <= clock /\ row.text <= file[q].text
      BY <1>5, <2>3 DEF Honest
    <3>2. row.stamp <= clock' /\ row.text <= file'[q].text
      BY <1>1, <1>4, <2>1, <3>1
    <3>3. CASE q # p
      BY <1>3, <1>5, <2>3, <3>2, <3>3 DEF Honest, Describes
    <3>4. CASE q = p
      <4>1. file'[q].kind # "absent" => row.stamp # file'[q].stamp
        BY <1>1, <1>2, <1>3, <2>1, <3>1, <3>4
      <4> QED
        BY <3>2, <4>1 DEF Honest
    <3> QED
      BY <3>3, <3>4
  <2> QED
    BY <2>2, <2>3
<1> QED
  BY <1>1, <1>4, <1>5

\* No other step makes a row less honest.
LEMMA HonestStays ==
  ASSUME NEW p, NEW row, Honest(p, row), UNCHANGED <<file, clock>>
  PROVE  Honest(p, row)'
  BY DEF Honest, Describes

\* What an indexer writes is honest, and no older than what it found.
LEMMA StoredHonest ==
  ASSUME TypeOK, PlaceInv, LockInv, RowsHonest, ReadHonest, SeenInv,
         NEW i \in Indexers, pc[i] = "store", seen[i].file.kind = "text"
  PROVE  Honest(Here(i), Stored(i, Here(i)))
<1>1. Here(i) \in Paths /\ AtPath(i)
  BY HereIn DEF PlaceInv, AtPath
<1>2. Honest(Here(i), Current(i)[Here(i)])
  BY <1>1 DEF RowsHonest, Current
<1>3. Honest(Here(i), [stamp |-> seen[i].stamp, text |-> seen[i].file.text])
  BY <1>1 DEF ReadHonest
<1>4. CASE seen[i].row.text = seen[i].file.text /\ Current(i)[Here(i)] # NoRow
  <2>1. seen[i].row.text = seen[i].file.text
    BY <1>4
  <2>2. Current(i)[Here(i)].text >= seen[i].row.text
    <3>1. CASE lock = i
      BY <1>1, <3>1, Texts DEF SeenInv, Current
    <3>2. CASE lock # i
      BY <1>1, <1>4, <3>2, Texts DEF SeenInv, Current, NoOlder
    <3> QED
      BY <3>1, <3>2
  <2>3. Current(i)[Here(i)].text <= file[Here(i)].text
    BY <1>2, <1>4 DEF Honest
  <2>4. Stored(i, Here(i)) = [stamp |-> seen[i].stamp, text |-> Current(i)[Here(i)].text]
    BY <1>4, StoredType
  <2>5. [stamp |-> seen[i].stamp, text |-> seen[i].file.text] # NoRow
    BY Texts
  <2>6. /\ seen[i].stamp <= clock
        /\ file[Here(i)].kind # "absent" /\ seen[i].stamp = file[Here(i)].stamp =>
             file[Here(i)].kind = "text" /\ seen[i].file.text = file[Here(i)].text
    BY <1>3, <2>5 DEF Honest, Describes
  <2>7. /\ Current(i)[Here(i)].text \in Int /\ seen[i].file.text \in Nat
        /\ file[Here(i)].text \in Nat
    BY <1>1, Texts
  <2>8. file[Here(i)].kind # "absent" /\ seen[i].stamp = file[Here(i)].stamp =>
          file[Here(i)].kind = "text" /\ Current(i)[Here(i)].text = file[Here(i)].text
    BY <2>1, <2>2, <2>3, <2>6, <2>7
  <2> QED
    BY <2>3, <2>4, <2>6, <2>8 DEF Honest, Describes
<1>5. CASE ~(seen[i].row.text = seen[i].file.text /\ Current(i)[Here(i)] # NoRow)
  <2>1. Stored(i, Here(i)) \in {NoRow, [stamp |-> seen[i].stamp, text |-> seen[i].file.text]}
    BY <1>5, StoredType
  <2>2. Honest(Here(i), NoRow)
    BY DEF Honest
  <2> QED
    BY <1>3, <2>1, <2>2
<1> QED
  BY <1>4, <1>5

\* What a step does to a row that was honest.
LEMMA HonestStep ==
  ASSUME TypeOK, PlaceInv, RowsHonest, NoReverts, [Next]_vars, NEW q \in Paths
  PROVE  /\ file[q].text <= file'[q].text /\ file'[q].text <= clock' /\ clock <= clock'
         /\ file'[q].stamp <= clock'
         /\ \A row \in Rows : Honest(q, row) => Honest(q, row)'
<1>1. CASE UNCHANGED <<file, clock>>
  <2>1. /\ file[q].text \in Nat /\ clock \in Nat
        /\ file[q].text <= clock /\ file[q].stamp <= clock
    BY Texts DEF RowsHonest
  <2> QED
    BY <1>1, <2>1, HonestStays
<1>2. ASSUME NEW i \in Indexers, Works(i)
      PROVE  UNCHANGED <<file, clock>>
  BY <1>2, WorkElsewhere
<1>3. ASSUME NEW s \in Searches, Searching(s)
      PROVE  UNCHANGED <<file, clock>>
  BY <1>3 DEF Searching, fsVars
<1>4. CASE UNCHANGED vars
  BY <1>1, <1>4 DEF vars, fsVars
<1> QED
  BY <1>1, <1>2, <1>3, <1>4, Steps, HonestEdit

LEMMA RowsStep ==
  ASSUME TypeOK, TypeOK', PlaceInv, HonestInv, NoReverts, [Next]_vars
  PROVE  RowsHonest'
<1> USE DEF HonestInv
<1>1. ASSUME \A p \in Paths : Honest(p, rows'[p]) /\ Honest(p, work'[p]),
             \A s \in Searches, p \in Paths : Honest(p, search'[s].rows[p])
      PROVE  RowsHonest'
  <2>1. \A p \in Paths : rows'[p] \in Rows /\ work'[p] \in Rows
    BY DEF TypeOK
  <2>2. \A s \in Searches, p \in Paths : search'[s].rows[p] \in Rows
    BY DEF TypeOK
  <2>3. ASSUME NEW p \in Paths
        PROVE  /\ Honest(p, rows[p])' /\ Honest(p, work[p])'
               /\ file'[p].text <= clock' /\ file'[p].stamp <= clock'
    <3>1. PICK row \in Rows : row = rows'[p]
      BY <2>1
    <3>2. PICK written \in Rows : written = work'[p]
      BY <2>1
    <3> QED
      BY <1>1, <3>1, <3>2, HonestStep
  <2>4. ASSUME NEW s \in Searches, NEW p \in Paths
        PROVE  Honest(p, search[s].rows[p])'
    <3>1. PICK row \in Rows : row = search'[s].rows[p]
      BY <2>2
    <3> QED
      BY <1>1, <3>1, HonestStep
  <2> QED
    BY <2>3, <2>4 DEF RowsHonest
<1>2. \A p \in Paths : Honest(p, NoRow) /\ Empty[p] = NoRow
  BY DEF Honest, Empty
<1>3. CASE UNCHANGED <<rows, work, search>>
  BY <1>1, <1>3 DEF RowsHonest
<1>4. CASE UNCHANGED vars \/ \E p \in Paths : Edit(p)
  BY <1>3, <1>4 DEF vars, Edit, dbVars
<1>5. ASSUME NEW s \in Searches, Searching(s)
      PROVE  RowsHonest'
  <2>1. UNCHANGED <<rows, work>>
    BY <1>5 DEF Searching, dbVars
  <2>2. PICK next \in SearchStates :
          search' = [search EXCEPT ![s] = next] /\ next.rows \in {rows, search[s].rows, Empty}
    BY <1>5 DEF Searching
  <2>3. \A t \in Searches : search'[t].rows \in {rows, search[t].rows, Empty}
    BY <2>2 DEF TypeOK
  <2>4. \A t \in Searches, p \in Paths : Honest(p, search'[t].rows[p])
    BY <1>2, <2>3 DEF RowsHonest
  <2> QED
    BY <1>1, <2>1, <2>4 DEF RowsHonest
<1>6. ASSUME NEW i \in Indexers, Works(i)
      PROVE  RowsHonest'
  <2>1. UNCHANGED search
    BY <1>6, WorkElsewhere
  <2>2. ASSUME \A p \in Paths : Honest(p, rows'[p]) /\ Honest(p, work'[p])
        PROVE  RowsHonest'
    BY <1>1, <2>1, <2>2 DEF RowsHonest
  <2>3. CASE Failing(i)
    BY <1>2, <2>2, <2>3 DEF Failing, RowsHonest
  <2>4. CASE (\E label : Going(i, label)) \/ Skipping(i) \/ Selecting(i) \/ Starting(i)
    <3>1. UNCHANGED <<rows, work>>
      BY <2>4 DEF Going, Skipping, Selecting, Starting, dbVars
    <3> QED
      BY <2>2, <3>1 DEF RowsHonest
  <2>5. CASE Storing(i)
    <3>1. PICK row : /\ row = IF seen[i].file.kind = "text" THEN Stored(i, Here(i)) ELSE NoRow
                     /\ work' = [Current(i) EXCEPT ![Here(i)] = row]
      BY <2>5 DEF Storing
    <3>2. Here(i) \in Paths
      BY <2>5, HereIn DEF Storing, PlaceInv, AtPath
    <3>3. Honest(Here(i), row)
      BY <1>2, <2>5, <3>1, <3>2, StoredHonest DEF Storing
    <3>4. \A p \in Paths : Honest(p, Current(i)[p])
      BY DEF RowsHonest, Current
    <3>5. \A p \in Paths : work'[p] = IF p = Here(i) THEN row ELSE Current(i)[p]
      BY <3>1, Texts
    <3>6. \A p \in Paths : Honest(p, work'[p])
      BY <3>3, <3>4, <3>5
    <3> QED
      BY <2>2, <2>5, <3>6 DEF Storing, RowsHonest
  <2>6. CASE Finishing(i)
    <3>1. \A p \in Paths : rows'[p] \in {rows[p], work[p], NoRow}
      BY <2>6 DEF Finishing, SyncResult, Current
    <3>2. \A p \in Paths : Honest(p, rows'[p])
      BY <1>2, <3>1 DEF RowsHonest
    <3> QED
      BY <1>2, <2>2, <2>6, <3>2 DEF Finishing
  <2>7. CASE Beginning(i)
    BY <2>2, <2>7 DEF Beginning, RowsHonest
  <2> QED
    BY <1>6, <2>3, <2>4, <2>5, <2>6, <2>7 DEF Works
<1> QED
  BY <1>4, <1>5, <1>6, Steps

LEMMA ReadStep ==
  ASSUME TypeOK, TypeOK', PlaceInv, PlaceInv', HonestInv, NoReverts, [Next]_vars
  PROVE  ReadHonest'
<1> DEFINE Kept(i) == pc'[i] = pc[i] /\ todo'[i] = todo[i] /\ seen'[i] = seen[i]
           Found(i) == [stamp |-> seen[i].stamp, text |-> seen[i].file.text]
           ReadOf(i) == /\ seen[i].stamp <= clock
                        /\ AtPath(i) => Honest(Here(i), seen[i].row)
                        /\ pc[i] = "store" /\ seen[i].file.kind = "text" =>
                             Honest(Here(i), Found(i))
                        /\ pc[i] = "read" /\ file[Here(i)].kind = "large" =>
                             seen[i].stamp # file[Here(i)].stamp
<1> SUFFICES ASSUME NEW i \in Indexers
             PROVE  ReadOf(i)'
  BY DEF ReadHonest
<1>1. ReadOf(i)
  BY DEF HonestInv, ReadHonest
<1>2. clock <= clock' /\ clock \in Nat /\ clock' \in Nat /\ seen[i].stamp \in Nat
      /\ seen'[i].row \in Rows /\ seen'[i].stamp \in Nat /\ seen'[i].file \in Files
      /\ [stamp |-> seen'[i].stamp, text |-> seen'[i].file.text] \in Rows
  <2>1. clock \in Nat /\ seen[i].stamp \in Nat
    BY Texts
  <2>2. clock' \in Nat /\ seen'[i] \in [row : Rows, stamp : Times, file : Files]
    BY IndexAssumption DEF TypeOK, Times
  <2>3. seen'[i].stamp \in Times /\ seen'[i].file.text \in Times /\ seen'[i].stamp \in Nat
    BY <2>2, IndexAssumption DEF Files, Times
  <2>4. clock <= clock'
    <3>1. CASE \E p \in Paths : Edit(p)
      BY <2>1, <3>1, EditType
    <3>2. CASE (\E j \in Indexers : Works(j)) \/ UNCHANGED vars \/ \E s \in Searches : Searching(s)
      BY <2>1, <3>2, WorkElsewhere DEF vars, fsVars, Searching
    <3> QED
      BY <3>1, <3>2, Steps
  <2> QED
    BY <2>1, <2>2, <2>3, <2>4, RowTypes
<1>3. \A q \in Paths, row \in Rows : Honest(q, row) => Honest(q, row)'
  BY HonestStep DEF HonestInv
<1>4. AtPath(i)' => Here(i)' \in Paths
  <2>1. AtPath(i)' => todo'[i] # {} /\ todo'[i] \subseteq Paths
    BY DEF PlaceInv, TypeOK
  <2> QED
    BY <2>1, MinIn DEF Here
<1>5. ASSUME seen'[i].stamp <= clock,
             AtPath(i)' => Honest(Here(i)', seen'[i].row),
             pc'[i] = "store" /\ seen'[i].file.kind = "text" =>
               Honest(Here(i)', [stamp |-> seen'[i].stamp, text |-> seen'[i].file.text]),
             pc'[i] = "read" /\ file'[Here(i)'].kind = "large" =>
               seen'[i].stamp # file'[Here(i)'].stamp
      PROVE  ReadOf(i)'
  <2>1. seen'[i].stamp <= clock'
    BY <1>2, <1>5
  <2>2. ASSUME AtPath(i)'
        PROVE  Honest(Here(i), seen[i].row)'
    <3>1. PICK q \in Paths : q = Here(i)'
      BY <1>4, <2>2
    <3>2. PICK row \in Rows : row = seen'[i].row
      BY <1>2
    <3> QED
      BY <1>3, <1>5, <2>2, <3>1, <3>2
  <2>3. ASSUME pc'[i] = "store", seen'[i].file.kind = "text"
        PROVE  Honest(Here(i), Found(i))'
    <3>1. PICK q \in Paths : q = Here(i)'
      BY <1>4, <2>3 DEF AtPath
    <3>2. PICK row \in Rows : row = [stamp |-> seen'[i].stamp, text |-> seen'[i].file.text]
      BY <1>2
    <3> QED
      BY <1>3, <1>5, <2>3, <3>1, <3>2
  <2> QED
    BY <1>5, <2>1, <2>2, <2>3
\* A file that grows once its size has been looked at has a stamp of its own by then.
<1>6. CASE Kept(i)
  <2>1. Here(i)' = Here(i) /\ (AtPath(i)' <=> AtPath(i))
    BY <1>6 DEF Here, AtPath
  <2>2. ASSUME pc'[i] = "read", file'[Here(i)].kind = "large"
        PROVE  seen[i].stamp # file'[Here(i)].stamp
    <3>1. Here(i) \in Paths
      BY <1>4, <1>6, <2>1, <2>2 DEF AtPath
    <3>2. CASE file' = file
      BY <1>1, <1>6, <2>2, <3>2
    <3>3. ASSUME NEW p \in Paths, Edit(p)
          PROVE  seen[i].stamp # file'[Here(i)].stamp
      <4>1. PICK f \in Files : /\ file' = [file EXCEPT ![p] = f] /\ clock' = clock + 1
                               /\ f.kind = "absent" \/ f.stamp = clock'
        BY <3>3, EditType
      <4>2. CASE p # Here(i)
        BY <1>1, <1>6, <2>2, <3>1, <4>1, <4>2 DEF TypeOK
      <4>3. CASE p = Here(i)
        <5>1. file'[Here(i)] = f
          BY <3>1, <4>1, <4>3 DEF TypeOK
        <5> QED
          BY <1>1, <1>2, <2>2, <4>1, <5>1
      <4> QED
        BY <4>2, <4>3
    <3>4. CASE (\E j \in Indexers : Works(j)) \/ (\E s \in Searches : Searching(s)) \/ UNCHANGED vars
      BY <3>2, <3>4, WorkElsewhere DEF Searching, vars, fsVars
    <3> QED
      BY <3>3, <3>4, Steps
  <2> QED
    BY <1>1, <1>5, <1>6, <2>1, <2>2
<1>7. ASSUME NEW j \in Indexers, Works(j), j # i
      PROVE  Kept(i)
  BY <1>7, Others
<1>8. CASE (\E p \in Paths : Edit(p)) \/ (\E s \in Searches : Searching(s)) \/ UNCHANGED vars
  <2>1. Kept(i)
    BY <1>8 DEF Edit, Searching, vars
  <2> QED
    BY <1>6, <2>1
<1>9. CASE Works(i)
  <2>1. ASSUME ~AtPath(i)', seen'[i].stamp <= clock
        PROVE  ReadOf(i)'
    BY <1>5, <2>1 DEF AtPath
  <2>2. NothingSeen.stamp <= clock
    BY <1>2 DEF NothingSeen
  <2>3. CASE Failing(i) \/ Skipping(i) \/ Storing(i)
    <3>1. pc'[i] \in {"failed", "select"} /\ seen'[i] = NothingSeen
      BY <2>3, AfterAdvance DEF Failing, Skipping, Storing
    <3> QED
      BY <2>1, <2>2, <3>1 DEF AtPath
  <2>4. CASE Finishing(i) \/ Beginning(i)
    <3>1. pc'[i] \in {"done", "select"} /\ seen'[i] = seen[i]
      BY <2>4, AfterAdvance DEF Finishing, Beginning
    <3> QED
      BY <1>1, <2>1, <3>1 DEF AtPath
  <2>5. CASE Starting(i)
    <3>1. PICK paths \in SUBSET Paths, label \in {"begin", "select", "skipped"} :
            Own(i, label, paths, seen[i])
      BY <2>5 DEF Starting
    <3>2. pc'[i] \in {"begin", "select", "skipped"} /\ seen'[i] = seen[i]
      BY <3>1, AfterOwn
    <3> QED
      BY <1>1, <2>1, <3>2 DEF AtPath
  <2>6. CASE Selecting(i)
    <3>1. pc'[i] = "stat" /\ todo'[i] = todo[i]
          /\ seen'[i] = [seen[i] EXCEPT !.row = Current(i)[Here(i)]]
      BY <2>6, AfterAdvance DEF Selecting
    <3>2. seen'[i].stamp = seen[i].stamp /\ seen'[i].row = Current(i)[Here(i)]
      BY <3>1 DEF TypeOK
    <3>3. Here(i)' = Here(i) /\ Here(i) \in Paths
      BY <2>6, <3>1, HereIn DEF Here, Selecting
    <3>4. Honest(Here(i), Current(i)[Here(i)])
      BY <3>3 DEF HonestInv, RowsHonest, Current
    <3> QED
      BY <1>1, <1>5, <3>1, <3>2, <3>3, <3>4
  <2>7. ASSUME NEW label, Going(i, label)
        PROVE  ReadOf(i)'
    <3>1. /\ pc'[i] = label /\ todo'[i] = todo[i]
          /\ seen'[i] = [seen[i] EXCEPT !.file = Taken(i),
                           !.stamp = IF pc[i] = "stat" THEN Taken(i).stamp ELSE @]
      BY <2>7, AfterAdvance DEF Going
    <3>2. /\ seen'[i].row = seen[i].row /\ seen'[i].file = Taken(i)
          /\ seen'[i].stamp = IF pc[i] = "stat" THEN Taken(i).stamp ELSE seen[i].stamp
      BY <3>1 DEF TypeOK
    <3>3. AtPath(i) /\ Here(i)' = Here(i)
      BY <2>7, <3>1 DEF Here, Going, AtPath
    <3>4. Here(i) \in Paths /\ file' = file
      BY <3>3, HereIn, <1>9, WorkElsewhere DEF PlaceInv
    <3>9. /\ Taken(i).text = file[Here(i)].text /\ Taken(i).stamp = file[Here(i)].stamp
          /\ pc[i] # "read" \/ file[Here(i)].kind # "large" => Taken(i) = file[Here(i)]
      BY <3>4, TakenIs
    <3>5. /\ seen[i].stamp <= clock /\ file[Here(i)].stamp <= clock
          /\ file[Here(i)].text \in Nat
          /\ Honest(Here(i), seen[i].row)
      BY <1>1, <3>3, <3>4, Texts DEF HonestInv, RowsHonest
    <3>6. seen'[i].stamp <= clock
      BY <3>2, <3>5, <3>9
    <3>7. ASSUME seen'[i].file.kind = "text"
          PROVE  Honest(Here(i)', [stamp |-> seen'[i].stamp, text |-> seen'[i].file.text])
      <4>1. CASE pc[i] = "read" /\ file[Here(i)].kind = "large"
        BY <1>1, <3>2, <3>3, <3>5, <3>6, <3>9, <4>1 DEF Honest
      <4>2. CASE ~(pc[i] = "read" /\ file[Here(i)].kind = "large")
        BY <3>2, <3>3, <3>5, <3>6, <3>7, <3>9, <4>2 DEF Honest, Describes
      <4> QED
        BY <4>1, <4>2
    <3>8. pc'[i] = "read" => file'[Here(i)'].kind # "large"
      BY <2>7, <3>1, <3>3, <3>4 DEF Going
    <3> QED
      BY <1>5, <3>2, <3>3, <3>5, <3>6, <3>7, <3>8
  <2> QED
    BY <1>9, <2>3, <2>4, <2>5, <2>6, <2>7 DEF Works
<1> QED
  BY <1>6, <1>7, <1>8, <1>9, Steps

\* How the row read, the row written and the row committed of a path compare.
LEMMA SeenStep ==
  ASSUME TypeOK, PlaceInv, HonestInv, OneRefresh, [Next]_vars
  PROVE  SeenInv'
<1>1. CASE UNCHANGED <<rows, work, lock, pc, todo, seen>>
  BY <1>1 DEF HonestInv, SeenInv, AtPath, Here
<1>2. CASE (\E p \in Paths : Edit(p)) \/ (\E s \in Searches : Searching(s)) \/ UNCHANGED vars
  BY <1>1, <1>2 DEF Edit, Searching, vars, dbVars
<1>3. ASSUME NEW i \in Indexers, Works(i)
      PROVE  SeenInv'
  <2> USE DEF HonestInv
  <2> DEFINE RowRead(j) == AtPath(j) => IF lock = j THEN work[Here(j)] = seen[j].row
                                        ELSE NoOlder(rows[Here(j)], seen[j].row.text)
             Newer == lock \in Syncs => \A p \in Paths : NoOlder(work[p], rows[p].text)
             NewerThanRead(j) ==
               lock \in Syncs /\ j \in Refreshes /\ AtPath(j) =>
                 NoOlder(work[Here(j)], seen[j].row.text)
             Writing == lock \in Syncs /\ pc[lock] = "store" /\ seen[lock].file.kind = "text"
             ReadNewer == Writing => seen[lock].file.text >= rows[Here(lock)].text
             ReadNewerThanRead(j) ==
               Writing /\ j \in Refreshes /\ AtPath(j) /\ Here(j) = Here(lock) =>
                 seen[lock].file.text >= seen[j].row.text
  <2>1. /\ Newer /\ ReadNewer
        /\ \A j \in Indexers : RowRead(j) /\ NewerThanRead(j) /\ ReadNewerThanRead(j)
    BY DEF SeenInv
  <2>2. ASSUME Newer', ReadNewer', RowRead(i)', NewerThanRead(i)', ReadNewerThanRead(i)',
               \A j \in Indexers \ {i} : RowRead(j)' /\ NewerThanRead(j)' /\ ReadNewerThanRead(j)'
        PROVE  SeenInv'
    BY <2>2 DEF SeenInv, Indexers
  <2>3. \A j \in Indexers \ {i} :
          /\ pc'[j] = pc[j] /\ seen'[j] = seen[j] /\ Here(j)' = Here(j)
          /\ AtPath(j)' <=> AtPath(j)
    BY <1>3, Others
  <2>4. Syncs \subseteq Indexers /\ Refreshes \subseteq Indexers /\ Nobody \notin Indexers
        /\ Syncs \cap Refreshes = {} /\ lock \in Indexers \cup {Nobody}
    BY IndexAssumption DEF Indexers, TypeOK
  <2>5. ASSUME ~AtPath(i)', UNCHANGED <<rows, work, lock>>
        PROVE  SeenInv'
    <3>1. Newer' /\ \A j \in Indexers \ {i} : RowRead(j)' /\ NewerThanRead(j)'
      BY <2>1, <2>3, <2>4, <2>5
    <3>2. Writing' => Writing /\ lock # i
      BY <2>3, <2>4, <2>5 DEF AtPath
    <3>3. ReadNewer' /\ \A j \in Indexers \ {i} : ReadNewerThanRead(j)'
      BY <2>1, <2>3, <2>4, <2>5, <3>2
    <3> QED
      BY <2>2, <2>5, <3>1, <3>3
  <2>6. ASSUME ~AtPath(i)', UNCHANGED rows, lock \in {Nobody, i}, lock' \in {Nobody, i},
               lock' \notin Syncs
        PROVE  SeenInv'
    <3>1. \A j \in Indexers \ {i} : RowRead(j)'
      BY <2>1, <2>3, <2>4, <2>6
    <3> QED
      BY <2>2, <2>6, <3>1
  <2>7. CASE Failing(i)
    <3>1. ~AtPath(i)'
      BY <2>7, AfterAdvance DEF Failing, AtPath
    <3> QED
      BY <2>4, <2>5, <2>6, <2>7, <3>1 DEF Failing
  <2>8. CASE Skipping(i) \/ Starting(i)
    <3>1. CASE Skipping(i)
      BY <2>5, <3>1, AfterAdvance DEF Skipping, AtPath, dbVars
    <3>2. CASE Starting(i)
      <4>1. PICK paths \in SUBSET Paths, label \in {"begin", "select", "skipped"} :
              Own(i, label, paths, seen[i]) /\ UNCHANGED dbVars
        BY <3>2 DEF Starting
      <4>2. ~AtPath(i)'
        BY <4>1, AfterOwn DEF AtPath
      <4> QED
        BY <2>5, <4>1, <4>2 DEF dbVars
    <3> QED
      BY <2>8, <3>1, <3>2
  <2>9. CASE Selecting(i)
    <3>1. /\ pc'[i] = "stat" /\ pc[i] = "select" /\ todo'[i] = todo[i]
          /\ UNCHANGED <<rows, work, lock>>
          /\ seen'[i] = [seen[i] EXCEPT !.row = Current(i)[Here(i)]]
      BY <2>9, AfterAdvance DEF Selecting, dbVars
    <3>2. seen'[i].row = Current(i)[Here(i)] /\ seen'[i].file = seen[i].file
      BY <3>1 DEF TypeOK
    <3>3. Here(i)' = Here(i) /\ Here(i) \in Paths
      BY <2>9, <3>1, HereIn DEF Here, Selecting
    <3>4. rows[Here(i)].text \in Int
      BY <3>3, Texts
    <3>5. NoOlder(rows[Here(i)], rows[Here(i)].text)
      BY <3>4 DEF NoOlder
    <3>6. RowRead(i)'
      BY <3>1, <3>2, <3>3, <3>5 DEF Current
    <3>7. NewerThanRead(i)'
      BY <2>1, <2>4, <3>1, <3>2, <3>3 DEF Current
    <3>8. Writing' => Writing /\ lock # i
      BY <2>3, <2>4, <3>1
    <3>9. ReadNewerThanRead(i)'
      BY <2>1, <2>3, <2>4, <3>1, <3>2, <3>3, <3>8 DEF Current
    <3>10. Newer' /\ ReadNewer'
      BY <2>1, <2>3, <2>4, <3>1, <3>8
    <3>11. \A j \in Indexers \ {i} : RowRead(j)' /\ NewerThanRead(j)'
      BY <2>1, <2>3, <2>4, <3>1
    <3>12. \A j \in Indexers \ {i} : ReadNewerThanRead(j)'
      BY <2>1, <2>3, <2>4, <3>1, <3>8
    <3> QED
      BY <2>2, <3>6, <3>7, <3>9, <3>10, <3>11, <3>12
  <2>10. ASSUME NEW label, Going(i, label)
         PROVE  SeenInv'
    <3>1. /\ todo'[i] = todo[i] /\ UNCHANGED <<rows, work, lock>> /\ AtPath(i) /\ pc[i] # "store"
          /\ seen'[i] = [seen[i] EXCEPT !.file = Taken(i),
                           !.stamp = IF pc[i] = "stat" THEN Taken(i).stamp ELSE @]
      BY <2>10, AfterAdvance DEF Going, dbVars, AtPath
    <3>3. Here(i)' = Here(i) /\ Here(i) \in Paths
      BY <3>1, HereIn DEF Here, PlaceInv
    <3>2. seen'[i].row = seen[i].row /\ seen'[i].file.text = file[Here(i)].text
      BY <3>1, <3>3, TakenIs DEF TypeOK
    <3>4. Newer' /\ \A j \in Indexers \ {i} : RowRead(j)' /\ NewerThanRead(j)'
      BY <2>1, <2>3, <2>4, <3>1
    <3>5. RowRead(i)' /\ NewerThanRead(i)'
      BY <2>1, <2>4, <3>1, <3>2, <3>3
    <3>6. CASE lock # i
      <4>1. Writing' => Writing
        BY <2>3, <2>4, <3>1, <3>6
      <4>2. ReadNewer' /\ \A j \in Indexers \ {i} : ReadNewerThanRead(j)'
        BY <2>1, <2>3, <2>4, <3>1, <3>6, <4>1
      <4>3. ReadNewerThanRead(i)'
        <5>1. CASE ~Writing'
          BY <5>1
        <5>2. CASE Writing'
          <6>1. PICK holder \in Indexers \ {i} : holder = lock /\ lock' = holder
            BY <2>4, <3>1, <3>6, <4>1, <5>2
          <6>2. seen'[holder] = seen[holder] /\ Here(holder)' = Here(holder)
            BY <2>3
          <6>3. ReadNewerThanRead(i)
            BY <2>1
          <6> QED
            BY <3>1, <3>2, <3>3, <4>1, <5>2, <6>1, <6>2, <6>3
        <5> QED
          BY <5>1, <5>2
      <4> QED
        BY <2>2, <3>4, <3>5, <4>2, <4>3
    <3>7. CASE lock = i
      <4>1. rows[Here(i)].text <= file[Here(i)].text
        <5>1. Honest(Here(i), rows[Here(i)]) /\ file[Here(i)].text \in Nat
          BY <3>3, Texts DEF RowsHonest
        <5> QED
          BY <5>1, Texts DEF Honest
      <4>2. ReadNewer'
        <5>1. rows[Here(i)].text \in Int /\ file[Here(i)].text \in Nat
          BY <3>3, Texts
        <5> QED
          BY <3>1, <3>2, <3>3, <3>7, <4>1, <5>1
      <4>3. ASSUME NEW j \in Refreshes, AtPath(j), Here(j) = Here(i)
            PROVE  seen'[i].file.text >= seen[j].row.text
        <5>1. Honest(Here(i), seen[j].row)
          BY <2>4, <4>3 DEF ReadHonest
        <5>2. file[Here(i)].text \in Nat /\ seen[j].row.text \in Int
          BY <2>4, <3>3, Texts
        <5>3. seen[j].row.text <= file[Here(i)].text
          BY <5>1, <5>2, Texts DEF Honest
        <5> QED
          BY <3>2, <5>2, <5>3
      <4>4. \A j \in Indexers \ {i} : ReadNewerThanRead(j)'
        BY <2>3, <2>4, <3>1, <3>3, <3>7, <4>3
      <4>5. ReadNewerThanRead(i)'
        BY <2>4, <3>1, <3>7
      <4> QED
        BY <2>2, <3>4, <3>5, <4>2, <4>4, <4>5
    <3> QED
      BY <3>6, <3>7
  <2>11. CASE Storing(i)
    <3>1. /\ lock \in {Nobody, i} /\ lock' = i /\ UNCHANGED rows
          /\ pc[i] = "store" /\ pc'[i] = "select"
      BY <2>11, AfterAdvance DEF Storing
    <3>2. CASE i \notin Syncs
      BY <2>6, <3>1, <3>2 DEF AtPath
    <3>3. CASE i \in Syncs
      <4>1. lock = i /\ AtPath(i)
        BY <3>1, <3>3 DEF LockInv, AtPath
      <4>2. Here(i) \in Paths
        BY <4>1, HereIn DEF PlaceInv
      <4>3. PICK row : /\ row = IF seen[i].file.kind = "text" THEN Stored(i, Here(i)) ELSE NoRow
                       /\ work' = [work EXCEPT ![Here(i)] = row]
        BY <2>11, <4>1 DEF Storing, Current
      <4>4. \A p \in Paths : work'[p] = IF p = Here(i) THEN row ELSE work[p]
        BY <4>3, Texts
      <4>5. ASSUME NEW text \in Int, NoOlder(work[Here(i)], text),
                   seen[i].file.kind = "text" => seen[i].file.text >= text
            PROVE  NoOlder(row, text)
        <5>1. CASE seen[i].file.kind # "text"
          BY <4>3, <5>1 DEF NoOlder
        <5>2. CASE seen[i].file.kind = "text"
          <6>1. \/ row = NoRow
                \/ row = [stamp |-> seen[i].stamp, text |-> work[Here(i)].text]
                   /\ work[Here(i)] # NoRow
                \/ row = [stamp |-> seen[i].stamp, text |-> seen[i].file.text]
            BY <3>1, <4>1, <4>3, <5>2, StoredType DEF Current
          <6> QED
            BY <4>5, <5>2, <6>1 DEF NoOlder
        <5> QED
          BY <5>1, <5>2
      <4>6. seen[i].file.kind = "text" => seen[i].file.text >= rows[Here(i)].text
        BY <2>1, <3>1, <3>3, <4>1
      <4>7. rows[Here(i)].text \in Int /\ \A j \in Indexers : seen[j].row.text \in Int
        BY <4>2, Texts
      <4>8. Newer'
        BY <2>1, <3>1, <3>3, <4>1, <4>2, <4>4, <4>5, <4>6, <4>7
      <4>9. \A j \in Indexers \ {i} : RowRead(j)'
        BY <2>1, <2>3, <2>4, <3>1, <4>1
      <4>10. \A j \in Indexers \ {i} : NewerThanRead(j)'
        <5> SUFFICES ASSUME NEW j \in Refreshes, AtPath(j), j # i
                     PROVE  NoOlder(work'[Here(j)], seen[j].row.text)
          BY <2>3
        <5>1. NoOlder(work[Here(j)], seen[j].row.text) /\ Here(j) \in Paths
          BY <2>1, <2>4, <3>3, <4>1, HereIn DEF PlaceInv
        <5>2. CASE Here(j) # Here(i)
          BY <4>4, <5>1, <5>2
        <5>3. CASE Here(j) = Here(i)
          <6>1. seen[i].file.kind = "text" => seen[i].file.text >= seen[j].row.text
            BY <2>1, <2>4, <3>1, <3>3, <4>1, <5>3
          <6> QED
            BY <2>4, <4>2, <4>4, <4>5, <4>7, <5>1, <5>3, <6>1
        <5> QED
          BY <5>2, <5>3
      <4>11. ~Writing' /\ ~AtPath(i)'
        BY <3>1 DEF AtPath
      <4> QED
        BY <2>2, <4>8, <4>9, <4>10, <4>11
    <3> QED
      BY <3>2, <3>3
  <2>12. CASE Finishing(i)
    <3>1. /\ pc[i] = "select" /\ pc'[i] = "done" /\ lock \in {Nobody, i} /\ lock' = Nobody
          /\ rows' = IF i \in Syncs THEN SyncResult(i) ELSE Current(i)
      BY <2>12, AfterAdvance DEF Finishing
    <3>2. ASSUME NEW j \in Indexers \ {i}, AtPath(j)
          PROVE  NoOlder(rows'[Here(j)], seen[j].row.text)
      <4>1. j \in Refreshes
        BY <2>4, <3>1, <3>2 DEF LockInv, AtPath, Indexers
      <4>2. i \in Syncs
        BY <3>1, <3>2, <4>1 DEF OneRefresh, Live, Ended, AtPath, Indexers
      <4>3. lock = i
        BY <3>1, <4>2 DEF LockInv
      <4>4. NoOlder(work[Here(j)], seen[j].row.text) /\ Here(j) \in Paths
        BY <2>1, <2>4, <3>2, <4>1, <4>2, <4>3, HereIn DEF PlaceInv
      <4>5. rows'[Here(j)] \in {work[Here(j)], NoRow}
        BY <3>1, <4>2, <4>4 DEF SyncResult
      <4> QED
        BY <4>4, <4>5 DEF NoOlder
    <3>3. \A j \in Indexers \ {i} : RowRead(j)'
      BY <2>3, <2>4, <3>1, <3>2
    <3>4. lock' \notin Syncs /\ ~AtPath(i)'
      BY <2>4, <3>1 DEF AtPath
    <3> QED
      BY <2>2, <3>3, <3>4
  <2>13. CASE i \in Syncs /\ Beginning(i)
    <3>1. /\ pc'[i] = "select" /\ lock \in {Nobody, i} /\ lock' = i /\ rows' = rows /\ work' = rows
          /\ pc[i] = "begin"
      BY <2>13, AfterAdvance DEF Beginning
    <3>2. \A p \in Paths : NoOlder(rows[p], rows[p].text)
      <4>1. \A p \in Paths : rows[p].text \in Int
        BY Texts
      <4> QED
        BY <4>1 DEF NoOlder
    <3>3. Newer'
      BY <3>1, <3>2
    <3>4. ~Writing' /\ ~AtPath(i)'
      BY <3>1 DEF AtPath
    <3>5. \A j \in Indexers \ {i} : RowRead(j)' /\ NewerThanRead(j)'
      BY <2>1, <2>3, <2>4, <3>1
    <3> QED
      BY <2>2, <3>3, <3>4, <3>5
  <2> QED
    BY <1>3, <2>7, <2>8, <2>9, <2>10, <2>11, <2>12, <2>13 DEF Works
<1> QED
  BY <1>2, <1>3, Steps

LEMMA HonestInit == Init => HonestInv
<1> SUFFICES ASSUME Init
             PROVE  HonestInv
  OBVIOUS
<1>1. /\ lock = Nobody /\ clock = 0 /\ work = Empty
      /\ \A p \in Paths : rows[p] \in {NoRow, [stamp |-> 0, text |-> 0]}
      /\ \A p \in Paths : work[p] = NoRow /\ file[p] = OldFile
      /\ \A s \in Searches, p \in Paths : search[s].rows[p] = NoRow
      /\ \A i \in Indexers : pc[i] = "idle" /\ todo[i] = {} /\ seen[i] = NothingSeen
  BY DEF Init, Empty, FirstRows
<1>2. Syncs \subseteq Indexers /\ Nobody \notin Indexers
  BY IndexAssumption DEF Indexers
<1>3. \A p \in Paths, row \in {NoRow, [stamp |-> 0, text |-> 0]} : Honest(p, row)
  BY <1>1 DEF Honest, Describes, OldFile
<1>4. RowsHonest
  BY <1>1, <1>3 DEF RowsHonest, OldFile
<1>5. \A i \in Indexers : ~AtPath(i)
  BY <1>1 DEF AtPath
<1>6. PlaceInv /\ LockInv /\ ReadHonest /\ SeenInv
  BY <1>1, <1>2, <1>5 DEF PlaceInv, LockInv, ReadHonest, SeenInv, NothingSeen
<1> QED
  BY <1>4, <1>6 DEF HonestInv

LEMMA HonestInvStep ==
  ASSUME NoReverts
  PROVE  TypeOK /\ HonestInv /\ OneRefresh /\ [Next]_vars => TypeOK' /\ HonestInv'
<1> SUFFICES ASSUME TypeOK, HonestInv, OneRefresh, [Next]_vars
             PROVE  TypeOK' /\ HonestInv'
  OBVIOUS
<1>1. TypeOK' /\ PlaceInv'
  BY TypeStep DEF HonestInv
<1> QED
  BY <1>1, LockStep, RowsStep, ReadStep, SeenStep DEF HonestInv

LEMMA HonestAlways ==
  ASSUME NoReverts
  PROVE  Spec /\ []OneRefresh => [](TypeOK /\ HonestInv)
<1>1. Init => TypeOK /\ HonestInv
  BY IndexInitType, HonestInit
<1> QED
  BY <1>1, HonestInvStep, PTL DEF Spec

\* What `_validated_result` takes for fresh, and `sync` and `refresh_paths` take for unchanged, is
\* the text of the file: for any number of files, of syncs in each other's way, of searches, and
\* of refreshes one after the other, as long as no file gets an old text back.
THEOREM FreshRows ==
  ASSUME NoReverts
  PROVE  Spec /\ []OneRefresh => []FreshRowsAreCurrent
<1>1. TypeOK /\ HonestInv => FreshRowsAreCurrent
  BY DEF HonestInv, RowsHonest, Honest, FreshRowsAreCurrent
<1> QED
  BY <1>1, HonestAlways, PTL

\* A search takes a hit for fresh only while the text it found is the file's (`search_lexical`,
\* `search_symbols`), although what it holds was read before any number of commits and changes.
THEOREM FreshMatches ==
  ASSUME NoReverts
  PROVE  Spec /\ []OneRefresh => MatchesAreCurrent
<1> DEFINE Matched == \A s \in Searches : \A p \in search'[s].matches \ search[s].matches :
                        Describes(search[s].rows[p], file[p])
<1>1. TypeOK /\ HonestInv /\ [Next]_vars => [Matched]_vars
  <2> SUFFICES ASSUME TypeOK, HonestInv, Next, NEW s \in Searches,
                      NEW p \in search'[s].matches \ search[s].matches
               PROVE  Describes(search[s].rows[p], file[p])
    OBVIOUS
  <2>1. ~UNCHANGED search
    OBVIOUS
  <2>2. PICK t \in Searches : Searching(t)
    BY <2>1, Steps, WorkElsewhere DEF HonestInv, Edit, vars
  <2>3. PICK next \in SearchStates :
          /\ search' = [search EXCEPT ![t] = next]
          /\ \A q \in next.matches \ search[t].matches : Fresh(t, q)
    BY <2>2 DEF Searching
  <2>4. t = s /\ p \in next.matches /\ Fresh(s, p)
    BY <2>3 DEF TypeOK
  <2>5. p \in Paths
    BY <2>4 DEF SearchStates
  <2>6. search[s].rows[p] \in Rows /\ file[p].stamp \in Nat
    BY <2>5, Texts DEF TypeOK
  <2>7. search[s].rows[p] # NoRow
    BY <2>4, <2>6, Texts DEF Fresh
  <2>8. Honest(p, search[s].rows[p])
    BY <2>5 DEF HonestInv, RowsHonest
  <2> QED
    BY <2>4, <2>7, <2>8 DEF Honest, Fresh
<1> QED
  BY <1>1, HonestAlways, PTL DEF MatchesAreCurrent, Spec

-----------------------------------------------------------------------------
(* An indexer that completes has brought its rows up to date *)

LEMMA RowIs ==
  ASSUME NEW row \in Rows, row # NoRow
  PROVE  row = [stamp |-> row.stamp, text |-> row.text]
  BY DEF Rows

\* A row with the stamp of its file is the row of the file.
LEMMA FreshRow ==
  ASSUME TypeOK, NEW p \in Paths, NEW row \in Rows, Honest(p, row),
         file[p].kind # "absent", row.stamp = file[p].stamp
  PROVE  row = RowFor(p)
<1>1. row # NoRow
  BY Texts
<1>2. file[p].kind = "text" /\ row.text = file[p].text
  BY <1>1 DEF Honest, Describes
<1> QED
  BY <1>1, <1>2, RowIs DEF RowFor

\* What an indexer writes is the row of the file, if the file is the one it has read.
LEMMA StoredRow ==
  ASSUME TypeOK, PlaceInv, NEW i \in Indexers, pc[i] = "store", seen[i].file = file[Here(i)],
         file[Here(i)].kind = "text" => seen[i].stamp = file[Here(i)].stamp,
         Current(i)[Here(i)] = seen[i].row
  PROVE  (IF seen[i].file.kind = "text" THEN Stored(i, Here(i)) ELSE NoRow) = RowFor(Here(i))
<1>1. CASE seen[i].file.kind # "text"
  BY <1>1 DEF RowFor
<1>2. CASE seen[i].file.kind = "text"
  <2>1. seen[i].file.text \in Nat
    BY Texts
  <2>2. ~(seen[i].row.text = seen[i].file.text /\ Current(i)[Here(i)] = NoRow)
    BY <2>1, Texts
  <2> QED
    BY <1>2, <2>2, StoredType DEF RowFor
<1> QED
  BY <1>1, <1>2

\* The parts of Exact.
Done(i, p) == Live(i) /\ p \notin todo[i] => Current(i)[p] = RowFor(p)

Watched(i, p) ==
  pc[i] \in {"read", "store"} /\ p = Here(i) =>
    /\ pc[i] = "read" => file[p].kind \notin {"absent", "large"}
    /\ pc[i] = "store" => seen[i].file = file[p]
    /\ file[p].kind \in {"text", "binary"} => seen[i].stamp = file[p].stamp

LEMMA ExactParts ==
  ASSUME NEW i
  PROVE  Exact(i) <=> /\ AtPath(i) => Current(i)[Here(i)] = seen[i].row
                      /\ \A p \in given[i] \ changed[i] : Done(i, p) /\ Watched(i, p)
  BY DEF Exact, Done, Watched

LEMMA ExactPartsThen ==
  ASSUME NEW i
  PROVE  Exact(i)' <=> /\ AtPath(i)' => Current(i)'[Here(i)'] = seen'[i].row
                       /\ \A p \in given'[i] \ changed'[i] : Done(i, p)' /\ Watched(i, p)'
  BY DEF Exact, Done, Watched

\* An indexer that is not at work has nothing to show.
LEMMA ExactAtRest ==
  ASSUME NEW i, ~Live(i)'
  PROVE  Exact(i)'
<1>1. ~AtPath(i)' /\ pc'[i] \notin {"read", "store"}
  BY DEF Live, Ended, AtPath
<1> QED
  BY <1>1, ExactPartsThen DEF Done, Watched

\* A step of the indexer itself.
LEMMA ExactOwn ==
  ASSUME TypeOK, PlaceInv, RowsHonest, NEW i \in Indexers, Exact(i), Works(i),
         i \in Syncs => AllToDo(i)
  PROVE  Exact(i)'
<1>1. /\ AtPath(i) => Current(i)[Here(i)] = seen[i].row
      /\ \A p \in given[i] \ changed[i] : Done(i, p) /\ Watched(i, p)
  BY ExactParts
<1>2. UNCHANGED <<file, clock>>
  BY WorkElsewhere
<1>3. todo[i] # {} => Here(i) \in Paths /\ Here(i) \in todo[i]
  BY HereIn
<1>4. \A p \in Paths : Honest(p, Current(i)[p]) /\ Current(i)[p] \in Rows
  BY Texts DEF RowsHonest, Current
<1>5. todo[i] \subseteq given[i] /\ given[i] \subseteq Paths
  BY DEF PlaceInv, TypeOK
<1>6. \A p \in Paths : RowFor(p)' = RowFor(p)
  BY <1>2 DEF RowFor
<1>7. CASE Failing(i) \/ Finishing(i)
  <2>1. ~Live(i)'
    BY <1>7, AfterAdvance DEF Failing, Finishing, Live, Ended
  <2> QED
    BY <2>1, ExactAtRest
\* Only what has been done counts where no path is looked at.
<1>8. ASSUME pc'[i] \notin {"stat", "read", "store"},
             \A p \in given'[i] \ changed'[i] : Done(i, p)'
      PROVE  Exact(i)'
  BY <1>8, ExactPartsThen DEF AtPath, Watched
<1>9. CASE Starting(i)
  <2>1. PICK paths \in SUBSET Paths, label \in {"begin", "select", "skipped"} :
          Own(i, label, paths, seen[i]) /\ given' = [given EXCEPT ![i] = paths]
    BY <1>9 DEF Starting
  <2>2. pc'[i] = label /\ todo'[i] = paths /\ given'[i] = paths
    BY <2>1, AfterOwn DEF TypeOK
  <2> QED
    BY <1>8, <2>2 DEF Done
<1>10. CASE i \in Syncs /\ Beginning(i)
  <2>1. pc[i] = "begin" /\ pc'[i] = "select" /\ todo'[i] = todo[i] /\ UNCHANGED given
    BY <1>10, AfterAdvance DEF Beginning
  <2> QED
    BY <1>8, <1>10, <2>1 DEF Done, AllToDo
<1>11. CASE Skipping(i)
  <2>1. /\ pc[i] \in {"stat", "read"} /\ pc'[i] = "select" /\ todo'[i] = todo[i] \ {Here(i)}
        /\ UNCHANGED <<given, changed, rows, work, lock>>
    BY <1>11, AfterAdvance DEF Skipping, dbVars
  <2>2. Current(i)' = Current(i)
    BY <2>1 DEF Current
  <2>3. AtPath(i) /\ todo[i] # {}
    BY <2>1 DEF AtPath, PlaceInv
  <2>4. Here(i) \in given[i] \ changed[i] => Current(i)[Here(i)] = RowFor(Here(i))
    <3>1. CASE pc[i] = "stat"
      <4>1. seen[i].row.stamp = file[Here(i)].stamp /\ file[Here(i)].kind # "absent"
        BY <1>11, <3>1 DEF Skipping
      <4> QED
        BY <1>1, <1>3, <1>4, <2>3, <4>1, FreshRow
    <3>2. CASE pc[i] = "read"
      BY <1>1, <1>11, <3>2 DEF Skipping, Watched
    <3> QED
      BY <2>1, <3>1, <3>2
  <2>5. ASSUME NEW p \in given'[i] \ changed'[i]
        PROVE  Done(i, p)'
    <3>1. p \in given[i] \ changed[i] /\ p \in Paths /\ Live(i)
      BY <1>5, <2>1, <2>5 DEF Live, Ended
    <3>2. p \notin todo'[i] => Current(i)[p] = RowFor(p)
      BY <1>1, <2>1, <2>4, <3>1 DEF Done
    <3> QED
      BY <1>6, <2>2, <3>1, <3>2 DEF Done
  <2> QED
    BY <1>8, <2>1, <2>5
<1>12. CASE Storing(i)
  <2>1. /\ pc[i] = "store" /\ pc'[i] = "select" /\ todo'[i] = todo[i] \ {Here(i)}
        /\ UNCHANGED <<given, changed>> /\ lock' = i
        /\ work' = [Current(i) EXCEPT ![Here(i)] =
                      IF seen[i].file.kind = "text" THEN Stored(i, Here(i)) ELSE NoRow]
    BY <1>12, AfterAdvance DEF Storing
  <2>2. AtPath(i) /\ todo[i] # {} /\ Current(i)' = work'
    BY <2>1 DEF AtPath, PlaceInv, Current
  <2>3. \A p \in Paths : p # Here(i) => work'[p] = Current(i)[p]
    BY <2>1, Texts
  <2>4. Here(i) \in given[i] \ changed[i] => work'[Here(i)] = RowFor(Here(i))
    <3>1. ASSUME Here(i) \in given[i] \ changed[i]
          PROVE  work'[Here(i)] = RowFor(Here(i))
      <4>1. seen[i].file = file[Here(i)]
            /\ (file[Here(i)].kind = "text" => seen[i].stamp = file[Here(i)].stamp)
        BY <1>1, <2>1, <3>1 DEF Watched
      <4>2. (IF seen[i].file.kind = "text" THEN Stored(i, Here(i)) ELSE NoRow) = RowFor(Here(i))
        BY <1>1, <2>1, <2>2, <4>1, StoredRow
      <4> QED
        BY <1>3, <2>1, <2>2, <4>2, Texts
    <3> QED
      BY <3>1
  <2>5. ASSUME NEW p \in given'[i] \ changed'[i]
        PROVE  Done(i, p)'
    <3>1. p \in given[i] \ changed[i] /\ p \in Paths /\ Live(i)
      BY <1>5, <2>1, <2>5 DEF Live, Ended
    <3>2. p \notin todo'[i] => work'[p] = RowFor(p)
      BY <1>1, <2>1, <2>3, <2>4, <3>1 DEF Done
    <3> QED
      BY <1>6, <2>2, <3>1, <3>2 DEF Done
  <2> QED
    BY <1>8, <2>1, <2>5
<1>13. CASE Selecting(i)
  <2>1. /\ pc[i] = "select" /\ pc'[i] = "stat" /\ todo'[i] = todo[i]
        /\ UNCHANGED <<given, changed, rows, work, lock>>
        /\ seen'[i] = [seen[i] EXCEPT !.row = Current(i)[Here(i)]]
    BY <1>13, AfterAdvance DEF Selecting, dbVars
  <2>2. Current(i)' = Current(i) /\ Here(i)' = Here(i) /\ seen'[i].row = Current(i)[Here(i)]
    BY <2>1 DEF Current, Here, TypeOK
  <2>3. ASSUME NEW p \in given'[i] \ changed'[i]
        PROVE  Done(i, p)' /\ Watched(i, p)'
    <3>1. p \in given[i] \ changed[i] /\ p \in Paths /\ Live(i)
      BY <1>5, <2>1, <2>3 DEF Live, Ended
    <3> QED
      BY <1>1, <1>6, <2>1, <2>2, <3>1 DEF Done, Watched
  <2> QED
    BY <2>2, <2>3, ExactPartsThen
<1>14. ASSUME NEW label, Going(i, label)
       PROVE  Exact(i)'
  <2>1. /\ pc[i] \in {"stat", "read"} /\ pc'[i] = label /\ todo'[i] = todo[i]
        /\ label \in {"read", "store"}
        /\ UNCHANGED <<given, changed, rows, work, lock>>
        /\ seen'[i] = [seen[i] EXCEPT !.file = Taken(i),
                         !.stamp = IF pc[i] = "stat" THEN Taken(i).stamp ELSE @]
    BY <1>14, AfterAdvance DEF Going, dbVars
  <2>2. /\ Current(i)' = Current(i) /\ Here(i)' = Here(i)
        /\ seen'[i].row = seen[i].row /\ seen'[i].file = Taken(i)
        /\ seen'[i].stamp = IF pc[i] = "stat" THEN Taken(i).stamp ELSE seen[i].stamp
    BY <2>1 DEF Current, Here, TypeOK
  <2>3. AtPath(i)
    BY <2>1 DEF AtPath
  <2>4. ASSUME NEW p \in given'[i] \ changed'[i]
        PROVE  Done(i, p)' /\ Watched(i, p)'
    <3>1. p \in given[i] \ changed[i] /\ p \in Paths /\ Live(i)
      BY <1>5, <2>1, <2>4 DEF Live, Ended
    <3>2. Done(i, p)'
      BY <1>1, <1>6, <2>1, <2>2, <3>1 DEF Done
    <3>3. CASE p # Here(i)
      BY <2>2, <3>2, <3>3 DEF Watched
    <3>4. CASE p = Here(i)
      <4>1. label = "read" => file[p].kind \notin {"absent", "large"}
        BY <1>14, <3>4 DEF Going
      <4>3. Taken(i).stamp = file[p].stamp /\ Taken(i) = file[p]
        <5>1. pc[i] = "read" => file[p].kind # "large"
          BY <1>1, <3>1, <3>4 DEF Watched
        <5> QED
          BY <3>1, <3>4, <5>1, TakenIs
      <4>2. file[p].kind \in {"text", "binary"} => seen'[i].stamp = file[p].stamp
        BY <1>1, <2>1, <2>2, <3>1, <3>4, <4>3 DEF Watched
      <4> QED
        BY <1>2, <2>1, <2>2, <3>2, <3>4, <4>1, <4>2, <4>3 DEF Watched
    <3> QED
      BY <3>3, <3>4
  <2> QED
    BY <1>1, <2>2, <2>3, <2>4, ExactPartsThen
<1> QED
  BY <1>7, <1>9, <1>10, <1>11, <1>12, <1>13, <1>14 DEF Works

\* A step that leaves the indexer, and the rows it sees, alone; a file may change.
LEMMA ExactElse ==
  ASSUME TypeOK, NEW i \in Indexers, Exact(i), Current(i)' = Current(i),
         pc'[i] = pc[i], todo'[i] = todo[i], given'[i] = given[i], seen'[i] = seen[i],
         Live(i) => \A p \in Paths \ changed'[i] : p \notin changed[i] /\ file'[p] = file[p]
  PROVE  Exact(i)'
<1>1. CASE ~Live(i)
  <2>1. ~Live(i)'
    BY <1>1 DEF Live
  <2> QED
    BY <2>1, ExactAtRest
<1>2. CASE Live(i)
  <2>1. /\ AtPath(i) => Current(i)[Here(i)] = seen[i].row
        /\ \A p \in given[i] \ changed[i] : Done(i, p) /\ Watched(i, p)
    BY ExactParts
  <2>2. Here(i)' = Here(i) /\ (AtPath(i)' <=> AtPath(i)) /\ given[i] \subseteq Paths
    BY DEF Here, AtPath, TypeOK
  <2>3. ASSUME NEW p \in given'[i] \ changed'[i]
        PROVE  Done(i, p)' /\ Watched(i, p)'
    <3>1. p \in given[i] \ changed[i] /\ file'[p] = file[p]
      BY <1>2, <2>2, <2>3
    <3>2. RowFor(p)' = RowFor(p)
      BY <3>1 DEF RowFor
    <3>3. Done(i, p)'
      BY <1>2, <2>1, <3>1, <3>2 DEF Done
    <3>4. Watched(i, p)'
      BY <2>1, <2>2, <3>1 DEF Watched
    <3> QED
      BY <3>3, <3>4
  <2> QED
    BY <2>1, <2>2, <2>3, ExactPartsThen
<1> QED
  BY <1>1, <1>2

\* What a change of a file leaves an indexer at work.
LEMMA EditSeen ==
  ASSUME TypeOK, NEW q \in Paths, Edit(q), NEW i \in Indexers
  PROVE  /\ Current(i)' = Current(i) /\ pc'[i] = pc[i] /\ todo'[i] = todo[i]
         /\ given'[i] = given[i] /\ seen'[i] = seen[i]
         /\ Live(i) => \A p \in Paths \ changed'[i] : p \notin changed[i] /\ file'[p] = file[p]
<1>1. /\ UNCHANGED <<rows, work, lock, pc, todo, given, seen>>
      /\ changed' = [j \in Indexers |-> IF pc[j] \in Ended THEN {} ELSE changed[j] \cup {q}]
  BY DEF Edit, dbVars
<1>2. \A p \in Paths : p # q => file'[p] = file[p]
  BY EditType DEF TypeOK
<1> QED
  BY <1>1, <1>2 DEF Current, Live

\* A sync holds what it has listed to account.
LEMMA UnlistedStep ==
  ASSUME TypeOK, PlaceInv, NEW i \in Syncs, Unlisted(i), AllToDo(i), [Next]_vars
  PROVE  Unlisted(i)' /\ AllToDo(i)'
<1>1. i \in Indexers /\ i \notin Refreshes
  BY IndexAssumption DEF Indexers
<1>2. CASE UNCHANGED <<file, pc, todo, given, changed>>
  BY <1>2 DEF Unlisted, AllToDo, Live
<1>3. ASSUME NEW q \in Paths, Edit(q)
      PROVE  Unlisted(i)' /\ AllToDo(i)'
  BY <1>1, <1>3, EditSeen DEF Unlisted, AllToDo, Live
<1>4. ASSUME NEW j \in Indexers, Works(j), j # i
      PROVE  Unlisted(i)' /\ AllToDo(i)'
  BY <1>1, <1>4, Others, WorkElsewhere DEF Unlisted, AllToDo, Live
<1>5. CASE Starting(i)
  <2>1. Own(i, "begin", Listed, seen[i]) /\ given'[i] = Listed /\ changed'[i] = {}
    BY <1>1, <1>5 DEF Starting, TypeOK
  <2>2. todo'[i] = Listed /\ UNCHANGED file
    BY <1>1, <2>1, AfterOwn DEF Own, fsVars
  <2> QED
    BY <2>1, <2>2 DEF Unlisted, AllToDo, Listed
<1>6. CASE Works(i) /\ ~Starting(i)
  <2>1. PICK label, todos, read : Advances(i, label, todos, read) /\ label # "begin" /\ Live(i)
    BY <1>6 DEF Works, Failing, Going, Skipping, Selecting, Storing, Finishing, Beginning,
                   Live, Ended
  <2>2. pc'[i] = label /\ UNCHANGED <<given, changed>>
    BY <1>1, <2>1, AfterAdvance
  <2> QED
    BY <1>1, <1>6, <2>1, <2>2, WorkElsewhere DEF Unlisted, AllToDo
<1>7. ASSUME NEW s \in Searches, Searching(s)
      PROVE  UNCHANGED <<file, pc, todo, given, changed>>
  BY <1>7 DEF Searching, fsVars
<1> QED
  BY <1>1, <1>2, <1>3, <1>4, <1>5, <1>6, <1>7, Steps DEF vars, fsVars

\* No step of another indexer changes the rows a sync sees once it has begun.
LEMMA SyncSees ==
  ASSUME TypeOK, PlaceInv, LockInv, NEW i \in Syncs, NEW j \in Indexers, Works(j), j # i,
         pc[i] \in {"select", "stat", "read", "store"}
  PROVE  Current(i)' = Current(i)
<1>1. lock = i /\ i # Nobody /\ i \in Indexers
  BY IndexAssumption DEF LockInv, Indexers
<1>2. lock' = lock /\ work' = work
  BY <1>1 DEF Works, Failing, Going, Skipping, Selecting, Storing, Finishing, Starting, Beginning,
              dbVars
<1> QED
  BY <1>1, <1>2 DEF Current

LEMMA SyncStep ==
  ASSUME TypeOK, HonestInv, SyncInv, [Next]_vars
  PROVE  SyncInv'
<1> SUFFICES ASSUME NEW i \in Syncs
             PROVE  Exact(i)' /\ Unlisted(i)' /\ AllToDo(i)'
  BY DEF SyncInv
<1>1. i \in Indexers /\ Exact(i) /\ Unlisted(i) /\ AllToDo(i) /\ PlaceInv /\ LockInv /\ RowsHonest
  BY DEF SyncInv, Indexers, HonestInv
<1>2. Unlisted(i)' /\ AllToDo(i)'
  BY <1>1, UnlistedStep
<1>3. ASSUME NEW q \in Paths, Edit(q)
      PROVE  Exact(i)'
  BY <1>1, <1>3, EditSeen, ExactElse
<1>4. CASE UNCHANGED vars \/ \E s \in Searches : Searching(s)
  <2>1. UNCHANGED <<file, rows, work, lock, pc, todo, given, seen, changed>>
    BY <1>4 DEF vars, fsVars, dbVars, Searching
  <2> QED
    BY <1>1, <1>2, <2>1, ExactElse DEF Current
<1>5. ASSUME NEW j \in Indexers, Works(j), j # i
      PROVE  Exact(i)'
  <2>1. /\ pc'[i] = pc[i] /\ todo'[i] = todo[i] /\ given'[i] = given[i] /\ seen'[i] = seen[i]
        /\ changed'[i] = changed[i] /\ UNCHANGED file
    BY <1>1, <1>5, Others, WorkElsewhere
  <2>2. CASE pc[i] \in {"select", "stat", "read", "store"}
    BY <1>1, <1>5, <2>1, <2>2, SyncSees, ExactElse
  <2>3. CASE pc[i] = "begin"
    BY <1>2, <2>1, <2>3, ExactPartsThen DEF AllToDo, AtPath, Done, Watched
  <2>4. CASE pc[i] \in Ended
    BY <2>1, <2>4, ExactAtRest DEF Live
  <2> QED
    BY <1>1, <2>2, <2>3, <2>4 DEF TypeOK
<1>6. CASE Works(i)
  BY <1>1, <1>2, <1>6, ExactOwn
<1> QED
  BY <1>1, <1>2, <1>3, <1>4, <1>5, <1>6, Steps

\* Before they start, no indexer has anything to show.
LEMMA ExactInit == Init => SyncInv /\ RefreshInv /\ OthersKept
<1> SUFFICES ASSUME Init
             PROVE  SyncInv /\ RefreshInv /\ OthersKept
  OBVIOUS
<1>1. \A i \in Indexers : pc[i] = "idle" /\ given[i] = {} /\ todo[i] = {}
  BY DEF Init
<1>2. \A i \in Indexers : Exact(i) /\ Unlisted(i) /\ AllToDo(i)
  BY <1>1 DEF Exact, Unlisted, AllToDo, AtPath, Live, Ended
<1>3. \A i \in Refreshes : lock # i
  BY IndexAssumption DEF Init, Indexers
<1> QED
  BY <1>2, <1>3 DEF SyncInv, RefreshInv, OthersKept, Indexers

\* A sync that completes (`sync`) leaves the exact row, or none, for each file that was not
\* changed while it ran, whatever the index held before, whoever else wrote to it and whatever
\* was changed meanwhile.
THEOREM SyncsAgree ==
  ASSUME NoReverts
  PROVE  Spec /\ []OneRefresh => SyncAgrees
<1> DEFINE Agrees == \A i \in Syncs : Finishes(i) =>
                       \A p \in Paths \ changed[i] :
                         rows'[p] = IF p \in Ignored THEN NoRow ELSE RowFor(p)
<1>1. TypeOK /\ HonestInv /\ SyncInv /\ [Next]_vars => [Agrees]_vars
  <2> SUFFICES ASSUME TypeOK, HonestInv, SyncInv, [Next]_vars, NEW i \in Syncs, Finishes(i),
                      NEW p \in Paths \ changed[i]
               PROVE  rows'[p] = IF p \in Ignored THEN NoRow ELSE RowFor(p)
    OBVIOUS
  <2>1. i \in Indexers /\ PlaceInv /\ LockInv /\ Exact(i) /\ Unlisted(i)
    BY DEF Indexers, HonestInv, SyncInv
  <2>2. pc[i] = "select" /\ todo[i] = {} /\ rows' = SyncResult(i)
    BY <2>1, FinishForm DEF Finishing
  <2>3. Live(i) /\ Current(i) = work
    BY <2>2 DEF Live, Ended, LockInv, Current, HonestInv
  <2>4. CASE p \in given[i]
    <3>1. work[p] = RowFor(p)
      BY <2>1, <2>2, <2>3, <2>4, ExactParts DEF Done
    <3>2. p \notin Ignored
      BY <2>1, <2>3, <2>4 DEF Unlisted
    <3> QED
      BY <2>2, <2>4, <3>1, <3>2 DEF SyncResult
  <2>5. CASE p \notin given[i]
    <3>1. p \notin Ignored => RowFor(p) = NoRow
      BY <2>1, <2>3, <2>5 DEF Unlisted, RowFor
    <3> QED
      BY <2>2, <2>5, <3>1 DEF SyncResult
  <2> QED
    BY <2>4, <2>5
<1>2. Init => SyncInv
  BY ExactInit
<1>3. TypeOK /\ HonestInv /\ SyncInv /\ [Next]_vars => SyncInv'
  BY SyncStep
<1> QED
  BY <1>1, <1>2, <1>3, HonestAlways, PTL DEF SyncAgrees, Spec

\* No step of another indexer changes the rows a refresh sees, if no sync commits meanwhile.
LEMMA RefreshSees ==
  ASSUME TypeOK, PlaceInv, LockInv, OneRefresh, OneRefresh', [SyncsApart]_vars,
         NEW i \in Refreshes, NEW j \in Indexers, Works(j), j # i, Live(i)
  PROVE  Current(i)' = Current(i)
<1>1. /\ i \in Indexers /\ Nobody \notin Indexers
      /\ lock \in Indexers \cup {Nobody} /\ i # Nobody
  BY IndexAssumption DEF Indexers, TypeOK
<1>2. Live(i)'
  BY <1>1, Others
<1>3. CASE Starting(j)
  BY <1>3 DEF Starting, dbVars, Current
<1>4. CASE ~Starting(j)
  <2>1. Live(j)
    BY <1>4 DEF Works, Failing, Going, Skipping, Selecting, Storing, Finishing, Beginning,
                   Live, Ended
  <2>2. j \in Syncs
    BY <1>1, <2>1 DEF OneRefresh, Indexers
  <2>3. ASSUME Finishing(j)
        PROVE  FALSE
    <3>1. Finishes(j)
      BY <2>3, AfterAdvance DEF Finishing, Finishes
    <3>2. ~UNCHANGED vars
      BY <3>1 DEF vars, Finishes
    <3> QED
      BY <2>2, <3>1, <3>2 DEF SyncsApart
  <2>4. CASE lock = i
    BY <1>1, <1>4, <2>3, <2>4
       DEF Works, Failing, Going, Skipping, Selecting, Storing, Beginning, dbVars, Current
  <2>5. CASE lock # i
    <3>1. lock' # i /\ rows' = rows
      BY <1>1, <1>4, <2>3, <2>5
         DEF Works, Failing, Going, Skipping, Selecting, Storing, Beginning, dbVars
    <3> QED
      BY <2>5, <3>1 DEF Current
  <2> QED
    BY <2>4, <2>5
<1> QED
  BY <1>3, <1>4

LEMMA RefreshStep ==
  ASSUME TypeOK, HonestInv, RefreshInv, OneRefresh, OneRefresh', [SyncsApart]_vars, [Next]_vars
  PROVE  RefreshInv'
<1> SUFFICES ASSUME NEW i \in Refreshes
             PROVE  Exact(i)'
  BY DEF RefreshInv
<1>1. i \in Indexers /\ Exact(i) /\ PlaceInv /\ LockInv /\ RowsHonest
  BY DEF RefreshInv, Indexers, HonestInv
<1>2. ASSUME NEW q \in Paths, Edit(q)
      PROVE  Exact(i)'
  BY <1>1, <1>2, EditSeen, ExactElse
<1>3. CASE UNCHANGED vars \/ \E s \in Searches : Searching(s)
  <2>1. UNCHANGED <<file, rows, work, lock, pc, todo, given, seen, changed>>
    BY <1>3 DEF vars, fsVars, dbVars, Searching
  <2> QED
    BY <1>1, <2>1, ExactElse DEF Current
<1>4. ASSUME NEW j \in Indexers, Works(j), j # i
      PROVE  Exact(i)'
  <2>1. /\ pc'[i] = pc[i] /\ todo'[i] = todo[i] /\ given'[i] = given[i] /\ seen'[i] = seen[i]
        /\ changed'[i] = changed[i] /\ UNCHANGED file /\ (Live(i)' <=> Live(i))
    BY <1>1, <1>4, Others, WorkElsewhere
  <2>2. CASE Live(i)
    BY <1>1, <1>4, <2>1, <2>2, RefreshSees, ExactElse
  <2>3. CASE ~Live(i)
    BY <2>1, <2>3, ExactAtRest
  <2> QED
    BY <2>2, <2>3
<1>5. CASE Works(i)
  <2>1. i \notin Syncs
    BY IndexAssumption
  <2> QED
    BY <1>1, <1>5, <2>1, ExactOwn
<1> QED
  BY <1>1, <1>2, <1>3, <1>4, <1>5, Steps

\* A refresh that completes (`refresh_paths`) leaves the exact row, or none, for each of its files
\* that was not changed while it ran, if no sync has committed meanwhile.
THEOREM RefreshesAgree ==
  ASSUME NoReverts
  PROVE  Spec /\ []OneRefresh /\ [][SyncsApart]_vars => RefreshAgrees
<1> DEFINE Agrees == \A i \in Refreshes : Finishes(i) =>
                       \A p \in given[i] \ changed[i] : rows'[p] = RowFor(p)
<1>1. TypeOK /\ HonestInv /\ RefreshInv /\ [Next]_vars => [Agrees]_vars
  <2> SUFFICES ASSUME TypeOK, HonestInv, RefreshInv, [Next]_vars, NEW i \in Refreshes, Finishes(i),
                      NEW p \in given[i] \ changed[i]
               PROVE  rows'[p] = RowFor(p)
    OBVIOUS
  <2>1. i \in Indexers /\ i \notin Syncs /\ PlaceInv /\ Exact(i)
    BY IndexAssumption DEF Indexers, HonestInv, RefreshInv
  <2>2. pc[i] = "select" /\ todo[i] = {} /\ rows' = Current(i)
    BY <2>1, FinishForm DEF Finishing
  <2>3. Live(i)
    BY <2>2 DEF Live, Ended
  <2> QED
    BY <2>1, <2>2, <2>3, ExactParts DEF Done
<1>2. Init => RefreshInv
  BY ExactInit
<1>3. /\ TypeOK /\ HonestInv /\ RefreshInv /\ OneRefresh /\ OneRefresh' /\ [SyncsApart]_vars
      /\ [Next]_vars
      => RefreshInv'
  BY RefreshStep
<1> QED
  BY <1>1, <1>2, <1>3, HonestAlways, PTL DEF RefreshAgrees, Spec

\* A refresh that completes leaves the rows of all other files as they are committed by then, for
\* any number of syncs and refreshes that run, wait for each other and fail in between.
THEOREM RefreshesKeepOthers == Spec => RefreshKeepsOthers
<1> DEFINE Kept == \A i \in Refreshes : Finishes(i) =>
                     \A p \in Paths \ given[i] : rows'[p] = rows[p]
<1>1. TypeOK /\ PlaceInv /\ OthersKept /\ [Next]_vars => [Kept]_vars
  <2> SUFFICES ASSUME TypeOK, PlaceInv, OthersKept, [Next]_vars, NEW i \in Refreshes, Finishes(i),
                      NEW p \in Paths \ given[i]
               PROVE  rows'[p] = rows[p]
    OBVIOUS
  <2>1. i \in Indexers /\ i \notin Syncs
    BY IndexAssumption DEF Indexers
  <2>2. rows' = Current(i)
    BY <2>1, FinishForm DEF Finishing
  <2> QED
    BY <2>2 DEF Current, OthersKept
<1>2. Init => TypeOK /\ PlaceInv /\ LockInv /\ OthersKept
  BY IndexInitType, HonestInit, ExactInit DEF HonestInv
<1>3. /\ TypeOK /\ PlaceInv /\ LockInv /\ OthersKept /\ [Next]_vars
      => TypeOK' /\ PlaceInv' /\ LockInv' /\ OthersKept'
  BY TypeStep, LockStep, OthersStep
<1> QED
  BY <1>1, <1>2, <1>3, PTL DEF RefreshKeepsOthers, Spec

\* Together: a refresh that completes leaves the exact rows of its own files that were not changed
\* while it ran, and all other rows as committed, if no sync has committed meanwhile.
THEOREM RefreshesExact ==
  ASSUME NoReverts
  PROVE  Spec /\ []OneRefresh /\ [][SyncsApart]_vars => RefreshIsExact
  BY RefreshesAgree, RefreshesKeepOthers DEF RefreshIsExact

=============================================================================
