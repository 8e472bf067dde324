-------------------------- MODULE Sessions_proofs --------------------------
(***************************************************************************)
(* Proofs about SessionIndex, the saved sessions of one machine, for every *)
(* set of processes and of ids and every bound, as long as what concerns a *)
(* session of another process is not done beside it; and, at the end,      *)
(* about SessionHandle, the session a host of the library has open, for    *)
(* every set of threads.                                                   *)
(***************************************************************************)
EXTENDS SessionIndex, SessionHandle, FiniteSetTheorems, TLAPS

\* It writes to a file that its export filled, and that no row names yet.
Importing(p) == proc[p].at \in {"open", "write", "insert"}

\* What is in the two kinds of database, and in the exports.
DiskInv ==
  /\ \A i \in Ids : Exists(i) => i \in used /\ file[i] \subseteq 0..said
  /\ \A e \in exports : e.id \in used /\ e.take \subseteq 0..said /\ e.count <= Cardinality(e.take)
  /\ ListedCanBeResumed /\ TurnsSurvive

\* A front end holds all of its session, which has its file.
OfSession(p) ==
  LET r == proc[p]
  IN  /\ r.sid # NoId => /\ r.open /\ r.sid \in used /\ Exists(r.sid)
                         /\ r.holds = file[r.sid] /\ r.turn <= Cardinality(r.holds)
      /\ r.at = "touch" => r.sid # NoId
      /\ r.at = "down" => r.sid = NoId

\* What an operation read is still so.
OfOperation(p) ==
  LET r == proc[p]
  IN  /\ r.id = NoId <=> r.at \in {"idle", "down", "touch", "scan"}
      /\ r.id # NoId => r.id \in used
      /\ r.at \in {"load", "rename", "delete", "export", "write", "insert"} => Exists(r.id)
      /\ r.at \in {"load", "export"} => r.count <= Cardinality(file[r.id])
      /\ r.at = "delete" => ~Listed(r.id) /\ r.id # r.sid
      /\ Importing(p) => r.id # r.sid /\ r.take \subseteq 0..said /\ r.count <= Cardinality(r.take)
      /\ r.at \in {"write", "insert"} => r.fd
      /\ r.at = "insert" => r.take \subseteq file[r.id]

\* A prune is alone, and unlinks what is empty and nobody lists.
OfPrune(p) ==
  LET r == proc[p]
  IN  Pruning(p) =>
        /\ r.sid = NoId /\ \A q \in Others(p) : At(q, "down")
        /\ \A i \in r.todo : ~Listed(i) /\ Exists(i)
        /\ r.at = "unlink" => ~Listed(r.id) /\ r.id \notin r.todo /\ Exists(r.id) /\ file[r.id] = {}

\* No process writes, takes or deletes a session another one is in.
Apart(p, q) ==
  /\ proc[p].sid # NoId => proc[q].sid # proc[p].sid
  /\ Importing(p) \/ At(p, "load") \/ At(p, "delete") => proc[p].id # proc[q].sid
  /\ At(p, "load") /\ (Importing(q) \/ At(q, "load")) => proc[q].id # proc[p].id
  /\ At(p, "delete") => proc[q].id # proc[p].id

\* The inductive invariant of the index.
IndexInd ==
  /\ IndexTypes /\ DiskInv
  /\ \A p \in Procs : OfSession(p) /\ OfOperation(p) /\ OfPrune(p)
  /\ \A p \in Procs : \A q \in Others(p) : Apart(p, q)

-----------------------------------------------------------------------------
\* A file's turns can be counted: more of them, or one more.
LEMMA Sizes ==
  ASSUME IndexAssumption, NEW T \in SUBSET TurnNos
  PROVE  /\ IsFiniteSet(T) /\ Cardinality(T) \in Nat /\ T # Absent
         /\ \A S \in SUBSET T : Cardinality(S) <= Cardinality(T)
         /\ \A x \in TurnNos \ T : Cardinality(T \cup {x}) = Cardinality(T) + 1
<1>1. IsFiniteSet(TurnNos)
  BY FS_Interval DEF IndexAssumption, TurnNos
<1>2. IsFiniteSet(T) /\ Cardinality(T) \in Nat
  BY <1>1, FS_Subset, FS_CardinalityType
<1>3. \A S \in SUBSET T : Cardinality(S) <= Cardinality(T)
  BY <1>2, FS_Subset
<1>4. \A x \in TurnNos \ T : Cardinality(T \cup {x}) = Cardinality(T) + 1
  BY <1>2, FS_AddElement
<1>5. T # Absent
  BY DEF TurnNos, Absent
<1> QED BY <1>2, <1>3, <1>4, <1>5

LEMMA FilesAre ==
  ASSUME IndexTypes, NEW i \in Ids, Exists(i)
  PROVE  file[i] \in SUBSET TurnNos
BY DEF IndexTypes, Exists

LEMMA FreshIs == Fresh \in Processes
BY DEF Fresh, Processes, Positions

LEMMA EndedIs ==
  ASSUME NEW r \in Processes
  PROVE  /\ Ended(r) \in Processes /\ Ended(r).at = "idle" /\ Ended(r).id = NoId
         /\ Ended(r).sid = r.sid /\ Ended(r).open = r.open /\ Ended(r).turn = r.turn
         /\ Ended(r).holds = r.holds
BY DEF Ended, Fresh, Processes, Positions

LEMMA OneMoves ==
  ASSUME proc \in [Procs -> Processes], NEW p \in Procs, NEW r \in Processes,
         proc' = [proc EXCEPT ![p] = r]
  PROVE  /\ proc' \in [Procs -> Processes] /\ proc'[p] = r
         /\ \A q \in Others(p) : proc'[q] = proc[q]
BY DEF Others

\* Beside a process that is up nobody prunes.
LEMMA Alone ==
  ASSUME IndexInd, NEW p \in Procs, ~At(p, "down")
  PROVE  \A q \in Others(p) : ~Pruning(q)
BY DEF IndexInd, OfPrune, Others

\* Opening a file that is there changes nothing.
LEMMA OpensNothing ==
  ASSUME IndexTypes, NEW i \in Ids, Exists(i), Opens(i)
  PROVE  file' = file
BY DEF IndexTypes, Opens, Exists

\* The others, when what they are on only grows.
LEMMA Bystanders ==
  ASSUME IndexAssumption, IndexInd, IndexTypes', NEW p \in Procs,
         \A q \in Others(p) : proc'[q] = proc[q],
         said <= said', used \subseteq used',
         \A q \in Others(p) : proc[q].sid # NoId => file'[proc[q].sid] = file[proc[q].sid],
         \A q \in Others(p) : proc[q].id # NoId /\ Exists(proc[q].id)
                                => Exists(proc[q].id)' /\ file[proc[q].id] \subseteq file'[proc[q].id],
         \A q \in Others(p) : At(q, "delete") => ~Listed(proc[q].id)'
  PROVE  \A q \in Others(p) : OfSession(q)' /\ OfOperation(q)'
<1> SUFFICES ASSUME NEW q \in Others(p) PROVE OfSession(q)' /\ OfOperation(q)'
  OBVIOUS
<1>1. q \in Procs /\ proc'[q] = proc[q] /\ proc[q] \in Processes
  BY DEF Others, IndexInd, IndexTypes
<1>2. OfSession(q) /\ OfOperation(q) /\ IndexTypes
  BY <1>1 DEF IndexInd
<1>3. said \in Nat /\ said' \in Nat /\ 0..said \subseteq 0..said'
  BY <1>2 DEF IndexTypes
<1>4. OfSession(q)'
  BY <1>1, <1>2 DEF OfSession, Exists
<1>5. ASSUME proc[q].at \in {"load", "export"}
      PROVE  proc[q].count <= Cardinality(file'[proc[q].id])
  <2>1. proc[q].id \in Ids /\ proc[q].id # NoId /\ Exists(proc[q].id)
    BY <1>1, <1>2, <1>5 DEF OfOperation, Processes
  <2>2. Exists(proc[q].id)' /\ file[proc[q].id] \subseteq file'[proc[q].id]
    BY <2>1
  <2>3. file[proc[q].id] \in SUBSET TurnNos /\ file'[proc[q].id] \in SUBSET TurnNos
    BY <1>2, <2>1, <2>2 DEF IndexTypes, Exists
  <2>4. /\ Cardinality(file[proc[q].id]) <= Cardinality(file'[proc[q].id])
        /\ Cardinality(file[proc[q].id]) \in Nat /\ Cardinality(file'[proc[q].id]) \in Nat
    BY <2>2, <2>3, Sizes
  <2>5. proc[q].count <= Cardinality(file[proc[q].id]) /\ proc[q].count \in Nat
    BY <1>1, <1>2, <1>5 DEF OfOperation, Processes
  <2> QED BY <2>4, <2>5
<1>6. OfOperation(q)'
  BY <1>1, <1>2, <1>3, <1>5 DEF OfOperation, Exists, Listed, Importing, At
<1> QED BY <1>4, <1>6

\* A step of p keeps the invariant when it keeps the disk's part of it, p's
\* own, and p's apart from the others'.
LEMMA Together ==
  ASSUME IndexInd, NEW p \in Procs, IndexTypes', DiskInv',
         \A q \in Others(p) : proc'[q] = proc[q],
         OfSession(p)', OfOperation(p)', OfPrune(p)',
         \A q \in Others(p) : OfSession(q)' /\ OfOperation(q)' /\ ~Pruning(q),
         \A q \in Others(p) : Apart(p, q)' /\ Apart(q, p)'
  PROVE  IndexInd'
<1>1. ASSUME NEW q \in Procs PROVE (OfSession(q) /\ OfOperation(q) /\ OfPrune(q))'
  <2>1. CASE q = p
    BY <2>1
  <2>2. CASE q \in Others(p)
    <3>1. ~Pruning(q)'
      BY <2>2 DEF Pruning
    <3> QED BY <2>2, <3>1 DEF OfPrune
  <2> QED BY <2>1, <2>2 DEF Others
<1>2. ASSUME NEW a \in Procs, NEW b \in Others(a) PROVE Apart(a, b)'
  <2>1. CASE a = p
    BY <2>1
  <2>2. CASE b = p
    BY <2>2 DEF Others
  <2>3. CASE a # p /\ b # p
    <3>1. proc'[a] = proc[a] /\ proc'[b] = proc[b] /\ Apart(a, b)
      BY <2>3 DEF Others, IndexInd
    <3> QED BY <3>1 DEF Apart, Importing, At
  <2> QED BY <2>1, <2>2, <2>3
<1> QED BY <1>1, <1>2 DEF IndexInd

\* A process that is through with an operation is in nobody's way.
LEMMA EndedIsApart ==
  ASSUME IndexInd, NEW p \in Procs, NEW q \in Others(p), proc'[q] = proc[q],
         proc'[p].id = NoId, proc'[p].at \in {"idle", "down", "touch", "scan"},
         proc'[p].sid \in {NoId, proc[p].sid}
  PROVE  Apart(p, q)' /\ Apart(q, p)'
<1>1. q \in Procs /\ p \in Others(q) /\ p # q
  BY DEF Others
<1>2. Apart(p, q) /\ Apart(q, p) /\ OfOperation(q)
  BY <1>1 DEF IndexInd
<1>3. Apart(p, q)'
  BY <1>2 DEF Apart, Importing, At
<1>4. Apart(q, p)'
  BY <1>2 DEF Apart, Importing, At, OfOperation
<1> QED BY <1>3, <1>4

-----------------------------------------------------------------------------
(* Steps that write nothing *)

\* What is left to show of a step of p that leaves the disk alone.
LEMMA Quiet ==
  ASSUME IndexAssumption, IndexInd, NEW p \in Procs, NEW r \in Processes,
         proc' = [proc EXCEPT ![p] = r], UNCHANGED <<stored, said, kept>>,
         used \subseteq used', used' \subseteq Ids,
         OfSession(p)', OfOperation(p)', OfPrune(p)',
         \A q \in Others(p) : ~Pruning(q) /\ Apart(p, q)' /\ Apart(q, p)'
  PROVE  IndexInd'
<1>1. UNCHANGED <<row, file, exports, said, kept>>
  BY DEF stored
<1>2. /\ proc' \in [Procs -> Processes] /\ proc'[p] = r
      /\ \A q \in Others(p) : proc'[q] = proc[q]
  BY OneMoves DEF IndexInd, IndexTypes
<1>3. IndexTypes'
  BY <1>1, <1>2 DEF IndexInd, IndexTypes
<1>4. DiskInv'
  BY <1>1 DEF IndexInd, DiskInv, ListedCanBeResumed, TurnsSurvive, Exists, Listed
<1>5. \A q \in Others(p) : OfSession(q)' /\ OfOperation(q)'
  <2>1. said <= said'
    BY <1>1 DEF IndexInd, IndexTypes
  <2>2. \A q \in Others(p) : At(q, "delete") => ~Listed(proc[q].id)'
    BY <1>1 DEF IndexInd, OfOperation, Listed, At, Others
  <2>3. \A q \in Others(p) : Exists(proc[q].id) => Exists(proc[q].id)'
    BY <1>1, <1>2 DEF Exists
  <2> QED BY <1>1, <1>2, <1>3, <2>1, <2>2, <2>3, Bystanders
<1> QED BY <1>2, <1>3, <1>4, <1>5, Together

LEMMA StopStep ==
  ASSUME IndexAssumption, IndexInd, NEW p \in Procs, Quits(p)
  PROVE  IndexInd'
<1> DEFINE r == [Fresh EXCEPT !.at = "down"]
<1>1. r \in Processes /\ r.at = "down" /\ r.id = NoId /\ r.sid = NoId
  BY DEF Fresh, Processes, Positions
<1>2. proc' = [proc EXCEPT ![p] = r] /\ UNCHANGED <<stored, past>> /\ proc'[p] = r
  BY OneMoves, <1>1 DEF Quits, IndexInd, IndexTypes
<1> HIDE DEF r
<1>3. OfSession(p)' /\ OfOperation(p)' /\ OfPrune(p)'
  BY <1>1, <1>2 DEF OfSession, OfOperation, OfPrune, Pruning, Importing
<1>4. \A q \in Others(p) : ~Pruning(q) /\ proc'[q] = proc[q]
  BY <1>1, <1>2, Alone, OneMoves DEF Quits, IndexInd, IndexTypes
<1>5. \A q \in Others(p) : Apart(p, q)' /\ Apart(q, p)'
  BY <1>1, <1>2, <1>4, EndedIsApart
<1> QED BY <1>1, <1>2, <1>3, <1>4, <1>5, Quiet DEF past, IndexInd, IndexTypes

LEMMA StartStep ==
  ASSUME IndexAssumption, Beside = {}, IndexInd, NEW p \in Procs, Start(p)
  PROVE  IndexInd'
<1>1. Fresh \in Processes /\ Fresh.at = "idle" /\ Fresh.id = NoId /\ Fresh.sid = NoId
  BY FreshIs DEF Fresh
<1>2. proc' = [proc EXCEPT ![p] = Fresh] /\ UNCHANGED <<stored, past>> /\ proc'[p] = Fresh
  BY OneMoves, <1>1 DEF Start, IndexInd, IndexTypes
<1>3. OfSession(p)' /\ OfOperation(p)' /\ OfPrune(p)'
  BY <1>1, <1>2 DEF OfSession, OfOperation, OfPrune, Pruning, Importing
<1>4. \A q \in Others(p) : ~Pruning(q) /\ proc'[q] = proc[q]
  BY <1>1, <1>2, OneMoves DEF Start, IndexInd, IndexTypes
<1>5. \A q \in Others(p) : Apart(p, q)' /\ Apart(q, p)'
  BY <1>1, <1>2, <1>4, EndedIsApart
<1> QED BY <1>1, <1>2, <1>3, <1>4, <1>5, Quiet DEF past, IndexInd, IndexTypes

\* A session is loaded that no other process is concerned with.
LEMMA LoadStep ==
  ASSUME IndexAssumption, Beside = {}, IndexInd, NEW p \in Procs, NEW i \in Ids, Load(p, i)
  PROVE  IndexInd'
<1> DEFINE r == [Fresh EXCEPT !.at = "load", !.id = i, !.count = row[i]]
<1>1. /\ Listed(i) /\ Exists(i) /\ i \in used /\ row[i] <= Cardinality(file[i])
      /\ row[i] \in Nat /\ i # NoId /\ ~At(p, "down")
  BY DEF Load, At, IndexInd, DiskInv, ListedCanBeResumed, IndexTypes, Listed, IndexAssumption, NoId
<1>2. r \in Processes /\ r.at = "load" /\ r.id = i /\ r.sid = NoId /\ r.count = row[i]
  BY <1>1 DEF Fresh, Processes, Positions
<1>3. proc' = [proc EXCEPT ![p] = r] /\ UNCHANGED <<stored, past>> /\ proc'[p] = r
  BY OneMoves, <1>2 DEF Load, IndexInd, IndexTypes
<1> HIDE DEF r
<1>4. OfSession(p)' /\ OfOperation(p)' /\ OfPrune(p)'
  BY <1>1, <1>2, <1>3 DEF OfSession, OfOperation, OfPrune, Pruning, Importing, stored, past, Exists
<1>5. \A q \in Others(p) : ~Pruning(q) /\ proc'[q] = proc[q]
  BY <1>1, <1>2, <1>3, Alone, OneMoves DEF IndexInd, IndexTypes
<1>6. ASSUME NEW q \in Others(p) PROVE Apart(p, q)' /\ Apart(q, p)'
  <2>1. i # proc[q].sid /\ i # proc[q].id
    BY <1>1 DEF Load, Concerns
  <2>2. OfOperation(q)
    BY DEF IndexInd, Others
  <2> QED BY <1>2, <1>3, <1>5, <2>1, <2>2 DEF Apart, Importing, At, OfOperation
<1> QED BY <1>2, <1>3, <1>4, <1>5, <1>6, Quiet DEF past, IndexInd, IndexTypes

\* rename and export begin on a session that has its file and that nobody is
\* about to delete.
LEMMA BeginsStep ==
  ASSUME IndexAssumption, IndexInd, NEW p \in Procs, NEW i \in Ids,
         NEW at \in {"rename", "export"}, NEW count \in Nat,
         At(p, "idle"), i = proc[p].sid \/ Listed(i),
         proc' = [proc EXCEPT ![p] = [@ EXCEPT !.at = at, !.id = i, !.count = count]],
         at = "export" => Listed(i) /\ count = row[i],
         UNCHANGED <<stored, past>>
  PROVE  IndexInd'
<1> DEFINE r == [proc[p] EXCEPT !.at = at, !.id = i, !.count = count]
<1>1. IndexTypes /\ DiskInv /\ OfSession(p) /\ proc[p] \in Processes /\ ~At(p, "down")
  BY DEF IndexInd, IndexTypes, At
<1>2. i # NoId /\ Exists(i) /\ i \in used
  BY <1>1 DEF IndexAssumption, NoId, OfSession, DiskInv, ListedCanBeResumed
<1>3. /\ r \in Processes /\ r.at = at /\ r.id = i /\ r.count = count
      /\ r.sid = proc[p].sid /\ r.open = proc[p].open /\ r.turn = proc[p].turn
      /\ r.holds = proc[p].holds
  BY <1>1 DEF Processes, Positions
<1>4. proc' = [proc EXCEPT ![p] = r] /\ proc'[p] = r
  BY <1>3, <1>1, OneMoves DEF IndexTypes
<1> HIDE DEF r
<1>5. OfSession(p)'
  BY <1>1, <1>3, <1>4 DEF OfSession, stored, past, Exists
<1>6. OfOperation(p)'
  <2>1. at = "export" => count <= Cardinality(file[i])
    BY <1>1 DEF DiskInv, ListedCanBeResumed
  <2> QED BY <1>2, <1>3, <1>4, <2>1 DEF OfOperation, Importing, stored, past, Exists
<1>7. OfPrune(p)'
  BY <1>3, <1>4 DEF OfPrune, Pruning
<1>8. \A q \in Others(p) : ~Pruning(q) /\ proc'[q] = proc[q]
  BY <1>1, <1>3, <1>4, Alone, OneMoves DEF IndexTypes
<1>9. ASSUME NEW q \in Others(p) PROVE Apart(p, q)' /\ Apart(q, p)'
  <2>1. q \in Procs /\ p \in Others(q)
    BY DEF Others
  <2>2. Apart(p, q) /\ Apart(q, p) /\ OfOperation(q)
    BY <2>1 DEF IndexInd
  <2>3. At(q, "delete") => proc[q].id # i
    BY <2>2 DEF OfOperation, At, Apart
  <2> QED BY <1>3, <1>4, <1>8, <2>2, <2>3 DEF Apart, Importing, At
<1> QED BY <1>3, <1>4, <1>5, <1>6, <1>7, <1>8, <1>9, Quiet, <1>1 DEF past, IndexTypes

LEMMA RenameStep ==
  ASSUME IndexAssumption, IndexInd, NEW p \in Procs, NEW i \in Ids, Rename(p, i)
  PROVE  IndexInd'
<1>1. proc[p] \in Processes /\ proc \in [Procs -> Processes]
  BY DEF IndexInd, IndexTypes
<1>2. proc[p].count \in Nat
  BY <1>1 DEF Processes
<1>3. [proc[p] EXCEPT !.at = "rename", !.id = i]
        = [proc[p] EXCEPT !.at = "rename", !.id = i, !.count = proc[p].count]
  BY <1>1 DEF Processes
<1>4. proc' = [proc EXCEPT ![p] = [@ EXCEPT !.at = "rename", !.id = i, !.count = proc[p].count]]
  BY <1>1, <1>3 DEF Rename, Begins
<1> QED BY <1>2, <1>4, BeginsStep DEF Rename

LEMMA ExportStep ==
  ASSUME IndexAssumption, IndexInd, NEW p \in Procs, NEW i \in Ids, Export(p, i)
  PROVE  IndexInd'
<1>1. row[i] \in Nat
  BY DEF IndexInd, IndexTypes, Export, Listed
<1>2. proc' = [proc EXCEPT ![p] = [@ EXCEPT !.at = "export", !.id = i, !.count = row[i]]]
  BY DEF Export, IndexInd, IndexTypes
<1> QED BY <1>1, <1>2, BeginsStep DEF Export

LEMMA PruneStep ==
  ASSUME IndexAssumption, Beside = {}, IndexInd, NEW p \in Procs, Prune(p)
  PROVE  IndexInd'
<1> DEFINE known == {i \in Ids : Listed(i)}
           todo == {i \in Ids : Exists(i)} \ known
           r == [proc[p] EXCEPT !.at = "scan", !.known = known, !.todo = todo]
<1>1. /\ IndexTypes /\ DiskInv /\ OfSession(p) /\ OfOperation(p) /\ proc[p] \in Processes
      /\ proc[p].at = "idle" /\ proc[p].sid = NoId
      /\ \A q \in Others(p) : At(q, "down")
  BY DEF IndexInd, IndexTypes, At, Prune
<1>2. known \in SUBSET Ids /\ todo \in SUBSET Ids /\ \A i \in todo : ~Listed(i) /\ Exists(i)
  OBVIOUS
<1> HIDE DEF known, todo
<1>3. r \in Processes /\ r.at = "scan" /\ r.id = NoId /\ r.sid = NoId /\ r.todo = todo
  BY <1>1, <1>2 DEF Processes, Positions, OfOperation
<1>4. proc' = [proc EXCEPT ![p] = r]
  BY <1>1 DEF Prune, IndexTypes, known, todo
<1> HIDE DEF r
<1>5. proc'[p] = r /\ \A q \in Others(p) : proc'[q] = proc[q]
  BY <1>1, <1>3, <1>4, OneMoves DEF IndexTypes
<1>6. UNCHANGED <<row, file>> /\ UNCHANGED <<stored, past>>
  BY DEF Prune, stored
<1>7. OfSession(p)' /\ OfOperation(p)'
  BY <1>3, <1>5 DEF OfSession, OfOperation, Importing
<1>8. OfPrune(p)'
  BY <1>1, <1>2, <1>3, <1>5, <1>6 DEF OfPrune, At, Listed, Exists
<1>9. \A q \in Others(p) : ~Pruning(q)
  BY <1>1 DEF At, Pruning
<1>10. \A q \in Others(p) : Apart(p, q)' /\ Apart(q, p)'
  BY <1>3, <1>5, EndedIsApart
<1> QED BY <1>3, <1>4, <1>6, <1>7, <1>8, <1>9, <1>10, Quiet, <1>1 DEF past, IndexTypes

-----------------------------------------------------------------------------
(* Sessions *)

LEMMA NewStep ==
  ASSUME IndexAssumption, IndexInd, NEW p \in Procs, New(p)
  PROVE  IndexInd'
<1>1. PICK i \in Ids \ used : /\ Opens(i) /\ used' = used \cup {i}
                             /\ proc' = [proc EXCEPT ![p] = [Fresh EXCEPT !.sid = i, !.open = TRUE]]
  BY DEF New
<1> DEFINE r == [Fresh EXCEPT !.sid = i, !.open = TRUE]
<1>2. /\ IndexTypes /\ DiskInv /\ ~At(p, "down") /\ UNCHANGED <<row, exports, said, kept>>
      /\ proc \in [Procs -> Processes] /\ i # NoId
  BY DEF IndexInd, IndexTypes, At, New, IndexAssumption, NoId
<1>3. /\ r \in Processes /\ r.at = "idle" /\ r.id = NoId /\ r.sid = i /\ r.open
      /\ r.turn = 0 /\ r.holds = {}
  BY DEF Fresh, Processes, Positions
<1> HIDE DEF r
<1>4. /\ proc' \in [Procs -> Processes] /\ proc'[p] = r
      /\ \A q \in Others(p) : proc'[q] = proc[q]
  BY <1>1, <1>2, <1>3, OneMoves DEF r
<1>5. ~Exists(i) /\ ~Listed(i) /\ kept[i] = {}
  BY <1>1, <1>2 DEF DiskInv, ListedCanBeResumed, TurnsSurvive
<1>6. file' = [file EXCEPT ![i] = {}]
  BY <1>1, <1>5 DEF Opens
<1>7. file'[i] = {} /\ \A j \in Ids \ {i} : file'[j] = file[j]
  BY <1>1, <1>2, <1>6 DEF IndexTypes
<1>8. IndexTypes'
  BY <1>1, <1>2, <1>4, <1>6 DEF IndexTypes
<1>9. Exists(i)' /\ \A j \in Ids \ {i} : Exists(j)' <=> Exists(j)
  BY <1>7 DEF Exists, Absent
<1>10. DiskInv'
  <2>1. ListedCanBeResumed' /\ TurnsSurvive'
    BY <1>2, <1>5, <1>7, <1>9 DEF DiskInv, ListedCanBeResumed, TurnsSurvive, Listed
  <2> QED BY <1>1, <1>2, <1>7, <1>9, <2>1 DEF DiskInv
<1>11. OfSession(p)'
  <2>1. r.turn <= Cardinality(r.holds)
    BY <1>3, FS_EmptySet
  <2>2. i \in used' /\ r.holds = file'[i]
    BY <1>1, <1>3, <1>7
  <2> QED BY <1>3, <1>4, <1>9, <2>1, <2>2 DEF OfSession, Exists
<1>12. OfOperation(p)' /\ OfPrune(p)'
  BY <1>3, <1>4 DEF OfOperation, OfPrune, Pruning, Importing
<1>13. \A q \in Others(p) : proc[q].sid # i /\ proc[q].id # i
  BY <1>1, <1>2 DEF IndexInd, OfSession, OfOperation, Others
<1>14. \A q \in Others(p) : OfSession(q)' /\ OfOperation(q)' /\ ~Pruning(q)
  <2>1. /\ \A q \in Others(p) : proc[q].sid # NoId => file'[proc[q].sid] = file[proc[q].sid]
        /\ \A q \in Others(p) : proc[q].id # NoId => file'[proc[q].id] = file[proc[q].id]
    BY <1>2, <1>7, <1>13 DEF Processes, Others
  <2>2. \A q \in Others(p) : At(q, "delete") => ~Listed(proc[q].id)'
    BY <1>2, <1>4 DEF IndexInd, OfOperation, Listed, At, Others
  <2>3. \A q \in Others(p) : proc[q].id # NoId /\ Exists(proc[q].id) => Exists(proc[q].id)'
    BY <1>4, <2>1 DEF Exists
  <2>4. said <= said' /\ used \subseteq used'
    BY <1>1, <1>2 DEF IndexTypes
  <2> QED BY <1>2, <1>4, <1>8, <2>1, <2>2, <2>3, <2>4, Bystanders, Alone
<1>15. ASSUME NEW q \in Others(p) PROVE Apart(p, q)' /\ Apart(q, p)'
  <2>1. OfOperation(q)
    BY DEF IndexInd, Others
  <2> QED BY <1>2, <1>3, <1>4, <1>13, <2>1 DEF Apart, Importing, At, OfOperation
<1> QED BY <1>4, <1>8, <1>10, <1>11, <1>12, <1>14, <1>15, Together

\* What load opens is what the row was read for, or more of it.
LEMMA LoadedStep ==
  ASSUME IndexAssumption, IndexInd, NEW p \in Procs, Loaded(p)
  PROVE  IndexInd'
<1> DEFINE i == proc[p].id
           r == [Fresh EXCEPT !.sid = i, !.open = TRUE, !.turn = proc[p].count, !.holds = file[i]]
<1>1. /\ IndexTypes /\ OfOperation(p) /\ ~At(p, "down") /\ proc[p].at = "load"
      /\ proc \in [Procs -> Processes] /\ proc[p] \in Processes
  BY DEF IndexInd, IndexTypes, At, Loaded
<1>2. /\ i \in Ids /\ i # NoId /\ i \in used /\ Exists(i)
      /\ proc[p].count <= Cardinality(file[i]) /\ proc[p].count \in Nat
  BY <1>1 DEF OfOperation, Processes
<1>3. file' = file /\ file[i] \in SUBSET TurnNos
  BY <1>1, <1>2, OpensNothing, FilesAre DEF Loaded
<1>4. /\ r \in Processes /\ r.at = "idle" /\ r.id = NoId /\ r.sid = i /\ r.open
      /\ r.turn = proc[p].count /\ r.holds = file[i]
  BY <1>2, <1>3 DEF Fresh, Processes, Positions
<1>5. proc' = [proc EXCEPT ![p] = r]
  BY <1>3 DEF Loaded
<1> HIDE DEF r
<1>6. proc'[p] = r /\ \A q \in Others(p) : proc'[q] = proc[q]
  BY <1>1, <1>4, <1>5, OneMoves
<1>7. UNCHANGED <<stored, past>>
  BY <1>3 DEF Loaded, stored
<1>8. OfSession(p)' /\ OfOperation(p)' /\ OfPrune(p)'
  BY <1>2, <1>3, <1>4, <1>6, <1>7 DEF OfSession, OfOperation, OfPrune, Pruning, Importing, Exists, past
<1>9. ASSUME NEW q \in Others(p) PROVE Apart(p, q)' /\ Apart(q, p)'
  <2>1. q \in Procs /\ p \in Others(q)
    BY DEF Others
  <2>2. Apart(p, q) /\ Apart(q, p) /\ OfOperation(q)
    BY <2>1 DEF IndexInd
  <2>3. i # proc[q].sid /\ (Importing(q) \/ At(q, "load") => proc[q].id # i)
    BY <1>1, <2>2 DEF Apart, At
  <2>4. At(q, "delete") => proc[q].id # i
    BY <2>2 DEF Apart
  <2> QED BY <1>4, <1>6, <2>2, <2>3, <2>4 DEF Apart, Importing, At, OfOperation
<1> QED BY <1>4, <1>5, <1>7, <1>8, <1>9, <1>1, Alone, Quiet DEF past, IndexTypes

\* A turn is committed to a file its process is alone in, whose queue holds all
\* that is in it: a compaction takes nothing of another's.
LEMMA RecordStep ==
  ASSUME IndexAssumption, IndexInd, NEW p \in Procs, NEW output \in BOOLEAN, Record(p, output),
         NEW i, proc[p].sid = i
  PROVE  IndexInd'
<1> DEFINE t == said + 1
           n == proc[p].turn + (IF output THEN 1 ELSE 0)
           r == [proc[p] EXCEPT !.at = "touch", !.holds = @ \cup {t}, !.turn = n]
<1>1. /\ IndexTypes /\ DiskInv /\ OfSession(p) /\ OfOperation(p) /\ ~At(p, "down")
      /\ proc[p].at = "idle" /\ i # NoId /\ said < MaxSaid
      /\ proc \in [Procs -> Processes] /\ proc[p] \in Processes
  BY DEF IndexInd, IndexTypes, At, Record
<1>2. /\ i \in Ids /\ proc[p].open /\ i \in used /\ Exists(i) /\ proc[p].holds = file[i]
      /\ proc[p].turn <= Cardinality(file[i]) /\ proc[p].turn \in Nat
      /\ file[i] \in SUBSET TurnNos /\ file[i] \subseteq 0..said
  BY <1>1, FilesAre DEF OfSession, Processes, DiskInv
<1>3. said \in Nat /\ said' = t /\ t \in TurnNos /\ t \in Nat /\ said < t /\ said' \in 0..MaxSaid
  BY <1>1 DEF IndexTypes, Record, TurnNos, IndexAssumption
<1>4. /\ file' = [file EXCEPT ![i] = file[i] \cup {t}]
      /\ kept' = [kept EXCEPT ![i] = kept[i] \cup {t}]
      /\ proc' = [proc EXCEPT ![p] = r]
  <2>1. PICK taken \in SUBSET (file[i] \ proc[p].holds) :
            /\ file' = [file EXCEPT ![i] = (@ \ taken) \cup {said'}]
            /\ kept' = [kept EXCEPT ![i] = @ \cup {said'}]
            /\ proc' = [proc EXCEPT ![p].at = "touch", ![p].holds = @ \cup {said'},
                                    ![p].turn = @ + (IF output THEN 1 ELSE 0)]
    BY <1>2 DEF Record
  <2>2. taken = {}
    BY <1>2
  <2>3. proc' = [proc EXCEPT ![p] = r]
    BY <2>1, <1>1, <1>3
  <2> QED BY <2>1, <2>2, <2>3, <1>1, <1>2, <1>3 DEF IndexTypes
<1>5. /\ file'[i] = file[i] \cup {t} /\ kept'[i] = kept[i] \cup {t}
      /\ \A j \in Ids \ {i} : file'[j] = file[j] /\ kept'[j] = kept[j]
  BY <1>1, <1>2, <1>4 DEF IndexTypes
<1>6. /\ r \in Processes /\ r.at = "touch" /\ r.id = NoId /\ r.sid = i /\ r.open
      /\ r.turn \in Nat /\ r.turn <= proc[p].turn + 1 /\ r.holds = file[i] \cup {t}
  <2>1. n \in Nat /\ n <= proc[p].turn + 1
    BY <1>2
  <2>2. proc[p].holds \cup {t} \in SUBSET TurnNos /\ proc[p].id = NoId
    BY <1>1, <1>2, <1>3 DEF OfOperation
  <2> HIDE DEF n, t
  <2>3. r \in Processes
    BY <1>1, <2>1, <2>2 DEF Processes, Positions
  <2> QED BY <1>1, <1>2, <2>1, <2>2, <2>3 DEF Processes
<1> HIDE DEF r
<1>7. /\ proc' \in [Procs -> Processes] /\ proc'[p] = r
      /\ \A q \in Others(p) : proc'[q] = proc[q]
  BY <1>1, <1>4, <1>6, OneMoves
<1>8. UNCHANGED <<row, exports, used>> /\ 0..said \subseteq 0..said' /\ t \in 0..said'
  BY <1>3 DEF Record
<1>9. file[i] \cup {t} \in SUBSET TurnNos
  BY <1>2, <1>3
<1>10. IndexTypes'
  <2>1. file' \in [Ids -> (SUBSET TurnNos) \cup {Absent}]
    BY <1>1, <1>4, <1>9 DEF IndexTypes
  <2>2. kept' \in [Ids -> SUBSET TurnNos]
    BY <1>1, <1>2, <1>3, <1>4 DEF IndexTypes
  <2> QED BY <1>1, <1>3, <1>7, <1>8, <2>1, <2>2 DEF IndexTypes
<1>11. Exists(i)' /\ \A j \in Ids \ {i} : Exists(j)' <=> Exists(j)
  <2>1. file'[i] # Absent
    BY <1>5, <1>9, Sizes
  <2> QED BY <1>5, <2>1 DEF Exists
<1>12. /\ Cardinality(file'[i]) = Cardinality(file[i]) + 1
       /\ Cardinality(file[i]) \in Nat
  <2>1. t \in TurnNos \ file[i]
    BY <1>2, <1>3
  <2> QED BY <1>2, <1>5, <2>1, Sizes
<1>13. DiskInv'
  <2>1. \A j \in Ids : Exists(j)' => j \in used' /\ file'[j] \subseteq 0..said'
    BY <1>1, <1>2, <1>5, <1>8, <1>11 DEF DiskInv
  <2>2. \A e \in exports' : /\ e.id \in used' /\ e.take \subseteq 0..said'
                            /\ e.count <= Cardinality(e.take)
    BY <1>1, <1>8 DEF DiskInv
  <2>3. ListedCanBeResumed'
    <3>1. ASSUME NEW j \in Ids, Listed(j)' PROVE Exists(j)' /\ row'[j] <= Cardinality(file'[j])
      <4>1. Exists(j) /\ row[j] <= Cardinality(file[j]) /\ row'[j] = row[j] /\ row[j] \in Nat
        BY <1>1, <1>8, <3>1 DEF DiskInv, ListedCanBeResumed, Listed, IndexTypes
      <4>2. CASE j = i
        <5>1. row[i] <= Cardinality(file[i]) + 1
          BY <1>12, <4>1, <4>2
        <5> QED BY <1>11, <1>12, <4>1, <4>2, <5>1
      <4>3. CASE j # i
        BY <1>5, <1>11, <4>1, <4>3
      <4> QED BY <4>2, <4>3
    <3> QED BY <3>1 DEF ListedCanBeResumed
  <2>4. TurnsSurvive'
    <3>1. ASSUME NEW j \in Ids, kept'[j] # {} PROVE Exists(j)' /\ kept'[j] \subseteq file'[j]
      <4>1. kept[j] # {} => Exists(j) /\ kept[j] \subseteq file[j]
        BY <1>1 DEF DiskInv, TurnsSurvive
      <4>2. CASE j = i
        BY <1>5, <1>11, <4>1, <4>2
      <4>3. CASE j # i
        BY <1>5, <1>11, <3>1, <4>1, <4>3
      <4> QED BY <4>2, <4>3
    <3> QED BY <3>1 DEF TurnsSurvive
  <2> QED BY <2>1, <2>2, <2>3, <2>4 DEF DiskInv
<1>14. OfSession(p)'
  <2>1. r.turn <= Cardinality(r.holds)
    BY <1>2, <1>5, <1>6, <1>12
  <2>2. i \in used' /\ r.holds = file'[i]
    BY <1>2, <1>5, <1>6, <1>8
  <2> QED BY <1>1, <1>6, <1>7, <1>11, <2>1, <2>2 DEF OfSession, Exists
<1>15. OfOperation(p)' /\ OfPrune(p)'
  BY <1>6, <1>7 DEF OfOperation, OfPrune, Pruning, Importing
<1>16. \A q \in Others(p) : OfSession(q)' /\ OfOperation(q)' /\ ~Pruning(q)
  <2>1. \A q \in Others(p) : proc[q].sid # i
    BY <1>1 DEF IndexInd, Apart
  <2>2. \A q \in Others(p) : proc[q].sid # NoId => file'[proc[q].sid] = file[proc[q].sid]
    BY <1>1, <1>5, <2>1 DEF Processes, Others
  <2>3. ASSUME NEW q \in Others(p), proc[q].id # NoId, Exists(proc[q].id)
        PROVE  Exists(proc[q].id)' /\ file[proc[q].id] \subseteq file'[proc[q].id]
    <3>1. proc[q].id \in Ids /\ proc'[q] = proc[q]
      BY <1>1, <1>7, <2>3 DEF Processes, Others
    <3>2. Exists(proc[q].id)' <=> file'[proc[q].id] # Absent
      BY <3>1 DEF Exists
    <3>3. file'[proc[q].id] # Absent
      BY <1>11, <2>3, <3>1 DEF Exists
    <3>4. file[proc[q].id] \subseteq file'[proc[q].id]
      BY <1>5, <3>1
    <3> QED BY <3>2, <3>3, <3>4
  <2>4. \A q \in Others(p) : At(q, "delete") => ~Listed(proc[q].id)'
    BY <1>7, <1>8 DEF IndexInd, OfOperation, Listed, At, Others
  <2>5. said <= said'
    BY <1>3
  <2> QED BY <1>1, <1>7, <1>8, <1>10, <2>2, <2>3, <2>4, <2>5, Bystanders, Alone
<1>17. \A q \in Others(p) : Apart(p, q)' /\ Apart(q, p)'
  BY <1>6, <1>7, EndedIsApart
<1> QED BY <1>7, <1>10, <1>13, <1>14, <1>15, <1>16, <1>17, Together

-----------------------------------------------------------------------------
(* Rows *)

\* A row is made or set for a session that has its file and its turns, that no
\* other process is deleting.
LEMMA RowStep ==
  ASSUME IndexAssumption, IndexInd, NEW p \in Procs, NEW i \in Ids, NEW n \in Nat,
         row' = [row EXCEPT ![i] = n], Exists(i), n <= Cardinality(file[i]),
         proc' = [proc EXCEPT ![p] = Ended(@)], ~At(p, "down"), ~Pruning(p),
         i \in {proc[p].sid, proc[p].id}, UNCHANGED <<file, exports, past>>
  PROVE  IndexInd'
<1>1. /\ IndexTypes /\ DiskInv /\ OfSession(p) /\ OfOperation(p)
      /\ proc \in [Procs -> Processes] /\ proc[p] \in Processes
  BY DEF IndexInd, IndexTypes
<1> DEFINE r == Ended(proc[p])
<1>2. /\ r \in Processes /\ r.at = "idle" /\ r.id = NoId
      /\ r.sid = proc[p].sid /\ r.open = proc[p].open /\ r.turn = proc[p].turn
      /\ r.holds = proc[p].holds
  BY <1>1, EndedIs
<1> HIDE DEF r
<1>3. /\ proc' \in [Procs -> Processes] /\ proc'[p] = r
      /\ \A q \in Others(p) : proc'[q] = proc[q]
  BY <1>1, <1>2, OneMoves DEF r
<1>4. UNCHANGED <<file, exports, used, said, kept>>
  BY DEF past
<1>5. row'[i] = n /\ \A j \in Ids \ {i} : row'[j] = row[j]
  BY <1>1 DEF IndexTypes
<1>6. IndexTypes'
  BY <1>1, <1>3, <1>4 DEF IndexTypes
<1>7. DiskInv'
  <2>1. ListedCanBeResumed'
    BY <1>1, <1>4, <1>5 DEF DiskInv, ListedCanBeResumed, Listed, Exists
  <2>2. TurnsSurvive'
    BY <1>1, <1>4 DEF DiskInv, TurnsSurvive, Exists
  <2> QED BY <1>1, <1>4, <2>1, <2>2 DEF DiskInv, Exists
<1>8. OfSession(p)'
  BY <1>1, <1>2, <1>3, <1>4 DEF OfSession, Exists
<1>9. OfOperation(p)' /\ OfPrune(p)'
  BY <1>2, <1>3 DEF OfOperation, OfPrune, Pruning, Importing
<1>10. \A q \in Others(p) : OfSession(q)' /\ OfOperation(q)' /\ ~Pruning(q)
  <2>1. ASSUME NEW q \in Others(p), At(q, "delete") PROVE ~Listed(proc[q].id)'
    <3>1. q \in Procs /\ p \in Others(q) /\ proc'[q] = proc[q]
      BY <1>3 DEF Others
    <3>2. Apart(q, p) /\ OfOperation(q) /\ proc[q].id \in Ids
      BY <3>1, <1>1, <2>1 DEF IndexInd, OfOperation, At, Processes
    <3>3. proc[q].id # i /\ ~Listed(proc[q].id)
      BY <2>1, <3>2 DEF Apart, OfOperation, At
    <3> QED BY <3>1, <3>2, <3>3, <1>5 DEF Listed
  <2>2. \A q \in Others(p) : Exists(proc[q].id) => Exists(proc[q].id)'
    BY <1>3, <1>4 DEF Exists
  <2>3. said <= said'
    BY <1>1, <1>4 DEF IndexTypes
  <2> QED BY <1>3, <1>4, <1>6, <2>1, <2>2, <2>3, Bystanders, Alone
<1>11. \A q \in Others(p) : Apart(p, q)' /\ Apart(q, p)'
  BY <1>2, <1>3, EndedIsApart
<1> QED BY <1>3, <1>6, <1>7, <1>8, <1>9, <1>10, <1>11, Together

LEMMA TouchStep ==
  ASSUME IndexAssumption, IndexInd, NEW p \in Procs, Touch(p)
  PROVE  IndexInd'
<1>1. OfSession(p) /\ proc[p] \in Processes /\ proc[p].at = "touch"
  BY DEF IndexInd, IndexTypes, Touch, At
<1>2. /\ proc[p].sid \in Ids /\ proc[p].turn \in Nat /\ Exists(proc[p].sid)
      /\ proc[p].turn <= Cardinality(file[proc[p].sid]) /\ ~At(p, "down") /\ ~Pruning(p)
  BY <1>1 DEF OfSession, Processes, At, Pruning
<1> QED BY <1>2, RowStep DEF Touch, Ends

LEMMA RenamedStep ==
  ASSUME IndexAssumption, IndexInd, NEW p \in Procs, Renamed(p)
  PROVE  IndexInd'
<1>1. IndexTypes /\ DiskInv /\ OfOperation(p) /\ proc[p] \in Processes /\ proc[p].at = "rename"
  BY DEF IndexInd, IndexTypes, Renamed, At
<1>2. /\ proc[p].id \in Ids /\ Exists(proc[p].id) /\ ~At(p, "down") /\ ~Pruning(p)
  BY <1>1 DEF OfOperation, Processes, At, Pruning
<1> DEFINE n == IF row[proc[p].id] = NoRow THEN 0 ELSE row[proc[p].id]
<1>3. n \in Nat /\ n <= Cardinality(file[proc[p].id])
  <2>1. Cardinality(file[proc[p].id]) \in Nat
    BY <1>1, <1>2, FilesAre, Sizes
  <2> QED BY <1>1, <1>2, <2>1 DEF IndexTypes, DiskInv, ListedCanBeResumed, Listed
<1>4. row' = [row EXCEPT ![proc[p].id] = n]
  BY DEF Renamed
<1> HIDE DEF n
<1> QED BY <1>2, <1>3, <1>4, RowStep DEF Renamed, Ends

\* An import counts no more turns than it has written.
LEMMA ImportInsertsStep ==
  ASSUME IndexAssumption, IndexInd, NEW p \in Procs, ImportInserts(p)
  PROVE  IndexInd'
<1>1. IndexTypes /\ DiskInv /\ OfOperation(p) /\ proc[p] \in Processes /\ proc[p].at = "insert"
  BY DEF IndexInd, IndexTypes, ImportInserts, At
<1>2. /\ proc[p].id \in Ids /\ Exists(proc[p].id) /\ ~At(p, "down") /\ ~Pruning(p)
      /\ proc[p].count \in Nat /\ proc[p].take \in SUBSET TurnNos
      /\ proc[p].take \subseteq file[proc[p].id] /\ proc[p].count <= Cardinality(proc[p].take)
  BY <1>1 DEF OfOperation, Processes, At, Pruning, Importing
<1> DEFINE n == IF row[proc[p].id] = NoRow THEN proc[p].count ELSE row[proc[p].id]
<1>3. n \in Nat /\ n <= Cardinality(file[proc[p].id])
  <2>1. /\ Cardinality(file[proc[p].id]) \in Nat /\ Cardinality(proc[p].take) \in Nat
        /\ Cardinality(proc[p].take) <= Cardinality(file[proc[p].id])
    BY <1>1, <1>2, FilesAre, Sizes
  <2>2. proc[p].count <= Cardinality(file[proc[p].id])
    BY <1>2, <2>1
  <2> QED BY <1>1, <1>2, <2>2 DEF IndexTypes, DiskInv, ListedCanBeResumed, Listed
<1>4. row' = [row EXCEPT ![proc[p].id] = n]
  BY DEF ImportInserts
<1> HIDE DEF n
<1> QED BY <1>2, <1>3, <1>4, RowStep DEF ImportInserts, Ends

-----------------------------------------------------------------------------
(* delete *)

LEMMA DeleteStep ==
  ASSUME IndexAssumption, Beside = {}, IndexInd, NEW p \in Procs, NEW i \in Ids, Delete(p, i)
  PROVE  IndexInd'
<1>1. /\ IndexTypes /\ DiskInv /\ OfSession(p) /\ OfOperation(p) /\ proc[p].at = "idle"
      /\ proc \in [Procs -> Processes] /\ proc[p] \in Processes
      /\ proc[p].sid # i /\ Exists(i) /\ i \in used /\ i # NoId /\ ~At(p, "down")
  BY DEF IndexInd, IndexTypes, Delete, MayDelete, At, DiskInv, ListedCanBeResumed, IndexAssumption, NoId
<1> DEFINE r == [proc[p] EXCEPT !.at = "delete", !.id = i]
<1>2. /\ r \in Processes /\ r.at = "delete" /\ r.id = i
      /\ r.sid = proc[p].sid /\ r.open = proc[p].open /\ r.turn = proc[p].turn
      /\ r.holds = proc[p].holds
  BY <1>1 DEF Processes, Positions
<1>3. proc' = [proc EXCEPT ![p] = r]
  BY <1>1 DEF Delete, Begins
<1> HIDE DEF r
<1>4. /\ proc' \in [Procs -> Processes] /\ proc'[p] = r
      /\ \A q \in Others(p) : proc'[q] = proc[q]
  BY <1>1, <1>2, <1>3, OneMoves
<1>5. UNCHANGED <<file, exports, used, said, kept>>
  BY DEF past, Delete
<1>6. row'[i] = NoRow /\ \A j \in Ids \ {i} : row'[j] = row[j]
  BY <1>1 DEF IndexTypes, Delete
<1>7. IndexTypes'
  BY <1>1, <1>4, <1>5 DEF IndexTypes, Delete
<1>8. DiskInv'
  <2>1. ListedCanBeResumed'
    BY <1>1, <1>5, <1>6 DEF DiskInv, ListedCanBeResumed, Listed, Exists
  <2>2. TurnsSurvive'
    BY <1>1, <1>5 DEF DiskInv, TurnsSurvive, Exists
  <2> QED BY <1>1, <1>5, <2>1, <2>2 DEF DiskInv, Exists
<1>9. OfSession(p)' /\ OfOperation(p)' /\ OfPrune(p)'
  BY <1>1, <1>2, <1>4, <1>5, <1>6 DEF OfSession, OfOperation, OfPrune, Pruning, Importing, Exists, Listed
<1>10. \A q \in Others(p) : OfSession(q)' /\ OfOperation(q)' /\ ~Pruning(q)
  <2>1. ASSUME NEW q \in Others(p), At(q, "delete") PROVE ~Listed(proc[q].id)'
    <3>1. proc'[q] = proc[q] /\ ~Listed(proc[q].id) /\ proc[q].id \in Ids
      BY <1>1, <1>4, <2>1 DEF Others, IndexInd, OfOperation, At, Processes
    <3> QED BY <3>1, <1>6 DEF Listed
  <2>2. \A q \in Others(p) : Exists(proc[q].id) => Exists(proc[q].id)'
    BY <1>4, <1>5 DEF Exists
  <2>3. said <= said'
    BY <1>1, <1>5 DEF IndexTypes
  <2> QED BY <1>1, <1>4, <1>5, <1>7, <2>1, <2>2, <2>3, Bystanders, Alone
<1>11. ASSUME NEW q \in Others(p) PROVE Apart(p, q)' /\ Apart(q, p)'
  <2>1. i # proc[q].sid /\ i # proc[q].id
    BY DEF Delete, MayDelete, Concerns
  <2>2. Apart(p, q) /\ Apart(q, p) /\ OfOperation(q)
    BY DEF IndexInd, Others
  <2> QED BY <1>2, <1>4, <2>1, <2>2 DEF Apart, Importing, At, OfOperation
<1> QED BY <1>4, <1>7, <1>8, <1>9, <1>10, <1>11, Together

\* Taking a name from the directory is felt by those whose session it names.
LEMMA MovedIs ==
  ASSUME proc \in [Procs -> Processes], NEW i, NEW q \in Procs
  PROVE  /\ Moved(proc, i)[q] \in Processes
         /\ Moved(proc, i)[q].sid = proc[q].sid /\ Moved(proc, i)[q].id = proc[q].id
         /\ Moved(proc, i)[q].turn = proc[q].turn /\ Moved(proc, i)[q].holds = proc[q].holds
         /\ Moved(proc, i)[q].todo = proc[q].todo
         /\ proc[q].sid # i => Moved(proc, i)[q].open = proc[q].open
         /\ proc[q].sid # i /\ proc[q].id # i => Moved(proc, i)[q] = proc[q]
<1> DEFINE o == proc[q].open /\ proc[q].sid # i
           f == proc[q].fd /\ proc[q].id # i
<1>1. Moved(proc, i)[q] = [proc[q] EXCEPT !.open = o, !.fd = f]
  BY DEF Moved
<1>2. proc[q] \in Processes
  OBVIOUS
<1>3. o \in BOOLEAN /\ f \in BOOLEAN
  BY <1>2 DEF Processes
<1>4. proc[q].sid # i /\ proc[q].id # i => o = proc[q].open /\ f = proc[q].fd
  BY <1>2 DEF Processes
<1>5. proc[q].sid # i => o = proc[q].open
  BY <1>2 DEF Processes
<1> HIDE DEF o, f
<1> DEFINE m == [proc[q] EXCEPT !.open = o, !.fd = f]
<1>6. /\ m \in Processes /\ m.sid = proc[q].sid /\ m.id = proc[q].id /\ m.turn = proc[q].turn
      /\ m.holds = proc[q].holds /\ m.todo = proc[q].todo /\ m.open = o
  BY <1>2, <1>3 DEF Processes
<1>7. o = proc[q].open /\ f = proc[q].fd => m = proc[q]
  BY <1>2 DEF Processes
<1>8. Moved(proc, i)[q] = m
  BY <1>1
<1> HIDE DEF m
<1> QED BY <1>4, <1>5, <1>6, <1>7, <1>8

\* A file goes that no other process is concerned with and no row names; what
\* was kept in it goes by the same step, if there was anything.
LEMMA GoneStep ==
  ASSUME IndexAssumption, IndexInd, NEW p \in Procs, NEW i \in Ids, NEW r \in Processes,
         ~At(p, "down"), i # proc[p].sid, ~Listed(i),
         \A q \in Others(p) : proc[q].sid # i /\ proc[q].id # i,
         file' = [file EXCEPT ![i] = Absent],
         kept' \in [Ids -> SUBSET TurnNos], kept'[i] = {}, \A j \in Ids \ {i} : kept'[j] = kept[j],
         proc' = [Moved(proc, i) EXCEPT ![p] = r],
         r.sid = proc[p].sid, r.open = proc[p].open, r.turn = proc[p].turn, r.holds = proc[p].holds,
         r.at \in {"idle", "scan"}, r.id = NoId,
         OfPrune(p)', UNCHANGED <<row, exports, used, said>>
  PROVE  IndexInd'
<1>1. /\ IndexTypes /\ DiskInv /\ OfSession(p)
      /\ proc \in [Procs -> Processes] /\ proc[p] \in Processes
  BY DEF IndexInd, IndexTypes
<1>2. /\ proc' \in [Procs -> Processes] /\ proc'[p] = r
      /\ \A q \in Others(p) : proc'[q] = proc[q]
  <2>1. DOMAIN Moved(proc, i) = Procs
    BY DEF Moved
  <2>2. \A q \in Procs : Moved(proc, i)[q] \in Processes
    BY <1>1, MovedIs
  <2>3. Moved(proc, i) \in [Procs -> Processes]
    BY <2>1, <2>2 DEF Moved
  <2>4. \A q \in Others(p) : Moved(proc, i)[q] = proc[q]
    BY <1>1, MovedIs DEF Others
  <2> QED BY <2>3, <2>4 DEF Others
<1>3. file'[i] = Absent /\ \A j \in Ids \ {i} : file'[j] = file[j]
  BY <1>1 DEF IndexTypes
<1>4. IndexTypes'
  BY <1>1, <1>2 DEF IndexTypes
<1>5. ~Exists(i)' /\ \A j \in Ids \ {i} : Exists(j)' <=> Exists(j)
  BY <1>3 DEF Exists
<1>6. DiskInv'
  <2>1. ListedCanBeResumed'
    BY <1>1, <1>3, <1>5 DEF DiskInv, ListedCanBeResumed, Listed
  <2>2. TurnsSurvive'
    BY <1>1, <1>3, <1>5 DEF DiskInv, TurnsSurvive
  <2>3. \A j \in Ids : Exists(j)' => j \in used' /\ file'[j] \subseteq 0..said'
    BY <1>1, <1>3, <1>5 DEF DiskInv
  <2> QED BY <1>1, <2>1, <2>2, <2>3 DEF DiskInv
<1>7. OfSession(p)'
  <2>1. proc[p].sid # NoId => proc[p].sid \in Ids \ {i}
    BY <1>1 DEF Processes
  <2> QED BY <1>1, <1>2, <1>3, <2>1 DEF OfSession, Exists
<1>8. OfOperation(p)'
  BY <1>2 DEF OfOperation, Importing
<1>9. \A q \in Others(p) : OfSession(q)' /\ OfOperation(q)' /\ ~Pruning(q)
  <2>1. ASSUME NEW q \in Others(p)
        PROVE  /\ proc[q].sid # NoId => file'[proc[q].sid] = file[proc[q].sid]
               /\ proc[q].id # NoId => file'[proc[q].id] = file[proc[q].id]
    BY <1>1, <1>3 DEF Processes, Others
  <2>2. \A q \in Others(p) : proc[q].id # NoId /\ Exists(proc[q].id) => Exists(proc[q].id)'
    BY <1>2, <2>1 DEF Exists
  <2>3. \A q \in Others(p) : At(q, "delete") => ~Listed(proc[q].id)'
    BY <1>2 DEF IndexInd, OfOperation, At, Others, Listed
  <2>4. said <= said'
    BY <1>1 DEF IndexTypes
  <2> QED BY <1>2, <1>4, <2>1, <2>2, <2>3, <2>4, Bystanders, Alone
<1>10. \A q \in Others(p) : Apart(p, q)' /\ Apart(q, p)'
  BY <1>2, EndedIsApart
<1> QED BY <1>2, <1>4, <1>6, <1>7, <1>8, <1>9, <1>10, Together

\* Nobody lists the file a delete takes away, is in it or does anything with it.
LEMMA DeletedStep ==
  ASSUME IndexAssumption, IndexInd, NEW p \in Procs, Deleted(p), NEW i, proc[p].id = i
  PROVE  IndexInd'
<1>1. /\ IndexTypes /\ DiskInv /\ OfSession(p) /\ OfOperation(p) /\ proc[p].at = "delete"
      /\ proc \in [Procs -> Processes] /\ proc[p] \in Processes
  BY DEF IndexInd, IndexTypes, Deleted, At
<1>2. i \in Ids /\ i # proc[p].sid /\ ~Listed(i) /\ ~At(p, "down")
  BY <1>1 DEF OfOperation, Processes, At
<1>3. \A q \in Others(p) : proc[q].sid # i /\ proc[q].id # i
  BY <1>1 DEF IndexInd, Apart, At
<1> DEFINE m == Moved(proc, i)[p]
           r == Ended(m)
<1>4. /\ m \in Processes /\ m.sid = proc[p].sid /\ m.open = proc[p].open
      /\ m.turn = proc[p].turn /\ m.holds = proc[p].holds
  BY <1>1, <1>2, MovedIs
<1>5. proc' = [Moved(proc, i) EXCEPT ![p] = r]
  BY DEF Deleted
<1> HIDE DEF m
<1>6. /\ r \in Processes /\ r.at = "idle" /\ r.id = NoId
      /\ r.sid = proc[p].sid /\ r.open = proc[p].open /\ r.turn = proc[p].turn
      /\ r.holds = proc[p].holds
  BY <1>4, EndedIs
<1> HIDE DEF r
<1>7. proc'[p] = r
  <2>1. p \in DOMAIN Moved(proc, i)
    BY DEF Moved
  <2> QED BY <1>5, <2>1
<1>8. OfPrune(p)'
  BY <1>6, <1>7 DEF OfPrune, Pruning
<1>9. /\ file' = [file EXCEPT ![i] = Absent]
      /\ kept' \in [Ids -> SUBSET TurnNos] /\ kept'[i] = {} /\ \A j \in Ids \ {i} : kept'[j] = kept[j]
      /\ UNCHANGED <<row, exports, used, said>>
  BY <1>1, <1>2 DEF Deleted, IndexTypes
<1> QED BY <1>2, <1>3, <1>5, <1>6, <1>8, <1>9, GoneStep

-----------------------------------------------------------------------------
(* prune *)

\* It changes nothing of a file to look into it.
LEMMA ScanStep ==
  ASSUME IndexAssumption, IndexInd, NEW p \in Procs, Scan(p)
  PROVE  IndexInd'
<1>1. PICK i \in proc[p].todo :
         /\ Opens(i)
         /\ proc' = [proc EXCEPT ![p].todo = @ \ {i},
                                 ![p].id = IF Empty(i) THEN i ELSE NoId,
                                 ![p].at = IF Empty(i) THEN "unlink" ELSE "scan"]
  BY DEF Scan
<1>2. /\ IndexTypes /\ DiskInv /\ OfPrune(p) /\ proc[p].at = "scan" /\ ~At(p, "down") /\ Pruning(p)
      /\ proc \in [Procs -> Processes] /\ proc[p] \in Processes
  BY DEF IndexInd, IndexTypes, Scan, At, Pruning
<1>3. /\ i \in Ids /\ Exists(i) /\ ~Listed(i) /\ proc[p].sid = NoId /\ i # NoId
      /\ \A q \in Others(p) : At(q, "down")
      /\ \A j \in proc[p].todo : ~Listed(j) /\ Exists(j)
  BY <1>1, <1>2 DEF OfPrune, Processes, IndexAssumption, NoId
<1>4. file' = file
  BY <1>1, <1>2, <1>3, OpensNothing
<1>5. UNCHANGED <<stored, past>>
  BY <1>4 DEF Scan, stored
<1> DEFINE to == IF Empty(i) THEN "unlink" ELSE "scan"
           id == IF Empty(i) THEN i ELSE NoId
           r == [proc[p] EXCEPT !.todo = @ \ {i}, !.id = id, !.at = to]
<1>6. proc' = [proc EXCEPT ![p] = r]
  BY <1>1, <1>2
<1>7. /\ to \in {"scan", "unlink"} /\ (to = "scan" <=> id = NoId)
      /\ to = "unlink" => id = i /\ file[i] = {}
      /\ id \in Ids \cup {NoId}
  BY <1>3 DEF Empty
<1> HIDE DEF to, id
<1>8. /\ r \in Processes /\ r.at = to /\ r.id = id /\ r.sid = NoId /\ r.todo = proc[p].todo \ {i}
  BY <1>2, <1>3, <1>7 DEF Processes, Positions
<1> HIDE DEF r
<1>9. proc'[p] = r /\ \A q \in Others(p) : proc'[q] = proc[q]
  BY <1>2, <1>6, <1>8, OneMoves
<1>10. OfSession(p)'
  BY <1>7, <1>8, <1>9 DEF OfSession
<1>11. OfOperation(p)'
  <2>1. i \in used'
    BY <1>2, <1>3, <1>5 DEF DiskInv, past
  <2> QED BY <1>7, <1>8, <1>9, <2>1 DEF OfOperation, Importing
<1>12. OfPrune(p)'
  <2>1. row' = row
    BY <1>5 DEF stored
  <2> QED BY <1>3, <1>4, <1>7, <1>8, <1>9, <2>1 DEF OfPrune, At, Listed, Exists
<1>13. ASSUME NEW q \in Others(p) PROVE ~Pruning(q) /\ Apart(p, q)' /\ Apart(q, p)'
  <2>1. /\ proc'[q] = proc[q] /\ proc[q].at = "down" /\ proc[q].sid = NoId /\ proc[q].id = NoId
    BY <1>3, <1>9 DEF At, IndexInd, OfSession, OfOperation, Others
  <2> QED BY <1>7, <1>8, <1>9, <2>1 DEF Apart, Importing, At, Pruning
<1> QED BY <1>2, <1>5, <1>6, <1>8, <1>10, <1>11, <1>12, <1>13, Quiet DEF past, IndexTypes

\* Nor the one a prune takes away, which is empty.
LEMMA UnlinkStep ==
  ASSUME IndexAssumption, IndexInd, NEW p \in Procs, Unlink(p), NEW i, proc[p].id = i
  PROVE  IndexInd'
<1>1. /\ IndexTypes /\ DiskInv /\ OfPrune(p) /\ OfOperation(p) /\ proc[p].at = "unlink"
      /\ proc \in [Procs -> Processes] /\ proc[p] \in Processes
      /\ ~At(p, "down") /\ Pruning(p)
  BY DEF IndexInd, IndexTypes, Unlink, At, Pruning
<1>2. /\ i \in Ids /\ i # NoId /\ proc[p].sid = NoId /\ ~Listed(i) /\ Exists(i) /\ file[i] = {}
      /\ i \notin proc[p].todo /\ \A q \in Others(p) : At(q, "down")
      /\ \A j \in proc[p].todo : ~Listed(j) /\ Exists(j)
  BY <1>1 DEF OfPrune, OfOperation, Processes
<1>3. \A q \in Others(p) : proc[q].sid = NoId /\ proc[q].id = NoId /\ proc[q].at = "down"
  BY <1>2 DEF At, IndexInd, OfSession, OfOperation, Others
<1>4. kept[i] = {}
  BY <1>1, <1>2 DEF DiskInv, TurnsSurvive
<1> DEFINE m == Moved(proc, i)[p]
           r == [m EXCEPT !.at = "scan", !.id = NoId]
<1>5. /\ m \in Processes /\ m.sid = NoId /\ m.id = i /\ m.open = proc[p].open
      /\ m.turn = proc[p].turn /\ m.holds = proc[p].holds /\ m.todo = proc[p].todo
  <2>1. proc[p].sid # i
    BY <1>2
  <2> QED BY <1>1, <1>2, <2>1, MovedIs
<1>6. p \in DOMAIN Moved(proc, i)
  BY DEF Moved
<1>7. proc' = [Moved(proc, i) EXCEPT ![p] = r]
  <2>1. Exists(m.id)
    BY <1>2, <1>5
  <2> QED BY <2>1, <1>6 DEF Unlink
<1> HIDE DEF m
<1>8. /\ r \in Processes /\ r.at = "scan" /\ r.id = NoId /\ r.sid = proc[p].sid
      /\ r.open = proc[p].open /\ r.turn = proc[p].turn /\ r.holds = proc[p].holds
      /\ r.todo = proc[p].todo
  BY <1>2, <1>5 DEF Processes, Positions
<1> HIDE DEF r
<1>9. /\ file' = [file EXCEPT ![i] = Absent] /\ UNCHANGED <<row, exports, used, said, kept>>
      /\ proc'[p] = r
  BY <1>6, <1>7 DEF Unlink, past
<1>10. \A q \in Others(p) : proc'[q] = proc[q]
  <2>1. ASSUME NEW q \in Others(p) PROVE proc'[q] = proc[q]
    <3>1. q \in Procs /\ q # p /\ proc[q].sid # i /\ proc[q].id # i
      BY <1>2, <1>3 DEF Others
    <3>2. Moved(proc, i)[q] = proc[q]
      BY <1>1, <3>1, MovedIs
    <3> QED BY <1>7, <3>1, <3>2 DEF Moved
  <2> QED BY <2>1
<1>11. OfPrune(p)'
  <2>1. ASSUME NEW j \in proc[p].todo PROVE ~Listed(j)' /\ Exists(j)'
    <3>1. j # i /\ j \in Ids
      BY <1>1, <1>2 DEF Processes
    <3> QED BY <1>1, <1>2, <1>9, <3>1 DEF Listed, Exists, IndexTypes
  <2> QED BY <1>2, <1>3, <1>8, <1>9, <1>10, <2>1 DEF OfPrune, At
<1>12. kept' \in [Ids -> SUBSET TurnNos] /\ kept'[i] = {} /\ \A j \in Ids \ {i} : kept'[j] = kept[j]
  BY <1>1, <1>4, <1>9 DEF IndexTypes
<1>13. i # proc[p].sid /\ \A q \in Others(p) : proc[q].sid # i /\ proc[q].id # i
  BY <1>2, <1>3
<1> QED BY <1>1, <1>2, <1>7, <1>8, <1>9, <1>11, <1>12, <1>13, GoneStep

\* Whatever it read in the list still has its file.
LEMMA DropRowsStep ==
  ASSUME IndexAssumption, IndexInd, NEW p \in Procs, DropRows(p)
  PROVE  IndexInd'
<1>1. /\ IndexTypes /\ DiskInv /\ OfPrune(p) /\ proc[p].at = "scan" /\ ~At(p, "down") /\ Pruning(p)
      /\ proc \in [Procs -> Processes] /\ proc[p] \in Processes
  BY DEF IndexInd, IndexTypes, DropRows, At, Pruning
<1>2. row' = row
  <2>1. \A i \in Ids : ~Exists(i) => row[i] = NoRow
    BY <1>1 DEF DiskInv, ListedCanBeResumed, Listed
  <2>2. row' = [i \in Ids |-> row[i]]
    BY <2>1 DEF DropRows
  <2> QED BY <1>1, <2>2 DEF IndexTypes
<1>3. proc' = [proc EXCEPT ![p] = Ended(proc[p])] /\ UNCHANGED <<stored, past>>
  BY <1>1, <1>2 DEF DropRows, Ends, stored
<1>4. /\ Ended(proc[p]) \in Processes /\ Ended(proc[p]).at = "idle" /\ Ended(proc[p]).id = NoId
      /\ Ended(proc[p]).sid = NoId
  BY <1>1, EndedIs DEF OfPrune
<1>5. proc'[p] = Ended(proc[p]) /\ \A q \in Others(p) : proc'[q] = proc[q]
  BY <1>1, <1>3, <1>4, OneMoves
<1>6. OfSession(p)' /\ OfOperation(p)' /\ OfPrune(p)'
  BY <1>4, <1>5 DEF OfSession, OfOperation, OfPrune, Pruning, Importing
<1>7. \A q \in Others(p) : Apart(p, q)' /\ Apart(q, p)'
  BY <1>4, <1>5, EndedIsApart
<1> QED BY <1>1, <1>3, <1>4, <1>6, <1>7, Alone, Quiet DEF past, IndexTypes

-----------------------------------------------------------------------------
(* export and import *)

\* An export counts no more turns than it has taken.
LEMMA ExportedStep ==
  ASSUME IndexAssumption, IndexInd, NEW p \in Procs, Exported(p), NEW i, proc[p].id = i
  PROVE  IndexInd'
<1>1. /\ IndexTypes /\ DiskInv /\ OfSession(p) /\ OfOperation(p) /\ proc[p].at = "export"
      /\ proc \in [Procs -> Processes] /\ proc[p] \in Processes /\ ~At(p, "down")
  BY DEF IndexInd, IndexTypes, Exported, At
<1>2. /\ i \in Ids /\ Exists(i) /\ i \in used /\ proc[p].count \in Nat
      /\ proc[p].count <= Cardinality(file[i])
  BY <1>1 DEF OfOperation, Processes
<1>3. file' = file /\ file[i] \in SUBSET TurnNos /\ file[i] \subseteq 0..said
  BY <1>1, <1>2, OpensNothing, FilesAre DEF Exported, DiskInv
<1> DEFINE e == [id |-> i, count |-> proc[p].count, take |-> file[i]]
<1>4. exports' = exports \cup {e} /\ UNCHANGED <<row, file, used, said, kept>>
  BY <1>3 DEF Exported, past
<1>5. e \in [id : Ids, count : Nat, take : SUBSET TurnNos]
      /\ e.id = i /\ e.count = proc[p].count /\ e.take = file[i]
  BY <1>2, <1>3
<1> HIDE DEF e
<1> DEFINE r == Ended(proc[p])
<1>6. /\ r \in Processes /\ r.at = "idle" /\ r.id = NoId
      /\ r.sid = proc[p].sid /\ r.open = proc[p].open /\ r.turn = proc[p].turn
      /\ r.holds = proc[p].holds
  BY <1>1, EndedIs
<1>7. proc' = [proc EXCEPT ![p] = r]
  BY DEF Exported, Ends
<1> HIDE DEF r
<1>8. /\ proc' \in [Procs -> Processes] /\ proc'[p] = r
      /\ \A q \in Others(p) : proc'[q] = proc[q]
  BY <1>1, <1>6, <1>7, OneMoves
<1>9. IndexTypes'
  BY <1>1, <1>4, <1>5, <1>8 DEF IndexTypes
<1>10. DiskInv'
  <2>1. ListedCanBeResumed' /\ TurnsSurvive'
    BY <1>1, <1>4 DEF DiskInv, ListedCanBeResumed, TurnsSurvive, Listed, Exists
  <2>2. \A d \in exports' : d.id \in used /\ d.take \subseteq 0..said /\ d.count <= Cardinality(d.take)
    BY <1>1, <1>2, <1>3, <1>4, <1>5 DEF DiskInv
  <2> QED BY <1>1, <1>4, <2>1, <2>2 DEF DiskInv, Exists
<1>11. OfSession(p)' /\ OfOperation(p)' /\ OfPrune(p)'
  BY <1>1, <1>4, <1>6, <1>8
     DEF OfSession, OfOperation, OfPrune, Pruning, Importing, Exists
<1>12. \A q \in Others(p) : OfSession(q)' /\ OfOperation(q)' /\ ~Pruning(q)
  <2>1. \A q \in Others(p) : At(q, "delete") => ~Listed(proc[q].id)'
    BY <1>4, <1>8 DEF IndexInd, OfOperation, Listed, At, Others
  <2>2. \A q \in Others(p) : Exists(proc[q].id) => Exists(proc[q].id)'
    BY <1>4, <1>8 DEF Exists
  <2>3. said <= said'
    BY <1>1, <1>4 DEF IndexTypes
  <2> QED BY <1>1, <1>4, <1>8, <1>9, <2>1, <2>2, <2>3, Bystanders, Alone
<1>13. \A q \in Others(p) : Apart(p, q)' /\ Apart(q, p)'
  BY <1>6, <1>8, EndedIsApart
<1> QED BY <1>8, <1>9, <1>10, <1>11, <1>12, <1>13, Together

\* The id an import takes is one that no process is in, loads or deletes.
LEMMA ImportStep ==
  ASSUME IndexAssumption, IndexInd, NEW p \in Procs, NEW e \in exports, Import(p, e)
  PROVE  IndexInd'
<1>1. /\ IndexTypes /\ DiskInv /\ OfSession(p) /\ proc[p].at = "idle" /\ ~At(p, "down")
      /\ proc \in [Procs -> Processes] /\ proc[p] \in Processes
      /\ e \in [id : Ids, count : Nat, take : SUBSET TurnNos]
  BY DEF IndexInd, IndexTypes, Import, At
<1>2. e.id \in used /\ e.take \subseteq 0..said /\ e.count <= Cardinality(e.take)
  BY <1>1 DEF DiskInv
<1> DEFINE r(i) == [Ended(proc[p]) EXCEPT !.at = "open", !.id = i, !.count = e.count,
                                          !.take = e.take]
<1>3. PICK i \in Ids : /\ i \notin used \/ (i = e.id /\ ~Listed(i) /\ ~Exists(i))
                       /\ used' = used \cup {i}
                       /\ proc' = [proc EXCEPT ![p] = r(i)]
  <2>1. PICK i \in IF Listed(e.id) \/ Exists(e.id) THEN Ids \ used ELSE {e.id} :
              used' = used \cup {i} /\ proc' = [proc EXCEPT ![p] = r(i)]
    BY <1>1 DEF Import
  <2>2. i \in Ids /\ (i \notin used \/ (i = e.id /\ ~Listed(i) /\ ~Exists(i)))
    BY <1>1
  <2> QED BY <2>1, <2>2
<1> DEFINE n == r(i)
<1>4. i # NoId
  BY DEF IndexAssumption, NoId
<1>5. /\ n \in Processes /\ n.at = "open" /\ n.id = i /\ n.count = e.count /\ n.take = e.take
      /\ n.sid = proc[p].sid /\ n.open = proc[p].open /\ n.turn = proc[p].turn
      /\ n.holds = proc[p].holds
  <2> DEFINE d == Ended(proc[p])
  <2>1. /\ d \in Processes /\ d.sid = proc[p].sid /\ d.open = proc[p].open
        /\ d.turn = proc[p].turn /\ d.holds = proc[p].holds
    BY <1>1, EndedIs
  <2>2. n = [d EXCEPT !.at = "open", !.id = i, !.count = e.count, !.take = e.take]
    OBVIOUS
  <2> HIDE DEF d, n
  <2>3. n \in Processes
    BY <1>1, <2>1, <2>2 DEF Processes, Positions
  <2>4. /\ n.at = "open" /\ n.id = i /\ n.count = e.count /\ n.take = e.take
        /\ n.sid = d.sid /\ n.open = d.open /\ n.turn = d.turn /\ n.holds = d.holds
    BY <2>1, <2>2 DEF Processes
  <2> QED BY <2>1, <2>3, <2>4
<1>6. proc' = [proc EXCEPT ![p] = n]
  BY <1>3
<1> HIDE DEF n, r
<1>7. proc'[p] = n /\ \A q \in Others(p) : proc'[q] = proc[q]
  BY <1>1, <1>5, <1>6, OneMoves
<1>8. UNCHANGED <<stored, said, kept>> /\ UNCHANGED <<row, file>>
  BY DEF Import, stored
<1>9. ASSUME NEW q \in Procs
      PROVE  /\ proc[q].sid # i
             /\ At(q, "load") \/ At(q, "delete") => proc[q].id # i
  <2>1. OfSession(q) /\ OfOperation(q)
    BY DEF IndexInd
  <2>2. CASE i \notin used
    BY <1>4, <2>1, <2>2 DEF OfSession, OfOperation
  <2>3. CASE ~Exists(i)
    BY <1>4, <2>1, <2>3 DEF OfSession, OfOperation, At
  <2> QED BY <1>3, <2>2, <2>3
<1>10. OfSession(p)'
  BY <1>1, <1>3, <1>5, <1>7, <1>8 DEF OfSession, Exists
<1>11. OfOperation(p)'
  BY <1>2, <1>3, <1>4, <1>5, <1>7, <1>8, <1>9 DEF OfOperation, Importing
<1>12. OfPrune(p)'
  BY <1>5, <1>7 DEF OfPrune, Pruning
<1>13. ASSUME NEW q \in Others(p) PROVE Apart(p, q)' /\ Apart(q, p)'
  <2>1. q \in Procs /\ p \in Others(q)
    BY DEF Others
  <2>2. Apart(p, q) /\ Apart(q, p)
    BY <2>1 DEF IndexInd
  <2>3. proc[q].sid # i /\ (At(q, "load") \/ At(q, "delete") => proc[q].id # i)
    BY <2>1, <1>9
  <2> QED BY <1>5, <1>7, <2>2, <2>3 DEF Apart, Importing, At
<1>14. used \subseteq used' /\ used' \subseteq Ids
  BY <1>1, <1>3 DEF IndexTypes
<1> QED BY <1>1, <1>5, <1>6, <1>8, <1>10, <1>11, <1>12, <1>13, <1>14, Alone, Quiet

\* A file grows that only its import writes to, and that no process is in.
LEMMA GrowsStep ==
  ASSUME IndexAssumption, IndexInd, NEW p \in Procs, NEW i \in Ids, proc[p].id = i, Importing(p),
         NEW F \in SUBSET TurnNos, NEW K \in SUBSET F, F \subseteq 0..said,
         Exists(i) => file[i] \subseteq F,
         file' = [file EXCEPT ![i] = F], kept' = [kept EXCEPT ![i] = K],
         NEW r \in Processes, proc' = [proc EXCEPT ![p] = r],
         r.sid = proc[p].sid, r.open = proc[p].open, r.turn = proc[p].turn, r.holds = proc[p].holds,
         r.id = i, r.take = proc[p].take, r.count = proc[p].count, r.fd,
         r.at \in {"write", "insert"}, r.at = "insert" => r.take \subseteq F,
         UNCHANGED <<row, exports, used, said>>
  PROVE  IndexInd'
<1>1. /\ IndexTypes /\ DiskInv /\ OfSession(p) /\ OfOperation(p) /\ ~At(p, "down")
      /\ proc \in [Procs -> Processes] /\ proc[p] \in Processes
  BY DEF IndexInd, IndexTypes, Importing, At
<1>2. /\ proc' \in [Procs -> Processes] /\ proc'[p] = r
      /\ \A q \in Others(p) : proc'[q] = proc[q]
  BY <1>1, OneMoves
<1>3. /\ file'[i] = F /\ kept'[i] = K
      /\ \A j \in Ids \ {i} : file'[j] = file[j] /\ kept'[j] = kept[j]
  BY <1>1 DEF IndexTypes
<1>4. i \in used /\ i # NoId /\ i # proc[p].sid
  BY <1>1 DEF OfOperation, Importing, IndexAssumption, NoId
<1>5. Exists(i)' /\ \A j \in Ids \ {i} : Exists(j)' <=> Exists(j)
  <2>1. file'[i] # Absent
    BY <1>3, Sizes
  <2> QED BY <1>3, <2>1 DEF Exists
<1>6. IndexTypes'
  BY <1>1, <1>2 DEF IndexTypes
<1>7. DiskInv'
  <2>1. \A j \in Ids : Exists(j)' => j \in used' /\ file'[j] \subseteq 0..said'
    BY <1>1, <1>3, <1>4, <1>5 DEF DiskInv
  <2>2. ASSUME NEW j \in Ids, Listed(j)' PROVE Exists(j)' /\ row'[j] <= Cardinality(file'[j])
    <3>1. Exists(j) /\ row[j] <= Cardinality(file[j]) /\ row'[j] = row[j] /\ row[j] \in Nat
      BY <1>1, <2>2 DEF DiskInv, ListedCanBeResumed, Listed, IndexTypes
    <3>2. CASE j = i
      <4>1. file[i] \in SUBSET F
        BY <3>1, <3>2
      <4>2. file[i] \in SUBSET TurnNos
        BY <4>1
      <4>3. /\ Cardinality(file[i]) <= Cardinality(F)
            /\ Cardinality(file[i]) \in Nat /\ Cardinality(F) \in Nat
        BY <4>1, <4>2, Sizes
      <4> QED BY <1>3, <1>5, <3>1, <3>2, <4>3
    <3>3. CASE j # i
      BY <1>3, <1>5, <3>1, <3>3
    <3> QED BY <3>2, <3>3
  <2>3. ASSUME NEW j \in Ids, kept'[j] # {} PROVE Exists(j)' /\ kept'[j] \subseteq file'[j]
    <3>1. CASE j = i
      BY <1>3, <1>5, <3>1
    <3>2. CASE j # i
      BY <1>1, <1>3, <1>5, <2>3, <3>2 DEF DiskInv, TurnsSurvive
    <3> QED BY <3>1, <3>2
  <2> QED BY <1>1, <2>1, <2>2, <2>3 DEF DiskInv, ListedCanBeResumed, TurnsSurvive
<1>8. OfSession(p)'
  <2>1. proc[p].sid # NoId => proc[p].sid \in Ids \ {i}
    BY <1>1, <1>4 DEF Processes
  <2> QED BY <1>1, <1>2, <1>3, <1>5, <2>1 DEF OfSession, Exists
<1>9. OfOperation(p)'
  <2>1. proc[p].take \subseteq 0..said /\ proc[p].count <= Cardinality(proc[p].take)
    BY <1>1 DEF OfOperation
  <2> QED BY <1>2, <1>3, <1>4, <1>5, <2>1 DEF OfOperation, Importing, Exists
<1>10. OfPrune(p)'
  BY <1>2 DEF OfPrune, Pruning
<1>11. ASSUME NEW q \in Others(p) PROVE Apart(p, q) /\ Apart(q, p) /\ q \in Procs /\ proc[q] \in Processes
  BY <1>1 DEF IndexInd, Others
<1>12. \A q \in Others(p) : OfSession(q)' /\ OfOperation(q)' /\ ~Pruning(q)
  <2>1. \A q \in Others(p) : proc[q].sid # NoId => file'[proc[q].sid] = file[proc[q].sid]
    BY <1>3, <1>11 DEF Apart, Processes
  <2>2. ASSUME NEW q \in Others(p), proc[q].id # NoId, Exists(proc[q].id)
        PROVE  Exists(proc[q].id)' /\ file[proc[q].id] \subseteq file'[proc[q].id]
    <3>1. proc[q].id \in Ids /\ proc'[q] = proc[q]
      BY <1>2, <1>11, <2>2 DEF Processes
    <3>2. Exists(proc[q].id)' <=> file'[proc[q].id] # Absent
      BY <3>1 DEF Exists
    <3>3. file'[proc[q].id] # Absent
      BY <1>5, <2>2, <3>1 DEF Exists
    <3>4. file[proc[q].id] \subseteq file'[proc[q].id]
      BY <1>3, <2>2, <3>1
    <3> QED BY <3>2, <3>3, <3>4
  <2>3. \A q \in Others(p) : At(q, "delete") => ~Listed(proc[q].id)'
    BY <1>2 DEF IndexInd, OfOperation, Listed, At, Others
  <2>4. said <= said'
    BY <1>1 DEF IndexTypes
  <2> QED BY <1>1, <1>2, <1>6, <2>1, <2>2, <2>3, <2>4, Bystanders, Alone
<1>13. ASSUME NEW q \in Others(p) PROVE Apart(p, q)' /\ Apart(q, p)'
  BY <1>2, <1>11 DEF Apart, Importing, At
<1> QED BY <1>2, <1>6, <1>7, <1>8, <1>9, <1>10, <1>12, <1>13, Together

\* The file is made, or another import of the same export has made it.
LEMMA ImportOpensStep ==
  ASSUME IndexAssumption, IndexInd, NEW p \in Procs, ImportOpens(p), NEW i, proc[p].id = i
  PROVE  IndexInd'
<1>1. /\ IndexTypes /\ DiskInv /\ OfOperation(p) /\ proc[p].at = "open" /\ Importing(p)
      /\ proc \in [Procs -> Processes] /\ proc[p] \in Processes
  BY DEF IndexInd, IndexTypes, ImportOpens, At, Importing
<1>2. i \in Ids
  BY <1>1 DEF OfOperation, Processes
<1> DEFINE F == IF Exists(i) THEN file[i] ELSE {}
           r == [proc[p] EXCEPT !.at = "write", !.fd = TRUE]
<1>3. /\ F \in SUBSET TurnNos /\ F \subseteq 0..said /\ (Exists(i) => file[i] \subseteq F)
      /\ kept[i] \in SUBSET F
  BY <1>1, <1>2, FilesAre DEF DiskInv, TurnsSurvive
<1>4. file' = [file EXCEPT ![i] = F]
  BY <1>1 DEF ImportOpens, Opens
<1>5. kept' = [kept EXCEPT ![i] = kept[i]] /\ UNCHANGED <<row, exports, used, said>>
  BY <1>1, <1>2 DEF ImportOpens, past, IndexTypes
<1>6. /\ r \in Processes /\ r.at = "write" /\ r.id = i /\ r.fd
      /\ r.take = proc[p].take /\ r.count = proc[p].count
      /\ r.sid = proc[p].sid /\ r.open = proc[p].open /\ r.turn = proc[p].turn
      /\ r.holds = proc[p].holds
  BY <1>1 DEF Processes, Positions
<1>7. proc' = [proc EXCEPT ![p] = r]
  BY <1>1 DEF ImportOpens
<1> HIDE DEF F, r
<1> QED BY <1>1, <1>2, <1>3, <1>4, <1>5, <1>6, <1>7, GrowsStep

\* The row comes last, once all of the export is in.
LEMMA ImportWritesStep ==
  ASSUME IndexAssumption, IndexInd, NEW p \in Procs, ImportWrites(p), NEW i, proc[p].id = i
  PROVE  IndexInd'
<1>1. /\ IndexTypes /\ DiskInv /\ OfOperation(p) /\ proc[p].at = "write" /\ Importing(p)
      /\ proc \in [Procs -> Processes] /\ proc[p] \in Processes
  BY DEF IndexInd, IndexTypes, ImportWrites, At, Importing
<1>2. /\ i \in Ids /\ Exists(i) /\ proc[p].fd
      /\ proc[p].take \in SUBSET TurnNos /\ proc[p].take \subseteq 0..said
  BY <1>1 DEF OfOperation, Processes
<1>3. /\ file[i] \in SUBSET TurnNos /\ file[i] \subseteq 0..said
      /\ kept[i] \in SUBSET file[i]
  BY <1>1, <1>2, FilesAre DEF DiskInv, TurnsSurvive
<1>4. PICK part \in SUBSET proc[p].take :
         /\ file' = [file EXCEPT ![i] = @ \cup part]
         /\ kept' = [kept EXCEPT ![i] = @ \cup part]
         /\ proc' = [proc EXCEPT ![p].at = IF part = proc[p].take THEN "insert" ELSE "write"]
  BY <1>2 DEF ImportWrites
<1> DEFINE F == file[i] \cup part
           K == kept[i] \cup part
           to == IF part = proc[p].take THEN "insert" ELSE "write"
           r == [proc[p] EXCEPT !.at = to]
<1>5. /\ F \in SUBSET TurnNos /\ F \subseteq 0..said /\ file[i] \subseteq F /\ K \in SUBSET F
  BY <1>2, <1>3
<1>6. to \in {"write", "insert"} /\ (to = "insert" => proc[p].take \subseteq F)
  OBVIOUS
<1>7. file' = [file EXCEPT ![i] = F] /\ kept' = [kept EXCEPT ![i] = K]
      /\ proc' = [proc EXCEPT ![p] = r]
  BY <1>1, <1>2, <1>4 DEF IndexTypes
<1>8. UNCHANGED <<row, exports, used, said>>
  BY DEF ImportWrites
<1> HIDE DEF F, K, to
<1>9. /\ r \in Processes /\ r.at = to /\ r.id = i /\ r.fd
      /\ r.take = proc[p].take /\ r.count = proc[p].count
      /\ r.sid = proc[p].sid /\ r.open = proc[p].open /\ r.turn = proc[p].turn
      /\ r.holds = proc[p].holds
  BY <1>1, <1>2, <1>6 DEF Processes, Positions
<1> HIDE DEF r
<1> QED BY <1>1, <1>2, <1>5, <1>6, <1>7, <1>8, <1>9, GrowsStep

-----------------------------------------------------------------------------
(* Theorems about the index *)

LEMMA IndexStarts ==
  ASSUME IndexAssumption, IndexInit
  PROVE  IndexInd
<1> DEFINE r == [Fresh EXCEPT !.at = "down"]
<1>1. /\ r \in Processes /\ r.at = "down" /\ r.id = NoId /\ r.sid = NoId
  BY DEF Fresh, Processes, Positions
<1>2. \A p \in Procs : proc[p] = r
  BY DEF IndexInit
<1>3. proc \in [Procs -> Processes]
  BY <1>1 DEF IndexInit
<1> HIDE DEF r
<1>4. MaxSaid \in Nat /\ Foreign \in Ids
  BY DEF IndexAssumption
<1>5. IndexTypes
  <2>1. 0 \in TurnNos /\ said \in 0..MaxSaid
    BY <1>4 DEF IndexInit, TurnNos
  <2> QED BY <1>3, <1>4, <2>1 DEF IndexInit, IndexTypes
<1>6. DiskInv
  <2>1. \A i \in Ids : ~Exists(i) /\ ~Listed(i) /\ kept[i] = {}
    BY DEF IndexInit, Exists, Listed
  <2>2. \A e \in exports : e.id \in used /\ e.take \subseteq 0..said /\ e.count <= Cardinality(e.take)
    <3>1. 0 \in 0..said /\ {0} \subseteq 0..said
      BY DEF IndexInit
    <3>2. Cardinality({0}) = 1
      BY FS_Singleton
    <3>3. ASSUME NEW e \in exports PROVE e.id = Foreign /\ e.take = {0} /\ e.count = 1
      BY DEF IndexInit
    <3>4. Foreign \in used
      BY DEF IndexInit
    <3> QED BY <3>1, <3>2, <3>3, <3>4
  <2> QED BY <2>1, <2>2 DEF DiskInv, ListedCanBeResumed, TurnsSurvive
<1>7. \A p \in Procs : OfSession(p) /\ OfOperation(p) /\ OfPrune(p)
  BY <1>1, <1>2 DEF OfSession, OfOperation, OfPrune, Pruning, Importing
<1>8. \A p \in Procs : \A q \in Others(p) : Apart(p, q)
  BY <1>1, <1>2 DEF Apart, Importing, At, Others
<1> QED BY <1>5, <1>6, <1>7, <1>8 DEF IndexInd

LEMMA IndexSteps ==
  ASSUME IndexAssumption, Beside = {}, IndexInd, [IndexNext]_indexVars
  PROVE  IndexInd'
<1>1. CASE UNCHANGED indexVars
  BY <1>1 DEF indexVars, stored, past, IndexInd, IndexTypes, DiskInv, ListedCanBeResumed, TurnsSurvive,
              Exists, Listed, OfSession, OfOperation, OfPrune, Pruning, Importing, At, Apart
<1>2. ASSUME NEW p \in Procs, Start(p) \/ Quits(p) PROVE IndexInd'
  BY <1>2, StartStep, StopStep
<1>3. ASSUME NEW p \in Procs, InSession(p) PROVE IndexInd'
  <2>1. CASE New(p) \/ Loaded(p) \/ Touch(p) \/ Renamed(p)
    BY <2>1, NewStep, LoadedStep, TouchStep, RenamedStep
  <2>2. CASE \E output \in BOOLEAN : Record(p, output)
    BY <2>2, RecordStep
  <2>3. CASE \E i \in Ids : Load(p, i) \/ Rename(p, i)
    BY <2>3, LoadStep, RenameStep
  <2> QED BY <1>3, <2>1, <2>2, <2>3 DEF InSession
<1>4. ASSUME NEW p \in Procs, Housekeeping(p) PROVE IndexInd'
  <2>1. CASE \E i \in Ids : Delete(p, i) \/ Export(p, i)
    BY <2>1, DeleteStep, ExportStep
  <2>2. CASE \E e \in exports : Import(p, e)
    BY <2>2, ImportStep
  <2>3. CASE Deleted(p) \/ Prune(p) \/ Scan(p) \/ Unlink(p) \/ DropRows(p)
    BY <2>3, DeletedStep, PruneStep, ScanStep, UnlinkStep, DropRowsStep
  <2>4. CASE Exported(p) \/ ImportOpens(p) \/ ImportWrites(p) \/ ImportInserts(p)
    BY <2>4, ExportedStep, ImportOpensStep, ImportWritesStep, ImportInsertsStep
  <2> QED BY <1>4, <2>1, <2>2, <2>3, <2>4 DEF Housekeeping
<1> QED BY <1>1, <1>2, <1>3, <1>4 DEF IndexNext

(***************************************************************************)
(* Who is in a session, loads, deletes, imports or prunes it has it to     *)
(* itself, and what it read of it is still so at each step of the          *)
(* operation (agent/cli/shell.py Session, agent/memory/sessions.py).       *)
(***************************************************************************)
THEOREM IndexIsInductive ==
  ASSUME IndexAssumption, Beside = {}
  PROVE  IndexSpec => []IndexInd
<1>1. IndexInit => IndexInd
  BY IndexStarts
<1>2. IndexInd /\ [IndexNext]_indexVars => IndexInd'
  BY IndexSteps
<1> QED BY <1>1, <1>2, PTL DEF IndexSpec

(***************************************************************************)
(* A session the list shows has its file, and the file at least the turns  *)
(* the row counts, wherever any process stopped (shell.py record_turn;     *)
(* sessions.py import_payload, delete, prune).                             *)
(***************************************************************************)
THEOREM ListedIsResumable ==
  ASSUME IndexAssumption, Beside = {}
  PROVE  IndexSpec => []IndexInv
<1>1. IndexInd => IndexInv
  BY DEF IndexInd, DiskInv, IndexInv
<1> QED BY <1>1, IndexIsInductive, PTL

(***************************************************************************)
(* Whatever was committed to a session's file stays in it until somebody   *)
(* deletes that session (sessions.py prune, import_payload; store.py).     *)
(***************************************************************************)
THEOREM NoTurnIsLost ==
  ASSUME IndexAssumption, Beside = {}
  PROVE  IndexSpec => []TurnsSurvive
<1>1. IndexInd => TurnsSurvive
  BY DEF IndexInd, DiskInv
<1> QED BY <1>1, IndexIsInductive, PTL

-----------------------------------------------------------------------------
(* A handle of the library *)

(* What has been done of a turn when its thread has come this far: the     *)
(* sides that are written are in memory before the row that lists them.    *)
Written(w) ==
  /\ pc[w] \in {"reply", "index", "final"} => mine[w] \in human
  /\ pc[w] \in {"index", "final"} => mine[w] \in otto \cup silent
  /\ pc[w] = "final" => mine[w] \in listed

(* While a question is open, the Event of a thread that waits for it is set *)
(* by an answer to that question or by a cancel of this turn, and a thread  *)
(* that has woken saw it set.                                               *)
Heard(w) ==
  /\ pc[w] \in {"asked", "wait", "woken"} /\ ready => cancelled \/ answer = question
  /\ pc[w] = "woken" => ready

(* The handle is running while a thread is inside run, and a turn has begun. *)
Begun(w) == pc[w] # "out" => running /\ turn > 0

HandleInd == HandleInv /\ \A w \in Threads : Written(w) /\ Heard(w) /\ Begun(w)

-----------------------------------------------------------------------------
(* The inductive invariant *)

USE BoundsAssumption

LEMMA HandleStarts == Init => HandleInd
<1> SUFFICES ASSUME Init PROVE HandleInd OBVIOUS
<1>1. TypeOK
  <2>1. running \in BOOLEAN /\ cancelled \in BOOLEAN /\ ready \in BOOLEAN
    BY DEF Init
  <2>2. 0 \in 0..MaxTurns /\ pc \in [Threads -> Places] /\ mine \in [Threads -> 0..MaxTurns]
    BY DEF Init, Places
  <2> QED BY <2>1, <2>2 DEF Init, TypeOK
<1>2. OneTurnAtATime /\ NoQuestionOutlivesItsTurn /\ FinalMeansRemembered
  BY DEF Init, OneTurnAtATime, NoQuestionOutlivesItsTurn, FinalMeansRemembered
<1>3. \A w \in Threads : Written(w) /\ Heard(w) /\ Begun(w)
  BY DEF Init, Written, Heard, Begun
<1> QED BY <1>1, <1>2, <1>3 DEF HandleInd, HandleInv

\* Every step keeps the types.
LEMMA TypeInd == TypeOK /\ [Next]_vars => TypeOK'
<1> SUFFICES ASSUME TypeOK, [Next]_vars PROVE TypeOK' OBVIOUS
<1> USE DEF Next, Host, Step, InGraph, Asking, Ending, vars, handle, record, told, Goto,
            Run, Poll, Interrupt, Ask, Wait, Unheard, Wake, TakeAnswer, Stop, Fail, Finish,
            RecordHuman, RecordReply, Index, RecordRaises, Final, Leave, Answer, Cancel
<1>1. running' \in BOOLEAN /\ ready' \in BOOLEAN
  BY Zenon DEF TypeOK
<1>2. cancelled' \in BOOLEAN
  <2>1. (cancelled \/ turn > 0) \in BOOLEAN
    OBVIOUS
  <2> QED BY <2>1, Zenon DEF TypeOK
<1>3. turn' \in 0..MaxTurns /\ question' \in Nat /\ answer' \in 0..question'
  BY DEF TypeOK
<1>4. mine' \in [Threads -> 0..MaxTurns] /\ pending' \in 0..MaxTurns
  BY DEF TypeOK
<1>5. pc' \in [Threads -> Places]
  BY DEF TypeOK, Places
<1>6. \A w \in Threads : pc'[w] # "out" => mine'[w] \in Turns
  BY DEF TypeOK, Turns
<1>7. {silent, human, otto, listed, finals, errors}' \subseteq SUBSET Turns
  BY DEF TypeOK
<1> QED BY <1>1, <1>2, <1>3, <1>4, <1>5, <1>6, <1>7 DEF TypeOK

\* One turn at a time: Run asks for it, Leave gives it up, and no other step
\* lets a thread in.
LEMMA OneTurnInd ==
  ASSUME HandleInd, [Next]_vars
  PROVE  OneTurnAtATime' /\ \A w \in Threads : Begun(w)'
<1> USE DEF HandleInd, HandleInv, OneTurnAtATime, Begun
<1>1. ASSUME NEW w \in Threads, Run(w)
      PROVE  OneTurnAtATime' /\ \A v \in Threads : Begun(v)'
  BY <1>1 DEF Run, Goto, TypeOK
<1>2. ASSUME NEW w \in Threads, Leave(w)
      PROVE  OneTurnAtATime' /\ \A v \in Threads : Begun(v)'
  BY <1>2 DEF Leave, Goto, TypeOK
<1>3. ASSUME NEW w \in Threads, InGraph(w) \/ Asking(w) \/ Ending(w), ~Leave(w)
      PROVE  OneTurnAtATime' /\ \A v \in Threads : Begun(v)'
  BY <1>3 DEF InGraph, Asking, Ending, Poll, Interrupt, Ask, Wait, Unheard, Wake,
              TakeAnswer, Stop, Fail, Finish, RecordHuman, RecordReply, Index,
              RecordRaises, Final, Goto, handle, TypeOK
<1>4. CASE Host \/ UNCHANGED vars
  BY <1>4 DEF Host, Cancel, Answer, vars, handle
<1> QED BY <1>1, <1>2, <1>3, <1>4 DEF Next, Step

\* A question is open while its turn runs: Ask opens it, and the thread comes
\* by TakeAnswer or Leave before it is out.
LEMMA QuestionInd ==
  ASSUME HandleInd, [Next]_vars
  PROVE  NoQuestionOutlivesItsTurn'
<1> USE DEF HandleInd, HandleInv, NoQuestionOutlivesItsTurn
<1>1. ASSUME NEW w \in Threads, Run(w) \/ Leave(w) \/ TakeAnswer(w)
      PROVE  NoQuestionOutlivesItsTurn'
  BY <1>1 DEF Run, Leave, TakeAnswer
<1>2. ASSUME NEW w \in Threads, Ask(w)
      PROVE  NoQuestionOutlivesItsTurn'
  BY <1>2 DEF Ask, Goto, TypeOK
<1>3. ASSUME NEW w \in Threads, Step(w), ~Leave(w), ~TakeAnswer(w), ~Ask(w)
      PROVE  NoQuestionOutlivesItsTurn'
  BY <1>3 DEF Step, InGraph, Asking, Ending, Poll, Interrupt, Wait, Unheard, Wake, Stop,
              Fail, Finish, RecordHuman, RecordReply, Index, RecordRaises, Final, Goto,
              handle, TypeOK
<1>4. CASE Host \/ UNCHANGED vars
  BY <1>4 DEF Host, Cancel, Answer, vars, handle
<1> QED BY <1>1, <1>2, <1>3, <1>4 DEF Next

\* What is written of a turn stays written, and each side is there before the
\* thread goes on.
LEMMA WrittenInd ==
  ASSUME HandleInd, [Next]_vars
  PROVE  FinalMeansRemembered' /\ \A w \in Threads : Written(w)'
<1> USE DEF HandleInd, HandleInv, FinalMeansRemembered, Written
<1>1. ASSUME NEW w \in Threads, NEW text \in BOOLEAN, Finish(w, text)
      PROVE  FinalMeansRemembered' /\ \A v \in Threads : Written(v)'
  BY <1>1 DEF Finish, Goto, TypeOK, told
<1>2. ASSUME NEW w \in Threads, RecordHuman(w)
      PROVE  FinalMeansRemembered' /\ \A v \in Threads : Written(v)'
  BY <1>2 DEF RecordHuman, Goto, TypeOK, told
<1>3. ASSUME NEW w \in Threads, RecordReply(w)
      PROVE  FinalMeansRemembered' /\ \A v \in Threads : Written(v)'
  BY <1>3 DEF RecordReply, Goto, TypeOK, told
<1>4. ASSUME NEW w \in Threads, Index(w)
      PROVE  FinalMeansRemembered' /\ \A v \in Threads : Written(v)'
  BY <1>4 DEF Index, Goto, TypeOK, told
<1>5. ASSUME NEW w \in Threads, Final(w)
      PROVE  FinalMeansRemembered' /\ \A v \in Threads : Written(v)'
  BY <1>5 DEF Final, Goto, TypeOK, record
<1>6. ASSUME NEW w \in Threads, Run(w)
      PROVE  FinalMeansRemembered' /\ \A v \in Threads : Written(v)'
  BY <1>6 DEF Run, Goto, TypeOK, record, told
<1>7. ASSUME NEW w \in Threads,
             Asking(w) \/ Poll(w) \/ Interrupt(w) \/ Fail(w) \/ Stop(w) \/ RecordRaises(w)
               \/ Leave(w)
      PROVE  FinalMeansRemembered' /\ \A v \in Threads : Written(v)'
  BY <1>7 DEF Asking, Poll, Interrupt, Ask, Wait, Unheard, Wake, TakeAnswer, Fail, Stop,
              RecordRaises, Leave, Goto, TypeOK, record, told
<1>8. CASE Host \/ UNCHANGED vars
  BY <1>8 DEF Host, Cancel, Answer, vars, record, told
<1> QED BY <1>1, <1>2, <1>3, <1>4, <1>5, <1>6, <1>7, <1>8 DEF Next, Step, InGraph, Ending

\* An Event that is set was set for this question or to cancel this turn: Ask
\* clears it, and only one thread is inside run.
LEMMA HeardInd ==
  ASSUME HandleInd, [Next]_vars
  PROVE  \A w \in Threads : Heard(w)'
<1> USE DEF HandleInd, HandleInv, Heard
<1>1. ASSUME NEW w \in Threads, Run(w) \/ Ask(w)
      PROVE  \A v \in Threads : Heard(v)'
  BY <1>1 DEF Run, Ask, Goto, TypeOK, OneTurnAtATime, Begun
<1>2. ASSUME NEW w \in Threads, Step(w), ~Ask(w)
      PROVE  \A v \in Threads : Heard(v)'
  BY <1>2 DEF Step, InGraph, Asking, Ending, Poll, Interrupt, Wait, Unheard, Wake,
              TakeAnswer, Stop, Fail, Finish, RecordHuman, RecordReply, Index,
              RecordRaises, Final, Leave, Goto, handle, TypeOK
<1>3. ASSUME NEW t \in Turns, Answer(t)
      PROVE  \A v \in Threads : Heard(v)'
  BY <1>3 DEF Answer
<1>4. CASE Cancel
  BY <1>4 DEF Cancel, Begun
<1>5. CASE UNCHANGED vars
  BY <1>5 DEF vars, handle
<1> QED BY <1>1, <1>2, <1>3, <1>4, <1>5 DEF Next, Host

LEMMA HandleSteps == HandleInd /\ [Next]_vars => HandleInd'
BY TypeInd, OneTurnInd, QuestionInd, WrittenInd, HeardInd DEF HandleInd, HandleInv

LEMMA HandleIndHolds == Spec => []HandleInd
BY HandleStarts, HandleSteps, PTL DEF Spec

-----------------------------------------------------------------------------
(* Theorems *)

(***************************************************************************)
(* However many threads call run, answer and cancel, one turn runs at a    *)
(* time, no question is open between turns, and a final event follows the  *)
(* record of both sides (embed.py run, answer; shell.py record_turn).      *)
(***************************************************************************)
THEOREM OneTurnRemembered == Spec => []HandleInv
<1>1. HandleInd => HandleInv
  BY DEF HandleInd
<1> QED BY <1>1, HandleIndHolds, PTL

(***************************************************************************)
(* A thread that waits for an answer goes on with the answer to the very   *)
(* question it asked, or not at all (embed.py _wait_for_answer).           *)
(***************************************************************************)
THEOREM AnswersMeetQuestions == Spec => AnswerMeetsItsQuestion
<1>1. ASSUME HandleInd, [Next]_vars, NEW w \in Threads, pc[w] = "woken", pc'[w] = "graph"
      PROVE  answer = question
  <2>1. ASSUME NEW v \in Threads, Run(v) \/ Step(v)
        PROVE  v = w /\ TakeAnswer(w)
    BY <1>1, <2>1 DEF Step, InGraph, Asking, Ending, Run, Poll, Interrupt, Ask, Wait, Unheard,
       Wake, TakeAnswer, Stop, Fail, Finish, RecordHuman, RecordReply, Index, RecordRaises,
       Final, Leave, Goto, HandleInd, HandleInv, TypeOK
  <2>2. ~(Host \/ UNCHANGED vars)
    BY <1>1 DEF Host, Cancel, Answer, vars
  <2>3. TakeAnswer(w)
    BY <1>1, <2>1, <2>2 DEF Next
  <2>4. ~cancelled
    BY <1>1, <2>3 DEF TakeAnswer, Goto, HandleInd, HandleInv, TypeOK
  <2> QED BY <1>1, <2>4 DEF HandleInd, Heard
<1>2. HandleInd /\ [Next]_vars =>
        [\A w \in Threads : pc[w] = "woken" /\ pc'[w] = "graph" => answer = question]_vars
  BY <1>1
<1> QED BY <1>2, HandleIndHolds, PTL DEF Spec, AnswerMeetsItsQuestion

=============================================================================
