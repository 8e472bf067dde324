---------------------------- MODULE SessionIndex ----------------------------
(***************************************************************************)
(* The saved sessions of one machine: the index (agent/memory/sessions.py),*)
(* the memory file each has (agent/memory/store.py), and the processes that*)
(* use both: a front end with the session it is in (Session of             *)
(* agent/cli/shell.py), and `otto sessions` (agent/cli/sessions.py), which *)
(* has none.  A session a host has open (SessionHandle of agent/embed.py)  *)
(* counts as a process: they share nothing but the disk.                   *)
(*                                                                         *)
(* The index and each file are databases of their own, so what spans both  *)
(* is several commits and a process may stop between any two.  A name may  *)
(* be taken from a file another process has open: SQLite then refuses that *)
(* process's next write (the database has moved), and a new file under the *)
(* name is another file.                                                   *)
(*                                                                         *)
(* Abstractions.  A turn is a number and a file the set of the turns in it:*)
(* its tiers, and a crash inside a write, are TieredQueue's.  Titles,      *)
(* workspaces and times are left out, and with them `last`; a reference is *)
(* the id it resolves to.                                                  *)
(***************************************************************************)
EXTENDS Integers, FiniteSets

CONSTANTS
  Procs,     \* processes of otto on the machine
  Ids,       \* ids uuid4 may give
  Foreign,   \* the id of a session exported on another machine
  MaxSaid,  \* bound: turns said here in one behaviour
  MaxCopies, \* bound: exports made here
  Beside     \* what is done beside another process it concerns, of Chores

Chores == {"prune", "delete", "resume"}

\* What a run gives these.
IndexAssumption ==
  /\ IsFiniteSet(Procs) /\ IsFiniteSet(Ids)
  /\ Foreign \in Ids /\ "none" \notin Ids
  /\ MaxSaid \in Nat /\ MaxCopies \in Nat
  /\ Beside \subseteq Chores

NoId   == "none"
NoRow  == -1     \* what the index holds of an id it does not know
Absent == {-1}   \* what the memory directory holds of a file not there
TurnNos  == 0..MaxSaid   \* 0 is the turn said on the other machine

VARIABLES
  row,     \* table sessions: the turns each id's row counts, or NoRow
  file,    \* the memory directory: the turns in each id's file, or Absent
  exports, \* export files: the id, the count and the turns
  proc,    \* of each process its Session, and the operation it is in
  used,    \* ids uuid4 has given, here or elsewhere
  said,    \* turns said here
  kept     \* history: what was committed to an id since it was last deleted

stored == <<row, file, exports>>
past == <<used, said, kept>>
indexVars == <<stored, proc, past>>

Listed(i) == row[i] # NoRow
Exists(i) == file[i] # Absent
Others(p) == Procs \ {p}

\* A process in no session: its Session (the id, whether its connection is on
\* the file of that name, turn, the turns its queue holds), and its operation
\* (the id, whether its own connection is, the turns counted and read, and
\* what prune has read).
Fresh == [at |-> "idle", sid |-> NoId, open |-> FALSE, turn |-> 0, holds |-> {},
          id |-> NoId, fd |-> FALSE, count |-> 0, take |-> {},
          known |-> {}, todo |-> {}]

At(p, at)      == proc[p].at = at
Begins(p, at, i) == proc' = [proc EXCEPT ![p].at = at, ![p].id = i]
Ended(r)       == [Fresh EXCEPT !.sid = r.sid, !.open = r.open, !.turn = r.turn,
                                !.holds = r.holds]
Ends(p)        == proc' = [proc EXCEPT ![p] = Ended(@)]

\* MemoryStore(path) makes the file that is not there.
Opens(i) == file' = [file EXCEPT ![i] = IF Exists(i) THEN @ ELSE {}]

Concerns(q, i) == i \in {proc[q].sid, proc[q].id}

\* The name goes: a connection to what had it is on no file any more.
Moved(procs, i) ==
  [q \in Procs |-> [procs[q] EXCEPT !.open = @ /\ procs[q].sid # i,
                                    !.fd = @ /\ procs[q].id # i]]

-----------------------------------------------------------------------------
(* A process and the session it is in *)

Pruning(p) == proc[p].at \in {"scan", "unlink"}

\* A front end, or `otto sessions`, which stays in no session.
Start(p) ==
  /\ At(p, "down")
  /\ "prune" \in Beside \/ \A q \in Others(p) : ~Pruning(q)
  /\ proc' = [proc EXCEPT ![p] = Fresh]
  /\ UNCHANGED <<stored, past>>

\* Session(), and reset(): the store that was open is closed, the file of a
\* new id made.
New(p) ==
  /\ At(p, "idle")
  /\ \E i \in Ids \ used :
       /\ Opens(i)
       /\ used' = used \cup {i}
       /\ proc' = [proc EXCEPT ![p] = [Fresh EXCEPT !.sid = i, !.open = TRUE]]
  /\ UNCHANGED <<row, exports, said, kept>>

\* load resolves the reference in the index and closes the store it has.
Load(p, i) ==
  /\ At(p, "idle") /\ Listed(i)
  /\ "resume" \in Beside \/ \A q \in Others(p) : ~Concerns(q, i)
  /\ proc' = [proc EXCEPT ![p] = [Fresh EXCEPT !.at = "load", !.id = i, !.count = row[i]]]
  /\ UNCHANGED <<stored, past>>

\* It opens the other one's file, and reads it back.
Loaded(p) ==
  /\ At(p, "load")
  /\ Opens(proc[p].id)
  /\ proc' = [proc EXCEPT ![p] = [Fresh EXCEPT !.sid = proc[p].id, !.open = TRUE,
                                               !.turn = proc[p].count,
                                               !.holds = file'[proc[p].id]]]
  /\ UNCHANGED <<row, exports, past>>

\* record_turn: the queue writes the turn and may compact, which takes the
\* pending rows of its older tier, those another process has put there too;
\* then the turn is counted if it has an output.  A file that has moved
\* refuses the write, and the error leaves record_turn.
Record(p, output) ==
  /\ At(p, "idle") /\ proc[p].sid # NoId /\ said < MaxSaid
  /\ said' = said + 1
  /\ \/ /\ proc[p].open
        /\ \E taken \in SUBSET (file[proc[p].sid] \ proc[p].holds) :
             file' = [file EXCEPT ![proc[p].sid] = (@ \ taken) \cup {said'}]
        /\ kept' = [kept EXCEPT ![proc[p].sid] = @ \cup {said'}]
        /\ proc' = [proc EXCEPT ![p].at = "touch", ![p].holds = @ \cup {said'},
                                ![p].turn = @ + (IF output THEN 1 ELSE 0)]
     \/ /\ ~proc[p].open
        /\ UNCHANGED <<file, kept, proc>>
  /\ UNCHANGED <<row, exports, used>>

\* The rest of record_turn: touch makes the row, or updates it.
Touch(p) ==
  /\ At(p, "touch")
  /\ row' = [row EXCEPT ![proc[p].sid] = proc[p].turn]
  /\ Ends(p)
  /\ UNCHANGED <<file, exports, past>>

\* rename of the process's own session, or of one it has found in the list;
\* either makes the row that is not there.
Rename(p, i) ==
  /\ At(p, "idle") /\ (i = proc[p].sid \/ Listed(i))
  /\ Begins(p, "rename", i)
  /\ UNCHANGED <<stored, past>>

Renamed(p) ==
  /\ At(p, "rename")
  /\ row' = [row EXCEPT ![proc[p].id] = IF @ = NoRow THEN 0 ELSE @]
  /\ Ends(p)
  /\ UNCHANGED <<file, exports, past>>

-----------------------------------------------------------------------------
(* delete *)

MayDelete(p, i) ==
  /\ At(p, "idle") /\ proc[p].sid # i
  /\ Listed(i) \/ Exists(i)
  /\ "delete" \in Beside \/ \A q \in Others(p) : ~Concerns(q, i)

\* The row of a session the process is not in: a front end leaves its own
\* first.
Delete(p, i) ==
  /\ MayDelete(p, i)
  /\ row' = [row EXCEPT ![i] = NoRow]
  /\ Begins(p, "delete", i)
  /\ UNCHANGED <<file, exports, past>>

\* Its file.
Deleted(p) ==
  /\ At(p, "delete")
  /\ file' = [file EXCEPT ![proc[p].id] = Absent]
  /\ kept' = [kept EXCEPT ![proc[p].id] = {}]
  /\ proc' = [Moved(proc, proc[p].id) EXCEPT ![p] = Ended(@)]
  /\ UNCHANGED <<row, exports, used, said>>

-----------------------------------------------------------------------------
(* prune *)

\* What the index names, and then what the directory holds beside it.
Prune(p) ==
  /\ At(p, "idle") /\ proc[p].sid = NoId
  /\ "prune" \in Beside \/ \A q \in Others(p) : At(q, "down")
  /\ LET known == {i \in Ids : Listed(i)}
     IN proc' = [proc EXCEPT ![p].at = "scan", ![p].known = known,
                             ![p].todo = {i \in Ids : Exists(i)} \ known]
  /\ UNCHANGED <<stored, past>>

\* Mutant of Empty: what no row names goes, whatever is in it.
EmptyUnread(i) == TRUE

\* MemoryStore.is_empty, once the file is open.
Empty(i) == ~Exists(i) \/ file[i] = {}

\* The next of them: one that holds something stays.
Scan(p) ==
  /\ At(p, "scan")
  /\ \E i \in proc[p].todo :
       /\ Opens(i)
       /\ proc' = [proc EXCEPT ![p].todo = @ \ {i},
                               ![p].id = IF Empty(i) THEN i ELSE NoId,
                               ![p].at = IF Empty(i) THEN "unlink" ELSE "scan"]
  /\ UNCHANGED <<row, exports, past>>

\* One that another prune or a delete has taken is an error, and ends prune.
Unlink(p) ==
  /\ At(p, "unlink")
  /\ file' = [file EXCEPT ![proc[p].id] = Absent]
  /\ proc' = [Moved(proc, proc[p].id) EXCEPT
                ![p] = IF Exists(@.id) THEN [@ EXCEPT !.at = "scan", !.id = NoId] ELSE Ended(@)]
  /\ UNCHANGED <<row, exports, past>>

\* The rows it read whose file is gone.
DropRows(p) ==
  /\ At(p, "scan") /\ proc[p].todo = {}
  /\ row' = [i \in Ids |-> IF i \in proc[p].known /\ ~Exists(i) THEN NoRow ELSE row[i]]
  /\ Ends(p)
  /\ UNCHANGED <<file, exports, past>>

-----------------------------------------------------------------------------
(* export and import *)

\* export_payload: the row of a session, then its file.
Export(p, i) ==
  /\ At(p, "idle") /\ Listed(i) /\ Cardinality(exports) <= MaxCopies
  /\ proc' = [proc EXCEPT ![p].at = "export", ![p].id = i, ![p].count = row[i]]
  /\ UNCHANGED <<stored, past>>

Exported(p) ==
  /\ At(p, "export")
  /\ Opens(proc[p].id)
  /\ exports' = exports \cup
       {[id |-> proc[p].id, count |-> proc[p].count, take |-> file'[proc[p].id]]}
  /\ Ends(p)
  /\ UNCHANGED <<row, past>>

\* import_payload keeps the exported id if nothing here has it, and takes a
\* new one otherwise.
Import(p, e) ==
  /\ At(p, "idle")
  /\ \E i \in IF Listed(e.id) \/ Exists(e.id) THEN Ids \ used ELSE {e.id} :
       /\ used' = used \cup {i}
       /\ proc' = [proc EXCEPT ![p] = [Ended(@) EXCEPT !.at = "open", !.id = i,
                                         !.count = e.count, !.take = e.take]]
  /\ UNCHANGED <<stored, said, kept>>

ImportOpens(p) ==
  /\ At(p, "open")
  /\ Opens(proc[p].id)
  /\ proc' = [proc EXCEPT ![p].at = "write", ![p].fd = TRUE]
  /\ UNCHANGED <<row, exports, past>>

\* Mutant of ImportWrites: the row first, what it counts after.
ImportInsertsFirst(p) ==
  /\ At(p, "write")
  /\ row' = [row EXCEPT ![proc[p].id] = IF @ = NoRow THEN proc[p].count ELSE @]
  /\ proc' = [proc EXCEPT ![p].at = "insert"]
  /\ UNCHANGED <<file, exports, past>>

\* The rows of the export, a commit each: some are written, then all.
ImportWrites(p) ==
  /\ At(p, "write")
  /\ \/ /\ proc[p].fd
        /\ \E part \in SUBSET proc[p].take :
             /\ file' = [file EXCEPT ![proc[p].id] = @ \cup part]
             /\ kept' = [kept EXCEPT ![proc[p].id] = @ \cup part]
             /\ proc' = [proc EXCEPT ![p].at = IF part = proc[p].take THEN "insert" ELSE "write"]
     \/ /\ ~proc[p].fd
        /\ Ends(p)
        /\ UNCHANGED <<file, kept>>
  /\ UNCHANGED <<row, exports, used, said>>

\* Its row: one that is there by now is an IntegrityError.
ImportInserts(p) ==
  /\ At(p, "insert")
  /\ row' = [row EXCEPT ![proc[p].id] = IF @ = NoRow THEN proc[p].count ELSE @]
  /\ Ends(p)
  /\ UNCHANGED <<file, exports, past>>

-----------------------------------------------------------------------------
\* The process ends, or stops wherever it is.
Quits(p) ==
  /\ ~At(p, "down")
  /\ proc' = [proc EXCEPT ![p] = [Fresh EXCEPT !.at = "down"]]
  /\ UNCHANGED <<stored, past>>

IndexInit ==
  /\ row = [i \in Ids |-> NoRow] /\ file = [i \in Ids |-> Absent]
  /\ exports = {[id |-> Foreign, count |-> 1, take |-> {0}]}
  /\ proc = [p \in Procs |-> [Fresh EXCEPT !.at = "down"]]
  /\ used = {Foreign} /\ said = 0
  /\ kept = [i \in Ids |-> {}]

InSession(p) ==
  \/ New(p) \/ Loaded(p) \/ Touch(p) \/ Renamed(p)
  \/ \E output \in BOOLEAN : Record(p, output)
  \/ \E i \in Ids : Load(p, i) \/ Rename(p, i)

Housekeeping(p) ==
  \/ \E i \in Ids : Delete(p, i) \/ Export(p, i)
  \/ \E e \in exports : Import(p, e)
  \/ Deleted(p) \/ Prune(p) \/ Scan(p) \/ Unlink(p) \/ DropRows(p)
  \/ Exported(p) \/ ImportOpens(p) \/ ImportWrites(p) \/ ImportInserts(p)

IndexNext == \E p \in Procs : Start(p) \/ Quits(p) \/ InSession(p) \/ Housekeeping(p)

IndexSpec == IndexInit /\ [][IndexNext]_indexVars

-----------------------------------------------------------------------------
Positions == {"down", "idle", "load", "touch", "rename", "delete", "scan", "unlink",
           "export", "open", "write", "insert"}
Processes ==
  [at : Positions, sid : Ids \cup {NoId}, open : BOOLEAN, turn : Nat, holds : SUBSET TurnNos,
   id : Ids \cup {NoId}, fd : BOOLEAN, count : Nat, take : SUBSET TurnNos,
   known : SUBSET Ids, todo : SUBSET Ids]

\* What each table, file and process may hold.
IndexTypes ==
  /\ row \in [Ids -> Nat \cup {NoRow}]
  /\ file \in [Ids -> (SUBSET TurnNos) \cup {Absent}]
  /\ exports \subseteq [id : Ids, count : Nat, take : SUBSET TurnNos]
  /\ proc \in [Procs -> Processes]
  /\ used \subseteq Ids /\ said \in 0..MaxSaid
  /\ kept \in [Ids -> SUBSET TurnNos]

\* What was committed to a session's file stays in it until somebody deletes
\* that session: no prune, import, resume, compaction or stop takes a turn
\* away (prune: "Orphan files that DO hold something. Left alone").  False
\* with any of Chores in Beside.
TurnsSurvive == \A i \in Ids : kept[i] # {} => Exists(i) /\ kept[i] \subseteq file[i]

\* A session the list shows can be resumed with all the turns it shows: it has
\* its file, and the file the turns, wherever a process stopped (Session
\* .record_turn; sessions.import_payload, sessions.delete).  False with any of
\* Chores in Beside: a prune takes the file of a first turn before its row is
\* made; two processes in one session compact each other's turns away.
ListedCanBeResumed ==
  \A i \in Ids : Listed(i) => Exists(i) /\ row[i] <= Cardinality(file[i])

\* What holds of the index whatever stops where.
IndexInv == IndexTypes /\ ListedCanBeResumed
=============================================================================
