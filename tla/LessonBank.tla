----------------------------- MODULE LessonBank -----------------------------
(***************************************************************************)
(* The lesson bank (agent/memory/lessons.py): one file that every run      *)
(* reads a lesson from when it starts and leaves at most a few in when it  *)
(* ends.  A workspace run distils before its answer goes out; a phone run  *)
(* distils on a daemon thread after it (agent/pipeline/nodes.py            *)
(* _learn_in_background), writes what it learned of apps as well           *)
(* (agent/phone/notes.py record_app_notes), and may still be at it when a  *)
(* host closes or the process ends.  A person may import, delete and clear *)
(* at any moment.                                                          *)
(*                                                                         *)
(* A text stands for a rendered lesson, Near for a cosine similarity above *)
(* DUPLICATE_SIMILARITY, About for one above MIN_RELEVANCE to the task.    *)
(***************************************************************************)
EXTENDS Naturals, Sequences, FiniteSets, Positions

CONSTANTS
  Actors,           \* the runs and the imports
  Does,             \* what each is: "work", "phone" or "import"
  Writers,          \* those that may write; the others are read_only()
  LessonTexts,            \* rendered lessons
  Near,             \* the pairs of texts the bank calls the same lesson
  About,            \* <<actor, text>>: the text is relevant to its task
  Payment,          \* texts that name a payment step or a secret
  Apps,             \* packages a note may be about
  DistillerReplies,          \* what a distiller answers: [lessons, notes, seen]
  Files,            \* what an imported file holds
  MAX_PER_RUN, MAX_NOTES_PER_RUN, MAX_NOTES_PER_APP,
  MaxEdits          \* bound: how often a person deletes or clears

\* An app that was seen has a valid package name, and no app is called as the
\* two kinds of lessons are.
ASSUME BankAssumption ==
  /\ Does \in [Actors -> {"work", "phone", "import"}] /\ Writers \subseteq Actors
  /\ Files \subseteq Seq(LessonTexts) /\ {"lesson", "phone_lesson"} \cap Apps = {}
  /\ \A reply \in DistillerReplies :
       /\ reply.lessons \in Seq(LessonTexts) /\ reply.seen \subseteq Apps
       /\ reply.notes \in Seq([app : STRING, notes : Seq(LessonTexts)])
  /\ {MAX_PER_RUN, MAX_NOTES_PER_RUN, MAX_NOTES_PER_APP} \subseteq Nat

VARIABLES
  bank,             \* [kind -> rows, oldest first]
  run,              \* what each actor is in the middle of
  learning,         \* nodes._LEARNING
  closing,          \* SessionHandle.close: the threads it waits for, and those
                    \* that were still learning as it began
  edits             \* what a person has deleted or cleared

bankVars == <<bank, run, learning, closing, edits>>

KIND == "lesson"
PHONE_KIND == "phone_lesson"
Kinds == {KIND, PHONE_KIND} \cup Apps

\* _lesson_kind: a run with the phone's tools keeps its lessons apart.
LessonKind(a) == IF Does[a] = "phone" THEN PHONE_KIND ELSE KIND

\* Mutant of Hash: the plain content hash.
HashOfText(k, t) == <<KIND, t>>

\* What a stored row is found again by.  _hash salts it with the kind, so that
\* the same words of two kinds are two rows.
Hash(k, t) == <<k, t>>

\* A row has a vector if the embedder answered; who wrote it is history.
StoredRows == [text : LessonTexts, hash : Kinds \X LessonTexts, embedded : BOOLEAN, by : Actors]

TextsOf(k) == {bank[k][i].text : i \in DOMAIN bank[k]}
Stored == UNION {{bank[k][i].hash : i \in DOMAIN bank[k]} : k \in Kinds}

Alike(t, u) == t = u \/ <<t, u>> \in Near \/ <<u, t>> \in Near

Idle == [at |-> "out", read |-> {}, kind |-> KIND, todo |-> <<>>, notes |-> <<>>, offered |-> 0,
         existing |-> {}, kept |-> {}, stored |-> FALSE, doomed |-> {}]

BankInit ==
  /\ bank = [k \in Kinds |-> <<>>]
  /\ run = [a \in Actors |-> Idle]
  /\ learning = {}
  /\ closing = [at |-> "open", waits |-> {}, owed |-> {}, landed |-> FALSE]
  /\ edits = 0

-----------------------------------------------------------------------------
(* A run: one lesson on the way in, a few on the way out *)

\* recall_lessons: of the run's own kind, embedded, and about the task.
Relevant(a) ==
  LET rows == bank[LessonKind(a)]
  IN {rows[i].text : i \in {j \in DOMAIN rows :
        rows[j].embedded /\ <<a, rows[j].text>> \in About}}

\* _lessons_block: the nearest one, and silence when none is relevant.
Start(a) ==
  /\ run[a].at = "out" /\ Does[a] # "import"
  /\ \E read \in IF Relevant(a) = {} THEN {{}} ELSE {{t} : t \in Relevant(a)} :
       run' = [run EXCEPT ![a].at = "running", ![a].read = read]
  /\ UNCHANGED <<bank, learning, closing, edits>>

\* Threads that are learning, known to _LEARNING or not.
Background == {a \in Actors : Does[a] = "phone"
                 /\ run[a].at \in {"distil", "read", "record", "prune", "pruning"}}

\* Mutant of EndRun: a thread is known only once it has something to record.
EndRunUnknown(a) ==
  /\ run[a].at = "running"
  /\ run' = [run EXCEPT ![a].at = IF a \in Writers THEN "distil" ELSE "done"]
  /\ UNCHANGED <<bank, learning, closing, edits>>

\* learned_from at a terminal edge: nothing where nothing may be written, in
\* the background on a phone, before the answer elsewhere.
EndRun(a) ==
  /\ run[a].at = "running"
  /\ run' = [run EXCEPT ![a].at = IF a \in Writers THEN "distil" ELSE "done"]
  /\ learning' = IF a \in Writers /\ Does[a] = "phone" THEN learning \cup {a} ELSE learning
  /\ UNCHANGED <<bank, closing, edits>>

\* work's `finally`, and the run that goes on to its answer.
Leave(a, at) ==
  /\ run' = [run EXCEPT ![a] = [Idle EXCEPT !.at = at,
                 !.kind = run[a].kind, !.stored = at = "raised" /\ run[a].stored]]
  /\ learning' = learning \ {a}

\* The notes a reply offers of the apps the run read, in order, without those
\* _allowed refuses.
Offers(reply) ==
  LET fit(notes) == AtPositions(notes, {j \in DOMAIN notes : notes[j] \notin Payment})
      offers == [n \in DOMAIN reply.notes |->
                   [kind |-> reply.notes[n].app, todo |-> fit(reply.notes[n].notes)]]
  IN AtPositions(offers, {n \in DOMAIN offers : offers[n].kind \in reply.seen /\ offers[n].todo # <<>>})

AtMost(n, s) == SubSeq(s, 1, IF Len(s) < n THEN Len(s) ELSE n)

\* _distil: the call fails and nothing is learned, or its reply is recorded,
\* parse_distilled keeping the first MAX_PER_RUN.
Distil(a) ==
  /\ run[a].at = "distil"
  /\ \/ Leave(a, "done")
     \/ \E reply \in DistillerReplies :
          /\ run' = [run EXCEPT ![a].at = "read", ![a].kind = LessonKind(a),
               ![a].todo = AtMost(MAX_PER_RUN, reply.lessons),
               ![a].notes = IF Does[a] = "phone" THEN Offers(reply) ELSE <<>>]
          /\ UNCHANGED learning
  /\ UNCHANGED <<bank, closing, edits>>

\* import_lessons: unless it may not write, the whole file, into an emptied
\* bank with `replace`.
Import(a) ==
  /\ run[a].at = "out" /\ Does[a] = "import"
  /\ IF a \notin Writers
     THEN /\ run' = [run EXCEPT ![a].at = "done"]
          /\ UNCHANGED bank
     ELSE \E file \in Files, replace \in BOOLEAN :
          /\ run' = [run EXCEPT ![a].at = "read", ![a].todo = file]
          /\ bank' = IF replace THEN [bank EXCEPT ![KIND] = <<>>] ELSE bank
  /\ UNCHANGED <<learning, closing, edits>>

-----------------------------------------------------------------------------
(* record_lessons and prune_kind *)

\* What is banked under the kind is read once, before the first is embedded.
Existing(a) ==
  /\ run[a].at = "read"
  /\ run' = [run EXCEPT ![a].at = "record", ![a].stored = FALSE,
       ![a].existing = {bank[run[a].kind][i].text : i \in {j \in DOMAIN bank[run[a].kind] :
                           bank[run[a].kind][j].embedded}}]
  /\ UNCHANGED <<bank, learning, closing, edits>>

\* add_chunk: INSERT OR IGNORE.
Added(a, t, embedded) ==
  IF Hash(run[a].kind, t) \in Stored THEN bank
  ELSE [bank EXCEPT ![run[a].kind] = Append(@,
          [text |-> t, hash |-> Hash(run[a].kind, t), embedded |-> embedded, by |-> a])]

\* A lesson that was kept is compared with by the ones after it.
Known(a, t, embedded) == run[a].existing \cup IF embedded THEN {t} ELSE {}
\* The next lesson is embedded, if the embedder answers, and dropped when
\* what was read says it again; else it is added.
Record(a) ==
  /\ run[a].at = "record" /\ run[a].todo # <<>>
  /\ LET t == Head(run[a].todo)
     IN \E embedded \in BOOLEAN :
          IF embedded /\ \E u \in run[a].existing : Alike(t, u)
          THEN /\ run' = [run EXCEPT ![a].todo = Tail(@)]
               /\ UNCHANGED bank
          ELSE /\ bank' = Added(a, t, embedded)
               /\ run' = [run EXCEPT ![a].todo = Tail(@),
                    ![a].existing = Known(a, t, embedded),
                    ![a].kept = @ \cup {<<run[a].kind, t>>}, ![a].stored = TRUE]
  /\ UNCHANGED <<learning, closing, edits>>

\* The bank refuses a write (locked, full): a phone run learns no more, and a
\* workspace run raises before its answer is out.
Refused(a) ==
  /\ run[a].at = "record" /\ run[a].todo # <<>>
  /\ Leave(a, "raised")
  /\ UNCHANGED <<bank, closing, edits>>

\* bind_kind of the next app's notes, if there are any and the run may offer
\* more: at most MAX_NOTES_PER_RUN in all.
NextBatch(a) ==
  IF run[a].notes = <<>> \/ run[a].offered >= MAX_NOTES_PER_RUN THEN Leave(a, "done")
  ELSE LET batch == Head(run[a].notes)
           take  == AtMost(MAX_NOTES_PER_RUN - run[a].offered, batch.todo)
       IN /\ run' = [run EXCEPT ![a] = [Idle EXCEPT !.at = "read",
                       !.notes = Tail(run[a].notes), !.kind = batch.kind,
                       !.todo = take, !.offered = run[a].offered + Len(take)]]
          /\ UNCHANGED learning

\* A batch is through.  Notes that were stored prune their app.
Recorded(a) ==
  /\ run[a].at = "record" /\ run[a].todo = <<>>
  /\ \/ /\ run[a].kind \in Apps /\ run[a].stored
        /\ run' = [run EXCEPT ![a].at = "prune"]
        /\ UNCHANGED learning
     \/ /\ ~(run[a].kind \in Apps /\ run[a].stored)
        /\ NextBatch(a)
  /\ UNCHANGED <<bank, closing, edits>>

\* prune_kind reads the hashes,
Doom(a) ==
  /\ run[a].at = "prune"
  /\ LET rows == bank[run[a].kind]
     IN run' = [run EXCEPT ![a].at = "pruning",
          ![a].doomed = {rows[i].hash : i \in 1..(Len(rows) - MAX_NOTES_PER_APP)}]
  /\ UNCHANGED <<bank, learning, closing, edits>>

\* and deletes the oldest.
Prune(a) ==
  /\ run[a].at = "pruning"
  /\ bank' = [bank EXCEPT ![run[a].kind] =
                 AtPositions(@, {i \in DOMAIN @ : @[i].hash \notin run[a].doomed})]
  /\ NextBatch(a)
  /\ UNCHANGED <<closing, edits>>

-----------------------------------------------------------------------------
(* The person, the host and the process *)

\* delete_lesson and delete_note: one row of a kind.
Delete(k) ==
  /\ bank[k] # <<>> /\ edits < MaxEdits
  /\ edits' = edits + 1
  /\ \E i \in DOMAIN bank[k] : bank' = [bank EXCEPT ![k] = AtPositions(@, DOMAIN @ \ {i})]
  /\ UNCHANGED <<run, learning, closing>>

\* clear_lessons
Clear(k) ==
  /\ bank[k] # <<>> /\ edits < MaxEdits
  /\ edits' = edits + 1
  /\ bank' = [bank EXCEPT ![k] = <<>>]
  /\ UNCHANGED <<run, learning, closing>>

\* SessionHandle.close: wait_for_learning takes the threads there are,
Close ==
  /\ closing.at = "open"
  /\ closing' = [closing EXCEPT !.at = "waiting", !.waits = learning,
                                 !.owed = Background]
  /\ UNCHANGED <<bank, run, learning, edits>>

\* joins each, at most ten seconds in all, and says whether all have ended.
Waited ==
  /\ closing.at = "waiting"
  /\ closing' = [closing EXCEPT !.at = "closed", !.landed = closing.waits \cap learning = {}]
  /\ UNCHANGED <<bank, run, learning, edits>>

\* The process ends, and its daemon threads with it, wherever they are.
Exit ==
  /\ closing.at = "closed" /\ Background # {}
  /\ run' = [a \in Actors |-> IF a \in Background THEN [run[a] EXCEPT !.at = "dead"] ELSE run[a]]
  /\ learning' = {}
  /\ UNCHANGED <<bank, closing, edits>>

BankNext ==
  \/ \E a \in Actors :
       \/ Start(a) \/ EndRun(a) \/ Distil(a) \/ Import(a)
       \/ Existing(a) \/ Record(a) \/ Refused(a) \/ Recorded(a) \/ Doom(a) \/ Prune(a)
  \/ \E k \in Kinds : Delete(k) \/ Clear(k)
  \/ Close \/ Waited \/ Exit

BankSpec == BankInit /\ [][BankNext]_bankVars

-----------------------------------------------------------------------------
RunPhases == {"out", "running", "distil", "read", "record", "prune", "pruning",
           "done", "raised", "dead"}

BankTypeOK ==
  /\ \A k \in Kinds : \A i \in DOMAIN bank[k] : bank[k][i] \in StoredRows
  /\ \A a \in Actors : run[a].at \in RunPhases /\ run[a].kind \in Kinds
  /\ learning \subseteq Actors

\* Who learns where: a workspace's lessons, a phone's and an app's notes never
\* mix, whichever kind was bound before (lessons.py bind_kind).
KindsStayApart ==
  \A k \in Kinds : \A i \in DOMAIN bank[k] :
    CASE k = KIND -> Does[bank[k][i].by] # "phone"
      [] k = PHONE_KIND -> Does[bank[k][i].by] = "phone"
      [] OTHER -> Does[bank[k][i].by] = "phone" /\ bank[k][i].text \notin Payment

\* Of what one run banked under one kind no two embedded lessons say the same.
OneRunRepeatsNothing ==
  \A k \in Kinds : \A i, j \in DOMAIN bank[k] :
    /\ i # j /\ bank[k][i].by = bank[k][j].by
    /\ bank[k][i].embedded /\ bank[k][j].embedded
    => ~Alike(bank[k][i].text, bank[k][j].text)

\* An app holds no more than its newest notes, except while a run that has
\* just added one has yet to prune it, or never came to.
Unpruned(a, p) ==
  run[a].kind = p /\ run[a].stored /\ run[a].at \in {"record", "prune", "pruning", "raised", "dead"}
AppsKeepFew ==
  \A p \in Apps : Len(bank[p]) > MAX_NOTES_PER_APP => \E a \in Actors : Unpruned(a, p)

\* wait_for_learning is false when a lesson that was being learned as the host
\* began to close went with the process (embed.py close).
LossIsTold ==
  \A a \in closing.owed : run[a].at = "dead" => ~closing.landed

\* What is in the bank is of its own kind, said once by a run, few per app, and
\* what did not reach it the host was told.
BankInv ==
  /\ BankTypeOK
  /\ KindsStayApart
  /\ OneRunRepeatsNothing
  /\ AppsKeepFew
  /\ LossIsTold

\* What a run reports as kept is in the bank as it does, under the kind it was
\* learned under, also when the row was there already.
KeptIsBanked ==
  [][\A a \in Actors : \A kt \in run'[a].kept \ run[a].kept :
       \E i \in DOMAIN bank'[kt[1]] : bank'[kt[1]][i].text = kt[2]]_bankVars

\* "A run that produced an answer has done its job, and losing the lesson is
\* not worth losing the answer" (_distil).
AnswersSurvive == \A a \in Actors : Does[a] = "work" => run[a].at # "raised"

=============================================================================
