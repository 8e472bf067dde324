---------------------------- MODULE TieredQueue ----------------------------
(***************************************************************************)
(* The two-tier conversation memory of one session                         *)
(* (agent/memory/queue.py), together with the SQLite file it writes        *)
(* (agent/memory/store.py) and the caller that feeds it one finished turn  *)
(* at a time (agent/memory/wiring.py).                                     *)
(*                                                                         *)
(* Every store method commits on its own, so the process may stop between  *)
(* any two of them: each commit is one action here, Crash may happen in    *)
(* any state and Restore rebuilds the queue from the file.  The summariser *)
(* is a model call: it may answer anything, including nothing usable, and  *)
(* it may raise.                                                           *)
(*                                                                         *)
(* Abstractions.  A message is an element of Items; its content hash is    *)
(* the message itself.  The token count of a message is Cost[i]; a summary *)
(* or an excerpt costs one unit.  Only live (not superseded) bullet rows   *)
(* are kept, with the highest generation ever written in latest.           *)
(***************************************************************************)
EXTENDS Naturals, Sequences, FiniteSets, FiniteSetsExt, Positions

CONSTANTS
  Yours,        \* messages that open with "you: " (PROTECT_PREFIX)
  Ottos,        \* messages that open with "otto: "
  Cost,         \* tokens of a message
  Summary,      \* text of a bullet the summariser wrote
  Echo,         \* one that happens to open with "you: " itself
  Excerpt,      \* the first CARRY_FORWARD_EXCERPT_CHARS of a longer message
  XBudget, YBudget,
  Reabstract,   \* may a compaction summarise earlier bullets?
  MaxBullets,   \* bound: usable lines in one reply of the summariser
  MaxAppends    \* bound: messages said in one behaviour

Items == Yours \cup Ottos

ASSUME TextsAssumption ==
  /\ Yours \cap Ottos = {}
  /\ {Summary, Echo, Excerpt} \cap Items = {}
  /\ Cardinality({Summary, Echo, Excerpt}) = 3
ASSUME BoundsAssumption ==
  /\ Cost \in [Items -> Nat \ {0}]
  /\ XBudget \in Nat /\ YBudget \in Nat
  /\ Reabstract \in BOOLEAN
  /\ MaxBullets \in Nat /\ MaxAppends \in Nat

Texts   == Items \cup {Summary, Echo, Excerpt}
Bullets == [text : Texts, refs : SUBSET Items]
Rows    == [text : Texts, refs : SUBSET Items, gen : Nat]

VARIABLES
  x, yRaw, yBullets, generation,   \* the queue object
  pending,      \* table pending: the rows of tier x and of tier y, by id
  chunks,       \* table chunks, by content hash
  live,         \* table bullets where superseded = 0, by id
  latest,       \* MAX(generation) over the whole bullets table
  pc,           \* where the process is inside record_turn
  turn,         \* messages record_turn still has to append
  fresh,        \* new_bullets of the compaction in progress
  step,         \* index of the next chunk or bullet to write
  count         \* messages said so far

memory == <<x, yRaw, yBullets, generation>>
disk   == <<pending, chunks, live, latest>>
vars   == <<memory, disk, pc, turn, fresh, step, count>>

-----------------------------------------------------------------------------
(* Texts and bullets *)

ItemsOf(s) == {s[k] : k \in DOMAIN s}
RefsOf(bs) == UNION {bs[k].refs : k \in DOMAIN bs}

\* Rows of the table as the queue reads them.
Plain(rows) == [k \in DOMAIN rows |-> [text |-> rows[k].text, refs |-> rows[k].refs]]

Tokens(i)    == IF i \in Items THEN Cost[i] ELSE 1
TextTokens(s)   == MapThenSumSet(LAMBDA k : Tokens(s[k]), DOMAIN s)
BulletTokens(s) == MapThenSumSet(LAMBDA k : Tokens(s[k].text), DOMAIN s)
YTokens(raw, bs) == TextTokens(raw) + BulletTokens(bs)

Protected(t) == t \in Yours \cup {Echo}

Verbatim(i)  == [text |-> i, refs |-> {i}]
\* A text no longer than one excerpt is its own excerpt.
Excerpted(b) == [b EXCEPT !.text = IF Tokens(@) <= 1 THEN @ ELSE Excerpt]

-----------------------------------------------------------------------------
(* One compaction, as a function of Y and of what the summariser cites *)

\* Y's items, oldest first: the prior bullets, then the raw overflow.
YItems == yBullets \o [k \in DOMAIN yRaw |-> Verbatim(yRaw[k])]

\* Mutant of CarriedAt: a protected bullet is protected for one round only.
CarriedAtOnce ==
  {k \in DOMAIN YItems :
     \/ ~Reabstract /\ k <= Len(yBullets)
     \/ k > Len(yBullets) /\ Protected(YItems[k].text)}

\* Carried past the summariser, word for word.
CarriedAt ==
  {k \in DOMAIN YItems :
     \/ ~Reabstract /\ k <= Len(yBullets)
     \/ Protected(YItems[k].text)}
Carried == AtPositions(YItems, CarriedAt)

\* The numbered items of the prompt.
Prompt == AtPositions(YItems, DOMAIN YItems \ CarriedAt)

\* What _parse_bullets can return: usable lines, each citing items in range.
Replies ==
  UNION {[1..n -> [text : {Summary, Echo}, cites : (SUBSET DOMAIN Prompt) \ {{}}]]
           : n \in 0..MaxBullets}

\* A reply with no usable line becomes one bullet that covers everything.
Parsed(reply) ==
  IF reply = <<>> THEN <<[text |-> Summary, cites |-> DOMAIN Prompt]>> ELSE reply

Summaries(parsed) ==
  [n \in DOMAIN parsed |->
     [text |-> parsed[n].text,
      refs |-> UNION {Prompt[k].refs : k \in parsed[n].cites}]]

\* prior_bullet_count: every prior bullet, whether or not it is in the prompt.
PriorCount == IF Reabstract THEN Len(yBullets) ELSE 0

UncitedAt(parsed) ==
  DOMAIN Prompt \ UNION {parsed[n].cites : n \in DOMAIN parsed}
\* Mutant of Uncited: the prompt is trusted to have every item cited.
UncitedTrusted(parsed) == <<>>
Uncited(parsed) ==
  AtPositions([k \in DOMAIN Prompt |->
                 IF k <= PriorCount THEN Prompt[k] ELSE Excerpted(Prompt[k])],
              UncitedAt(parsed))

\* How many of the oldest bullets lose their text: those before which the
\* rest still does not fit.  Never the last one.
ShedCount(bs) ==
  Cardinality({m \in 0..(Len(bs) - 2) :
                 BulletTokens(SubSeq(bs, m + 1, Len(bs))) > YBudget})

\* What is left takes over their citations.
ShedOldest(bs) ==
  LET n == ShedCount(bs) IN
    [k \in 1..(Len(bs) - n) |->
       IF k = 1 THEN [text |-> bs[n + 1].text,
                      refs |-> RefsOf(SubSeq(bs, 1, n + 1))]
                ELSE bs[n + k]]

NewBullets(reply) ==
  LET bs == Carried \o Summaries(Parsed(reply)) \o Uncited(Parsed(reply))
  IN  IF Reabstract THEN bs ELSE ShedOldest(bs)

-----------------------------------------------------------------------------
Init ==
  /\ x = <<>> /\ yRaw = <<>> /\ yBullets = <<>> /\ generation = 0
  /\ pending = [x |-> <<>>, y |-> <<>>]
  /\ chunks = {} /\ live = <<>> /\ latest = 0
  /\ pc = "idle" /\ turn = <<>> /\ fresh = <<>> /\ step = 1 /\ count = 0

\* record_turn: the human side, and the AI side when the turn produced one.
RecordTurn(sides) ==
  /\ pc = "idle" /\ turn = <<>>
  /\ turn' = sides
  /\ UNCHANGED <<memory, disk, pc, fresh, step, count>>

\* append: into X in memory first.
Append1 ==
  /\ pc = "idle" /\ turn # <<>> /\ count < MaxAppends
  /\ x' = Append(x, Head(turn))
  /\ count' = count + 1
  /\ pc' = "mirror"
  /\ UNCHANGED <<yRaw, yBullets, generation, disk, turn, fresh, step>>

\* Back to record_turn, which goes on with the next message.
Return ==
  /\ pc' = "idle"
  /\ turn' = Tail(turn)

\* add_pending, and the whole of X overflowing into Y when it is too long.
Mirror ==
  /\ pc = "mirror"
  /\ pending' = [pending EXCEPT !.x = Append(@, Head(turn))]
  /\ IF TextTokens(x) > XBudget
       THEN /\ yRaw' = yRaw \o x
            /\ x' = <<>>
            /\ pc' = "demote"
            /\ UNCHANGED turn
       ELSE /\ Return
            /\ UNCHANGED <<x, yRaw>>
  /\ UNCHANGED <<yBullets, generation, chunks, live, latest, fresh, step, count>>

\* demote_pending, and the start of a compaction when Y is over its budget.
Demote ==
  /\ pc = "demote"
  /\ pending' = [x |-> <<>>, y |-> pending.y \o pending.x]
  /\ IF YTokens(yRaw, yBullets) > YBudget
       THEN /\ generation' = generation + 1
            /\ step' = 1
            /\ pc' = "flush"
            /\ UNCHANGED turn
       ELSE /\ Return
            /\ UNCHANGED <<generation, step>>
  /\ UNCHANGED <<x, yRaw, yBullets, chunks, live, latest, fresh, count>>

\* add_chunk for one raw item: INSERT OR IGNORE.
FlushChunk ==
  /\ pc = "flush" /\ step <= Len(yRaw)
  /\ chunks' = chunks \cup {yRaw[step]}
  /\ step' = step + 1
  /\ UNCHANGED <<memory, pending, live, latest, pc, turn, fresh, count>>

\* The summariser answers.
Summarize(reply) ==
  /\ pc = "flush" /\ step = Len(yRaw) + 1
  /\ fresh' = NewBullets(reply)
  /\ step' = 1
  /\ pc' = "write"
  /\ UNCHANGED <<memory, disk, turn, count>>

\* The summariser raises: append and record_turn unwind with it.
SummarizeRaises ==
  /\ pc = "flush" /\ step = Len(yRaw) + 1
  /\ pc' = "idle" /\ turn' = <<>> /\ step' = 1
  /\ UNCHANGED <<memory, disk, fresh, count>>

\* add_bullet for one new bullet.
WriteBullet ==
  /\ pc = "write" /\ step <= Len(fresh)
  /\ live' = Append(live, [text |-> fresh[step].text,
                           refs |-> fresh[step].refs,
                           gen  |-> generation])
  /\ latest' = generation
  /\ step' = step + 1
  /\ UNCHANGED <<memory, pending, chunks, pc, turn, fresh, count>>

\* supersede_bullets: rows are written in generation order, so the rows of
\* the older generations come first.
Supersede ==
  /\ pc = "write" /\ step = Len(fresh) + 1
  /\ LET n == CHOOSE m \in 0..Len(live) :
                \A k \in DOMAIN live : k <= m <=> live[k].gen < generation
     IN  live' = SubSeq(live, n + 1, Len(live))
  /\ pc' = "clear"
  /\ UNCHANGED <<memory, pending, chunks, latest, turn, fresh, step, count>>

\* clear_pending("y"), and the new generation takes Y's place in memory.
ClearPending ==
  /\ pc = "clear"
  /\ pending' = [pending EXCEPT !.y = <<>>]
  /\ yRaw' = <<>>
  /\ yBullets' = fresh
  /\ fresh' = <<>> /\ step' = 1
  /\ Return
  /\ UNCHANGED <<x, generation, chunks, live, latest, count>>

\* The process stops; only the file is left.
Crash ==
  /\ pc # "down"
  /\ pc' = "down"
  /\ x' = <<>> /\ yRaw' = <<>> /\ yBullets' = <<>> /\ generation' = 0
  /\ turn' = <<>> /\ fresh' = <<>> /\ step' = 1
  /\ UNCHANGED <<disk, count>>

\* Mutant of Restore: counts generations from the start again.
RestoreFromZero ==
  /\ pc = "down"
  /\ pc' = "idle"
  /\ x' = pending.x /\ yRaw' = pending.y
  /\ yBullets' = Plain(live)
  /\ generation' = 0
  /\ UNCHANGED <<disk, turn, fresh, step, count>>

\* _restore: a queue opened with restore=True over the same file.
Restore ==
  /\ pc = "down"
  /\ pc' = "idle"
  /\ x' = pending.x /\ yRaw' = pending.y
  /\ yBullets' = Plain(live)
  /\ generation' = latest
  /\ UNCHANGED <<disk, turn, fresh, step, count>>

Turns == {<<h>> : h \in Yours} \cup {<<h, a>> : h \in Yours, a \in Ottos}

Compact ==
  \/ FlushChunk
  \/ \E reply \in Replies : Summarize(reply)
  \/ SummarizeRaises
  \/ WriteBullet
  \/ Supersede
  \/ ClearPending

Next ==
  \/ \E sides \in Turns : RecordTurn(sides)
  \/ Append1 \/ Mirror \/ Demote
  \/ Compact
  \/ Crash \/ Restore

Spec == Init /\ [][Next]_vars

-----------------------------------------------------------------------------
(* Properties *)

Phases == {"idle", "mirror", "demote", "flush", "write", "clear", "down"}

\* Every variable has the type the code gives it.
TypeOK ==
  /\ x \in Seq(Items) /\ yRaw \in Seq(Items) /\ yBullets \in Seq(Bullets)
  /\ generation \in Nat
  /\ pending \in [x : Seq(Items), y : Seq(Items)]
  /\ chunks \subseteq Items /\ live \in Seq(Rows) /\ latest \in Nat
  /\ pc \in Phases /\ turn \in Seq(Items) /\ fresh \in Seq(Bullets)
  /\ step \in Nat \ {0} /\ count \in Nat

\* What the file alone can give back: verbatim rows, and stored chunks that a
\* live bullet still points at (recall searches only the live bullets).
Recoverable ==
  ItemsOf(pending.x) \cup ItemsOf(pending.y) \cup (chunks \cap RefsOf(live))

\* The words of the person that the file still holds word for word.
WordsHeld ==
  {i \in Yours : \/ i \in ItemsOf(pending.x) \cup ItemsOf(pending.y)
                \/ \E k \in DOMAIN live : live[k].text = i}

Memory == INSTANCE Remembered WITH kept <- Recoverable
Words  == INSTANCE Remembered WITH kept <- WordsHeld, Items <- Yours

\* Nothing that reached the file ever becomes unreachable from it: no step of
\* a compaction, no reply of the summariser, no crash and no restart takes
\* anything away (store.py clear_pending: "nothing is ever lost from disk,
\* only moved"; queue.py _uncited_bullets).
NothingForgotten == Memory!Spec

\* What the person said is never paraphrased away: their words stay in the
\* file verbatim through every generation (queue.py PROTECT_PREFIX).
WordsNeverParaphrased == Words!Spec

\* A live bullet never cites a chunk that is not stored, at any point of a
\* compaction (store.py Bullet.hash_refs).
RefsResolve == RefsOf(live) \subseteq chunks

\* Between two calls the queue object and the file say the same thing, also
\* after a summariser that raised and after a restart (queue.py _restore).
FileMirrorsQueue ==
  pc = "idle" =>
    /\ pending = [x |-> x, y |-> yRaw]
    /\ yBullets = Plain(live)

\* The view a prompt is built from covers all that the file can give back,
\* even while a compaction is half written (queue.py current_view).
ViewCoversFile ==
  pc # "down" =>
    Recoverable \subseteq ItemsOf(x) \cup ItemsOf(yRaw) \cup RefsOf(yBullets)

\* A compaction never writes into a generation that already has rows, so that
\* superseding retires exactly the older bullets: not after a failed
\* compaction and not after a crash in the middle of one (store.py
\* latest_generation: "rather than colliding with the one already on disk").
NoGenerationReused ==
  pc = "write" =>
    \A k \in DOMAIN live :
      live[k].gen >= generation => k > Len(live) - (step - 1)

\* The queue object, its file and the view of both agree at every point of a
\* compaction, after failures and restarts, and whatever it cites is stored.
QueueInv ==
  /\ RefsResolve
  /\ FileMirrorsQueue
  /\ ViewCoversFile
  /\ NoGenerationReused

\* store.py supersede_bullets says of two generations that "the two never
\* overlap mid-write", so a restored queue would hold the bullets of one.
GenerationsNeverOverlap ==
  pc = "idle" => \A j, k \in DOMAIN live : live[j].gen = live[k].gen

\* queue.py _uncited_bullets: "An uncited RAW item becomes a bullet holding
\* its own (truncated) text", so no bullet holds a long report whole.
LongReportsTruncated ==
  \A k \in DOMAIN live : live[k].text \in Ottos => Cost[live[k].text] <= 1

\* The module docstring of queue.py says a compaction leaves "a handful of
\* short, cited lines", "freeing almost all of Y's budget again": the new
\* bullets at least fit that budget.
CompactionFreesBudget ==
  pc = "clear" => BulletTokens(fresh) <= YBudget
=============================================================================
