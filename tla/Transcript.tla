----------------------------- MODULE Transcript -----------------------------
(***************************************************************************)
(* What becomes of a tool result in a run's conversation                   *)
(* (agent/pipeline/nodes.py): the envelope it is sent in, the folding of   *)
(* old phone screens, the compaction of old results into one-line stubs,   *)
(* the full text put in the session's store first, the restart of a        *)
(* conversation at an escalation, and the conversation written down at a   *)
(* pause and read back.  What the loop does between two calls, and which   *)
(* switch escalates, is AgentLoop; what a store keeps is TieredQueue.      *)
(*                                                                         *)
(* A text is who said it and, for a result, which call it is of and how    *)
(* much of it is left: "full", "head" (its first COMPACTED_RESULT_CHARS)   *)
(* or "line" (one line of the record of actions).                          *)
(***************************************************************************)
EXTENDS Naturals, Sequences, FiniteSets, Positions

CONSTANTS
  Outputs,           \* results: [tool, long, marked], marked as _NEVER_COMPACT
  Lines,             \* how many lines of a child's record a delegation adds
  KEEP_VERBATIM, LOOP_COMPACT_AT, SCREENS_KEPT, SCREEN_FOLD_EVERY,
  Bound,             \* current_store() is not None
  Notes,             \* workspace, session and tool notes bound: 0 to 3
  MaxMade, MaxStops

ASSUME TranscriptAssumption ==
  /\ Outputs \subseteq [tool : STRING, long : BOOLEAN, marked : BOOLEAN]
  /\ Lines \subseteq Nat
  /\ KEEP_VERBATIM \in Nat /\ LOOP_COMPACT_AT \in Nat
  /\ SCREENS_KEPT \in Nat /\ SCREEN_FOLD_EVERY \in Nat
  /\ Bound \in BOOLEAN /\ Notes \in 0..3

VARIABLES
  messages,  \* the conversation of the loop
  actions,   \* the loop's record: for each line, the call it is of
  store,     \* what add_chunk kept: calls, each with the text that was kept
  made,      \* history: tool calls made in this run
  stops

talkVars == <<messages, actions, store, made, stops>>

-----------------------------------------------------------------------------
\* The system messages: the prompt and the notes, one behind the other.
System == [by |-> "system"]
Say(what) == [by |-> "human", what |-> what]
Ai(c, t) == [by |-> "ai", call |-> c, tool |-> t]

\* A result in its envelope; `line` is the call whose line a stub shows.
Result(c, out) ==
  [by |-> "result", call |-> c, tool |-> out.tool, long |-> out.long,
   marked |-> out.marked, left |-> "full", folded |-> FALSE, line |-> 0,
   hint |-> FALSE]

IsResult(m) == m.by = "result"

\* What a mode produced last, at the head of the next one: the text of call c.
LastOutput(c) == [by |-> "human", what |-> "produced", call |-> c]

\* _seed_transcript: the system messages, then the task and the mode.
Seeded == <<System, Say("task"), Say("mode")>>

TalkInit ==
  /\ messages = Seeded /\ actions = <<>> /\ store = {} /\ made = 0 /\ stops = 0

-----------------------------------------------------------------------------
\* The fold of the tool whose call came before the result, if it has one.
Folds(msgs, i) == msgs[i].tool = "screen" /\ msgs[i-1].by = "ai"

\* Results a screen's fold would still change.
Unfolded(msgs) ==
  {i \in 1..Len(msgs) : /\ IsResult(msgs[i]) /\ msgs[i].left # "line"
                        /\ ~msgs[i].folded /\ Folds(msgs, i)}

\* Mutant of Folded: the screen in front of the model is folded as well.
FoldedToo(msgs) ==
  IF Cardinality(Unfolded(msgs)) < SCREENS_KEPT + SCREEN_FOLD_EVERY THEN msgs
  ELSE [i \in DOMAIN msgs |->
          IF i \in Unfolded(msgs) THEN [msgs[i] EXCEPT !.folded = TRUE] ELSE msgs[i]]

\* _fold_old_results: all but the last screens, once enough piled up.
Folded(msgs) ==
  LET open == Unfolded(msgs)
      old  == {i \in open : Cardinality({j \in open : j > i}) >= SCREENS_KEPT}
  IN IF Cardinality(open) < SCREENS_KEPT + SCREEN_FOLD_EVERY THEN msgs
     ELSE [i \in DOMAIN msgs |->
             IF i \in old THEN [msgs[i] EXCEPT !.folded = TRUE] ELSE msgs[i]]

\* A folded screen is short, and so is a line of the record.
Long(m) == IsResult(m) /\ m.long /\ m.left # "line" /\ ~m.folded

\* _transcript_size, in long results.
Size(msgs) == Cardinality({i \in DOMAIN msgs : Long(msgs[i]) /\ msgs[i].left = "full"})

\* The results that still read as one: a line does not.
Counted(msgs) == {i \in DOMAIN msgs : IsResult(msgs[i]) /\ msgs[i].left # "line"}

\* Old, long, and not marked as what must survive.
Evictable(msgs, i) ==
  /\ i \in Counted(msgs) /\ i <= Len(msgs) - KEEP_VERBATIM
  /\ Long(msgs[i]) /\ ~msgs[i].marked

Evicted(msgs) == {i \in DOMAIN msgs : Evictable(msgs, i)}

\* _keep_evicted: never a screen; nothing without a store, or when it fails.
Keeps(msgs, i, up) == up /\ Bound /\ ~Folds(msgs, i)

\* The line the stub shows: the next one of the record for each result counted.
LineOf(msgs, acts, i) ==
  LET index == Cardinality({j \in Counted(msgs) : j < i}) + 1
  IN IF index <= Len(acts) THEN acts[index] ELSE 0

\* Says "searchable" only of what was kept.
Stub(m, line, kept) ==
  [m EXCEPT !.left = IF line # 0 THEN "line" ELSE "head", !.line = line,
            !.hint = kept]

\* _compact: the old results give way to their stubs.
Compacted(msgs, acts, up) ==
  [i \in DOMAIN msgs |->
     IF i \in Evicted(msgs)
       THEN Stub(msgs[i], LineOf(msgs, acts, i), Keeps(msgs, i, up)) ELSE msgs[i]]

Evictions(msgs, up) ==
  {[call |-> msgs[i].call, text |-> msgs[i].left] :
     i \in {j \in Evicted(msgs) : Keeps(msgs, j, up)}}

\* The store behind the top of the loop: compaction keeps what it takes out.
StoreAfter(up) ==
  IF Size(Folded(messages)) > LOOP_COMPACT_AT
    THEN store \cup Evictions(Folded(messages), up) ELSE store

\* The top of the loop: fold, then compact what is still too large.
Tidy(up, exchange) ==
  LET folded == Folded(messages)
      full   == Size(folded) > LOOP_COMPACT_AT
  IN /\ messages' = (IF full THEN Compacted(folded, actions, up) ELSE folded) \o exchange
     /\ store' = StoreAfter(up)

-----------------------------------------------------------------------------
Makes == made < MaxMade /\ made' = made + 1

\* A tool runs, and its line joins the record.
Call(out, up) ==
  /\ Makes /\ actions' = Append(actions, made')
  /\ Tidy(up, <<Ai(made', out.tool), Result(made', out)>>)
  /\ UNCHANGED stops

\* A tool that is not there, or a call with no body: a result and no line.
Refuse(up) ==
  /\ Makes /\ UNCHANGED <<actions, stops>>
  /\ Tidy(up, <<Ai(made', "none"),
                Result(made', [tool |-> "none", long |-> FALSE, marked |-> FALSE])>>)

\* The lines of the child join the parent's record; its conversation does not.
Delegate(n, up) ==
  /\ Makes /\ actions' = actions \o [k \in 1..n |-> made']
  /\ Tidy(up, <<Ai(made', "delegate"),
                Result(made', [tool |-> "delegate", long |-> TRUE, marked |-> FALSE])>>)
  /\ UNCHANGED stops

\* The first call of a tool that cannot be undone is held.
Hold(up) ==
  /\ Makes /\ Tidy(up, <<Ai(made', "send"), Say("hold")>>)
  /\ UNCHANGED <<actions, stops>>

\* A mode switch that is refused, or goes to a mode that is not deeper.
Switch(word, up) ==
  /\ Makes /\ Tidy(up, <<Ai(made', "switch"), Say(word)>>)
  /\ UNCHANGED <<actions, stops>>

\* seed=list(messages[:3]), taken when the node begins: nothing before the
\* third message ever changes, so it is what the conversation still begins with.
SeedKept == SubSeq(messages, 1, IF Notes >= 2 THEN 1 ELSE 3 - Notes)

\* Mutant of Restart: the restart is from the prompts alone.
RestartFromPrompts(up) ==
  /\ Makes /\ store' = StoreAfter(up)
  /\ messages' = <<System, LastOutput(made'), Say("fresh"), Say("mode")>>
  /\ UNCHANGED <<actions, stops>>

\* An escalation: the conversation is the seed again, the last thing the model
\* said -- the reply that asks for the switch -- and the new mode's guidance.
Restart(up) ==
  /\ Makes /\ store' = StoreAfter(up)
  /\ messages' = SeedKept \o <<LastOutput(made'), Say("fresh"), Say("mode")>>
  /\ UNCHANGED <<actions, stops>>

\* carry writes _plain(messages); the next run of the node builds the
\* system messages again, revives the rest and starts a record of its own.
Spoken(msgs) == AtPositions(msgs, {i \in DOMAIN msgs : msgs[i].by # "system"})
Revive(stored) == <<System>> \o stored

\* The run paused for a person, or was rejected, and goes on.
Resume(word, up) ==
  /\ stops < MaxStops /\ made > 0 /\ stops' = stops + 1
  /\ messages' = Append(Revive(Spoken(messages)), Say(word))
  /\ actions' = <<>> /\ UNCHANGED <<store, made>>

TalkNext ==
  \E up \in BOOLEAN :
    \/ \E out \in Outputs : Call(out, up)
    \/ \E n \in Lines : Delegate(n, up)
    \/ Refuse(up) \/ Hold(up) \/ Restart(up)
    \/ \E word \in {"mode", "refused"} : Switch(word, up)
    \/ \E word \in {"answer", "rejected"} : Resume(word, up)

TalkSpec == TalkInit /\ [][TalkNext]_talkVars

-----------------------------------------------------------------------------
(***************************************************************************)
(* A call and its result stay next to each other and every result of the   *)
(* run is there in the order of the calls, in whatever shape; the recent   *)
(* ones and the last screens are whole; and a stub that says the rest is   *)
(* searchable is of a call the store has something of.  Folding, two       *)
(* rounds of compaction and a pause in between do not change this          *)
(* (nodes.py, _compact: "never touch ... the recent tail", "the hint       *)
(* follows the storing").                                                  *)
(***************************************************************************)
TranscriptInv ==
  LET at == {i \in DOMAIN messages : IsResult(messages[i])}
      screens == {i \in at : messages[i].tool = "screen"}
  IN /\ \A i \in at : messages[i-1].by = "ai" /\ messages[i-1].call = messages[i].call
     /\ \A i, j \in at : i < j => messages[i].call < messages[j].call
     /\ \A i \in at : i > Len(messages) - KEEP_VERBATIM => messages[i].left = "full"
     /\ \A i \in screens : messages[i].folded =>
          Cardinality({j \in screens : j > i}) >= SCREENS_KEPT
     /\ \A i \in at : messages[i].hint =>
          \E kept \in store : kept.call = messages[i].call
     /\ \A i \in at : messages[i].marked => messages[i].left = "full"

Told(msgs) == AtPositions(msgs, {i \in DOMAIN msgs : ~IsResult(msgs[i])})

(***************************************************************************)
(* What the run is for and what it was told -- the task, the mode, a held  *)
(* call, an answer, a rejection, and every call of its own -- is never     *)
(* rewritten, and nothing but an escalation drops any of it, however often *)
(* results are folded, compacted and read back (nodes.py, _NEVER_COMPACT;  *)
(* _plain and _revive).  An escalation never happens at a pause; it keeps  *)
(* what is said in the first three messages, the task among them where at  *)
(* most one note is bound, and the reply that asked for it (_switch_mode). *)
(***************************************************************************)
WordsAreKept ==
  [][LET told   == Told(messages)
         later  == Told(messages')
         task   == IF Notes <= 1 THEN <<Say("task")>> ELSE <<>>
         mode   == IF Notes = 0 THEN <<Say("mode")>> ELSE <<>>
     IN \/ Len(told) <= Len(later) /\ SubSeq(later, 1, Len(told)) = told
        \/ /\ made' = made + 1 /\ stops' = stops
           /\ later = <<System>> \o task \o mode
                       \o <<LastOutput(made'), Say("fresh"), Say("mode")>>]_talkVars

(***************************************************************************)
(* The line a stub shows is the line of its own call.  "Count every        *)
(* result, compacted or not, so the summary line still lines up with the   *)
(* call it describes once some have been rewritten" (nodes.py, _compact).  *)
(***************************************************************************)
LinesMatch ==
  \A i \in DOMAIN messages :
    IsResult(messages[i]) => messages[i].line \in {0, messages[i].call}

(***************************************************************************)
(* The same of searchable texts: what the stub says is in the store is     *)
(* the full text.  "the full output is searchable" (nodes.py,              *)
(* EVICTED_HINT).                                                          *)
(***************************************************************************)
HintIsOfFullText ==
  \A i \in DOMAIN messages :
    IsResult(messages[i]) /\ messages[i].hint =>
      [call |-> messages[i].call, text |-> "full"] \in store
=============================================================================
