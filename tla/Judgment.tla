------------------------------ MODULE Judgment ------------------------------
(***************************************************************************)
(* What is to be true when a run is done, and who may say so               *)
(* (agent/pipeline/nodes.py): the rubric written before any attempt, the   *)
(* evidence the record of actions adds to it, the judge's own exchanges    *)
(* with tools, the reading of its replies and of its verdict, and the      *)
(* checklist settled by it.  How the nodes follow each other is            *)
(* AgentGraph; here a run is attempts and judgments.                       *)
(*                                                                         *)
(* A reply is the sequence of its lines, a line is what the parsers tell   *)
(* apart: [is |-> "action", words], "code", "final", "text" (whether it    *)
(* has a yes in it), "approve" (yes, and whether in capitals), "met".      *)
(***************************************************************************)
EXTENDS Naturals, Sequences, SequencesExt, FiniteSets

CONSTANTS
  Rubrics,     \* replies of the rubric call: [bullets, noTask, kind]
  PathOf,      \* the path a criterion names, or "none"
  JudgeReplies, LastReplies,  \* what the judge says, and says when out of turns
  Tools,       \* dispatch_table()
  NearMiss,    \* the tool a word resembles, "none" for no tool
  Records,     \* lines of the record: [tool, path, how]
  Seats,       \* what the chat seats say of the phone, seat by seat
  MaxIter, DEAD_REPLIES, RUBRIC_MAX, MAX_REJECTIONS, MaxActions

VARIABLES
  phase,      \* "start", "work", "judge", "now", "over"
  way,        \* the route: "agent", "chat", "research", and "phone" or "none" at the start
  checklist,  \* for each criterion, in order: [text, status]
  record,     \* the record of actions of this attempt
  written,    \* history: paths written by this attempt
  loop,       \* the judge's loop: [n, dead, output, ran]
  verdict,    \* the last one, NoVerdict before it
  spoken,     \* history: the lines the judge said in this judgment
  requests,   \* history: calls made for this judgment
  refused     \* rejections

judgeVars == <<phase, way, checklist, record, written, loop, verdict, spoken,
               requests, refused>>

LinesOf(reply) == {reply[k] : k \in DOMAIN reply}

\* A reply is a sequence of lines, and each says yes or does not.
ASSUME JudgeAssumption ==
  /\ MaxIter \in Nat /\ DEAD_REPLIES \in Nat \ {0}
  /\ \A reply \in JudgeReplies \cup LastReplies :
       /\ reply \in Seq(LinesOf(reply))
       /\ \A line \in LinesOf(reply) : line.yes \in BOOLEAN

Loop(n, dead, last, ran) == [n |-> n, dead |-> dead, output |-> last, ran |-> ran]
NoExchanges == Loop(0, 0, <<>>, <<>>)
NoVerdict == [approved |-> FALSE, blocked |-> FALSE, reason |-> "none", met |-> <<0, 0>>]

-----------------------------------------------------------------------------
\* _parse_rubric: bullets with a text, without a KIND line, and not too many.
ParseRubric(bullets) ==
  LET criteria == SelectSeq(bullets, LAMBDA b : b \notin {"KIND:", ""})
  IN SubSeq(criteria, 1, IF Len(criteria) < RUBRIC_MAX THEN Len(criteria) ELSE RUBRIC_MAX)

NewChecklist(criteria) ==
  [c \in DOMAIN criteria |-> [text |-> criteria[c], status |-> "pending"]]

\* parse_phone_decision: a reply that does not say is a yes.
PhoneSays(reply) == reply # "no"

\* needs_phone: the first seat that answers; if none does, only what names
\* the device outright and carries no file.
NeedsPhone(seats, plain, attached) ==
  LET heardFrom == SelectSeq(seats, LAMBDA s : s # "failed")
  IN IF heardFrom # <<>> THEN PhoneSays(heardFrom[1]) ELSE plain /\ ~attached

JudgeInit ==
  /\ phase = "start"
  /\ \E seats \in Seats, plain, attached \in BOOLEAN :
       way = IF NeedsPhone(seats, plain, attached) THEN "phone" ELSE "none"
  /\ checklist = <<>> /\ record = <<>> /\ written = {} /\ loop = NoExchanges
  /\ verdict = NoVerdict /\ spoken = {} /\ requests = 0 /\ refused = 0

-----------------------------------------------------------------------------
Judged == <<loop, verdict, spoken, requests, refused>>

\* The rubric, and the way of the turn it decides: a contradiction is a task,
\* a failed call has no criteria and is a task too, and so is a chat that the
\* chat seat did not answer.
Rubric(reply, replied) ==
  /\ phase = "start"
  /\ LET criteria == IF reply.failed THEN <<>> ELSE ParseRubric(reply.bullets)
         chat     == ~reply.failed /\ criteria = <<>> /\ reply.noTask /\ replied
     IN /\ checklist' = NewChecklist(criteria)
        /\ phase' = IF chat THEN "over" ELSE "work"
        /\ way' = IF chat THEN "chat"
                  ELSE IF criteria # <<>> /\ reply.kind = "research" /\ way # "phone"
                  THEN "research" ELSE "agent"
  /\ UNCHANGED <<record, written, Judged>>

\* _PRODUCING_TOOLS
Producing == {"write_file", "edit_file", "predict_edit"}

\* _produced_path: the path of a producing line that is not said to have
\* failed; `how` is what the line has of "-> ok", "FAILED" and "error".
Produced(line) ==
  IF line.how # "error" /\ line.tool \in Producing THEN line.path ELSE "none"

\* _note_evidence
NoteEvidence(items, lines) ==
  LET done == {Produced(lines[k]) : k \in DOMAIN lines} \ {"none"}
  IN [c \in DOMAIN items |->
        IF items[c].status = "pending" /\ PathOf[items[c].text] \in done
          THEN [items[c] EXCEPT !.status = "seen"] ELSE items[c]]

\* A tool of the attempt: its line joins the record, the checklist its evidence.
Act(line) ==
  /\ phase = "work" /\ Len(record) < MaxActions
  /\ record' = Append(record, line)
  /\ written' = IF line.how = "ok" /\ line.tool \in {"write_file", "edit_file"}
                THEN written \cup {line.path} ELSE written
  /\ checklist' = NoteEvidence(checklist, record')
  /\ UNCHANGED <<phase, way, Judged>>

\* The attempt hands over an answer.
HandOver ==
  /\ phase = "work" /\ phase' = "judge"
  /\ loop' = NoExchanges /\ spoken' = {} /\ requests' = 0
  /\ UNCHANGED <<way, checklist, record, written, verdict, refused>>

-----------------------------------------------------------------------------
\* The first line of a kind, 0 for none.
First(reply, kinds) ==
  LET at == {k \in DOMAIN reply : reply[k].is \in kinds}
  IN IF at = {} THEN 0 ELSE CHOOSE k \in at : \A j \in at : k <= j

From(reply, k) == SubSeq(reply, k, Len(reply))

\* _resolve_tool: a word that names a tool, else what the first word resembles.
Vocabulary == Tools \cup {"ask_user", "switch_mode", "delegate"}
ResolveTool(words) ==
  LET named == SelectSeq(words, LAMBDA w : w \in Vocabulary)
  IN IF words = <<>> THEN "none"
     ELSE IF named # <<>> THEN named[1]
     ELSE IF NearMiss[words[1]] # "none" THEN NearMiss[words[1]] ELSE words[1]

\* _code_body: from the first CODE: to the next directive.
CodeBody(reply) ==
  LET at   == First(reply, {"code"})
      rest == From(reply, at + 1)
      next == First(rest, {"action", "final"})
  IN IF at = 0 THEN <<>> ELSE IF next = 0 THEN rest ELSE SubSeq(rest, 1, next - 1)

Read(kind, tool, body) == [kind |-> kind, tool |-> tool, body |-> body]

\* _parse_worker_reply: whichever marker comes first.
ParseReply(reply) ==
  LET at == First(reply, {"action", "final"})
  IN IF at = 0 THEN Read("unparseable", "none", reply)
     ELSE IF reply[at].is = "action"
       THEN Read("action", ResolveTool(reply[at].words), CodeBody(reply))
     ELSE IF at = Len(reply) THEN Read("unparseable", "none", reply)
     ELSE Read("final", "none", From(reply, at + 1))

\* _action_problem
Problem(read) == read.tool \notin Tools \/ read.body = <<>>

Says(reply) == \E line \in LinesOf(reply) : line.is = "approve"

\* _parse_approval: the line of the last APPROVE: in capitals, else the first
\* line of the reply; the rest is the reason.
Approval(reply) ==
  LET at == {k \in DOMAIN reply : reply[k].is = "approve" /\ reply[k].caps}
      k  == IF at # {} THEN CHOOSE m \in at : \A j \in at : j <= m ELSE 1
  IN IF reply = <<>> THEN [yes |-> FALSE, reason |-> FALSE]
     ELSE [yes |-> reply[k].yes, reason |-> k < Len(reply)]

\* _parse_verdict, and the note that stands for a reason nobody gave.
ParseVerdict(reply) ==
  LET said  == Approval(reply)
      met   == First(reply, {"met"})
      block == First(reply, {"blocked"})
  IN [approved |-> said.yes,
      reason |-> IF said.reason THEN "given" ELSE IF said.yes THEN "none" ELSE "no verdict",
      met |-> IF met = 0 THEN <<0, 0>> ELSE reply[met].of,
      blocked |-> block # 0 /\ reply[block].yes]

-----------------------------------------------------------------------------
\* Mutant of Settle: the criteria the judge counted are taken for the first.
SettleSome(items, v) ==
  [c \in DOMAIN items |->
     [items[c] EXCEPT !.status = IF v.approved \/ c <= v.met[1] THEN "met"
                                 ELSE IF v.blocked THEN "blocked" ELSE "pending"]]

\* _settle: all of them or none.
Settle(items, v) ==
  [c \in DOMAIN items |->
     [items[c] EXCEPT !.status = IF v.approved THEN "met"
                                 ELSE IF v.blocked THEN "blocked" ELSE "pending"]]

\* The judgment ends with a reply: approved, or rejected and worked on again.
Conclude(reply) ==
  LET v == ParseVerdict(reply)
      again == ~v.approved /\ refused < MAX_REJECTIONS
  IN /\ verdict' = v /\ checklist' = Settle(checklist, v)
     /\ refused' = IF v.approved THEN 0 ELSE refused + 1
     /\ phase' = IF again THEN "work" ELSE "over"
     /\ record' = (IF again THEN <<>> ELSE record)
     /\ written' = (IF again THEN {} ELSE written)
     /\ UNCHANGED way

\* The exchanges are over: without a verdict one more request is made.
Done(reply) ==
  IF Says(reply) THEN Conclude(reply)
  ELSE phase' = "now" /\ UNCHANGED <<way, checklist, record, written, verdict, refused>>

Hears(reply) ==
  /\ phase = "judge" /\ loop.n < MaxIter
  /\ spoken' = spoken \cup LinesOf(reply) /\ requests' = requests + 1

\* A FINAL: ends the judge's loop.
JudgeFinal(reply) ==
  /\ Hears(reply)
  /\ LET read == ParseReply(reply)
     IN /\ read.kind = "final"
        /\ loop' = Loop(loop.n + 1, loop.dead, read.body, <<>>)
        /\ Done(read.body)

Stays == UNCHANGED <<phase, way, checklist, record, written, verdict, refused>>

\* A reply that is neither is kept as what it said last, and told so.
JudgeMumbles(reply) ==
  /\ Hears(reply) /\ ParseReply(reply).kind = "unparseable"
  /\ loop' = Loop(loop.n + 1, loop.dead + 1, reply, <<>>)
  /\ IF loop'.dead >= DEAD_REPLIES \/ loop'.n = MaxIter THEN Done(reply) ELSE Stays

\* A tool call runs, or is told why not; ask_user out of asks is told too.
JudgeActs(reply) ==
  /\ Hears(reply)
  /\ LET read == ParseReply(reply)
     IN /\ read.kind = "action"
        /\ loop' = Loop(loop.n + 1, 0, loop.output, IF Problem(read) THEN <<>> ELSE <<read>>)
  /\ IF loop'.n = MaxIter THEN Done(loop.output) ELSE Stays

\* The budget is spent before the next exchange.
JudgeSpent ==
  /\ phase = "judge" /\ loop.n < MaxIter
  /\ Done(loop.output) /\ UNCHANGED <<loop, spoken, requests>>

\* _verdict_from_what_is_here: a FINAL's body, or prose with a verdict in it;
\* anything else, or a failure, leaves what the loop had.
VerdictNow(reply) ==
  /\ phase = "now"
  /\ LET read == ParseReply(reply)
     IN Conclude(IF read.kind = "final" THEN read.body
                 ELSE IF Says(reply) THEN reply ELSE loop.output)
  /\ spoken' = spoken \cup LinesOf(reply) /\ requests' = requests + 1
  /\ UNCHANGED loop

\* The person answers a question of the agent's: the criteria are written anew.
Redirect(reply) ==
  /\ phase = "work" /\ refused = 0 /\ record # <<>>
  /\ checklist' = NewChecklist(IF reply.failed THEN <<>> ELSE ParseRubric(reply.bullets))
  /\ record' = <<>> /\ written' = {}
  /\ UNCHANGED <<phase, way, Judged>>

JudgeNext ==
  \/ \E reply \in Rubrics :
       Redirect(reply) \/ \E replied \in BOOLEAN : Rubric(reply, replied)
  \/ \E line \in Records : Act(line)
  \/ HandOver \/ JudgeSpent
  \/ \E reply \in JudgeReplies : JudgeFinal(reply) \/ JudgeMumbles(reply) \/ JudgeActs(reply)
  \/ \E reply \in LastReplies : VerdictNow(reply)

JudgeSpec == JudgeInit /\ [][JudgeNext]_judgeVars

-----------------------------------------------------------------------------
(***************************************************************************)
(* The criteria of a run are met all together, by the verdict that         *)
(* approved and by nothing else: not by what the attempt did, not by a     *)
(* judge that counts some of them, not by one that never said yes.  A      *)
(* rejection gives a reason.  A judgment makes its exchanges and one       *)
(* request more, and a call the judge makes is of one tool, with a body    *)
(* that no other directive is in (nodes.py, _settle, _note_evidence,       *)
(* _tool_loop, _code_body).                                                *)
(***************************************************************************)
JudgeInv ==
  /\ \A c \in DOMAIN checklist :
       LET s == checklist[c].status
       IN /\ s = "met" <=> verdict.approved
          /\ s = "blocked" => verdict.blocked /\ ~verdict.approved
          /\ s = "seen" => phase # "over" /\ record # <<>>
  /\ verdict.approved => phase = "over" /\ \E line \in spoken : line.yes
  /\ verdict.reason = "none" => verdict = NoVerdict \/ verdict.approved
  /\ requests <= MaxIter + 1 /\ loop.dead <= DEAD_REPLIES
  /\ \A k \in DOMAIN loop.ran :
       /\ loop.ran[k].tool \in Tools
       /\ \A line \in LinesOf(loop.ran[k].body) : line.is \notin {"action", "final"}
  /\ way = "chat" => checklist = <<>> /\ verdict = NoVerdict

(***************************************************************************)
(* A judge that never rendered a verdict has not approved.                 *)
(* "_parse_approval defaults to approve=False whenever "APPROVE:" isn't    *)
(* found in `reply` at all -- fails CLOSED by construction" (nodes.py,     *)
(* evaluator).                                                             *)
(***************************************************************************)
FailsClosed == verdict.approved => \E line \in spoken : line.is = "approve"

(***************************************************************************)
(* A criterion that counts as acted on names a path that was written.  "A  *)
(* successful write to the exact path a criterion names is                 *)
(* environment-grounded" (nodes.py, _note_evidence).                       *)
(***************************************************************************)
SeenIsWritten ==
  \A c \in DOMAIN checklist :
    checklist[c].status = "seen" => PathOf[checklist[c].text] \in written
=============================================================================
