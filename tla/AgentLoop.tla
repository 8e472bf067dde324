----------------------------- MODULE AgentLoop -----------------------------
(***************************************************************************)
(* The loop inside the agent node (agent/pipeline/nodes.py, _agent_loop):  *)
(* one conversation that acts, asks, delegates and switches mode until it  *)
(* answers, pauses, or has used its budget up.                             *)
(*                                                                         *)
(* One action is one turn of the while: compaction, the look at the        *)
(* budget, one call of the model, and what its reply makes the loop do.    *)
(* The locals of _agent_loop are the record `frame`; a delegated subtask   *)
(* runs the same loop in a frame of its own while the parent's waits in    *)
(* `parent`.  A message is what kind it is, the tool call or target it is  *)
(* about, and what it shows of one: the target a result came from, the     *)
(* call whose summary a compacted one reads.  System messages, which only  *)
(* lead the conversation, are counted by Notes and not kept in it; nor are *)
(* the model's own replies.  The judge that follows a loop that stopped is *)
(* here for what it spends: it shares the Budget.                          *)
(***************************************************************************)
EXTENDS Naturals, Sequences

CONSTANTS
  Modes, Depth, Start,  \* MODES, their depth, DEFAULT_MODE
  Targets,              \* what an irreversible tool acts on
  Notes,                \* workspace, session and tool notes bound: 0 to 3
  Ceiling,              \* Budget.max_model_calls
  Retries,              \* MAX_DIFFUSION_RETRIES: requests in one _call
  DeadReplies,          \* MAX_CONSECUTIVE_DEAD_REPLIES
  RefusedAsks,          \* MAX_REFUSED_ASKS
  ModeSwaps,            \* MAX_MODE_SWAPS
  ChildIterations,      \* MAX_DELEGATE_ITERATIONS
  CompactAt,            \* LOOP_COMPACT_AT, in large results
  KeepVerbatim,         \* KEEP_VERBATIM
  Reruns                \* bound: times the node is run again

ASSUME ModesAssumption ==
  /\ Start \in Modes /\ Depth \in [Modes -> Nat]
  /\ Targets \subseteq Nat \ {0}
ASSUME NumbersAssumption ==
  /\ Ceiling \in Nat \ {0} /\ Retries \in Nat \ {0} /\ DeadReplies \in Nat \ {0}
  /\ RefusedAsks \in Nat \ {0} /\ ModeSwaps \in Nat /\ KeepVerbatim \in Nat
  /\ ChildIterations \in Nat \ {0} /\ CompactAt \in Nat /\ Notes \in 0..3
  /\ Reruns \in Nat

VARIABLES
  frame,   \* the loop that runs: the locals of _agent_loop
  parent,  \* <<>>, or the frame of the loop that delegated to it
  calls,   \* Budget.calls
  saved,   \* of the state: mode and actions as carry() wrote them, and
           \* whether asks < MAX_USER_QUESTIONS
  why,     \* "none", why the outermost loop stopped, or what the judge said
  ran,     \* history: tool calls run so far
  proof,   \* history of the turn: code changed and not checked, proof asked
  runs     \* times the node was run again

vars == <<frame, parent, calls, saved, why, ran, proof, runs>>

Message(kind, of, says) == [kind |-> kind, of |-> of, says |-> says]

\* The first n messages, or all there are.
FirstOf(msgs, n) == IF Len(msgs) <= n THEN msgs ELSE SubSeq(msgs, 1, n)

\* messages[:3], without the system messages among them.
SeedOf(msgs) == FirstOf(msgs, IF Notes >= 2 THEN 0 ELSE 2 - Notes)

NewFrame(msgs, mode) ==
  [messages |-> msgs, seed |-> SeedOf(msgs), actions |-> <<>>, mode |-> mode,
   output |-> FALSE, dead |-> 0, refused |-> 0, swaps |-> 0, worked |-> TRUE,
   iteration |-> 0, confirmed |-> {}, needs |-> {}, launched |-> FALSE,
   asked |-> {}]

\* Before the loop there was the rubric's call, and perhaps that of a reply
\* to a message that asked for nothing, which came to nothing.
Init ==
  /\ frame = NewFrame(<<Message("task", 0, 0), Message("mode", 0, 0)>>, Start)
  /\ parent = <<>> /\ calls \in 1..(2 * Retries) /\ why = "none"
  /\ saved \in [mode : {Start}, actions : {<<>>}, asks : BOOLEAN]
  /\ ran = 0 /\ runs = 0 /\ proof = [owed |-> FALSE, asked |-> FALSE]

InChild == parent # <<>>

-----------------------------------------------------------------------------
IsResult(m) == m.kind \in {"large", "small"}

\* How many results _compact has counted before the i-th message.
CountedBefore(msgs, i) == Len(SelectSeq(SubSeq(msgs, 1, i - 1), IsResult))

\* The call whose line of `actions` replaces the i-th message; its own text,
\* cut short, when there is no such line.
Summary(msgs, i, actions) ==
  LET n == CountedBefore(msgs, i) + 1
  IN IF n \in 1..Len(actions) THEN actions[n] ELSE msgs[i].of

\* _compact: old large results become stubs; a small one, or one that holds
\* a marker of _NEVER_COMPACT, stays.
Compact(msgs, actions) ==
  [i \in 1..Len(msgs) |->
    IF msgs[i].kind = "large" /\ i + KeepVerbatim <= Len(msgs)
      THEN Message("stub", msgs[i].of, Summary(msgs, i, actions))
      ELSE msgs[i]]

Large(msgs) == LET IsLarge(m) == m.kind = "large" IN Len(SelectSeq(msgs, IsLarge))

\* The loop as its next reply finds it.
Prepared ==
  IF Large(frame.messages) > CompactAt
    THEN [frame EXCEPT !.messages = Compact(@, frame.actions)] ELSE frame

-----------------------------------------------------------------------------
\* The while: within the child's iterations.
Loops == why = "none" /\ (InChild => frame.iteration < ChildIterations)

\* _call: one request, or more when the stream came back empty or cut short.
Calls == \E k \in 1..Retries : calls' = calls + k

\* Mutant of Turn: a subtask is bounded by its iterations alone.
TurnOfChild == Loops /\ (InChild \/ calls < Ceiling) /\ Calls

\* The budget lets this turn call the model.
Turn == Loops /\ calls < Ceiling /\ Calls

\* The loop goes on with these locals.
GoesOn(f) == frame' = f /\ UNCHANGED <<parent, why, saved, runs>>

\* A result joins the conversation, after one more iteration.
Answered(f, msg) ==
  [f EXCEPT !.messages = Append(@, msg), !.iteration = @ + 1, !.dead = 0,
            !.worked = TRUE]

\* The outermost loop stops, and agent carries the mode and the actions.
Stops(f, reason, mode) ==
  /\ frame' = f /\ why' = reason /\ parent' = <<>> /\ UNCHANGED runs
  /\ saved' = [saved EXCEPT !.mode = mode, !.actions = @ \o f.actions]

\* Back to the loop that delegated, with a report and these actions.
HandsUp(actions) ==
  /\ \E size \in {"large", "small"} :
       frame' = [Answered(parent[1], Message(size, 0, 0)) EXCEPT !.actions = @ \o actions]
  /\ parent' = <<>> /\ UNCHANGED <<why, saved, runs>>

\* A return of _agent_loop.
Returns(reason) ==
  IF InChild THEN HandsUp(frame.actions) ELSE Stops(Prepared, reason, frame.mode)

-----------------------------------------------------------------------------
\* _answer_from_what_is_here, when there is no output yet.
LastCall == IF frame.output THEN UNCHANGED calls ELSE Calls

\* Mutant of OutOfBudget: a subtask leaves the budget to its parent.
OutOfBudgetOutside ==
  /\ Loops /\ calls >= Ceiling /\ ~InChild /\ LastCall
  /\ Returns("budget") /\ UNCHANGED <<ran, proof>>

\* The budget is spent: hand over what there is.
OutOfBudget ==
  /\ Loops /\ calls >= Ceiling /\ LastCall
  /\ Returns("budget") /\ UNCHANGED <<ran, proof>>

\* A child has used its iterations.
Exhausted ==
  /\ why = "none" /\ InChild /\ frame.iteration >= ChildIterations
  /\ Returns("exhausted") /\ UNCHANGED <<calls, ran, proof>>

-----------------------------------------------------------------------------
Effect(adds, proves, launches) ==
  [adds |-> adds, proves |-> proves, launches |-> launches]

\* What a clean call means to the ledger: an edit of a test, of code or of a
\* page; a check or a walkthrough, of a page or not; a launch and no more; or
\* nothing.
Effects ==
  {Effect(e, {}, FALSE) : e \in {{"check"}, {"check", "use"}, {"check", "use", "render"}}}
    \cup {Effect({}, p, FALSE) : p \in {{}, {"check"}, {"check", "use"}}}
    \cup {Effect({}, p \cup {"render"}, FALSE) : p \in {{"check"}, {"check", "use"}}}
    \cup {Effect({}, p, TRUE) : p \in {{"check"}, {"check", "render"}}}

\* Ledger.record.
Record(f, e) ==
  [f EXCEPT !.needs = (@ \ e.proves) \cup e.adds,
            !.launched = e.launches \/ (@ /\ "use" \notin e.proves)]

\* What a FINAL is held for, each once: something was only launched, or
\* something changed with nothing run, loaded or used since.
Hold ==
  IF frame.launched /\ "use" \in frame.needs /\ "steps" \notin frame.asked THEN "steps"
  ELSE IF frame.needs # {} /\ "proof" \notin frame.asked THEN "proof" ELSE "none"

HoldsAnswer ==
  /\ Turn /\ Hold # "none"
  /\ GoesOn([Prepared EXCEPT !.asked = @ \cup {Hold},
                             !.messages = Append(@, Message("note", 0, 0))])
  /\ proof' = [proof EXCEPT !.asked = TRUE] /\ UNCHANGED ran

Final == Turn /\ Hold = "none" /\ Returns("final") /\ UNCHANGED <<ran, proof>>

\* A reply with no marker, or no text at all.
Unparseable(text) ==
  /\ Turn /\ UNCHANGED <<ran, proof>>
  /\ IF frame.dead + 1 >= DeadReplies
       THEN Returns("dead")
       ELSE GoesOn([Prepared EXCEPT !.dead = @ + 1, !.output = text \/ @,
                                    !.messages = Append(@, Message("note", 0, 0))])

-----------------------------------------------------------------------------
\* Mutant of Asks: it stops with the conversation of the loop that asked.
AsksOfChild ==
  /\ Turn /\ saved.asks /\ UNCHANGED <<ran, proof>>
  /\ Stops([Prepared EXCEPT !.messages = Append(@, Message("question", 0, 0))],
           "ask", saved.mode)

\* ask_user with questions left unwinds this loop, with its question at the
\* end of its own conversation, and through _delegate the parent's too.
Asks ==
  /\ Turn /\ saved.asks /\ UNCHANGED <<ran, proof>>
  /\ Stops(IF InChild THEN parent[1]
           ELSE [Prepared EXCEPT !.messages = Append(@, Message("question", 0, 0))],
           "ask", saved.mode)

AskRefused ==
  /\ Turn /\ ~saved.asks /\ UNCHANGED <<ran, proof>>
  /\ IF frame.refused + 1 >= RefusedAsks
       THEN Returns("dead")
       ELSE GoesOn([Prepared EXCEPT !.refused = @ + 1, !.dead = 0, !.iteration = @ + 1,
                                    !.messages = Append(@, Message("note", 0, 0))])

\* _call raised ProviderError: agent hands over, _delegate reports it.
ProviderFails ==
  /\ Turn /\ UNCHANGED <<ran, proof>>
  /\ IF InChild THEN HandsUp(<<>>) ELSE Stops(Prepared, "error", saved.mode)

-----------------------------------------------------------------------------
\* What the evaluator is given to judge.
Judging == why \in {"final", "dead", "error"}

\* At most n requests, and no look at the ceiling before them.
SpendsUpTo(n) == \E k \in 0..n : calls' = calls + k

\* The person may be asked no more after an answer, or still: it is one count
\* for all roles, and only ever falls.
AsksFall == \E left \in BOOLEAN : (left => saved.asks) /\ saved' = [saved EXCEPT !.asks = left]

\* An exchange of the judge's own loop, which looks at the ceiling first.  A
\* judge whose provider failed is run again, and begins with another.
JudgeCalls ==
  /\ Judging /\ calls < Ceiling /\ Calls
  /\ UNCHANGED <<frame, parent, saved, why, ran, proof, runs>>

\* The judge asks the person, and judges again on a budget of its own.
JudgeAsks ==
  /\ Judging /\ calls < Ceiling /\ saved.asks /\ runs < Reruns
  /\ calls' = 0 /\ runs' = runs + 1 /\ AsksFall
  /\ UNCHANGED <<frame, parent, why, ran, proof>>

\* Its verdict: it was in the exchanges, or is asked for in one last request.
JudgeRejects ==
  /\ Judging /\ SpendsUpTo(Retries) /\ why' = "rejected"
  /\ UNCHANGED <<frame, parent, saved, ran, proof, runs>>

\* The answer stands: approved, rejected too often, or the judge cannot be
\* reached.  The lesson of the run is one more request.
JudgeEnds ==
  /\ Judging /\ SpendsUpTo(2 * Retries) /\ why' = "over"
  /\ UNCHANGED <<frame, parent, saved, ran, proof, runs>>

Judge == JudgeCalls \/ JudgeAsks \/ JudgeRejects \/ JudgeEnds

\* agent is run again on its transcript: rejected, on what is left of the
\* budget, or answered by the person, with a budget of its own and, if the
\* answer changes what is asked for, a new rubric.
Again ==
  /\ why \in {"rejected", "ask"} /\ runs < Reruns
  /\ frame' = NewFrame(Append(frame.messages, Message("said", 0, 0)), saved.mode)
  /\ why' = "none" /\ runs' = runs + 1
  /\ IF why = "ask" THEN AsksFall /\ calls' \in 0..Retries
                    ELSE UNCHANGED <<saved, calls>>
  /\ UNCHANGED <<parent, ran, proof>>

-----------------------------------------------------------------------------
\* delegate: a new loop in another mode; in the same one, or in a child, it
\* is refused with a result.
Delegate(mode) ==
  /\ Turn /\ UNCHANGED <<ran, proof>>
  /\ IF InChild \/ mode = frame.mode
       THEN GoesOn(Answered(Prepared, Message("small", 0, 0)))
       ELSE /\ parent' = <<Prepared>>
            /\ frame' = NewFrame(<<Message("said", 0, 0), Message("mode", 0, 0)>>, mode)
            /\ UNCHANGED <<why, saved, runs>>

MaySwitch(mode) == mode # frame.mode /\ frame.worked /\ frame.swaps < ModeSwaps

\* A child is given no seed, so it never restarts.
Escalates(mode) == Depth[mode] > Depth[frame.mode] /\ ~InChild

\* Mutant of Restarted: the gate's memory outlives the conversation.
RestartedRemembers(f) == [f EXCEPT !.messages = Append(f.seed, Message("fresh", 0, 0))]

\* An escalating switch restarts from the seed, with what is true so far and
\* the last thing said, and the gate's memory goes with the conversation it
\* was recorded in.
Restarted(f) ==
  [f EXCEPT !.messages = Append(f.seed, Message("fresh", 0, 0)), !.confirmed = {}]

SwitchMode(mode) ==
  /\ Turn /\ UNCHANGED <<ran, proof>>
  /\ LET here == [Prepared EXCEPT !.dead = 0]
         next == IF Escalates(mode) THEN Restarted(here) ELSE here
     IN GoesOn(IF MaySwitch(mode)
                 THEN [next EXCEPT !.messages = Append(@, Message("mode", 0, 0)),
                                   !.mode = mode, !.swaps = @ + 1, !.worked = FALSE]
                 ELSE [here EXCEPT !.messages = Append(@, Message("note", 0, 0))])

-----------------------------------------------------------------------------
\* The gate: an irreversible call is held the first time.
HoldsTool(t) ==
  /\ Turn /\ t \notin frame.confirmed /\ UNCHANGED <<ran, proof>>
  /\ GoesOn([Prepared EXCEPT !.messages = Append(@, Message("hold", t, 0)),
                             !.confirmed = @ \cup {t}, !.dead = 0, !.worked = TRUE])

\* The tool runs; its line goes on the record and its result in the
\* conversation.
Ran(f, t) ==
  /\ Turn /\ ran' = ran + 1
  /\ \E size \in {"large", "small"} :
       GoesOn(Answered([f EXCEPT !.actions = Append(@, ran')], Message(size, ran', t)))

\* An irreversible tool, which the ledger does not count.
RunHeld(t) == t \in frame.confirmed /\ Ran(Prepared, t) /\ UNCHANGED proof

\* Any other tool, with its effect on the ledger.
RunTool(e) ==
  /\ Ran(Record(Prepared, e), 0)
  /\ proof' = [proof EXCEPT !.owed = e.adds # {} \/ (@ /\ e.proves = {})]

\* A tool that is not there, or called with nothing to act on.
ToolRefused ==
  /\ Turn /\ GoesOn(Answered(Prepared, Message("small", 0, 0)))
  /\ UNCHANGED <<ran, proof>>

-----------------------------------------------------------------------------
Next ==
  \/ OutOfBudget \/ Exhausted
  \/ HoldsAnswer \/ Final \/ \E text \in BOOLEAN : Unparseable(text)
  \/ Asks \/ AskRefused
  \/ \E mode \in Modes : Delegate(mode) \/ SwitchMode(mode)
  \/ \E t \in Targets : HoldsTool(t) \/ RunHeld(t)
  \/ \E e \in Effects : RunTool(e)
  \/ ToolRefused \/ ProviderFails
  \/ Judge \/ Again

Spec == Init /\ [][Next]_vars

\* Every model call comes back, as a reply or as an error.  Whether the node
\* runs again is the judge's and the person's affair.
FairSpec == Spec /\ WF_vars(Next /\ why = "none")

-----------------------------------------------------------------------------
Kinds == {"task", "mode", "said", "note", "fresh", "large", "small", "stub", "hold", "question"}
Messages == Seq([kind : Kinds, of : Nat, says : Nat])
Frames ==
  [messages : Messages, seed : Messages, actions : Seq(Nat), mode : Modes,
   output : BOOLEAN, dead : 0..(DeadReplies - 1), refused : 0..(RefusedAsks - 1),
   swaps : 0..ModeSwaps, worked : BOOLEAN, iteration : Nat,
   confirmed : SUBSET Targets, needs : SUBSET {"check", "use", "render"},
   launched : BOOLEAN, asked : SUBSET {"proof", "steps"}]

\* The type of the state.
TypeOK ==
  /\ frame \in Frames
  /\ parent = <<>> \/ parent \in [1..1 -> Frames]
  /\ calls \in Nat /\ ran \in Nat /\ runs \in 0..Reruns
  /\ saved \in [mode : Modes, actions : Seq(Nat), asks : BOOLEAN]
  /\ proof \in [owed : BOOLEAN, asked : BOOLEAN]
  /\ why \in {"none", "final", "budget", "dead", "ask", "error", "rejected", "over"}

Outermost == IF InChild THEN parent[1] ELSE frame

Holds(msgs, n, t) == \E j \in 1..n : msgs[j].kind = "hold" /\ msgs[j].of = t

\* Each result of an irreversible call comes after the message that held it.
ResultsAreHeld(msgs) ==
  \A i \in 1..Len(msgs) :
    IsResult(msgs[i]) /\ msgs[i].says # 0 => Holds(msgs, i - 1, msgs[i].says)

(***************************************************************************)
(* The result of a call that cannot be undone stands in a conversation     *)
(* only after the message that held it: however the conversation was       *)
(* compacted, restarted, delegated from or resumed, the model that let the *)
(* call run had read the HOLD (nodes.py, the gate, and _switch_mode's      *)
(* confirmed.clear()).                                                     *)
(***************************************************************************)
HeldBeforeIrreversible ==
  ResultsAreHeld(frame.messages) /\ ResultsAreHeld(Outermost.messages)

(***************************************************************************)
(* The conversation of a run begins with its task, through compaction,     *)
(* delegation, questions asked from a subtask, rejections and answers.     *)
(* Only an escalating restart with two notes or more loses it, and then    *)
(* the conversation begins with what the restart says instead, the         *)
(* criteria and the last thing said (_switch_mode, agent's                 *)
(* seed=list(messages[:3])).                                               *)
(***************************************************************************)
TaskIsKnown ==
  /\ Outermost.messages # <<>>
  /\ \/ Outermost.messages[1].kind = "task"
     \/ Notes >= 2 /\ Outermost.messages[1].kind = "fresh"

(***************************************************************************)
(* The conversation of a run never loses its task: agent says of the seed  *)
(* "What an escalation restarts from: the prompts, the task and the        *)
(* checklist".                                                             *)
(***************************************************************************)
TaskIsNeverLost == \E i \in 1..Len(Outermost.messages) : Outermost.messages[i].kind = "task"

(***************************************************************************)
(* The ceiling is looked at between calls of a loop, and by the rubric,    *)
(* the last answers, the verdict and the lesson not at all.  Still a run   *)
(* overspends by less than three calls with all their retries: two loops   *)
(* each spend one past the ceiling and the outer one answers, or a loop,   *)
(* the verdict and the lesson follow each other (budget.py, _call).        *)
(***************************************************************************)
OverspendIsBounded == calls < Ceiling + 3 * Retries

(***************************************************************************)
(* The loop stops: the budget ends what neither iterations, refusals nor   *)
(* dead replies do (_agent_loop, `while max_iterations is None`), of every *)
(* run of the node.                                                        *)
(***************************************************************************)
LoopEnds == why = "none" ~> why # "none"

(***************************************************************************)
(* A stub shows the summary of the call it replaces.  _compact: "so the    *)
(* summary line still lines up with the call it describes once some have   *)
(* been rewritten".                                                        *)
(***************************************************************************)
StubsNameTheirCall ==
  \A i \in 1..Len(frame.messages) :
    frame.messages[i].kind = "stub" => frame.messages[i].says = frame.messages[i].of

(***************************************************************************)
(* AgentState.actions: "One compact line per tool call any role has made,  *)
(* across the WHOLE run".                                                  *)
(***************************************************************************)
EveryCallIsOnRecord ==
  why # "none" => \A k \in 1..ran : \E i \in 1..Len(saved.actions) : saved.actions[i] = k

(***************************************************************************)
(* A run that pauses has its question at the end of the transcript it      *)
(* resumes from.  agent: "The transcript above already ends with the       *)
(* question (_agent_loop appends it before unwinding)".                    *)
(***************************************************************************)
QuestionIsInTheTranscript ==
  why = "ask" =>
    /\ frame.messages # <<>>
    /\ frame.messages[Len(frame.messages)].kind = "question"

(***************************************************************************)
(* AgentState.mode, as a run ends with it, is the mode the loop was in:    *)
(* "Which mode the loop is working in -- a key of agent/pipeline/modes.py's*)
(* MODES, naming both the model answering and the guidance it is under".   *)
(***************************************************************************)
ModeIsTheLoops == why # "none" => saved.mode = frame.mode

(***************************************************************************)
(* A run that changed code and checked nothing since is asked for proof    *)
(* before it ends with an answer.  evidence.py: "It costs one extra        *)
(* exchange in exactly the case that deserves it: the run edited code and  *)
(* is trying to finish without having run anything".                       *)
(***************************************************************************)
EditsAreAskedAbout == why = "final" /\ proof.owed => proof.asked
=============================================================================
