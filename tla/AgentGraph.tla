----------------------------- MODULE AgentGraph -----------------------------
(***************************************************************************)
(* One turn of the agent graph (agent/pipeline/nodes.py, run.py and        *)
(* research.py): the nodes agent, research, evaluator and ask_user, the    *)
(* Command each returns, and the pause for a person's answer.              *)
(*                                                                         *)
(* A node is one action: it reads AgentState, calls models, and returns an *)
(* update and the next node.  What the models say is a choice; how the     *)
(* loop inside agent gets to one of its five exits is AgentLoop.  A text   *)
(* is only whether it is empty.  The transcript keeps, in order, what must *)
(* reach the agent's conversation: its question, the person's answer, the  *)
(* evaluator's rejection.  A node's model requests count as one unit.      *)
(***************************************************************************)
EXTENDS Naturals, Sequences

CONSTANTS
  MaxUserQuestions,  \* MAX_USER_QUESTIONS
  MaxRejections,     \* MAX_REJECTIONS
  MaxJudgeErrors,    \* MAX_JUDGE_ERRORS
  RecursionNet,      \* _RECURSION_SAFETY_NET
  Documents          \* research_available()

ASSUME BoundsAssumption ==
  /\ MaxUserQuestions \in Nat /\ MaxRejections \in Nat
  /\ MaxJudgeErrors \in Nat /\ Documents \in BOOLEAN
ASSUME NetAssumption ==
  RecursionNet \in Nat /\ RecursionNet > 4 + 2 * MaxRejections + MaxJudgeErrors

VARIABLES
  node,         \* the node that runs next, or "__end__"
  route,        \* AgentState.route, "none" for None
  transcript,   \* AgentState.transcript; <<>> is None
  user_answer,  \* AgentState.user_answer: <<>>, or the answer as it is spliced in
  feedback,     \* AgentState.feedback, in the same way
  asking_role,  \* who asked, while ask_user is paused
  output,       \* whether AgentState.output holds a text
  final_output, \* whether AgentState.final_output does
  asks, rejections, judge_errors,
  spent,        \* Budget.spent()
  calls,        \* Budget.calls of the budget bound now
  model_calls,  \* AgentState.model_calls
  steps,        \* node runs since app.stream was called
  pauses,       \* history: answers a person gave
  closed,       \* history: one of them said to stop asking
  answered,     \* history: the answers to the agent's own questions
  produced,     \* history: a node has put a text in output
  requested,    \* history: calls of every budget of the run
  papers        \* history: rejections before research gave the task up

counters == <<asks, rejections, judge_errors>>
history  == <<pauses, closed, answered, papers>>
vars == <<node, route, transcript, user_answer, feedback, asking_role, output,
          final_output, counters, spent, calls, model_calls, steps, history,
          produced, requested>>

Event(kind, n) == <<kind, n>>
Seed == Event("task", 0)

-----------------------------------------------------------------------------
Init ==
  /\ node = "agent" /\ route = "none" /\ transcript = <<>>
  /\ user_answer = <<>> /\ feedback = <<>> /\ asking_role = "none"
  /\ output = FALSE /\ final_output = FALSE
  /\ asks = 0 /\ rejections = 0 /\ judge_errors = 0
  /\ spent = FALSE /\ calls = 0 /\ model_calls = 0 /\ steps = 0
  /\ pauses = 0 /\ closed = FALSE /\ answered = {} /\ produced = FALSE
  /\ requested = 0 /\ papers = 0

\* A node runs: it calls models, and may use the budget up.
Runs(n) ==
  /\ node = n /\ steps < RecursionNet
  /\ steps' = steps + 1 /\ calls' = calls + 1 /\ requested' = requested + 1
  /\ spent' \in {spent, TRUE}

Goto(n) == node' = n /\ UNCHANGED history

Puts(text) == output' = text /\ produced' = (produced \/ text)

\* The conversation agent hands to its loop: the seed on a fresh run, else
\* what was stored, the answer, and the rejection.
Messages ==
  IF transcript = <<>> THEN <<Seed>> ELSE transcript \o user_answer \o feedback

\* carry: every exit of the loop persists the conversation.
Carry(msgs) ==
  /\ transcript' = msgs
  /\ user_answer' = <<>>
  /\ route' = IF route = "none" THEN "agent" ELSE route
  /\ model_calls' = calls'

-----------------------------------------------------------------------------
Fresh == route = "none" /\ transcript = <<>>

\* The rubric says the message asks for no work: one reply, and the end.
Chat ==
  /\ Runs("agent") /\ Fresh
  /\ Goto("__end__") /\ route' = "chat"
  /\ Puts(TRUE) /\ final_output' = TRUE /\ model_calls' = calls'
  /\ UNCHANGED <<transcript, user_answer, feedback, asking_role, counters>>

\* The rubric says a document is asked for.
ToResearch ==
  /\ Runs("agent") /\ Fresh /\ Documents
  /\ Goto("research") /\ route' = "research" /\ model_calls' = calls'
  /\ UNCHANGED <<transcript, user_answer, feedback, asking_role, output,
                 final_output, counters, produced>>

\* The loop ends "final" or "dead"; a dead one may have nothing.
AgentAnswers(text) ==
  /\ Runs("agent") /\ ~spent
  /\ Carry(Messages) /\ Goto("evaluator")
  /\ Puts(text) /\ feedback' = <<>>
  /\ UNCHANGED <<asking_role, final_output, counters>>

\* The loop ends "budget", with what the last call made of it, or nothing.
AgentOutOfBudget(text) ==
  /\ Runs("agent") /\ spent'
  /\ Carry(Messages) /\ Goto("__end__")
  /\ Puts(text) /\ final_output' = text
  /\ UNCHANGED <<feedback, asking_role, counters>>

\* The loop raised NeedsUserInput, its question already in the conversation.
AgentAsks ==
  /\ Runs("agent") /\ ~spent /\ asks < MaxUserQuestions
  /\ Carry(Append(Messages, Event("asked", pauses + 1)))
  /\ Goto("ask_user") /\ asking_role' = "agent"
  /\ UNCHANGED <<feedback, output, final_output, counters, produced>>

\* Mutant of AgentFails: the conversation is not persisted on this exit.
AgentFailsForgets ==
  /\ Runs("agent") /\ ~spent
  /\ Carry(transcript) /\ Goto("evaluator")
  /\ feedback' = <<Event("failed", 0)>>
  /\ UNCHANGED <<asking_role, output, final_output, counters, produced>>

\* The loop raised ProviderError: the evaluator gets the output of before.
AgentFails ==
  /\ Runs("agent") /\ ~spent
  /\ Carry(Messages) /\ Goto("evaluator")
  /\ feedback' = <<Event("failed", 0)>>
  /\ UNCHANGED <<asking_role, output, final_output, counters, produced>>

-----------------------------------------------------------------------------
\* No outline, or the outline of the document to revise cannot be reloaded.
ResearchHandsOver ==
  /\ Runs("research")
  /\ node' = "agent" /\ papers' = rejections /\ UNCHANGED <<pauses, closed, answered>>
  /\ route' = "agent" /\ model_calls' = calls'
  /\ UNCHANGED <<transcript, user_answer, feedback, asking_role, output,
                 final_output, counters, produced>>

\* A document is written, or revised after a rejection.
ResearchFinishes(unjudged) ==
  /\ Runs("research") /\ (spent' => unjudged)
  /\ Goto(IF unjudged THEN "__end__" ELSE "evaluator")
  /\ Puts(TRUE) /\ final_output' = unjudged
  /\ feedback' = <<>> /\ model_calls' = calls'
  /\ UNCHANGED <<route, transcript, user_answer, asking_role, counters>>

-----------------------------------------------------------------------------
Verdict ==
  /\ model_calls' = calls'
  /\ UNCHANGED <<route, transcript, user_answer, asking_role, output, asks,
                 judge_errors, produced>>

Approve ==
  /\ Runs("evaluator") /\ Verdict
  /\ Goto("__end__") /\ final_output' = output
  /\ rejections' = 0 /\ UNCHANGED feedback

\* No approval.  Past the bound the answer stands, said to be unverified.
Reject ==
  /\ Runs("evaluator") /\ Verdict /\ rejections' = rejections + 1
  /\ IF rejections' > MaxRejections
       THEN Goto("__end__") /\ final_output' = output /\ UNCHANGED feedback
       ELSE /\ Goto(IF route = "research" THEN "research" ELSE "agent")
            /\ feedback' = <<Event("rejected", rejections')>>
            /\ UNCHANGED final_output

\* The judge asks the person; what it judges stays.
JudgeAsks ==
  /\ Runs("evaluator") /\ ~spent /\ asks < MaxUserQuestions
  /\ Goto("ask_user") /\ asking_role' = "evaluator"
  /\ UNCHANGED <<route, transcript, user_answer, feedback, output, final_output,
                 counters, model_calls, produced>>

\* Mutant of JudgeFails: a failed judgment is retried without being counted.
JudgeFailsUncounted ==
  /\ Runs("evaluator") /\ judge_errors' = judge_errors
  /\ Goto("evaluator")
  /\ UNCHANGED <<route, transcript, user_answer, feedback, asking_role, output,
                 asks, rejections, produced, final_output, model_calls>>

\* A provider failure in the judgment: once more, then the answer stands.
JudgeFails ==
  /\ Runs("evaluator") /\ judge_errors' = judge_errors + 1
  /\ IF judge_errors' > MaxJudgeErrors
       THEN Goto("__end__") /\ final_output' = output /\ model_calls' = calls'
       ELSE Goto("evaluator") /\ UNCHANGED <<final_output, model_calls>>
  /\ UNCHANGED <<route, transcript, user_answer, feedback, asking_role, output,
                 asks, rejections, produced>>

-----------------------------------------------------------------------------
Larger(m, n) == IF m > n THEN m ELSE n

\* ask_user, resumed with the person's answer on a fresh budget.
Answer(closing) ==
  /\ node = "ask_user"
  /\ pauses' = pauses + 1 /\ closed' = (closed \/ closing)
  /\ asks' = IF closing THEN Larger(asks + 1, MaxUserQuestions) ELSE asks + 1
  /\ node' = asking_role /\ asking_role' = "none"
  /\ IF asking_role = "agent"
       THEN /\ user_answer' = <<Event("answered", pauses')>>
            /\ answered' = answered \cup {pauses'}
       ELSE UNCHANGED <<user_answer, answered>>
  /\ steps' = 1 /\ spent' = FALSE /\ calls' = 0
  /\ UNCHANGED <<route, transcript, feedback, output, final_output, rejections,
                 judge_errors, model_calls, produced, requested, papers>>

\* _salvage, for run_pipeline: a paused run cannot be resumed there, and an
\* exception in a node (GraphRecursionError is one) ends the graph.  Either
\* way the best attempt so far, or the question, is the result.
Salvaged ==
  /\ node # "__end__" /\ node' = "__end__"
  /\ final_output' = (output \/ node = "ask_user")
  /\ UNCHANGED <<route, transcript, user_answer, feedback, asking_role, output,
                 counters, spent, calls, model_calls, steps, history, produced,
                 requested>>

-----------------------------------------------------------------------------
AgentRuns ==
  \/ Chat \/ ToResearch \/ AgentAsks \/ AgentFails
  \/ \E text \in BOOLEAN : AgentAnswers(text) \/ AgentOutOfBudget(text)

ResearchRuns ==
  ResearchHandsOver \/ \E unjudged \in BOOLEAN : ResearchFinishes(unjudged)

EvaluatorRuns == Approve \/ Reject \/ JudgeAsks \/ JudgeFails

Next ==
  \/ AgentRuns \/ ResearchRuns \/ EvaluatorRuns
  \/ \E closing \in BOOLEAN : Answer(closing)
  \/ Salvaged

Spec == Init /\ [][Next]_vars

-----------------------------------------------------------------------------
Nodes  == {"agent", "research", "evaluator", "ask_user", "__end__"}
Events == {"task", "asked", "answered", "rejected", "failed"} \X Nat

\* The type of the state.
TypeOK ==
  /\ node \in Nodes /\ route \in {"none", "agent", "chat", "research"}
  /\ transcript \in Seq(Events)
  /\ user_answer \in Seq(Events) /\ feedback \in Seq(Events)
  /\ asking_role \in {"none", "agent", "evaluator"}
  /\ output \in BOOLEAN /\ final_output \in BOOLEAN
  /\ asks \in Nat /\ rejections \in Nat /\ judge_errors \in Nat
  /\ spent \in BOOLEAN /\ calls \in Nat /\ model_calls \in Nat
  /\ steps \in Nat /\ pauses \in Nat /\ closed \in BOOLEAN
  /\ answered \in SUBSET Nat /\ produced \in BOOLEAN
  /\ requested \in Nat /\ papers \in Nat

(***************************************************************************)
(* A turn stops to ask a person at most MAX_USER_QUESTIONS times, whoever  *)
(* asks, and never again after an answer that says to stop asking          *)
(* (nodes.py, MAX_USER_QUESTIONS and _CLOSING_ANSWERS).                    *)
(***************************************************************************)
QuestionsAreBounded ==
  /\ pauses <= MaxUserQuestions
  /\ node = "ask_user" => pauses < MaxUserQuestions /\ ~closed

(***************************************************************************)
(* However the judgments, the failures and the pauses alternate, no        *)
(* invocation of the graph runs more than a few nodes: the recursion limit *)
(* is never what ends a turn (nodes.py, _RECURSION_SAFETY_NET).            *)
(***************************************************************************)
StepsAreBounded == steps <= 4 + 2 * MaxRejections + MaxJudgeErrors

(***************************************************************************)
(* However its questions, rejections and failures follow each other, a     *)
(* turn is bounded: in what it asks and in what it runs.                   *)
(***************************************************************************)
TurnIsBounded == QuestionsAreBounded /\ StepsAreBounded

Times(event) == {i \in 1..Len(transcript) : transcript[i] = event}

(***************************************************************************)
(* The answer to a question of the agent's is spliced into its             *)
(* conversation exactly once, by its next run, and the answer to a         *)
(* question of the evaluator's never is (AgentState.user_answer).          *)
(***************************************************************************)
AnswersAreHeardOnce ==
  \A k \in 1..pauses :
    LET heard   == Times(Event("answered", k))
        pending == user_answer = <<Event("answered", k)>>
    IN IF k \in answered
         THEN \/ pending /\ heard = {} /\ node \in {"agent", "__end__"}
              \/ ~pending /\ \E i \in heard : heard = {i}
         ELSE ~pending /\ heard = {}

(***************************************************************************)
(* A candidate that goes to the judge after its r-th rejection comes from  *)
(* a conversation in which every rejection so far can be read: "Every exit *)
(* writes transcript back" (nodes.py, agent).  Not those of a document,    *)
(* which the agent that takes over from the research workflow never sees.  *)
(***************************************************************************)
RejectionsAreHeard ==
  node = "evaluator" /\ route = "agent" =>
    \A r \in (papers + 1)..rejections : Times(Event("rejected", r)) # {}

(***************************************************************************)
(* What a person or the judge said is in what the agent reads next, and is *)
(* there once.                                                             *)
(***************************************************************************)
WordsAreHeard == AnswersAreHeardOnce /\ RejectionsAreHeard

(***************************************************************************)
(* The same of every rejection.  _revise, of one it cannot act on: "handing*)
(* the rejection to the agent" (research.py:980-981).                      *)
(***************************************************************************)
HandedOverIsHeard ==
  node = "evaluator" /\ route = "agent" =>
    \A r \in 1..rejections : Times(Event("rejected", r)) # {}

(***************************************************************************)
(* The end of a run hands over a text if any node ever produced one.       *)
(* _salvage: "Make sure a run hands back the best answer it actually       *)
(* reached"; _answer_from_what_is_here: "so this can never make the        *)
(* outcome worse than it was".                                             *)
(***************************************************************************)
AnswersAreNotLost == node = "__end__" /\ produced => final_output

(***************************************************************************)
(* AgentState.model_calls, whenever a node writes it, is "how many model   *)
(* requests this run has spent" (state.py).                                *)
(***************************************************************************)
ModelCallsAreTheRuns ==
  [][model_calls' # model_calls => model_calls' = requested']_vars
=============================================================================
