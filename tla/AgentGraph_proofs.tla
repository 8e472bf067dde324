-------------------------- MODULE AgentGraph_proofs --------------------------
(***************************************************************************)
(* Proofs about AgentGraph, and about Judgment and Research, which are     *)
(* what two of its nodes do inside, for every value of the constants.      *)
(***************************************************************************)
EXTENDS AgentGraph, Judgment, Research, FiniteSetTheorems, SequenceTheorems, TLAPS

Used == 2 * rejections + judge_errors

(* Who is asked, on which route, while the turn waits for a person. *)
AskedFor ==
  node = "ask_user" =>
    /\ asking_role \in {"agent", "evaluator"}
    /\ route \in {"agent", "research"}
    /\ asking_role = "agent" => route = "agent"

(* The questions a turn has left. *)
AsksLeft ==
  /\ pauses <= asks /\ asks <= MaxUserQuestions
  /\ closed => asks = MaxUserQuestions
  /\ node = "ask_user" => asks < MaxUserQuestions

(***************************************************************************)
(* How far the run of nodes can be, from where it is and from the          *)
(* rejections and judge failures it has seen: a round is one run of agent  *)
(* or research and one of evaluator, and the way into the research route   *)
(* and out of it is taken once.                                            *)
(***************************************************************************)
StepsSoFar ==
  /\ node # "__end__" => rejections <= MaxRejections /\ judge_errors <= MaxJudgeErrors
  /\ node = "agent" => \/ route = "none" /\ steps = 0
                       \/ route = "agent" /\ steps <= 2 + Used
  /\ node = "research" => route = "research" /\ steps <= 1 + Used
  /\ node = "evaluator" => \/ route = "agent" /\ steps <= 3 + Used
                           \/ route = "research" /\ steps <= 2 + Used
  /\ steps <= 4 + 2 * MaxRejections + MaxJudgeErrors

GraphInv == TypeOK /\ AskedFor /\ AsksLeft /\ StepsSoFar

(* The parts of the type: where the turn is, its counts, its truth values, *)
(* and what the agent's conversation is made of.                           *)
PlaceOK == /\ node \in Nodes /\ route \in {"none", "agent", "chat", "research"}
           /\ asking_role \in {"none", "agent", "evaluator"}
CountsOK == /\ asks \in Nat /\ rejections \in Nat /\ judge_errors \in Nat
            /\ calls \in Nat /\ model_calls \in Nat /\ steps \in Nat
            /\ pauses \in Nat /\ requested \in Nat /\ answered \in SUBSET Nat
            /\ papers \in Nat
FlagsOK == /\ output \in BOOLEAN /\ final_output \in BOOLEAN
           /\ spent \in BOOLEAN /\ closed \in BOOLEAN /\ produced \in BOOLEAN
TextsOK == /\ transcript \in Seq(Events)
           /\ user_answer \in Seq(Events) /\ feedback \in Seq(Events)

LEMMA TypeParts == TypeOK <=> PlaceOK /\ CountsOK /\ FlagsOK /\ TextsOK
BY DEF TypeOK, PlaceOK, CountsOK, FlagsOK, TextsOK

(***************************************************************************)
(* Where the turn goes, its counts and its truth values, one action at a   *)
(* time.                                                                   *)
(***************************************************************************)
LEMMA PlaceStep ==
  TypeOK /\ AskedFor /\ [Next]_vars => PlaceOK' /\ CountsOK' /\ FlagsOK'
<1> SUFFICES ASSUME PlaceOK, CountsOK, FlagsOK, AskedFor, [Next]_vars
             PROVE  PlaceOK' /\ CountsOK' /\ FlagsOK'
  BY TypeParts
<1> USE DEF counters, history
<1>1. CASE Chat
  <2>1. PlaceOK'
    BY <1>1 DEF PlaceOK, Nodes, Chat, Runs, Goto, Puts
  <2>2. CountsOK'
    BY <1>1 DEF CountsOK, Chat, Runs, Goto, Puts
  <2>3. FlagsOK'
    BY <1>1, Zenon DEF FlagsOK, Chat, Runs, Goto, Puts
  <2> QED BY <2>1, <2>2, <2>3
<1>2. CASE ToResearch
  <2>1. PlaceOK'
    BY <1>2 DEF PlaceOK, Nodes, ToResearch, Runs, Goto
  <2>2. CountsOK'
    BY <1>2 DEF CountsOK, ToResearch, Runs, Goto
  <2>3. FlagsOK'
    BY <1>2, Zenon DEF FlagsOK, ToResearch, Runs, Goto
  <2> QED BY <2>1, <2>2, <2>3
<1>3. CASE AgentAsks
  <2>1. PlaceOK'
    BY <1>3 DEF PlaceOK, Nodes, AgentAsks, Runs, Goto, Carry
  <2>2. CountsOK'
    BY <1>3 DEF CountsOK, AgentAsks, Runs, Goto, Carry
  <2>3. FlagsOK'
    BY <1>3, Zenon DEF FlagsOK, AgentAsks, Runs, Goto, Carry
  <2> QED BY <2>1, <2>2, <2>3
<1>4. CASE AgentFails
  <2>1. PlaceOK'
    BY <1>4 DEF PlaceOK, Nodes, AgentFails, Runs, Goto, Carry
  <2>2. CountsOK'
    BY <1>4 DEF CountsOK, AgentFails, Runs, Goto, Carry
  <2>3. FlagsOK'
    BY <1>4, Zenon DEF FlagsOK, AgentFails, Runs, Goto, Carry
  <2> QED BY <2>1, <2>2, <2>3
<1>5. ASSUME NEW text \in BOOLEAN, AgentAnswers(text)
      PROVE  PlaceOK' /\ CountsOK' /\ FlagsOK'
  <2>1. PlaceOK'
    BY <1>5 DEF PlaceOK, Nodes, AgentAnswers, Runs, Goto, Carry, Puts
  <2>2. CountsOK'
    BY <1>5 DEF CountsOK, AgentAnswers, Runs, Goto, Carry, Puts
  <2>3. FlagsOK'
    BY <1>5, Zenon DEF FlagsOK, AgentAnswers, Runs, Goto, Carry, Puts
  <2> QED BY <2>1, <2>2, <2>3
<1>6. ASSUME NEW text \in BOOLEAN, AgentOutOfBudget(text)
      PROVE  PlaceOK' /\ CountsOK' /\ FlagsOK'
  <2>1. PlaceOK'
    BY <1>6 DEF PlaceOK, Nodes, AgentOutOfBudget, Runs, Goto, Carry, Puts
  <2>2. CountsOK'
    BY <1>6 DEF CountsOK, AgentOutOfBudget, Runs, Goto, Carry, Puts
  <2>3. FlagsOK'
    BY <1>6, Zenon DEF FlagsOK, AgentOutOfBudget, Runs, Goto, Carry, Puts
  <2> QED BY <2>1, <2>2, <2>3
<1>7. CASE ResearchHandsOver
  <2>1. PlaceOK'
    BY <1>7 DEF PlaceOK, Nodes, ResearchHandsOver, Runs, Goto
  <2>2. CountsOK'
    BY <1>7 DEF CountsOK, ResearchHandsOver, Runs, Goto
  <2>3. FlagsOK'
    BY <1>7, Zenon DEF FlagsOK, ResearchHandsOver, Runs, Goto
  <2> QED BY <2>1, <2>2, <2>3
<1>8. ASSUME NEW unjudged \in BOOLEAN, ResearchFinishes(unjudged)
      PROVE  PlaceOK' /\ CountsOK' /\ FlagsOK'
  <2>1. PlaceOK'
    BY <1>8 DEF PlaceOK, Nodes, ResearchFinishes, Runs, Goto, Puts
  <2>2. CountsOK'
    BY <1>8 DEF CountsOK, ResearchFinishes, Runs, Goto, Puts
  <2>3. FlagsOK'
    BY <1>8, Zenon DEF FlagsOK, ResearchFinishes, Runs, Goto, Puts
  <2> QED BY <2>1, <2>2, <2>3
<1>9. CASE Approve
  <2>1. PlaceOK'
    BY <1>9 DEF PlaceOK, Nodes, Approve, Runs, Goto, Verdict
  <2>2. CountsOK'
    BY <1>9 DEF CountsOK, Approve, Runs, Goto, Verdict
  <2>3. FlagsOK'
    BY <1>9, Zenon DEF FlagsOK, Approve, Runs, Goto, Verdict
  <2> QED BY <2>1, <2>2, <2>3
<1>10. CASE Reject
  <2>1. PlaceOK'
    BY <1>10 DEF PlaceOK, Nodes, Reject, Runs, Goto, Verdict
  <2>2. CountsOK'
    <3>1. UNCHANGED <<pauses, closed, answered, papers>>
      BY <1>10 DEF Reject, Goto
    <3>2. /\ rejections' = rejections + 1 /\ UNCHANGED <<asks, judge_errors>>
          /\ model_calls' = calls' /\ steps' = steps + 1
          /\ calls' = calls + 1 /\ requested' = requested + 1
      BY <1>10 DEF Reject, Runs, Verdict
    <3> QED BY <3>1, <3>2 DEF CountsOK
  <2>3. FlagsOK'
    BY <1>10, Zenon DEF FlagsOK, Reject, Runs, Goto, Verdict
  <2> QED BY <2>1, <2>2, <2>3
<1>11. CASE JudgeAsks
  <2>1. PlaceOK'
    BY <1>11 DEF PlaceOK, Nodes, JudgeAsks, Runs, Goto
  <2>2. CountsOK'
    BY <1>11 DEF CountsOK, JudgeAsks, Runs, Goto
  <2>3. FlagsOK'
    BY <1>11, Zenon DEF FlagsOK, JudgeAsks, Runs, Goto
  <2> QED BY <2>1, <2>2, <2>3
<1>12. CASE JudgeFails
  <2>1. PlaceOK'
    BY <1>12 DEF PlaceOK, Nodes, JudgeFails, Runs, Goto
  <2>2. CountsOK'
    <3>1. UNCHANGED <<pauses, closed, answered, papers, asks, rejections>>
      BY <1>12 DEF JudgeFails, Goto
    <3>2. /\ judge_errors' = judge_errors + 1 /\ steps' = steps + 1
          /\ calls' = calls + 1 /\ requested' = requested + 1
      BY <1>12 DEF JudgeFails, Runs
    <3>3. model_calls' \in {calls', model_calls}
      BY <1>12 DEF JudgeFails
    <3> QED BY <3>1, <3>2, <3>3 DEF CountsOK
  <2>3. FlagsOK'
    BY <1>12, Zenon DEF FlagsOK, JudgeFails, Runs, Goto
  <2> QED BY <2>1, <2>2, <2>3
<1>13. ASSUME NEW closing \in BOOLEAN, Answer(closing)
      PROVE  PlaceOK' /\ CountsOK' /\ FlagsOK'
  <2>1. PlaceOK'
    BY <1>13 DEF PlaceOK, Nodes, Answer, Larger, AskedFor
  <2>2. CountsOK'
    <3>1. /\ pauses' = pauses + 1 /\ steps' = 1 /\ calls' = 0
          /\ UNCHANGED <<rejections, judge_errors, model_calls, requested, papers>>
      BY <1>13 DEF Answer
    <3>2. answered' \in {answered, answered \cup {pauses'}}
      BY <1>13 DEF Answer
    <3>3. asks' \in {asks + 1, MaxUserQuestions}
      BY <1>13 DEF Answer, Larger
    <3> QED BY <3>1, <3>2, <3>3, BoundsAssumption DEF CountsOK
  <2>3. FlagsOK'
    BY <1>13, Zenon DEF FlagsOK, Answer
  <2> QED BY <2>1, <2>2, <2>3
<1>14. CASE Salvaged
  <2>1. PlaceOK'
    BY <1>14 DEF PlaceOK, Nodes, Salvaged
  <2>2. CountsOK'
    BY <1>14 DEF CountsOK, Salvaged
  <2>3. FlagsOK'
    BY <1>14, Zenon DEF FlagsOK, Salvaged
  <2> QED BY <2>1, <2>2, <2>3
<1>15. CASE UNCHANGED vars
  BY <1>15 DEF vars, PlaceOK, CountsOK, FlagsOK
<1> QED
  BY <1>1, <1>2, <1>3, <1>4, <1>5, <1>6, <1>7, <1>8, <1>9, <1>10, <1>11, <1>12, <1>13, <1>14, <1>15
     DEF Next, AgentRuns, ResearchRuns, EvaluatorRuns

(***************************************************************************)
(* What is spliced into the conversation, and the conversation itself.     *)
(***************************************************************************)
LEMMA EventsAreEvents ==
  /\ \A n \in Nat : /\ Event("asked", n) \in Events
                    /\ Event("answered", n) \in Events
                    /\ Event("rejected", n) \in Events
  /\ Event("failed", 0) \in Events /\ Seed \in Events
BY DEF Event, Events, Seed

LEMMA MessagesAreEvents == TextsOK => Messages \in Seq(Events)
<1> SUFFICES ASSUME TextsOK PROVE Messages \in Seq(Events)
  OBVIOUS
<1>1. transcript \o user_answer \in Seq(Events)
  BY ConcatProperties DEF TextsOK
<1>2. (transcript \o user_answer) \o feedback \in Seq(Events)
  BY <1>1, ConcatProperties DEF TextsOK
<1>3. <<Seed>> \in Seq(Events)
  BY EventsAreEvents
<1> QED BY <1>2, <1>3 DEF Messages

LEMMA TextsStep == TypeOK /\ [Next]_vars => TextsOK'
<1> SUFFICES ASSUME CountsOK, TextsOK, [Next]_vars PROVE TextsOK'
  BY TypeParts
<1>m. Messages \in Seq(Events)
  BY MessagesAreEvents
<1>1. CASE AgentAsks
  <2>1. Event("asked", pauses + 1) \in Events
    BY EventsAreEvents DEF CountsOK
  <2>2. Append(Messages, Event("asked", pauses + 1)) \in Seq(Events)
    BY <1>m, <2>1, AppendProperties
  <2> QED BY <1>1, <2>2 DEF AgentAsks, Carry, TextsOK
<1>2. CASE AgentFails
  <2>1. <<Event("failed", 0)>> \in Seq(Events)
    BY EventsAreEvents
  <2> QED BY <1>2, <1>m, <2>1 DEF AgentFails, Carry, TextsOK
<1>3. ASSUME NEW text \in BOOLEAN, AgentAnswers(text) \/ AgentOutOfBudget(text)
      PROVE  TextsOK'
  <2>1. CASE AgentAnswers(text)
    BY <2>1, <1>m DEF AgentAnswers, Carry, TextsOK
  <2>2. CASE AgentOutOfBudget(text)
    BY <2>2, <1>m DEF AgentOutOfBudget, Carry, TextsOK
  <2> QED BY <1>3, <2>1, <2>2
<1>4. CASE Reject
  <2>1. Event("rejected", rejections + 1) \in Events
    BY EventsAreEvents DEF CountsOK
  <2>2. <<Event("rejected", rejections')>> \in Seq(Events)
    BY <1>4, <2>1 DEF Reject
  <2> QED BY <1>4, <2>2 DEF Reject, Verdict, TextsOK
<1>5. ASSUME NEW closing \in BOOLEAN, Answer(closing) PROVE TextsOK'
  <2>1. Event("answered", pauses + 1) \in Events
    BY EventsAreEvents DEF CountsOK
  <2>2. <<Event("answered", pauses')>> \in Seq(Events)
    BY <1>5, <2>1 DEF Answer
  <2> QED BY <1>5, <2>2 DEF Answer, TextsOK
<1>6. ASSUME NEW unjudged \in BOOLEAN, ResearchFinishes(unjudged) PROVE TextsOK'
  BY <1>6 DEF ResearchFinishes, TextsOK
<1>7. CASE Chat \/ ToResearch \/ ResearchHandsOver \/ Salvaged
  BY <1>7 DEF Chat, ToResearch, ResearchHandsOver, Salvaged, TextsOK
<1>8. CASE Approve \/ JudgeAsks \/ JudgeFails
  BY <1>8 DEF Approve, JudgeAsks, JudgeFails, Verdict, TextsOK
<1>9. CASE UNCHANGED vars
  BY <1>9 DEF vars, TextsOK
<1> QED
  BY <1>1, <1>2, <1>3, <1>4, <1>5, <1>6, <1>7, <1>8, <1>9
     DEF Next, AgentRuns, ResearchRuns, EvaluatorRuns

LEMMA TypeStep == TypeOK /\ AskedFor /\ [Next]_vars => TypeOK'
<1> SUFFICES ASSUME TypeOK, AskedFor, [Next]_vars PROVE TypeOK'
  OBVIOUS
<1>1. PlaceOK' /\ CountsOK' /\ FlagsOK' /\ TextsOK'
  BY PlaceStep, TextsStep
<1> QED BY <1>1 DEF TypeOK, PlaceOK, CountsOK, FlagsOK, TextsOK

(***************************************************************************)
(* The three parts about counts, one action at a time.                     *)
(***************************************************************************)
LEMMA CountStep ==
  GraphInv /\ [Next]_vars => AskedFor' /\ AsksLeft' /\ StepsSoFar'
<1> SUFFICES ASSUME GraphInv, [Next]_vars
             PROVE  AskedFor' /\ AsksLeft' /\ StepsSoFar'
  OBVIOUS
<1> USE BoundsAssumption
    DEF GraphInv, TypeOK, Nodes, counters, history, AskedFor, AsksLeft, StepsSoFar, Used
<1>1. CASE Chat
  <2>1. AskedFor'
    BY <1>1 DEF Chat, Runs, Goto, Puts, Fresh
  <2>2. AsksLeft'
    BY <1>1 DEF Chat, Runs, Goto, Puts, Fresh
  <2>3. StepsSoFar'
    BY <1>1 DEF Chat, Runs, Goto, Puts, Fresh
  <2> QED BY <2>1, <2>2, <2>3
<1>2. CASE ToResearch
  <2>1. AskedFor'
    BY <1>2 DEF ToResearch, Runs, Goto, Fresh
  <2>2. AsksLeft'
    BY <1>2 DEF ToResearch, Runs, Goto, Fresh
  <2>3. StepsSoFar'
    BY <1>2 DEF ToResearch, Runs, Goto, Fresh
  <2> QED BY <2>1, <2>2, <2>3
<1>3. CASE AgentAsks
  <2>1. AskedFor'
    BY <1>3 DEF AgentAsks, Runs, Goto, Carry
  <2>2. AsksLeft'
    BY <1>3 DEF AgentAsks, Runs, Goto, Carry
  <2>3. StepsSoFar'
    BY <1>3 DEF AgentAsks, Runs, Goto, Carry
  <2> QED BY <2>1, <2>2, <2>3
<1>4. CASE AgentFails
  <2>1. AskedFor'
    BY <1>4 DEF AgentFails, Runs, Goto, Carry
  <2>2. AsksLeft'
    BY <1>4 DEF AgentFails, Runs, Goto, Carry
  <2>3. StepsSoFar'
    BY <1>4 DEF AgentFails, Runs, Goto, Carry
  <2> QED BY <2>1, <2>2, <2>3
<1>5. ASSUME NEW text \in BOOLEAN, AgentAnswers(text)
      PROVE  AskedFor' /\ AsksLeft' /\ StepsSoFar'
  <2>1. AskedFor'
    BY <1>5 DEF AgentAnswers, Runs, Goto, Carry, Puts
  <2>2. AsksLeft'
    BY <1>5 DEF AgentAnswers, Runs, Goto, Carry, Puts
  <2>3. StepsSoFar'
    BY <1>5 DEF AgentAnswers, Runs, Goto, Carry, Puts
  <2> QED BY <2>1, <2>2, <2>3
<1>6. ASSUME NEW text \in BOOLEAN, AgentOutOfBudget(text)
      PROVE  AskedFor' /\ AsksLeft' /\ StepsSoFar'
  <2>1. AskedFor'
    BY <1>6 DEF AgentOutOfBudget, Runs, Goto, Carry, Puts
  <2>2. AsksLeft'
    BY <1>6 DEF AgentOutOfBudget, Runs, Goto, Carry, Puts
  <2>3. StepsSoFar'
    BY <1>6 DEF AgentOutOfBudget, Runs, Goto, Carry, Puts
  <2> QED BY <2>1, <2>2, <2>3
<1>7. CASE ResearchHandsOver
  <2>1. AskedFor'
    BY <1>7 DEF ResearchHandsOver, Runs, Goto
  <2>2. AsksLeft'
    BY <1>7 DEF ResearchHandsOver, Runs, Goto
  <2>3. StepsSoFar'
    BY <1>7 DEF ResearchHandsOver, Runs, Goto
  <2> QED BY <2>1, <2>2, <2>3
<1>8. ASSUME NEW unjudged \in BOOLEAN, ResearchFinishes(unjudged)
      PROVE  AskedFor' /\ AsksLeft' /\ StepsSoFar'
  <2>1. AskedFor'
    BY <1>8 DEF ResearchFinishes, Runs, Goto, Puts
  <2>2. AsksLeft'
    BY <1>8 DEF ResearchFinishes, Runs, Goto, Puts
  <2>3. StepsSoFar'
    BY <1>8 DEF ResearchFinishes, Runs, Goto, Puts
  <2> QED BY <2>1, <2>2, <2>3
<1>9. CASE Approve
  <2>1. AskedFor'
    BY <1>9 DEF Approve, Runs, Goto, Verdict
  <2>2. AsksLeft'
    BY <1>9 DEF Approve, Runs, Goto, Verdict
  <2>3. StepsSoFar'
    BY <1>9 DEF Approve, Runs, Goto, Verdict
  <2> QED BY <2>1, <2>2, <2>3
<1>10. CASE Reject
  <2>1. AskedFor'
    BY <1>10 DEF Reject, Runs, Goto, Verdict
  <2>2. AsksLeft'
    BY <1>10 DEF Reject, Runs, Goto, Verdict
  <2>3. StepsSoFar'
    BY <1>10 DEF Reject, Runs, Goto, Verdict
  <2> QED BY <2>1, <2>2, <2>3
<1>11. CASE JudgeAsks
  <2>1. AskedFor'
    BY <1>11 DEF JudgeAsks, Runs, Goto
  <2>2. AsksLeft'
    BY <1>11 DEF JudgeAsks, Runs, Goto
  <2>3. StepsSoFar'
    BY <1>11 DEF JudgeAsks, Runs, Goto
  <2> QED BY <2>1, <2>2, <2>3
<1>12. CASE JudgeFails
  <2>1. AskedFor'
    BY <1>12 DEF JudgeFails, Runs, Goto
  <2>2. AsksLeft'
    BY <1>12 DEF JudgeFails, Runs, Goto
  <2>3. StepsSoFar'
    BY <1>12 DEF JudgeFails, Runs, Goto
  <2> QED BY <2>1, <2>2, <2>3
<1>13. ASSUME NEW closing \in BOOLEAN, Answer(closing)
      PROVE  AskedFor' /\ AsksLeft' /\ StepsSoFar'
  <2>1. AskedFor'
    BY <1>13 DEF Answer, Larger
  <2>2. AsksLeft'
    BY <1>13 DEF Answer, Larger
  <2>3. StepsSoFar'
    BY <1>13 DEF Answer, Larger
  <2> QED BY <2>1, <2>2, <2>3
<1>14. CASE Salvaged
  <2>1. AskedFor'
    BY <1>14 DEF Salvaged
  <2>2. AsksLeft'
    BY <1>14 DEF Salvaged
  <2>3. StepsSoFar'
    BY <1>14 DEF Salvaged
  <2> QED BY <2>1, <2>2, <2>3
<1>15. CASE UNCHANGED vars
  BY <1>15 DEF vars
<1> QED
  BY <1>1, <1>2, <1>3, <1>4, <1>5, <1>6, <1>7, <1>8, <1>9, <1>10, <1>11, <1>12, <1>13, <1>14, <1>15
     DEF Next, AgentRuns, ResearchRuns, EvaluatorRuns

(***************************************************************************)
(* The invariant from which every theorem below follows.                   *)
(***************************************************************************)
LEMMA Invariance == Spec => []GraphInv
<1>1. Init => GraphInv
  <2> SUFFICES ASSUME Init PROVE GraphInv
    OBVIOUS
  <2>1. PlaceOK /\ CountsOK /\ TextsOK
    BY DEF Init, PlaceOK, CountsOK, TextsOK, Nodes
  <2>2. FlagsOK
    BY Zenon DEF Init, FlagsOK
  <2>3. AskedFor /\ AsksLeft /\ StepsSoFar
    BY BoundsAssumption DEF Init, AskedFor, AsksLeft, StepsSoFar, Used
  <2> QED BY <2>1, <2>2, <2>3, TypeParts DEF GraphInv
<1>2. GraphInv /\ [Next]_vars => GraphInv'
  BY TypeStep, CountStep DEF GraphInv
<1> QED BY <1>1, <1>2, PTL DEF Spec

(***************************************************************************)
(* The type of the state is an invariant of the graph.                     *)
(***************************************************************************)
THEOREM TypeCorrect == Spec => []TypeOK
<1>1. GraphInv => TypeOK
  BY DEF GraphInv
<1> QED BY <1>1, Invariance, PTL

(***************************************************************************)
(* Whatever the bounds are, a turn pauses at most MAX_USER_QUESTIONS times *)
(* and never after a closing answer, with both roles asking (ask_user,     *)
(* _agent_loop, _tool_loop).                                               *)
(***************************************************************************)
THEOREM AsksAreCapped == Spec => []QuestionsAreBounded
<1>1. GraphInv => QuestionsAreBounded
  BY BoundsAssumption DEF GraphInv, TypeOK, AsksLeft, QuestionsAreBounded
<1> QED BY <1>1, Invariance, PTL

(***************************************************************************)
(* Whatever the bounds are, an invocation of the graph runs at most        *)
(* 4 + 2 MAX_REJECTIONS + MAX_JUDGE_ERRORS nodes.                          *)
(***************************************************************************)
THEOREM RunsAreShort == Spec => []StepsAreBounded
<1>1. GraphInv => StepsAreBounded
  BY DEF GraphInv, StepsSoFar, StepsAreBounded
<1> QED BY <1>1, Invariance, PTL

(***************************************************************************)
(* A turn is bounded in what it asks and in what it runs, whatever the     *)
(* bounds are (nodes.py, MAX_USER_QUESTIONS and _RECURSION_SAFETY_NET).    *)
(***************************************************************************)
THEOREM TurnsAreBounded == Spec => []TurnIsBounded
BY AsksAreCapped, RunsAreShort, PTL DEF TurnIsBounded

(***************************************************************************)
(* So a node that may run is never stopped by the recursion limit: the     *)
(* limit's guard in Runs excludes nothing (_RECURSION_SAFETY_NET).         *)
(***************************************************************************)
THEOREM NetIsNeverReached == Spec => [](steps < RecursionNet)
<1>1. GraphInv => steps < RecursionNet
  BY BoundsAssumption, NetAssumption DEF GraphInv, TypeOK, StepsSoFar
<1> QED BY <1>1, Invariance, PTL
-----------------------------------------------------------------------------
(* What the agent's conversation holds of what was said to it *)

In(msgs, event) == {i \in 1..Len(msgs) : msgs[i] = event}

\* The answers given to the agent are each in its conversation once, but for
\* the last, which is on its way to it; no other answer is there.
Answers ==
  /\ answered \subseteq 1..pauses
  /\ \/ user_answer = <<>>
     \/ /\ user_answer = <<Event("answered", pauses)>> /\ pauses \in answered
        /\ node \in {"agent", "__end__"} /\ transcript # <<>>
        /\ In(transcript, Event("answered", pauses)) = {}
  /\ \A k \in answered :
       \/ user_answer = <<Event("answered", k)>>
       \/ \E i \in 1..Len(transcript) : In(transcript, Event("answered", k)) = {i}
  /\ \A k \in Nat \ answered : In(transcript, Event("answered", k)) = {}

\* What goes back to the agent is not an answer.
Feedback ==
  \/ feedback = <<>> \/ feedback = <<Event("failed", 0)>>
  \/ \E r \in Nat : feedback = <<Event("rejected", r)>>

\* The rejections of the agent's candidates are in its conversation, or one
\* is on its way to it; before it has one, there is none to hear.
Rejections ==
  /\ transcript = <<>> /\ route # "research" => rejections <= papers
  /\ node \in {"evaluator", "ask_user"} /\ route = "agent" =>
       /\ transcript # <<>>
       /\ \A r \in (papers + 1)..rejections : In(transcript, Event("rejected", r)) # {}
  /\ node = "agent" => \A r \in (papers + 1)..rejections :
       In(transcript, Event("rejected", r)) # {} \/ feedback = <<Event("rejected", r)>>

WordsInv == Answers /\ Feedback /\ Rejections

LEMMA InAppend ==
  ASSUME NEW msgs \in Seq(Events), NEW e \in Events, NEW x \in Events
  PROVE  In(Append(msgs, x), e) =
           IF x = e THEN In(msgs, e) \cup {Len(msgs) + 1} ELSE In(msgs, e)
<1>1. /\ Len(Append(msgs, x)) = Len(msgs) + 1 /\ Len(msgs) \in Nat
      /\ \A k \in 1..Len(msgs) : Append(msgs, x)[k] = msgs[k]
      /\ Append(msgs, x)[Len(msgs) + 1] = x
  OBVIOUS
<1>2. 1..(Len(msgs) + 1) = (1..Len(msgs)) \cup {Len(msgs) + 1}
  BY <1>1
<1> QED BY <1>1, <1>2 DEF In

LEMMA Concatenate ==
  ASSUME NEW msgs \in Seq(Events), NEW x \in Events
  PROVE  msgs \o <<>> = msgs /\ msgs \o <<x>> = Append(msgs, x)
OBVIOUS

LEMMA EventsOf ==
  /\ Seed \in Events /\ Event("failed", 0) \in Events
  /\ \A k \in Nat : /\ Event("answered", k) \in Events /\ Event("asked", k) \in Events
                    /\ Event("rejected", k) \in Events
  /\ \A k, l \in Nat : /\ Event("answered", k) = Event("answered", l) => k = l
                       /\ Event("rejected", k) = Event("rejected", l) => k = l
  /\ \A k, l \in Nat : /\ Event("answered", k) # Seed /\ Event("rejected", k) # Seed
                       /\ Event("answered", k) # Event("asked", l)
                       /\ Event("rejected", k) # Event("asked", l)
                       /\ Event("rejected", k) # Event("answered", l)
                       /\ Event("answered", k) # Event("failed", l)
                       /\ Event("rejected", k) # Event("failed", l)
BY DEF Event, Events, Seed

\* What the agent's run reads is its conversation, what a person answered and
\* what it was told, in the order they are spliced in.
LEMMA MessagesAre ==
  ASSUME TextsOK, WordsInv, CountsOK
  PROVE  \/ transcript = <<>> /\ Messages = <<Seed>>
         \/ /\ transcript # <<>>
            /\ \E heard \in Seq(Events) :
                 /\ \/ user_answer = <<>> /\ heard = transcript
                    \/ /\ user_answer = <<Event("answered", pauses)>>
                       /\ heard = Append(transcript, Event("answered", pauses))
                 /\ \/ feedback = <<>> /\ Messages = heard
                    \/ /\ feedback = <<Event("failed", 0)>>
                       /\ Messages = Append(heard, Event("failed", 0))
                    \/ \E r \in Nat : /\ feedback = <<Event("rejected", r)>>
                                      /\ Messages = Append(heard, Event("rejected", r))
<1>1. CASE transcript = <<>>
  BY <1>1 DEF Messages
<1>2. CASE transcript # <<>>
  <2> DEFINE heard == transcript \o user_answer
  <2>1. Messages = heard \o feedback
    BY <1>2 DEF Messages, TextsOK
  <2>2. /\ transcript \in Seq(Events) /\ pauses \in Nat
        /\ Event("answered", pauses) \in Events
    BY EventsOf DEF TextsOK, CountsOK
  <2>3. \/ user_answer = <<>> /\ heard = transcript
        \/ /\ user_answer = <<Event("answered", pauses)>>
           /\ heard = Append(transcript, Event("answered", pauses))
    BY <2>2, Concatenate, EventsOf DEF WordsInv, Answers
  <2>4. heard \in Seq(Events)
    <3> HIDE DEF heard
    <3> QED BY <2>2, <2>3
  <2>5. \/ feedback = <<>> /\ Messages = heard
        \/ /\ feedback = <<Event("failed", 0)>>
           /\ Messages = Append(heard, Event("failed", 0))
        \/ \E r \in Nat : /\ feedback = <<Event("rejected", r)>>
                          /\ Messages = Append(heard, Event("rejected", r))
    <3> HIDE DEF heard
    <3>1. CASE feedback = <<>>
      BY <2>1, <2>4, <3>1, Concatenate
    <3>2. CASE feedback = <<Event("failed", 0)>>
      BY <2>1, <2>4, <3>2, Concatenate, EventsOf
    <3>3. ASSUME NEW r \in Nat, feedback = <<Event("rejected", r)>>
          PROVE  Messages = Append(heard, Event("rejected", r))
      BY <2>1, <2>4, <3>3, Concatenate, EventsOf
    <3> QED BY <3>1, <3>2, <3>3 DEF WordsInv, Feedback
  <2> QED BY <1>2, <2>3, <2>4, <2>5
<1> QED BY <1>1, <1>2

\* The agent's run hears each answer once, and no other.
LEMMA AnswersReachIt ==
  ASSUME TextsOK, WordsInv, CountsOK
  PROVE  /\ Messages \in Seq(Events) /\ Messages # <<>>
         /\ \A k \in answered : \E i \in 1..Len(Messages) : In(Messages, Event("answered", k)) = {i}
         /\ \A k \in Nat \ answered : In(Messages, Event("answered", k)) = {}
<1> USE DEF CountsOK
<1>1. CASE transcript = <<>> /\ Messages = <<Seed>>
  <2>1. answered = {}
    <3>1. \A k \in answered : In(transcript, Event("answered", k)) = {}
      BY <1>1 DEF In
    <3>2. user_answer = <<>>
      BY <1>1 DEF WordsInv, Answers
    <3> QED BY <3>1, <3>2 DEF WordsInv, Answers
  <2>2. \A k \in Nat : In(Messages, Event("answered", k)) = {}
    BY <1>1, EventsOf DEF In
  <2> QED BY <1>1, <2>1, <2>2, EventsOf
<1>2. ASSUME NEW heard \in Seq(Events), transcript # <<>>,
             \/ user_answer = <<>> /\ heard = transcript
             \/ /\ user_answer = <<Event("answered", pauses)>>
                /\ heard = Append(transcript, Event("answered", pauses)),
             \/ Messages = heard
             \/ Messages = Append(heard, Event("failed", 0))
             \/ \E r \in Nat : Messages = Append(heard, Event("rejected", r))
      PROVE  /\ Messages \in Seq(Events) /\ Messages # <<>>
             /\ \A k \in answered : \E i \in 1..Len(Messages) : In(Messages, Event("answered", k)) = {i}
             /\ \A k \in Nat \ answered : In(Messages, Event("answered", k)) = {}
  <2>1. transcript \in Seq(Events) /\ Len(transcript) \in Nat /\ heard # <<>>
    BY <1>2 DEF TextsOK
  <2>2. /\ \A k \in answered : \E i \in 1..Len(heard) : In(heard, Event("answered", k)) = {i}
        /\ \A k \in Nat \ answered : In(heard, Event("answered", k)) = {}
    <3>1. CASE user_answer = <<>> /\ heard = transcript
      BY <3>1 DEF WordsInv, Answers
    <3>2. CASE /\ user_answer = <<Event("answered", pauses)>>
               /\ heard = Append(transcript, Event("answered", pauses))
      <4>1. /\ pauses \in answered /\ In(transcript, Event("answered", pauses)) = {}
            /\ \A k \in answered \ {pauses} : \E i \in 1..Len(transcript) :
                 In(transcript, Event("answered", k)) = {i}
            /\ \A k \in Nat \ answered : In(transcript, Event("answered", k)) = {}
        BY <3>2, EventsOf DEF WordsInv, Answers
      <4>2. /\ In(heard, Event("answered", pauses)) = {Len(transcript) + 1}
            /\ \A k \in Nat \ {pauses} : In(heard, Event("answered", k)) = In(transcript, Event("answered", k))
        BY <2>1, <3>2, <4>1, InAppend, EventsOf
      <4>3. Len(heard) = Len(transcript) + 1
        BY <2>1, <3>2
      <4> QED BY <2>1, <4>1, <4>2, <4>3
    <3> QED BY <1>2, <3>1, <3>2
  <2>3. Len(heard) \in Nat
    OBVIOUS
  <2>4. CASE Messages = heard
    BY <2>1, <2>2, <2>4
  <2>5. ASSUME NEW e \in Events, Messages = Append(heard, e), \A k \in Nat : e # Event("answered", k)
        PROVE  /\ Messages \in Seq(Events) /\ Messages # <<>>
               /\ \A k \in answered : \E i \in 1..Len(Messages) : In(Messages, Event("answered", k)) = {i}
               /\ \A k \in Nat \ answered : In(Messages, Event("answered", k)) = {}
    <3>1. \A k \in Nat : In(Messages, Event("answered", k)) = In(heard, Event("answered", k))
      BY <2>5, InAppend, EventsOf
    <3>2. Messages \in Seq(Events) /\ Messages # <<>> /\ Len(Messages) = Len(heard) + 1
      BY <2>5
    <3> QED BY <2>2, <2>3, <3>1, <3>2
  <2> QED BY <1>2, <2>4, <2>5, EventsOf
<1> QED BY <1>1, <1>2, MessagesAre

\* The agent's run hears every rejection of a candidate of its own.
LEMMA RejectionsReachIt ==
  ASSUME TextsOK, WordsInv, CountsOK, node = "agent", route # "research"
  PROVE  \A r \in (papers + 1)..rejections : In(Messages, Event("rejected", r)) # {}
<1> SUFFICES ASSUME NEW r \in (papers + 1)..rejections
             PROVE  In(Messages, Event("rejected", r)) # {}
  OBVIOUS
<1> DEFINE e == Event("rejected", r)
<1>1. r \in Nat /\ e \in Events
  BY EventsOf DEF CountsOK
<1>2. transcript # <<>>
  BY <1>1 DEF CountsOK, WordsInv, Rejections
<1>3. In(transcript, e) # {} \/ feedback = <<e>>
  BY DEF WordsInv, Rejections
<1>4. PICK heard \in Seq(Events) :
        /\ \/ heard = transcript
           \/ heard = Append(transcript, Event("answered", pauses))
        /\ \/ feedback = <<>> /\ Messages = heard
           \/ /\ feedback = <<Event("failed", 0)>>
              /\ Messages = Append(heard, Event("failed", 0))
           \/ \E q \in Nat : /\ feedback = <<Event("rejected", q)>>
                             /\ Messages = Append(heard, Event("rejected", q))
  BY <1>2, MessagesAre
<1>5. In(transcript, e) \subseteq In(heard, e)
  <2>1. transcript \in Seq(Events) /\ Event("answered", pauses) \in Events
    BY EventsOf DEF TextsOK, CountsOK
  <2> HIDE DEF e
  <2>2. CASE heard = transcript
    BY <2>2
  <2>3. CASE heard = Append(transcript, Event("answered", pauses))
    BY <1>1, <2>1, <2>3, InAppend
  <2> QED BY <1>4, <2>2, <2>3
<1>6. CASE feedback = <<>> /\ Messages = heard
  BY <1>3, <1>5, <1>6
<1>7. ASSUME NEW x \in Events, feedback = <<x>>, Messages = Append(heard, x)
      PROVE  In(Messages, e) # {}
  <2>1. feedback = <<e>> => x = e
    BY <1>7
  <2> HIDE DEF e
  <2>2. In(Messages, e) = IF x = e THEN In(heard, e) \cup {Len(heard) + 1} ELSE In(heard, e)
    BY <1>1, <1>7, InAppend
  <2> QED BY <1>3, <1>5, <2>1, <2>2
<1> QED BY <1>4, <1>6, <1>7, EventsOf

\* An exit of the loop that persists the conversation persists what it heard.
LEMMA Carried ==
  ASSUME GraphInv, WordsInv, node = "agent", user_answer' = <<>>,
         \/ transcript' = Messages
         \/ transcript' = Append(Messages, Event("asked", pauses + 1)),
         UNCHANGED <<pauses, answered, papers, rejections>>
  PROVE  /\ Answers' /\ transcript' # <<>>
         /\ \A r \in (papers + 1)..rejections : In(transcript', Event("rejected", r)) # {}
<1>1. TextsOK /\ CountsOK /\ route # "research"
  BY TypeParts DEF GraphInv, StepsSoFar
<1>2. /\ Messages \in Seq(Events) /\ Messages # <<>>
      /\ \A k \in answered : \E i \in 1..Len(Messages) : In(Messages, Event("answered", k)) = {i}
      /\ \A k \in Nat \ answered : In(Messages, Event("answered", k)) = {}
  BY <1>1, AnswersReachIt
<1>3. \A r \in (papers + 1)..rejections : In(Messages, Event("rejected", r)) # {}
  BY <1>1, RejectionsReachIt
<1>4. /\ transcript' # <<>> /\ Len(Messages) \in Nat
      /\ 1..Len(Messages) \subseteq 1..Len(transcript')
  <2>1. Event("asked", pauses + 1) \in Events
    BY <1>1, EventsOf DEF CountsOK
  <2> QED BY <1>2, <2>1
<1>5. /\ \A k \in Nat : In(transcript', Event("answered", k)) = In(Messages, Event("answered", k))
      /\ \A k \in Nat : In(transcript', Event("rejected", k)) = In(Messages, Event("rejected", k))
  <2>1. CASE transcript' = Messages
    BY <2>1
  <2>2. CASE transcript' = Append(Messages, Event("asked", pauses + 1))
    <3>1. pauses + 1 \in Nat /\ Event("asked", pauses + 1) \in Events
      BY <1>1, EventsOf DEF CountsOK
    <3>2. \A e \in Events : Event("asked", pauses + 1) # e => In(transcript', e) = In(Messages, e)
      BY <1>2, <2>2, <3>1, InAppend
    <3> QED BY <3>1, <3>2, EventsOf
  <2> QED BY <2>1, <2>2
<1>6. Answers'
  <2>1. \A k \in answered : \E i \in 1..Len(transcript') : In(transcript', Event("answered", k)) = {i}
    BY <1>1, <1>2, <1>4, <1>5 DEF CountsOK
  <2>2. \A k \in Nat \ answered : In(transcript', Event("answered", k)) = {}
    BY <1>2, <1>5
  <2> QED BY <2>1, <2>2 DEF WordsInv, Answers
<1>7. \A r \in (papers + 1)..rejections : r \in Nat
  BY <1>1 DEF CountsOK
<1> QED BY <1>3, <1>4, <1>5, <1>6, <1>7

\* Away from the agent no answer is on its way.
LEMMA NothingPending ==
  ASSUME WordsInv, node \notin {"agent", "__end__"}
  PROVE  user_answer = <<>>
BY DEF WordsInv, Answers

LEMMA WordsStep == GraphInv /\ WordsInv /\ [Next]_vars => WordsInv'
<1> SUFFICES ASSUME GraphInv, WordsInv, [Next]_vars PROVE WordsInv' OBVIOUS
<1> USE DEF counters, history
<1>1. CountsOK /\ PlaceOK /\ TextsOK
  BY TypeParts DEF GraphInv
<1>2. ASSUME NEW text \in BOOLEAN, AgentAnswers(text) \/ AgentOutOfBudget(text)
      PROVE  WordsInv'
  <2>1. /\ node = "agent" /\ node' \in {"evaluator", "__end__"}
        /\ user_answer' = <<>> /\ transcript' = Messages
        /\ UNCHANGED <<pauses, answered, papers, rejections>>
        /\ feedback' \in {<<>>, feedback}
    BY <1>2 DEF AgentAnswers, AgentOutOfBudget, Runs, Carry, Goto
  <2> QED BY <2>1, Carried DEF WordsInv, Rejections, Feedback
<1>3. ASSUME AgentAsks \/ AgentFails
      PROVE  WordsInv'
  <2>1. /\ node = "agent" /\ node' \in {"evaluator", "ask_user"}
        /\ user_answer' = <<>>
        /\ \/ transcript' = Messages
           \/ transcript' = Append(Messages, Event("asked", pauses + 1))
        /\ UNCHANGED <<pauses, answered, papers, rejections>>
        /\ feedback' \in {<<Event("failed", 0)>>, feedback}
    BY <1>3 DEF AgentAsks, AgentFails, Runs, Carry, Goto
  <2> QED BY <2>1, Carried DEF WordsInv, Rejections, Feedback
<1>4. ASSUME Chat \/ ToResearch
      PROVE  WordsInv'
  <2>1. /\ transcript = <<>> /\ route = "none"
        /\ \/ node' = "__end__" /\ route' = "chat"
           \/ node' = "research" /\ route' = "research"
        /\ UNCHANGED <<transcript, user_answer, feedback, pauses, answered, papers, rejections>>
    BY <1>4 DEF Chat, ToResearch, Runs, Goto, Fresh
  <2>2. user_answer = <<>>
    BY <2>1 DEF WordsInv, Answers
  <2>3. Answers' /\ Feedback'
    BY <2>1, <2>2 DEF WordsInv, Answers, Feedback
  <2>4. Rejections'
    BY <2>1 DEF WordsInv, Rejections
  <2> QED BY <2>3, <2>4 DEF WordsInv
<1>5. ASSUME ResearchHandsOver
      PROVE  WordsInv'
  <2>1. /\ node = "research" /\ node' = "agent" /\ route' = "agent" /\ papers' = rejections
        /\ UNCHANGED <<transcript, user_answer, feedback, pauses, answered, rejections>>
    BY <1>5 DEF ResearchHandsOver, Runs
  <2>2. Answers' /\ Feedback'
    BY <2>1, NothingPending DEF WordsInv, Answers, Feedback
  <2>3. Rejections'
    BY <1>1, <2>1 DEF Rejections, CountsOK
  <2> QED BY <2>2, <2>3 DEF WordsInv
<1>6. ASSUME NEW unjudged \in BOOLEAN, ResearchFinishes(unjudged)
      PROVE  WordsInv'
  <2>1. /\ node = "research" /\ route = "research" /\ node' \in {"__end__", "evaluator"} /\ feedback' = <<>>
        /\ UNCHANGED <<route, transcript, user_answer, pauses, answered, papers, rejections>>
    BY <1>6 DEF ResearchFinishes, Runs, Goto, GraphInv, StepsSoFar
  <2> QED BY <2>1, NothingPending DEF WordsInv, Answers, Feedback, Rejections
<1>7. ASSUME Approve
      PROVE  WordsInv'
  <2>1. /\ node = "evaluator" /\ node' = "__end__" /\ rejections' = 0
        /\ UNCHANGED <<route, transcript, user_answer, feedback, pauses, answered, papers>>
    BY <1>7 DEF Approve, Runs, Goto, Verdict
  <2> QED BY <1>1, <2>1, NothingPending DEF WordsInv, Answers, Feedback, Rejections, CountsOK
<1>8. ASSUME Reject
      PROVE  WordsInv'
  <2>1. /\ node = "evaluator" /\ rejections' = rejections + 1
        /\ UNCHANGED <<route, transcript, user_answer, pauses, answered, papers>>
        /\ \/ node' = "__end__" /\ feedback' = feedback
           \/ /\ node' = IF route = "research" THEN "research" ELSE "agent"
              /\ feedback' = <<Event("rejected", rejections + 1)>>
    BY <1>8 DEF Reject, Runs, Goto, Verdict
  <2>2. route \in {"agent", "research"}
    BY <2>1 DEF GraphInv, StepsSoFar
  <2>3. Answers'
    BY <2>1, NothingPending DEF WordsInv, Answers
  <2>4. Feedback'
    <3>1. rejections + 1 \in Nat
      BY <1>1 DEF CountsOK
    <3> QED BY <2>1, <3>1 DEF WordsInv, Feedback
  <2>5. Rejections'
    <3>1. route = "agent" =>
            /\ transcript # <<>>
            /\ \A r \in (papers + 1)..rejections : In(transcript, Event("rejected", r)) # {}
      BY <2>1 DEF WordsInv, Rejections
    <3>2. \A r \in (papers + 1)..(rejections + 1) : r \in (papers + 1)..rejections \/ r = rejections + 1
      BY <1>1 DEF CountsOK
    <3> QED BY <2>1, <2>2, <3>1, <3>2 DEF Rejections
  <2> QED BY <2>3, <2>4, <2>5 DEF WordsInv
<1>9. ASSUME JudgeAsks \/ JudgeFails
      PROVE  WordsInv'
  <2>1. /\ node = "evaluator" /\ node' \in {"evaluator", "ask_user", "__end__"}
        /\ UNCHANGED <<route, transcript, user_answer, feedback, pauses, answered, papers, rejections>>
    BY <1>9 DEF JudgeAsks, JudgeFails, Runs, Goto
  <2> QED BY <2>1, NothingPending DEF WordsInv, Answers, Feedback, Rejections
<1>10. ASSUME NEW closing \in BOOLEAN, Answer(closing)
       PROVE  WordsInv'
  <2>1. /\ node = "ask_user" /\ pauses' = pauses + 1 /\ node' = asking_role
        /\ UNCHANGED <<route, transcript, feedback, rejections, papers>>
    BY <1>10 DEF Answer
  <2>2. user_answer = <<>> /\ asking_role \in {"agent", "evaluator"} /\ (asking_role = "agent" => route = "agent")
    BY <2>1, NothingPending DEF GraphInv, AskedFor
  <2>3. Feedback' /\ Rejections'
    BY <2>1, <2>2 DEF WordsInv, Feedback, Rejections
  <2>4. /\ answered \subseteq 1..pauses /\ pauses + 1 \in Nat \ answered /\ 1..pauses \subseteq 1..(pauses + 1)
        /\ \A k \in answered : \E i \in 1..Len(transcript) : In(transcript, Event("answered", k)) = {i}
        /\ \A k \in Nat \ answered : In(transcript, Event("answered", k)) = {}
    BY <1>1, <2>2 DEF WordsInv, Answers, CountsOK
  <2>5. CASE asking_role = "agent"
    <3>1. user_answer' = <<Event("answered", pauses')>> /\ answered' = answered \cup {pauses'}
      BY <1>10, <2>5 DEF Answer
    <3>2. transcript # <<>>
      BY <2>1, <2>2, <2>5 DEF WordsInv, Rejections
    <3>3. Answers'
      BY <2>1, <2>4, <2>5, <3>1, <3>2, <1>1 DEF Answers, CountsOK
    <3> QED BY <2>3, <3>3 DEF WordsInv
  <2>6. CASE asking_role # "agent"
    <3>1. UNCHANGED <<user_answer, answered>>
      BY <1>10, <2>6 DEF Answer
    <3>2. Answers'
      BY <2>1, <2>2, <2>4, <3>1 DEF Answers
    <3> QED BY <2>3, <3>2 DEF WordsInv
  <2> QED BY <2>5, <2>6
<1>11. ASSUME Salvaged
       PROVE  WordsInv'
  BY <1>11 DEF Salvaged, WordsInv, Answers, Feedback, Rejections
<1>12. CASE UNCHANGED vars
  BY <1>12 DEF vars, WordsInv, Answers, Feedback, Rejections
<1> QED BY <1>2, <1>3, <1>4, <1>5, <1>6, <1>7, <1>8, <1>9, <1>10, <1>11, <1>12
     DEF Next, AgentRuns, ResearchRuns, EvaluatorRuns

LEMMA WordsFollow == CountsOK /\ WordsInv => WordsAreHeard
<1> SUFFICES ASSUME CountsOK, WordsInv PROVE WordsAreHeard OBVIOUS
<1>1. RejectionsAreHeard
  BY DEF WordsInv, Rejections, RejectionsAreHeard, Times, In
<1>2. ASSUME NEW k \in 1..pauses
      PROVE  LET heard   == Times(Event("answered", k))
                 pending == user_answer = <<Event("answered", k)>>
             IN IF k \in answered
                  THEN \/ pending /\ heard = {} /\ node \in {"agent", "__end__"}
                       \/ ~pending /\ \E i \in heard : heard = {i}
                  ELSE ~pending /\ heard = {}
  <2>1. Times(Event("answered", k)) = In(transcript, Event("answered", k))
    BY DEF Times, In
  <2>2. k \in Nat /\ pauses \in Nat
    BY DEF CountsOK
  <2>3. CASE user_answer = <<Event("answered", k)>>
    <3>1. k = pauses
      BY <2>2, <2>3, EventsOf DEF WordsInv, Answers
    <3> QED BY <2>1, <2>3, <3>1 DEF WordsInv, Answers
  <2>4. CASE user_answer # <<Event("answered", k)>>
    <3>1. CASE k \in answered
      BY <2>1, <2>4, <3>1 DEF WordsInv, Answers
    <3>2. CASE k \notin answered
      BY <2>1, <2>2, <2>4, <3>2 DEF WordsInv, Answers
    <3> QED BY <3>1, <3>2
  <2> QED BY <2>3, <2>4
<1>3. AnswersAreHeardOnce
  BY <1>2 DEF AnswersAreHeardOnce
<1> QED BY <1>1, <1>3 DEF WordsAreHeard

\* However questions, rejections and failures follow each other, the answer a
\* person gave the agent is in its conversation once, and every rejection of a
\* candidate of its own is there before the next is judged; those of a document
\* it took over are not among them (nodes.py, agent; HandedOverIsHeard).
THEOREM WordsReachTheAgent == Spec => []WordsAreHeard
<1>1. Init => WordsInv
  BY DEF Init, WordsInv, Answers, Feedback, Rejections, In
<1>2. GraphInv => CountsOK
  BY TypeParts DEF GraphInv
<1>3. GraphInv /\ GraphInv' /\ WordsInv /\ [Next]_vars => WordsInv'
  BY WordsStep
<1> QED BY <1>1, <1>2, <1>3, Invariance, WordsFollow, PTL DEF Spec


-----------------------------------------------------------------------------
(* The judgment *)

(* A set of naturals that is not empty has a least element. *)
LEMMA NatMin ==
  ASSUME NEW K, K \subseteq Nat, K # {}
  PROVE  \E m \in K : \A k \in K : m <= k
<1> DEFINE R == StrictSubsetOrdering(Nat)
           T == {1..k : k \in K}
<1>1. IsWellFoundedOn(R, FiniteSubsetsOf(Nat))
  BY FS_StrictSubsetOrderingWellFounded
<1>2. T \subseteq FiniteSubsetsOf(Nat)
  BY FS_Interval DEF FiniteSubsetsOf
<1>3. T # {}
  OBVIOUS
<1>4. PICK x \in T : \A y \in T : ~(<<y, x>> \in R)
  <2> HIDE DEF R, T
  <2> QED BY <1>1, <1>2, <1>3, WFMin
<1>5. PICK m \in K : x = 1..m
  OBVIOUS
<1>6. ASSUME NEW k \in K, k < m PROVE FALSE
  <2>1. 1..k \in T /\ 1..k \subseteq 1..m /\ m \in 1..m /\ m \notin 1..k
    BY <1>6
  <2>2. <<1..k, 1..m>> \in R
    BY <2>1 DEF StrictSubsetOrdering
  <2> QED BY <1>4, <1>5, <2>1, <2>2
<1> QED BY <1>6

(* And a greatest one, if it is bounded. *)
LEMMA NatMax ==
  ASSUME NEW n \in Nat, NEW K, K \subseteq 1..n, K # {}
  PROVE  \E m \in K : \A k \in K : k <= m
<1> DEFINE D == {n - k : k \in K}
<1>1. D \subseteq Nat /\ D # {}
  <2>1. \A k \in K : n - k \in Nat
    OBVIOUS
  <2>2. PICK k \in K : TRUE
    OBVIOUS
  <2>3. n - k \in D
    OBVIOUS
  <2> QED BY <2>1, <2>3
<1>2. PICK d \in D : \A e \in D : d <= e
  <2> HIDE DEF D
  <2> QED BY <1>1, NatMin
<1>3. PICK m \in K : d = n - m
  OBVIOUS
<1>4. ASSUME NEW k \in K PROVE k <= m
  <2>1. n - m <= n - k
    BY <1>2, <1>3
  <2>2. n \in Int /\ m \in Int /\ k \in Int
    OBVIOUS
  <2> HIDE DEF D
  <2> QED BY <2>1, <2>2
<1> QED BY <1>4

(* A reply is a sequence of lines. *)
Said(reply) == reply \in Seq(LinesOf(reply))

(* What the first line of a kind is, if the reply has one. *)
LEMMA FirstIs ==
  ASSUME NEW reply, Said(reply), NEW kinds
  PROVE  \/ /\ First(reply, kinds) = 0
            /\ \A k \in DOMAIN reply : reply[k].is \notin kinds
         \/ /\ First(reply, kinds) \in 1..Len(reply)
            /\ reply[First(reply, kinds)].is \in kinds
            /\ \A k \in DOMAIN reply : reply[k].is \in kinds => First(reply, kinds) <= k
<1> DEFINE at == {k \in DOMAIN reply : reply[k].is \in kinds}
<1>1. DOMAIN reply = 1..Len(reply) /\ Len(reply) \in Nat
  BY LenProperties DEF Said
<1>2. CASE at = {}
  BY <1>2 DEF First
<1>3. CASE at # {}
  <2>1. \E k \in at : \A j \in at : k <= j
    <3>1. at \subseteq Nat
      BY <1>1
    <3> QED BY <1>3, <3>1, NatMin
  <2>2. First(reply, kinds) = CHOOSE k \in at : \A j \in at : k <= j
    BY <1>3 DEF First
  <2>3. First(reply, kinds) \in at /\ \A j \in at : First(reply, kinds) <= j
    <3> HIDE DEF at
    <3> QED BY <2>1, <2>2
  <2> QED BY <1>1, <2>3
<1> QED BY <1>2, <1>3

(* The lines of a reply from the k-th on. *)
LEMMA FromIs ==
  ASSUME NEW reply, Said(reply), NEW k \in 1..(Len(reply) + 1)
  PROVE  /\ From(reply, k) \in Seq(LinesOf(reply))
         /\ Len(From(reply, k)) = Len(reply) - k + 1
         /\ \A i \in 1..(Len(reply) - k + 1) : From(reply, k)[i] = reply[k + i - 1]
<1>1. Len(reply) \in Nat
  BY LenProperties DEF Said
<1>2. \A i \in k..Len(reply) : reply[i] \in LinesOf(reply)
  BY LenProperties DEF Said, LinesOf
<1> QED BY <1>1, <1>2, SubSeqProperties DEF Said, From

(* A part of a reply is a reply. *)
LEMMA Parts ==
  ASSUME NEW S, NEW part, part \in Seq(S)
  PROVE  Said(part) /\ LinesOf(part) \subseteq S
<1>1. DOMAIN part = 1..Len(part) /\ Len(part) \in Nat /\ \A k \in DOMAIN part : part[k] \in S
  BY LenProperties, ElementOfSeq
<1>2. LinesOf(part) \subseteq S
  BY <1>1 DEF LinesOf
<1>3. part \in Seq(LinesOf(part))
  BY <1>1, IsASeq DEF LinesOf
<1> QED BY <1>2, <1>3 DEF Said

(* _code_body gives lines of the reply, and stops at the next directive. *)
LEMMA BodyIs ==
  ASSUME NEW reply, Said(reply)
  PROVE  /\ CodeBody(reply) \in Seq(LinesOf(reply))
         /\ \A line \in LinesOf(CodeBody(reply)) : line.is \notin {"action", "final"}
<1> DEFINE at == First(reply, {"code"})
           rest == From(reply, at + 1)
           next == First(rest, {"action", "final"})
<1>1. CASE at = 0
  <2>1. CodeBody(reply) = <<>>
    BY <1>1 DEF CodeBody
  <2> QED BY <2>1, EmptySeq DEF LinesOf
<1>2. CASE at # 0
  <2>1. at \in 1..Len(reply) /\ Len(reply) \in Nat
    BY <1>2, FirstIs, LenProperties DEF Said
  <2>2. at + 1 \in 1..(Len(reply) + 1)
    BY <2>1
  <2>3. rest \in Seq(LinesOf(reply))
    <3> HIDE DEF at
    <3> QED BY <2>2, FromIs
  <2>4. Said(rest) /\ DOMAIN rest = 1..Len(rest) /\ Len(rest) \in Nat
    <3> HIDE DEF rest
    <3> QED BY <2>3, Parts, LenProperties
  <2>5. \/ /\ next = 0
           /\ \A k \in DOMAIN rest : rest[k].is \notin {"action", "final"}
        \/ /\ next \in 1..Len(rest)
           /\ \A k \in DOMAIN rest : rest[k].is \in {"action", "final"} => next <= k
    <3> HIDE DEF rest
    <3> QED BY <2>4, FirstIs
  <2>6. CASE next = 0
    <3>1. CodeBody(reply) = rest
      BY <1>2, <2>6 DEF CodeBody
    <3>2. \A k \in DOMAIN rest : rest[k].is \notin {"action", "final"}
      <4> HIDE DEF rest
      <4> QED BY <2>4, <2>5, <2>6
    <3> HIDE DEF rest
    <3> QED BY <3>1, <3>2, <2>3 DEF LinesOf
  <2>7. CASE next # 0
    <3>1. CodeBody(reply) = SubSeq(rest, 1, next - 1)
      BY <1>2, <2>7 DEF CodeBody
    <3> HIDE DEF rest, next
    <3>2. next \in 1..Len(rest) /\ \A k \in DOMAIN rest : rest[k].is \in {"action", "final"} => next <= k
      BY <2>5, <2>7
    <3>3. \A k \in 1..(next - 1) : rest[k] \in LinesOf(reply) /\ rest[k].is \notin {"action", "final"}
      BY <3>2, <2>3, <2>4, ElementOfSeq
    <3>4. /\ SubSeq(rest, 1, next - 1) \in Seq(LinesOf(reply))
          /\ Len(SubSeq(rest, 1, next - 1)) = next - 1
          /\ \A k \in 1..(next - 1) : SubSeq(rest, 1, next - 1)[k] = rest[k]
      BY <3>2, <3>3, <2>3, <2>4, SubSeqProperties
    <3>5. DOMAIN SubSeq(rest, 1, next - 1) = 1..(next - 1)
      BY <3>4, LenProperties
    <3> QED BY <3>1, <3>3, <3>4, <3>5 DEF LinesOf
  <2> QED BY <2>6, <2>7
<1> QED BY <1>1, <1>2

(* What _parse_worker_reply reads is in the reply. *)
LEMMA ReadIs ==
  ASSUME NEW reply, Said(reply)
  PROVE  LET read == ParseReply(reply) IN
         /\ read.body \in Seq(LinesOf(reply))
         /\ read.kind = "action" =>
              \A line \in LinesOf(read.body) : line.is \notin {"action", "final"}
<1> DEFINE at == First(reply, {"action", "final"})
<1>1. at = 0 \/ at \in 1..Len(reply)
  BY FirstIs
<1>2. Len(reply) \in Nat /\ reply \in Seq(LinesOf(reply))
  BY LenProperties DEF Said
<1>3. CASE at = 0
  BY <1>2, <1>3 DEF ParseReply, Read
<1>4. CASE at # 0 /\ reply[at].is = "action"
  BY <1>4, BodyIs DEF ParseReply, Read
<1>5. CASE at # 0 /\ reply[at].is # "action" /\ at = Len(reply)
  BY <1>2, <1>5 DEF ParseReply, Read
<1>6. CASE at # 0 /\ reply[at].is # "action" /\ at # Len(reply)
  <2>1. ParseReply(reply) = Read("final", "none", From(reply, at + 1))
    BY <1>6 DEF ParseReply
  <2>2. at + 1 \in 1..(Len(reply) + 1)
    BY <1>1, <1>2, <1>6
  <2>3. From(reply, at + 1) \in Seq(LinesOf(reply))
    <3> HIDE DEF at
    <3> QED BY <2>2, FromIs
  <2> HIDE DEF at
  <2> QED BY <2>1, <2>3 DEF Read
<1> QED BY <1>3, <1>4, <1>5, <1>6

(* A verdict approves on a line with a yes only, and rejects with a reason. *)
LEMMA VerdictIs ==
  ASSUME NEW reply, Said(reply), \A line \in LinesOf(reply) : line.yes \in BOOLEAN
  PROVE  LET v == ParseVerdict(reply) IN
         /\ v.approved \in BOOLEAN /\ v.blocked \in BOOLEAN
         /\ v.approved => \E line \in LinesOf(reply) : line.yes
         /\ v.reason = "none" => v.approved
<1>1. DOMAIN reply = 1..Len(reply) /\ Len(reply) \in Nat
  BY LenProperties DEF Said
<1>2. /\ Approval(reply).yes \in BOOLEAN
      /\ Approval(reply).yes => \E line \in LinesOf(reply) : line.yes
  <2>1. CASE reply = <<>>
    BY <2>1 DEF Approval
  <2>2. CASE reply # <<>>
    <3> DEFINE at == {k \in DOMAIN reply : reply[k].is = "approve" /\ reply[k].caps}
               line == IF at # {} THEN CHOOSE m \in at : \A j \in at : j <= m ELSE 1
    <3>1. line \in DOMAIN reply
      <4>1. CASE at = {}
        <5>1. Len(reply) # 0
          BY <2>2, EmptySeq DEF Said
        <5> QED BY <4>1, <5>1, <1>1
      <4>2. CASE at # {}
        <5>1. at \subseteq 1..Len(reply)
          BY <1>1
        <5>2. \E m \in at : \A j \in at : j <= m
          <6> HIDE DEF at
          <6> QED BY <4>2, <5>1, <1>1, NatMax
        <5>3. line \in at
          <6> HIDE DEF at
          <6> QED BY <4>2, <5>2
        <5> QED BY <5>3
      <4> QED BY <4>1, <4>2
    <3>2. Approval(reply).yes = reply[line].yes
      BY <2>2 DEF Approval
    <3>3. reply[line] \in LinesOf(reply)
      <4> HIDE DEF line
      <4> QED BY <3>1 DEF LinesOf
    <3> HIDE DEF line
    <3> QED BY <3>2, <3>3
  <2> QED BY <2>1, <2>2
<1>3. ParseVerdict(reply).blocked \in BOOLEAN
  <2> DEFINE block == First(reply, {"blocked"})
  <2>1. ParseVerdict(reply).blocked = (block # 0 /\ reply[block].yes)
    BY DEF ParseVerdict
  <2>2. block # 0 => block \in DOMAIN reply
    BY <1>1, FirstIs
  <2>3. block # 0 => reply[block].yes \in BOOLEAN
    <3> HIDE DEF block
    <3> QED BY <2>2 DEF LinesOf
  <2> HIDE DEF block
  <2> QED BY <2>1, <2>3
<1>4. /\ ParseVerdict(reply).approved = Approval(reply).yes
      /\ ParseVerdict(reply).reason =
           IF Approval(reply).reason THEN "given" ELSE IF Approval(reply).yes THEN "none" ELSE "no verdict"
  BY DEF ParseVerdict
<1> QED BY <1>2, <1>3, <1>4

(***************************************************************************)
(* Courts: what a judgment keeps true.  A criterion is met exactly while a *)
(* verdict that approves stands; it is blocked only by a verdict that says *)
(* so; and it counts as acted on only while an attempt has a record.       *)
(***************************************************************************)
Criteria ==
  \A c \in DOMAIN checklist :
    LET s == checklist[c].status
    IN /\ "status" \in DOMAIN checklist[c]
       /\ s = "met" <=> verdict.approved
       /\ s = "blocked" => verdict.blocked /\ ~verdict.approved
       /\ s = "seen" => phase # "over" /\ record # <<>>

(* An approval ends the run, and somewhere the judge said yes. *)
Verdicts ==
  /\ verdict.approved \in BOOLEAN
  /\ verdict.approved => phase = "over" /\ \E line \in spoken : line.yes
  /\ verdict.reason = "none" => verdict = NoVerdict \/ verdict.approved

(* The exchanges of a judgment are counted, and what they put out was said. *)
Exchanges ==
  /\ loop.n \in Nat /\ loop.dead \in Nat /\ requests \in Nat
  /\ loop.n <= MaxIter /\ loop.dead <= DEAD_REPLIES /\ requests <= MaxIter + 1
  /\ phase = "judge" => requests = loop.n /\ loop.dead < DEAD_REPLIES
  /\ phase = "now" => requests <= MaxIter
  /\ Said(loop.output) /\ LinesOf(loop.output) \subseteq spoken
  /\ \A line \in spoken : line.yes \in BOOLEAN

(* What the judge ran is a tool, with a body that stops at the next directive. *)
Ran ==
  \A k \in DOMAIN loop.ran :
    /\ loop.ran[k].tool \in Tools
    /\ \A line \in LinesOf(loop.ran[k].body) : line.is \notin {"action", "final"}

(* A turn that is only a chat is over, with no criteria and no verdict. *)
Ways ==
  /\ phase \in {"start", "work", "judge", "now", "over"}
  /\ phase = "start" => verdict = NoVerdict
  /\ way = "chat" => phase = "over" /\ checklist = <<>> /\ verdict = NoVerdict

Courts == Criteria /\ Verdicts /\ Exchanges /\ Ran /\ Ways

(* Courts is stronger than what the run checks. *)
LEMMA CourtsImply == Courts => JudgeInv
BY DEF Courts, Criteria, Verdicts, Exchanges, Ran, Ways, JudgeInv

(* At the start nobody has been judged. *)
LEMMA CourtsInit == JudgeInit => Courts
<1> SUFFICES ASSUME JudgeInit PROVE Courts
  OBVIOUS
<1>1. way # "chat" /\ checklist = <<>> /\ DOMAIN checklist = {} /\ verdict = NoVerdict
  BY DEF JudgeInit
<1>2. loop.n = 0 /\ loop.dead = 0 /\ loop.output = <<>> /\ loop.ran = <<>> /\ requests = 0 /\ spoken = {}
  BY DEF JudgeInit, NoExchanges, Loop
<1>3. Said(<<>>) /\ LinesOf(<<>>) = {} /\ DOMAIN <<>> = {}
  BY EmptySeq DEF Said, LinesOf
<1>4. Criteria /\ Verdicts /\ Ran /\ Ways
  BY <1>1, <1>2, <1>3 DEF Criteria, Verdicts, Ran, Ways, NoVerdict, JudgeInit
<1>5. Exchanges
  BY <1>1, <1>2, <1>3, JudgeAssumption DEF Exchanges, JudgeInit
<1> QED BY <1>4, <1>5 DEF Courts

(* A judgment that ends with what the judge has said. *)
LEMMA Concluded ==
  ASSUME NEW reply, Courts, Conclude(reply), way # "chat", phase # "start",
         Said(reply), LinesOf(reply) \subseteq spoken',
         \A line \in spoken' : line.yes \in BOOLEAN
  PROVE  Criteria' /\ Verdicts' /\ Ways' /\ phase' \in {"work", "over"}
<1> DEFINE v == ParseVerdict(reply)
           again == ~v.approved /\ refused < MAX_REJECTIONS
<1>1. /\ v.approved \in BOOLEAN /\ v.blocked \in BOOLEAN
      /\ v.approved => \E line \in LinesOf(reply) : line.yes
      /\ v.reason = "none" => v.approved
  BY VerdictIs
<1>2. /\ verdict' = v /\ checklist' = Settle(checklist, v)
      /\ phase' = IF again THEN "work" ELSE "over"
      /\ way' = way
  BY DEF Conclude
<1> HIDE DEF v
<1>3. \A c \in DOMAIN checklist : "status" \in DOMAIN checklist[c]
  BY DEF Courts, Criteria
<1>4. /\ DOMAIN checklist' = DOMAIN checklist
      /\ \A c \in DOMAIN checklist :
           /\ "status" \in DOMAIN checklist'[c]
           /\ checklist'[c].status = IF v.approved THEN "met" ELSE IF v.blocked THEN "blocked" ELSE "pending"
  BY <1>2, <1>3 DEF Settle
<1>5. Criteria'
  BY <1>1, <1>2, <1>4 DEF Criteria
<1>6. Verdicts'
  BY <1>1, <1>2 DEF Verdicts
<1>7. Ways'
  BY <1>1, <1>2 DEF Ways
<1> QED BY <1>2, <1>5, <1>6, <1>7

(* The exchanges end, with a verdict or with a request for one. *)
LEMMA DoneIs ==
  ASSUME NEW reply, Courts, Done(reply), phase = "judge",
         Said(reply), LinesOf(reply) \subseteq spoken', spoken \subseteq spoken',
         \A line \in spoken' : line.yes \in BOOLEAN
  PROVE  Criteria' /\ Verdicts' /\ Ways' /\ phase' \in {"work", "over", "now"}
<1>1. way # "chat" /\ phase # "start"
  BY DEF Courts, Ways
<1>2. CASE Says(reply)
  BY <1>1, <1>2, Concluded DEF Done
<1>3. CASE ~Says(reply)
  <2>1. phase' = "now" /\ UNCHANGED <<way, checklist, record, verdict>>
    BY <1>3 DEF Done
  <2>2. ~verdict.approved
    BY DEF Courts, Verdicts
  <2>3. Criteria' /\ Verdicts' /\ Ways'
    BY <1>1, <2>1, <2>2 DEF Courts, Criteria, Verdicts, Ways
  <2> QED BY <2>1, <2>3
<1> QED BY <1>2, <1>3

(* Another exchange of the judgment: nothing of the run changes. *)
LEMMA StaysIs ==
  ASSUME Courts, Stays, phase = "judge", spoken \subseteq spoken'
  PROVE  Criteria' /\ Verdicts' /\ Ways' /\ phase' = "judge"
BY DEF Courts, Criteria, Verdicts, Ways, Stays

(* What a request to the judge adds. *)
LEMMA HearsIs ==
  ASSUME NEW reply \in JudgeReplies, Courts, Hears(reply)
  PROVE  /\ phase = "judge" /\ loop.n < MaxIter /\ loop.n \in Nat
         /\ Said(reply) /\ LinesOf(reply) \subseteq spoken' /\ spoken \subseteq spoken'
         /\ \A line \in spoken' : line.yes \in BOOLEAN
         /\ Said(loop.output) /\ LinesOf(loop.output) \subseteq spoken'
         /\ requests = loop.n /\ requests' = loop.n + 1
         /\ loop.dead \in Nat /\ loop.dead < DEAD_REPLIES
<1>1. /\ phase = "judge" /\ loop.n < MaxIter
      /\ spoken' = spoken \cup LinesOf(reply) /\ requests' = requests + 1
  BY DEF Hears
<1>2. Said(reply) /\ \A line \in LinesOf(reply) : line.yes \in BOOLEAN
  BY JudgeAssumption DEF Said
<1> QED BY <1>1, <1>2 DEF Courts, Exchanges

LEMMA FinalKeeps ==
  ASSUME NEW reply \in JudgeReplies, Courts, JudgeFinal(reply) PROVE Courts'
<1> DEFINE read == ParseReply(reply)
<1>1. /\ Hears(reply) /\ Done(read.body)
      /\ loop' = Loop(loop.n + 1, loop.dead, read.body, <<>>)
  BY DEF JudgeFinal
<1>2. read.body \in Seq(LinesOf(reply)) /\ Said(reply)
  BY <1>1, HearsIs, ReadIs
<1> HIDE DEF read
<1>3. Said(read.body) /\ LinesOf(read.body) \subseteq spoken'
  BY <1>1, <1>2, HearsIs, Parts
<1>4. Criteria' /\ Verdicts' /\ Ways' /\ phase' \in {"work", "over", "now"}
  BY <1>1, <1>3, HearsIs, DoneIs
<1>5. /\ loop'.n = loop.n + 1 /\ loop'.dead = loop.dead /\ loop'.output = read.body
      /\ loop'.ran = <<>>
  BY <1>1 DEF Loop
<1>6. Exchanges'
  BY <1>1, <1>3, <1>4, <1>5, HearsIs, JudgeAssumption DEF Exchanges
<1>7. Ran'
  BY <1>5, EmptySeq DEF Ran
<1> QED BY <1>4, <1>6, <1>7 DEF Courts

LEMMA MumblesKeeps ==
  ASSUME NEW reply \in JudgeReplies, Courts, JudgeMumbles(reply) PROVE Courts'
<1>1. /\ Hears(reply)
      /\ loop' = Loop(loop.n + 1, loop.dead + 1, reply, <<>>)
      /\ IF loop'.dead >= DEAD_REPLIES \/ loop'.n = MaxIter THEN Done(reply) ELSE Stays
  BY DEF JudgeMumbles
<1>2. /\ loop'.n = loop.n + 1 /\ loop'.dead = loop.dead + 1 /\ loop'.output = reply
      /\ loop'.ran = <<>>
  BY <1>1 DEF Loop
<1>3. /\ Criteria' /\ Verdicts' /\ Ways' /\ phase' \in {"work", "over", "now", "judge"}
      /\ phase' = "judge" => loop'.dead < DEAD_REPLIES
  <2>1. CASE loop'.dead >= DEAD_REPLIES \/ loop'.n = MaxIter
    BY <1>1, <2>1, HearsIs, DoneIs
  <2>2. CASE ~(loop'.dead >= DEAD_REPLIES \/ loop'.n = MaxIter)
    <3>1. loop'.dead < DEAD_REPLIES
      BY <1>1, <1>2, <2>2, HearsIs, JudgeAssumption
    <3> QED BY <1>1, <2>2, <3>1, HearsIs, StaysIs
  <2> QED BY <2>1, <2>2
<1>4. Exchanges'
  BY <1>1, <1>2, <1>3, HearsIs, JudgeAssumption DEF Exchanges
<1>5. Ran'
  BY <1>2, EmptySeq DEF Ran
<1> QED BY <1>3, <1>4, <1>5 DEF Courts

LEMMA ActsKeeps ==
  ASSUME NEW reply \in JudgeReplies, Courts, JudgeActs(reply) PROVE Courts'
<1> DEFINE read == ParseReply(reply)
<1>1. /\ Hears(reply) /\ read.kind = "action"
      /\ loop' = Loop(loop.n + 1, 0, loop.output, IF Problem(read) THEN <<>> ELSE <<read>>)
      /\ IF loop'.n = MaxIter THEN Done(loop.output) ELSE Stays
  BY DEF JudgeActs
<1>2. \A line \in LinesOf(read.body) : line.is \notin {"action", "final"}
  BY <1>1, HearsIs, ReadIs
<1> HIDE DEF read
<1>3. /\ loop'.n = loop.n + 1 /\ loop'.dead = 0 /\ loop'.output = loop.output
      /\ loop'.ran = IF Problem(read) THEN <<>> ELSE <<read>>
  BY <1>1 DEF Loop
<1>4. Criteria' /\ Verdicts' /\ Ways' /\ phase' \in {"work", "over", "now", "judge"}
  <2>1. CASE loop'.n = MaxIter
    BY <1>1, <2>1, HearsIs, DoneIs
  <2>2. CASE loop'.n # MaxIter
    BY <1>1, <2>2, HearsIs, StaysIs
  <2> QED BY <2>1, <2>2
<1>5. Exchanges'
  BY <1>1, <1>3, <1>4, HearsIs, JudgeAssumption DEF Exchanges
<1>6. Ran'
  <2>1. CASE Problem(read)
    BY <1>3, <2>1, EmptySeq DEF Ran
  <2>2. CASE ~Problem(read)
    <3>1. loop'.ran = <<read>> /\ DOMAIN loop'.ran = {1} /\ loop'.ran[1] = read
      BY <1>3, <2>2
    <3>2. read.tool \in Tools
      BY <2>2 DEF Problem
    <3> QED BY <1>2, <3>1, <3>2 DEF Ran
  <2> QED BY <2>1, <2>2
<1> QED BY <1>4, <1>5, <1>6 DEF Courts

LEMMA SpentKeeps == ASSUME Courts, JudgeSpent PROVE Courts'
<1>1. phase = "judge" /\ Done(loop.output) /\ UNCHANGED <<loop, spoken, requests>>
  BY DEF JudgeSpent
<1>2. /\ Said(loop.output) /\ LinesOf(loop.output) \subseteq spoken
      /\ \A line \in spoken : line.yes \in BOOLEAN
  BY DEF Courts, Exchanges
<1>3. Criteria' /\ Verdicts' /\ Ways' /\ phase' \in {"work", "over", "now"}
  BY <1>1, <1>2, DoneIs
<1>4. Exchanges' /\ Ran'
  BY <1>1, <1>3, JudgeAssumption DEF Courts, Exchanges, Ran
<1> QED BY <1>3, <1>4 DEF Courts

LEMMA VerdictNowKeeps ==
  ASSUME NEW reply \in LastReplies, Courts, VerdictNow(reply) PROVE Courts'
<1> DEFINE read == ParseReply(reply)
           last == IF read.kind = "final" THEN read.body
                   ELSE IF Says(reply) THEN reply ELSE loop.output
<1>1. /\ phase = "now" /\ Conclude(last)
      /\ spoken' = spoken \cup LinesOf(reply) /\ requests' = requests + 1 /\ UNCHANGED loop
  BY DEF VerdictNow
<1>2. Said(reply) /\ \A line \in LinesOf(reply) : line.yes \in BOOLEAN
  BY JudgeAssumption DEF Said
<1>3. read.body \in Seq(LinesOf(reply))
  BY <1>2, ReadIs
<1>4. Said(read.body) /\ LinesOf(read.body) \subseteq LinesOf(reply)
  <2> HIDE DEF read
  <2> QED BY <1>3, Parts
<1>5. /\ Said(loop.output) /\ LinesOf(loop.output) \subseteq spoken
      /\ \A line \in spoken : line.yes \in BOOLEAN
      /\ way # "chat" /\ phase # "start"
  BY <1>1 DEF Courts, Exchanges, Ways
<1>6. Said(last) /\ LinesOf(last) \subseteq spoken'
  <2> HIDE DEF read
  <2> QED BY <1>1, <1>2, <1>4, <1>5
<1>7. \A line \in spoken' : line.yes \in BOOLEAN
  BY <1>1, <1>2, <1>5
<1> HIDE DEF last, read
<1>8. Criteria' /\ Verdicts' /\ Ways' /\ phase' \in {"work", "over"}
  BY <1>1, <1>5, <1>6, <1>7, Concluded
<1>9. Exchanges'
  BY <1>1, <1>7, <1>8, JudgeAssumption DEF Courts, Exchanges
<1>10. Ran'
  BY <1>1 DEF Courts, Ran
<1> QED BY <1>8, <1>9, <1>10 DEF Courts

(* Criteria written anew are pending, all of them. *)
LEMMA NewIs ==
  ASSUME NEW criteria
  PROVE  \A c \in DOMAIN NewChecklist(criteria) :
           /\ "status" \in DOMAIN NewChecklist(criteria)[c]
           /\ NewChecklist(criteria)[c].status = "pending"
BY DEF NewChecklist

LEMMA RubricKeeps ==
  ASSUME NEW reply, NEW replied \in BOOLEAN, Courts, Rubric(reply, replied) PROVE Courts'
<1> DEFINE criteria == IF reply.failed THEN <<>> ELSE ParseRubric(reply.bullets)
           chat == ~reply.failed /\ criteria = <<>> /\ reply.noTask /\ replied
<1>1. /\ phase = "start"
      /\ checklist' = NewChecklist(criteria)
      /\ phase' = IF chat THEN "over" ELSE "work"
      /\ way' = IF chat THEN "chat"
                ELSE IF criteria # <<>> /\ reply.kind = "research" /\ way # "phone"
                THEN "research" ELSE "agent"
      /\ UNCHANGED <<record, loop, verdict, spoken, requests, refused>>
  BY DEF Rubric, Judged
<1>2. verdict = NoVerdict
  BY <1>1 DEF Courts, Ways
<1>3. chat => checklist' = <<>>
  <2>1. chat => criteria = <<>>
    OBVIOUS
  <2>2. DOMAIN <<>> = {}
    OBVIOUS
  <2>3. NewChecklist(<<>>) = <<>>
    BY <2>2 DEF NewChecklist
  <2> HIDE DEF chat, criteria
  <2> QED BY <1>1, <2>1, <2>3
<1> HIDE DEF chat, criteria
<1>4. Criteria'
  BY <1>1, <1>2, NewIs DEF Criteria, NoVerdict
<1>5. Verdicts'
  BY <1>1, <1>2 DEF Verdicts, NoVerdict
<1>6. Ways'
  BY <1>1, <1>2, <1>3 DEF Ways
<1>7. Exchanges' /\ Ran'
  BY <1>1 DEF Courts, Exchanges, Ran
<1> QED BY <1>4, <1>5, <1>6, <1>7 DEF Courts

LEMMA RedirectKeeps ==
  ASSUME NEW reply, Courts, Redirect(reply) PROVE Courts'
<1> DEFINE criteria == IF reply.failed THEN <<>> ELSE ParseRubric(reply.bullets)
<1>1. /\ phase = "work" /\ checklist' = NewChecklist(criteria)
      /\ UNCHANGED <<phase, way, loop, verdict, spoken, requests, refused>>
  BY DEF Redirect, Judged
<1> HIDE DEF criteria
<1>2. ~verdict.approved /\ way # "chat"
  BY <1>1 DEF Courts, Verdicts, Ways
<1>3. Criteria'
  BY <1>1, <1>2, NewIs DEF Criteria
<1>4. Verdicts' /\ Ways' /\ Exchanges' /\ Ran'
  BY <1>1, <1>2 DEF Courts, Verdicts, Ways, Exchanges, Ran
<1> QED BY <1>3, <1>4 DEF Courts

LEMMA ActKeeps ==
  ASSUME NEW line, Courts, Act(line) PROVE Courts'
<1>1. /\ phase = "work" /\ record' = Append(record, line)
      /\ checklist' = NoteEvidence(checklist, record')
      /\ UNCHANGED <<phase, way, loop, verdict, spoken, requests, refused>>
  BY DEF Act, Judged
<1>2. record' # <<>>
  BY <1>1
<1>3. ~verdict.approved /\ way # "chat"
  BY <1>1 DEF Courts, Verdicts, Ways
<1>4. /\ DOMAIN checklist' = DOMAIN checklist
      /\ \A c \in DOMAIN checklist :
           \/ checklist'[c] = checklist[c]
           \/ checklist'[c] = [checklist[c] EXCEPT !.status = "seen"]
  BY <1>1 DEF NoteEvidence
<1>5. \A c \in DOMAIN checklist :
        /\ "status" \in DOMAIN checklist'[c]
        /\ checklist'[c].status = checklist[c].status \/ checklist'[c].status = "seen"
  BY <1>4 DEF Courts, Criteria
<1>6. Criteria'
  BY <1>1, <1>2, <1>3, <1>4, <1>5 DEF Courts, Criteria
<1>7. Verdicts' /\ Ways' /\ Exchanges' /\ Ran'
  BY <1>1, <1>3 DEF Courts, Verdicts, Ways, Exchanges, Ran
<1> QED BY <1>6, <1>7 DEF Courts

LEMMA HandOverKeeps == ASSUME Courts, HandOver PROVE Courts'
<1>1. /\ phase = "work" /\ phase' = "judge"
      /\ loop' = NoExchanges /\ spoken' = {} /\ requests' = 0
      /\ UNCHANGED <<way, checklist, record, verdict, refused>>
  BY DEF HandOver
<1>2. loop'.n = 0 /\ loop'.dead = 0 /\ loop'.output = <<>> /\ loop'.ran = <<>>
  BY <1>1 DEF NoExchanges, Loop
<1>3. Said(<<>>) /\ LinesOf(<<>>) = {} /\ DOMAIN <<>> = {}
  BY EmptySeq DEF Said, LinesOf
<1>4. ~verdict.approved /\ way # "chat"
  BY <1>1 DEF Courts, Verdicts, Ways
<1>5. Exchanges'
  BY <1>1, <1>2, <1>3, JudgeAssumption DEF Exchanges
<1>6. Ran'
  BY <1>2, <1>3 DEF Ran
<1>7. Criteria' /\ Verdicts' /\ Ways'
  BY <1>1, <1>4 DEF Courts, Criteria, Verdicts, Ways
<1> QED BY <1>5, <1>6, <1>7 DEF Courts

(***************************************************************************)
(* For every rubric, every reply of the judge and every bound: a criterion *)
(* is met only by a verdict that approved, a verdict approves only where   *)
(* the judge said yes and only once, and a judgment makes at most one      *)
(* request more than its exchanges (nodes.py, evaluator).                  *)
(***************************************************************************)
THEOREM JudgmentsHold == JudgeSpec => []JudgeInv
<1>1. Courts /\ [JudgeNext]_judgeVars => Courts'
  <2> SUFFICES ASSUME Courts, [JudgeNext]_judgeVars PROVE Courts'
    OBVIOUS
  <2>1. CASE UNCHANGED judgeVars
    BY <2>1 DEF judgeVars, Courts, Criteria, Verdicts, Exchanges, Ran, Ways
  <2>2. ASSUME NEW reply \in Rubrics, Redirect(reply) PROVE Courts'
    BY <2>2, RedirectKeeps
  <2>3. ASSUME NEW reply \in Rubrics, NEW replied \in BOOLEAN, Rubric(reply, replied) PROVE Courts'
    BY <2>3, RubricKeeps
  <2>4. ASSUME NEW line \in Records, Act(line) PROVE Courts'
    BY <2>4, ActKeeps
  <2>5. ASSUME NEW reply \in JudgeReplies, JudgeFinal(reply) \/ JudgeMumbles(reply) \/ JudgeActs(reply)
        PROVE Courts'
    BY <2>5, FinalKeeps, MumblesKeeps, ActsKeeps
  <2>6. ASSUME NEW reply \in LastReplies, VerdictNow(reply) PROVE Courts'
    BY <2>6, VerdictNowKeeps
  <2> QED BY <2>1, <2>2, <2>3, <2>4, <2>5, <2>6, HandOverKeeps, SpentKeeps DEF JudgeNext
<1> QED BY <1>1, CourtsInit, CourtsImply, PTL DEF JudgeSpec

-----------------------------------------------------------------------------
(* The research workflow *)

(* Bodies, the facts of their ledgers, and the stages of a section. *)
Bodies == [ver : Nat, code : Nat, open : BOOLEAN]
Facts == Sections \X Nat
InSections == {"section", "gather", "write", "check", "decide", "compare", "save"}

(* The types of what the workflow holds, and of what is on file. *)
Papers ==
  /\ stage \in InSections \cup {"outline", "finish", "evaluator", "again", "rewrite", "agent", "__end__"}
  /\ sec \in 1..(N + 1)
  /\ paid \in Nat
  /\ tier \in {"full", "lean", "bare"}
  /\ bodies \in [Sections -> Bodies] /\ before \in [Sections -> Bodies]
  /\ files.section \in [Sections -> Bodies] /\ DOMAIN files = {"outline", "section", "ledger"}
  /\ DOMAIN draft = {"body", "led", "judged", "second", "led2"}
  /\ draft.body \in Bodies /\ draft.second \in Bodies
  /\ draft.judged \in Nat /\ draft.led \in BOOLEAN /\ draft.led2 \in BOOLEAN
  /\ ruling.rejections \in Nat /\ ruling.is \in {"none", "approved", "rejected", "no verdict"}
  /\ ledger \in Seq({Founding} \cup Facts) /\ files.ledger \in Seq({Founding} \cup Facts)
  /\ Len(ledger) <= LEDGER_MAX /\ Len(files.ledger) <= LEDGER_MAX

(* Until the document is judged there is nothing to compare it with, and
   the facts in the ledger are of sections before this one. *)
AtSection ==
  /\ stage \in InSections => before = Blank
  /\ stage = "outline" => before = Blank /\ ledger = <<Founding>> /\ sec = 1
  /\ stage \in {"gather", "write", "check", "decide", "compare", "save"} => sec <= N
  /\ stage \in InSections => \A f \in ToSet(ledger) : f[1] < sec
  /\ stage \in {"outline", "gather", "write", "finish", "evaluator", "again", "rewrite"} => ~draft.led

(* A section is begun, and a document judged, with a call left only; a
   revision follows a verdict. *)
Calls ==
  /\ stage = "outline" /\ ruling.is = "none" => paid = 0
  /\ stage \in {"gather", "write", "evaluator"} => paid < MaxCalls
  /\ stage \in {"again", "rewrite"} => ruling.is # "none"

(* The facts of a ledger are of accepted bodies, the outline's own first:
   of the one in hand, and of the one on file unless it was never written. *)
Sound(led) ==
  /\ ToSet(led) \subseteq accepted
  /\ Founding \in accepted => led # <<>> /\ led[1] = Founding

Ledgers ==
  /\ Sound(ledger)
  /\ stage \notin {"outline", "agent"} => files.ledger = <<>> \/ Sound(files.ledger)
  /\ stage = "section" /\ draft.led => ledger # <<>> /\ Last(ledger) = <<sec - 1, draft.body.ver>>

(* The sections to rewrite have a body that was read back. *)
Todo ==
  /\ todo \in Seq(Sections)
  /\ stage = "rewrite" => \A k \in DOMAIN todo : bodies[todo[k]] # None

Drafts == Papers /\ AtSection /\ Calls /\ Ledgers /\ Todo /\ OverspendIsOneAttempt /\ RevisionKeeps

\* Facts with the outline's own.
F == {Founding} \cup Facts

(* The elements of a ledger are its facts. *)
LEMMA ToSetIs ==
  ASSUME NEW S, NEW led \in Seq(S)
  PROVE  /\ Len(led) \in Nat /\ DOMAIN led = 1..Len(led)
         /\ \A k \in 1..Len(led) : led[k] \in S /\ led[k] \in ToSet(led)
         /\ \A x \in ToSet(led) : \E k \in 1..Len(led) : x = led[k]
         /\ ToSet(led) \subseteq S
BY LenProperties, ElementOfSeq DEF ToSet

(* A fact taken from the middle: the first and the last stay. *)
LEMMA RemoveIs ==
  ASSUME NEW S, NEW led \in Seq(S), NEW j \in 2..Len(led), j < Len(led)
  PROVE  /\ RemoveAt(led, j) \in Seq(S)
         /\ Len(RemoveAt(led, j)) = Len(led) - 1
         /\ RemoveAt(led, j)[1] = led[1]
         /\ RemoveAt(led, j)[Len(led) - 1] = led[Len(led)]
         /\ ToSet(RemoveAt(led, j)) \subseteq ToSet(led)
<1> DEFINE a == SubSeq(led, 1, j - 1)
           b == SubSeq(led, j + 1, Len(led))
<1>1. Len(led) \in Nat /\ \A k \in 1..Len(led) : led[k] \in ToSet(led)
  BY ToSetIs
<1>2. \A k \in 1..Len(led) : led[k] \in S
  BY ToSetIs
<1>3. /\ a \in Seq(S) /\ Len(a) = j - 1 /\ \A k \in 1..(j - 1) : a[k] = led[k]
  BY <1>1, <1>2, SubSeqProperties
<1>4. /\ b \in Seq(S) /\ Len(b) = Len(led) - j
      /\ \A k \in 1..(Len(led) - j) : b[k] = led[j + k]
  BY <1>1, <1>2, SubSeqProperties
<1> HIDE DEF a, b
<1>5. /\ a \o b \in Seq(S) /\ Len(a \o b) = Len(a) + Len(b)
      /\ \A k \in 1..(Len(a) + Len(b)) : (a \o b)[k] = IF k <= Len(a) THEN a[k] ELSE b[k - Len(a)]
  BY <1>3, <1>4, ConcatProperties
<1>6. RemoveAt(led, j) = a \o b
  BY DEF RemoveAt, a, b
<1>7. Len(a \o b) = Len(led) - 1
  BY <1>1, <1>3, <1>4, <1>5
<1>8. (a \o b)[1] = led[1]
  BY <1>1, <1>3, <1>4, <1>5
<1>9. (a \o b)[Len(led) - 1] = led[Len(led)]
  <2>1. (a \o b)[Len(led) - 1] = b[Len(led) - 1 - (j - 1)]
    BY <1>1, <1>3, <1>4, <1>5
  <2>2. b[Len(led) - j] = led[j + (Len(led) - j)]
    BY <1>1, <1>4
  <2>3. Len(led) - 1 - (j - 1) = Len(led) - j /\ j + (Len(led) - j) = Len(led)
    BY <1>1
  <2> QED BY <2>1, <2>2, <2>3
<1>10. ASSUME NEW k \in 1..Len(a \o b) PROVE (a \o b)[k] \in ToSet(led)
  <2>1. CASE k <= Len(a)
    BY <1>1, <1>3, <1>5, <2>1
  <2>2. CASE k > Len(a)
    <3>1. (a \o b)[k] = b[k - Len(a)] /\ k - Len(a) \in 1..(Len(led) - j)
      BY <1>1, <1>3, <1>4, <1>5, <2>2
    <3>2. b[k - Len(a)] = led[j + (k - Len(a))]
      BY <1>4, <3>1
    <3>3. j + (k - Len(a)) \in 1..Len(led)
      BY <1>1, <1>3, <3>1
    <3> QED BY <1>1, <3>1, <3>2, <3>3
  <2> QED BY <1>1, <1>3, <2>1, <2>2
<1>11. ToSet(a \o b) \subseteq ToSet(led)
  <2>1. DOMAIN (a \o b) = 1..Len(a \o b)
    BY <1>5, LenProperties
  <2> QED BY <1>10, <2>1 DEF ToSet
<1> QED BY <1>5, <1>6, <1>7, <1>8, <1>9, <1>11

(* The ledger with the facts of one more body. *)
LEMMA MergedIs ==
  ASSUME NEW led \in BOOLEAN, NEW fact \in F, ledger \in Seq(F), Len(ledger) <= LEDGER_MAX
  PROVE  /\ Merged(led, fact) \in Seq(F)
         /\ Len(Merged(led, fact)) <= LEDGER_MAX
         /\ ToSet(Merged(led, fact)) \subseteq ToSet(ledger) \cup (IF led THEN {fact} ELSE {})
         /\ ledger # <<>> => Merged(led, fact) # <<>> /\ Merged(led, fact)[1] = ledger[1]
         /\ led /\ fact \notin ToSet(ledger) =>
              Merged(led, fact) # <<>> /\ Last(Merged(led, fact)) = fact
<1>1. Len(ledger) \in Nat /\ LEDGER_MAX \in Nat \ {0, 1}
  BY ToSetIs, ResearchAssumption
<1>2. CASE ~led \/ fact \in ToSet(ledger)
  BY <1>2 DEF Merged
<1>3. CASE led /\ fact \notin ToSet(ledger)
  <2> DEFINE more == Append(ledger, fact)
  <2>1. /\ more \in Seq(F) /\ more # <<>> /\ Len(more) = Len(ledger) + 1
        /\ \A k \in 1..Len(ledger) : more[k] = ledger[k]
        /\ more[Len(ledger) + 1] = fact
    BY AppendProperties
  <2>2. ToSet(more) \subseteq ToSet(ledger) \cup {fact}
    <3> HIDE DEF more
    <3>1. \A k \in 1..Len(more) : more[k] \in ToSet(ledger) \cup {fact}
      BY <1>1, <2>1, ToSetIs
    <3> QED BY <2>1, <3>1, ToSetIs
  <2>3. Merged(led, fact) = Trimmed(more)
    BY <1>3 DEF Merged
  <2> HIDE DEF more
  <2>4. ledger # <<>> => Len(ledger) > 0
    BY <1>1, EmptySeq
  <2>5. CASE Len(more) <= LEDGER_MAX
    <3>1. Merged(led, fact) = more
      BY <2>3, <2>5 DEF Trimmed
    <3>2. Last(more) = fact
      BY <2>1 DEF Last
    <3>3. ledger # <<>> => more[1] = ledger[1]
      BY <1>1, <2>1, <2>4
    <3> QED BY <1>3, <2>1, <2>2, <2>5, <3>1, <3>2, <3>3
  <2>6. CASE Len(more) > LEDGER_MAX
    <3> DEFINE j == (Len(more) \div 2) + 1
               cut == RemoveAt(more, j)
    <3>1. Merged(led, fact) = cut
      BY <1>1, <2>1, <2>3, <2>6 DEF Trimmed
    <3>2. Len(more) >= 3 /\ j \in 2..Len(more) /\ j < Len(more)
      BY <1>1, <2>1, <2>6
    <3>3. /\ cut \in Seq(F) /\ Len(cut) = Len(more) - 1 /\ cut[1] = more[1]
          /\ cut[Len(more) - 1] = more[Len(more)] /\ ToSet(cut) \subseteq ToSet(more)
      <4> HIDE DEF j
      <4> QED BY <2>1, <3>2, RemoveIs
    <3> HIDE DEF cut, j
    <3>4. Len(cut) = Len(ledger) /\ Len(ledger) >= 2 /\ Len(cut) <= LEDGER_MAX /\ cut # <<>>
      BY <1>1, <2>1, <3>2, <3>3, EmptySeq
    <3>5. Last(cut) = fact
      BY <1>1, <2>1, <3>3, <3>4 DEF Last
    <3>6. cut[1] = ledger[1]
      BY <1>1, <2>1, <3>3, <3>4
    <3> QED BY <1>3, <2>2, <3>1, <3>3, <3>4, <3>5, <3>6
  <2> QED BY <1>1, <2>1, <2>5, <2>6
<1> QED BY <1>2, <1>3

(* Failures are counted, and are the code's own once a ledger follows. *)
LEMMA FailuresIs ==
  ASSUME NEW body \in Bodies, NEW led \in BOOLEAN
  PROVE  Failures(body, led) \in Nat /\ body.code <= Failures(body, led)
         /\ Failures(body, TRUE) = body.code
BY DEF Failures, Bodies

(* No body is a body: _read gives an empty text. *)
LEMMA NoneIs == None \in Bodies /\ Blank \in [Sections -> Bodies] /\ \A s \in Sections : Blank[s] = None
BY DEF None, Bodies, Blank

(* Drafts is stronger than what the run checks. *)
LEMMA DraftsImply == Drafts => ResearchInv
<1> SUFFICES ASSUME Drafts PROVE ResearchInv
  OBVIOUS
<1>1. ResearchTypeOK
  <2>1. ToSet(todo) \subseteq Sections
    BY ToSetIs DEF Drafts, Todo
  <2> QED BY <2>1 DEF Drafts, Papers, ResearchTypeOK
<1>2. LedgerIsSound
  <2>1. ToSet(ledger) \subseteq accepted
    BY DEF Drafts, Ledgers, Sound
  <2>2. Founding \in accepted => Head(ledger) = Founding
    <3> SUFFICES ASSUME Founding \in accepted PROVE Head(ledger) = Founding
      OBVIOUS
    <3>1. ledger # <<>> /\ ledger[1] = Founding /\ ledger \in Seq(F)
      BY DEF Drafts, Ledgers, Sound, Papers, F
    <3> QED BY <3>1
  <2> QED BY <2>1, <2>2 DEF Drafts, Ledgers, LedgerIsSound
<1> QED BY <1>1, <1>2 DEF Drafts, ResearchInv

(* At the start nothing is written. *)
LEMMA DraftsInit == ResearchInit => Drafts
<1> SUFFICES ASSUME ResearchInit PROVE Drafts
  OBVIOUS
<1> USE DEF ResearchInit
<1>1. <<Founding>> \in Seq(F) /\ Len(<<Founding>>) = 1 /\ <<>> \in Seq(F) /\ Len(<<>>) = 0
      /\ ToSet(<<Founding>>) = {Founding} /\ <<Founding>> # <<>> /\ <<Founding>>[1] = Founding
  <2>1. DOMAIN <<Founding>> = {1}
    OBVIOUS
  <2> QED BY <2>1, EmptySeq DEF F, ToSet
<1>2. Papers
  BY <1>1, NoneIs, ResearchAssumption DEF Papers, NoDraft, InSections, F
<1>3. AtSection /\ Calls /\ Ledgers
  BY <1>1 DEF AtSection, Calls, Ledgers, Sound, InSections, NoDraft
<1>4. Todo
  BY DEF Todo
<1>5. OverspendIsOneAttempt /\ RevisionKeeps
  BY NoneIs DEF OverspendIsOneAttempt, RevisionKeeps
<1> QED BY <1>2, <1>3, <1>4, <1>5 DEF Drafts

(* What a writer's reply costs and holds. *)
LEMMA RepliesAre ==
  ASSUME NEW ver \in Nat, NEW r \in WriterReplies(ver)
  PROVE  r.cost \in 1..2 /\ r.body \in Bodies /\ r.led \in BOOLEAN
<1>1. CASE r = [cost |-> 2, body |-> None, led |-> FALSE]
  BY <1>1, NoneIs
<1>2. CASE r \in [cost : 1..2, body : [ver : {ver}, code : 0..MaxFails, open : BOOLEAN], led : BOOLEAN]
  BY <1>2, ResearchAssumption DEF Bodies
<1> QED BY <1>1, <1>2 DEF WriterReplies

(* What no step of writing a section but Save and Rewrite touches. *)
Shelf == <<bodies, ledger, before, todo, ruling, accepted>>

LEMMA OutlineKeeps == ASSUME Drafts, Outline PROVE Drafts'
<1>1. /\ stage = "outline" /\ UNCHANGED <<sec, tier, draft, Shelf>>
      /\ \E cost \in 1..2 : paid' = paid + cost
      /\ \/ stage' = "agent" /\ UNCHANGED files
         \/ \E saved, ledgered \in BOOLEAN :
              /\ stage' = "section"
              /\ files' = [outline |-> saved, section |-> Blank,
                           ledger |-> IF ledgered THEN ledger ELSE <<>>]
  BY DEF Outline, Shelf
<1>2. /\ before = Blank /\ ledger = <<Founding>> /\ sec = 1 /\ ~draft.led /\ paid \in Nat
      /\ ruling.is = "none" => paid = 0
  BY <1>1 DEF Drafts, AtSection, Calls, Papers
<1>3. /\ \A f \in ToSet(<<Founding>>) : f[1] = 0
      /\ <<>> \in Seq(F) /\ Len(<<>>) = 0
  <2>1. DOMAIN <<Founding>> = {1}
    OBVIOUS
  <2> QED BY <2>1, EmptySeq DEF ToSet, Founding
<1> DEFINE Filed == /\ stage' \in {"agent", "section"}
                    /\ files'.section \in [Sections -> Bodies] /\ DOMAIN files' = {"outline", "section", "ledger"}
                    /\ files'.ledger \in Seq(F) /\ Len(files'.ledger) <= LEDGER_MAX
                    /\ stage' = "section" => files'.ledger = <<>> \/ files'.ledger = ledger
<1>4. Filed
  <2>1. CASE stage' = "agent" /\ UNCHANGED files
    BY <2>1 DEF Drafts, Papers, F
  <2>2. ASSUME NEW saved \in BOOLEAN, NEW ledgered \in BOOLEAN, stage' = "section",
               files' = [outline |-> saved, section |-> Blank,
                         ledger |-> IF ledgered THEN ledger ELSE <<>>]
        PROVE  Filed
    <3>1. /\ files'.section = Blank /\ DOMAIN files' = {"outline", "section", "ledger"}
          /\ files'.ledger = IF ledgered THEN ledger ELSE <<>>
      BY <2>2
    <3>2. ledger \in Seq(F) /\ Len(ledger) <= LEDGER_MAX
      BY DEF Drafts, Papers, F
    <3>3. files'.ledger = <<>> \/ files'.ledger = ledger
      BY <3>1
    <3> QED BY <2>2, <3>1, <3>2, <3>3, <1>3, NoneIs, ResearchAssumption
  <2> HIDE DEF Filed
  <2> QED BY <1>1, <2>1, <2>2
<1>5. paid' \in Nat /\ paid' <= paid + 2
  BY <1>1, <1>2
<1>6. Papers'
  BY <1>1, <1>4, <1>5 DEF Drafts, Papers, Shelf, InSections, F
<1>7. AtSection'
  BY <1>1, <1>2, <1>3, <1>4 DEF AtSection, Shelf, InSections, Founding
<1>8. Calls'
  BY <1>1, <1>4 DEF Calls
<1>9. Ledgers'
  BY <1>1, <1>2, <1>4 DEF Drafts, Ledgers, Sound, Shelf
<1>10. Todo'
  BY <1>1, <1>4 DEF Drafts, Todo, Shelf
<1>11. OverspendIsOneAttempt'
  BY <1>1, <1>2, <1>4, <1>5, ResearchAssumption DEF OverspendIsOneAttempt, Shelf
<1>12. RevisionKeeps'
  BY <1>1 DEF Drafts, RevisionKeeps, Shelf
<1> QED BY <1>6, <1>7, <1>8, <1>9, <1>10, <1>11, <1>12 DEF Drafts

(* A step that leaves the document, its files and its facts alone. *)
Elsewhere == UNCHANGED <<files, Shelf>>

LEMMA ElsewhereKeeps ==
  ASSUME Drafts, Elsewhere, 
         stage \in InSections \cup {"finish", "evaluator"},
         stage' \in InSections \cup {"finish", "evaluator", "__end__"},
         stage' \in InSections => stage \in InSections,
         stage' = "section" => ~draft'.led
  PROVE  Ledgers' /\ Todo' /\ RevisionKeeps' /\ UNCHANGED <<bodies, before, ledger, accepted, files, todo, ruling>>
<1>1. UNCHANGED <<bodies, before, ledger, accepted, files, todo, ruling>>
  BY DEF Elsewhere, Shelf
<1>2. Ledgers'
  BY <1>1 DEF Drafts, Ledgers, Sound, InSections
<1>3. Todo'
  BY <1>1 DEF Drafts, Todo, InSections
<1>4. RevisionKeeps'
  BY <1>1 DEF Drafts, RevisionKeeps
<1> QED BY <1>1, <1>2, <1>3, <1>4

(* The types a step needs. *)
LEMMA FactsAre ==
  ASSUME Drafts
  PROVE  /\ ledger \in Seq(F) /\ ToSet(ledger) \subseteq F
         /\ \A f \in ToSet(ledger) : f[1] \in Nat
         /\ sec \in 1..(N + 1) /\ N \in Nat /\ paid \in Nat /\ MaxCalls \in Nat \ {0}
<1>1. \A f \in F : f[1] \in Nat
  BY ResearchAssumption DEF F, Facts, Founding, Sections
<1>2. ledger \in Seq(F)
  BY DEF Drafts, Papers, F
<1>3. ToSet(ledger) \subseteq F
  BY <1>2, ToSetIs
<1> QED BY <1>1, <1>2, <1>3, ResearchAssumption DEF Drafts, Papers

LEMMA NextSectionKeeps == ASSUME Drafts, NextSection PROVE Drafts'
<1>1. /\ stage = "section" /\ draft' = NoDraft /\ UNCHANGED paid /\ Elsewhere
      /\ \/ sec > N /\ stage' = "finish" /\ UNCHANGED <<sec, tier>>
         \/ sec <= N /\ Spent /\ sec' = sec + 1 /\ UNCHANGED <<stage, tier>>
         \/ sec <= N /\ ~Spent /\ tier' = Tier(N - sec + 1) /\ stage' \in {"gather", "write"} /\ UNCHANGED sec
  BY DEF NextSection, Elsewhere, Shelf
<1>2. draft'.led = FALSE
  BY <1>1 DEF NoDraft
<1>3. Ledgers' /\ Todo' /\ RevisionKeeps' /\ UNCHANGED <<bodies, before, ledger, accepted, files, todo, ruling>>
  BY <1>1, <1>2, ElsewhereKeeps DEF InSections
<1>4. Tier(N - sec + 1) \in {"full", "lean", "bare"}
  BY DEF Tier
<1>5. /\ sec \in 1..(N + 1) /\ N \in Nat /\ paid \in Nat
      /\ \A f \in ToSet(ledger) : f[1] < sec
      /\ \A f \in ToSet(ledger) : f[1] \in Nat
      /\ before = Blank
  BY <1>1, FactsAre DEF Drafts, AtSection, InSections
<1>6. /\ sec' \in 1..(N + 1) /\ sec <= sec' /\ tier' \in {"full", "lean", "bare"}
      /\ stage' \in {"finish", "section", "gather", "write"}
      /\ stage' \in {"gather", "write"} => sec' <= N /\ ~Spent
  <2>1. tier \in {"full", "lean", "bare"}
    BY DEF Drafts, Papers
  <2>2. CASE sec > N /\ stage' = "finish" /\ UNCHANGED <<sec, tier>>
    BY <1>5, <2>1, <2>2
  <2>3. CASE sec <= N /\ Spent /\ sec' = sec + 1 /\ UNCHANGED <<stage, tier>>
    BY <1>1, <1>5, <2>1, <2>3
  <2>4. CASE sec <= N /\ ~Spent /\ tier' = Tier(N - sec + 1) /\ stage' \in {"gather", "write"} /\ UNCHANGED sec
    BY <1>4, <1>5, <2>4
  <2> QED BY <1>1, <2>2, <2>3, <2>4
<1>7. Papers'
  BY <1>1, <1>3, <1>6, NoneIs DEF Drafts, Papers, InSections, NoDraft, F
<1>8. AtSection'
  BY <1>1, <1>2, <1>3, <1>5, <1>6 DEF AtSection, InSections
<1>9. Calls'
  BY <1>1, <1>3, <1>5, ResearchAssumption DEF Calls, Spent
<1>10. OverspendIsOneAttempt'
  BY <1>1, <1>3, <1>6 DEF Drafts, OverspendIsOneAttempt
<1> QED BY <1>3, <1>7, <1>8, <1>9, <1>10 DEF Drafts

LEMMA GatherKeeps == ASSUME Drafts, Gather PROVE Drafts'
<1>1. /\ stage = "gather" /\ UNCHANGED <<tier, draft>> /\ Elsewhere
      /\ \E k \in 0..GatherCalls : paid + k <= MaxCalls /\ paid' = paid + k
      /\ IF paid' >= MaxCalls THEN stage' = "section" /\ sec' = sec + 1
         ELSE stage' = "write" /\ UNCHANGED sec
  BY DEF Gather, Elsewhere, Shelf
<1>2. ~draft.led /\ ~draft'.led
  BY <1>1 DEF Drafts, AtSection
<1>3. Ledgers' /\ Todo' /\ RevisionKeeps' /\ UNCHANGED <<bodies, before, ledger, accepted, files, todo, ruling>>
  BY <1>1, <1>2, ElsewhereKeeps DEF InSections
<1>4. paid' \in Nat /\ paid' <= MaxCalls /\ MaxCalls \in Nat
  BY <1>1, FactsAre, ResearchAssumption
<1>5. /\ sec \in 1..N /\ N \in Nat
      /\ \A f \in ToSet(ledger) : f[1] < sec /\ f[1] \in Nat
      /\ before = Blank
  BY <1>1, FactsAre DEF Drafts, AtSection, InSections
<1>6. sec' \in 1..(N + 1) /\ sec <= sec' /\ (stage' = "write" => sec' = sec) /\ stage' \in {"section", "write"}
  BY <1>1, <1>5
<1>7. Papers'
  BY <1>1, <1>3, <1>4, <1>6 DEF Drafts, Papers, InSections, F
<1>8. AtSection'
  BY <1>2, <1>3, <1>5, <1>6 DEF AtSection, InSections
<1>9. Calls'
  BY <1>1, <1>3, <1>4 DEF Calls
<1>10. OverspendIsOneAttempt'
  BY <1>4, <1>6 DEF OverspendIsOneAttempt
<1> QED BY <1>3, <1>7, <1>8, <1>9, <1>10 DEF Drafts

LEMMA WriteSectionKeeps == ASSUME Drafts, WriteSection PROVE Drafts'
<1>1. PICK r \in WriterReplies(1) :
        /\ stage = "write" /\ UNCHANGED tier /\ Elsewhere /\ paid' = paid + r.cost
        /\ IF r.body = None
           THEN stage' = "section" /\ sec' = sec + 1 /\ UNCHANGED draft
           ELSE stage' = "check" /\ draft' = [NoDraft EXCEPT !.body = r.body, !.led = r.led] /\ UNCHANGED sec
  BY DEF WriteSection, Elsewhere, Shelf
<1>2. r.cost \in 1..2 /\ r.body \in Bodies /\ r.led \in BOOLEAN
  BY RepliesAre
<1>3. ~draft.led /\ paid < MaxCalls /\ sec <= N /\ before = Blank /\ \A f \in ToSet(ledger) : f[1] < sec
  BY <1>1 DEF Drafts, AtSection, Calls, InSections
<1>4. stage' \in {"section", "check"} /\ (stage' = "section" => ~draft'.led)
  BY <1>1, <1>3
<1>5. Ledgers' /\ Todo' /\ RevisionKeeps' /\ UNCHANGED <<bodies, before, ledger, accepted, files, todo, ruling>>
  BY <1>1, <1>4, ElsewhereKeeps DEF InSections
<1>6. paid' \in Nat /\ paid' <= MaxCalls + 1
  BY <1>1, <1>2, <1>3, FactsAre
<1>7. sec' \in 1..(N + 1) /\ sec <= sec' /\ (stage' = "check" => sec' = sec)
  BY <1>1, <1>3, FactsAre
<1>8. /\ DOMAIN draft' = {"body", "led", "judged", "second", "led2"}
      /\ draft'.body \in Bodies /\ draft'.second \in Bodies
      /\ draft'.judged \in Nat /\ draft'.led \in BOOLEAN /\ draft'.led2 \in BOOLEAN
  <2>1. CASE r.body = None
    BY <1>1, <2>1 DEF Drafts, Papers
  <2>2. CASE r.body # None
    <3>1. draft' = [NoDraft EXCEPT !.body = r.body, !.led = r.led]
      BY <1>1, <2>2
    <3>2. /\ DOMAIN draft' = {"body", "led", "judged", "second", "led2"}
          /\ draft'.body = r.body /\ draft'.second = None
          /\ draft'.judged = 0 /\ draft'.led = r.led /\ draft'.led2 = FALSE
      BY <3>1 DEF NoDraft
    <3>3. None \in Bodies
      BY NoneIs
    <3>4. draft'.body \in Bodies /\ draft'.second \in Bodies
      BY <1>2, <3>2, <3>3
    <3>5. draft'.led \in BOOLEAN
      BY <1>2, <3>2, Zenon
    <3>6. draft'.led2 \in BOOLEAN
      BY <3>2, Zenon
    <3>7. draft'.judged \in Nat
      BY <3>2
    <3> QED BY <3>2, <3>4, <3>5, <3>6, <3>7
  <2> QED BY <2>1, <2>2
<1>9. Papers'
  BY <1>1, <1>4, <1>5, <1>6, <1>7, <1>8 DEF Drafts, Papers, InSections
<1>10. AtSection'
  BY <1>3, <1>4, <1>5, <1>7, FactsAre DEF AtSection, InSections
<1>11. Calls'
  BY <1>4 DEF Calls
<1>12. OverspendIsOneAttempt'
  BY <1>6 DEF OverspendIsOneAttempt
<1> QED BY <1>5, <1>9, <1>10, <1>11, <1>12 DEF Drafts

(* The steps between a draft and the file it goes to. *)
LEMMA DraftingKeeps ==
  ASSUME Drafts, Elsewhere, stage \in {"check", "decide", "compare"},
         stage' \in {"decide", "compare", "save"}, UNCHANGED <<sec, tier>>,
         paid' \in Nat, ruling.is = "none" => paid' <= MaxCalls + 1,
         DOMAIN draft' = {"body", "led", "judged", "second", "led2"},
         draft'.body \in Bodies, draft'.second \in Bodies,
         draft'.judged \in Nat, draft'.led \in BOOLEAN, draft'.led2 \in BOOLEAN
  PROVE  Drafts'
<1>1. Ledgers' /\ Todo' /\ RevisionKeeps' /\ UNCHANGED <<bodies, before, ledger, accepted, files, todo, ruling>>
  BY ElsewhereKeeps DEF InSections
<1>2. Papers'
  BY <1>1 DEF Drafts, Papers, InSections
<1>3. AtSection'
  BY <1>1 DEF Drafts, AtSection, InSections
<1>4. Calls'
  BY <1>1 DEF Calls
<1>5. OverspendIsOneAttempt'
  BY <1>1 DEF OverspendIsOneAttempt
<1> QED BY <1>1, <1>2, <1>3, <1>4, <1>5 DEF Drafts

(* The draft at hand. *)
LEMMA DraftIs ==
  ASSUME Drafts
  PROVE  /\ DOMAIN draft = {"body", "led", "judged", "second", "led2"}
         /\ draft.body \in Bodies /\ draft.second \in Bodies
         /\ draft.judged \in Nat /\ draft.led \in BOOLEAN /\ draft.led2 \in BOOLEAN
         /\ stage \in InSections /\ ruling.is = "none" => paid <= MaxCalls + 1
BY DEF Drafts, Papers, OverspendIsOneAttempt, InSections

LEMMA CheckDraftKeeps == ASSUME Drafts, CheckDraft PROVE Drafts'
<1>1. /\ stage = "check" /\ stage' = "decide" /\ UNCHANGED <<sec, tier>> /\ Elsewhere
      /\ IF tier = "full" /\ sec \in Checked /\ ~Spent
         THEN paid' = paid + 1 /\ \E failed \in 0..1 : draft' = [draft EXCEPT !.judged = failed]
         ELSE UNCHANGED <<paid, draft>>
  BY DEF CheckDraft, Elsewhere, Shelf
<1>2. CASE tier = "full" /\ sec \in Checked /\ ~Spent
  <2>1. paid' \in Nat /\ paid' <= MaxCalls + 1
    BY <1>1, <1>2, FactsAre DEF Spent
  <2>2. PICK failed \in 0..1 : draft' = [draft EXCEPT !.judged = failed]
    BY <1>1, <1>2
  <2>3. /\ DOMAIN draft' = DOMAIN draft /\ draft'.body = draft.body /\ draft'.second = draft.second
        /\ draft'.led = draft.led /\ draft'.led2 = draft.led2 /\ draft'.judged = failed
    BY <2>2, DraftIs
  <2> QED BY <1>1, <2>1, <2>3, DraftIs, DraftingKeeps
<1>3. CASE ~(tier = "full" /\ sec \in Checked /\ ~Spent)
  <2>1. UNCHANGED <<paid, draft>>
    BY <1>1, <1>3
  <2> QED BY <1>1, <2>1, DraftIs, FactsAre, DraftingKeeps DEF InSections
<1> QED BY <1>2, <1>3

LEMMA DecideKeeps == ASSUME Drafts, Decide PROVE Drafts'
<1> DEFINE done == Failures(draft.body, draft.led) + draft.judged = 0 \/ tier = "bare" \/ Spent
<1>1. /\ stage = "decide" /\ UNCHANGED <<sec, tier>> /\ Elsewhere
      /\ IF done THEN stage' = "save" /\ UNCHANGED <<paid, draft>>
         ELSE \E r \in WriterReplies(2) :
                /\ paid' = paid + r.cost
                /\ draft' = [draft EXCEPT !.second = r.body, !.led2 = r.led]
                /\ stage' = IF r.body = None THEN "save" ELSE "compare"
  BY DEF Decide, Elsewhere, Shelf
<1>2. CASE done
  <2>1. stage' = "save" /\ UNCHANGED <<paid, draft>>
    BY <1>1, <1>2
  <2> QED BY <1>1, <2>1, DraftIs, FactsAre, DraftingKeeps DEF InSections
<1>3. CASE ~done
  <2>1. PICK r \in WriterReplies(2) :
          /\ paid' = paid + r.cost
          /\ draft' = [draft EXCEPT !.second = r.body, !.led2 = r.led]
          /\ stage' = IF r.body = None THEN "save" ELSE "compare"
    BY <1>1, <1>3
  <2>2. r.cost \in 1..2 /\ r.body \in Bodies /\ r.led \in BOOLEAN
    BY RepliesAre
  <2>3. paid' \in Nat /\ paid' <= MaxCalls + 1
    BY <1>3, <2>1, <2>2, FactsAre DEF Spent
  <2>4. /\ DOMAIN draft' = DOMAIN draft /\ draft'.body = draft.body /\ draft'.second = r.body
        /\ draft'.led = draft.led /\ draft'.led2 = r.led /\ draft'.judged = draft.judged
    BY <2>1, DraftIs
  <2>5. stage' \in {"save", "compare"}
    BY <2>1
  <2> QED BY <1>1, <2>2, <2>3, <2>4, <2>5, DraftIs, DraftingKeeps
<1> QED BY <1>2, <1>3

LEMMA CompareKeeps == ASSUME Drafts, Compare PROVE Drafts'
<1> DEFINE judges == draft.judged > 0 /\ tier = "full" /\ ~Spent
<1>1. /\ stage = "compare" /\ stage' = "save" /\ UNCHANGED <<sec, tier>> /\ Elsewhere
      /\ paid' = IF judges THEN paid + 1 ELSE paid
      /\ \E failed \in IF judges THEN 0..1 ELSE {0} :
           draft' = IF Better(failed)
                    THEN [draft EXCEPT !.body = draft.second, !.led = draft.led2, !.judged = failed]
                    ELSE draft
  BY DEF Compare, Elsewhere, Shelf
<1>2. PICK failed \in Nat :
        draft' = IF Better(failed)
                 THEN [draft EXCEPT !.body = draft.second, !.led = draft.led2, !.judged = failed]
                 ELSE draft
  <2>1. \A k \in IF judges THEN 0..1 ELSE {0} : k \in Nat
    OBVIOUS
  <2> QED BY <1>1, <2>1
<1>3. /\ DOMAIN draft' = {"body", "led", "judged", "second", "led2"}
      /\ draft'.body \in Bodies /\ draft'.second \in Bodies
      /\ draft'.judged \in Nat /\ draft'.led \in BOOLEAN /\ draft'.led2 \in BOOLEAN
  <2>1. CASE Better(failed)
    <3>1. draft' = [draft EXCEPT !.body = draft.second, !.led = draft.led2, !.judged = failed]
      BY <1>2, <2>1
    <3>2. /\ DOMAIN draft' = DOMAIN draft /\ draft'.body = draft.second /\ draft'.second = draft.second
          /\ draft'.led = draft.led2 /\ draft'.led2 = draft.led2 /\ draft'.judged = failed
      BY <3>1, DraftIs
    <3> QED BY <3>2, DraftIs
  <2>2. CASE ~Better(failed)
    BY <1>2, <2>2, DraftIs
  <2> QED BY <2>1, <2>2
<1>4. paid' \in Nat /\ (ruling.is = "none" => paid' <= MaxCalls + 1)
  <2>1. CASE judges
    BY <1>1, <2>1, FactsAre DEF Spent
  <2>2. CASE ~judges
    BY <1>1, <2>2, FactsAre, DraftIs DEF InSections
  <2> QED BY <2>1, <2>2
<1> QED BY <1>1, <1>3, <1>4, DraftingKeeps

LEMMA SaveKeeps == ASSUME Drafts, Save PROVE Drafts'
<1> DEFINE fact == <<sec, draft.body.ver>>
<1>1. PICK kept \in {files.section, [files.section EXCEPT ![sec] = draft.body]},
           facts \in {files.ledger, ledger'} :
        /\ stage = "save" /\ stage' = "section" /\ sec' = sec + 1
        /\ bodies' = [bodies EXCEPT ![sec] = draft.body]
        /\ ledger' = Merged(draft.led, fact)
        /\ accepted' = accepted \cup IF draft.led THEN {fact} ELSE {}
        /\ files' = [files EXCEPT !.section = kept, !.ledger = facts]
        /\ UNCHANGED <<tier, paid, draft, before, todo, ruling>>
  BY DEF Save
<1>2. /\ sec \in Sections /\ sec \in Nat /\ before = Blank
      /\ \A f \in ToSet(ledger) : f[1] < sec
  BY <1>1, FactsAre DEF Drafts, AtSection, InSections, Sections
<1>3. draft.body.ver \in Nat /\ fact \in F /\ fact \notin ToSet(ledger) /\ fact[1] = sec
  BY <1>2, DraftIs DEF Bodies, F, Facts
<1>4. ledger \in Seq(F) /\ Len(ledger) <= LEDGER_MAX
  BY DEF Drafts, Papers, F
<1> HIDE DEF fact
<1>5. /\ ledger' \in Seq(F) /\ Len(ledger') <= LEDGER_MAX
      /\ ToSet(ledger') \subseteq ToSet(ledger) \cup (IF draft.led THEN {fact} ELSE {})
      /\ ledger # <<>> => ledger' # <<>> /\ ledger'[1] = ledger[1]
      /\ draft.led => ledger' # <<>> /\ Last(ledger') = fact
  BY <1>1, <1>3, <1>4, DraftIs, MergedIs
<1>6. /\ Sound(ledger) /\ (files.ledger = <<>> \/ Sound(files.ledger))
      /\ files.ledger \in Seq(F) /\ Len(files.ledger) <= LEDGER_MAX
      /\ files.section \in [Sections -> Bodies] /\ DOMAIN files = {"outline", "section", "ledger"}
      /\ bodies \in [Sections -> Bodies]
  BY <1>1 DEF Drafts, Ledgers, Papers, F
<1>7. /\ DOMAIN files' = {"outline", "section", "ledger"}
      /\ files'.section = kept /\ files'.ledger = facts
      /\ kept \in [Sections -> Bodies]
      /\ bodies' \in [Sections -> Bodies]
  <2>1. [files.section EXCEPT ![sec] = draft.body] \in [Sections -> Bodies]
        /\ [bodies EXCEPT ![sec] = draft.body] \in [Sections -> Bodies]
    BY <1>2, <1>6, DraftIs
  <2> QED BY <1>1, <1>6, <2>1
<1>8. Founding \in accepted' => Founding \in accepted
  <2>1. fact # Founding
    BY <1>2, <1>3 DEF Founding, Sections
  <2> QED BY <1>1, <2>1
<1>9. Sound(ledger)' /\ (files'.ledger = <<>> \/ Sound(files.ledger)')
  <2>1. Sound(ledger)'
    BY <1>1, <1>5, <1>6, <1>8 DEF Sound
  <2>2. CASE facts = files.ledger
    <3>1. accepted \subseteq accepted'
      BY <1>1
    <3>2. files'.ledger = files.ledger
      BY <1>7, <2>2
    <3>3. CASE files.ledger = <<>>
      BY <3>2, <3>3, <2>1
    <3>4. CASE Sound(files.ledger)
      <4>1. ToSet(files.ledger) \subseteq accepted'
        BY <3>1, <3>4 DEF Sound
      <4>2. Founding \in accepted' => files.ledger # <<>> /\ files.ledger[1] = Founding
        BY <1>8, <3>4 DEF Sound
      <4>3. ToSet(files'.ledger) \subseteq accepted'
        BY <3>2, <4>1
      <4>4. Founding \in accepted' => files'.ledger # <<>> /\ files'.ledger[1] = Founding
        BY <3>2, <4>2
      <4>5. Sound(files.ledger)'
        BY <4>3, <4>4 DEF Sound
      <4> QED BY <2>1, <4>5
    <3> QED BY <1>6, <3>3, <3>4
  <2>3. CASE facts = ledger'
    BY <1>7, <2>1, <2>3 DEF Sound
  <2> QED BY <2>1, <2>2, <2>3
<1>10. facts \in Seq(F) /\ Len(facts) <= LEDGER_MAX
  BY <1>1, <1>5, <1>6
<1>11. Papers'
  <2>1. sec' \in 1..(N + 1)
    BY <1>1, <1>2, FactsAre DEF Sections
  <2> QED BY <1>1, <1>5, <1>7, <1>10, <2>1 DEF Drafts, Papers, InSections, F
<1>12. AtSection'
  <2>1. \A f \in ToSet(ledger') : f[1] < sec + 1
    <3>1. \A f \in ToSet(ledger) : f[1] < sec + 1
      BY <1>2, FactsAre
    <3>2. fact[1] < sec + 1
      BY <1>2, <1>3
    <3> QED BY <1>5, <3>1, <3>2
  <2> QED BY <1>1, <1>2, <2>1 DEF AtSection
<1>13. Calls'
  BY <1>1 DEF Calls
<1>14. Ledgers'
  <2>1. (sec + 1) - 1 = sec
    BY <1>2
  <2>2. draft'.led => Last(ledger') = <<sec' - 1, draft'.body.ver>>
    BY <1>1, <1>5, <2>1 DEF fact
  <2> QED BY <1>1, <1>5, <1>9, <2>2 DEF Ledgers
<1>15. Todo'
  BY <1>1 DEF Drafts, Todo
<1>16. OverspendIsOneAttempt'
  BY <1>1, DraftIs DEF OverspendIsOneAttempt, InSections
<1>17. RevisionKeeps'
  BY <1>1, <1>2, NoneIs DEF RevisionKeeps
<1> QED BY <1>11, <1>12, <1>13, <1>14, <1>15, <1>16, <1>17 DEF Drafts

LEMMA FinishKeeps == ASSUME Drafts, Finish PROVE Drafts'
<1>1. /\ stage = "finish" /\ UNCHANGED <<sec, tier, paid, draft>> /\ Elsewhere
      /\ stage' = IF Spent \/ bodies = Blank THEN "__end__" ELSE "evaluator"
  BY DEF Finish, Elsewhere, Shelf
<1>2. /\ stage' \in {"__end__", "evaluator"} /\ ~draft.led
      /\ stage' = "evaluator" => paid < MaxCalls
  BY <1>1, FactsAre DEF Drafts, AtSection, Spent
<1>3. Ledgers' /\ Todo' /\ RevisionKeeps' /\ UNCHANGED <<bodies, before, ledger, accepted, files, todo, ruling>>
  BY <1>1, <1>2, ElsewhereKeeps DEF InSections
<1>4. Papers'
  BY <1>1, <1>2, <1>3 DEF Drafts, Papers, InSections
<1>5. AtSection' /\ Calls'
  BY <1>1, <1>2, <1>3 DEF Drafts, AtSection, Calls, InSections
<1>6. OverspendIsOneAttempt'
  BY <1>1, <1>2, FactsAre DEF OverspendIsOneAttempt
<1> QED BY <1>3, <1>4, <1>5, <1>6 DEF Drafts

(* Naturals add up. *)
LEMMA Adds == \A a, b \in Nat : a + b \in Nat /\ a + 1 \in Nat
OBVIOUS

LEMMA EvaluatorKeeps == ASSUME Drafts, Evaluator PROVE Drafts'
<1>1. PICK said \in {"approved", "rejected", "no verdict"} :
        /\ stage = "evaluator" /\ paid' = paid + 1
        /\ ruling' = [is |-> said, rejections |-> ruling.rejections + IF said = "approved" THEN 0 ELSE 1]
        /\ stage' \in {"__end__", "again"}
        /\ UNCHANGED <<sec, tier, draft, bodies, ledger, files, before, todo, accepted>>
  BY DEF Evaluator
<1>2. ruling'.is = said /\ ruling'.rejections \in Nat
  <2> DEFINE more == IF said = "approved" THEN 0 ELSE 1
  <2>1. ruling' = [is |-> said, rejections |-> ruling.rejections + more]
    BY <1>1
  <2>2. ruling.rejections \in Nat
    BY DEF Drafts, Papers
  <2>3. more \in Nat
    OBVIOUS
  <2> HIDE DEF more
  <2>4. ruling'.is = said /\ ruling'.rejections = ruling.rejections + more
    BY <2>1
  <2>5. ruling.rejections + more \in Nat
    BY <2>2, <2>3, Adds, Zenon
  <2> QED BY <2>4, <2>5
<1>3. paid' \in Nat /\ ~draft.led
  <2>1. paid' = paid + 1 /\ paid \in Nat
    BY <1>1, FactsAre
  <2>2. ~draft.led
    BY <1>1 DEF Drafts, AtSection
  <2>3. paid' \in Nat
    BY <2>1, Adds, Zenon
  <2> QED BY <2>2, <2>3
<1>4. Papers'
  BY <1>1, <1>2, <1>3 DEF Drafts, Papers, InSections
<1>5. AtSection' /\ Calls' /\ OverspendIsOneAttempt'
  BY <1>1, <1>2, <1>3 DEF Drafts, AtSection, Calls, InSections, OverspendIsOneAttempt
<1>6. Ledgers' /\ Todo' /\ RevisionKeeps'
  BY <1>1 DEF Drafts, Ledgers, Sound, Todo, RevisionKeeps
<1> QED BY <1>4, <1>5, <1>6 DEF Drafts

LEMMA StartOverKeeps == ASSUME Drafts, StartOver PROVE Drafts'
<1>1. /\ stage = "again" /\ stage' = "outline" /\ sec' = 1
      /\ bodies' = Blank /\ before' = Blank
      /\ ledger' = <<Founding>> /\ accepted' = {Founding}
      /\ UNCHANGED <<tier, paid, draft, files, todo, ruling>>
  BY DEF StartOver
<1>2. ~draft.led /\ ruling.is # "none"
  BY <1>1 DEF Drafts, AtSection, Calls
<1>3. <<Founding>> \in Seq(F) /\ Len(<<Founding>>) = 1
      /\ ToSet(<<Founding>>) = {Founding} /\ <<Founding>> # <<>> /\ <<Founding>>[1] = Founding
  <2>1. DOMAIN <<Founding>> = {1}
    OBVIOUS
  <2> QED BY <2>1 DEF F, ToSet
<1>4. Papers'
  <2>1. sec' \in 1..(N + 1) /\ Len(ledger') <= LEDGER_MAX
    BY <1>1, <1>3, ResearchAssumption
  <2>2. bodies' \in [Sections -> Bodies] /\ before' \in [Sections -> Bodies]
    BY <1>1, NoneIs
  <2>3. ledger' \in Seq(F)
    BY <1>1, <1>3
  <2> QED BY <1>1, <2>1, <2>2, <2>3 DEF Drafts, Papers, InSections, F
<1>5. AtSection' /\ Calls' /\ OverspendIsOneAttempt' /\ Todo'
  BY <1>1, <1>2 DEF Drafts, AtSection, Calls, InSections, OverspendIsOneAttempt, Todo
<1>6. Ledgers'
  BY <1>1, <1>3 DEF Ledgers, Sound
<1>7. RevisionKeeps'
  BY <1>1, NoneIs DEF RevisionKeeps
<1> QED BY <1>4, <1>5, <1>6, <1>7 DEF Drafts

(* The sections to rewrite are a sequence of them. *)
LEMMA OrdersAre ==
  ASSUME NEW R, R \subseteq Sections, NEW order \in Orders(R)
  PROVE  order \in Seq(R) /\ \A k \in DOMAIN order : order[k] \in R
<1>1. order \in [1..Cardinality(R) -> R]
  BY DEF Orders
<1>2. Cardinality(R) \in Nat
  <2>1. IsFiniteSet(Sections)
    BY FS_Interval, ResearchAssumption DEF Sections
  <2> QED BY <2>1, FS_Subset, FS_CardinalityType
<1> QED BY <1>1, <1>2, IsASeq

LEMMA ReloadKeeps == ASSUME Drafts, Reload PROVE Drafts'
<1> DEFINE there == {s \in Sections : files.section[s] # None}
<1>1. /\ stage = "again" /\ UNCHANGED <<sec, tier, paid, draft, files, ruling>>
      /\ \/ stage' = "agent" /\ UNCHANGED <<bodies, before, ledger, accepted, todo>>
         \/ /\ stage' = "rewrite"
            /\ bodies' = files.section /\ before' = files.section
            /\ ledger' = files.ledger
            /\ accepted' = IF files.ledger = <<>> THEN accepted \ {Founding} ELSE accepted
            /\ IF ruling.is = "no verdict" THEN todo' = <<>>
               ELSE \E R \in SUBSET there : todo' \in Orders(R)
  BY DEF Reload
<1>2. ~draft.led /\ ruling.is # "none" /\ (files.ledger = <<>> \/ Sound(files.ledger))
  BY <1>1 DEF Drafts, AtSection, Calls, Ledgers
<1>3. CASE stage' = "agent" /\ UNCHANGED <<bodies, before, ledger, accepted, todo>>
  <2>1. Papers'
    BY <1>1, <1>3 DEF Drafts, Papers, InSections
  <2>2. AtSection' /\ Calls' /\ OverspendIsOneAttempt' /\ Ledgers' /\ Todo' /\ RevisionKeeps'
    BY <1>1, <1>3 DEF Drafts, AtSection, Calls, InSections, OverspendIsOneAttempt, Ledgers, Sound, Todo, RevisionKeeps
  <2> QED BY <2>1, <2>2 DEF Drafts
<1>4. ASSUME stage' = "rewrite", bodies' = files.section, before' = files.section,
             ledger' = files.ledger,
             accepted' = IF files.ledger = <<>> THEN accepted \ {Founding} ELSE accepted,
             IF ruling.is = "no verdict" THEN todo' = <<>>
             ELSE \E R \in SUBSET there : todo' \in Orders(R)
      PROVE  Drafts'
  <2>1. /\ files.section \in [Sections -> Bodies] /\ files.ledger \in Seq(F)
        /\ Len(files.ledger) <= LEDGER_MAX
    BY DEF Drafts, Papers, F
  <2>2. Papers'
    BY <1>1, <1>4, <2>1 DEF Drafts, Papers, InSections, F
  <2>3. AtSection' /\ Calls' /\ OverspendIsOneAttempt'
    BY <1>1, <1>2, <1>4 DEF Drafts, AtSection, Calls, InSections, OverspendIsOneAttempt
  <2>4. Ledgers'
    <3>1. CASE files.ledger = <<>>
      <4>1. ToSet(<<>>) = {}
        BY DEF ToSet
      <4> QED BY <1>1, <1>4, <3>1, <4>1 DEF Ledgers, Sound
    <3>2. CASE files.ledger # <<>>
      BY <1>1, <1>2, <1>4, <3>2 DEF Ledgers, Sound
    <3> QED BY <3>1, <3>2
  <2>5. Todo'
    <3>1. CASE ruling.is = "no verdict"
      <4>1. todo' = <<>>
        BY <1>4, <3>1
      <4>2. <<>> \in Seq(Sections) /\ DOMAIN <<>> = {}
        BY EmptySeq
      <4> QED BY <4>1, <4>2 DEF Todo
    <3>2. CASE ruling.is # "no verdict"
      <4>1. PICK R \in SUBSET there : todo' \in Orders(R)
        BY <1>4, <3>2
      <4>2. R \subseteq Sections /\ \A s \in R : files.section[s] # None
        OBVIOUS
      <4> HIDE DEF there
      <4>3. todo' \in Seq(R) /\ \A k \in DOMAIN todo' : todo'[k] \in R
        BY <4>1, <4>2, OrdersAre
      <4>4. todo' \in Seq(Sections)
        BY <4>2, <4>3, SeqMonotonic
      <4> QED BY <1>4, <4>2, <4>3, <4>4 DEF Todo
    <3> QED BY <3>1, <3>2
  <2>6. RevisionKeeps'
    <3>1. \A s \in Sections : files.section[s].code \in Nat
      BY <2>1 DEF Bodies
    <3>2. \A s \in Sections : files.section[s].code <= files.section[s].code
      BY <3>1
    <3>3. \A s \in Sections : before'[s] # None =>
            bodies'[s] # None /\ bodies'[s].code <= before'[s].code
      BY <1>4, <3>2
    <3> QED BY <3>3 DEF RevisionKeeps
  <2> QED BY <2>2, <2>3, <2>4, <2>5, <2>6 DEF Drafts
<1> QED BY <1>1, <1>3, <1>4

(* Less than a lesser one is less. *)
LEMMA Between == ASSUME NEW a \in Nat, NEW b \in Nat, NEW c \in Nat, a <= b, b <= c PROVE a <= c
OBVIOUS

LEMMA RewriteKeeps == ASSUME Drafts, Rewrite PROVE Drafts'
<1> DEFINE s == Head(todo)
<1>1. PICK r \in WriterReplies(3 + ruling.rejections) :
        /\ stage = "rewrite" /\ todo # <<>> /\ ~Spent
        /\ paid' = paid + r.cost
        /\ IF r.body # None /\ Kept(r.body, r.led, bodies[s])
           THEN /\ bodies' = [bodies EXCEPT ![s] = r.body]
                /\ ledger' = Merged(r.led, <<s, r.body.ver>>)
                /\ accepted' = accepted \cup IF r.led THEN {<<s, r.body.ver>>} ELSE {}
                /\ \E kept \in {files.section, [files.section EXCEPT ![s] = r.body]} :
                     files' = [files EXCEPT !.section = kept]
           ELSE UNCHANGED <<bodies, ledger, accepted, files>>
        /\ todo' = Tail(todo)
        /\ UNCHANGED <<stage, sec, tier, draft, before, ruling>>
  BY DEF Rewrite
<1>2. ruling.rejections \in Nat /\ ruling.is # "none"
  BY <1>1 DEF Drafts, Papers, Calls
<1>3. r.cost \in 1..2 /\ r.body \in Bodies /\ r.led \in BOOLEAN
  BY <1>2, RepliesAre
<1>4. /\ todo \in Seq(Sections) /\ s \in Sections /\ bodies[s] # None
      /\ todo' \in Seq(Sections) /\ \A k \in DOMAIN todo' : k + 1 \in DOMAIN todo /\ todo'[k] = todo[k + 1]
  <2>1. todo \in Seq(Sections) /\ \A k \in DOMAIN todo : bodies[todo[k]] # None
    BY <1>1 DEF Drafts, Todo
  <2>2. /\ s \in Sections /\ Tail(todo) \in Seq(Sections) /\ Len(Tail(todo)) = Len(todo) - 1
        /\ \A k \in 1..Len(Tail(todo)) : Tail(todo)[k] = todo[k + 1]
    BY <1>1, <2>1, HeadTailProperties
  <2>3. DOMAIN todo = 1..Len(todo) /\ Len(todo) \in Nat /\ DOMAIN Tail(todo) = 1..Len(Tail(todo))
    BY <2>1, <2>2, LenProperties
  <2>4. 1 \in DOMAIN todo /\ s = todo[1]
    BY <1>1, <2>1, <2>3, EmptySeq
  <2> QED BY <1>1, <2>1, <2>2, <2>3, <2>4
<1> HIDE DEF s
<1>5. ledger \in Seq(F) /\ Len(ledger) <= LEDGER_MAX /\ bodies \in [Sections -> Bodies]
      /\ before \in [Sections -> Bodies]
      /\ files.section \in [Sections -> Bodies] /\ DOMAIN files = {"outline", "section", "ledger"}
      /\ Sound(ledger) /\ (files.ledger = <<>> \/ Sound(files.ledger))
  BY <1>1 DEF Drafts, Papers, Ledgers, F
<1>6. paid' \in Nat
  BY <1>1, <1>3, FactsAre
<1>7. CASE ~(r.body # None /\ Kept(r.body, r.led, bodies[s]))
  <2>1. UNCHANGED <<bodies, ledger, accepted, files>>
    BY <1>1, <1>7
  <2>2. Papers'
    BY <1>1, <1>6, <2>1 DEF Drafts, Papers
  <2>3. AtSection' /\ Calls' /\ OverspendIsOneAttempt' /\ Ledgers' /\ RevisionKeeps'
    BY <1>1, <2>1 DEF Drafts, AtSection, Calls, InSections, OverspendIsOneAttempt, Ledgers, Sound, RevisionKeeps
  <2>4. Todo'
    BY <1>1, <1>4, <2>1 DEF Drafts, Todo
  <2> QED BY <2>2, <2>3, <2>4 DEF Drafts
<1>8. CASE r.body # None /\ Kept(r.body, r.led, bodies[s])
  <2> DEFINE fact == <<s, r.body.ver>>
  <2>1. PICK kept \in {files.section, [files.section EXCEPT ![s] = r.body]} :
          /\ bodies' = [bodies EXCEPT ![s] = r.body]
          /\ ledger' = Merged(r.led, fact)
          /\ accepted' = accepted \cup IF r.led THEN {fact} ELSE {}
          /\ files' = [files EXCEPT !.section = kept]
    BY <1>1, <1>8
  <2>2. fact \in F /\ fact # Founding
    BY <1>3, <1>4 DEF F, Facts, Bodies, Founding, Sections
  <2> HIDE DEF fact
  <2>3. /\ ledger' \in Seq(F) /\ Len(ledger') <= LEDGER_MAX
        /\ ToSet(ledger') \subseteq ToSet(ledger) \cup (IF r.led THEN {fact} ELSE {})
        /\ ledger # <<>> => ledger' # <<>> /\ ledger'[1] = ledger[1]
    BY <1>3, <1>5, <2>1, <2>2, MergedIs
  <2>4. /\ [files.section EXCEPT ![s] = r.body] \in [Sections -> Bodies]
        /\ bodies' \in [Sections -> Bodies]
        /\ bodies'[s] = r.body /\ \A t \in Sections \ {s} : bodies'[t] = bodies[t]
    BY <1>3, <1>4, <1>5, <2>1
  <2>5. kept \in [Sections -> Bodies] /\ files'.section = kept /\ files'.ledger = files.ledger
        /\ DOMAIN files' = {"outline", "section", "ledger"}
    BY <1>5, <2>1, <2>4
  <2>6. accepted \subseteq accepted' /\ (Founding \in accepted' => Founding \in accepted)
    BY <2>1, <2>2
  <2>7. Papers'
    BY <1>1, <1>6, <2>3, <2>4, <2>5 DEF Drafts, Papers, F
  <2>8. AtSection' /\ Calls' /\ OverspendIsOneAttempt'
    BY <1>1 DEF Drafts, AtSection, Calls, InSections, OverspendIsOneAttempt
  <2>9. Sound(ledger)'
    BY <1>5, <2>1, <2>3, <2>6 DEF Sound
  <2>10. files'.ledger = <<>> \/ Sound(files.ledger)'
    <3>1. CASE files.ledger = <<>>
      BY <2>5, <3>1
    <3>2. CASE Sound(files.ledger)
      BY <2>5, <2>6, <3>2 DEF Sound
    <3> QED BY <1>5, <3>1, <3>2
  <2>11. Ledgers'
    BY <1>1, <2>9, <2>10 DEF Ledgers
  <2>12. Todo'
    BY <1>1, <1>4, <1>8, <2>4 DEF Drafts, Todo
  <2>13. r.body.code <= bodies[s].code
    <3>1. bodies[s] \in Bodies
      BY <1>4, <1>5
    <3>2. Failures(bodies[s], TRUE) = bodies[s].code /\ bodies[s].code \in Nat
      BY <3>1, FailuresIs DEF Bodies
    <3>3. /\ Failures(r.body, r.led) \in Nat /\ r.body.code <= Failures(r.body, r.led)
          /\ r.body.code \in Nat
      BY <1>3, FailuresIs DEF Bodies
    <3>4. Failures(r.body, r.led) <= Failures(bodies[s], TRUE)
      BY <1>8 DEF Kept
    <3>5. Failures(r.body, r.led) <= bodies[s].code
      BY <3>2, <3>4
    <3> QED BY <3>2, <3>3, <3>5, Between
  <2>14. RevisionKeeps'
    <3>1. ASSUME NEW t \in Sections, before[t] # None PROVE bodies'[t] # None /\ bodies'[t].code <= before[t].code
      <4>1. bodies[t] # None /\ bodies[t].code <= before[t].code
        BY <3>1 DEF Drafts, RevisionKeeps
      <4>2. CASE t = s
        <5>1. r.body.code \in Nat /\ bodies[s].code \in Nat /\ before[s].code \in Nat
          BY <1>3, <1>4, <1>5 DEF Bodies
        <5> QED BY <1>8, <2>4, <2>13, <4>1, <4>2, <5>1
      <4>3. CASE t # s
        BY <2>4, <4>1, <4>3
      <4> QED BY <4>2, <4>3
    <3> QED BY <1>1, <3>1 DEF RevisionKeeps
  <2> QED BY <2>7, <2>8, <2>11, <2>12, <2>14 DEF Drafts
<1> QED BY <1>7, <1>8

LEMMA RewrittenKeeps == ASSUME Drafts, Rewritten PROVE Drafts'
<1>1. PICK facts \in {files.ledger, ledger} :
        /\ stage = "rewrite" /\ stage' = "finish" /\ todo' = <<>>
        /\ files' = [files EXCEPT !.ledger = facts]
        /\ UNCHANGED <<sec, tier, paid, draft, bodies, ledger, before, ruling, accepted>>
  BY DEF Rewritten
<1>2. /\ files.ledger \in Seq(F) /\ Len(files.ledger) <= LEDGER_MAX
      /\ ledger \in Seq(F) /\ Len(ledger) <= LEDGER_MAX
      /\ DOMAIN files = {"outline", "section", "ledger"} /\ files.section \in [Sections -> Bodies]
      /\ Sound(ledger) /\ (files.ledger = <<>> \/ Sound(files.ledger)) /\ ~draft.led
  BY <1>1 DEF Drafts, Papers, Ledgers, AtSection, F
<1>3. DOMAIN files' = DOMAIN files /\ files'.section = files.section /\ files'.ledger = facts
  BY <1>1, <1>2
<1>4. Papers'
  BY <1>1, <1>2, <1>3 DEF Drafts, Papers, InSections, F
<1>5. AtSection' /\ Calls' /\ OverspendIsOneAttempt' /\ Todo' /\ RevisionKeeps'
  BY <1>1 DEF Drafts, AtSection, Calls, InSections, OverspendIsOneAttempt, Todo, RevisionKeeps
<1>6. Ledgers'
  BY <1>1, <1>2, <1>3 DEF Ledgers, Sound
<1> QED BY <1>4, <1>5, <1>6 DEF Drafts

(***************************************************************************)
(* For every outline, budget, ledger and bound on the revisions: the       *)
(* workflow overspends by at most the second attempt at one section, its   *)
(* ledger holds facts of accepted bodies only, with the outline's first    *)
(* and those of the last section kept through all trimming, and a revision *)
(* loses and worsens no section it could read back (research.py,           *)
(* run_research, _merge_ledger, _revise), whatever files fail to be        *)
(* written on the way.                                                     *)
(***************************************************************************)
THEOREM ResearchHolds == ResearchSpec => []ResearchInv
<1>1. Drafts /\ [ResearchNext]_researchVars => Drafts'
  <2> SUFFICES ASSUME Drafts, [ResearchNext]_researchVars PROVE Drafts'
    OBVIOUS
  <2>1. CASE UNCHANGED researchVars
    <3>1. UNCHANGED <<stage, sec, tier, paid, draft, bodies, ledger, files, before, todo, ruling, accepted>>
      BY <2>1 DEF researchVars
    <3>2. Papers'
      BY <3>1 DEF Drafts, Papers
    <3>3. AtSection' /\ Calls'
      BY <3>1 DEF Drafts, AtSection, Calls
    <3>4. Ledgers'
      BY <3>1 DEF Drafts, Ledgers, Sound
    <3>5. Todo' /\ OverspendIsOneAttempt' /\ RevisionKeeps'
      BY <3>1 DEF Drafts, Todo, OverspendIsOneAttempt, RevisionKeeps
    <3> QED BY <3>2, <3>3, <3>4, <3>5 DEF Drafts
  <2> QED
    BY <2>1, OutlineKeeps, NextSectionKeeps, GatherKeeps, WriteSectionKeeps, CheckDraftKeeps,
       DecideKeeps, CompareKeeps, SaveKeeps, FinishKeeps, EvaluatorKeeps, StartOverKeeps,
       ReloadKeeps, RewriteKeeps, RewrittenKeeps
    DEF ResearchNext
<1> QED BY <1>1, DraftsInit, DraftsImply, PTL DEF ResearchSpec

=============================================================================
