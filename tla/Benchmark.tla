------------------------------ MODULE Benchmark ------------------------------
(* One task of a benchmark, tried several times: agent/eval/claw_bench.py
   (run_task_file, _run_task_once, run_one, task_tools, Deadline), over the
   Budget that bounds what the agent does in it.

   A trial starts the task's services and its container, runs the agent in
   rounds with a simulated user, writes the trace whatever happened, puts the
   grader's files into the container, takes the snapshot, stops the container
   and grades.  A round of the agent is one run of the graph: a rubric, then
   stretches of the agent's loop, which looks at the budget before each of its
   calls, with the judge between them, who looks but says nothing, and requests
   nobody looks before.  All of them, and the simulated user, take time.

   Abstracted: the trace is its text messages, each with the round that said
   it; an answer is the number of the round that gave it, 0 for the empty one;
   a score is one of Scores; what a call, with its retries, takes is one of
   StepCosts in the loop and one of OtherCosts elsewhere, in units.  How often
   the judge may reject is AgentGraph's; here it may as often as there is time.
   The research workflow and the architecture "single" are not modelled.      *)
EXTENDS Budget, Sequences, FiniteSets

CONSTANTS
  Seconds,      \* the task's timeout, in units
  StepCosts,    \* what a call of the loop or of a tool takes, in units
  OtherCosts,   \* what a call of the rubric, the judge or the user takes
  Rounds,       \* user_agent.max_rounds
  Trials, Scores,
  Container,    \* needs_container(task)
  Services, Stride,  \* ports a task takes, TRIAL_PORT_STRIDE
  Schema, Bodies    \* of a tool of the task, and what a model writes after CODE:

ASSUME BenchAssumption ==
  /\ Margin \in Nat /\ MinTurnCalls \in Nat \ {0} /\ MinTurnUnits \in Nat \ {0}
  /\ Recon \in BOOLEAN /\ Container \in BOOLEAN
  /\ Seconds \in Nat /\ StepCosts \subseteq Nat /\ OtherCosts \subseteq Nat
  /\ Rounds \in Nat /\ Trials \in Nat \ {0} /\ Scores \subseteq Nat
  \* "tasks declare at most a handful of services"
  /\ Services \in Nat /\ Stride \in Nat /\ Services <= Stride

VARIABLES
  time,        \* the clock
  budget,     \* the Budget bound around the rounds
  deadline,   \* Deadline: when its two stages begin
  stage,      \* where _run_task_once is
  agent,      \* where the round of the agent is, and why it ended
  round,      \* rounds_used
  answer, recorded, error,    \* the locals of run_one
  texts,      \* TraceRecorder: <<role, round of the text>>
  cwd,        \* where sandbox_runner has its shell
  services, container,  \* what is up, and whose files the container has
  written,    \* the trace of this trial is on disk
  scored      \* the task_score of each trial that was graded

runVars == <<round, answer, recorded, error, texts>>
worldVars == <<cwd, services, container, written>>
benchVars == <<time, budget, deadline, stage, agent, runVars, worldVars, scored>>

Trial == Len(scored) + 1
Saying(role, r) == Append(texts, <<role, r>>)

(* --------------------------- a trial, around the run ---------------------- *)

\* ServiceManager.__enter__; without services there is no trial.
StartServices ==
  /\ stage = "begin" /\ Len(scored) < Trials
  /\ \/ services' = TRUE /\ stage' = IF Container THEN "container" ELSE "run"
     \/ stage' = "failed" /\ UNCHANGED services
  /\ UNCHANGED <<time, budget, deadline, agent, runVars, cwd, container, written, scored>>

\* start_container, inject_files: a failure of either goes to the finally.
StartContainer ==
  /\ stage = "container"
  /\ \/ container' = "task" /\ stage' = "run"
     \/ container' = "empty" /\ stage' = "abandon"
     \/ container' = "none" /\ stage' = "abort"
  /\ UNCHANGED <<time, budget, deadline, agent, runVars, cwd, services, written, scored>>

\* run_one begins: the Deadline, the prompt as the first text, and the Budget
\* that shares the Deadline's clock.
BeginRun ==
  /\ stage = "run"
  /\ LET usable == Most(Left(Seconds, Margin), 1)
     IN /\ deadline' = [hard |-> time + 5 * usable, wrap |-> time + 4 * usable]
        /\ budget' = Until(time + 5 * usable, time)
  /\ texts' = <<<<"user", 0>>>>
  /\ round' = 0 /\ answer' = 0 /\ recorded' = FALSE /\ error' = FALSE
  /\ stage' = "rounds" /\ agent' = "open" /\ cwd' = "workspace"
  /\ UNCHANGED <<time, services, container, written, scored>>

(* ------------------------------ a round of the agent ---------------------- *)

InRound == stage = "rounds"

\* Time passes with a call, of a model or of the simulated user.
Waits(costs) == \E d \in costs : time' = time + 5 * d

\* _call: a request of the run's, which its budget counts.
Request(costs) == Waits(costs) /\ budget' = Spent1(budget)

\* The graph ends, or raises and what it has is salvaged; only what run_pipeline
\* does around the graph raises out of it.
GraphEnds == \/ agent' = "ended" /\ answer' \in {0, round + 1}
             \/ agent' = "raised" /\ UNCHANGED answer

\* A round writes its criteria, with no look at the budget: then comes the loop,
\* or the one reply to a greeting; one that fails, before the loop, is of its time.
OpenRound ==
  /\ InRound /\ agent = "open"
  /\ \/ Request(OtherCosts) /\ agent' \in {"first", "last"} /\ UNCHANGED answer
     \/ GraphEnds /\ UNCHANGED <<time, budget>>
  /\ UNCHANGED <<deadline, stage, round, recorded, error, texts, worldVars, scored>>

\* Before each call the loop looks at the budget: it ends, with what it has or
\* one more request for it, or goes on with the notes that are due.
Look ==
  /\ InRound /\ agent \in {"first", "look"}
  /\ IF IsSpent(budget, time)
     THEN /\ \/ agent' = "last" /\ UNCHANGED answer
             \/ GraphEnds
          /\ UNCHANGED budget
     ELSE budget' = Looked(budget, time) /\ agent' = "call" /\ UNCHANGED answer
  /\ UNCHANGED <<time, deadline, stage, round, recorded, error, texts, worldVars, scored>>

\* A call of the loop: it asks for a tool, answers or fails, which the judge is
\* to see, or ends the run with a question to nobody.
Call ==
  /\ InRound /\ agent = "call"
  /\ Request(StepCosts)
  /\ \/ agent' \in {"tool", "judge"} /\ UNCHANGED answer
     \/ GraphEnds
  /\ UNCHANGED <<deadline, stage, round, recorded, error, texts, worldVars, scored>>

\* An exchange of the judge's, with a tool or without, or its provider's failure:
\* not when the budget is spent, and without a note that it soon will be.
JudgeLooks ==
  /\ InRound /\ agent = "judge" /\ ~IsSpent(budget, time)
  /\ budget' = Spent1(budget)
  /\ \E d \in OtherCosts, e \in StepCosts \cup {0} : time' = time + 5 * (d + e)
  /\ UNCHANGED <<deadline, stage, agent, runVars, worldVars, scored>>

\* Its verdict, in the exchanges or for one more request: the loop begins another
\* stretch, or the run ends, with a lesson or without.
JudgeSays ==
  /\ InRound /\ agent = "judge"
  /\ Request(OtherCosts) \/ UNCHANGED <<time, budget>>
  /\ \/ agent' \in {"first", "last"} /\ UNCHANGED answer
     \/ GraphEnds
  /\ UNCHANGED <<deadline, stage, round, recorded, error, texts, worldVars, scored>>

\* The request a run ends with, spent or not: the answer of a loop that is out of
\* budget, the reply to a greeting, the lesson of what was judged.
LastRequest ==
  /\ InRound /\ agent = "last"
  /\ Request(OtherCosts) /\ GraphEnds
  /\ UNCHANGED <<deadline, stage, round, recorded, error, texts, worldVars, scored>>

\* Deadline.check: past either stage a tool refuses; it never raises.
Refusal == CASE time >= deadline.hard -> "spent"
             [] time < deadline.hard /\ time >= deadline.wrap -> "wrap_up"
             [] OTHER -> "none"

\* json_body: the text from the first brace to the last, if that is one object.
JsonBody(body) == body.object

\* validate_against: no required field is missing, none is unknown to a schema
\* that lists any, and each has its type and one of its values.  A boolean is no
\* number; an integer is one.
HasType(v, type) == type = "any" \/ v.type = type \/ (v.type = "integer" /\ type = "number")
Fits(fields) ==
  /\ Schema.required \subseteq DOMAIN fields
  /\ \A k \in DOMAIN fields :
       IF k \in DOMAIN Schema.properties
       THEN LET spec == Schema.properties[k]
            IN HasType(fields[k], spec.type) /\ (spec.enum = {} \/ fields[k].value \in spec.enum)
       ELSE DOMAIN Schema.properties = {}

\* One of the task's tools: refused by the clock, by the shape of its body, or
\* dispatched to its service.
Tool ==
  /\ InRound /\ agent = "tool"
  /\ \E body \in Bodies :
       IF Refusal # "none" \/ ~JsonBody(body) \/ ~Fits(body.fields) THEN UNCHANGED time
       ELSE \E d \in StepCosts \cup {0} : time' = time + 5 * d
  /\ agent' = "look"
  /\ UNCHANGED <<budget, deadline, stage, runVars, worldVars, scored>>

\* A command in the task's container: a shell of its own that begins where the
\* last one ended, and says where it ends unless it is cut short.
Shell ==
  /\ InRound /\ agent = "tool" /\ container # "none"
  /\ IF Refusal # "none" THEN UNCHANGED <<time, cwd>>
     ELSE /\ \E d \in StepCosts \cup {0} : time' = time + 5 * d
          /\ cwd' \in {cwd, "elsewhere"}
  /\ agent' = "look"
  /\ UNCHANGED <<budget, deadline, stage, runVars, services, container, written, scored>>

(* ------------------------------ between the rounds ------------------------ *)

\* The round's answer is recorded, and the simulated user is out of rounds or,
\* which takes a call of its own model, done, replies or raises.
NextRound ==
  /\ InRound /\ agent = "ended"
  /\ LET told == IF answer # 0 THEN Saying("assistant", answer) ELSE texts
     IN \/ /\ texts' = told /\ recorded' = (recorded \/ answer # 0)
           /\ stage' = "trace" /\ agent' = "idle"
           /\ \/ round < Rounds /\ Waits(OtherCosts)
              \/ UNCHANGED time
           /\ UNCHANGED round
        \/ /\ round < Rounds /\ Waits(OtherCosts)
           /\ texts' = Append(told, <<"user", round + 1>>)
           /\ round' = round + 1 /\ recorded' = FALSE
           /\ agent' = "open" /\ UNCHANGED <<stage>>
        \/ /\ round < Rounds /\ Waits(OtherCosts)
           /\ texts' = told /\ recorded' = (answer # 0)
           /\ agent' = "raised" /\ UNCHANGED <<round, stage>>
  /\ UNCHANGED <<budget, deadline, answer, error, worldVars, scored>>

\* The run, or the simulated user, raises: what is there is recorded if this
\* round has not recorded it.
Raised ==
  /\ InRound /\ agent = "raised"
  /\ error' = TRUE
  /\ texts' = IF answer # 0 /\ ~recorded THEN Saying("assistant", answer) ELSE texts
  /\ stage' = "trace" /\ agent' = "idle"
  /\ UNCHANGED <<time, budget, deadline, round, answer, recorded, worldVars, scored>>

(* --------------------------- a trial, after the run ----------------------- *)

\* The trace is written whatever the run did.
WriteTrace ==
  /\ stage = "trace"
  /\ written' = TRUE
  /\ stage' = IF container = "none" THEN "grade" ELSE "graders"
  /\ UNCHANGED <<time, budget, deadline, agent, runVars, cwd, services, container, scored>>

\* inject_grader_files and the snapshot, either of which may raise.
InjectGraders ==
  /\ stage = "graders"
  /\ container' \in {"graders", "task"}
  /\ stage' \in {"stop", "abandon"}
  /\ UNCHANGED <<time, budget, deadline, agent, runVars, cwd, services, written, scored>>

\* Mutant of StopContainer: only a trial that went well stops its container.
StopIfWell ==
  /\ stage \in {"stop", "abandon"}
  /\ container' = IF stage = "stop" THEN "none" ELSE container
  /\ stage' = IF stage = "stop" THEN "grade" ELSE "abort"
  /\ UNCHANGED <<time, budget, deadline, agent, runVars, cwd, services, written, scored>>

\* finally: stop_container; then on to the grading, or out with the exception.
StopContainer ==
  /\ stage \in {"stop", "abandon"}
  /\ container' = "none"
  /\ stage' = IF stage = "stop" THEN "grade" ELSE "abort"
  /\ UNCHANGED <<time, budget, deadline, agent, runVars, cwd, services, written, scored>>

\* grade, with the services still up; a grader may raise.
Grade ==
  /\ stage = "grade"
  /\ \/ \E s \in Scores : scored' = Append(scored, s) /\ stage' = "close"
     \/ stage' = "abort" /\ UNCHANGED scored
  /\ UNCHANGED <<time, budget, deadline, agent, runVars, worldVars>>

\* ServiceManager.__exit__: the next trial, the report, or the exception goes
\* out of run_task_file with whatever was scored before.
Leave ==
  /\ stage \in {"close", "abort"}
  /\ services' = FALSE /\ written' = FALSE
  /\ stage' = IF stage = "abort" THEN "failed"
              ELSE IF Len(scored) < Trials THEN "begin" ELSE "report"
  /\ time' = 0 /\ texts' = <<>> /\ round' = 0 /\ answer' = 0
  /\ recorded' = FALSE /\ error' = FALSE
  /\ budget' = NoBudget /\ deadline' = [hard |-> 0, wrap |-> 0] /\ cwd' = "workspace"
  /\ UNCHANGED <<agent, container, scored>>

\* sorted(scored)[len // 2]
Middle(scores) == CHOOSE m \in Scores :
  LET below == Cardinality({i \in DOMAIN scores : scores[i] < m})
      upTo  == Cardinality({i \in DOMAIN scores : scores[i] <= m})
  IN below <= Len(scores) \div 2 /\ Len(scores) \div 2 < upTo

\* The next task.
NextTask ==
  /\ stage \in {"report", "failed"}
  /\ stage' = "begin" /\ scored' = <<>>
  /\ UNCHANGED <<time, budget, deadline, agent, runVars, worldVars>>

BenchInit ==
  /\ time = 0 /\ budget = NoBudget /\ deadline = [hard |-> 0, wrap |-> 0]
  /\ stage = "begin" /\ agent = "idle"
  /\ round = 0 /\ answer = 0 /\ recorded = FALSE /\ error = FALSE /\ texts = <<>>
  /\ cwd = "workspace" /\ services = FALSE /\ container = "none" /\ written = FALSE /\ scored = <<>>

BenchNext ==
  \/ StartServices \/ StartContainer \/ BeginRun
  \/ OpenRound \/ Look \/ Call \/ Tool \/ Shell \/ JudgeLooks \/ JudgeSays \/ LastRequest
  \/ NextRound \/ Raised
  \/ WriteTrace \/ InjectGraders \/ StopContainer \/ Grade \/ Leave \/ NextTask

BenchSpec == BenchInit /\ [][BenchNext]_benchVars

(* -------------------------------- properties ------------------------------ *)

\* Types of the harness.
BenchTypeOK ==
  /\ stage \in {"begin", "container", "run", "rounds", "trace", "graders", "stop",
                "abandon", "grade", "close", "abort", "report", "failed"}
  /\ agent \in {"idle", "open", "first", "look", "call", "tool", "judge", "last", "ended",
                "raised"}
  /\ container \in {"none", "empty", "task", "graders"} /\ cwd \in {"workspace", "elsewhere"}
  /\ round \in 0..Rounds /\ answer \in 0..Rounds + 1

\* _run_task_once: while an agent runs, the grader's files are not in its
\* container, the trace it is graded by is written and complete, and nothing is
\* up any more when the next trial, or the next task, begins.
LifecycleHolds ==
  /\ InRound => container # "graders" /\ services
  /\ stage = "grade" => written /\ services /\ container = "none"
  /\ stage \in {"begin", "report", "failed"} => ~services /\ container = "none"
  /\ stage = "report" => Len(scored) = Trials

\* budget.py:23, wrap_up_once: a stretch of the loop that the budget cuts short
\* was told to finish before, in it or in an earlier one, when no call of the loop
\* and the tool behind it take together as long as the last fifth; however long
\* the rubric, the judge and the user took before the stretch.  One that begins on
\* a spent budget is not told: it makes no call that could be.
ToldBeforeStopped ==
  InRound /\ agent = "look" /\ IsSpent(budget, time) => budget.warned

\* run_one: what the trace says the agent answered to a text of the user is the
\* answer of that round, in order, once; unless a later round raised.
TextsAreOwn ==
  LET mine(r) == {i \in DOMAIN texts : texts[i] = <<"assistant", r + 1>>}
      asks(r) == {i \in DOMAIN texts : texts[i] = <<"user", r>>}
  IN /\ \A r \in 0..Rounds : Cardinality(asks(r)) = IF texts # <<>> /\ r <= round THEN 1 ELSE 0
     /\ ~error => \A r \in 0..Rounds : \A i \in mine(r) :
                    texts[i - 1] = <<"user", r>> /\ Cardinality(mine(r)) = 1

\* Budget.until: the budget never outlives the deadline whose clock it shares.
WithinDeadline == stage = "rounds" =>
  budget.hard <= deadline.hard /\ budget.wrap <= deadline.wrap

\* phase, begin_turn, _affordable_turns: a phase is never left backwards by a
\* call or by time; the shares of the turns that can be paid for fit into what
\* is left, and none is too small to answer with.
Grades == [ok |-> 0, wrap_up |-> 1, spent |-> 2]
BudgetsAddUp == \A max \in 0..12, units \in 0..6, calls \in 0..6, turns \in 0..4 :
  LET b == [(IF units = 0 THEN NoBudget ELSE Of(units, 0)) EXCEPT !.max = max, !.calls = calls]
      t == BeginTurn(b, 0, turns)
      n == Affordable(b, 0, turns)
  IN /\ \A c \in {b, t} : /\ Grades[Phase(c, 0)] <= Grades[Phase(c, 1)]
                           /\ Grades[Phase(c, 0)] <= Grades[Phase(Spent1(c), 0)]
     /\ max # 0 => /\ t.turnMax - calls >= MinTurnCalls
                   /\ n > 1 => n * (t.turnMax - calls) <= max - calls
     /\ units # 0 => /\ t.turnHard >= 5 * MinTurnUnits
                     /\ n > 1 => n * t.turnHard <= b.hard

\* run_task_file: the run reported has as good a score as the half below it and
\* no better than the half above; each trial's ports are its own.
MiddleIsAMedian ==
  stage = "report" =>
    LET m == Middle(scored)
    IN /\ 2 * Cardinality({i \in 1..Trials : scored[i] <= m}) >= Trials
       /\ 2 * Cardinality({i \in 1..Trials : scored[i] >= m}) >= Trials
PortsAreOwn == \A i, j \in 1..Trials : i < j => i * Stride + Services <= j * Stride

\* toolkit.py, validate_against: what is dispatched is what the service's schema
\* takes, each field read by itself; a call of one object with the fields asked
\* for, of the schema's own kinds, is never refused.
Takes(fields) ==
  /\ \A k \in Schema.required : k \in DOMAIN fields
  /\ \A k \in DOMAIN fields \cap DOMAIN Schema.properties :
       LET spec == Schema.properties[k]
       IN /\ spec.type = "boolean" <=> fields[k].type = "boolean"
          /\ spec.type = "string" <=> fields[k].type = "string"
          /\ spec.type = "integer" => fields[k].type # "number"
          /\ fields[k].value \in spec.enum \/ spec.enum = {}
FitsIsSound == \A b \in Bodies :
  b.object /\ DOMAIN b.fields \subseteq DOMAIN Schema.properties
    => (Fits(b.fields) <=> Takes(b.fields))

\* All of these; what is said of the budgets and bodies, before a run has any.
BenchInv == /\ BenchTypeOK /\ LifecycleHolds /\ ToldBeforeStopped /\ TextsAreOwn
            /\ WithinDeadline /\ MiddleIsAMedian /\ PortsAreOwn
            /\ (stage = "run" /\ scored = <<>> => BudgetsAddUp /\ FitsIsSound)

\* claw_bench.py:712: "recording it twice would let a grader count the same text
\* as two turns".  False of the code: a round that raises leaves the answer of
\* the round before in the local, with `answer_recorded` reset.
RecordedOnce == \A i, j \in DOMAIN texts :
  texts[i] = texts[j] => i = j

\* The same of every stretch.  False of the code: the judge, the rubric and the
\* user may take the time from before the wrap-up to past the end.
ToldBeforeEnded == InRound /\ agent \in {"first", "look"} /\ IsSpent(budget, time)
  => budget.warned

\* budget.py, until: "so the two cannot disagree about when the task ends".
\* False of the code: the margin is taken twice.
ClocksAgree == stage = "rounds" => budget.hard = deadline.hard
=============================================================================
