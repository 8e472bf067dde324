--------------------------- MODULE SessionHandle ---------------------------
(***************************************************************************)
(* One conversation handle of the library (agent/embed.py SessionHandle):  *)
(* run() drives a whole turn on the thread that calls it, answer() and     *)
(* cancel() come from any other thread.                                    *)
(*                                                                         *)
(* A critical section of _lock is one action; what happens between two of  *)
(* them interleaves with every other thread.  The graph is what run_pipe-  *)
(* line_stream may do next: poll for a cancellation before a model call,   *)
(* ask, finish or fail.  All the questions of one turn share the turn's    *)
(* thread id (run.py _graph_thread_id), so a turn's number stands for it;  *)
(* an answer is the number of the question it was accepted for, 0 is None. *)
(***************************************************************************)
EXTENDS Naturals, FiniteSets

CONSTANTS
  Threads,    \* threads that may call run() on this handle
  MaxTurns,   \* bound: turns begun in one behaviour
  MaxAsks     \* bound: questions asked in one behaviour

ASSUME ThreadsAssumption == IsFiniteSet(Threads)
ASSUME BoundsAssumption == MaxTurns \in Nat /\ MaxAsks \in Nat

VARIABLES
  running,    \* _running
  cancelled,  \* whether the Event in _cancel is set
  pending,    \* _pending_thread, 0 for None
  ready,      \* whether _answer_ready is set
  answer,     \* _answer
  pc,         \* where each thread is inside run()
  turn,       \* turns begun; the thread id of the latest
  mine,       \* the turn each thread is driving
  question,   \* questions asked
  silent,     \* turns that ended with no text of Otto's
  human, otto, listed,   \* record_turn: the two sides, and the session index
  finals, errors         \* turns whose terminal event has been sent

handle == <<running, cancelled, pending, ready, answer>>
record == <<silent, human, otto, listed>>
told   == <<finals, errors>>
vars   == <<handle, pc, turn, mine, question, record, told>>

Turns == 1..MaxTurns

-----------------------------------------------------------------------------
Init ==
  /\ running = FALSE /\ cancelled = FALSE /\ pending = 0
  /\ ready = FALSE /\ answer = 0
  /\ pc = [w \in Threads |-> "out"] /\ mine = [w \in Threads |-> 0]
  /\ turn = 0 /\ question = 0
  /\ silent = {} /\ human = {} /\ otto = {} /\ listed = {}
  /\ finals = {} /\ errors = {}

Goto(w, from, to) == pc[w] = from /\ pc' = [pc EXCEPT ![w] = to]

\* Mutant of Run: the check for a running turn is left to the caller.
RunUnchecked(w) ==
  /\ turn < MaxTurns
  /\ Goto(w, "out", "graph")
  /\ running' = TRUE /\ cancelled' = FALSE /\ pending' = 0 /\ ready' = FALSE
  /\ turn' = turn + 1
  /\ mine' = [mine EXCEPT ![w] = turn + 1]
  /\ UNCHANGED <<answer, question, record, told>>

\* run: refused while another thread's turn is running; a new cancel Event.
Run(w) ==
  /\ ~running /\ turn < MaxTurns
  /\ Goto(w, "out", "graph")
  /\ running' = TRUE /\ cancelled' = FALSE /\ pending' = 0 /\ ready' = FALSE
  /\ turn' = turn + 1
  /\ mine' = [mine EXCEPT ![w] = turn + 1]
  /\ UNCHANGED <<answer, question, record, told>>

\* _call polls check_cancelled before it spends anything.
Poll(w) ==
  /\ cancelled
  /\ Goto(w, "graph", "stopped")
  /\ UNCHANGED <<handle, turn, mine, question, record, told>>

\* The graph interrupts for a question: nothing is polled on that path.
Interrupt(w) ==
  /\ question < MaxAsks
  /\ Goto(w, "graph", "asking")
  /\ UNCHANGED <<handle, turn, mine, question, record, told>>

\* Mutant of Ask: what an earlier question left behind is not cleared.
AskUncleared(w) ==
  /\ Goto(w, "asking", "asked")
  /\ pending' = mine[w]
  /\ question' = question + 1
  /\ UNCHANGED <<running, cancelled, ready, answer, turn, mine, record, told>>

\* _wait_for_answer, first critical section.
Ask(w) ==
  /\ Goto(w, "asking", "asked")
  /\ pending' = mine[w] /\ answer' = 0 /\ ready' = FALSE
  /\ question' = question + 1
  /\ UNCHANGED <<running, cancelled, turn, mine, record, told>>

\* The ask event, and the wait that follows it.
Wait(w) ==
  /\ Goto(w, "asked", "wait")
  /\ UNCHANGED <<handle, turn, mine, question, record, told>>

\* The host's callback raises (its event loop has gone); so does the error
\* event that follows, and run() unwinds through its finally clause.
Unheard(w) ==
  /\ Goto(w, "asked", "leaving")
  /\ UNCHANGED <<handle, turn, mine, question, record, told>>

Wake(w) ==
  /\ ready
  /\ Goto(w, "wait", "woken")
  /\ UNCHANGED <<handle, turn, mine, question, record, told>>

\* _wait_for_answer, second critical section: Cancelled, or the graph resumes.
TakeAnswer(w) ==
  /\ Goto(w, "woken", IF cancelled THEN "stopped" ELSE "graph")
  /\ pending' = 0
  /\ UNCHANGED <<running, cancelled, ready, answer, turn, mine, question, record, told>>

\* The error event of a turn that was cancelled.
Stop(w) ==
  /\ Goto(w, "stopped", "leaving")
  /\ errors' = errors \cup {mine[w]}
  /\ UNCHANGED <<handle, turn, mine, question, record, finals>>

\* The error event of a turn whose graph raised.
Fail(w) ==
  /\ Goto(w, "graph", "leaving")
  /\ errors' = errors \cup {mine[w]}
  /\ UNCHANGED <<handle, turn, mine, question, record, finals>>

\* The stream ends, with or without a final text.
Finish(w, text) ==
  /\ Goto(w, "graph", "record")
  /\ silent' = IF text THEN silent ELSE silent \cup {mine[w]}
  /\ UNCHANGED <<handle, turn, mine, question, human, otto, listed, told>>

\* record_turn: the person's message, Otto's if there is one, the index row.
RecordHuman(w) ==
  /\ Goto(w, "record", IF mine[w] \in silent THEN "index" ELSE "reply")
  /\ human' = human \cup {mine[w]}
  /\ UNCHANGED <<handle, turn, mine, question, silent, otto, listed, told>>

RecordReply(w) ==
  /\ Goto(w, "reply", "index")
  /\ otto' = otto \cup {mine[w]}
  /\ UNCHANGED <<handle, turn, mine, question, silent, human, listed, told>>

Index(w) ==
  /\ Goto(w, "index", "final")
  /\ listed' = listed \cup {mine[w]}
  /\ UNCHANGED <<handle, turn, mine, question, silent, human, otto, told>>

\* An append that compacts calls a model, and both stores may be closed: the
\* exception leaves run() itself, which has no handler around record_turn.
RecordRaises(w) ==
  /\ \E from \in {"record", "reply", "index"} : Goto(w, from, "leaving")
  /\ UNCHANGED <<handle, turn, mine, question, record, told>>

Final(w) ==
  /\ Goto(w, "final", "leaving")
  /\ finals' = finals \cup {mine[w]}
  /\ UNCHANGED <<handle, turn, mine, question, record, errors>>

\* run()'s finally clause.
Leave(w) ==
  /\ Goto(w, "leaving", "out")
  /\ running' = FALSE /\ pending' = 0
  /\ UNCHANGED <<cancelled, ready, answer, turn, mine, question, record, told>>

\* Mutant of Answer: the waiting thread is not woken.
AnswerUnset(t) ==
  /\ pending = t
  /\ answer' = question
  /\ UNCHANGED <<running, cancelled, pending, ready, pc, turn, mine, question, record, told>>

\* answer(), when it returns True.
Answer(t) ==
  /\ pending = t
  /\ answer' = question /\ ready' = TRUE
  /\ UNCHANGED <<running, cancelled, pending, pc, turn, mine, question, record, told>>

\* cancel(), at any time: before the first turn there is no Event to set.
Cancel ==
  /\ cancelled' = (cancelled \/ turn > 0)
  /\ ready' = TRUE
  /\ UNCHANGED <<running, pending, answer, pc, turn, mine, question, record, told>>

InGraph(w) ==
  \/ Poll(w) \/ Interrupt(w) \/ Fail(w)
  \/ \E text \in BOOLEAN : Finish(w, text)
Asking(w) == Ask(w) \/ Wait(w) \/ Unheard(w) \/ Wake(w) \/ TakeAnswer(w)
Ending(w) ==
  \/ Stop(w) \/ RecordHuman(w) \/ RecordReply(w) \/ Index(w) \/ RecordRaises(w)
  \/ Final(w) \/ Leave(w)

\* What a thread inside run() does next.
Step(w) == InGraph(w) \/ Asking(w) \/ Ending(w)

Host == Cancel \/ \E t \in Turns : Answer(t)

Next == Host \/ \E w \in Threads : Run(w) \/ Step(w)

Spec == Init /\ [][Next]_vars

\* A thread that can go on does, and every model call returns.
Scheduled == \A w \in Threads : WF_vars(Step(w))

\* Nobody has to answer.
ScheduledSpec == Spec /\ Scheduled

\* A person who is asked answers in the end.
AnsweringSpec == Spec /\ Scheduled /\ WF_vars(\E t \in Turns : Answer(t))

-----------------------------------------------------------------------------
(* Properties *)

Places == {"out", "graph", "asking", "asked", "wait", "woken", "stopped",
           "record", "reply", "index", "final", "leaving"}

\* Every variable has the type the code gives it, and a thread driving a turn
\* has a turn.
TypeOK ==
  /\ running \in BOOLEAN /\ cancelled \in BOOLEAN /\ ready \in BOOLEAN
  /\ pending \in 0..MaxTurns /\ turn \in 0..MaxTurns
  /\ question \in Nat /\ answer \in 0..question
  /\ pc \in [Threads -> Places] /\ mine \in [Threads -> 0..MaxTurns]
  /\ \A w \in Threads : pc[w] # "out" => mine[w] \in Turns
  /\ {silent, human, otto, listed, finals, errors} \subseteq SUBSET Turns

\* One turn runs at a time, and the handle says so for as long as it does:
\* record_turn writes the same queue the next turn reads (embed.py run).
OneTurnAtATime ==
  \A v, w \in Threads :
    pc[v] # "out" => running /\ (pc[w] # "out" => v = w)

\* A question is only open while its own turn runs, so that no answer given
\* later is accepted (embed.py answer: "False when no question with that
\* thread id is pending").
NoQuestionOutlivesItsTurn ==
  pending # 0 => \E w \in Threads : pc[w] # "out" /\ mine[w] = pending

\* When the final event is sent, both sides are in memory and the session is
\* in the index a host lists sessions from (shell.py record_turn: "a session
\* the index does not know is one /resume cannot find").
FinalMeansRemembered ==
  \A t \in finals : t \in human \cap listed /\ (t \in otto \/ t \in silent)

\* What holds of a handle at every moment, whoever calls it: two threads
\* never drive its turns at once, no question is open between turns, and what
\* was said to be final is remembered.
HandleInv ==
  /\ TypeOK
  /\ OneTurnAtATime
  /\ NoQuestionOutlivesItsTurn
  /\ FinalMeansRemembered

\* A turn only goes on with an answer accepted for the very question it
\* asked: never with one for an earlier question of the turn or of another
\* turn, and never with none (embed.py _wait_for_answer).
AnswerMeetsItsQuestion ==
  [][\A w \in Threads :
       pc[w] = "woken" /\ pc'[w] = "graph" => answer = question]_vars

\* Every turn ends, whatever is cancelled and however the calls interleave,
\* as long as the person answers: a cancel that comes while a question is
\* being put is not what the turn hangs on then.
TurnsEnd == running ~> ~running

\* embed.py says of the wait for an answer that "cancel() releases that wait
\* too, so a cancelled run never hangs on a question nobody will answer".
CancelledTurnsEnd == (running /\ cancelled) ~> ~running

\* embed.py run reports an exception of a provider as an event, which "must
\* not kill the host": a turn the host listened to ends in an event.
FailuresAreEvents ==
  \A w \in Threads :
    pc[w] = "leaving" /\ pending = 0 => mine[w] \in finals \cup errors
=============================================================================
