# A verification development for Otto

Otto (`src/agent/`) is a personal agent: a turn of a person's becomes a run of a
small graph of nodes, the nodes talk to language models of several vendors, call
tools, remember what was said in a two-tier memory, and are driven from a
terminal, a command line, a library handle or a WebSocket server that may have a
phone behind it. This directory holds TLA+ modules that model the parts of it
where order matters, the TLC configurations that check them, and TLAPS proofs of
the results that hold whatever the size of the instance.

Contents

1. [The system](#1-the-system): components, their state, how they interact
2. [What is hard about it](#2-what-is-hard-about-it)
3. [The modules and the code](#3-the-modules-and-the-code)
4. [What is checked](#4-what-is-checked)
5. [Fairness](#5-fairness)
6. [What is proved](#6-what-is-proved)
7. [Divergences](#7-divergences): where the code does not do what it says
8. [What is not modelled](#8-what-is-not-modelled)
9. [Plan](#9-plan)
10. [Running it](#10-running-it)

`PROJECT.json` is the index: components, runs, mutants, the lines of source each
definition stands for, hazards and theorems. Paths below are under `src/agent/`.

## 1. The system

| Component | Source | State it keeps | Operations |
|---|---|---|---|
| Tiered memory | `memory/queue.py`, `memory/store.py`, `memory/wiring.py` | the queue object: X (verbatim), Y (demoted raw items and bullets), a generation count; one SQLite file: pending rows, chunks, bullets | append a turn, demote, compact through a model, shed, restore |
| Session index | `memory/sessions.py`, `cli/shell.py` | `sessions.db`, one row per session; a memory file per session | new, resume, record a turn, rename, delete, prune, export, import |
| Library handle | `embed.py` (`SessionHandle`) | running flag, cancel Event, the pending question, its answer and the Event that says it is there | run, answer, cancel, close |
| Server | `server/app.py` | per connection: a table of handles, of turn futures, an ordered lane; one pool of turn workers for all | open, turn, close, delete, answer, cancel, settings, teardown |
| Phone proxy | `server/proxy.py` | ids, the table of waiting futures | call, resolve, fail all |
| Graph of a turn | `pipeline/nodes.py`, `run.py`, `research.py`, `state.py` | `AgentState`: transcript, answers, feedback, counters, outputs | the nodes agent, research, evaluator, ask_user; salvage |
| Checklist and judge | `pipeline/nodes.py` (`_rubric`, `evaluator`, `_tool_loop`) | criteria with a status each, the judge's exchanges, a verdict | rubric, route, note evidence, judge, settle |
| Conversation of a run | `pipeline/nodes.py` (`_compact`, `_fold_old_results`, `_seed_transcript`) | messages, the record of actions, chunks in the session's store | envelope, fold, compact, pause, revive |
| Research workflow | `pipeline/research.py` | outline, bodies, a ledger of facts, files in the workspace | outline, gather, write, check, revise, assemble, judge, reload |
| Lesson bank | `memory/lessons.py`, `phone/notes.py`, `nodes.py` (learning) | rows by kind, the threads still distilling | start, distil, record, prune, import, delete, close |
| Agent loop | `pipeline/nodes.py` (`_agent_loop`) | a conversation, the record of actions, the mode, the gate's confirmations, an evidence ledger | one reply of the model: answer, ask, call a tool, delegate, switch mode, garbage |
| Router and health | `router/router.py`, `router/health.py`, `llm_provider/base.py`, `pipeline/vision.py` | cooldowns and strikes of models and vendors, a breaker, a cached catalogue, retired models | resolve, chain, report of a call's outcome, reload |
| Pins and endpoints | `router/overrides.py`, `router/reload.py` | `routes.json`, the live table `_CHAINS`, `_ACTIVE` (pins by identity) | pin, clear, add or remove an endpoint, apply, reload |
| Temperature store | `llm_provider/temperature.py`, `nodes.py` (`_call`) | the models that refused a temperature, whole in every process and in `~/.otto/temperature.json` | policy, clamp, a refused request sent again, note, save |
| Seat outcomes | `router/outcomes.py` | a log of runs per task and model | record, reorder a chain, explore |
| Run budget | `pipeline/budget.py` | calls made, ceilings, what was said once | charge, phase, notes, share a turn |
| Tools | `pipeline/tools.py`, `pipeline/evidence.py` | the files of the workspace or container, a cached code map, the evidence ledger | read, edit, write, check, map, list what is offered |
| Walkthroughs | `pipeline/walkthrough.py`, `browsing.py`, `native.py` | a script, what it drives, its screens | parse, serve, run, open, act, expect, stop |
| Phone tools and guard | `phone/tools.py`, `phone/guard.py` | the held snapshot, its class of page, the memory of a window | screen, look, act, do, commit, open |
| Python session | `pipeline/python_session.py`, `_python_session_shim.py` | a child interpreter, its channel, whether it has state, calls served | run a snippet, evict, interrupt, kill, respawn, close |
| Terminal application | `cli/tui.py`, `cli/modals.py` | busy flag, screens, workers, the session, the transcript shown | submit, stop, new, resume, delete, import, rename, rate, pin, set up |
| Claw-Eval harness | `eval/claw_bench.py` | a trial: services, container, budget, deadline, trace | start, rounds, write the trace, grade, next trial |

How they meet:

* A front end (terminal, command line, or a `SessionHandle`, which the server has
  one of per open session) calls `run_pipeline_stream`, which drives the graph.
  The graph pauses by an interrupt when a node asks the person, and is resumed
  with the answer.
* The agent node runs the agent loop; every model call of either goes through the
  router, charges the run's budget, and reports its outcome to `Health`.
* At the end of a turn the front end calls `record_turn`: the two sides go into the
  tiered memory (which may compact, calling a model), then the row of the session
  index is touched. `_record_seat` tells the outcomes log which model did well.
* The settings of a running server (keys, pins, endpoints) change under the feet of
  graph threads: `reload_everything` throws provider instances away and re-applies
  `routes.json`.
* The phone and the Python session are tools of the loop: a call blocks the turn's
  thread until another thread, or another process, answers. What every tool did goes
  into the record of actions and the ledger; the checklist and the judge read both.
* A run reads lessons when it starts and leaves some when it ends, on a thread of its
  own after a phone run. A terminal and a server close without waiting for ever.

What makes each correct, in one line: the memory forgets nothing durable, at any
crash; the index lists only what can be resumed; a handle runs one turn, gives
each question its own answer and lets each turn end; a server keeps its tables and
open files in step through any teardown; a phone call gets its own result; the
graph stops within its bounds and hears every answer and rejection; the loop never
does what cannot be undone without showing its hold, and stops; the router always
finds a route there is; a pin holds; an order by evidence settles; an interpreter
that was replaced says so; a criterion is met by an approving verdict and by nothing
else; a conversation loses no word of the task; a revision loses no section; a bank
says the same thing once a run; a refused temperature is not sent again; a tool edits
the one place it was told; code that was changed and not run is remembered; a
walkthrough is clean only if the thing worked; what pays is never touched; one worker
at a time holds the session of a terminal; a benchmark grades what its agent left and
leaves nothing running.

## 2. What is hard about it

The hazards are listed in `PROJECT.json`, each at its line. By kind:

* **Crash between two commits.** Every method of the store commits on its own
  (`memory/store.py:231`), the index and the memory file are two databases
  (`memory/sessions.py:553`), and `routes.json` and the table of temperatures are
  written beside and renamed (`router/overrides.py:183`, `llm_provider/temperature.py:285`).
* **Threads over shared tables.** Cooldowns are read candidate by candidate while
  other threads report (`router/health.py:103`); the routing table is rebuilt in
  place (`router/overrides.py:288`); a handle is answered and cancelled from any
  thread (`embed.py:971`); a bank is read, thought about and then added to
  (`memory/lessons.py:345`).
* **Another program at the same files.** `code_map` reads one file after another while
  they change (`pipeline/tools.py:2055`); a prune meets a session that has just begun
  (`memory/sessions.py:322`).
* **Screens and workers.** A dialog names a session, a worker acts on it later
  (`cli/tui.py:1377`); the phone's screen moves under a tap (`phone/tools.py:449`).
* **Awaits.** A server handler checks, awaits the pool, and acts
  (`server/app.py:501`, `:652`).
* **Late, duplicated and lost messages.** Results of the phone
  (`server/proxy.py:65`) and frames of the interpreter
  (`pipeline/python_session.py:391`), both racing a timeout.
* **One step of several failing.** A section of a document (`pipeline/research.py:926`), a
  trial of a benchmark (`eval/claw_bench.py:967`), the summariser
  (`memory/queue.py:446`).
* **Bounds that add up.** Questions, rejections, judge failures and the recursion
  limit (`pipeline/nodes.py:1996`); a budget looked at between calls by two nested
  loops (`:2472`); a loop with no iteration cap (`:2460`).
* **Long legal sequences.** A hold, an escalation that wipes the conversation, and
  the call again (`:2888`); question, answer, rejection, question (`:3050`); a
  protected bullet through several generations (`memory/queue.py:425`); a criterion's
  status through rubric, evidence, verdicts and answers (`pipeline/nodes.py:3260`); stubs
  counted through pauses (`:2283`); a payment page scrolled past its total
  (`phone/guard.py:704`).

## 3. The modules and the code

One module per component, one action per handler or per stretch of code between
two points where something else may run. Definitions keep the names of the source
where TLA+ allows it. The `MC` modules give the constants their values. Six of them
are *sums*: a variable `part` says which of several small components runs, and the
others stand still, so that one run checks each of them at the cost of the sum of
their states and not of the product. The parts of a sum share no state; a property of
one of them is vacuous while another runs. A sum EXTENDs its parts, which have names of
their own for that (`IndexInit`, `AppSpec`, `GuardSpec`, `BankNext`), so that the property a run
checks is the very definition a theorem is about. A definition marked *Mutant of* is a
plausible bug, referred to from `PROJECT.json` and from nowhere else.

| MC module | Parts |
|---|---|
| `MCTieredQueue` | `TieredQueue`, `SessionIndex`, `Terminal` twice (screens over a turn; screens that change the session) |
| `MCAgentGraph` | `AgentGraph`, `LessonBank`, `Research`, `Judgment`, `Transcript` |
| `MCSeatOutcomes` | `SeatOutcomes`, `Toolbox`, `Benchmark` with `Budget` |
| `MCPythonSession` | `PythonSession`, `Walkthrough`, `Routes` |
| `MCSocketPhone` | `SocketPhone`, `PhoneGuard` |
| `MCSessionHandle` | `SessionHandle`, `Temperature` |
| `MCServe`, `MCAgentLoop`, `MCRouter`, `MCTerminal` | one component each |

| Module | Models | One action is |
|---|---|---|
| `TieredQueue` | queue, its SQLite file, `record_turn` as its caller | one commit of the store, or one reply of the summariser; `Crash` anywhere, `Restore` after it |
| `Remembered` | the abstract memory: a set that never loses an element | one element more |
| `SessionIndex` | all processes on the index and the memory files of a machine | one commit of either database, one rename or unlink of the file system |
| `SessionHandle` | `run`, `answer`, `cancel` of one handle | one critical section of `_lock`, one poll, one ending |
| `Serve` | connections of one server | one stretch of a handler between two awaits |
| `SocketPhone` | the device calls of one socket | one critical section, or one callback of the loop |
| `AgentGraph` | the nodes of a turn | one run of a node, with the `Command` it returns |
| `AgentLoop` | the loop inside the agent node, delegated loops included | one turn of the `while` |
| `Router` | resolve, the walk for an image, `Health`, the catalogue | one candidate asked, one list fetched, one outcome reported, one tick |
| `Routes` | edits of `routes.json`, the live table, a resolve that reads it | one system call of a save, one statement of `apply` |
| `SeatOutcomes` | the log and the order it gives a chain | one resolve, one record |
| `PythonSession` | parent and child of one interpreter | one wait, one frame, one step of the child |
| `LessonBank` | runs, imports, a person and a close on one bank of lessons and notes | one read, one model call, one commit |
| `Research` | a document from its outline to its last revision | one step of the workflow, with the calls it makes |
| `Judgment` | rubric, evidence, the judge's exchanges, the verdict and the checklist | one reply of a model, or one line of the record |
| `Transcript` | what becomes of the messages of a run | one call with its result, with the folding and compaction before it |
| `GuardRules`, `PhoneGuard` | the verdicts on a screen (pure); the phone's tools over a screen that moves | one thing sent to the phone, or one capture read |
| `Walkthrough` | a script driven through a shell, a page, a terminal or a device | one step of the script, or one thing that happens to what is driven |
| `Toolbox` | the tools over one tree of files, what the menu offers, the evidence ledger | one read or write of a file |
| `Temperature` | two processes that learn which models refuse a temperature | one request, one system call of a save |
| `Budget` | a budget as functions of it and the clock | (no state of its own) |
| `Positions` | what is left of a list at some of its positions, for `TieredQueue`, `LessonBank` and `Transcript` | (no state of its own) |
| `Benchmark` | three trials of one task of the Claw-Eval harness | one call, one stage of a trial |
| `Terminal` | the UI thread of the terminal application, its workers and its screens | one handler, or one stretch of a worker |

**TieredQueue.** `x`, `yRaw`, `yBullets`, `generation` are the fields of the object;
`pending`, `chunks`, `live`, `latest` are the tables (bullets that are superseded are
never read again, so only their highest generation is kept). `pc`, `turn`, `fresh` and
`step` are where `record_turn` stands. `RecordTurn`, `Append1`, `Mirror` and `Demote`
are the append path, `FlushChunk`, `Summarize`/`SummarizeRaises`, `WriteBullet`,
`Supersede` and `ClearPending` a compaction, in the order of
`_compact_y_if_full`. `NewBullets` is what that method computes between the two: the
parsed lines with the citations that exist, the items nobody cited, the protected
ones carried, and the shedding. The summariser may answer any set of lines citing any
prompt numbers, may answer nothing usable, and may raise. A message is its own hash;
its token count is a constant.

**SessionIndex.** `row` and `file` are the two databases, `proc[p]` is a process with
its `Session` object (which session, whether its connection is still on the file of
that name) and the operation it is in. A name that is unlinked under an open
connection is modelled by `Moved`: SQLite refuses the next write of that connection
("readonly database"), and the error leaves `record_turn`. A file holds a set of turns;
what a crash inside one does is `TieredQueue`'s business.

**SessionHandle.** `running`, `pending`, `ready`, `answer`, `cancelled` are the fields.
`pc[w]` is where a thread is inside `run`. The graph is what it may do next: poll
(`Poll`, where a cancellation is seen), ask (`Interrupt`, `Ask`), finish, fail. The
answer is the number of the question it was accepted for, so that an answer to another
question can be told from the right one.

**Serve.** `lane[c]` is the frame of the ordered lane that is waiting on an await;
`handles`, `store` and `job` are the table, the open files and the futures, `spare` a file
that is open by a handle of no table. A turn inside the pool is what SessionHandle details:
here it begins with a new cancel Event, may ask, and ends. `Disconnect` cancels the lane,
which takes back a call the ops pool has not begun and leaves one it has (`loose`) to run on;
`LooseEnds` is where that one comes to, with nobody to take what it returns. The teardown
waits for one future after the other (`WaitOver`), then closes handle by handle.

**SocketPhone.** `pending` and `future` are `_pending`, `held`/`word` are the futures the
loop has taken out of the table and not yet set, `outbox` and `inbox` are what is on
its way. The phone may answer late, twice, out of order or never.

**AgentGraph.** The variables are the fields of `AgentState` the control depends on; a
text is whether it is empty; `transcript` keeps, in order, the events that must reach
the conversation. `pauses`, `closed`, `answered`, `papers`, `produced` and `requested`
are history variables, for the properties.

**AgentLoop.** `frame` is the record of the locals of `_agent_loop`; `Delegate` pushes
the parent's into `parent` and opens one of its own, `Returns` and `HandsUp` pop it.
`Prepared` (compaction) is part of every turn of the loop, as in the code, not an
action of its own. A message is its kind, the call or target it is about, and
what it shows of one. The system messages are not in the list, but `Notes` of them count
among the first three that a restart keeps (`SeedOf`). What else spends the run's
budget is there as its requests: the rubric before the loop, and behind it the judge's
exchanges (`JudgeCalls`, which look at the ceiling), its verdict and the lesson (which do not).
A judge may ask for a verdict it has already given, which is one request more than the code
makes; how often it rejects is `AgentGraph`'s. A run that goes through research is in there.

**Router.** Time is what is left of each window and `Tick` takes one from all of
them, so that no clock needs a bound. `caller[c]` is where a thread is in `resolve`
(two passes), in `chain` and the walk of `vision.py`, or in a call. A report is two
statements (`NoteRateLimit`, `NoteExhausted` and `NoteTransportFailure`, then `Explains`): the window, and the
reason in words, which `resolve` reads to know whether a second pass is worth it. A record that
was told a reason once keeps it, so only the first report on one can be met half written.
`steady` (history) is the set of candidates that have been on offer ever since the thread began.

**Routes.** `routes`, `tmp` and `content` are directory entries and inodes, so that two
saves through one `.tmp` are what they are. `live` and `active` are `_CHAINS` and
`_ACTIVE`, changed one statement at a time (`Restore`, `ClearActive`, `Fresh`, `Place`,
`Hold`) while `turn` resolves. A save may raise at any of its system calls (`SaveFails`);
`set_pin` has applied by then, and `ahead` is the processes whose table has such a pin.

**SeatOutcomes.** Rates are compared by cross-multiplication, as fractions, not floats. The
passes of `reorder` are recursive functions (`Pass`, `Reordered`), one step per comparison.
`run` is one run from the seat it resolves to the row it is credited to.

**PythonSession.** `parent` is where the run's thread is, `child` the process and its
namespace (the set of calls whose definitions it still has), `frames` what `_pump`
has read. A snippet may hang, ignore the interrupt, forge frames, close its channel, or
die.

**LessonBank.** `bank` is the table, by kind; `run[a]` is what a run, or an import, is in
the middle of, with what it has read of the bank; `learning` is `nodes._LEARNING` and
`closing` the wait of `SessionHandle.close`. What the distiller answers is a constant;
similarity is a relation (`Near`), not a number.

**Research.** A body is its version, the code checks it fails and whether it ends in the
middle of a sentence; the ledger is a sequence of facts, each of a section and a
version, and is trimmed from its second on. Any call may fail and any file may fail to
be written. `before` and `todo` are what `_revise` read back from the workspace.

**Judgment.** A reply is the sequence of its lines, and a line what the parsers tell
apart. `Settle`, `NoteEvidence`, `ParseVerdict` and the rest are functions of these, so
that a mumbling judge, a truncated one and one that answers in prose are replies like
any other.

**Transcript.** A message is who said it, which call it is of, and how much of its text
is left. Folding and compaction are functions of the conversation and part of every
call, as in the code. `Restart` is the escalation: the conversation is its first three messages
again, the reply that asked for the switch, and the new mode's guidance. `Switch` is one that is
refused, or goes to a mode that is not deeper; which is which is `AgentLoop`'s, and here any may.

**PhoneGuard.** `screen` is what is in front and `snap` what Otto holds of it; `Drift` moves
the one without the other. What the regular expressions and the geometry find on a
screen is data (`GuardRules`); what is concluded from it is the code's.

**Walkthrough.** One action per verb and driver; `Die` and `Throw` happen to what is driven
between any two of them, and its screen may be another at each. `CloseWalk` stops a server and
a terminal's program (SIGTERM, a wait, SIGKILL); an app it only asks (`AsksIt`).

**Toolbox.** A text is a sequence of lines, each a word with an indentation and a trailing
blank, which is what the four matches of `_locate` differ in. `OtherWrites` is another
program between two steps of a tool. `proofs` is the history the ledger is compared with.

**Temperature.** `learned[p]` is the table of a process and `store`, `tmp` and `content`
are directory entries and inodes. `Facts` is what tables and catalogue say of a model,
`Truth` what its vendor does; nothing ties the two but that a model that is measured is
measured rightly.

**Benchmark.** `stage` is where a trial is, `agent` where the round is; the `Budget` and the
`Deadline` are computed from the clock as in the code, floors and margins included. On the
clock is all that is called: the loop and its tools (`StepCosts`), and the rubric, the judge, the
last request of a run and the simulated user (`OtherCosts`), none of whom a budget's note is
said to.

**Terminal.** `screens` is Textual's stack, `jobs` the workers that hold the session and
`pinning` the one that pins. A worker's step and a handler of the UI thread interleave at
will. One thing is assumed of Textual: while a modal screen is open, the application's own
keys and its palette do nothing.

### How they fit together

The modules meet at interfaces small enough to be stated twice rather than composed:

* `SessionHandle.Interrupt`/`TakeAnswer` are the pause and the resume of
  `AgentGraph.AgentAsks`/`JudgeAsks` and `Answer`; a graph seen from the handle is
  "poll, ask, finish or fail".
* `AgentGraph.AgentAnswers`, `AgentOutOfBudget`, `AgentAsks` and `AgentFails` are the ways the
  node leaves its loop, which are the values of `why` in `AgentLoop`: "final" and "dead"
  (both go to the judge), "budget", "ask" and "error".
* `SessionHandle.RecordHuman`, `RecordReply` and `Index` are `TieredQueue.RecordTurn`
  and `SessionIndex.Record`/`Touch`.
* `AgentGraph.EvaluatorRuns` and `ResearchRuns` are what `Judgment` and `Research` end
  in; `Transcript` is what `AgentLoop` keeps in a
  conversation, and the chunks it stores are `TieredQueue`'s.
* `SessionHandle`'s close, and the terminal's, wait as `LessonBank.Close` and `Waited` do.
* `AgentLoop`'s tools are `Toolbox`, `PythonSession`, `Walkthrough` and, with a phone,
  `PhoneGuard`, whose device calls are `SocketPhone`'s.
* `Terminal`'s resume, import and delete are `SessionIndex`'s; its rate is the trace id
  a turn left; its pins are `Routes`'.
* `Benchmark` drives the loop inside a `Budget`.
* `Serve.PoolStart`, `AskUser` and `TurnEnds` are a handle's `Run`, `Ask` and `Leave`.
* `Routes` fills the chain that `Router` takes as the constant `Chain`, `SeatOutcomes`
  the orders it takes as `Orders`.

A product of two of them has more states than it has new behaviours; where a property
needs both sides (a cancel of a turn that is queued, for one) the module that owns the
property carries the two or three variables of the other.

`TieredQueue` refines `Remembered` twice: with `kept` mapped to what the file can give
back (`Recoverable`), and with `kept` mapped to the words of the person it holds word
for word (`WordsHeld`). Both are properties of the run and theorems.

## 4. What is checked

Every passing run explores its whole state space. Sizes are distinct states; of a sum,
also of its parts.

| Run | States | Instance | Properties |
|---|---|---|---|
| `queue` | 992,968 | *queue* (67,569): one message of the person's, two of Otto's, X budget 1, Y budget 2, one usable line per reply, four messages; *index* (504,729 before symmetry): two processes, two ids, one exported elsewhere, two turns, one export; *turns* (89,792) and *screens* (298,366): two turns, one question, two screens; one turn, three sessions, two workspaces, six screens | `QueueInv`, `NothingForgotten`, `WordsNeverParaphrased`, `IndexInv`, `TurnsSurvive`, `AppInv` |
| `handle` | 325,804 | *handle* (169,254): two threads, three turns, three questions; *temperature* (156,550): two processes with two threads, three models that are called and eight that are looked up | `HandleInv`, `AnswerMeetsItsQuestion`, `TurnsEnd`, `TempInv` |
| `serve` | 592,176 | one connection, three sessions, a limit of two, one worker, two turns | `ServeInv`, `TeardownEnds` |
| `phone` | 422,997 | *socket*: two turns, three calls; *tools*: seven screens of a shop and a bank, two windows, three captures, two steps a call | `TableInv`, `DisconnectsReleaseCalls`, `PaymentIsLeftAlone`, `StepsStayOnTheirScreen` |
| `graph` | 1,067,786 | *graph*: the bounds of the code (3 questions, 2 rejections, 1 judge error, net of 30), with a workspace; *lessons*: two phone runs and an import, four texts of which two are alike and one about paying; *research*: two sections, seven calls, a ledger of two facts, one revision; *judgment*: three criteria, two exchanges, eleven kinds of reply; *transcript*: four calls, escalations among them, one pause, everything compacted at once | `TurnIsBounded`, `WordsAreHeard`, `BankInv`, `KeptIsBanked`, `ResearchInv`, `JudgeInv`, `TranscriptInv`, `WordsAreKept` |
| `loop` | 130,255 | two modes, one irreversible target, two notes, a ceiling of 3 requests, 1 rerun | `HeldBeforeIrreversible`, `TaskIsKnown`, `OverspendIsBounded`, `LoopEnds` |
| `router` | 1,392,211 | two threads, two vendors, keys that change, evidence that reorders | `NeverIntoNothing`, `OnlyAnAnswerForgives` |
| `router_live` | 120,262 | one thread, windows that double, a model withdrawn | `RoutingEnds`, `RecoveryRestores` |
| `seats` | 1,784,588 | *seats*: three candidates, two trusted runs, two costs, a margin of 3/4, exploration, one rejection; *tools*: three calls over one code file and one page of three or four lines, one write of another program; *bench* (1,213,850): three trials of up to two replies of the user, a timeout of 22 units, calls of 2 units in the loop and 4 elsewhere, tools of 2 or none | `SeatsInv`, `ToolsInv`, `MapIsFresh`, `BenchInv` |
| `pysession` | 1,559,271 | *session*: six calls, two per process, idleness, one forged frame; *walk*: every script of three steps, those of a shell or page of four; *routes* (1,484,057): one process, one editor of every kind of edit, one resolving thread, two tasks, restarts, saves that raise | `SessionInv`, `CallsReturn`, `WalkInv`, `RoutesInv` |
| `judge_closed` | (violated) | as `graph` | `FailsClosed` |
| `terminal_rated` | (violated) | two turns of one session and the dialog that rates | `RatedIsSeen` |

What an `Inv` of more than one part conjoins: `QueueInv` is `RefsResolve`, `FileMirrorsQueue`,
`ViewCoversFile` and `NoGenerationReused`; `HandleInv` one turn at a time, no question that
outlives its turn, and `FinalMeansRemembered`; `ServeInv` `TableInv`, `TurnsInv` and
`GoneLeavesNoTable`; `WalkInv` `CleanIsACheck` and `NothingLeftUnasked`;
`TurnIsBounded` `QuestionsAreBounded` and `StepsAreBounded`;
`WordsAreHeard` `AnswersAreHeardOnce` and `RejectionsAreHeard`; `RoutesInv` `FileInv`,
`LiveIsFile` and `PinsHold`; `SeatsInv` `UnmeasuredStay` and `Settled`; `SessionInv`
`AnswersAreOwn`, `NothingLostUntold` and `NothingIsLeft`; `TableInv` (of the phone)
`ReplyIsMine`, `NothingAwaitedIsRefused` and `NoEntryOutlivesItsCall`; `ToolsInv` `EditInv`
and `LedgerInv`. Most also hold the type invariant of their module.

What they show, and why the instance is big enough:

* **queue.** Four messages with budgets this tight run three compactions, so that
  bullets are compacted, carried, cited and shed, generations are superseded twice, and
  every commit of all of it is a crash point. Nothing the file could once give back is
  ever out of its reach, and with `Reabstract` as shipped the person's own words stay
  verbatim. A second message of the person's adds names, not behaviours: protection
  does not look at other items.
* **queue, index.** Each of the operations may be cut short after any commit, by either
  process, beside the other's. What the list shows can be resumed with at least the
  turns it counts, and only a delete takes a turn away. The run holds `Beside` empty:
  pruning, deleting and resuming keep off what another process is in, which the code
  does not enforce (section 7). Two ids are what an import needs to collide; two turns
  what a compaction needs to leave one behind.
* **queue, turns and screens.** Whatever is opened before, during and after a turn, at most
  one worker holds the session, the session and workspace of a turn are not changed under
  it, the file that is deleted is not the open one, a question is on the screen exactly
  while its turn waits, a stop pressed once the turn has its event is followed by no
  request, and every message is followed, undivided, by what belongs to it. The two
  instances split the screens by whether they end in a worker; three ids are the open
  session, another, and an imported one.
* **handle.** The second thread is what `RuntimeError("already running")` is for; three
  turns let a question of one outlive it into the next. `AnswerMeetsItsQuestion` is an
  action property: no thread goes on but with the answer to its own question.
* **serve.** Three sessions and a limit of two make the limit bite; one worker makes
  turns queue; the disconnect may fall between any two stretches of any handler, with
  the lane's call on the ops pool begun or not. Who is gone has no table and no handle of it
  open; that nothing else is open either is not so (section 7). `TeardownEnds` is about turns
  that never end: each wait of the teardown is left after its ten seconds, and the cut call,
  once begun, returns.
* **phone.** Three calls by two threads let one thread's late result meet another's
  call and its own next one. Of the tools: nothing that touches an element is sent on a
  window that showed itself to be a payment page, however far it was scrolled since, and
  the steps of one call keep to the app they were written for, each judged on a capture
  of its own. Two windows and three captures are a page, its scrolled self and another.
* **graph.** The bounds are the code's, so this part is not an approximation in them; a
  run has at most nine node runs between two pauses. `StepsAreBounded` is what makes the
  recursion limit a safety net only.
* **graph, lessons.** One run banks no lesson twice in other words, workspace and phone and
  apps never mix, a note about paying is not kept, what a run is told was kept is in the
  bank, and a loss is told. Two runs that end together do bank the same lesson twice; the
  invariant does not say otherwise.
* **graph, research.** The budget is passed by at most one attempt; the ledger has facts of
  accepted bodies only, and through all trimming the outline's and the last section's;
  a revision loses no section it could read back.
* **graph, judgment.** A criterion is met by the verdict that approved and by nothing
  else, a rejection gives a reason, and the judge runs one tool per call, with a body that
  no other directive is in.
* **graph, transcript.** A call and its result stay next to each other, in order, in
  whatever shape; the recent ones are whole; and what the run is for and was told is
  never rewritten, through folding, two compactions and a pause, nor dropped but by an
  escalation. That drops answers, rejections, holds and calls, all but what the first three
  messages say and the reply that asked for it, and it never happens at a pause.
* **loop.** Three requests, one of them the rubric's, and a rerun are enough for hold, escalate
  and call again, on a budget of its own or on what is left of it; hold, delegate, compact; and a
  resume of any of them. `CompactAt = 1` and `KeepVerbatim = 0` make compaction happen at the
  first opportunity. Two notes are the least with which an escalation loses the task: then the
  conversation begins with what the restart says instead, and otherwise with the task. The
  ceiling is passed by less than three calls, whoever makes them.
* **router.** With windows of one tick and a breaker of one failure every mix of
  evidence is a few steps away, for two threads at once, one of which may look between the
  two statements of the other's report; a resolve that did is the one exception to
  `NeverIntoNothing` (section 7). `router_live` has the
  doubling windows and the threshold of two instead, for one thread, since its
  properties are liveness.
* **pysession, routes.** Three inodes are what one editor with restarts can have at once. A
  restart may fall between any two system calls of a save, and any of them may raise. Between
  edits the table is the file's, but for a pin that was applied and not saved, until the next
  apply.
* **handle, temperature.** What is sent to a model the tables know is never refused and is
  the honoured value nearest to the one asked for; a refused temperature is not sent again
  by a call that begins after the note; what is remembered is true, whoever wrote it last;
  a model that is only particular about it is not hidden as withdrawn. One process may
  stop anywhere, two is what a lost update needs.
* **seats.** Three candidates are the smallest chain in which the preference can be
  circular (rates within the margin, costs that decide); `Settled` says the passes
  nevertheless leave nobody right behind one it overtakes.
* **seats, tools.** An edit replaces one run of lines that begins and ends as the quote does
  and is the only one apart from itself that fits; a code map is about the files as they
  were at some moment of the call; the ledger is what the history of edits and checks
  says it is; the menu offers what can act and nothing else. The texts are chosen so that
  every one of the four matches decides.
* **seats, bench.** While an agent runs, the grader's files are not in its container; the
  trace is on disk when it is graded; nothing runs between trials, whatever raised; a
  stretch of the loop that the budget cuts short was told before, in it or earlier; the shares
  of the turns fit into what is left. A stretch that begins on a spent budget makes no call and
  is not told: the judge, the rubric or the user took the time (section 7). A call of these
  takes as long as from the wrap-up to the end, so that each of them can be what does. The
  timeout is four units more than the wrap-up takes, so that the deadline and the
  budget end a round before, within and after a call.
* **pysession.** Six calls at two per process are three interpreters; the child can die
  at every step but one (section 7, `NothingLostUntold`). A walkthrough is clean only if
  every step held, no command failed that the script did not announce, the page threw
  nothing and no app died that left a trace; no server and no terminal's program outlives it,
  and no app unasked. That an app has ended nobody looks (section 7).
* **judge_closed, terminal_rated.** Two statements of the code about itself that do not
  hold of it (section 7).

Every property of every run has a mutant in `PROJECT.json`: a change of one modelled
definition, the way a plausible bug would make it, under which TLC finds the property
violated.

Deadlock is checked where the system always has something to do. It is off (`CHECK_DEADLOCK
FALSE`) where the system rightly stops: a graph or loop at its end, a closed
interpreter, connections that are gone, and counters at the bound of the model.

Bounds that are the model's and not the code's: `MaxAppends`, `MaxBullets` (TieredQueue);
`MaxTurns`, `MaxAsks` (SessionHandle); `MaxTurns` (Serve); `MaxSaid`, `MaxCopies`
(SessionIndex); `MaxCalls` (SocketPhone); `Reruns`, `Ceiling` (AgentLoop; the code's
ceiling is the run's budget); `MaxStrikes`, `MaxCooldown` (Router: past them a window no
longer grows); `Files`, `Pins` (Routes: inodes and objects that can be alive at once);
`MaxRuns` (SeatOutcomes: the row stays); `MaxRuns`, `Forged` (PythonSession); `MaxEdits` (LessonBank: what a
person deletes or clears); `MaxFails`, `GatherCalls` (Research); `MaxActions` (Judgment);
`MaxMade`, `MaxStops` (Transcript); `MaxWindows`, `MaxCaptures` (PhoneGuard); the length of
a script (Walkthrough); `MaxToolCalls`, `MaxOthers` (Toolbox); `Files` (Temperature: inodes);
`MaxCalls` (Benchmark); `MaxMessages`, `MaxAsks` (Terminal).

## 5. Fairness

| Specification | Assumes | Because |
|---|---|---|
| `SessionHandle!AnsweringSpec` | a thread inside `run` goes on; a person who is asked answers in the end | threads are scheduled, and a model call comes back (see below); the second is a condition of the property, not of the code: without an answer a turn waits, by design |
| `SocketPhone!FairSpec` | the event loop runs its callbacks; a thread returns once its future is set or its send has failed | asyncio runs what is ready. No timeout is assumed to fire: a disconnect alone must release the calls |
| `Serve!FairSpec` | a teardown goes on (`Teardown`): each ten-second window passes, each close of a handle returns; a call that a thread of the ops pool has begun returns (`LeftBehind`) | the loop runs what is ready, and each wait is `asyncio.wait_for` with a timeout; a close waits for a lesson ten seconds at most, an open or a delete is a few statements on SQLite. Nothing is assumed of turns: one may never end |
| `AgentLoop!FairSpec` | the loop takes its next turn while it has not stopped | every model call comes back, as a reply or an error (see below). Whether the node is run again is not assumed |
| `Router!FairSpec` | time passes; a thread asks on, a call ends, a failure is reported | threads are scheduled, and a call comes back (see below). `RoutingEnds` and `RecoveryRestores` hold if the keys stop changing (`KeysSettle`); the second also assumes that calls stop failing |
| `PythonSession!FairSpec` | the parent's waits end (`Runs`) | each is a `queue.get` or a `wait` with a timeout. The child owes nothing |

That a model call comes back is an assumption about the vendors' clients: the code
passes them no timeout of its own and relies on theirs (it handles the error one
raises, `router/llm_provider/inception_provider.py:157`, `gemini_provider.py:39`). A
client that never returned would hold its turn, its loop and a worker of the pool; it
is the one thing `TurnsEnd`, `LoopEnds` and `RoutingEnds` do not cover.
`TeardownEnds`, `DisconnectsReleaseCalls` and `CallsReturn` do not need it.

`AnySpec` (`BothSpec` in `MCSocketPhone`) of the sums are the specifications of the parts side by side:
those of `SocketPhone`, `PythonSession` and `SessionHandle` keep their fairness. The other specifications
assume none and their runs check safety only.

## 6. What is proved

Eight modules of proofs, each extending the modules it is about:

| Module | About |
|---|---|
| `Memory_proofs` | `TieredQueue`, `LessonBank`, `Transcript` |
| `Sessions_proofs` | `SessionIndex`, `SessionHandle` |
| `AgentGraph_proofs` | `AgentGraph`, `Judgment`, `Research` |
| `AgentLoop_proofs` | `AgentLoop`, `Toolbox`, `Benchmark` with `Budget` |
| `Router_proofs` | `Router`, `Temperature`, `SeatOutcomes` |
| `Machine_proofs` | `PythonSession`, `Routes`, `Walkthrough` |
| `Phone_proofs` | `SocketPhone`, `PhoneGuard` with `GuardRules` |
| `FrontEnds_proofs` | `Serve`, `Terminal` |

Every invariant and every action property that a passing run checks is a theorem, for every
value of the constants, under the named assumptions of its module (which TLC evaluates on
every run). Eleven theorems have a hypothesis besides, because the code does not guarantee it
and the property is false without it:

* `Beside = {}`, the three of the index: processes keep off each other's sessions.
* `Reabstract`, `FileHoldsYourWords`: the default of the code.
* `~LateDeath`, `NothingIsLostUntold`: no child dies between its report and the line that
  asks whether it lives.
* `OneEditor`, `FileStaysWhole` and `RoutesHold`: one thread edits `routes.json`. `RoutesHold` also has
  `OneProcess`, since another process's edit reaches this table at the next reload only. For
  `PinsHoldInTurn` it is enough that the edits of one process take turns (`EditsTakeTurns`).
* `TablesAreRight`, `TemperaturesHold` and `NearestIsSent`: where tables and catalogue tell of a model
  they are right about it.
* `TurnsFit` and `SchemaIsPlain`, `BenchHolds`: no call of the loop and the tool behind it together take
  longer than the last fifth of the budget (of the judge's, the rubric's and the user's calls
  nothing is asked); tools ask for strings, booleans, integers and numbers.

The cfg of the run grants each of them; section 7 says what happens without, where the text of
the code says otherwise. No step is taken on trust.

| Module | Theorem | States, for every instance |
|---|---|---|
| `Memory_proofs` | `InvariantHolds` | the inductive invariant `Inv` |
| | `TypesHold` | the types |
| | `CitationsResolve` | no live bullet cites a chunk that is not stored |
| | `QueueIsMirrored` | between calls the queue and the file agree |
| | `ViewIsComplete` | the view of a prompt covers all the file can give back |
| | `GenerationsAreFresh` | a compaction never writes into a used generation |
| | `QueueIsSound` | the four above together (`QueueInv`) |
| | `FileRemembers` | the file implements `Remembered`: nothing durable is forgotten |
| | `FileHoldsYourWords` | with `Reabstract`, neither is a word of the person's |
| | `BankersAlways` | the inductive invariant of the lesson bank, `Bankers` |
| | `BankHolds` | kinds never mix, no run banks a lesson twice, few notes stay unless a pruning is due, a loss is told (`BankInv`) |
| | `KeptAreBanked` | what a run reports as kept is in the bank (`KeptIsBanked`) |
| | `ConversationHolds` | calls and results stay paired and in order, the recent and the marked are whole, what is called searchable is stored (`TranscriptInv`) |
| | `WordsStay` | what a run is for and was told is never rewritten or put behind anything new, and only an escalation drops any of it, and what (`WordsAreKept`) |
| `AgentGraph_proofs` | `TypeCorrect` | the types |
| | `AsksAreCapped` | a turn stops for the person at most `MaxUserQuestions` times |
| | `RunsAreShort` | node runs between pauses are bounded |
| | `TurnsAreBounded` | the two above together (`TurnIsBounded`) |
| | `NetIsNeverReached` | the recursion limit of the code is never reached |
| | `WordsReachTheAgent` | each answer is in the conversation once, each rejection of the agent's own candidate before the next verdict (`WordsAreHeard`) |
| | `JudgmentsHold` | met exactly under a verdict that approves, which a yes of the judge alone gives and which ends the run; judgments are bounded (`JudgeInv`) |
| | `ResearchHolds` | the budget is passed by one attempt at most, the ledger tells of accepted bodies, a revision loses nothing it read back (`ResearchInv`) |
| `AgentLoop_proofs` | `TypeCorrect` | the types |
| | `HoldsArePresent` | no irreversible result without its hold before it |
| | `SpendIsBounded` | the ceiling is passed by less than three calls, the rubric's, judge's and lesson's counted (`OverspendIsBounded`) |
| | `TaskIsKept` | the conversation of the run begins with its task; after an escalation with two notes or more, with what the restart says (`TaskIsKnown`) |
| | `ToolsHold` | an edit told done replaced the only run of lines its pass could mean, the ledger owes what the history owes, the menu is honest (`ToolsInv`) |
| | `MapsAreFresh` | a code map is of files as they were during the call (`MapIsFresh`) |
| | `BenchHolds` | a stretch cut short was told before, graders' files out of sight, graded on a trace, nothing up between trials, no answer twice, budget within deadline, the median reported (`BenchInv`) |
| `Router_proofs` | `CooldownsLeaveARoute` | cooldowns never take the last route, but from a resolve that met a window without its reason (`NeverIntoNothing`) |
| | `OnlyAnswersForgive` | strikes are cleared by an answer only |
| | `TemperaturesHold` | a refused temperature is not sent again, what is remembered is true, a refusal is retried, the file is whole (`TempInv`) |
| | `NearestIsSent` | a model the tables know gets the honoured value nearest to the one asked for |
| | `SeatsHold` | the passes settle, circles included; the unmeasured do not move; every order has each candidate once; no row has more approvals than runs (`SeatsInv`) |
| `Sessions_proofs` | `IndexIsInductive` | the inductive invariant of the index, `IndexInd` |
| | `ListedIsResumable` | what the list shows has its file and the turns it counts (`IndexInv`) |
| | `NoTurnIsLost` | a turn in a file stays until somebody deletes the session (`TurnsSurvive`) |
| | `OneTurnRemembered` | one turn at a time, no question outlives it, final means remembered (`HandleInv`) |
| | `AnswersMeetQuestions` | a thread goes on with the answer to its own question only (`AnswerMeetsItsQuestion`) |
| `Phone_proofs` | `TableIsExact` | a result reaches its own call, nothing awaited is refused, nothing is left (`TableInv`) |
| | `GuardIsInductive` | the inductive invariant of the phone's tools, `GuardInv` |
| | `PaymentIsNotTouched` | no payment page is touched, scrolled or not (`PaymentIsLeftAlone`) |
| | `StepsStay` | each step is judged on its own capture, in the app of the others (`StepsStayOnTheirScreen`) |
| `FrontEnds_proofs` | `ServeIsConsistent` | table, open files, turns and lanes agree; who is gone has no table and nothing of it open (`ServeInv`) |
| | `TheTerminalHolds` | one worker holds the session, what was said ends once and in its place, questions are awaited, stops land, screens hold (`AppInv`) |
| `Machine_proofs` | `NothingIsLostUntold` | own answers only, no definition lost untold, nothing left behind (`SessionInv`) |
| | `RoutesAreTyped` | every inode, pin and task that is referred to exists, and a new one is new |
| | `FileStaysWhole` | `routes.json` is absent or whole, whatever stops |
| | `PinsHoldInTurn` | between edits a pin is known by what heads its chain, and a quiet turn resolves from it |
| | `RoutesHold` | the file is whole, the live table between edits is what the file says but for a pin whose save raised, pins lead (`RoutesInv`) |
| | `CleanWalksAreChecks` | a clean walkthrough was a check that held to its end, and what it started is stopped, or, an app, asked to end (`WalkInv`) |

**TieredQueue.** None of its properties is inductive: in the middle of a compaction
the file, the queue and the generation being written differ, in a way that depends on
`pc` and `step`. `Inv` says how, commit by commit: `PendingOK` how far the pending table
lags behind the tiers, `BulletsOK` how far the bullets table is ahead of the object,
`ChunksOK` that chunks precede what cites them, `FreshOK` what the new generation
covers (all that the old one cited, all raw items, and with `Reabstract` the same words),
`WritingOK` that the table holds the old rows and then a prefix of the new,
`GenerationsOK` that generation numbers only rise. What a compaction computes is
isolated in lemmas about the operators (`AtPositionsSelects`, `SummariesCite`,
`UncitedCite`, `ShedOldestCites`, `NewBulletsCover`, `NewBulletsWords`): whatever the
summariser answers, the new bullets cite everything the old ones did. The refinement
of `Remembered` is then one lemma per action that writes the file.
Assumptions: `TextsAssumption` (the messages and the three stand-in texts are
different things) and `BoundsAssumption` (types of the budgets).

**AgentGraph.** `StepsSoFar` bounds the node runs from where the turn is and from the
rejections and judge failures it has seen (`2 * rejections + judge_errors`), because a
round is one agent and one evaluator run and the way through research is taken
once; `AsksLeft` ties the pauses to the counter that a closing answer exhausts.
`NetAssumption` (the recursion net is above the bound; 30 against 9 in the code) is
only used by `NetIsNeverReached`.

**AgentLoop.** `HeldBeforeIrreversible` is not inductive: the gate's `confirmed` set says
a hold was shown, and compaction, a restart from the seed and a delegation change the
conversation under it. `Sound` adds that every target the gate remembers has its hold
in the conversation now, and that the seed a restart would go back to is sound too. The
mutant that keeps `confirmed` over a restart breaks exactly this. `SpendInv` says how far
past the ceiling each may be: a loop, and what the judge is given, by less than one call; with
the verdict, or the parent of a loop that overspent, by less than two; with the lesson or the
last answer by less than three. It closes because a run that has overspent never gets to
spend that again: its loop makes one last call and ends without a judgment.

**Router.** `PassInv` says what a pass has learned so far: it has skipped no candidate
that was on offer all along, except, in its first pass, one that was unwell, and then
it remembers so, and will make a second pass, or the one whose window had no reason yet, and
that it remembers too (`half`). `StillOffered` says the history variable means what it says
whatever reload, fetch and retirement do.

**AgentGraph, the words.** That an answer is heard once is a property of a conversation that
is thrown away, taken over and appended to. `WordsInv` says where each word is in between:
`Answers`, that every answer given so far is at exactly one place of the transcript, but
for the last, which is in `user_answer` and nowhere else; `Feedback`, that what goes back to
the agent is never an answer, so that appending it cannot repeat one; `Rejections`, that the
rejections since the last document taken over are in the transcript, or one is in
`feedback` and the agent is next. Rejections of a document taken over are excluded, as in
the property (`HandedOverIsHeard`, section 7).

**AgentLoop, the task.** `TaskInv` says that the outermost conversation, and the seed it would
restart from, begin with the task; a delegation pushes that conversation and brings it back
as it was. With at most one note the task is among the first three messages that a restart
keeps. With two or more the seed has nothing of it, and `TaskInv` says what the conversation
begins with instead, which a second restart, a pause or a rerun do not change.

**SessionIndex.** `IndexInd` has three layers. `DiskInv` is about the machine: a file has an
id that was used, an export never counts more than it took, and the two properties. `OfSession`,
`OfOperation` and `OfPrune` are about one process: the turns it counts are those of
its file, and what an operation read (no row, no turns, a file that is there) is still so at
its later steps. `Apart` is about every two: nobody writes, loads or deletes the session
another is in. `Beside = {}` is what `Apart` and the exclusiveness of a prune rest on: each
of the three things `Beside` may allow breaks one of them. A count is then compared with a set of turns,
which takes finite sets and their cardinalities and no bound.

**SessionHandle.** `HandleInv` says that a final event follows the record, which is true of the
step that emits it only because of the steps before it: `Written` follows the sides of a turn
into the file and the row. `AnswerMeetsItsQuestion` needs `Heard`: while a thread waits, the
Event is set only by an answer to its own question or by a cancel, because `answer` is
refused unless the question is pending and pending is cleared under the lock. `Begun` ties
`running` to the one thread inside.

**SocketPhone.** A late result may arrive for a call of any age, so `ReplyIsMine` needs that ids are
never used again: `IdsAreIssued` bounds everything that carries one by the counter, `CallsAreOwn`
gives each to one thread. `EntriesAreOpen` says an entry has no result yet (the loop takes it
out before it sets one), `WordsAreDue` that what it then sets is that call's reply or the
failure of all, and `Awaited` that a call that is waited for is in one place or the other.

**PhoneGuard.** The screen moves by itself; what protects it is the memory of one window.
`PaidInv` says what that memory is worth: as long as the window in front is one that showed
itself to be a payment page, `memory` is of that window and says so, and so does `page` if the
capture held is of it. `OpInv` says that what is on its way to the phone was allowed on what
is held, `RanInv` that a step is due on a later capture than those sent before it. Lemmas
say what the verdicts of `GuardRules` return on any screen at all. `GuardAssumption` says of
the screens only that each names its app (`phone/digest.py:6`), has a floor the code knows,
and is not yet of any window in particular.

**Serve.** A lane is one frame at a time, so what a frame has found holds when its await is
over; nobody else says so. `LaneInv` says, for each kind of frame, what that is: `Opening`, there
was room; `Starting`, the handle is in the table and idle; `Leaving`, it is out of the table and
its file still open; `Deleting`, neither; `AtRest`, table and files are equal. `Types` is the type
invariant with lanes as sets of any size; that a lane holds one frame at most is a
consequence of `LaneInv` and not a fact about its type. `Left` is what a lane that was cancelled
leaves: nothing in the lane, and a call that goes on alone with the one file it has in hand, or
none.

**Terminal.** A worker starts from a screen that was opened earlier, and by then another worker
might run. `Chosen` is why none does: a screen a worker can start from, or that no turn may run
under, is opened while there is none and stays the only one, but for a late pin. `Holder` then says
there is at most one worker and what it has come to: `OfTurn`, stretch by stretch, how much of its
message is on the screen already (nothing that ends it, its answer, an answer and perhaps an
error), and that a turn that has not made its event is not the one of `cancel`; `OfChange`, that a
change of session has an id left to go to. `InOrder` is the order of the transcript, `Over` that
what no worker is at has ended, and `Traced` that the trace is of the last answer shown, or of the one
that is settled next, without which the dialog that rates would hold nothing (`HasLast`: there is a
last one). `AppAssumption` says that there is another id besides the one of an export.

**PythonSession.** `Pipes` says that what is in a pipe is of the call that waits, and is one
thing: the request, the snippet that runs, or its report. A forged frame carries no call,
and so moves nothing. `Known` follows what the caller believes to be defined: it is in the
child's namespace, or this call knows of the loss (`lost`) and will tell. `Outcome` is what a
result that has been read says of the child it came from, which is what `session.hasState` is then set
from. Between the last read and that line a child that dies is not noticed (`LateDeath`):
with it, what is true is model-checked only.

**Routes.** `Typed`, with `Steps` in it, holds whatever runs beside whatever; the rest is said of a part of the
system that is quiet. `Heads`: the table and `is_pin` differ in the middle of an apply only,
between its clear and its reload or at the one task it is at. `Quiet`: what a resolve has read is
still so while no edit is beside it. `Beside`: the `.tmp` is not the file, and is empty, then
whole, as its one editor has come. `Follows` gives, statement by statement of `apply`, how much of
the table is already the file's; for an edit that saves, that the table is the file's until it
applies, if it is no pin: those are in `ahead` when the save raises. A process that stops anywhere
leaves each of them true, since its table goes with it.

**Walkthrough.** `CrashesTold`: a walk that goes on past a command that failed has a step ahead that
says it would. `Phases` says how much of a script is behind a walk in each of its phases, and
that it reaches its last one failed or through all of the script. That nothing is left unasked
needs no more than that: where a walk ends, but for a killed driver's, is behind its close.

**Temperature.** `Knows` says of each process that what it remembers is true of its model, `InOrder` what
a call under way knew when it began and how far its note has come, `Alone` that, unless two
saves were at once, the file and the `.tmp` are as the one save left them. `NearestIsSent` needs no
state: it is about what the tables and the clamp give, for any set of honoured values.

**SeatOutcomes.** Preference compares rates within a margin and then costs, and so may be circular:
no sort argument applies. What holds nevertheless is that no two candidates overtake each other
(`NoneOvertakesBack`), and that is enough: a pass takes the candidates from the first to the last and
settles one place more at the end (`PassSettles`), so that as many passes as candidates settle all
of them. A pass only exchanges neighbours that are both measured, so that the order remains a
permutation and those without a record stay (`PassSteps`, `ReorderedIs`, `OrdersAre`).

**Judgment.** `Criteria` ties the status of each criterion to the verdict that stands, `Verdicts` an
approval to the end of the run and to a yes the judge has said, `Exchanges` counts the requests of
the judgment under way, and `Ran` says that what the judge ran is a tool, with a body that stops at
the next directive. Lemmas say what the parsers return for every reply.

**Research.** `AtSection` says that the facts of the ledger are of sections before this one and that a
document that was not judged is compared with nothing; `Calls` at which stages there is a call
left, so that an attempt begins with one; `Ledgers` that both ledgers, the one in hand and the one on
file, tell of accepted bodies with the outline's fact first, through every trimming; `Todo` that
what is rewritten was read back.

**Toolbox.** `Editing` says that an edit on its way was located in the text it read; lemmas say of
`Locate`, for any text and quote, that the match it gives is the only one of its pass. `Evidence`
compares the ledger, which is updated in place, with a function of the whole history. `Cached` says
that a map with the stamp of a file has its text, `Mapping` that what a map has read was there
during the call.

**LessonBank.** Two threads may prune one app at once, each from what it has read. `Few` is stated for
every *set* of threads that have read what they are about to delete: what stays when these have
finished is few, unless one outside the set has yet to read. For one thread it would not
be inductive, since the other's deletion changes what it leaves; with the empty set it is the
property. The rest says that a row is under its own hash, that a thread has read what it banked
itself, and that the host knows every thread that learns.

**Transcript.** `Shaped`: the one system message is the first. `Paired`: each result is behind its call, and
they are in order. `Spared` says which results no folding or compaction may touch, `Searchable`
that a stub that says so is of a call the store has. Folding and compaction are shown to rewrite
results and nothing else (`Reshaped`), whatever the lines, sizes and thresholds. What a
restart keeps is what the conversation begins with, and `Headed` says what that is for any number
of notes (`ToldAtRestart`); `WordsStay` follows.

**Benchmark.** `Living` says what is up at each stage, so that a raise anywhere finds what it has to take
down; `Telling` behind which text each answer stands, and that the last text is the one the
round is about; `Clocked` that, as long as a run was not told to finish, a stretch of the loop that
has made a call is before the wrap-up, or within that call of it, so that there is a turn left to
be told in. A stretch that has made none may begin anywhere (`first`), and is not part of it. That a median
exists, and is what is reported, is shown for any number of trials (`HighestIs`, `MiddleIs`, `MedianIs`).

Only model-checked are the liveness properties (`TurnsEnd`, `DisconnectsReleaseCalls`, `TeardownEnds`,
`LoopEnds`, `RoutingEnds`, `RecoveryRestores`, `CallsReturn`): fairness and `ENABLED` are out of the prover's reach.
Induction over data is too, as the library states it (an operator as a parameter). Where a
proof needs it over numbers (a pass over a chain, phases of a run), it takes the least
counterexample of a set instead (`NatMin`, `NatInd`), or the induction is over the steps of the behaviour and
belongs to the invariant. What the prover cannot see at all is an operator that takes a test, as
`SelectSeq` does; the modules say such things by positions (`Positions`).

## 7. Divergences

While a definition is translated from the code, what a comment, a docstring or a test
says of it is stated as a property too. Where the two disagree, the property is in the
module but in no passing run, and this section says which instance refutes it: give TLC
the configuration of the module with the changes named, and the property alone. Each
property named here has been refuted that way. Where a constant is not named it is that
of the module's configuration; a part of a sum is run alone by taking its own
specification (`TempSpec`, `RoutesSpec`), or `part` to be it. Two of
them have a run of their own: `judge_closed` and `terminal_rated`. Observations without a
property's name were made while translating, and are left out of the models or
modelled as they are.

### Memory (`TieredQueue`)

* `GenerationsNeverOverlap`. `supersede_bullets` is "called once a fresh generation's own
  bullets have all been written, so the two never overlap mid-write"
  (`memory/store.py:369-371`). `add_bullet` commits each bullet on its own, so a process
  that stops before the supersede leaves both generations live and `_restore` loads
  both. Nothing is lost by it, and the next compaction heals it.
* `LongReportsTruncated` (`MaxAppends = 5`). "An uncited RAW item becomes a bullet holding
  its own (truncated) text" (`memory/queue.py:228-229`). `prior_bullet_count` counts the
  protected prior bullets too, which are not in `items`, so that the first raw items
  are taken for prior bullets and carried whole (`memory/queue.py:466`).
* `CompactionFreesBudget` (`YBudget = 5`, `MaxAppends = 6`). A compaction leaves "a handful
  of short, cited lines", "freeing almost all of Y's budget again"
  (`memory/queue.py:76-78`). With the default `REABSTRACT` every "you: " message is
  carried verbatim for ever, so what is left grows with what the person said and may
  exceed the budget, after which every overflow of X compacts again.

### Sessions (`SessionIndex`)

`Beside` is given by `Apart` in `MCTieredQueue`.

* `TurnsSurvive` with `Beside = {"prune"}`. `prune` opens the file of a session that has no
  row yet, finds it empty, and unlinks it a moment later (`memory/sessions.py:321-325`),
  when its first turn may be in it. "Orphan files that DO hold something" are to be "Left
  alone and counted" (`:288`). If the unlink falls between the file and the row of that
  turn, the list shows a session that has no file (`IndexInv`).
* `IndexInv` (`ListedCanBeResumed`) with `Beside = {"delete"}`. A session deleted by another
  process while its own is between the file and the row of a turn comes back as a row
  without a file: `touch` inserts what is not there (`memory/sessions.py:203-225`).
* `TurnsSurvive` with `Beside = {"resume"}`. Two processes may resume one session; a
  compaction of one calls `clear_pending`, which clears the rows the other wrote
  (`memory/store.py:422-427`), after which the row counts more turns than the file has
  (`IndexInv`, `MaxSaid = 4`).
* `Session.close` says of a file deleted under a connection that POSIX would leave "the
  connection writing into an unlinked inode", "silently" (`cli/shell.py:175-179`). SQLite
  does notice, and refuses the write with an error; the model has it so.

### Handle and server (`SessionHandle`, `Serve`)

For `SessionHandle`: the module itself, without the sum.

* `CancelledTurnsEnd` (`ScheduledSpec`, `Threads = {w1}`, `MaxTurns = MaxAsks = 1`). "cancel()
  releases that wait too, so a cancelled run never hangs on a question nobody will
  answer" (`embed.py:58-60`). `_wait_for_answer` clears `_answer_ready` without looking at
  the cancel Event (`embed.py:972`): a cancel after the graph's last poll and before the
  clear is lost, and the turn waits.
* `FailuresAreEvents` (`Spec`, one thread, `MaxTurns = 2`, `MaxAsks = 1`). "a provider's own
  exception must not kill the host" (`embed.py:902`). `record_turn` runs after the try
  statement, and an append that compacts calls a model (`memory/wiring.py:47`).
* `SettingsWaitForTurns` (one session, `MaxHandles = MaxTurns = 1`). "Deleting waits for no
  turn to be running" (`server/app.py:558-560`). The busy check precedes an await on the
  ops pool (`:579`); a turn that begins in between runs while the change is made.
* `OneTurnPerSession` (`Conns <- TwoConns`, one session, two workers, `MaxTurns = 2`). "start
  a turn (one at a time per session)" (`server/protocol.py:25`). `busy()` sees only the
  handles of its own connection (`server/app.py:355`), and each connection opens its own.
* `DeletedIsOpenNowhere` (`Conns <- TwoConns`, one session, `MaxHandles = MaxTurns = 1`).
  "anything about to delete the session must call it first" (`cli/shell.py:175`).
  `sessions delete` closes the handle of its own connection only
  (`server/app.py:417`).
* `CancelIsSeen` (one session, `MaxHandles = MaxTurns = 1`). "Stop the running turn within one
  model call" (`embed.py:762`). A turn that waits for a worker is started for its client,
  but `run()` makes a new cancel Event when it begins (`embed.py:740`): the cancel of
  before is lost. `close()` cancels that way too, so a queued turn of a client that has
  left runs to its end, and one that asks holds a worker for ever.

* `GoneLeavesNothingOpen`. A connection's close is "Best-effort" (`server/app.py:650`): it cancels
  the lane's task, which ends the wait and not the thread that is in `open_session` (`:191`). The
  handle that comes of it is in no table, and a close that was still queued on the pool never
  runs: that file is open until its `Session` is collected.

### Graph and loop (`AgentGraph`, `AgentLoop`)

* `AnswersAreNotLost`. "Failures here return "" -- the same nothing the caller already had
  -- so this can never make the outcome worse than it was" (`pipeline/nodes.py:2390-2392`).
  A run whose budget is spent when the agent comes back from a rejection leaves the loop
  with `output = ""`, which is written over the answer the state had (`:3129`), and
  `_salvage` finds nothing.
* `ModelCallsAreTheRuns`. "How many model requests this run has spent"
  (`pipeline/state.py:176`). A resume binds a fresh `Budget`, so the requests before a
  pause are forgotten (`pipeline/run.py:488`).
* `HandedOverIsHeard`. `_revise` hands a rejection it cannot act on to the agent, "handing
  the rejection to the agent" (`pipeline/research.py:980-981`). That agent has no
  transcript, is seeded, and never reads it. `RejectionsAreHeard`, which a run checks,
  leaves those rejections out (`papers`).
* `TaskIsNeverLost`. "What an escalation restarts from: the prompts, the task
  and the checklist" (`pipeline/nodes.py:3089-3090`). With two or more of the workspace,
  session and tool notes bound, `messages[:3]` are all system messages. `TaskIsKnown`, which
  a run checks, says so.
* `StubsNameTheirCall` (`Ceiling = 5`). "so the summary line still lines up with the call it
  describes once some have been rewritten" (`pipeline/nodes.py:2281-2282`). A stub no
  longer starts with "TOOL RESULT:" and is skipped before it is counted.
* `EveryCallIsOnRecord` (`Ceiling = 4`). `AgentState.actions` is "One compact line per tool call
  any role has made, across the WHOLE run" (`pipeline/state.py:124-125`). Those of a
  subtask that asks, or whose provider fails, are dropped (`nodes.py:2783-2791`).
* `QuestionIsInTheTranscript` (`Ceiling = 4`). "The transcript above already ends with the
  question" (`pipeline/nodes.py:3029-3030`). The question of a subtask is in the child's
  messages, which are dropped.
* `ModeIsTheLoops` (`Ceiling = 4`). `AgentState.mode` is "Which mode the loop is working in"
  (`pipeline/state.py:165`). A loop that raises does not return its mode, and `carry`
  keeps the one it started in (`nodes.py:3087`).
* `EditsAreAskedAbout` (`Ceiling = 5`). "It costs one extra exchange in exactly the case that
  deserves it" (`pipeline/evidence.py:15-17`). A delegated subtask has a ledger of its own,
  and the parent's does not learn of its edits (`nodes.py:2449`).

The loop's, from `TaskIsNeverLost` on, are refuted with `Reruns = 0`.

### Judgment and conversation (`Judgment`, `Transcript`)

* `FailsClosed` (run `judge_closed`). "`_parse_approval` defaults to approve=False whenever
  "APPROVE:" isn't found in `reply` at all -- fails CLOSED by construction"
  (`pipeline/nodes.py:3852-3854`; `tests/test_evaluator_node.py:14` says the same). Without the
  line the whole reply is taken for what follows it, and a "yes" anywhere in its first
  line approves. The judge's loop hands on what follows `FINAL:`, or a reply without
  directives, so such a reply is read.
* `SeenIsWritten`. "A successful write to the exact path a criterion names is
  environment-grounded" (`_note_evidence`). The record says "FAILED" of a write that failed, and
  `_produced_path` looks for "failed" (`nodes.py:3219`): it counts as done. So does
  `predict_edit`, which writes nothing.
* `LinesMatch`. "so the summary line still lines up with the call it describes". A record
  starts anew at every pause, has no line for a refused call and several for a delegated
  one; the results in the conversation are counted against it.
* `HintIsOfFullText`. "the full output is searchable" (`EVICTED_HINT`). A stub that keeps the
  first characters of a result is itself a long result: if the store could not be written
  the first time, what is stored, and called the full output, is the stub.
* An escalation goes on from the reply that asks for it: `_switch_mode` carries over the last
  thing the model said (`pipeline/nodes.py:2902`), and the loop has appended the reply with the
  directive by then (`:2614`). What a mode said in an earlier reply, a plan for one, is not in
  the new conversation; nor are the answers and rejections of before.
* `_code_body` takes the first `CODE:` anywhere in a reply; a rubric call that fails on an
  answer erases the criteria there were; "approve: yes" in lower case is read on the
  first line only.

### Research and lessons (`Research`, `LessonBank`)

* A section left out because its writer's provider failed is reported as "budget ran
  out". `JUDGMENT_RESERVE` is not kept when bare sections, or a gathering worker, use up the
  budget. A `ledger.json` that was never written is read back as empty. A rewrite that is
  discarded is still reported as a revision. A section whose file failed to be written is
  lost at the next revision. A revision may be accepted with more code failures when its
  judged checks are not judged again.
* `_distil`'s write to the bank is outside its try: a database error in a workspace run
  loses the answer of that run. Notes that were stored before a refused write are not
  pruned. Two runs that end together bank the same lesson twice (`memory/lessons.py:345`).

### Tools (`Toolbox`, `Walkthrough`, `PhoneGuard`)

* Several tools raise an `OSError` instead of telling the model. A container write that
  timed out may have landed though it is told failed. `edit_file` writes back the whole file
  it read earlier: what another program wrote meanwhile is lost. Candidates of a looser
  pass that overlap are not counted as several.
* The ledger counts `predict_edit` as an edit, lists the JSON form of `write_file` under its
  raw first line, takes `browse open` of any site for a check and a page load, clears
  every unloaded page when one is loaded, and does not see files that `execute_bash` and
  `make_document` change. `render_note` may ask for a launch when only a test changed.
  `rag`'s literal grep runs in a container though `TOOL_NEEDS` says it has no such branch.
* `NothingLeftRunning`. An app is told to "quit" or gets one SIGTERM, with no wait behind it and no
  SIGKILL (`pipeline/native.py:692`, `:871`); what `adb` and `simctl` answer to a stop is not read, and
  `run_native` swallows a close that raises (`:1121`). An app that asks whether to save, or that
  ignores the signal, outlives its walkthrough.
* Walkthroughs: an Android app that dies without a crash line in its log passes; the
  Windows driver does not ask again after the last step; a driver killed by its timeout
  leaves its served process running; `serve X` and then `run Y` waits for the port of X.
* The guard's memory of a payment page is lost when the same window is captured as
  secure. `phone_do`'s Enter reads the screen again, and may be pressed in another app.
  `phone_look` reads the tree and then takes the picture.

### Routing (`Router`, `Routes`, `SeatOutcomes`)

For `Router`: `Callers <- OneCaller` (two for `ExhaustionHolds`, `TripsOnARow` and `NeverIntoNothingAtAll`), `Orders <-
AsDeclared`, `ModelWait` and `ProviderWait <- OneThenTwo`, `MaxStrikes = MaxCooldown = 2`,
`ExhaustedCooldown = 4`, `BreakerThreshold = 2`, `Reloads = FALSE`, no symmetry.

* `NeverIntoNothingAtAll` (two `Callers`; also with `Router.cfg`). "A breaker that leaves a task with no
  route has turned a slow provider into a broken agent" (`router/health.py:23-24`). A report sets the
  window (`:116`) and then the reason (`:117`), without a lock. A resolve that asks between the two
  finds a candidate cooling for no reason; its second pass is for a reason that has the word
  "cooling" in it (`router/router.py:339`), so it may report no route for one that merely cools.
* `RetiredIsNotAskedAgain` (three models: `Models <- ThreeModels`, `ProviderOf <- OfThree`,
  `Advertised <- ListsThree`, `Chain <- QueryFirst`, `Gone = TRUE`). `note_retired` "Takes
  effect immediately for this process" and "stops the same run from retrying a model that
  has already told it no" (`router/llm_provider/retired.py:127-130`). `list_models` filters
  only when it fetches, and keeps the result (`router/llm_provider/base.py:417-425`).
* `AnOutageIsNoticed`. A transport failure "Counts toward the provider's breaker"
  (`router/health.py:134-135`). `_call` re-raises a `ProviderError` before it reports
  (`pipeline/nodes.py:1036`), and Inception's chat class raises nothing else.
* `TripsOnARow`. "Consecutive transport failures" (`router/health.py:52-53`). A rate limit or
  a refusal, which the vendor answered, does not break the row.
* `ExhaustionHolds`. An empty account is cooled for an hour "instead of being refused again
  every twenty seconds" (`router/health.py:121-124`). The breaker writes its own, shorter
  window over the same record (`:144`).
* `FallsBackToTheLeastCooled`. "falls back to the least-cooled one when none is"
  (`router/health.py:26-27`). The second pass takes the chain in its order;
  `cooling_until` has no caller.
* `AnImageIsAsked`. "Cooldowns are advisory" (`router/health.py:24-26`).
  `describe_with_fallback` skips every candidate that cools (`pipeline/vision.py:103`), so
  an image may be put to nobody.
* `ADeadVendorIsSkipped`. "One dead key must not blank out the rest"
  (`router/llm_provider/__init__.py:199`). `_match` lets the error of a list that cannot be
  fetched through (`router/router.py:308`).

For `Routes` (part of `MCPythonSession`): one spec, no `Customs`, `Bound` and `Unfit` empty,
`Kinds <- {"pin", "clear"}`, `Crashes = SavesFail = FALSE`; for the next three also two editors
of one task each, `Turns` empty and four `Files`. The last is refuted as the run is.

* `PinsLead`. "A graph thread mid-resolve sees only whole-tuple swaps, so nothing tears"
  (`router/reload.py:13`), and a pin "is never reordered or explored away"
  (`router/router.py:352`). `apply` restores, clears and puts back in steps
  (`router/overrides.py:288`).
* `AcceptedIsKept`. "Pin `spec` on `task` in routes.json and make every live router see it"
  (`embed.py:354`). Load, change and save take no lock: of two edits at once, one is lost.
* `EditsReachTheTable`. The same sentence, second half: an apply that began before another
  edit's save may end after that one's reload, and the table stays behind the file.
* `EditsAreDoneOrRefused`. `set_pin` raises "PinError ... for a pin that can be seen to be wrong"
  (`embed.py:355`). Two saves share one `.tmp`; the second `os.replace` raises
  `FileNotFoundError`, with the pin already applied.
* `FailedChangesNothing`. An `OSError` of any save is told as a failed edit, but `set_pin` has applied
  by then (`router/overrides.py:437`, `:441`): the pin leads its task until the next apply or start.

For `SeatOutcomes`:

* `CreditIsOwn` (`N = 2`, `MinSamples = 1`, `MinMargin <- Half`, `Costs = {1}`, `MayFail = {1}`). "Credit
  the seat that produced this answer" (`pipeline/nodes.py:3530`), "a log that mis-attributes
  is worse than a smaller honest one" (`router/outcomes.py:13`). `_record_seat` resolves
  again at the end and credits whoever it gets then.
* `DeclaredPosition` (`MinMargin <- Half`, `Costs = {1}`, `MaxReworks = 0`). "A candidate nobody has
  evidence about keeps its declared position" (`router/outcomes.py:236`). An exploring
  reorder puts the explored one in front of everybody (`:258`).

For `Temperature` (part of `MCSessionHandle`):

* `SavedIsKept`. "every later call in this run and every future run leaves the parameter
  out" (`llm_provider/temperature.py:36`). Every process saves the table it has; what another
  saved since it loaded is gone from the file.
* `EveryRefusalIsRetried`. "langchain_anthropic raises a bare ValueError for a model it knows
  takes none" (`temperature.py:307`), "this call is retried at the model's default rather
  than failed" (`pipeline/nodes.py:957`). `_call` has a clause for `ValueError` before the one
  that would ask, and raises.
* The pattern for `opus-4-7` and later also matches a dated id (`claude-opus-4-20250514`),
  where no catalogue says otherwise. Two threads that make the first load of a process
  may drop a refusal learned between the two.

### Benchmark (`Budget`, `Benchmark`)

* `RecordedOnce`. "recording it twice would let a grader count the same text as two turns"
  (`eval/claw_bench.py:712`). A round that raises leaves the answer of the round before in the
  local, and `answer_recorded` was reset for it.
* `ClocksAgree`. "so the two cannot disagree about when the task ends" (`pipeline/budget.py`,
  `until`). The reserve is taken off twice, and the `Budget` ends before the `Deadline`.
* `ToldBeforeEnded`. "Past `wrap_up_at` the loop is told, once, to stop exploring and answer now;
  past `hard_at` it stops" (`pipeline/budget.py:23-25`). The note is the loop's to say, before a
  call. The judge's exchanges and a round's criteria, which are calls too, and the user's reply
  (`eval/claw_bench.py:690`) may take the time from before the wrap-up to past the end, and the
  next stretch then begins, and ends, untold.
* The notes of a budget (wrap up, look first) are said once per `Budget`: the later rounds
  of a task are never told, and `begin_turn`, which would reset that, has no caller. Once the
  budget is spent the harness still opens rounds, whose answers are empty. An exception
  in one trial loses the scores of those before it. `validate_against` raises `TypeError` on a
  schema whose `type` is a list, and refuses an integer written as 1.0.

### Terminal (`Terminal`)

* `RatedIsSeen` (run `terminal_rated`). "a rating must land on the answer the person was
  actually looking at" (`cli/tui.py:1161`). The dialog may be opened during a turn; the trace
  id is set by the worker before the answer is shown, and a turn may end under the dialog.
* `StopIsHeard` (`MCTerminal`). "the stop lands within one call and the run never pays for
  another" (`cli/tui.py:905`). Before the worker has made its Event, Escape sets the one of
  the turn before, or none.
* `RenamesTheShown` (`MCTerminal`, `Screens` `rename` and `sessions`). Renaming acts on the session
  that is current when the dialog is dismissed, and a load may finish under it.
* `PinsBetweenTurns` (`MCTerminal`, `Screens` `pin`). The pin dialog is opened by a worker that has
  fetched a list, and may appear, and reload the routes, under a turn.
* A session that fails to load, delete or reset with an error other than `LookupError` or
  `OSError` ends the application (`exit_on_error`). `_lessons_busy` is checked and then set.

### Python session (`PythonSession`)

* `NothingLostUntold` with `LateDeath = TRUE` (three calls, nothing else enabled). "`reset` is
  True on the first result the caller sees after the interpreter was replaced"
  (`pipeline/python_session.py:161`). `run` sets `_has_state` from whether the child is
  alive when its answer has been read (`:279`): a child that answers and dies before that
  line leaves it False, and the next call says nothing.
* `OnlyUnavailableIsRaised` (two calls, `MaxCalls = 0`, `Idles = FALSE`, `Forged = 0`). "it is never
  a crashed run" (`pipeline/python_session.py:471`). An `OSError` of `Popen` leaves `_spawn` as
  it is (`:309`).

## 8. What is not modelled

* **Numbers and text that decide nothing here**: ranking of recalled chunks and embeddings
  (`memory/retrieval.py`, `memory/embeddings.py`), token counting, prompts, wire formats of
  vendors, screen digests, pricing, usage, tracing, the four file formats of `documents.py`.
* **The outside world**: what a command does in a shell, a container or a browser, beyond
  what a tool's result says of it; the event loop and the thread pools themselves (their
  scheduling is the nondeterminism of the modules).
* **Front ends as programs**: the widgets of the terminal, the command line, start-up of the
  server and the shape of its messages, configuration files. What their actions do to
  sessions, routes and turns is in the modules of those.
* **Tables and probes run by hand** (`tasks.py`, automap), the other benchmark harnesses and
  their judge, build files and scripts.
* **Parts of the modelled components**: each is named in the note of its component in
  `PROJECT.json`. The main ones are the reminders of the agent loop and its second
  protocol, the text of prompts, export and import of the outcomes log, the action menu
  of the phone, the lessons' dialogs of the terminal (their busy flag included), and the
  strict router that only tests build.
* **What outlives a part of it**: what a started program starts in turn, and what a `run` command
  leaves behind (a member of the group that ignores SIGTERM survives when its leader ends); what a
  killed driver, or one under `sudo`, leaves (`Walkthrough`); a handle whose close raises, and the
  import in a connection's first frame (`Serve`).
* **Lost updates of one number**: `strikes += 1` and `failures += 1` of two threads (`Router`) are
  one step each here; a strike fewer is a shorter window.
* **A file that is there and cannot be read**: `overrides.load` takes it for an empty one, and the
  next edit then saves that. In `Routes` a read does not fail.
* **Refused as models**: a second process on one `routes.json` (its loads are the same as
  a second thread's, with a table of its own), and two
  writers of one memory file inside `TieredQueue` (`SessionIndex` has them, a turn at a
  time).

Every part of the repository is a component in `PROJECT.json`, with its status.

## 9. Plan

The order is that of what would hurt most if it were wrong.

Done: the memory, the session index, the handle, the server, the phone's socket, tools and
guard, the graph with its research, judgment, conversation and lessons, the loop, routing
with health, pins, outcomes and temperatures, the interpreter, the tools and walkthroughs,
the budget and a benchmark, the terminal; and a proof of every safety property and every
action property the runs check.

Next, modules: the second protocol of the loop, tool calls in parallel and their results in
order (`pipeline/nodes.py`, native calls); the reminders of the loop and the notes of the
budget in its conversation; re-embedding after a change of model (`TieredQueue`); the
hello and the reads (`Serve`); the small files each process caches whole (app notes,
retired models), which are `Temperature` with other contents.

Composition: `Turn`, the handle with the graph in place of "poll, ask, finish or fail", as a
refinement of `SessionHandle`; `Research` as a refinement of the research steps of
`AgentGraph`; `Server` with two connections on `SessionIndex`.

## 10. Running it

In this directory:

```
tlc -workers 2 -config TieredQueue.cfg MCTieredQueue.tla
tlapm Memory_proofs.tla
```

A run takes between a few seconds and about three minutes with two workers; the proof modules take
a few minutes each the first time.

To see a divergence, copy the configuration, change the constants section 7 names, replace
its `INVARIANT` and `PROPERTY` lines by the one property, and run TLC on the same MC module.
`Judgment_closed.cfg` is such a copy, of `AgentGraph.cfg`. For `Router` alone start from `Router_live.cfg` and `MCRouter`.
