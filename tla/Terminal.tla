------------------------------- MODULE Terminal -------------------------------
(* The full-screen terminal application, agent/cli/tui.py: what its UI thread
   lets a person start, the worker threads that hold the session meanwhile, the
   transcript both write to, and the screens (agent/cli/modals.py) that lie
   between a question and what is then done.

   A handler of the UI thread, and whatever a worker has it run
   (call_from_thread), is one step; what a worker does itself is a step of its
   own.  While a screen is open the application's own keys do nothing and the
   palette is shut, as Textual's modal screens have it.

   Abstracted: the widgets, the status line, what is spent and what is copied;
   a session is its id, and whether the index lists it; what is in its file is
   SessionIndex's.                                                           *)
EXTENDS Naturals, Sequences, FiniteSets

CONSTANTS AppIds,      \* ids of sessions
          Brought,     \* the one an export file holds
          Screens,     \* the screens a person opens
          Workspaces,
          MaxMessages, \* bound: messages sent while the application runs
          MaxAsks      \* bound: questions of one turn

\* The id in an export is one like any other; there is one more.
ASSUME AppAssumption ==
  /\ Brought \in AppIds /\ AppIds # {Brought}
  /\ MaxMessages \in Nat /\ MaxAsks \in Nat

VARIABLES
  up,       \* the application runs
  busy,     \* _turn_running, and the disabled message box
  screens,  \* the open screens, the top one last
  jobs,     \* the workers that hold the session
  cancel,   \* _cancel: the turn whose event it is, and whether it is set
  pinning,  \* the worker of _open_pin_dialog and _apply_pin
  cur, ws, trace,   \* session.session_id, .workspace, .trace_id
  listed,   \* sessions the index has
  shown,    \* the transcript: <<kind of block, turn>>
  sent,     \* messages sent
  pressed   \* (history) Escape in this turn: before its event was there, or after

session == <<cur, ws, trace>>
appVars == <<up, busy, screens, jobs, cancel, pinning, session, listed, shown, sent, pressed>>

MessageNos == 0..MaxMessages

Job(kind, id) == [kind |-> kind, at |-> "start", turn |-> 0, id |-> id, ws |-> "none",
                  asks |-> 0, late |-> "no", outcome |-> "none", keep |-> FALSE]
Screen(kind) == [kind |-> kind, id |-> "none", seen |-> 0, running |-> FALSE]

Becomes(j, k) == jobs' = (jobs \ {j}) \cup {k}
Moves(j, place) == Becomes(j, [j EXCEPT !.at = place])
Holds(kind, place) == {j \in jobs : j.kind = kind /\ j.at = place}

Top == screens[Len(screens)]
Below == SubSeq(screens, 1, Len(screens) - 1)
Free == up /\ screens = <<>>          \* the application's own keys and palette
On(kind) == up /\ screens # <<>> /\ Top.kind = kind

\* uuid4().hex
Unlisted == AppIds \ (listed \cup {Brought})
FreshId == CHOOSE i \in Unlisted : up => i # cur
IdsLeft == Unlisted \ {cur} # {}

\* The last answer on the screen, or 0.
Answers == {"answer", "empty"}
LastShown ==
  LET at == {i \in DOMAIN shown : shown[i][1] \in Answers}
  IN IF at = {} THEN 0 ELSE shown[CHOOSE i \in at : \A k \in at : k <= i][2]

(* --------------------------------- a turn --------------------------------- *)

\* on_input_submitted: the box is taken here, before the worker exists.
Submit ==
  /\ Free /\ ~busy /\ sent < MaxMessages
  /\ sent' = sent + 1
  /\ shown' = Append(shown, <<"you", sent + 1>>)
  /\ busy' = TRUE /\ pressed' = "no"
  /\ jobs' = jobs \cup {[Job("turn", cur) EXCEPT !.turn = sent + 1]}
  /\ UNCHANGED <<up, screens, cancel, pinning, session, listed>>

\* run_turn: an Event of its own; the stream is handed the workspace.
TurnBegins(j) ==
  /\ j.kind = "turn" /\ j.at = "start"
  /\ cancel' = [turn |-> j.turn, set |-> FALSE]
  /\ Becomes(j, [j EXCEPT !.at = "running", !.ws = ws])
  /\ UNCHANGED <<up, busy, screens, pinning, session, listed, shown, sent, pressed>>

\* A model request asks whether it was cancelled, and only then is made.
TurnCalls(j) ==
  /\ j.kind = "turn" /\ j.at = "running"
  /\ IF cancel = [turn |-> j.turn, set |-> TRUE]
     THEN Becomes(j, [j EXCEPT !.at = "failing", !.outcome = "stopped"])
     ELSE Becomes(j, [j EXCEPT !.at = "calling", !.late = pressed])
  /\ UNCHANGED <<up, busy, screens, cancel, pinning, session, listed, shown, sent, pressed>>

\* _stream_answer: once a reply has its FINAL: a block is mounted, and replaced.
Streaming(j) == <<"partial", j.turn>> \in {shown[i] : i \in DOMAIN shown}
TurnStreams(j) ==
  /\ j.kind = "turn" /\ j.at = "calling" /\ ~Streaming(j)
  /\ shown' = Append(shown, <<"partial", j.turn>>)
  /\ UNCHANGED <<up, busy, screens, jobs, cancel, pinning, session, listed, sent, pressed>>

\* The request returns, or fails for good.
TurnReturns(j) ==
  /\ j.kind = "turn" /\ j.at = "calling"
  /\ \/ Moves(j, "running")
     \/ Becomes(j, [j EXCEPT !.at = "failing", !.outcome = "error"])
  /\ UNCHANGED <<up, busy, screens, cancel, pinning, session, listed, shown, sent, pressed>>

\* _ask_user_blocking: the worker waits on the screen it has pushed.
TurnAsks(j) ==
  /\ j.kind = "turn" /\ j.at = "running" /\ j.asks < MaxAsks
  /\ screens' = Append(screens, [Screen("ask") EXCEPT !.seen = j.turn])
  /\ Becomes(j, [j EXCEPT !.at = "asking", !.asks = @ + 1])
  /\ UNCHANGED <<up, busy, cancel, pinning, session, listed, shown, sent, pressed>>

\* AskUserModal, which Escape does not close.
Reply ==
  /\ On("ask")
  /\ screens' = Below
  /\ \E j \in Holds("turn", "asking") : j.turn = Top.seen /\ Moves(j, "answered")
  /\ UNCHANGED <<up, busy, cancel, pinning, session, listed, shown, sent, pressed>>

\* What was answered is posted, and the run resumed with the workspace of now.
TurnResumes(j) ==
  /\ j.kind = "turn" /\ j.at = "answered"
  /\ shown' = Append(shown, <<"reply", j.turn>>)
  /\ Becomes(j, [j EXCEPT !.at = "running", !.ws = ws])
  /\ UNCHANGED <<up, busy, screens, cancel, pinning, session, listed, sent, pressed>>

\* __final__: the worker sets the trace, the UI thread settles the answer in
\* the block that streamed, the worker records the turn and saves its text, either of which may raise.
TurnFinals(j) ==
  /\ j.kind = "turn" /\ j.at = "running"
  /\ trace' = j.turn
  /\ \E o \in Answers : Becomes(j, [j EXCEPT !.at = "final", !.outcome = o])
  /\ UNCHANGED <<up, busy, screens, cancel, pinning, cur, ws, listed, shown, sent, pressed>>

TurnSettles(j) ==
  /\ j.kind = "turn" /\ j.at = "final"
  /\ shown' = IF Streaming(j)
              THEN [i \in DOMAIN shown |-> IF shown[i] = <<"partial", j.turn>>
                                           THEN <<j.outcome, j.turn>> ELSE shown[i]]
              ELSE Append(shown, <<j.outcome, j.turn>>)
  /\ Moves(j, "settled")
  /\ UNCHANGED <<up, busy, screens, cancel, pinning, session, listed, sent, pressed>>

TurnRecords(j) ==
  /\ j.kind = "turn" /\ j.at = "settled"
  /\ \/ /\ listed' = listed \cup {cur}
        /\ Moves(j, "closing")
     \/ /\ listed' \in {listed, listed \cup {cur}}
        /\ Becomes(j, [j EXCEPT !.at = "failing", !.outcome = "error"])
  /\ UNCHANGED <<up, busy, screens, cancel, pinning, session, shown, sent, pressed>>

\* The except clauses: one line says how the turn ended.
TurnFails(j) ==
  /\ j.kind = "turn" /\ j.at = "failing"
  /\ shown' = Append(shown, <<j.outcome, j.turn>>)
  /\ Moves(j, "closing")
  /\ UNCHANGED <<up, busy, screens, cancel, pinning, session, listed, sent, pressed>>

\* The finally of every worker that holds the session: _set_busy(False).
Release(j) ==
  /\ j.at = "closing"
  /\ busy' = FALSE /\ jobs' = jobs \ {j}
  /\ UNCHANGED <<up, screens, cancel, pinning, session, listed, shown, sent, pressed>>

\* action_stop_turn
Escape ==
  /\ Free /\ busy
  /\ cancel' = [cancel EXCEPT !.set = cancel.turn # 0]
  /\ pressed' = IF \E j \in jobs : j.kind = "turn"
                THEN IF cancel.turn = sent THEN "heard" ELSE "early"
                ELSE pressed
  /\ UNCHANGED <<up, busy, screens, jobs, pinning, session, listed, shown, sent>>

(* -------------------------- changes of the session ------------------------ *)

\* What a handler or a screen's callback does to start such a worker.
Take(j) == busy' = TRUE /\ jobs' = jobs \cup {j}

\* action_new_session
NewSession ==
  /\ Free /\ ~busy /\ IdsLeft
  /\ Take(Job("reset", cur))
  /\ UNCHANGED <<up, screens, cancel, pinning, session, listed, shown, sent, pressed>>

\* _reset_in_worker, which _delete_session shares.
Reset == cur' = FreshId /\ trace' = 0 /\ UNCHANGED ws

ResetSession(j) ==
  /\ j.kind = "reset" /\ j.at = "start"
  /\ Reset /\ Moves(j, "closing")
  /\ UNCHANGED <<up, busy, screens, cancel, pinning, listed, shown, sent, pressed>>

\* Mutant of OpenSessions: the list is opened whatever runs.
OpenSessionsAlways ==
  /\ Free /\ listed # {}
  /\ screens' = <<Screen("sessions")>>
  /\ UNCHANGED <<up, busy, jobs, cancel, pinning, session, listed, shown, sent, pressed>>

\* action_sessions and action_delete_session: a list of what is saved now.
OpenSessions ==
  /\ Free /\ ~busy /\ listed # {}
  /\ \E kind \in {"sessions", "delete"} \cap Screens : screens' = <<Screen(kind)>>
  /\ UNCHANGED <<up, busy, jobs, cancel, pinning, session, listed, shown, sent, pressed>>

PickSession ==
  /\ On("sessions")
  /\ screens' = Below
  /\ \E i \in listed : IF i = cur THEN UNCHANGED <<busy, jobs>> ELSE Take(Job("load", i))
  /\ UNCHANGED <<up, cancel, pinning, session, listed, shown, sent, pressed>>

\* _load_session: the workspace comes back with the session unless one was
\* asked for at the start; of a session another otto has deleted by now, it is
\* said that nothing matches.
LoadSession(j) ==
  /\ j.kind = "load" /\ j.at = "start"
  /\ Moves(j, "closing")
  /\ \/ /\ cur' = j.id /\ trace' = 0
        /\ ws' \in IF j.keep THEN {ws} ELSE Workspaces
        /\ UNCHANGED listed
     \/ listed' = listed \ {j.id} /\ UNCHANGED session
  /\ UNCHANGED <<up, busy, screens, cancel, pinning, shown, sent, pressed>>

\* action_delete_session: the pick, and the confirmation that names it.
PickDelete ==
  /\ On("delete")
  /\ \E i \in listed : screens' = Append(Below, [Screen("confirm") EXCEPT !.id = i])
  /\ UNCHANGED <<up, busy, jobs, cancel, pinning, session, listed, shown, sent, pressed>>

ConfirmDelete ==
  /\ On("confirm") /\ IdsLeft
  /\ screens' = Below
  /\ Take(Job("delete", Top.id))
  /\ UNCHANGED <<up, cancel, pinning, session, listed, shown, sent, pressed>>

\* _delete_session: the current one is left first, then the row and file go.
DeleteSession(j) ==
  /\ j.kind = "delete" /\ j.at = "start"
  /\ Moves(j, "unlink")
  /\ IF j.id = cur THEN Reset ELSE UNCHANGED session
  /\ UNCHANGED <<up, busy, screens, cancel, pinning, listed, shown, sent, pressed>>

UnlinkSession(j) ==
  /\ j.kind = "delete" /\ j.at = "unlink"
  /\ listed' = listed \ {j.id}
  /\ Moves(j, "closing")
  /\ UNCHANGED <<up, busy, screens, cancel, pinning, session, shown, sent, pressed>>

\* action_import_session, _import_session, which hands over to _load_session.
OpenImport ==
  /\ Free /\ ~busy /\ "import" \in Screens
  /\ screens' = <<Screen("import")>>
  /\ UNCHANGED <<up, busy, jobs, cancel, pinning, session, listed, shown, sent, pressed>>

PickImport ==
  /\ On("import")
  /\ screens' = Below
  /\ Take(Job("import", Brought))
  /\ UNCHANGED <<up, cancel, pinning, session, listed, shown, sent, pressed>>

ImportSession(j) ==
  /\ j.kind = "import" /\ j.at = "start"
  /\ \/ Moves(j, "closing") /\ UNCHANGED listed
     \/ /\ Brought \notin listed
        /\ listed' = listed \cup {Brought}
        /\ Becomes(j, Job("load", Brought))
  /\ UNCHANGED <<up, busy, screens, cancel, pinning, session, shown, sent, pressed>>

\* Opening a session's file may fail with what nothing here catches: the
\* worker's exit_on_error ends the application.
JobDies(j) ==
  /\ j.kind \in {"reset", "load", "delete"} /\ j.at = "start" /\ Unlisted # {}
  /\ up' = FALSE /\ busy' = FALSE
  /\ screens' = <<>> /\ jobs' = {} /\ pinning' = "idle"
  /\ cancel' = [turn |-> 0, set |-> FALSE] /\ trace' = 0
  /\ shown' = <<>> /\ sent' = 0 /\ pressed' = "no"
  /\ UNCHANGED <<cur, ws, listed>>

\* OttoApp() and on_mount: a session of its own, and with --resume, once the
\* screen is there, the one asked for.
StartApp ==
  /\ ~up
  /\ up' = TRUE /\ cur' = FreshId
  /\ ws' \in Workspaces
  /\ \/ UNCHANGED <<busy, jobs>>
     \/ \E i \in listed, keep \in BOOLEAN :
          i # cur' /\ Take([Job("load", i) EXCEPT !.keep = keep])
  /\ UNCHANGED <<screens, cancel, pinning, trace, listed, shown, sent, pressed>>

(* ------------------------------ other screens ----------------------------- *)

\* Escape on any screen but a question: the callback is told None.
Dismiss ==
  /\ up /\ screens # <<>> /\ Top.kind # "ask"
  /\ screens' = Below
  /\ pinning' = IF Top.kind = "pin" THEN "idle" ELSE pinning
  /\ UNCHANGED <<up, busy, jobs, cancel, session, listed, shown, sent, pressed>>

\* action_workspace and action_setup are refused while a turn runs;
\* action_rename_session, action_export_session, action_score_dialog are not.
OpenScreen ==
  /\ Free
  /\ \E kind \in Screens :
       \/ kind \in {"workspace", "setup"} /\ ~busy /\ screens' = <<Screen(kind)>>
       \/ kind = "rename" /\ screens' = <<[Screen(kind) EXCEPT !.id = cur]>>
       \/ /\ kind = "score"
          /\ screens' = <<[Screen(kind) EXCEPT !.seen = LastShown, !.running = busy]>>
  /\ UNCHANGED <<up, busy, jobs, cancel, pinning, session, listed, shown, sent, pressed>>

SetWorkspace ==
  /\ On("workspace")
  /\ screens' = Below /\ ws' \in Workspaces
  /\ UNCHANGED <<up, busy, jobs, cancel, pinning, cur, trace, listed, shown, sent, pressed>>

\* The title goes to the session that is current by now.
RenameSession ==
  /\ On("rename")
  /\ screens' = Below
  /\ listed' = listed \cup {cur}
  /\ UNCHANGED <<up, busy, jobs, cancel, pinning, session, shown, sent, pressed>>

\* action_score, with the trace of now; the setup screen's save, which reloads
\* the routes.
Close ==
  /\ On("score") \/ On("setup")
  /\ screens' = Below
  /\ UNCHANGED <<up, busy, jobs, cancel, pinning, session, listed, shown, sent, pressed>>

\* action_pin_model: a task is picked, a worker lists the models, pushes the
\* second screen whenever it has them, and applies what is picked.
PickTask ==
  /\ Free /\ ~busy /\ "pin" \in Screens /\ pinning = "idle"
  /\ pinning' = "listing"
  /\ UNCHANGED <<up, busy, screens, jobs, cancel, session, listed, shown, sent, pressed>>

ListModels ==
  /\ up /\ pinning = "listing"
  /\ \/ screens' = Append(screens, Screen("pin")) /\ pinning' = "picking"
     \/ pinning' = "idle" /\ UNCHANGED screens
  /\ UNCHANGED <<up, busy, jobs, cancel, session, listed, shown, sent, pressed>>

PickPin ==
  /\ On("pin")
  /\ screens' = Below /\ pinning' = "applying"
  /\ UNCHANGED <<up, busy, jobs, cancel, session, listed, shown, sent, pressed>>

\* reload_everything
ApplyPin ==
  /\ up /\ pinning = "applying"
  /\ pinning' = "idle"
  /\ UNCHANGED <<up, busy, screens, jobs, cancel, session, listed, shown, sent, pressed>>

(* -------------------------------------------------------------------------- *)

AppInit ==
  /\ up = TRUE /\ busy = FALSE /\ screens = <<>> /\ jobs = {}
  /\ cancel = [turn |-> 0, set |-> FALSE] /\ pinning = "idle"
  /\ listed \in {{}, {Brought}}
  /\ cur \in AppIds \ {Brought} /\ cur = CHOOSE i \in AppIds \ {Brought} : TRUE
  /\ ws \in Workspaces /\ trace = 0
  /\ shown = <<>> /\ sent = 0 /\ pressed = "no"

AppNext ==
  \/ Submit \/ Escape \/ Reply
  \/ \E j \in jobs :
       \/ TurnBegins(j) \/ TurnCalls(j) \/ TurnStreams(j) \/ TurnReturns(j)
       \/ TurnAsks(j) \/ TurnResumes(j) \/ TurnFinals(j) \/ TurnSettles(j)
       \/ TurnRecords(j) \/ TurnFails(j) \/ Release(j)
       \/ ResetSession(j) \/ LoadSession(j) \/ DeleteSession(j) \/ UnlinkSession(j)
       \/ ImportSession(j) \/ JobDies(j)
  \/ NewSession \/ OpenSessions \/ PickSession \/ PickDelete \/ ConfirmDelete
  \/ OpenImport \/ PickImport \/ StartApp
  \/ Dismiss \/ OpenScreen \/ SetWorkspace \/ RenameSession \/ Close
  \/ PickTask \/ ListModels \/ PickPin \/ ApplyPin

AppSpec == AppInit /\ [][AppNext]_appVars

(* -------------------------------- properties ------------------------------ *)

\* Types of the application's state.
AppTypeOK ==
  /\ cur \in AppIds /\ ws \in Workspaces /\ trace \in MessageNos /\ cancel.turn \in MessageNos
  /\ listed \subseteq AppIds
  /\ pinning \in {"idle", "listing", "picking", "applying"}

\* tui.py:107, "One turn at a time": whatever screens were opened before,
\* at most one worker holds the session, the box is shut exactly while one
\* does, and the session and workspace of a turn are not changed beneath it.
OneHolder ==
  /\ Cardinality(jobs) <= 1
  /\ busy <=> jobs # {}
  /\ \A j \in jobs : j.kind = "turn" =>
       j.id = cur /\ (j.at \notin {"start", "closing"} => j.ws = ws)

\* _drive_turn, _settle_answer: what was said is followed by what belongs to
\* it, undivided, ends once, and an answer is on the screen once, streamed or
\* not; only a turn that was answered, and could not be kept, says two things.
Of(n) == {i \in DOMAIN shown : shown[i][2] = n}
EndMarks == Answers \cup {"stopped", "error"}
TurnsStayApart == \A n \in 1..sent :
  LET mine == Of(n)
      ends == {i \in mine : shown[i][1] \in EndMarks}
      kinds == {shown[i][1] : i \in ends}
  IN /\ \A i, k \in mine : \A m \in i..k : m \in mine
     /\ \A i \in mine : shown[i] = <<"you", n>> <=> \A k \in mine : i <= k
     /\ Cardinality({i \in mine : shown[i][1] \in Answers \cup {"partial"}}) <= 1
     /\ (\A j \in jobs : j.turn # n \/ j.at = "closing") =>
          \/ Cardinality(ends) = 1
          \/ Cardinality(ends) = 2 /\ "error" \in kinds /\ kinds \cap Answers # {}

\* _delete_session: the file that goes is not the one the session has open.
OpenIsKept == \A j \in Holds("delete", "unlink") : j.id # cur

\* _ask_user_blocking: a question is on the screen exactly while its turn waits.
AskedIsAwaited ==
  {screens[i].seen : i \in {k \in DOMAIN screens : screens[k].kind = "ask"}}
    = {j.turn : j \in Holds("turn", "asking")}

\* action_stop_turn: a stop pressed once the turn has its event is followed by
\* no request of it.
StopLands == \A j \in jobs : j.late # "heard"

\* action_score, action_setup: what is about to be rated from a screen opened
\* while nothing ran is what is on the screen, setup is never over a turn.
ScreensHold == /\ On("score") /\ ~Top.running => trace \in {0, Top.seen}
               /\ On("setup") => \A j \in jobs : j.kind # "turn"

\* All of these.
AppInv == AppTypeOK /\ OneHolder /\ TurnsStayApart /\ OpenIsKept /\ AskedIsAwaited
          /\ StopLands /\ ScreensHold

\* tui.py:905: "the stop lands within one call and the run never pays for
\* another".  False of the code: pressed before the worker has made its event it
\* sets the one of the turn before, or none.
StopIsHeard == \A j \in jobs : j.late = "no"

\* tui.py:1161: "a rating must land on the answer the person was actually
\* looking at".  False of the code: the dialog may be open while a turn ends.
RatedIsSeen == On("score") /\ Top.seen # 0 => trace \in {0, Top.seen}

\* action_rename_session, action_pin_model: false of the code, for a worker may
\* load another session under the first, and a turn begin before the second.
RenamesTheShown == On("rename") => Top.id = cur
PinsBetweenTurns == pinning = "applying" => \A j \in jobs : j.kind # "turn"
=============================================================================
