------------------------------- MODULE Serve -------------------------------
(***************************************************************************)
(* otto serve (agent/server/app.py): connections, the sessions each holds  *)
(* open, the turns they queue on one shared pool, and the teardown of a    *)
(* connection whose client has gone.                                       *)
(*                                                                         *)
(* Every await is a point where the other coroutines and the pool's        *)
(* threads run, so a handler is one action per stretch between awaits.     *)
(* The ordered lane handles one `turn` or `sessions` frame at a time:      *)
(* lane[c] is empty, or holds what that frame is waiting for, which is a   *)
(* call on the ops pool but for "start".  Cancel, answer and the settings  *)
(* do not pass through it.  Which frame comes next is the client's choice. *)
(* Inside, a turn is what SessionHandle details: it begins with a new      *)
(* cancel Event, may ask, and ends.                                        *)
(*                                                                         *)
(* A call on the ops pool belongs to a thread: cancelling the lane takes   *)
(* back a call the pool has not begun, and loses the result of one it has. *)
(***************************************************************************)
EXTENDS Naturals, Sequences, FiniteSets

CONSTANTS
  Conns,       \* connections
  Sessions,    \* saved or new sessions
  MaxHandles,  \* MAX_SESSIONS_PER_CONNECTION
  Workers,     \* MAX_TURN_WORKERS
  MaxTurns     \* bound: turns begun in one behaviour

ASSUME SetsAssumption == IsFiniteSet(Conns) /\ IsFiniteSet(Sessions)
ASSUME LimitsAssumption ==
  MaxHandles \in Nat \ {0} /\ Workers \in Nat \ {0} /\ MaxTurns \in Nat

VARIABLES
  phase,      \* of a connection: "up", "draining" (in close()), "gone"
  lane,       \* what the ordered lane waits for: {} or {<<what, session>>}
  handles,    \* keys of Connection.handles
  store,      \* sessions whose file a handle of the table has open
  spare,      \* sessions whose file is open by a handle that is in no table:
              \*   the lane has it in hand, or nobody has
  loose,      \* the call on the ops pool that a cancelled lane has left there
  waits,      \* futures that the teardown has still to wait for
  job,        \* the future in Connection.turns, and what its thread does
  backlog,    \* the turn pool's queue, <<connection, session>>
  cancelled,  \* whether the handle's cancel Event is set
  asked,      \* whether cancel() was called for the turn in job
  changing,   \* settings changes on the ops pool, by connection
  deleted,    \* sessions deleted
  turns       \* turns begun

frames == <<lane, handles, store, spare, deleted>>
pool   == <<job, backlog, cancelled, asked, turns>>
vars   == <<phase, frames, pool, changing, loose, waits>>

\* What only the teardown of a connection writes.
ending == <<loose, waits>>

None == [s \in Sessions |-> FALSE]

\* What a lane asks of the ops pool.
Calls == {"open", "turn", "second", "close", "drop", "delete"}

-----------------------------------------------------------------------------
Init ==
  /\ phase = [c \in Conns |-> "up"] /\ lane = [c \in Conns |-> {}]
  /\ handles = [c \in Conns |-> {}] /\ store = [c \in Conns |-> {}]
  /\ spare = [c \in Conns |-> {}] /\ loose = [c \in Conns |-> {}]
  /\ waits = [c \in Conns |-> {}]
  /\ job = [c \in Conns |-> [s \in Sessions |-> "none"]]
  /\ backlog = <<>>
  /\ cancelled = [c \in Conns |-> None] /\ asked = [c \in Conns |-> None]
  /\ changing = {} /\ deleted = {} /\ turns = 0

Idle(c) == phase[c] = "up" /\ lane[c] = {}

Await(c, what, s) == lane' = [lane EXCEPT ![c] = {<<what, s>>}]
Done(c)           == lane' = [lane EXCEPT ![c] = {}]

\* busy: the handle is running, or its future is not done.
Busy(c, s) == job[c][s] \in {"queued", "running", "asking"}

ServerBusy(c) == \E d \in Conns, s \in Sessions :
                   (d = c \/ phase[d] = "up") /\ Busy(d, s)

\* handle_for's limit; _opening is 0, the lane opens one session at a time.
Full(c) == Cardinality(handles[c]) >= MaxHandles

-----------------------------------------------------------------------------
\* start_turn for a session this connection holds.
TakeTurn(c, s) ==
  /\ Idle(c) /\ s \in handles[c] /\ ~Busy(c, s)
  /\ Await(c, "start", s)
  /\ UNCHANGED <<phase, handles, store, spare, deleted, pool, changing, ending>>

\* handle_for: `sessions open` opens whatever it names, a turn only what the
\* connection does not hold.
TakeOpen(c, s, what) ==
  /\ Idle(c) /\ ~Full(c)
  /\ what = "turn" => s \notin handles[c]
  /\ Await(c, what, s)
  /\ UNCHANGED <<phase, handles, store, spare, deleted, pool, changing, ending>>

\* runtime.open_session has come back: the handle is there.
Opened(c, s, what) ==
  /\ lane[c] = {<<what, s>>} /\ s \notin deleted /\ s \notin handles[c]
  /\ handles' = [handles EXCEPT ![c] = @ \cup {s}]
  /\ store' = [store EXCEPT ![c] = @ \cup {s}]
  /\ cancelled' = [cancelled EXCEPT ![c][s] = FALSE]
  /\ \/ what = "turn" /\ ~Busy(c, s) /\ Await(c, "start", s)
     \/ (what = "open" \/ Busy(c, s)) /\ Done(c)
  /\ UNCHANGED <<phase, spare, deleted, job, backlog, asked, turns, changing, ending>>

\* A prefix or "last" named a session already held: the second handle is to
\* be closed, and the first stays.
OpenedTwice(c, s) ==
  /\ lane[c] = {<<"open", s>>} /\ s \notin deleted /\ s \in handles[c]
  /\ spare' = [spare EXCEPT ![c] = {s}]
  /\ Await(c, "second", s)
  /\ UNCHANGED <<phase, handles, store, deleted, pool, changing, ending>>

\* No such session, a failed open, or a frame that could not be sent.
GivesUp(c, s, what) ==
  /\ what \in {"open", "turn", "start"}
  /\ lane[c] = {<<what, s>>}
  /\ Done(c)
  /\ UNCHANGED <<phase, handles, store, spare, deleted, pool, changing, ending>>

\* The started event has been sent: the turn goes to the pool.
Started(c, s) ==
  /\ turns < MaxTurns
  /\ lane[c] = {<<"start", s>>}
  /\ Done(c)
  /\ job' = [job EXCEPT ![c][s] = "queued"]
  /\ backlog' = Append(backlog, <<c, s>>)
  /\ asked' = [asked EXCEPT ![c][s] = FALSE]
  /\ turns' = turns + 1
  /\ UNCHANGED <<phase, handles, store, spare, deleted, cancelled, changing, ending>>

\* sessions close, and the first half of sessions delete ("drop"): refused
\* for a busy session; the handle leaves the table before it is closed.
TakeClose(c, s, what) ==
  /\ Idle(c) /\ ~Busy(c, s) /\ s \in handles[c]
  /\ handles' = [handles EXCEPT ![c] = @ \ {s}]
  /\ store' = [store EXCEPT ![c] = @ \ {s}]
  /\ spare' = [spare EXCEPT ![c] = {s}]
  /\ Await(c, what, s)
  /\ UNCHANGED <<phase, deleted, pool, changing, ending>>

\* sessions delete of one that this connection does not hold.
TakeDelete(c, s) ==
  /\ Idle(c) /\ ~Busy(c, s) /\ s \notin handles[c]
  /\ Await(c, "delete", s)
  /\ UNCHANGED <<phase, handles, store, spare, deleted, pool, changing, ending>>

\* handle.close has come back.
Closed(c, s, what) ==
  /\ lane[c] = {<<what, s>>}
  /\ spare' = [spare EXCEPT ![c] = @ \ {s}]
  /\ \/ what \in {"close", "second"} /\ Done(c)
     \/ what = "drop" /\ Await(c, "delete", s)
  /\ UNCHANGED <<phase, handles, store, deleted, pool, changing, ending>>

\* runtime.delete_session: the file and its row in the index.
Deleted(c, s) ==
  /\ lane[c] = {<<"delete", s>>}
  /\ Done(c)
  /\ deleted' = deleted \cup {s}
  /\ UNCHANGED <<phase, handles, store, spare, pool, changing, ending>>

-----------------------------------------------------------------------------
\* cancel, inline: handle.cancel() sets the Event the handle has now.
Cancel(c, s) ==
  /\ phase[c] = "up" /\ s \in handles[c]
  /\ cancelled' = [cancelled EXCEPT ![c][s] = TRUE]
  /\ asked' = [asked EXCEPT ![c][s] = Busy(c, s)]
  /\ UNCHANGED <<phase, frames, job, backlog, turns, changing, ending>>

Answer(c, s) ==
  /\ phase[c] = "up" /\ s \in handles[c] /\ job[c][s] = "asking"
  /\ job' = [job EXCEPT ![c][s] = "running"]
  /\ UNCHANGED <<phase, frames, backlog, cancelled, asked, turns, changing, ending>>

Occupied == {h \in Conns \X Sessions : job[h[1]][h[2]] \in {"running", "asking"}}

\* A worker takes the oldest turn, and run() makes a new cancel Event.
PoolStart ==
  /\ backlog # <<>> /\ Cardinality(Occupied) < Workers
  /\ LET c == Head(backlog)[1]
         s == Head(backlog)[2]
     IN  /\ job' = [job EXCEPT ![c][s] = "running"]
         /\ cancelled' = [cancelled EXCEPT ![c][s] = FALSE]
  /\ backlog' = Tail(backlog)
  /\ UNCHANGED <<phase, frames, asked, turns, changing, ending>>

AskUser(c, s) ==
  /\ job[c][s] = "running"
  /\ job' = [job EXCEPT ![c][s] = "asking"]
  /\ UNCHANGED <<phase, frames, backlog, cancelled, asked, turns, changing, ending>>

\* The turn finishes, fails, or notices that it was cancelled.
TurnEnds(c, s) ==
  /\ job[c][s] = "running" \/ (job[c][s] = "asking" /\ cancelled[c][s])
  /\ job' = [job EXCEPT ![c][s] = "done"]
  /\ UNCHANGED <<phase, frames, backlog, cancelled, asked, turns, changing, ending>>

-----------------------------------------------------------------------------
\* setup set_key, routing pin and clear, lessons and notes delete: refused
\* while a turn runs, then done on the ops pool.
TakeSetting(c) ==
  /\ phase[c] = "up" /\ c \notin changing /\ ~ServerBusy(c)
  /\ changing' = changing \cup {c}
  /\ UNCHANGED <<phase, frames, pool, ending>>

SettingDone(c) ==
  /\ c \in changing
  /\ changing' = changing \ {c}
  /\ UNCHANGED <<phase, frames, pool, ending>>

-----------------------------------------------------------------------------
Cuts(c) ==
  /\ phase[c] = "up"
  /\ phase' = [phase EXCEPT ![c] = "draining"]
  /\ waits' = [waits EXCEPT ![c] = {s \in Sessions : Busy(c, s)}]
  /\ cancelled' = [cancelled EXCEPT ![c] = [s \in Sessions |-> @[s] \/ s \in handles[c]]]
  /\ asked' = [asked EXCEPT ![c] = [s \in Sessions |-> @[s] \/ (s \in handles[c] /\ Busy(c, s))]]
  /\ UNCHANGED <<handles, store, spare, deleted, job, backlog, turns, changing>>

\* Mutant of Disconnect: the lane's task is not cancelled.
DisconnectKeepsLane(c) == Cuts(c) /\ UNCHANGED <<lane, loose>>

\* The client goes: close() cancels the lane, then every handle, and looks at
\* the futures it has to wait for.  The lane's call is taken back if the pool
\* has not begun it, and is left to run on if it has.  (A result that came and
\* was not taken yet is lost too: the call then ends right after this.)
Disconnect(c) ==
  /\ Cuts(c)
  /\ Done(c)
  /\ \E call \in {{}, {f \in lane[c] : f[1] # "start"}} : loose' = [loose EXCEPT ![c] = call]

\* A call that was left to run ends, and nobody takes what it returns: a file
\* it opened stays open, one it was to close is closed.
LooseEnds(c, s, what) ==
  /\ loose[c] = {<<what, s>>}
  /\ loose' = [loose EXCEPT ![c] = {}]
  /\ \/ /\ what \in {"open", "turn"}
        /\ \/ s \notin deleted /\ spare' = [spare EXCEPT ![c] = {s}]
           \/ UNCHANGED spare
        /\ UNCHANGED deleted
     \/ /\ what \in {"second", "close", "drop"}
        /\ spare' = [spare EXCEPT ![c] = @ \ {s}]
        /\ UNCHANGED deleted
     \/ /\ what = "delete"
        /\ deleted' = deleted \cup {s}
        /\ UNCHANGED spare
  /\ UNCHANGED <<phase, lane, handles, store, pool, changing, waits>>

\* Mutant of WaitOver: the teardown waits for a turn however long it takes.
WaitOverForEver(c, s) ==
  /\ phase[c] = "draining" /\ s \in waits[c] /\ ~Busy(c, s)
  /\ waits' = [waits EXCEPT ![c] = @ \ {s}]
  /\ UNCHANGED <<phase, frames, pool, changing, loose>>

\* wait_for(shield(future), timeout=10), one future after the other: the turn
\* is over, or its ten seconds are and it goes on.
WaitOver(c, s) ==
  /\ phase[c] = "draining" /\ s \in waits[c]
  /\ waits' = [waits EXCEPT ![c] = @ \ {s}]
  /\ UNCHANGED <<phase, frames, pool, changing, loose>>

\* handle.close() of one handle of the table, once no future is left to wait
\* for; it waits for a lesson ten seconds at most.
ClosesHandle(c, s) ==
  /\ phase[c] = "draining" /\ waits[c] = {} /\ s \in store[c]
  /\ store' = [store EXCEPT ![c] = @ \ {s}]
  /\ UNCHANGED <<phase, lane, handles, spare, deleted, pool, changing, ending>>

TornDown(c) ==
  /\ phase[c] = "draining" /\ waits[c] = {} /\ store[c] = {}
  /\ phase' = [phase EXCEPT ![c] = "gone"]
  /\ UNCHANGED <<frames, pool, changing, ending>>

-----------------------------------------------------------------------------
OnLane(c) == \E s \in Sessions :
  \/ TakeTurn(c, s) \/ Started(c, s) \/ TakeDelete(c, s) \/ Deleted(c, s) \/ OpenedTwice(c, s)
  \/ \E what \in {"open", "turn"} : TakeOpen(c, s, what) \/ Opened(c, s, what)
  \/ \E what \in {"open", "turn", "start"} : GivesUp(c, s, what)
  \/ \E what \in {"close", "drop"} : TakeClose(c, s, what)
  \/ \E what \in {"close", "drop", "second"} : Closed(c, s, what)

OnLoop(c) ==
  \/ \E s \in Sessions : Cancel(c, s) \/ Answer(c, s)
  \/ TakeSetting(c) \/ SettingDone(c) \/ Disconnect(c)

Teardown(c) == TornDown(c) \/ \E s \in Sessions : WaitOver(c, s) \/ ClosesHandle(c, s)

LeftBehind(c) == \E s \in Sessions, what \in Calls : LooseEnds(c, s, what)

OnPool == PoolStart \/ \E c \in Conns, s \in Sessions : AskUser(c, s) \/ TurnEnds(c, s)

Next == (\E c \in Conns : OnLane(c) \/ OnLoop(c) \/ Teardown(c) \/ LeftBehind(c)) \/ OnPool

Spec == Init /\ [][Next]_vars

\* The loop runs, its ten-second windows pass, and a call that a thread of the
\* ops pool has begun returns.  A turn may never end.
FairSpec == Spec /\ \A c \in Conns : WF_vars(Teardown(c)) /\ WF_vars(LeftBehind(c))

-----------------------------------------------------------------------------
TypeOK ==
  /\ phase \in [Conns -> {"up", "draining", "gone"}]
  /\ lane \in [Conns -> SUBSET ((Calls \cup {"start"}) \X Sessions)]
  /\ loose \in [Conns -> SUBSET (Calls \X Sessions)]
  /\ handles \in [Conns -> SUBSET Sessions] /\ store \in [Conns -> SUBSET Sessions]
  /\ spare \in [Conns -> SUBSET Sessions] /\ waits \in [Conns -> SUBSET Sessions]
  /\ job \in [Conns -> [Sessions -> {"none", "queued", "running", "asking", "done"}]]
  /\ backlog \in Seq(Conns \X Sessions)
  /\ cancelled \in [Conns -> [Sessions -> BOOLEAN]]
  /\ asked \in [Conns -> [Sessions -> BOOLEAN]]
  /\ changing \subseteq Conns /\ deleted \subseteq Sessions
  /\ turns \in 0..MaxTurns
  /\ \A c \in Conns : Cardinality(lane[c]) <= 1

\* While its client is connected, a turn queued or running has its handle in
\* the table and the handle's file open: no open, close or delete that was
\* handled before, during or after its `turn` frame took it away.
TurnsHaveOpenHandles ==
  \A c \in Conns, s \in Sessions :
    (phase[c] = "up" /\ job[c][s] \in {"queued", "running", "asking"})
      => (s \in handles[c] /\ s \in store[c])

\* A connection has at most one turn per session between its future and the
\* pool: what waits in the queue is there once, and is what is not started.
OneTurnPerHandle ==
  /\ \A i, j \in DOMAIN backlog : backlog[i] = backlog[j] => i = j
  /\ \A i \in DOMAIN backlog : job[backlog[i][1]][backlog[i][2]] = "queued"

\* A turn that was accepted is somewhere, once, with what it works on open.
TurnsInv == TurnsHaveOpenHandles /\ OneTurnPerHandle

\* A connection never has more handles open in its table than its limit, and
\* one file besides: what its lane opens or closes, or had in hand when it was
\* cancelled.
HandlesAreCapped ==
  \A c \in Conns : Cardinality(store[c]) <= MaxHandles /\ Cardinality(spare[c]) <= 1

\* The table and the open files agree whenever the lane is at rest: nothing
\* is served by a closed handle, and nothing stays open unnamed.
TableIsOpenFiles ==
  \A c \in Conns : Idle(c) => store[c] = handles[c] /\ spare[c] = {}

\* A connection's table is what it has open, and within its limit.
TableInv == TypeOK /\ HandlesAreCapped /\ TableIsOpenFiles

\* Nothing of a connection's table stays open or is opened again after its
\* teardown, whatever its lane was in the middle of.
GoneLeavesNoTable ==
  \A c \in Conns : phase[c] = "gone" => store[c] = {} /\ lane[c] = {}

\* What the server keeps of a connection agrees at every moment: the table,
\* the open files, the futures and the queue of the pool.
ServeInv == TableInv /\ TurnsInv /\ GoneLeavesNoTable

\* A client that leaves is torn down though its turns never end: each is
\* waited for in its turn, every handle of the table is closed, and the call
\* its lane had begun comes to an end.
TeardownEnds ==
  \A c \in Conns : phase[c] = "draining" ~> (phase[c] = "gone" /\ store[c] = {} /\ loose[c] = {})

\* Nothing at all stays open of a client that has left (close's docstring says
\* "best-effort"): a file that the lane's call opened, or was to close, may.
GoneLeavesNothingOpen ==
  \A c \in Conns : phase[c] = "gone" => store[c] \cup spare[c] = {}

\* "Deleting waits for no turn to be running: a run reads the bank as it goes
\* and writes to it as it ends" (Connection.lessons): no settings change is
\* under way while a turn runs.
SettingsWaitForTurns ==
  changing # {} => Occupied = {}

\* "start a turn (one at a time per session)" (agent/server/protocol.py).
OneTurnPerSession ==
  \A g, h \in Occupied : g[2] = h[2] => g = h

\* "anything about to delete the session must call it first" (Session.close,
\* agent/cli/shell.py): a session that has been deleted is open nowhere.
DeletedIsOpenNowhere ==
  \A c \in Conns : (store[c] \cup spare[c]) \cap deleted = {}

\* "cancel() stops it within one model call" (README.md): a turn for which
\* cancel() was called sees a set Event.
CancelIsSeen ==
  \A c \in Conns, s \in Sessions :
    (asked[c][s] /\ Busy(c, s)) => cancelled[c][s]
=============================================================================
