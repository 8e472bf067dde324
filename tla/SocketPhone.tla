---------------------------- MODULE SocketPhone ----------------------------
(***************************************************************************)
(* Device calls over one WebSocket (agent/server/proxy.py SocketPhone).    *)
(* Turn threads call the phone through _call; the event loop sends their   *)
(* frames, hands each device_result to the future that waits for it        *)
(* (resolve), and fails them all when the client goes (fail_all).          *)
(*                                                                         *)
(* A critical section of _lock is one action.  The loop runs one callback  *)
(* at a time and none of the three awaits, so `held` (the futures a        *)
(* callback has taken out of _pending and not set yet) keeps the next one  *)
(* waiting, while the turn threads go on.  A reply is the id it carries.   *)
(***************************************************************************)
EXTENDS Integers, FiniteSets

CONSTANTS
  Turns,      \* threads of turns that share the phone
  MaxCalls    \* bound: device calls made in one behaviour

ASSUME TurnsAssumption == IsFiniteSet(Turns)
ASSUME CallsAssumption == MaxCalls \in Nat

VARIABLES
  calls,      \* ids handed out by _ids
  pending,    \* keys of _pending
  future,     \* what each call's future holds
  pc, call,   \* where each thread is inside _call, and its call_id
  outbox,     \* sends scheduled on the loop that have not run
  sent,       \* frames that left
  lost,       \* sends that raised
  held, word, \* futures the loop is about to set, and to what
  up, closed, \* the socket is open; fail_all has run
  device,     \* calls the phone has received
  inbox,      \* device_result frames on their way
  refused     \* results answered with "no device_call is waiting"

table  == <<calls, pending, future>>
thread == <<pc, call>>
loop   == <<outbox, sent, lost, held, word, closed>>
client == <<up, device, inbox>>
vars   == <<table, thread, loop, client, refused>>

Ids     == 1..MaxCalls
NoReply == 0
Gone    == MaxCalls + 1   \* {"ok": False, ... "the client disconnected"}

-----------------------------------------------------------------------------
Init ==
  /\ calls = 0 /\ pending = {} /\ future = [c \in Ids |-> NoReply]
  /\ pc = [w \in Turns |-> "idle"] /\ call = [w \in Turns |-> 0]
  /\ outbox = {} /\ sent = {} /\ lost = {} /\ held = {} /\ word = NoReply
  /\ up = TRUE /\ closed = FALSE /\ device = {} /\ inbox = {} /\ refused = {}

Goto(w, from, to) == pc[w] = from /\ pc' = [pc EXCEPT ![w] = to]

\* _call: the future is entered under the call's id, and the send scheduled.
Call(w) ==
  /\ calls < MaxCalls
  /\ Goto(w, "idle", "sending")
  /\ calls' = calls + 1 /\ call' = [call EXCEPT ![w] = calls + 1]
  /\ pending' = pending \cup {calls + 1}
  /\ outbox' = outbox \cup {calls + 1}
  /\ UNCHANGED <<future, sent, lost, held, word, closed, client, refused>>

\* The loop runs a scheduled send, which raises on a closed socket.  A send
\* whose caller has given up runs all the same.
Send(c) ==
  /\ held = {} /\ c \in outbox
  /\ outbox' = outbox \ {c}
  /\ \/ up  /\ sent' = sent \cup {c} /\ device' = device \cup {c} /\ UNCHANGED lost
     \/ ~up /\ lost' = lost \cup {c} /\ UNCHANGED <<sent, device>>
  /\ UNCHANGED <<table, thread, held, word, up, closed, inbox, refused>>

SendOk(w) ==
  /\ call[w] \in sent
  /\ Goto(w, "sending", "waiting")
  /\ UNCHANGED <<table, call, loop, client, refused>>

\* The send raised, or five seconds went by: drop the future and raise.
SendFails(w) ==
  /\ call[w] \notin sent
  /\ Goto(w, "sending", "idle")
  /\ pending' = pending \ {call[w]}
  /\ UNCHANGED <<calls, future, call, loop, client, refused>>

\* future.result returns.
Return(w) ==
  /\ Goto(w, "waiting", "idle")
  /\ future[call[w]] # NoReply
  /\ UNCHANGED <<table, call, loop, client, refused>>

\* future.result raises TimeoutError; the future is dropped a moment later.
TimeOut(w) ==
  /\ Goto(w, "waiting", "late")
  /\ future[call[w]] = NoReply
  /\ UNCHANGED <<table, call, loop, client, refused>>

\* Mutant of GiveUp: the late call stays in the table.
GiveUpLeaks(w) ==
  /\ Goto(w, "late", "idle")
  /\ UNCHANGED <<table, call, loop, client, refused>>

GiveUp(w) ==
  /\ Goto(w, "late", "idle")
  /\ pending' = pending \ {call[w]}
  /\ UNCHANGED <<calls, future, call, loop, client, refused>>

-----------------------------------------------------------------------------
\* A device_result: resolve takes its future out of the table, or refuses it.
Resolve(m) ==
  /\ held = {} /\ m \in inbox
  /\ inbox' = inbox \ {m}
  /\ \/ /\ m \in pending
        /\ pending' = pending \ {m} /\ held' = {m} /\ word' = m
        /\ UNCHANGED refused
     \/ /\ m \notin pending
        /\ refused' = refused \cup {m}
        /\ UNCHANGED <<pending, held, word>>
  /\ UNCHANGED <<calls, future, thread, outbox, sent, lost, closed, up, device>>

\* set_result, outside the lock, for a future that is not done.
SetResult(c) ==
  /\ c \in held
  /\ held' = held \ {c}
  /\ future' = [future EXCEPT ![c] = IF @ = NoReply THEN word ELSE @]
  /\ UNCHANGED <<calls, pending, thread, outbox, sent, lost, word, closed, client, refused>>

\* Mutant of FailAll: the table is emptied and nobody is told.
FailAllSilently ==
  /\ ~up /\ ~closed /\ held = {}
  /\ closed' = TRUE
  /\ pending' = {}
  /\ UNCHANGED <<calls, future, thread, outbox, sent, lost, held, word, client, refused>>

\* Connection.close: fail_all swaps the table and takes what was in it.
FailAll ==
  /\ ~up /\ ~closed /\ held = {}
  /\ closed' = TRUE
  /\ held' = pending /\ word' = Gone /\ pending' = {}
  /\ UNCHANGED <<calls, future, thread, outbox, sent, lost, client, refused>>

\* The phone answers a call it has received, late, out of order, or twice.
Reply(c) ==
  /\ up /\ c \in device
  /\ inbox' = inbox \cup {c}
  /\ UNCHANGED <<table, thread, loop, up, device, refused>>

\* The socket closes: what was on its way is lost.
Disconnect ==
  /\ up
  /\ up' = FALSE /\ inbox' = {}
  /\ UNCHANGED <<table, thread, loop, device, refused>>

-----------------------------------------------------------------------------
OfThread(w) == Call(w) \/ SendOk(w) \/ SendFails(w) \/ Return(w) \/ TimeOut(w) \/ GiveUp(w)

OfLoop == (\E c \in Ids : Send(c) \/ Resolve(c) \/ SetResult(c)) \/ FailAll

Next ==
  \/ \E w \in Turns : OfThread(w)
  \/ OfLoop
  \/ \E c \in Ids : Reply(c)
  \/ Disconnect

Spec == Init /\ [][Next]_vars

\* The loop and the threads are scheduled.  No timeout is assumed to fire and
\* no phone to answer: TimeOut, Reply and Disconnect may never happen.
Scheduled ==
  /\ WF_vars(OfLoop)
  /\ \A w \in Turns : WF_vars(SendOk(w) \/ Return(w) \/ GiveUp(w))
  /\ \A w \in Turns : WF_vars(call[w] \in lost /\ SendFails(w))

FairSpec == Spec /\ Scheduled

-----------------------------------------------------------------------------
TypeOK ==
  /\ calls \in 0..MaxCalls
  /\ pending \subseteq Ids /\ held \subseteq Ids
  /\ future \in [Ids -> 0..Gone] /\ word \in 0..Gone
  /\ pc \in [Turns -> {"idle", "sending", "waiting", "late"}]
  /\ call \in [Turns -> 0..MaxCalls]
  /\ outbox \subseteq Ids /\ sent \subseteq Ids /\ lost \subseteq Ids
  /\ up \in BOOLEAN /\ closed \in BOOLEAN
  /\ device \subseteq Ids /\ inbox \subseteq Ids /\ refused \subseteq Ids

\* A call returns the result sent for it, or the failure of the connection,
\* never what another thread's call was answered with.
ReplyIsMine == \A c \in Ids : future[c] \in {NoReply, c, Gone}

\* The client is told "no device_call is waiting for that id" only when that
\* is so: no call whose result was refused is still waiting for it.
NothingAwaitedIsRefused ==
  \A w \in Turns :
    (pc[w] \in {"sending", "waiting"} /\ call[w] \in refused)
      => (call[w] \in held \/ future[call[w]] # NoReply)

\* The table holds calls in progress only: whatever way a call ends (a result,
\* a timeout, a failed send, a disconnect) its entry has gone.
NoEntryOutlivesItsCall ==
  \A c \in pending : \E w \in Turns : call[w] = c /\ pc[w] # "idle"

\* The table of a phone is exact: what waits is in it and is not refused its
\* result, nothing else is, and a result reaches the call it is for.
TableInv ==
  /\ TypeOK
  /\ ReplyIsMine
  /\ NothingAwaitedIsRefused
  /\ NoEntryOutlivesItsCall

\* A call in progress when the client leaves comes back without its timeout
\* having to run out (up to 185 s for an install).
DisconnectsReleaseCalls ==
  \A w \in Turns : (~up /\ pc[w] = "waiting") ~> pc[w] = "idle"
=============================================================================
