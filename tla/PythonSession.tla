---------------------------- MODULE PythonSession ----------------------------
(* One persistent interpreter for a run: agent/pipeline/python_session.py, the
   process it talks to (_python_session_shim.py), and what
   tools.execute_python makes of what it raises.

   The run's thread makes one call after another (its loop runs one tool at a
   time), then closes the session.  The child is another process: it runs a
   snippet to its end, raises, hangs, ignores the interrupt, dies, or closes
   the channel its results leave by.  Every wait of the parent is a timeout.

   A snippet is the call that sent it, and the state of the interpreter is the
   set of calls whose definitions are in it.  Abstracted: what a snippet
   prints, the capture files, exit codes, the memory ceiling and the builtins
   put back after each call.                                                *)
EXTENDS Naturals, Sequences

CONSTANTS MaxRuns,     \* calls the run makes, the bound of the model
          MaxCalls,    \* max_calls: calls a process serves, 0 for no limit
          Idles,       \* whether idle_timeout_s may pass between calls
          NoPopen,     \* whether the process may fail to be created
          Forged,      \* frames of nobody's call a snippet may write
          LateDeath    \* whether the child may die after it has reported a
                       \* call and before the parent looks at it again

ASSUME SessionAssumption ==
  /\ MaxRuns \in Nat /\ MaxCalls \in Nat /\ Forged \in Nat
  /\ Idles \in BOOLEAN /\ NoPopen \in BOOLEAN /\ LateDeath \in BOOLEAN

VARIABLES
  parent,     \* where the run's thread is in LocalPythonSession.run
  session,    \* _has_state, _calls_in_process, and whether _private is set
  child,      \* the process: where it is, its namespace, its channel
  request,    \* what is in the pipe to it
  frames,     \* _frames: what _pump has read
  runs,       \* calls made
  forged,     \* frames forged so far
  dirs,       \* private directories on disk
  believes    \* (history) calls whose definitions the results so far have
              \* the caller believe are there

vars == <<parent, session, child, request, frames, runs, forged, dirs, believes>>

Calls == 1..MaxRuns
Eof == [kind |-> "eof", call |-> 0, ok |-> FALSE]
Ready == [kind |-> "ready", call |-> 0, ok |-> FALSE]
Report(c, ok) == [kind |-> "result", call |-> c, ok |-> ok]

NoResult == [kind |-> "none", of |-> 0, ok |-> FALSE, timed |-> FALSE, reset |-> FALSE]
Result(of, ok, timed, reset) ==
  [kind |-> "result", of |-> of, ok |-> ok, timed |-> timed, reset |-> reset]
Raised(kind) == [NoResult EXCEPT !.kind = kind]

NoChild == [at |-> "none", call |-> 0, ns |-> {}, saw |-> {}, deaf |-> FALSE,
            signalled |-> FALSE, muted |-> FALSE]
Alive == child.at \notin {"none", "dead"}

(* ------------------------------ the process ------------------------------ *)

\* _discard: the process is killed, what it left unread goes with it, and so
\* does its directory.
Discard ==
  /\ child' = NoChild
  /\ request' = 0
  /\ frames' = <<>>
  /\ dirs' = IF session.private THEN dirs - 1 ELSE dirs

\* _discard, then _spawn: a directory, then the process.
Spawn ==
  /\ parent.at = "spawn"
  /\ \/ /\ child' = [NoChild EXCEPT !.at = "booting"]
        /\ session' = [session EXCEPT !.private = TRUE, !.calls = 0]
        /\ parent' = [parent EXCEPT !.at = "boot"]
     \/ /\ NoPopen
        /\ child' = NoChild
        /\ session' = [session EXCEPT !.private = TRUE]
        /\ parent' = [parent EXCEPT !.at = "returned", !.result = Raised("oserror")]
  /\ request' = 0 /\ frames' = <<>>
  /\ dirs' = (IF session.private THEN dirs - 1 ELSE dirs) + 1
  /\ UNCHANGED <<runs, forged, believes>>

\* The first frame within BOOT_TIMEOUT_S is READY, or this interpreter does
\* not work here.
Booted ==
  /\ parent.at = "boot"
  /\ frames # <<>> /\ Head(frames) = Ready
  /\ frames' = Tail(frames)
  /\ parent' = [parent EXCEPT !.at = "send"]
  /\ UNCHANGED <<session, child, request, runs, forged, dirs, believes>>

BootFails ==
  /\ parent.at = "boot"
  /\ frames # <<>> => Head(frames) # Ready
  /\ Discard
  /\ session' = [session EXCEPT !.private = FALSE]
  /\ parent' = [parent EXCEPT !.at = "returned", !.result = Raised("unavailable")]
  /\ UNCHANGED <<runs, forged, believes>>

(* -------------------------------- a call --------------------------------- *)

\* run: the ceilings first (_evict_if_due).
Call ==
  /\ parent.at = "idle"
  /\ runs < MaxRuns
  /\ runs' = runs + 1
  /\ \E due \in {Alive /\ MaxCalls > 0 /\ session.calls >= MaxCalls} \cup {Alive /\ Idles} :
       /\ parent' = [at |-> "check", call |-> runs + 1, lost |-> due, again |-> FALSE,
                     result |-> NoResult]
       /\ IF due THEN Discard /\ session' = [session EXCEPT !.private = FALSE]
          ELSE UNCHANGED <<session, child, request, frames, dirs>>
  /\ UNCHANGED <<forged, believes>>

\* A process that is not there is started; it is a loss when a call before
\* left state in one.
Check ==
  /\ parent.at = "check"
  /\ parent' = IF Alive THEN [parent EXCEPT !.at = "send"]
               ELSE [parent EXCEPT !.at = "spawn", !.lost = @ \/ session.hasState]
  /\ UNCHANGED <<session, child, request, frames, runs, forged, dirs, believes>>

\* _send, with one respawn when the pipe is gone.
Send ==
  /\ parent.at = "send"
  /\ Alive
  /\ request' = parent.call
  /\ session' = [session EXCEPT !.calls = IF MaxCalls = 0 THEN 0 ELSE @ + 1]
  /\ parent' = [parent EXCEPT !.at = "await"]
  /\ UNCHANGED <<child, frames, runs, forged, dirs, believes>>

SendFails ==
  /\ parent.at = "send"
  /\ ~Alive
  /\ IF parent.again
     THEN /\ Discard
          /\ session' = [session EXCEPT !.private = FALSE]
          /\ parent' = [parent EXCEPT !.at = "returned", !.result = Raised("unavailable")]
     ELSE /\ parent' = [parent EXCEPT !.at = "spawn", !.lost = TRUE, !.again = TRUE]
          /\ UNCHANGED <<session, child, request, frames, dirs>>
  /\ UNCHANGED <<runs, forged, believes>>

Answers(f) == f.kind = "result" /\ f.call = parent.call

\* _frame_for: a frame that is nobody's answer is dropped.
Drop ==
  /\ parent.at \in {"await", "grace"}
  /\ frames # <<>>
  /\ ~Answers(Head(frames)) /\ Head(frames) # Eof
  /\ frames' = Tail(frames)
  /\ UNCHANGED <<parent, session, child, request, runs, forged, dirs, believes>>

\* _await: the answer.  After the timeout the wall clock is the contract.
Answered ==
  /\ parent.at \in {"await", "grace"}
  /\ frames # <<>> /\ Answers(Head(frames))
  /\ LET f == Head(frames)
     IN parent' = [parent EXCEPT !.at = "note",
                     !.result = Result(f.call, f.ok /\ parent.at = "await",
                                       parent.at = "grace", FALSE)]
  /\ frames' = Tail(frames)
  /\ UNCHANGED <<session, child, request, runs, forged, dirs, believes>>

\* _died: the channel is at its end.
Died ==
  /\ parent.at \in {"await", "grace"}
  /\ frames # <<>> /\ Head(frames) = Eof
  /\ Discard
  /\ session' = [session EXCEPT !.private = FALSE]
  /\ parent' = [parent EXCEPT !.at = "note",
                  !.result = Result(0, FALSE, parent.at = "grace", TRUE)]
  /\ UNCHANGED <<runs, forged, believes>>

\* Nothing within the timeout: the call is interrupted, if there is a process
\* to interrupt.
TimesOut ==
  /\ parent.at = "await"
  /\ IF Alive
     THEN /\ child' = [child EXCEPT !.signalled = child.at = "running"]
          /\ parent' = [parent EXCEPT !.at = "grace"]
     ELSE parent' = [parent EXCEPT !.at = "kill"] /\ UNCHANGED child
  /\ UNCHANGED <<session, request, frames, runs, forged, dirs, believes>>

\* Mutant of Kill: the grace period lasts until the child reports.
WaitsOn ==
  /\ parent.at = "kill"
  /\ Discard
  /\ session' = [session EXCEPT !.private = FALSE]
  /\ parent' = [parent EXCEPT !.at = "note", !.result = Result(0, FALSE, TRUE, TRUE)]
  /\ UNCHANGED <<runs, forged, believes>>

\* Nor within the grace period: the process is killed, and the result says so.
Kill ==
  /\ parent.at \in {"grace", "kill"}
  /\ Discard
  /\ session' = [session EXCEPT !.private = FALSE]
  /\ parent' = [parent EXCEPT !.at = "note", !.result = Result(0, FALSE, TRUE, TRUE)]
  /\ UNCHANGED <<runs, forged, believes>>

\* Mutant of Note: only this call's own end is a reset.
NoteForgets ==
  /\ parent.at = "note"
  /\ session' = [session EXCEPT !.hasState = Alive]
  /\ parent' = [parent EXCEPT !.at = "returned"]
  /\ UNCHANGED <<child, request, frames, runs, forged, dirs, believes>>

\* What run remembers of the call, and adds to its result.
Note ==
  /\ parent.at = "note"
  /\ session' = [session EXCEPT !.hasState = Alive]
  /\ parent' = [parent EXCEPT !.at = "returned", !.result.reset = @ \/ parent.lost]
  /\ UNCHANGED <<child, request, frames, runs, forged, dirs, believes>>

\* The caller reads the result.  RESET_NOTE says that everything of earlier
\* calls is gone; an unavailable interpreter had the call run elsewhere.
Read ==
  /\ parent.at = "returned"
  /\ believes' = IF parent.result.kind # "result" THEN believes
                 ELSE (IF parent.result.reset THEN {} ELSE believes)
                      \cup (IF parent.result.ok THEN {parent.call} ELSE {})
  /\ parent' = [at |-> "idle", call |-> 0, lost |-> FALSE, again |-> FALSE,
                result |-> NoResult]
  /\ UNCHANGED <<session, child, request, frames, runs, forged, dirs>>

\* The run's block is left.
Close ==
  /\ parent.at = "idle"
  /\ Discard
  /\ session' = [session EXCEPT !.private = FALSE]
  /\ parent' = [parent EXCEPT !.at = "closed"]
  /\ UNCHANGED <<runs, forged, believes>>

(* ------------------------------- the child ------------------------------- *)

Emit(f) == frames' = IF child.muted THEN frames ELSE Append(frames, f)

BootsUp ==
  /\ child.at = "booting"
  /\ child' = [child EXCEPT !.at = "reading"]
  /\ Emit(Ready)
  /\ UNCHANGED <<parent, session, request, runs, forged, dirs, believes>>

\* A request: a snippet that the interrupt will stop, or one that is deaf to
\* it (a C call, a handler of its own, a KeyboardInterrupt it swallows).
Starts ==
  /\ child.at = "reading" /\ request # 0
  /\ \E deaf \in BOOLEAN :
       child' = [child EXCEPT !.at = "running", !.call = request, !.saw = child.ns,
                              !.deaf = deaf]
  /\ request' = 0
  /\ UNCHANGED <<parent, session, frames, runs, forged, dirs, believes>>

\* The snippet ends, or raises after some of its definitions, and the child
\* reports it.
Ends ==
  /\ child.at = "running"
  /\ \E ok \in BOOLEAN, defined \in BOOLEAN :
       /\ ok => defined /\ (child.signalled => child.deaf)
       /\ Emit(Report(child.call, ok))
       /\ child' = [child EXCEPT !.at = "reading", !.call = 0, !.deaf = FALSE,
                      !.signalled = FALSE,
                      !.ns = IF defined THEN @ \cup {child.call} ELSE @]
  /\ UNCHANGED <<parent, session, request, runs, forged, dirs, believes>>

\* A frame that is nobody's answer.
Forges ==
  /\ child.at = "running" /\ forged < Forged
  /\ forged' = forged + 1
  /\ Emit(Report(0, TRUE))
  /\ UNCHANGED <<parent, session, child, request, runs, dirs, believes>>

\* The channel is closed under the shim.
Mutes ==
  /\ child.at \in {"reading", "running"} /\ ~child.muted
  /\ Emit(Eof)
  /\ child' = [child EXCEPT !.muted = TRUE]
  /\ UNCHANGED <<parent, session, request, runs, forged, dirs, believes>>

\* The process dies: os._exit, a signal, the memory of the machine.
Dies ==
  /\ Alive
  /\ LateDeath \/ ~(/\ child.at = "reading" /\ request = 0
                    /\ parent.at \in {"await", "grace", "kill", "note"})
  /\ Emit(Eof)
  /\ child' = [child EXCEPT !.at = "dead", !.muted = TRUE]
  /\ UNCHANGED <<parent, session, request, runs, forged, dirs, believes>>

(* ------------------------------------------------------------------------- *)

Init ==
  /\ parent = [at |-> "idle", call |-> 0, lost |-> FALSE, again |-> FALSE,
               result |-> NoResult]
  /\ session = [hasState |-> FALSE, calls |-> 0, private |-> FALSE]
  /\ child = NoChild
  /\ request = 0 /\ frames = <<>> /\ runs = 0 /\ forged = 0 /\ dirs = 0
  /\ believes = {}

Waits == Booted \/ BootFails \/ Answered \/ Died \/ TimesOut \/ Kill
Runs == Check \/ Spawn \/ Send \/ SendFails \/ Waits \/ Note \/ Read
Shim == BootsUp \/ Starts \/ Ends \/ Forges \/ Mutes \/ Dies

Next == Call \/ Close \/ Drop \/ Runs \/ Shim

Spec == Init /\ [][Next]_vars

\* The parent's waits end, by their timeout if nothing comes; the child owes
\* nothing.
FairSpec == Spec /\ WF_vars(Runs)

(* ------------------------------ properties ------------------------------- *)

Frames == [kind : {"ready", "result", "eof"}, call : Calls \cup {0}, ok : BOOLEAN]
Results == [kind : {"none", "result", "unavailable", "oserror"}, of : Calls \cup {0},
            ok : BOOLEAN, timed : BOOLEAN, reset : BOOLEAN]

Parents == [at : {"idle", "check", "spawn", "boot", "send", "await", "grace", "kill",
                  "note", "returned", "closed"},
            call : Calls \cup {0}, lost : BOOLEAN, again : BOOLEAN, result : Results]
Children == [at : {"none", "booting", "reading", "running", "dead"},
             call : Calls \cup {0}, ns : SUBSET Calls, saw : SUBSET Calls,
             deaf : BOOLEAN, signalled : BOOLEAN, muted : BOOLEAN]

\* There is one process and one directory at most, and no frame but those of
\* the calls that were made.
TypeOK ==
  /\ parent \in Parents
  /\ session \in [hasState : BOOLEAN, calls : Nat, private : BOOLEAN]
  /\ child \in Children
  /\ request \in Calls \cup {0}
  /\ frames \in Seq(Frames)
  /\ runs \in 0..MaxRuns
  /\ forged \in 0..Forged
  /\ dirs \in 0..1
  /\ believes \in SUBSET Calls

\* A result that does not say the interpreter was restarted is of a call that
\* ran where every earlier definition the caller knows of still is
\* (SessionResult.reset; RESET_NOTE), whatever was evicted, killed or died.
NothingLostUntold ==
  parent.at = "returned" /\ parent.result.kind = "result" /\ ~parent.result.reset
    => believes \subseteq child.saw

\* A result is of the call it answers, whatever a snippet wrote on the channel
\* (FRAMING).
AnswersAreOwn == parent.result.of \in {0, parent.call}

\* The directory of a session goes with its process, and a session that is
\* closed has left neither (LIFETIME).
NothingIsLeft ==
  /\ dirs = IF session.private THEN 1 ELSE 0
  /\ parent.at = "closed" => ~Alive /\ dirs = 0

\* There is never more of a session than its one process and directory, what it
\* answers is the call that waits, and what was lost is told.
SessionInv == TypeOK /\ NothingIsLeft /\ AnswersAreOwn /\ NothingLostUntold

\* A call comes back, whatever the snippet does and whether or not the child
\* hears the interrupt (A CALL THAT WILL NOT END).
CallsReturn == (parent.at = "check") ~> (parent.at = "returned")

\* "The interpreter could not be started.  tools.py falls back to the
\* fresh-process path on it" (SessionUnavailable).
OnlyUnavailableIsRaised == parent.result.kind # "oserror"

=============================================================================
