------------------------------- MODULE Routes -------------------------------
(* What a person pins on top of the routing table, on disk and in the table:
   agent/router/overrides.py, agent/router/reload.py, the edits of
   agent/router/setup.py and agent/embed.py, and the two lines of
   Router._resolve that ask whether the head of a chain is a pin.

   Several threads edit at once: the ops pool of `otto serve` runs every
   pin and clear of every connection, and a terminal is a process of its own
   on the same file.  An edit loads the file, saves it and rebuilds the live
   table in place, one statement after the other; threads that resolve read
   that table meanwhile.  A process may stop anywhere, and applies the file
   when it starts again.

   Abstracted: a chain is its pin, if any, on top of the shipped candidates;
   labels and capabilities of an endpoint are not modelled, and a spec that no
   call could name (a bad name, a bad shape) is refused before any of this.
   A seat (bind_seats) is a head of one thread's own and is not modelled.  *)
EXTENDS Naturals, FiniteSets

CONSTANTS Processes,
          Editors,          \* threads that edit, each in a process
          Turns,            \* threads that resolve, each in a process
          Home,             \* the process of every thread
          Tasks,
          Specs,            \* "provider:model" strings
          VendorOf,         \* the provider of each
          Customs,          \* providers that are endpoints a person added
          Bound,            \* <<task, spec>> that PROVIDER_ONLY refuses
          Unfit,            \* <<task, spec>> that mapping.validate refuses
          Kinds,            \* the edits that are made
          Edited,           \* the tasks each editor pins and clears
          Files,            \* inodes: routes.json, its .tmp, what is open
          Pins,             \* Candidate objects of pins
          Crashes,          \* whether a process may stop
          SavesFail         \* whether a save may raise an OSError

None == "none"
NoTask == "no task"
Kept == [pins : [Tasks -> Specs \cup {None}], ends : SUBSET Customs]
Nothing == [pins |-> [t \in Tasks |-> None], ends |-> {}]

\* What a run gives these.  Inodes and objects are enough for what can be in
\* use at once.
ASSUME RoutesAssumption ==
  /\ \A S \in {Processes, Editors, Turns, Tasks, Files, Pins} : IsFiniteSet(S)
  /\ \A x \in Editors \cup Turns : Home[x] \in Processes
  /\ None \notin Specs /\ None \notin Customs /\ NoTask \notin Tasks
  /\ Bound \subseteq Tasks \X Specs
  /\ Unfit \subseteq Tasks \X Specs
  /\ \A e \in Editors : Edited[e] \subseteq Tasks
  /\ Kinds \subseteq {"pin", "clear", "add", "remove"}
  /\ Cardinality(Files) >= 2 + Cardinality(Editors)
  /\ Cardinality(Pins) > 2 * Cardinality(Processes) * Cardinality(Tasks)
                          + Cardinality(Editors) + Cardinality(Turns)
  /\ 0 \notin Files /\ 0 \notin Pins
  /\ Crashes \in BOOLEAN /\ SavesFail \in BOOLEAN

VARIABLES
  routes, tmp,   \* the inodes routes.json and routes.json.tmp name, or 0
  content,       \* what is in each inode
  live,          \* TASK_ROUTES of each process: the pin that heads each chain
  active,        \* overrides._ACTIVE: the pin object of each task, or 0
  registered,    \* custom endpoints known to each process
  ahead,         \* processes whose table has a pin that could not be saved
  editor,        \* where each thread is in an edit
  turn           \* where each thread is in resolve

routesVars == <<routes, tmp, content, live, active, registered, ahead, editor, turn>>
disk == <<routes, tmp, content>>
table == <<live, active, registered, ahead>>

NoPin == [spec |-> None, pin |-> 0]

Blank == [state |-> "empty", kept |-> Nothing]
Torn  == [state |-> "torn", kept |-> Nothing]

(* -------------------------------- the file ------------------------------- *)

\* load: an absent file and one that does not parse are empty.
Loaded == IF routes = 0 \/ content[routes].state # "whole"
          THEN Nothing ELSE content[routes].kept

\* validate_pin, given the endpoints that are registered.
Known(ends, spec) == VendorOf[spec] \in Customs => VendorOf[spec] \in ends
Valid(ends, t, spec) == <<t, spec>> \notin Bound /\ Known(ends, spec)

\* What apply makes of an Overrides that nobody else is applying.
Applied(o) == [t \in Tasks |->
  IF /\ o.pins[t] # None
     /\ Valid(o.ends, t, o.pins[t])
     /\ <<t, o.pins[t]>> \notin Unfit
  THEN o.pins[t] ELSE None]

\* The Overrides an edit wants instead of o.
Changed(e, o) ==
  CASE e.kind = "pin"   -> [o EXCEPT !.pins[e.task] = e.spec]
    [] e.kind = "clear" -> [o EXCEPT !.pins[e.task] = None]
    [] e.kind = "add"   -> [o EXCEPT !.ends = @ \cup {e.end}]
    [] e.kind = "remove" ->
         [pins |-> [t \in Tasks |-> IF o.pins[t] # None /\ VendorOf[o.pins[t]] = e.end
                                    THEN None ELSE o.pins[t]],
          ends |-> o.ends \ {e.end}]

NoEdit == [kind |-> "none", task |-> NoTask, spec |-> None, end |-> None]

\* The edits a thread may make.
Edits(e) ==
  {d \in [kind : Kinds, task : Edited[e] \cup {NoTask}, spec : Specs \cup {None},
          end : Customs \cup {None}] :
     /\ d.task # NoTask <=> d.kind \in {"pin", "clear"}
     /\ d.spec # None <=> d.kind = "pin"
     /\ d.end # None <=> d.kind \in {"add", "remove"}}

\* Edits that may change the pin of a task.
Touches(edit, t) == edit.task = t \/ edit.kind = "remove"

(* ------------------------------- an edit --------------------------------- *)

\* An editor between edits.
Resting == [at |-> "idle", edit |-> NoEdit, old |-> Nothing, arg |-> Nothing,
            then |-> "idle", todo |-> {}, task |-> NoTask, pin |-> 0,
            problems |-> {}, fd |-> 0, told |-> "none"]

\* The edit is over, and the caller knows how it went.
Tell(e, how) ==
  editor' = [editor EXCEPT ![e] = [Resting EXCEPT
    !.told = how, !.edit = IF how = "done" THEN editor[e].edit ELSE NoEdit]]

\* apply(o) as a call: it goes on at `then`.
Apply(r, o, then) == [r EXCEPT !.at = "restore", !.arg = o, !.then = then, !.problems = {}]

\* set_pin, clear_pin, add_endpoint, remove_endpoint: each loads the file.
\* A pin is checked before anything is applied; a clear of what is not
\* pinned does nothing but reload.
Load(e) ==
  /\ editor[e].at = "idle"
  /\ \E edit \in Edits(e) :
       /\ editor' = [editor EXCEPT ![e] = [Resting EXCEPT
            !.edit = edit, !.old = IF edit.kind = "pin" THEN Loaded ELSE Nothing,
            !.arg = Changed(edit, Loaded),
            !.at = IF edit.kind = "pin" THEN "check"
                   ELSE IF edit.kind = "clear" /\ Loaded.pins[edit.task] = None
                        THEN "reload" ELSE "open"]]
       /\ turn' = [r \in Turns |-> [turn[r] EXCEPT
            !.quiet = @ /\ Home[r] # Home[e],
            !.want = IF Touches(edit, turn[r].task) THEN None ELSE @]]
  /\ UNCHANGED <<disk, table>>

\* set_pin: the file's endpoints are registered, so that validate_pin knows
\* their names.
CheckPin(e) ==
  LET edit == editor[e].edit
      ends == IF editor[e].old.ends = {} THEN registered[Home[e]] ELSE editor[e].old.ends
  IN /\ editor[e].at = "check"
     /\ registered' = [registered EXCEPT ![Home[e]] = ends]
     /\ IF Valid(ends, edit.task, edit.spec)
        THEN editor' = [editor EXCEPT ![e] = Apply(@, editor[e].arg, "pinned")]
        ELSE Tell(e, "refused")
     /\ UNCHANGED <<disk, live, active, ahead, turn>>

\* Mutant of Restore: a chain that has no pin any more keeps the one it had.
RestoreKeeps(e) ==
  /\ editor[e].at = "restore"
  /\ registered' = [registered EXCEPT ![Home[e]] = editor[e].arg.ends]
  /\ ahead' = ahead \ {Home[e]}
  /\ editor' = [editor EXCEPT ![e].at = "clear"]
  /\ UNCHANGED <<disk, live, active, turn>>

\* apply: the endpoints, then every chain as it was shipped.
Restore(e) ==
  /\ editor[e].at = "restore"
  /\ registered' = [registered EXCEPT ![Home[e]] = editor[e].arg.ends]
  /\ live' = [live EXCEPT ![Home[e]] = [t \in Tasks |-> NoPin]]
  /\ ahead' = ahead \ {Home[e]}
  /\ editor' = [editor EXCEPT ![e].at = "clear"]
  /\ UNCHANGED <<disk, active, turn>>

\* _ACTIVE.clear()
ClearActive(e) ==
  /\ editor[e].at = "clear"
  /\ active' = [active EXCEPT ![Home[e]] = [t \in Tasks |-> 0]]
  /\ editor' = [editor EXCEPT ![e].at = "place",
                              ![e].todo = {t \in Tasks : editor[e].arg.pins[t] # None}]
  /\ UNCHANGED <<disk, live, registered, ahead, turn>>

\* An object nothing refers to.
Fresh == CHOOSE n \in Pins :
  /\ \A p \in Processes, t \in Tasks : live[p][t].pin # n /\ active[p][t] # n
  /\ \A e \in Editors : editor[e].pin # n
  /\ \A r \in Turns : turn[r].head.pin # n

\* The next pin goes at the head of its chain, or is a problem: validate_pin
\* looks at the pin, mapping.validate at the whole table.
Place(e) ==
  /\ editor[e].at = "place"
  /\ \E t \in editor[e].todo :
       LET spec == editor[e].arg.pins[t]
           ends == registered[Home[e]]
       IN IF /\ Valid(ends, t, spec)
             /\ <<t, spec>> \notin Unfit
             /\ \A u \in Tasks : live[Home[e]][u].spec # None
                                  => Known(ends, live[Home[e]][u].spec)
          THEN /\ live' = [live EXCEPT ![Home[e]][t] = [spec |-> spec, pin |-> Fresh]]
               /\ editor' = [editor EXCEPT ![e].todo = @ \ {t}, ![e].task = t,
                                           ![e].pin = Fresh, ![e].at = "hold"]
          ELSE /\ editor' = [editor EXCEPT ![e].todo = @ \ {t},
                                           ![e].problems = @ \cup {t}]
               /\ UNCHANGED live
  /\ UNCHANGED <<disk, active, registered, ahead, turn>>

\* _ACTIVE[task] = pin
Hold(e) ==
  /\ editor[e].at = "hold"
  /\ active' = [active EXCEPT ![Home[e]][editor[e].task] = editor[e].pin]
  /\ editor' = [editor EXCEPT ![e].at = "place", ![e].task = NoTask, ![e].pin = 0]
  /\ UNCHANGED <<disk, live, registered, ahead, turn>>

\* What follows when apply returns.
Returns(e) ==
  /\ editor[e].at = "place" /\ editor[e].todo = {}
  /\ \/ /\ editor[e].then = "pinned"
        /\ editor' = [editor EXCEPT ![e] =
             IF editor[e].edit.task \in editor[e].problems
             THEN Apply(@, editor[e].old, "refused")
             ELSE [@ EXCEPT !.at = "open", !.old = Nothing, !.problems = {}]]
     \/ editor[e].then = "refused" /\ Tell(e, "refused")
     \/ /\ editor[e].then = "applied"
        /\ editor' = [editor EXCEPT ![e].at = "reload", ![e].problems = {}]
     \/ editor[e].then = "reloaded" /\ Tell(e, "done")
  /\ UNCHANGED <<disk, table, turn>>

\* The save raises: what set_pin has applied stays at the head of its chain,
\* until something else is applied; the other edits have applied nothing.
Raises(e) ==
  /\ Tell(e, "failed")
  /\ ahead' = IF editor[e].edit.kind = "pin" THEN ahead \cup {Home[e]} ELSE ahead

\* save: tmp.write_text opens the .tmp, the same name for every writer, and
\* truncates it,
Open(e) ==
  /\ editor[e].at = "open"
  /\ LET i == IF tmp # 0 THEN tmp
              ELSE CHOOSE f \in Files : f # routes /\ \A d \in Editors : editor[d].fd # f
     IN /\ tmp' = i
        /\ content' = [content EXCEPT ![i] = Blank]
        /\ editor' = [editor EXCEPT ![e].at = "write", ![e].fd = i]
  /\ UNCHANGED <<routes, table, turn>>

\* then writes.  Over another's text it leaves that one's tail, when that is
\* the longer.
Write(e) ==
  /\ editor[e].at = "write"
  /\ \E state \in IF content[editor[e].fd].state = "empty" THEN {"whole"}
                  ELSE {"whole", "torn"} :
       content' = [content EXCEPT ![editor[e].fd] =
                     [state |-> state,
                      kept |-> IF state = "whole" THEN editor[e].arg ELSE Nothing]]
  /\ editor' = [editor EXCEPT ![e].at = "replace", ![e].fd = 0]
  /\ UNCHANGED <<routes, tmp, table, turn>>

\* os.replace: FileNotFoundError when another's replace took the .tmp.
\* set_pin has applied before it saves, the others apply now.
Replace(e) ==
  /\ editor[e].at = "replace"
  /\ IF tmp = 0
     THEN Raises(e) /\ UNCHANGED disk
     ELSE /\ routes' = tmp /\ tmp' = 0
          /\ content' = [f \in Files |-> IF f = routes THEN Blank ELSE content[f]]
          /\ editor' = [editor EXCEPT ![e] =
               IF editor[e].edit.kind = "pin" THEN [@ EXCEPT !.at = "reload"]
               ELSE Apply(@, editor[e].arg, "applied")]
          /\ UNCHANGED ahead
  /\ UNCHANGED <<live, active, registered, turn>>

\* An OSError anywhere in a save; a write may have come half way.
SaveFails(e) ==
  /\ SavesFail
  /\ editor[e].at \in {"open", "write", "replace"}
  /\ Raises(e)
  /\ \/ UNCHANGED content
     \/ editor[e].at = "write" /\ content' = [content EXCEPT ![editor[e].fd] = Torn]
  /\ UNCHANGED <<routes, tmp, live, active, registered, turn>>

\* reload_everything: apply of what the file holds now, then the providers
\* and the routers, which hold nothing of this.
Reload(e) ==
  /\ editor[e].at = "reload"
  /\ editor' = [editor EXCEPT ![e] = Apply(@, Loaded, "reloaded")]
  /\ UNCHANGED <<disk, table, turn>>

(* ------------------------------- resolving ------------------------------- *)

Waiting == [at |-> "idle", task |-> NoTask, head |-> NoPin, quiet |-> FALSE, want |-> None]

\* A task is resolved.  want: its pin, when it is in the file and in the
\* table and nobody edits it; quiet: nobody in this process edits anything.
BeginResolve(r) ==
  /\ turn[r].at = "idle"
  /\ \E t \in Tasks :
       LET pin == Loaded.pins[t]
           settled == /\ live[Home[r]][t].spec = pin
                      /\ active[Home[r]][t] = live[Home[r]][t].pin
                      /\ \A e \in Editors : editor[e].at # "idle"
                                             => ~Touches(editor[e].edit, t)
       IN turn' = [turn EXCEPT ![r] = [Waiting EXCEPT
            !.at = "begun", !.task = t,
            !.want = IF settled THEN pin ELSE None,
            !.quiet = \A e \in Editors : Home[e] = Home[r] => editor[e].at = "idle"]]
  /\ UNCHANGED <<disk, table, editor>>

\* declared = TASK_ROUTES[task]
ReadChain(r) ==
  /\ turn[r].at = "begun"
  /\ turn' = [turn EXCEPT ![r].at = "read", ![r].head = live[Home[r]][turn[r].task]]
  /\ UNCHANGED <<disk, table, editor>>

\* is_pin(task, declared[0]): the head is the object _ACTIVE holds now.
IsHeld(r) ==
  turn[r].head.pin # 0 /\ active[Home[r]][turn[r].task] = turn[r].head.pin

\* The chain is tried in the declared order, or reordered by evidence.
AskHead(r) ==
  /\ turn[r].at = "read"
  /\ turn' = [turn EXCEPT ![r].at = IF IsHeld(r) THEN "held" ELSE "reordered"]
  /\ UNCHANGED <<disk, table, editor>>

EndResolve(r) ==
  /\ turn[r].at \in {"held", "reordered"}
  /\ turn' = [turn EXCEPT ![r] = Waiting]
  /\ UNCHANGED <<disk, table, editor>>

(* ------------------------------------------------------------------------- *)

\* A process stops, and applies the file when it starts again
\* (apply_at_startup); other processes keep what they have.
Restart(p) ==
  /\ Crashes
  /\ LET specs == Applied(Loaded)
         used == {n \in Pins : \/ \E q \in Processes \ {p}, t \in Tasks :
                                     live[q][t].pin = n \/ active[q][t] = n
                               \/ \E e \in Editors : Home[e] # p /\ editor[e].pin = n
                               \/ \E r \in Turns : Home[r] # p /\ turn[r].head.pin = n}
         given == CHOOSE f \in [Tasks -> Pins \ used] :
                    \A s, t \in Tasks : f[s] = f[t] => s = t
     IN /\ live' = [live EXCEPT ![p] = [t \in Tasks |->
                      IF specs[t] = None THEN NoPin ELSE [spec |-> specs[t], pin |-> given[t]]]]
        /\ active' = [active EXCEPT ![p] = [t \in Tasks |->
                        IF specs[t] = None THEN 0 ELSE given[t]]]
        /\ registered' = [registered EXCEPT ![p] = Loaded.ends]
  /\ ahead' = ahead \ {p}
  /\ editor' = [e \in Editors |-> IF Home[e] = p THEN Resting ELSE editor[e]]
  /\ turn' = [r \in Turns |-> IF Home[r] = p THEN Waiting ELSE turn[r]]
  /\ UNCHANGED disk

RoutesInit ==
  /\ routes = 0 /\ tmp = 0
  /\ content = [f \in Files |-> Blank]
  /\ live = [p \in Processes |-> [t \in Tasks |-> NoPin]]
  /\ active = [p \in Processes |-> [t \in Tasks |-> 0]]
  /\ registered = [p \in Processes |-> {}]
  /\ ahead = {}
  /\ editor = [e \in Editors |-> Resting]
  /\ turn = [r \in Turns |-> Waiting]

Applies(e) == Restore(e) \/ ClearActive(e) \/ Place(e) \/ Hold(e) \/ Returns(e)
Saves(e) == Open(e) \/ Write(e) \/ Replace(e) \/ SaveFails(e)
Resolves(r) == BeginResolve(r) \/ ReadChain(r) \/ AskHead(r) \/ EndResolve(r)

RoutesNext ==
  \/ \E e \in Editors : Load(e) \/ CheckPin(e) \/ Applies(e) \/ Saves(e) \/ Reload(e)
  \/ \E r \in Turns : Resolves(r)
  \/ \E p \in Processes : Restart(p)

RoutesSpec == RoutesInit /\ [][RoutesNext]_routesVars

(* ------------------------------ properties ------------------------------- *)

Contents == [state : {"empty", "torn", "whole"}, kept : Kept]
Stages == {"idle", "check", "restore", "clear", "place", "hold", "open", "write",
           "replace", "reload"}
EditsMade == {NoEdit} \cup UNION {Edits(e) : e \in Editors}
EditorType ==
  [at : Stages, edit : EditsMade, old : Kept, arg : Kept,
   then : {"idle", "pinned", "refused", "applied", "reloaded"},
   todo : SUBSET Tasks, task : Tasks \cup {NoTask}, pin : Pins \cup {0},
   problems : SUBSET Tasks, fd : Files \cup {0},
   told : {"none", "done", "refused", "failed"}]
TurnType ==
  [at : {"idle", "begun", "read", "held", "reordered"}, task : Tasks \cup {NoTask},
   head : [spec : Specs \cup {None}, pin : Pins \cup {0}],
   quiet : BOOLEAN, want : Specs \cup {None}]

\* Every inode, object and task an editor or the table refers to exists.
RoutesTypeOK ==
  /\ routes \in Files \cup {0}
  /\ tmp \in Files \cup {0}
  /\ content \in [Files -> Contents]
  /\ live \in [Processes -> [Tasks -> [spec : Specs \cup {None}, pin : Pins \cup {0}]]]
  /\ active \in [Processes -> [Tasks -> Pins \cup {0}]]
  /\ registered \in [Processes -> SUBSET Customs]
  /\ ahead \subseteq Processes
  /\ editor \in [Editors -> EditorType]
  /\ turn \in [Turns -> TurnType]

Idle(p) == \A e \in Editors : Home[e] = p => editor[e].at = "idle"

\* Wherever a process stops in a save, routes.json is absent or a whole file
\* (overrides.save writes beside it and replaces): the next edit does not
\* start from nothing.
FileIsWhole == routes # 0 => content[routes].state = "whole"

\* What is on disk and in memory is well formed, the file whole.
FileInv == RoutesTypeOK /\ FileIsWhole

\* Between edits the live table is what a process that starts now would
\* make of the file, after an edit that was refused, one that a restart cut
\* short, one whose save raised, and an endpoint that went with its pins
\* (overrides: "each saves the file and re-applies").  The one exception is a
\* pin that was applied and could not be saved, until the next apply.
LiveIsFile ==
  \A p \in Processes \ ahead :
    Idle(p) => \A t \in Tasks : live[p][t].spec = Applied(Loaded)[t]

\* Between edits the object is_pin knows is the head of the chain it is asked
\* about, by identity: a pin is held, and nothing else is.
PinIsHead ==
  \A p \in Processes : Idle(p) => \A t \in Tasks : active[p][t] = live[p][t].pin

Led(r) == turn[r].at \in {"held", "reordered"} /\ turn[r].want # None
            => turn[r].at = "held" /\ turn[r].head.spec = turn[r].want

\* With edits between turns only, as reload_everything asks, a pinned task is
\* resolved from its pin, which evidence does not move.
PinsLeadBetweenTurns == \A r \in Turns : turn[r].quiet => Led(r)

\* A pin is what its task resolves to, and what is_pin knows it by.
PinsHold == PinIsHead /\ PinsLeadBetweenTurns

\* The file is whole, and the live table and the pins are what it says.
RoutesInv == FileInv /\ LiveIsFile /\ PinsHold

\* "A pin the person set ... is never reordered or explored away"
\* (Router._resolve), nor does an edit of another task tear anything for a
\* thread mid-resolve (reload.py).
PinsLead == \A r \in Turns : Led(r)

NoneFailed == \A e \in Editors : editor[e].told # "failed"

\* "Pin `spec` on `task` in routes.json" (embed.set_pin): a pin that was
\* accepted, on a task only this thread edits, is in the file once all is
\* quiet.
AcceptedIsKept ==
  NoneFailed /\ (\A p \in Processes : Idle(p)) => \A e \in Editors :
    LET edit == editor[e].edit
    IN /\ editor[e].told = "done" /\ edit.kind = "pin"
       /\ \A d \in Editors \ {e} : edit.task \notin Edited[d]
       => Loaded.pins[edit.task] = edit.spec

\* "and make every live router see it" (embed.set_pin): once every edit is
\* over, and none failed, the table is what the file says.
EditsReachTheTable == NoneFailed => LiveIsFile

\* set_pin raises "PinError ... for a pin that can be seen to be wrong"
\* (embed.set_pin): an edit is done or refused.
EditsAreDoneOrRefused == NoneFailed

\* An edit that raises has changed nothing: of a pin this is not so, since
\* set_pin applies before it saves.
FailedChangesNothing == ahead = {}

=============================================================================
