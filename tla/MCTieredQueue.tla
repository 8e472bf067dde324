--------------------------- MODULE MCTieredQueue ---------------------------
(***************************************************************************)
(* A small TieredQueue, the memory of one conversation; a SessionIndex of  *)
(* two processes and two ids; and a Terminal, twice: with the screens that *)
(* may be open over a turn, and with those that change the session.  No    *)
(* two of them share state here, so one run checks one at a time, as       *)
(* `part` says.                                                            *)
(***************************************************************************)
EXTENDS TieredQueue, SessionIndex, Terminal, TLC

CONSTANTS y1, o1, o2, p1, p2, i1, i2

VARIABLE part

\* Every message is longer than one excerpt.
LongCost == [i \in {y1, o1, o2} |-> 2]

(* Two processes on the sessions of one machine, one of them imported.     *)
Machines == {p1, p2}
IndexIds == {i1, i2}
Imported == i1
Apart    == {}

ASSUME IndexAssumption

(* Two messages with the screens that may be open over a turn, or one among *)
(* those that end in a worker.                                              *)
Saved     == {"a", "b", "f"}
Places    == {"here", "there"}
OverTurns == {"score", "rename"}
InWorkers == {"sessions", "delete", "import", "workspace", "setup", "pin"}
AnyScreen == OverTurns \cup InWorkers

Shows(kinds) == \A k \in DOMAIN screens' : screens'[k].kind \in kinds \cup {"ask", "confirm"}

Turning ==
  /\ AppNext /\ Shows(OverTurns)
  /\ pinning' = "idle" /\ \A j \in jobs' : j.kind = "turn"
Choosing == AppNext /\ Shows(InWorkers) /\ sent' <= 1

\* The parts that do not run start in one way.
AnyInit ==
  /\ Init /\ IndexInit /\ AppInit
  /\ \/ part \in {"queue", "index"} /\ listed = {} /\ ws = "here"
     \/ part = "turns" /\ ws = "here"
     \/ part = "screens"

AnyNext ==
  \/ part = "queue" /\ Next /\ UNCHANGED <<part, indexVars, appVars>>
  \/ part = "index" /\ IndexNext /\ UNCHANGED <<part, vars, appVars>>
  \/ part = "turns" /\ Turning /\ UNCHANGED <<part, vars, indexVars>>
  \/ part = "screens" /\ Choosing /\ UNCHANGED <<part, vars, indexVars>>

AnySpec == AnyInit /\ [][AnyNext]_<<part, vars, indexVars, appVars>>

Symmetry == Permutations(Machines)
=============================================================================
