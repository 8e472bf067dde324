-------------------------- MODULE MCSessionHandle --------------------------
(***************************************************************************)
(* Small instances of what threads share with no lock around all of it: a  *)
(* SessionHandle; and the Temperature of models that refuse one, in one    *)
(* process or in two.  They share no state, so one run checks one at a     *)
(* time, as `part` says.                                                   *)
(***************************************************************************)
EXTENDS SessionHandle, Temperature, TLC

CONSTANTS w1, w2

VARIABLE part

TwoThreads == {w1, w2}

(* A model the tables know nothing of, one whose client refuses for it, a   *)
(* local one with a ceiling of its own; and, of the functions alone, one of *)
(* every kind the tables and the catalogues tell of.                        *)
Tells(measured, low, high, named, flag, ceiling, tells) ==
  [measured |-> measured, low |-> low, high |-> high, named |-> named, flag |-> flag,
   ceiling |-> ceiling, told |-> tells]
Does(what, range, client) == [does |-> what, range |-> range, client |-> client]

Called == {"fresh", "local", "fable"}
Known ==
  "mercury" :> Tells(TRUE, 5, 10, FALSE, "none", 0, TRUE)
  @@ "opus4" :> Tells(TRUE, 0, 10, TRUE, "honours", 0, TRUE)
  @@ "opus5" :> Tells(TRUE, 0, 10, FALSE, "fixed", 0, TRUE)
  @@ "o4"    :> Tells(TRUE, 0, 20, TRUE, "none", 0, TRUE)
  @@ "flash" :> Tells(TRUE, 0, 20, FALSE, "none", 10, TRUE)
  @@ "fresh" :> Tells(TRUE, 0, 20, FALSE, "none", 0, FALSE)
  @@ "fable" :> Tells(TRUE, 0, 10, FALSE, "honours", 0, FALSE)
  @@ "local" :> Tells(FALSE, 0, 0, FALSE, "none", 0, FALSE)
Honoured ==
  "mercury" :> Does("resets", 5..10, FALSE)
  @@ "opus4" :> Does("rejects", 0..10, FALSE)
  @@ "opus5" :> Does("fixed", {}, FALSE)
  @@ "o4"    :> Does("fixed", {}, FALSE)
  @@ "flash" :> Does("rejects", 0..10, FALSE)
  @@ "fresh" :> Does("fixed", {}, FALSE)
  @@ "local" :> Does("rejects", 0..8, FALSE)
  @@ "fable" :> Does("fixed", {}, TRUE)
Leads   == "p" :> {"fresh", "fable"} @@ "q" :> {"local"}
Asked   == {15}
Inodes  == 1..4

TwoProcesses == {"p", "q"}
TwoCalls     == {"a", "b"}
FreshGoes    == {"fresh"}
OneStops     == {"p"}

\* The parts that do not run start in one way.
AnyInit ==
  /\ Init /\ TempInit /\ home["a"] = "p"
  /\ \/ part = "handle" /\ home["b"] = "p"
     \/ part = "temperature"

Handles(action) == part = "handle" /\ action /\ UNCHANGED <<part, tempVars>>

AnyNext ==
  \/ Handles(Next)
  \/ part = "temperature" /\ TempNext /\ UNCHANGED <<part, vars>>

all == <<part, vars, tempVars>>

\* SessionHandle's AnsweringSpec, and TempSpec, which states no fairness.
AnySpec ==
  /\ AnyInit /\ [][AnyNext]_all
  /\ \A w \in Threads : WF_all(Handles(Step(w)))
  /\ WF_all(Handles(\E t \in Turns : Answer(t)))
=============================================================================
