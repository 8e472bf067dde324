--------------------------- MODULE MCSeatOutcomes ---------------------------
(***************************************************************************)
(* SeatOutcomes on a chain of two or three candidates; the Toolbox of a    *)
(* turn, over one code file and one page of three or four lines; and a     *)
(* Benchmark of three trials of two rounds.  No two of them share state    *)
(* here, so one run checks one at a time, as `part` says.                  *)
(***************************************************************************)
EXTENDS SeatOutcomes, Toolbox, Benchmark, TLC

VARIABLE part

Half == <<1, 2>>
ThreeQuarters == <<3, 4>>

Line(w, ind, tr) == [w |-> w, ind |-> ind, tr |-> tr]
On(ws, ct) == [ws |-> ws, ct |-> ct, browser |-> ws, shown |-> FALSE, off |-> {}]

BoxTexts == {<<Line("a", 0, 0), Line("a", 0, 0), Line("a", 0, 0), Line("b", 1, 0)>>,
             <<Line("a", 1, 0), Line("c", 0, 0), Line("b", 0, 1)>>}
BoxQuotes == {<<Line("a", 0, 0)>>,
              <<Line("a", 0, 1), Line("a", 0, 0)>>,
              <<Line("a", 0, 0), Line("b", 0, 0)>>,
              <<Line("a", 0, 0), Line("b", 0, 0), Line("b", 0, 0)>>}
BoxHosts == {On(TRUE, FALSE), On(FALSE, TRUE)}

BoxEdits == {"app.py", "index.html"}

(* A task whose last fifth is four units: a call of the loop and its tool, or *)
(* one call of the judge's or the user's.  Its tool needs a receiver and      *)
(* takes a number and one of two codes.                                       *)
TwoUnits == {2}
FourUnits == {4}
Marks    == 1..3
OneTool  == [required |-> {"to"},
             properties |-> "to" :> [type |-> "string", enum |-> {}]
                            @@ "many" :> [type |-> "number", enum |-> {}]
                            @@ "kind" :> [type |-> "integer", enum |-> {1, 2}]]
Field(type, value) == [type |-> type, value |-> value]
ToOne    == "to" :> Field("string", 1)
Written  ==
  {[object |-> FALSE, fields |-> <<>>]}
  \cup {[object |-> TRUE, fields |-> f] : f \in {
         ToOne,
         ToOne @@ "many" :> Field("boolean", 1),
         ToOne @@ "many" :> Field("integer", 1) @@ "kind" :> Field("integer", 3),
         ToOne @@ "other" :> Field("string", 1),
         "many" :> Field("number", 1)}}

\* The parts that do not run start in one way.
AnyInit ==
  /\ SeatsInit /\ ToolsInit /\ BenchInit
  /\ \/ part \in {"seats", "bench"} /\ host.ws /\ Len(tree["app.py"].text) = 3
     \/ part = "tools"

AnyNext ==
  \/ part = "seats" /\ SeatsNext /\ UNCHANGED <<part, toolVars, benchVars>>
  \/ part = "tools" /\ ToolsNext /\ UNCHANGED <<part, seatVars, benchVars>>
  \/ part = "bench" /\ BenchNext /\ UNCHANGED <<part, seatVars, toolVars>>

AnySpec == AnyInit /\ [][AnyNext]_<<part, seatVars, toolVars, benchVars>>
=============================================================================
