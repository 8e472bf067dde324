---------------------------- MODULE MCAgentGraph ----------------------------
(***************************************************************************)
(* AgentGraph with the constants of the code; a small LessonBank: what a   *)
(* turn leaves for later ones; a small Research, Judgment and Transcript:  *)
(* what single steps of the graph do inside, and what happens to the       *)
(* conversation they share.  No two of them share state here, so one run   *)
(* checks the one or the other, as `part` says.                            *)
(***************************************************************************)
EXTENDS AgentGraph, Judgment, Research, LessonBank, Transcript, TLC

CONSTANTS p, q, i

VARIABLE part

\* Two phone runs that learn the same things, and an import.
Phones == Permutations({p, q})

Learners == {p, q, i}
RunDoes == [a \in Learners |-> IF a = i THEN "import" ELSE "phone"]
Lessons == {"a", "b", "c", "pay"}
SameLesson == {<<"a", "b">>}
OfTheTask == {<<p, "c">>, <<q, "c">>}
DistillerSays ==
  {[lessons |-> <<"c", "b">>, notes |-> <<>>, seen |-> {}],
   [lessons |-> <<>>, seen |-> {"shop"},
    notes |-> <<[app |-> "bank", notes |-> <<"a">>],
                [app |-> "shop", notes |-> <<"a", "pay", "b">>]>>]}
Imported == {<<"b">>}

\* A document of two sections: the first has questions, the second checks.
Questioned == {1}
Exacting == {2}

\* The lines of a judge's replies.
Words(is, yes) ==
  [is |-> is, yes |-> yes, caps |-> TRUE, words |-> <<>>, of |-> <<1, 2>>]
Acts(ws) == [Words("action", FALSE) EXCEPT !.words = ws]
FinalLine == Words("final", FALSE)
CodeLine == Words("code", FALSE)
Prose == Words("text", FALSE)
Lower == [Words("approve", TRUE) EXCEPT !.caps = FALSE]

JudgeSays ==
  {<<FinalLine, Words("approve", TRUE)>>,
   <<FinalLine, Words("approve", FALSE), Words("met", FALSE), Words("blocked", TRUE), Prose>>,
   <<FinalLine, Prose, Lower>>, <<FinalLine>>, <<>>,
   <<Words("text", TRUE), Prose>>, <<Words("approve", FALSE), Prose>>,
   <<Acts(<<"run", "read">>), CodeLine, Prose, FinalLine, Words("approve", TRUE)>>,
   <<Acts(<<"raed">>), Acts(<<"bash">>), CodeLine, Prose, Acts(<<"read">>), CodeLine, Prose>>,
   <<Acts(<<"ask_user">>), CodeLine, Prose>>, <<Acts(<<>>)>>}

LastWords ==
  {<<FinalLine, Words("approve", FALSE), Prose>>, <<FinalLine, Prose>>,
   <<Words("approve", TRUE)>>, <<>>, <<Acts(<<"read">>), CodeLine, Prose>>}

RubricSays ==
  {[bullets |-> <<"report", "KIND:", "", "tests", "extra">>, noTask |-> FALSE,
    kind |-> "agent", failed |-> FALSE],
   [bullets |-> <<"report">>, noTask |-> TRUE, kind |-> "research", failed |-> FALSE],
   [bullets |-> <<>>, noTask |-> TRUE, kind |-> "agent", failed |-> FALSE],
   [bullets |-> <<>>, noTask |-> FALSE, kind |-> "agent", failed |-> TRUE]}

Paths == [c \in {"report", "tests", "extra"} |-> IF c = "report" THEN "report.md" ELSE "none"]
Resembles == [w \in {"run", "read", "raed", "bash", "ask_user"} |->
                IF w = "raed" THEN "read" ELSE "none"]
ToolRecords ==
  {[tool |-> "read_file", path |-> "report.md", how |-> "ok"]} \cup
  {[tool |-> "write_file", path |-> "report.md", how |-> how] :
     how \in {"ok", "FAILED", "error"}}
JudgeTools == {"read", "bash"}
ChatSeats == {<<>>, <<"failed", "no">>, <<"odd">>, <<"failed">>}

Output(tool, long, marked) == [tool |-> tool, long |-> long, marked |-> marked]
Sizes == {Output("shell", TRUE, FALSE), Output("shell", FALSE, FALSE),
          Output("shell", TRUE, TRUE), Output("screen", TRUE, FALSE)}

AnyInit ==
  /\ part \in {"graph", "lessons", "research", "judgment", "transcript"}
  /\ Init /\ BankInit /\ ResearchInit /\ TalkInit
  /\ JudgeInit /\ (part # "judgment" => way = "none")

AnyNext ==
  \/ part = "graph" /\ Next /\ UNCHANGED <<part, bankVars, researchVars, judgeVars, talkVars>>
  \/ part = "lessons" /\ BankNext /\ UNCHANGED <<part, vars, researchVars, judgeVars, talkVars>>
  \/ part = "research" /\ ResearchNext /\ UNCHANGED <<part, vars, bankVars, judgeVars, talkVars>>
  \/ part = "judgment" /\ JudgeNext /\ UNCHANGED <<part, vars, bankVars, researchVars, talkVars>>
  \/ part = "transcript" /\ TalkNext /\ UNCHANGED <<part, vars, bankVars, researchVars, judgeVars>>

AnySpec == AnyInit /\ [][AnyNext]_<<part, vars, bankVars, researchVars, judgeVars, talkVars>>
=============================================================================
