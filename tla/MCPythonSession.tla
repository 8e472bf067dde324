--------------------------- MODULE MCPythonSession ---------------------------
(***************************************************************************)
(* Small instances of what works through a process or the disk of this     *)
(* machine: a PythonSession; a Walkthrough over every script of at most    *)
(* three steps and the longer ones of a shell or a served page; and the    *)
(* Routes of one process with an editor and a thread that resolves.  They  *)
(* share no state, so one run checks one at a time, as `part` says.        *)
(***************************************************************************)
EXTENDS PythonSession, Routes, Walkthrough

VARIABLE part

Launches == {"tty", "android", "ios", "mac", "linux", "windows"}
Others == {"serve", "open", "run", "click", "expect", "changed", "request", "status",
           "exit 0", "exit 2", "screen"}
ShortScripts == BoundedSeq(Launches \cup Others, 3)
                \cup {<<first>> \o rest : first \in {"serve", "run"}, rest \in [1..3 -> Others]}

(* One editor, one thread that resolves; two tasks, a built-in vendor, and  *)
(* an endpoint that may be added and removed.  One task is bound to another *)
(* vendor; a pin only the table's check refuses.                            *)
OneProcess == {"serve"}
OneEditor  == {"e1"}
OneTurn    == {"turn1"}
AtHome     == "e1" :> "serve" @@ "turn1" :> "serve"
TwoTasks   == {"reason", "web"}
OnOpenai   == "openai:gpt"
OnOllama   == "ollama:llama"
OnFim      == "openai:fim"
AllSpecs   == {OnOpenai, OnOllama, OnFim}
SpecVendor == OnOpenai :> "openai" @@ OnFim :> "openai" @@ OnOllama :> "ollama"
Ollama     == {"ollama"}
WebIsBound == {<<"web", OnOllama>>}
FimIsUnfit == {<<"reason", OnFim>>, <<"web", OnFim>>}
AllKinds   == {"pin", "clear", "add", "remove"}
EditsAll   == "e1" :> TwoTasks
ThreeFiles == 1..3
SomePins   == 1..7
Stops      == TRUE

\* The parts that do not run start in one way.
AnyInit ==
  /\ Init /\ WalkInit /\ RoutesInit
  /\ \/ part \in {"session", "routes"} /\ script = <<>>
     \/ part = "walk"

AnyNext ==
  \/ part = "session" /\ Next /\ UNCHANGED <<part, walkVars, routesVars>>
  \/ part = "walk" /\ WalkNext /\ UNCHANGED <<part, vars, routesVars>>
  \/ part = "routes" /\ RoutesNext /\ UNCHANGED <<part, vars, walkVars>>

all == <<part, vars, walkVars, routesVars>>

AnySpec ==
  /\ AnyInit /\ [][AnyNext]_all
  /\ WF_all(part = "session" /\ Runs /\ UNCHANGED <<part, walkVars, routesVars>>)
=============================================================================
