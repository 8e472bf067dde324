----------------------------- MODULE Walkthrough -----------------------------
(***************************************************************************)
(* Using what was built, step by step (agent/pipeline/walkthrough.py,      *)
(* browsing.py's `walk`, native.py, and `exercise` in tools.py).  A script *)
(* is parsed; its first step names what the others drive: commands in a    *)
(* shell, a page in a browser, a program in a terminal, an app on a device *)
(* or a desktop.  The steps run until one does not hold; what was started  *)
(* is stopped, or asked to, and the tool's result is a check: it is clean  *)
(* only if the thing worked.                                               *)
(*                                                                         *)
(* What is driven lives a life of its own: it dies, throws and changes its *)
(* screen between any two steps.  `click` stands for click, type and press,*)
(* `expect` for expect and count; `wait` is left out.  A script longer     *)
(* than MAX_WALK_STEPS is refused as one that does not parse is.  What is  *)
(* followed is the process that was started: not what it starts in turn,   *)
(* nor the commands of `run`.                                              *)
(***************************************************************************)
EXTENDS Integers, Sequences, SequencesExt

CONSTANT Scripts      \* bound: the scripts a model writes

ASSUME WalkAssumption == Scripts \subseteq Seq(STRING)

VARIABLES
  script, held,       \* walk.steps and how many are done
  at,                 \* "parse", "step", "alive", "end", "close" or "done"
  proc,               \* what was started: "none", "up", "dead"; at the end
                      \* "stopped", or "asked" to and still running
  traced,             \* its death leaves a line that Device.errors finds
  screen, shots,      \* what it shows, and the last two screenshots
  threw,              \* the page's uncaught errors
  out,                \* the last output: whether it has the text, exit, status
  failed, result,
  killed,             \* history: the driver itself was killed or crashed
  crashes             \* history: commands that failed and no step said they should

walkVars == <<script, held, at, proc, traced, screen, shots, threw, out, failed, result, killed, crashes>>

-----------------------------------------------------------------------------
(* parse_walk *)

Devices == {"android", "ios", "mac", "linux", "windows"}
PageSteps  == {"open", "serve", "click", "expect", "changed", "request", "status", "exit 0"}
ShellSteps == {"run", "serve", "request", "expect", "exit 0", "exit 2", "status"}
TtySteps   == {"tty", "click", "expect", "screen", "exit 0", "exit 2"}
DeviceSteps == {"click", "expect", "screen", "changed"}

Backend ==
  LET first == script[1]
  IN CASE first = "serve" /\ Len(script) > 1 /\ script[2] \in {"open", "request", "run"}
            -> IF script[2] = "open" THEN "page" ELSE "shell"
       [] first = "open" -> "page"
       [] first = "run"  -> "shell"
       [] first = "tty" \/ first \in Devices -> first
       [] OTHER -> "none"

Allowed ==
  CASE Backend = "page"  -> PageSteps
    [] Backend = "shell" -> ShellSteps
    [] Backend = "tty"   -> TtySteps
    [] OTHER             -> DeviceSteps \cup {Backend}

Parses ==
  /\ script # <<>> /\ Backend # "none"
  /\ \A m \in DOMAIN script :
       /\ script[m] \in Allowed
       /\ script[m] \in {"serve", "tty"} \cup Devices => m = 1
       /\ script[m] = "open" => m = 1 \/ (m = 2 /\ script[1] = "serve")

NoOutput == [text |-> FALSE, exit |-> 0, status |-> "none"]

WalkInit ==
  /\ script \in Scripts /\ held = 0 /\ at = "parse"
  /\ proc = "none" /\ traced = FALSE
  /\ screen = 0 /\ shots = <<>> /\ threw = FALSE
  /\ out = NoOutput /\ failed = FALSE /\ result = "none"
  /\ killed = FALSE /\ crashes = {}

Parse ==
  /\ at = "parse"
  /\ IF Parses THEN at' = "step" /\ UNCHANGED result
               ELSE at' = "done" /\ result' = "refused"
  /\ UNCHANGED <<script, held, proc, traced, screen, shots, threw, out, failed, killed, crashes>>

-----------------------------------------------------------------------------
(* What the steps drive: how it starts, and what is left of it when it dies *)

\* A start: whether the step holds, the process it leaves, and whether the
\* death of that process will be seen.
Start(ok, left, sees) == [ok : {ok}, proc : left, traced : sees]

\* A server: its port opens, or it exits or is not in time.
ServerStart == Start(TRUE, {"up"}, {TRUE}) \cup Start(FALSE, {"up", "dead"}, {TRUE})
\* The terminal does not wait for its program to do anything.
TtyStart == Start(TRUE, {"up"}, {TRUE})
\* No device, no install, no activity; or the launcher says it is there.
AndroidStart == Start(TRUE, {"up"}, {FALSE}) \cup Start(FALSE, {"none", "up"}, {FALSE})
\* simctl prints the pid; without it the app always counts as alive.  A launch
\* that is not in time may still happen.
IosStart == Start(TRUE, {"up"}, BOOLEAN) \cup Start(FALSE, {"none", "up"}, {FALSE})
\* The process comes within its time, its window is only reported.
MacStart == Start(TRUE, {"up"}, {TRUE}) \cup Start(FALSE, {"none", "up", "dead"}, {TRUE})
\* It exits first, or shows no window in time.
LinuxStart == Start(TRUE, {"up"}, {TRUE}) \cup Start(FALSE, {"none", "up", "dead"}, {TRUE})
WindowsStart == Start(TRUE, {"up"}, {TRUE}) \cup Start(FALSE, {"none", "up"}, {TRUE})

\* Device.errors of an app that is gone: logcat may have no crash of it, the
\* others go by the process.
AndroidTrace == BOOLEAN
IosTrace == {traced}
MacTrace == {TRUE}
LinuxTrace == {TRUE}

Die ==
  /\ proc = "up" /\ at \in {"step", "alive", "end"} /\ proc' = "dead"
  /\ traced' \in CASE Backend = "android" -> AndroidTrace
                   [] Backend = "ios"     -> IosTrace
                   [] Backend = "mac"     -> MacTrace
                   [] OTHER               -> LinuxTrace
  /\ UNCHANGED <<script, held, at, screen, shots, threw, out, failed, result, killed, crashes>>

\* A page runs its own scripts once it is open.
Throw ==
  /\ at \in {"step", "end"} /\ Backend = "page" /\ shots # <<>> /\ ~threw
  /\ threw' = TRUE
  /\ UNCHANGED <<script, held, at, proc, traced, screen, shots, out, failed, result, killed, crashes>>

-----------------------------------------------------------------------------
(* A step *)

Verb == script[held + 1]
At(backends, verbs) ==
  at = "step" /\ held < Len(script) /\ ~failed /\ Backend \in backends /\ Verb \in verbs

Holds == held' = held + 1 /\ UNCHANGED <<at, failed>>
Fails == failed' = TRUE /\ UNCHANGED <<at, held>>

Begin(starts) ==
  /\ \E s \in starts : /\ IF s.ok THEN Holds ELSE Fails
                       /\ proc' = s.proc /\ traced' = s.traced
  /\ UNCHANGED <<script, screen, shots, threw, out, result, killed, crashes>>

Framed(image) == IF shots = <<>> THEN <<image>> ELSE <<Last(shots), image>>
Differs == Len(shots) = 2 /\ shots[1] # shots[2]

-----------------------------------------------------------------------------
(* run_shell *)

ShellServe == At({"shell"}, {"serve"}) /\ Begin(ServerStart)

\* Mutant of ExpectsExit: an exit of a later command will do.
ExpectsExitAnywhere == \E m \in (held + 2)..Len(script) : script[m] \in {"exit 0", "exit 2"}

\* Whether a later step says what this command exits with.
ExpectsExit ==
  \E m \in (held + 2)..Len(script) :
     /\ script[m] \in {"exit 0", "exit 2"}
     /\ \A k \in (held + 2)..m : script[k] \notin {"run", "request", "serve"}

Run ==
  /\ At({"shell"}, {"run"})
  /\ \E exit \in {0, 2}, text \in BOOLEAN :
       /\ out' = [out EXCEPT !.exit = exit, !.text = text]
       /\ IF exit # 0 /\ ~ExpectsExit THEN Fails ELSE Holds
       /\ crashes' = IF exit # 0 THEN crashes \cup {held + 1} ELSE crashes
  /\ UNCHANGED <<script, proc, traced, screen, shots, threw, result, killed>>

\* Its answer is the last output, as a command's is; the exit stays.
Request ==
  /\ At({"shell", "page"}, {"request"})
  /\ \/ Fails /\ UNCHANGED out
     \/ /\ \E text \in BOOLEAN, status \in {"200", "404"} :
             out' = [out EXCEPT !.text = text, !.status = status]
        /\ Holds
  /\ UNCHANGED <<script, proc, traced, screen, shots, threw, result, killed, crashes>>

Status ==
  /\ At({"shell", "page"}, {"status"})
  /\ IF out.status = "200" THEN Holds ELSE Fails
  /\ UNCHANGED <<script, proc, traced, screen, shots, threw, out, result, killed, crashes>>

ShellExpect ==
  /\ At({"shell"}, {"expect"})
  /\ IF out.text THEN Holds ELSE Fails
  /\ UNCHANGED <<script, proc, traced, screen, shots, threw, out, result, killed, crashes>>

ShellExit ==
  /\ At({"shell"}, {"exit 0", "exit 2"})
  /\ IF out.exit = (IF Verb = "exit 0" THEN 0 ELSE 2) THEN Holds ELSE Fails
  /\ crashes' = IF out.exit = 2 /\ Verb = "exit 2"
                THEN {m \in crashes : \E k \in (m + 1)..held : script[k] = "run"}
                ELSE crashes
  /\ UNCHANGED <<script, proc, traced, screen, shots, threw, out, result, killed>>

-----------------------------------------------------------------------------
(* browsing.py's walk: a step of the page forgets the last response *)

Forget == [out EXCEPT !.status = "none"]

PageServe == At({"page"}, {"serve"}) /\ Begin(ServerStart)

\* The picture is taken after what acts on the page.
PageAct ==
  /\ At({"page"}, {"open", "click"})
  /\ \/ Fails /\ UNCHANGED <<shots, screen>>
     \/ Holds /\ screen' \in {0, 1} /\ shots' = Framed(screen')
  /\ out' = Forget
  /\ UNCHANGED <<script, proc, traced, threw, result, killed, crashes>>

PageExpect ==
  /\ At({"page"}, {"expect"})
  /\ IF out.status # "none"
     THEN (IF out.text THEN Holds ELSE Fails) /\ UNCHANGED out
     ELSE (Holds \/ Fails) /\ out' = Forget
  /\ UNCHANGED <<script, proc, traced, screen, shots, threw, result, killed, crashes>>

PageExit ==
  /\ At({"page"}, {"exit 0"})
  /\ IF threw THEN Fails ELSE Holds
  /\ UNCHANGED <<script, proc, traced, screen, shots, threw, out, result, killed, crashes>>

PageChanged ==
  /\ At({"page"}, {"changed"})
  /\ IF Differs THEN Holds ELSE Fails
  /\ out' = Forget
  /\ UNCHANGED <<script, proc, traced, screen, shots, threw, result, killed, crashes>>

-----------------------------------------------------------------------------
(* PTY_DRIVER: keys are sent and the screen is read, dead or alive *)

TtyLaunch == At({"tty"}, {"tty"}) /\ Begin(TtyStart)

TtyStep ==
  /\ At({"tty"}, {"click", "expect", "screen"})
  /\ \/ Holds
     \/ Verb # "screen" /\ Fails
  /\ UNCHANGED <<script, proc, traced, screen, shots, threw, out, result, killed, crashes>>

\* It is given time to end, and must end as it should.
TtyExit ==
  /\ At({"tty"}, {"exit 0", "exit 2"})
  /\ \/ Fails /\ UNCHANGED proc
     \/ Holds /\ proc' = "dead"
  /\ UNCHANGED <<script, traced, screen, shots, threw, out, result, killed, crashes>>

-----------------------------------------------------------------------------
(* run_native and WINDOWS_DRIVER: after a step that held the app is asked   *)
(* whether it lives, and photographed if it was acted on.                   *)

Asked == at' = "alive" /\ UNCHANGED <<held, failed>>

Launch ==
  /\ At(Devices, Devices)
  /\ \E s \in CASE Backend = "android" -> AndroidStart
                [] Backend = "ios"     -> IosStart
                [] Backend = "mac"     -> MacStart
                [] Backend = "linux"   -> LinuxStart
                [] OTHER               -> WindowsStart :
       /\ IF s.ok THEN Asked ELSE Fails
       /\ proc' = s.proc /\ traced' = s.traced
  /\ UNCHANGED <<script, screen, shots, threw, out, result, killed, crashes>>

\* The element is not there, the tool that reads the screen is not, or the app
\* takes it.
Act ==
  /\ At(Devices, {"click", "expect"})
  /\ \/ Fails /\ UNCHANGED screen
     \/ Asked /\ screen' \in IF Verb = "click" THEN {0, 1} ELSE {screen}
  /\ UNCHANGED <<script, proc, traced, shots, threw, out, result, killed, crashes>>

Screen ==
  /\ At(Devices, {"screen"})
  /\ Fails \/ Holds
  /\ UNCHANGED <<script, proc, traced, screen, shots, threw, out, result, killed, crashes>>

\* An empty picture (-1) cannot be compared, but the Windows driver does.
DeviceChanged ==
  /\ At(Devices, {"changed"})
  /\ IF Differs /\ (Backend = "windows" \/ -1 \notin ToSet(shots)) THEN Holds ELSE Fails
  /\ UNCHANGED <<script, proc, traced, screen, shots, threw, out, result, killed, crashes>>

StillAlive ==
  /\ at = "alive" /\ at' = "step"
  /\ IF proc = "dead" /\ (traced \/ Backend = "windows")
     THEN failed' = TRUE /\ UNCHANGED <<held, shots>>
     ELSE /\ held' = held + 1 /\ UNCHANGED failed
          /\ \E image \in {screen, -1} :
               shots' = IF Verb = "expect" THEN shots ELSE Framed(image)
  /\ UNCHANGED <<script, proc, traced, screen, threw, out, result, killed, crashes>>

-----------------------------------------------------------------------------
(* The end *)

End ==
  /\ at = "step" /\ (failed \/ held = Len(script))
  /\ at' = "end"
  /\ UNCHANGED <<script, held, proc, traced, screen, shots, threw, out, failed, result, killed, crashes>>

\* Device.errors once more.  The Windows driver reads the window instead, which
\* may end it with a traceback when there is none.
LastErrors ==
  /\ at = "end" /\ at' = "close"
  /\ failed' = (failed \/ (Backend \in Devices \ {"windows"} /\ proc = "dead" /\ traced))
  /\ killed' \in {FALSE, Backend = "windows" /\ proc = "dead"}
  /\ UNCHANGED <<script, held, proc, traced, screen, shots, threw, out, result, crashes>>

\* A server and a terminal's program: SIGTERM, a wait and SIGKILL.
StopsIt == {"stopped"}

\* An app gets one request, and nobody looks what came of it: SIGTERM or `quit`,
\* a tool of the device's whose result is not read, a kill whose exception is
\* swallowed, as close's is.
AsksIt == {"stopped", "asked"}

\* shell.close, device.close, stop_server, the end of the terminal's driver: in
\* a finally, or where the driver of a page or a terminal always gets to.
CloseWalk ==
  /\ at = "close"
  /\ proc' \in IF proc # "up" THEN {proc}
               ELSE IF Backend \in Devices THEN AsksIt ELSE StopsIt
  /\ at' = "done"
  /\ result' = CASE killed -> "could not run"
                 [] ~killed /\ failed -> "a step failed"
                 [] ~killed /\ ~failed /\ threw -> "the page threw"
                 [] OTHER -> "clean"
  /\ UNCHANGED <<script, held, traced, screen, shots, threw, out, failed, killed, crashes>>

\* The driver of a page, a terminal or a Windows app is a process of its own
\* with a timeout, and what it started is in a session of its own.
Timeout ==
  /\ at \in {"step", "alive", "end"} /\ Backend \in {"page", "tty", "windows"}
  /\ killed' = TRUE /\ at' = "done" /\ result' = "could not run"
  /\ UNCHANGED <<script, held, proc, traced, screen, shots, threw, out, failed, crashes>>

WalkNext ==
  \/ Parse \/ Die \/ Throw
  \/ ShellServe \/ Run \/ Request \/ Status \/ ShellExpect \/ ShellExit
  \/ PageServe \/ PageAct \/ PageExpect \/ PageExit \/ PageChanged
  \/ TtyLaunch \/ TtyStep \/ TtyExit
  \/ Launch \/ Act \/ Screen \/ DeviceChanged \/ StillAlive
  \/ End \/ LastErrors \/ CloseWalk \/ Timeout

WalkSpec == WalkInit /\ [][WalkNext]_walkVars

-----------------------------------------------------------------------------
WalkTypeOK ==
  /\ held \in 0..Len(script) /\ proc \in {"none", "up", "dead", "stopped", "asked"}
  /\ Len(shots) <= 2
  /\ result \in {"none", "refused", "could not run", "a step failed", "the page threw", "clean"}

(***************************************************************************)
(* A clean result is a check: the script was one, every step of it held,   *)
(* no command failed that the script did not say would, the page threw     *)
(* nothing, and no app died that left a trace -- but on Windows, where it  *)
(* is not asked again after the last step.                                 *)
(***************************************************************************)
CleanIsACheck ==
  result = "clean" =>
    /\ Parses /\ held = Len(script) /\ crashes = {} /\ ~threw
    /\ ~(Backend \in Devices \ {"windows"} /\ proc = "dead" /\ traced)

(***************************************************************************)
(* Unless its driver was killed, what a walkthrough started does not       *)
(* outlive it unasked, whichever step failed and whenever: a server and a  *)
(* terminal's program are stopped; an app is only asked to end.            *)
(***************************************************************************)
NothingLeftUnasked ==
  at = "done" /\ ~killed => proc # "up" /\ (proc = "asked" => Backend \in Devices)

(***************************************************************************)
(* False of the code: an app that ignores its one SIGTERM, or answers the  *)
(* request to quit with a dialog, runs on (native.py, close).              *)
(***************************************************************************)
NothingLeftRunning == at = "done" /\ ~killed => proc \notin {"up", "asked"}

WalkInv == WalkTypeOK /\ CleanIsACheck /\ NothingLeftUnasked
=============================================================================
