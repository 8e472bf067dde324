------------------------------ MODULE Toolbox ------------------------------
(***************************************************************************)
(* The standing tools of a turn (agent/pipeline/tools.py) over one tree of *)
(* files: the bound workspace, or the container of a command runner.  The  *)
(* loop runs one tool at a time, but the person, a served process or the   *)
(* shell's children write to the same tree between a tool's own steps.     *)
(* evidence.Ledger keeps what the run has proved of what it changed.       *)
(*                                                                         *)
(* A text is a sequence of lines, a line a word with an indentation and a  *)
(* trailing blank; no word is part of another.  A file's stamp is the      *)
(* (mtime, size) pair: every write gets a new one.                         *)
(***************************************************************************)
EXTENDS Naturals, Sequences, FiniteSets, SequencesExt

CONSTANTS
    Texts,          \* the texts files start with, are written with, and others put there
    Quotes,         \* the ---OLD--- texts an edit quotes
    Edited,         \* the files the run edits
    Bound,          \* what a run is started with, of Hosts
    MaxToolCalls,   \* bound: tool calls
    MaxOthers       \* bound: writes by other programs

VARIABLES
    tree,           \* the files: [text, stamp]
    clock,          \* the stamp of the next write
    host,           \* what is bound: [ws, ct, browser, off, shown]
    ledger,         \* evidence.Ledger
    maps,           \* _CODE_MAPS: nothing, or one [stamp, files]
    step,           \* the tool in the middle of its work, or Idle
    last,           \* the edit, or the code_map answer, that was told last
    proofs,         \* the checks that passed and the edits done, in order: what the ledger is about
    toolCalls, others   \* the counters of the bounds

toolVars == <<tree, clock, host, ledger, maps, step, last, proofs, toolCalls, others>>

None == "none"
Idle == [do |-> "idle"]

(* --- files ------------------------------------------------------------ *)

Files == {"app.py", "test_app.py", "index.html", "notes.md"}
Py == {"app.py", "test_app.py"}
IsProse(f) == f = "notes.md"
IsTest(f) == f = "test_app.py"
IsWeb(f) == f = "index.html"

Word(w) == [w |-> w, ind |-> 0, tr |-> 0]

\* A line of code, or the JSON a write was given in, read as a path by the ledger.
NotAPath == "odd"

Put(f, text) == /\ tree' = [tree EXCEPT ![f] = [text |-> text, stamp |-> clock]]
                /\ clock' = clock + 1

\* What a run is bound to: a workspace, a container, a browser, and what was
\* taken off the table; and whether there is a picture to look at.
Hosts == [ws : BOOLEAN, ct : BOOLEAN, browser : BOOLEAN, shown : BOOLEAN,
          off : {{}, {"execute_bash", "browse", "look"}}]

\* Texts are sequences of lines, and no quote is without one.
IsText(text) == text \in Seq(ToSet(text))
ASSUME ToolsAssumption ==
    /\ \A T \in Texts : IsText(T)
    /\ \A q \in Quotes : IsText(q) /\ q # <<>>
    /\ Edited \subseteq Files /\ Bound \subseteq Hosts

(* --- edit_file: where the quoted text is ------------------------------ *)

\* The first line of a quote may start after the line's own indentation and
\* the last may end before its trailing blank: the match is of characters.
ExactLine(l, q, first, final) ==
    /\ l.w = q.w
    /\ IF first THEN l.ind >= q.ind ELSE l.ind = q.ind
    /\ IF final THEN l.tr >= q.tr ELSE l.tr = q.tr

TrailingLine(l, q, first, final) ==
    /\ l.w = q.w
    /\ IF first THEN l.ind >= q.ind ELSE l.ind = q.ind

IndentLine(l, q, first, final) == l.w = q.w /\ (final \/ l.tr = 0)

FitsLines(how, text, quote, i) ==
    /\ i + Len(quote) - 1 <= Len(text)
    /\ \A k \in 1..Len(quote) :
         LET l == text[i + k - 1]  first == k = 1  final == k = Len(quote) IN
         CASE how = "exact" -> ExactLine(l, quote[k], first, final)
           [] how = "trailing" -> TrailingLine(l, quote[k], first, final)
           [] how = "indent" -> IndentLine(l, quote[k], first, final)

StartsOf(how, text, quote) == {i \in 1..Len(text) : FitsLines(how, text, quote, i)}

\* re.finditer: from left to right, and no hit inside one before it.
FindIter(how, text, quote) ==
    LET S == StartsOf(how, text, quote)
        covered(i, H) == \E j \in H : j < i /\ i < j + Len(quote)
    IN CHOOSE H \in SUBSET S : \A i \in S : i \in H <=> ~covered(i, H)

Run(i, j, lead, tail) == [from |-> i, to |-> j, lead |-> lead, tail |-> tail]

\* What the hit leaves of the first line's indentation and the last line's blank.
Spans(how, text, quote) ==
    LET hits == IF how = "exact" THEN StartsOf(how, text, quote) ELSE FindIter(how, text, quote)
        n == Len(quote)
    IN {Run(i, i + n - 1,
            IF how = "indent" THEN 0 ELSE text[i].ind - quote[1].ind,
            text[i + n - 1].tr - (IF how = "exact" THEN quote[n].tr ELSE 0)) : i \in hits}

Anchored(text, quote) ==
    LET at(w) == {i \in 1..Len(text) : text[i].w = w}
        heads == at(quote[1].w)
        tails == at(quote[Len(quote)].w)
    IN IF Len(quote) >= 3 /\ Cardinality(heads) = 1 /\ Cardinality(tails) = 1
       THEN {Run(p[1], p[2], text[p[1]].ind, text[p[2]].tr) : p \in {q \in heads \X tails : q[1] <= q[2]}}
       ELSE {}

EditPass(how, text, quote) == IF how = "anchored" THEN Anchored(text, quote) ELSE Spans(how, text, quote)

Nowhere == [how |-> None]

EditPasses == <<"exact", "trailing", "indent", "anchored">>

\* The one hit of the first pass that has any, or Nowhere.
\* Mutant of Locate: the first of several places.
LocateAny(text, quote) ==
    LET found == {n \in 1..4 : EditPass(EditPasses[n], text, quote) # {}} IN
    IF found = {} THEN Nowhere
    ELSE LET n == CHOOSE n \in found : \A m \in found : n <= m
         IN [span |-> CHOOSE s \in EditPass(EditPasses[n], text, quote) : TRUE, how |-> EditPasses[n]]

Locate(text, quote) ==
    LET found == {n \in 1..4 : EditPass(EditPasses[n], text, quote) # {}} IN
    IF found = {} THEN Nowhere
    ELSE LET n == CHOOSE n \in found : \A m \in found : n <= m
             spans == EditPass(EditPasses[n], text, quote)
         IN IF Cardinality(spans) > 1 THEN Nowhere
            ELSE [span |-> CHOOSE s \in spans : TRUE, how |-> EditPasses[n]]

\* The new text is one line, `new`.
Replace(text, s) ==
    SubSeq(text, 1, s.from - 1)
        \o <<[w |-> "new", ind |-> s.lead, tr |-> s.tail]>>
        \o SubSeq(text, s.to + 1, Len(text))

(* --- the ledger ------------------------------------------------------- *)

NewLedger == [unproven |-> {}, unrendered |-> {}, unused |-> {}, launch_only |-> FALSE]

\* execute_python exiting 0, a shell command with a check word in it, a page
\* that loaded, a walkthrough that passed.
IsCheck(e) == e.ok /\ e.tool \in {"execute_python", "check_bash", "browse", "exercise"}
IsEdit(e) == e.ok /\ e.tool \in {"write_file", "edit_file", "predict_edit"}
LoadsAPage(e) == e.tool = "browse" \/ (e.tool = "exercise" /\ e.page)

LedgerRecord(lg, e) ==
    IF IsCheck(e)
    THEN [unproven |-> {},
          unrendered |-> IF LoadsAPage(e) THEN {} ELSE lg.unrendered,
          unused |-> IF e.tool = "exercise" /\ e.steps > 1 THEN {} ELSE lg.unused,
          launch_only |-> IF e.tool = "exercise" THEN e.steps <= 1 ELSE lg.launch_only]
    ELSE IF IsEdit(e)
    THEN LET new(yes) == IF yes THEN {e.path} ELSE {} IN
         [lg EXCEPT !.unproven = @ \union new(~IsProse(e.path)),
                    !.unrendered = @ \union new(IsWeb(e.path)),
                    !.unused = @ \union new(~IsProse(e.path) /\ ~IsTest(e.path))]
    ELSE lg

\* Which of the four notes a run that finishes early is shown.
RenderNote(lg, browser, exercise) ==
    IF browser /\ lg.unrendered # {} THEN "unrendered"
    ELSE IF exercise /\ lg.launch_only THEN "launch_only"
    ELSE IF exercise /\ lg.unused # {} THEN "unused"
    ELSE "unproven"

(* --- what is bound, and what it makes reachable ------------------------------------------------ *)

Anywhere == {"execute_python", "execute_bash", "web_search", "complete_code", "predict_edit", "recall_memory"}
NeedsEither == {"read_file", "write_file", "edit_file", "list_files", "view_image", "exercise"}
NeedsBrowser == {"browse", "browse_act", "look"}
NeedsContainer == {"look_act"}
NeedsWorkspace == {"rag", "code_map", "make_document"}
Tools == Anywhere \union NeedsEither \union NeedsBrowser \union NeedsContainer \union NeedsWorkspace

ReachableTools(h) ==
    {t \in Tools \ h.off :
       \/ t \in Anywhere
       \/ t \in NeedsContainer /\ h.ct
       \/ t \in NeedsWorkspace /\ h.ws
       \/ t \in NeedsEither /\ (h.ws \/ h.ct)
       \/ t \in NeedsBrowser /\ (h.ct \/ (h.ws /\ h.browser))}

(* --- each tool's own answers: "ok", or why not ------------------------ *)

\* resolve_in_workspace: no workspace, or a path that leaves it or cannot be one.
ResolveInWorkspace(h) == IF h.ws THEN {"ok", "outside"} ELSE {"unbound"}

\* A path given to a tool that has a container's branch and a local one.
PathOf(h) == IF h.ct THEN {"ok", "failed"} ELSE ResolveInWorkspace(h)

ThenOf(S, more) == IF "ok" \in S THEN S \union more ELSE S

ExecutePython(h) == {"ok", "failed", "timeout"}
ExecuteBash(h) == {"ok", "failed", "timeout", "detached"}
ReadFile(h) == ThenOf(PathOf(h), {"no file", "image"})
ListFiles(h) == ThenOf(PathOf(h), {"no directory"})
DescribeImage == {"ok", "provider"}
ViewImage(h) == {"no path"} \union ThenOf(PathOf(h), {"no file", "too big", "not an image"} \union DescribeImage)
LookOf(h) ==
    IF ~h.ct /\ ~h.ws THEN {"unbound"}
    ELSE IF ~h.ct /\ ~h.shown THEN {"nothing shown"}
    ELSE {"no question", "too big", "not an image"} \union DescribeImage
            \union (IF h.ct THEN {"failed"} ELSE {})
LookAct(h) == IF h.ct THEN {"ok", "format", "failed"} ELSE {"unbound"}
BrowserThere(h) == h.ct \/ h.browser
Browse(h) ==
    IF ~h.ct /\ ~h.ws THEN {"unbound"}
    ELSE {"format", "refused URL", "failed"}
            \union (IF BrowserThere(h) THEN {"ok", "threw"} ELSE {"no browser"})
WebSearch(h) == {"ok", "empty", "provider"}
GrepWorkspace(h) == IF h.ct \/ h.ws THEN {"ok", "nothing"} ELSE {}
Rag(h) == {"empty"} \union GrepWorkspace(h)
              \union (IF h.ws THEN {"ok", "nothing", "failed"} ELSE {"unbound"})
RecallMemory(h) == {"ok", "no memory", "failed"}
CompleteCode(h) == {"ok", "provider"}
MakeDocument(h) ==
    ThenOf(ResolveInWorkspace(h), {"format", "nothing to put in it", "no file", "no library", "failed"})
Exercise(h) ==
    {"format"} \union (IF h.ct \/ h.ws THEN {"ok", "failed"} ELSE {"unbound"})
WriteFile(h) == ThenOf(PathOf(h), {"no path", "failed"})
EditFile(h) == ThenOf(PathOf(h), {"format", "no file", "not once", "failed", "raised"})
CodeMap(h) == ThenOf(ResolveInWorkspace(h), {"no python"})

Answers(t, h) ==
    CASE t = "execute_python" -> ExecutePython(h) [] t = "execute_bash" -> ExecuteBash(h)
      [] t = "read_file" -> ReadFile(h)           [] t = "list_files" -> ListFiles(h)
      [] t = "view_image" -> ViewImage(h)         [] t = "look" -> LookOf(h)
      [] t = "look_act" -> LookAct(h)             [] t \in {"browse", "browse_act"} -> Browse(h)
      [] t = "web_search" -> WebSearch(h)         [] t = "rag" -> Rag(h)
      [] t = "recall_memory" -> RecallMemory(h)   [] t \in {"complete_code", "predict_edit"} -> CompleteCode(h)
      [] t = "make_document" -> MakeDocument(h)   [] t = "exercise" -> Exercise(h)
      [] t = "write_file" -> WriteFile(h)         [] t = "edit_file" -> EditFile(h)
      [] t = "code_map" -> CodeMap(h)

(* --- the tools that change no file ------------------------------------- *)

ToolsInit ==
    /\ \E T \in Texts : tree = [f \in Files |-> [text |-> IF f \in Edited THEN T ELSE <<Word("a")>>, stamp |-> 0]]
    /\ clock = 1
    /\ host \in Bound
    /\ ledger = NewLedger
    /\ maps = {}
    /\ step = Idle
    /\ last = Idle
    /\ proofs = <<>>
    /\ toolCalls = 0 /\ others = 0

\* dispatch_table: a tool the host took off is not there at all.
May(t) == step = Idle /\ toolCalls < MaxToolCalls /\ t \notin host.off /\ toolCalls' = toolCalls + 1

Told(e) == /\ ledger' = LedgerRecord(ledger, e)
           /\ proofs' = IF IsCheck(e) \/ IsEdit(e) THEN Append(proofs, e) ELSE proofs

\* What the ledger is told of a call: the path as its first line gives it, the file it wrote.
Said(t, ok, path, file, page, n) ==
    [tool |-> t, ok |-> ok, path |-> path, file |-> file, page |-> page, steps |-> n]
Entry(t, ok) == Said(t, ok, NotAPath, None, FALSE, 0)
FileEntry(t, ok, path, f) == Said(t, ok, path, f, FALSE, 0)

\* The tools that read: whatever they answer, files, ledger and map stay.  What
\* make_document writes goes to a folder of its own and is no edit to the ledger.
Consult ==
    /\ \E t \in Tools \ {"execute_python", "execute_bash", "browse", "exercise", "predict_edit",
                        "write_file", "edit_file", "code_map"} :
         May(t) /\ Answers(t, host) # {}
    /\ UNCHANGED <<tree, clock, host, ledger, maps, step, last, proofs, others>>

\* A check: it runs, and only a clean exit proves anything.
RunCheck ==
    \E t \in {"execute_python", "check_bash", "execute_bash"} :
      /\ May(IF t = "check_bash" THEN "execute_bash" ELSE t)
      /\ \E a \in ExecuteBash(host) : Told(Entry(t, a = "ok"))
      /\ UNCHANGED <<tree, clock, host, maps, step, last, others>>

\* browse loads a page: one of the workspace that throws is a failed call,
\* and locally it leaves the picture `look` shows.
LoadPage ==
    /\ May("browse")
    /\ \E a \in Browse(host) :
         /\ Told(Entry("browse", a = "ok"))
         /\ host' = IF a \in {"ok", "threw"} /\ ~host.ct THEN [host EXCEPT !.shown = TRUE] ELSE host
    /\ UNCHANGED <<tree, clock, maps, step, last, others>>

Walk ==
    /\ May("exercise")
    /\ \E a \in Exercise(host), page \in BOOLEAN, n \in 1..2 :
         Told(Said("exercise", a = "ok", NotAPath, None, page, n))
    /\ UNCHANGED <<tree, clock, host, maps, step, last, others>>

\* The endpoint predicts an edit and changes no file; the ledger counts it as
\* an edit of whatever its first line says.
PredictEdit ==
    /\ May("predict_edit")
    /\ \E a \in CompleteCode(host) : Told(Entry("predict_edit", a = "ok"))
    /\ UNCHANGED <<tree, clock, host, maps, step, last, others>>

(* --- the file tools --------------------------------------------------- *)

\* The container's command, or write_text, wrote all of it, some of it or
\* nothing before it failed; a runner that timed out may have written it all.
FailedWrite(f, text) ==
    \/ UNCHANGED <<tree, clock>>
    \/ Put(f, <<>>)
    \/ host.ct /\ Put(f, text)

Write ==
    /\ May("write_file")
    /\ \E f \in Edited, T \in Texts, json \in BOOLEAN :
         LET e(ok) == FileEntry("write_file", ok, IF json THEN NotAPath ELSE f, f) IN
         \/ "ok" \in WriteFile(host) /\ Put(f, T) /\ Told(e(TRUE))
         \/ "failed" \in WriteFile(host) /\ FailedWrite(f, T) /\ Told(e(FALSE))
    /\ UNCHANGED <<host, maps, step, last, others>>

\* edit_file reads the file -- in a container, a command of its own -- and
\* finds the place in what it read.
EditRead ==
    /\ May("edit_file")
    /\ "ok" \in EditFile(host)
    /\ \E f \in Edited, q \in Quotes :
         LET at == Locate(tree[f].text, q) IN
         IF at = Nowhere
         THEN Told(FileEntry("edit_file", FALSE, f, f)) /\ UNCHANGED step
         ELSE /\ step' = [do |-> "edit", file |-> f, was |-> tree[f].text, quote |-> q, at |-> at]
              /\ UNCHANGED <<ledger, proofs>>
    /\ UNCHANGED <<tree, clock, host, maps, last, others>>

\* Then it writes the whole of the file back.
EditWrite ==
    /\ step.do = "edit"
    /\ LET text == Replace(step.was, step.at.span)
           e(ok) == FileEntry("edit_file", ok, step.file, step.file)
       IN \/ /\ Put(step.file, text) /\ Told(e(TRUE))
             /\ last' = [do |-> "edited", was |-> step.was, quote |-> step.quote, at |-> step.at, now |-> text]
          \/ FailedWrite(step.file, text) /\ Told(e(FALSE)) /\ UNCHANGED last
    /\ step' = Idle
    /\ UNCHANGED <<host, maps, toolCalls, others>>

(* --- code_map --------------------------------------------------------- *)

\* _tree_stamp: the hash of every Python file's path, mtime and size.
TreeStamp == [f \in Py |-> tree[f].stamp]

MapStamp ==
    /\ May("code_map")
    /\ "ok" \in CodeMap(host)
    /\ step' = [do |-> IF \E m \in maps : m.stamp = TreeStamp THEN "answer" ELSE "index",
                stamp |-> TreeStamp, files |-> <<>>,
                during |-> [f \in Py |-> {tree[f].text}]]
    /\ UNCHANGED <<tree, clock, host, ledger, maps, last, proofs, others>>

\* Mutant of MapIndex: the map is kept under the stamp of the end.
MapIndexLate ==
    /\ step.do = "index"
    /\ LET f == IF step.files = <<>> THEN "app.py" ELSE "test_app.py"
           files == Append(step.files, tree[f].text)
       IN IF Len(files) < 2 THEN step' = [step EXCEPT !.files = files] /\ UNCHANGED maps
          ELSE /\ step' = [step EXCEPT !.do = "answer", !.files = files]
               /\ maps' = {[stamp |-> TreeStamp, files |-> files]}
    /\ UNCHANGED <<tree, clock, host, ledger, last, proofs, toolCalls, others>>

\* index_tree reads the files one after another, then the map is kept under
\* the stamp that was taken before the first was read.
MapIndex ==
    /\ step.do = "index"
    /\ LET f == IF step.files = <<>> THEN "app.py" ELSE "test_app.py"
           files == Append(step.files, tree[f].text)
       IN IF Len(files) < 2 THEN step' = [step EXCEPT !.files = files] /\ UNCHANGED maps
          ELSE /\ step' = [step EXCEPT !.do = "answer", !.files = files]
               /\ maps' = {[stamp |-> step.stamp, files |-> files]}
    /\ UNCHANGED <<tree, clock, host, ledger, last, proofs, toolCalls, others>>

MapAnswer ==
    /\ step.do = "answer"
    /\ last' = [do |-> "mapped", files |-> (CHOOSE m \in maps : TRUE).files, during |-> step.during]
    /\ step' = Idle
    /\ UNCHANGED <<tree, clock, host, ledger, maps, proofs, toolCalls, others>>

(* --- the person, a served process, a child of the shell --------------- *)

OtherWrites ==
    /\ others < MaxOthers
    /\ others' = others + 1
    /\ \E f \in Edited \intersect Py, T \in Texts :
         /\ Put(f, T)
         /\ LET during == [step.during EXCEPT ![f] = @ \union {T}]
            IN step' = IF step.do \in {"index", "answer"} THEN [step EXCEPT !.during = during] ELSE step
    /\ UNCHANGED <<host, ledger, maps, last, proofs, toolCalls>>

ToolsNext ==
    \/ Consult \/ RunCheck \/ LoadPage \/ Walk \/ PredictEdit
    \/ Write \/ EditRead \/ EditWrite
    \/ MapStamp \/ MapIndex \/ MapAnswer
    \/ OtherWrites

ToolsSpec == ToolsInit /\ [][ToolsNext]_toolVars

(* --- properties -------------------------------------------------------- *)

\* Whether another run of lines, apart from this one, fits the quote as well.
Elsewhere(at, text, quote) ==
    at.how # "anchored" /\ \E i \in StartsOf(at.how, text, quote) :
        i + Len(quote) - 1 < at.span.from \/ i > at.span.to

\* An edit that is told done replaced one run of lines of the text it read and
\* kept every other; the run begins and ends with the quote's first and last
\* words, and no other place apart from it fits the quote as well.
EditInv ==
    last.do = "edited" =>
        LET s == last.at.span IN
        /\ SubSeq(last.now, 1, s.from - 1) = SubSeq(last.was, 1, s.from - 1)
        /\ Len(last.now) = Len(last.was) - (s.to - s.from)
        /\ SubSeq(last.now, s.from + 1, Len(last.now)) = SubSeq(last.was, s.to + 1, Len(last.was))
        /\ last.was[s.from].w = Head(last.quote).w
        /\ last.was[s.to].w = Last(last.quote).w
        /\ ~Elsewhere(last.at, last.was, last.quote)

\* A code map's answer is about the files as they were at some moment of the
\* call, whatever was cached before it and whatever changed while it read them.
MapIsFresh ==
    last.do = "mapped" =>
        /\ last.files[1] \in last.during["app.py"]
        /\ last.files[2] \in last.during["test_app.py"]

\* Whether the i-th thing told has not been followed by one that settles it.
Since(i, settles(_)) == \A j \in (i + 1)..Len(proofs) : ~settles(proofs[j])
Loads(e) == IsCheck(e) /\ LoadsAPage(e)
Uses(e) == IsCheck(e) /\ e.tool = "exercise" /\ e.steps > 1

\* What the menu offers is what can act: no tool it names answers that there is
\* nothing to act in, and one it leaves out for want of a place could only
\* refuse -- but for rag, whose grep of one bare word does run in a container.
\* Nothing of it changes in a run.
MenuIsHonest ==
    \A h \in Hosts : \A t \in Tools \ h.off :
        IF t \in ReachableTools(h) THEN Answers(t, h) \intersect {"unbound", "no browser"} = {}
        ELSE "ok" \in Answers(t, h) => t = "rag" \/ h.shown

\* The ledger against the whole history of what was told: a code file changed
\* and not run since keeps the run held, the page no browser loaded and the
\* code nothing used are listed, and a listed file has been changed since.  The menu is
\* honest.
LedgerInv ==
    LET changes == {i \in 1..Len(proofs) : IsEdit(proofs[i])}
        owed(f, settles(_)) == \E i \in changes : proofs[i].path = f /\ Since(i, settles)
    IN /\ MenuIsHonest
       /\ \A i \in changes :
            /\ Since(i, IsCheck) /\ proofs[i].file # None /\ ~IsProse(proofs[i].file) => ledger.unproven # {}
       /\ ledger.unproven = {f \in Files \union {NotAPath} : ~IsProse(f) /\ owed(f, IsCheck)}
       /\ ledger.unrendered = {f \in Files : IsWeb(f) /\ owed(f, Loads)}
       /\ ledger.unused = {f \in Files \union {NotAPath} : ~IsProse(f) /\ ~IsTest(f) /\ owed(f, Uses)}

\* Both of what an edit does to a file and of what the ledger says of edits.
ToolsInv == EditInv /\ LedgerInv
=============================================================================
