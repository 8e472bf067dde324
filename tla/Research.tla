------------------------------ MODULE Research ------------------------------
(***************************************************************************)
(* The research workflow (agent/pipeline/research.py): a document is       *)
(* outlined, written section by section under a budget of model calls with *)
(* a ledger of facts carried from one section to the next, assembled,      *)
(* judged, and after a rejection revised from the files it left in the     *)
(* workspace.  A provider may fail at any call and a file may fail to be   *)
(* written; neither stops the workflow.                                    *)
(*                                                                         *)
(* A body is its version, the code checks it fails and whether it stops in *)
(* the middle of a sentence; a fact is the section and version it is from. *)
(* One request per call: _call's own retries are left out.                 *)
(***************************************************************************)
EXTENDS Integers, Sequences, FiniteSets, SequencesExt

CONSTANTS
  N,                \* sections of the outline
  MaxCalls,         \* Budget.max_model_calls
  LEDGER_MAX,       \* LEDGER_MAX_CHARS, in facts; at least two
  MAX_REJECTION_REWRITES, CALLS_PER_SECTION_FULL, JUDGMENT_RESERVE,
  RESEARCH_REJECTIONS,
  MaxFails,         \* bound: the code checks a body can fail
  GatherCalls,      \* bound: what one gathering worker calls
  Asks, Checked     \* the sections with research_questions, with checks

ASSUME ResearchAssumption ==
  /\ N \in Nat /\ MaxFails \in Nat /\ GatherCalls \in Nat
  /\ MaxCalls \in Nat \ {0} /\ LEDGER_MAX \in Nat \ {0, 1}

Sections == 1..N
None == [ver |-> 0, code |-> 0, open |-> FALSE]

VARIABLES
  stage,            \* where the workflow is
  sec, tier,        \* the section it is at, and what it may cost
  paid,             \* Budget.calls
  draft,            \* the section at hand: body, ledger and check, and its revision
  bodies,           \* `written`: what the document is assembled from
  ledger,           \* its facts
  files,            \* what of it is in the workspace
  before, todo,     \* _revise: the bodies it read, the sections to rewrite
  ruling,           \* what the judge said, and its rejections
  accepted          \* history: the facts of accepted bodies

researchVars == <<stage, sec, tier, paid, draft, bodies, ledger, files, before, todo, ruling, accepted>>

Blank == [s \in Sections |-> None]
NoDraft == [body |-> None, led |-> FALSE, judged |-> 0, second |-> None, led2 |-> FALSE]
Founding == <<0, 0>>

ResearchInit ==
  /\ stage = "outline" /\ sec = 1 /\ tier = "full" /\ paid = 0
  /\ draft = NoDraft
  /\ bodies = Blank /\ before = Blank /\ todo = <<>>
  /\ ledger = <<Founding>> /\ accepted = {Founding}
  /\ files = [outline |-> FALSE, section |-> Blank, ledger |-> <<>>]
  /\ ruling = [is |-> "none", rejections |-> 0]

-----------------------------------------------------------------------------
(* The budget, the checks, the ledger and the writer's reply *)

Spent == paid >= MaxCalls

\* What each of the sections that are left may cost.
Tier(left) ==
  LET remaining == MaxCalls - paid - JUDGMENT_RESERVE
  IN CASE 5 * paid >= 4 * MaxCalls                  -> "bare"
       [] remaining >= CALLS_PER_SECTION_FULL * left -> "full"
       [] remaining >= 2 * left                      -> "lean"
       [] OTHER                                      -> "bare"

\* _check_section: a body that stops mid-sentence is truncated, unless the
\* ledger after it shows that the reply was not.
Failures(body, led) == body.code + IF body.open /\ ~led THEN 1 ELSE 0

\* _merge_ledger: the union, and past its size the facts go from the middle.
Trimmed(facts) ==
  IF Len(facts) <= LEDGER_MAX THEN facts ELSE RemoveAt(facts, (Len(facts) \div 2) + 1)
Merged(led, fact) ==
  IF ~led \/ fact \in ToSet(ledger) THEN ledger ELSE Trimmed(Append(ledger, fact))

\* _write_section: two attempts, then a body with or without a ledger or none.
WriterReplies(ver) ==
  {[cost |-> 2, body |-> None, led |-> FALSE]} \cup
  [cost : 1..2, body : [ver : {ver}, code : 0..MaxFails, open : BOOLEAN], led : BOOLEAN]

-----------------------------------------------------------------------------
(* run_research *)

\* Two attempts at one JSON object; else it runs as an agent task.
Outline ==
  /\ stage = "outline"
  /\ \E cost \in 1..2 : paid' = paid + cost
  /\ \/ /\ stage' = "agent"
        /\ UNCHANGED files
     \/ \E saved, ledgered \in BOOLEAN :
          /\ stage' = "section"
          /\ files' = [outline |-> saved, section |-> Blank,
                       ledger |-> IF ledgered THEN ledger ELSE <<>>]
  /\ UNCHANGED <<sec, tier, draft, bodies, ledger, before, todo, ruling, accepted>>

\* The next section, left out when the budget is gone.
NextSection ==
  /\ stage = "section"
  /\ draft' = NoDraft
  /\ \/ /\ sec > N
        /\ stage' = "finish"
        /\ UNCHANGED <<sec, tier>>
     \/ /\ sec <= N /\ Spent
        /\ sec' = sec + 1
        /\ UNCHANGED <<stage, tier>>
     \/ /\ sec <= N /\ ~Spent
        /\ tier' = Tier(N - sec + 1)
        /\ stage' = IF tier' = "full" /\ sec \in Asks THEN "gather" ELSE "write"
        /\ UNCHANGED sec
  /\ UNCHANGED <<paid, bodies, ledger, files, before, todo, ruling, accepted>>

\* _gather: the worker's own loop stops at the budget.
Gather ==
  /\ stage = "gather"
  /\ \E k \in 0..GatherCalls :
       /\ paid + k <= MaxCalls
       /\ paid' = paid + k
  /\ IF paid' >= MaxCalls
     THEN stage' = "section" /\ sec' = sec + 1
     ELSE stage' = "write" /\ UNCHANGED sec
  /\ UNCHANGED <<tier, draft, bodies, ledger, files, before, todo, ruling, accepted>>

WriteSection ==
  /\ stage = "write"
  /\ \E r \in WriterReplies(1) :
       /\ paid' = paid + r.cost
       /\ IF r.body = None
          THEN stage' = "section" /\ sec' = sec + 1 /\ UNCHANGED draft
          ELSE stage' = "check" /\ draft' = [NoDraft EXCEPT !.body = r.body, !.led = r.led] /\ UNCHANGED sec
  /\ UNCHANGED <<tier, bodies, ledger, files, before, todo, ruling, accepted>>

CheckDraft ==
  /\ stage = "check"
  /\ stage' = "decide"
  /\ IF tier = "full" /\ sec \in Checked /\ ~Spent
     THEN /\ paid' = paid + 1
          /\ \E failed \in 0..1 : draft' = [draft EXCEPT !.judged = failed]
     ELSE UNCHANGED <<paid, draft>>
  /\ UNCHANGED <<sec, tier, bodies, ledger, files, before, todo, ruling, accepted>>

\* One revision of a section that fails, where the tier allows it.
Decide ==
  /\ stage = "decide"
  /\ IF Failures(draft.body, draft.led) + draft.judged = 0 \/ tier = "bare" \/ Spent
     THEN stage' = "save" /\ UNCHANGED <<paid, draft>>
     ELSE \E r \in WriterReplies(2) :
            /\ paid' = paid + r.cost
            /\ draft' = [draft EXCEPT !.second = r.body, !.led2 = r.led]
            /\ stage' = IF r.body = None THEN "save" ELSE "compare"
  /\ UNCHANGED <<sec, tier, bodies, ledger, files, before, todo, ruling, accepted>>

\* The revision stays if it fails no more than the draft did.
Better(failed) ==
  Failures(draft.second, draft.led2) + failed <= Failures(draft.body, draft.led) + draft.judged
Compare ==
  /\ stage = "compare"
  /\ stage' = "save"
  /\ LET judges == draft.judged > 0 /\ tier = "full" /\ ~Spent
     IN /\ paid' = IF judges THEN paid + 1 ELSE paid
        /\ \E failed \in IF judges THEN 0..1 ELSE {0} :
             draft' = IF Better(failed)
                      THEN [draft EXCEPT !.body = draft.second, !.led = draft.led2, !.judged = failed]
                      ELSE draft
  /\ UNCHANGED <<sec, tier, bodies, ledger, files, before, todo, ruling, accepted>>

\* The section and the ledger go to their files, or do not.
Save ==
  /\ stage = "save"
  /\ stage' = "section" /\ sec' = sec + 1
  /\ bodies' = [bodies EXCEPT ![sec] = draft.body]
  /\ ledger' = Merged(draft.led, <<sec, draft.body.ver>>)
  /\ accepted' = accepted \cup IF draft.led THEN {<<sec, draft.body.ver>>} ELSE {}
  /\ \E kept \in {files.section, [files.section EXCEPT ![sec] = draft.body]},
        facts \in {files.ledger, ledger'} :
       files' = [files EXCEPT !.section = kept, !.ledger = facts]
  /\ UNCHANGED <<tier, paid, draft, before, todo, ruling>>

-----------------------------------------------------------------------------
(* _finish, the judgment, and _revise *)

\* The document is assembled and judged, unless there is nothing left to judge
\* it with or nothing in it.
Finish ==
  /\ stage = "finish"
  /\ stage' = IF Spent \/ bodies = Blank THEN "__end__" ELSE "evaluator"
  /\ UNCHANGED <<sec, tier, paid, draft, bodies, ledger, files, before, todo, ruling, accepted>>

\* The evaluator approves it, rejects it, or reaches no verdict.
Evaluator ==
  /\ stage = "evaluator"
  /\ paid' = paid + 1
  /\ \E is \in {"approved", "rejected", "no verdict"} :
       /\ ruling' = [is |-> is, rejections |-> ruling.rejections + IF is = "approved" THEN 0 ELSE 1]
       /\ stage' = IF is = "approved" \/ ruling'.rejections > RESEARCH_REJECTIONS THEN "__end__" ELSE "again"
  /\ UNCHANGED <<sec, tier, draft, bodies, ledger, files, before, todo, accepted>>

\* Re-entry without an outline on file starts over, in a directory of its own.
StartOver ==
  /\ stage = "again" /\ ~files.outline
  /\ stage' = "outline" /\ sec' = 1
  /\ bodies' = Blank /\ before' = Blank
  /\ ledger' = <<Founding>> /\ accepted' = {Founding}
  /\ UNCHANGED <<tier, paid, draft, files, todo, ruling>>

\* The weakest sections, those that pass last; none without a verdict.
Weakest(there, R) ==
  /\ Cardinality(R) = IF Cardinality(there) < MAX_REJECTION_REWRITES
                      THEN Cardinality(there) ELSE MAX_REJECTION_REWRITES
  /\ \A s \in R, u \in there \ R : files.section[u].code > 0 => files.section[s].code > 0
Orders(R) ==
  {order \in [1..Cardinality(R) -> R] :
     \A j, k \in 1..Cardinality(R) : j < k =>
       /\ order[j] # order[k]
       /\ files.section[order[k]].code > 0 => files.section[order[j]].code > 0}

\* _revise reads back what was saved; a ledger that was not is an empty one.
Reload ==
  /\ stage = "again" /\ files.outline
  /\ LET there == {s \in Sections : files.section[s] # None}
     IN \/ /\ stage' = "agent"              \* the outline does not load any more
           /\ UNCHANGED <<bodies, before, ledger, accepted, todo>>
        \/ /\ stage' = "rewrite"
           /\ bodies' = files.section /\ before' = files.section
           /\ ledger' = files.ledger
           /\ accepted' = IF files.ledger = <<>> THEN accepted \ {Founding} ELSE accepted
           /\ IF ruling.is = "no verdict" THEN todo' = <<>>
              ELSE \E R \in SUBSET there : Weakest(there, R) /\ todo' \in Orders(R)
  /\ UNCHANGED <<sec, tier, paid, draft, files, ruling>>

\* Mutant of Kept: every rewrite takes its place.
KeptAlways(body, led, old) == TRUE

\* A rewrite takes the place of a body it fails no more than.
Kept(body, led, old) == Failures(body, led) <= Failures(old, TRUE)

Rewrite ==
  /\ stage = "rewrite" /\ todo # <<>> /\ ~Spent
  /\ LET s == Head(todo)
     IN \E r \in WriterReplies(3 + ruling.rejections) :
          /\ paid' = paid + r.cost
          /\ IF r.body # None /\ Kept(r.body, r.led, bodies[s])
             THEN /\ bodies' = [bodies EXCEPT ![s] = r.body]
                  /\ ledger' = Merged(r.led, <<s, r.body.ver>>)
                  /\ accepted' = accepted \cup IF r.led THEN {<<s, r.body.ver>>} ELSE {}
                  /\ \E kept \in {files.section, [files.section EXCEPT ![s] = r.body]} :
                       files' = [files EXCEPT !.section = kept]
             ELSE UNCHANGED <<bodies, ledger, accepted, files>>
  /\ todo' = Tail(todo)
  /\ UNCHANGED <<stage, sec, tier, draft, before, ruling>>

Rewritten ==
  /\ stage = "rewrite" /\ (todo = <<>> \/ Spent)
  /\ stage' = "finish" /\ todo' = <<>>
  /\ \E facts \in {files.ledger, ledger} : files' = [files EXCEPT !.ledger = facts]
  /\ UNCHANGED <<sec, tier, paid, draft, bodies, ledger, before, ruling, accepted>>

ResearchNext ==
  \/ Outline \/ NextSection \/ Gather \/ WriteSection \/ CheckDraft \/ Decide \/ Compare \/ Save
  \/ Finish \/ Evaluator \/ StartOver \/ Reload \/ Rewrite \/ Rewritten

ResearchSpec == ResearchInit /\ [][ResearchNext]_researchVars

-----------------------------------------------------------------------------
ResearchTypeOK ==
  /\ sec \in 1..(N + 1) /\ paid \in Nat
  /\ tier \in {"full", "lean", "bare"}
  /\ ToSet(todo) \subseteq Sections
  /\ DOMAIN bodies = Sections /\ Len(ledger) <= LEDGER_MAX

\* The budget ends between calls: the workflow is never more than the second
\* attempt at one section over it, the judgment aside.
OverspendIsOneAttempt ==
  stage \notin {"again", "rewrite", "agent", "outline", "__end__", "finish"} /\ ruling.is = "none"
    => paid <= MaxCalls + 1

\* The ledger holds facts of bodies that were accepted only, and through all
\* trimming the outline's own and those of the section written last; unless
\* ledger.json could not be written at all.
LedgerIsSound ==
  /\ ToSet(ledger) \subseteq accepted
  /\ Founding \in accepted => Head(ledger) = Founding
  /\ stage = "section" /\ draft.led => Last(ledger) = <<sec - 1, draft.body.ver>>

\* A revision loses no section it could read back, and leaves none of them
\* failing more of the code's checks.
RevisionKeeps ==
  \A s \in Sections : before[s] # None =>
    bodies[s] # None /\ bodies[s].code <= before[s].code

ResearchInv == ResearchTypeOK /\ OverspendIsOneAttempt /\ LedgerIsSound /\ RevisionKeeps

=============================================================================
