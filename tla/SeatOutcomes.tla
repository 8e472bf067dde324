---------------------------- MODULE SeatOutcomes ----------------------------
(* The log of what each seat's model achieved, and the order it puts a chain
   in: agent/router/outcomes.py, read by Router.resolve and written by
   nodes._record_seat when the judge has settled a run.

   One task and its declared chain, candidates 1..N in declared order, each the
   one model its spec names.  A run of one mode: a loop resolves a seat, the
   judge accepts the answer, sends it back (another loop, another resolve) or
   gives up, and the log is told.  Providers come and go meanwhile.

   Rates are compared by cross-multiplication.  Abstracted: other tasks' rows,
   the file, the moves between machines (export, import), and pins, which are
   never reordered (Routes).                                                *)
EXTENDS Integers, Sequences

CONSTANTS N,           \* length of the declared chain
          MinSamples,  \* MIN_SAMPLES
          MinMargin,      \* MIN_MARGIN, <<numerator, denominator>>
          Costs,       \* calls a run may take
          MaxRuns,     \* runs a row counts; a row that has them stays, the
                       \* bound of the model
          MaxReworks,  \* rejections of a run before the answer stands
          Explores,    \* whether exploration may happen (EXPLORATION_RATE)
          MayFail      \* candidates whose provider may stop being usable

ASSUME OutcomesAssumption ==
  /\ N \in Nat \ {0} /\ MinSamples \in Nat \ {0} /\ MaxRuns \in Nat /\ MaxReworks \in Nat
  /\ MinMargin[1] \in Nat \ {0} /\ MinMargin[2] \in Nat \ {0}
  /\ Costs \subseteq Nat
  /\ Explores \in BOOLEAN
  /\ MayFail \subseteq 1..N

VARIABLES
  log,      \* seat_outcomes: one row per candidate's model, runs = 0 for none
  usable,   \* candidates Router._match finds a model for
  run       \* the run: where it is, whose answer it holds, whose row it goes
            \* to, its rejections, whether its mode changed

seatVars == <<log, usable, run>>

Candidates == 1..N
Declared == [i \in Candidates |-> i]

(* ------------------------------ the ordering ----------------------------- *)

Trusted(c) == log[c].runs >= MinSamples

\* c's approval rate is d's, and by the margin more.
AheadByMargin(c, d) ==
  LET r == log[c]  s == log[d]
  IN (r.approved * s.runs - s.approved * r.runs) * MinMargin[2] >= MinMargin[1] * r.runs * s.runs

Cheaper(c, d) == 5 * log[c].calls * log[d].runs < 4 * log[d].calls * log[c].runs

\* _overtakes: whether c, declared after d, should be tried first.
Overtakes(c, d) ==
  /\ Trusted(c) /\ Trusted(d)
  /\ \/ AheadByMargin(c, d)
     \/ ~AheadByMargin(d, c) /\ Cheaper(c, d)

Swapped(s, i) == [s EXCEPT ![i] = s[i + 1], ![i + 1] = s[i]]

\* One pass of adjacent swaps over the chain.
Pass(s) ==
  LET after[i \in 0..(N - 1)] ==
        IF i = 0 THEN s
        ELSE IF Overtakes(after[i - 1][i + 1], after[i - 1][i])
             THEN Swapped(after[i - 1], i) ELSE after[i - 1]
  IN after[N - 1]

\* Mutant of Reordered: one pass is enough.
PassedOnce == Pass(Declared)

\* reorder, when it does not explore: as many passes as there are candidates
\* (one that swaps nothing is the last, and so would the others).
Reordered ==
  LET order[k \in 0..N] == IF k = 0 THEN Declared ELSE Pass(order[k - 1])
  IN order[N]

\* _explore: of two measured candidates or more, the first of the fewest runs.
Explorer ==
  LET measured == {c \in Candidates : Trusted(c)}
      fewest == {c \in measured : \A d \in measured :
                   log[c].runs < log[d].runs \/ (log[c].runs = log[d].runs /\ c <= d)}
  IN IF \E c, d \in measured : c # d THEN fewest ELSE {}

\* The candidate first, the others as declared.
Leading(c) ==
  [i \in Candidates |-> IF i = 1 THEN c ELSE IF i <= c THEN i - 1 ELSE i]

\* The orders a resolve may try the chain in.
ExploringOrders == {Leading(c) : c \in Explorer}
SeatOrders == {Reordered} \cup (IF Explores THEN ExploringOrders ELSE {})

\* Router._resolve: the first of the order that can be used.
FirstUsable(o) ==
  LET i == CHOOSE k \in Candidates : o[k] \in usable /\ \A j \in 1..(k - 1) : o[j] \notin usable
  IN o[i]

(* --------------------------------- a run --------------------------------- *)

NoRun == [at |-> "idle", by |-> 0, to |-> 0, reworks |-> 0, modes |-> 1]

\* A loop of the agent gets its model.
Start ==
  /\ run.at = "idle" /\ usable # {}
  /\ \E o \in SeatOrders :
       run' = [NoRun EXCEPT !.at = "judge", !.by = FirstUsable(o)]
  /\ UNCHANGED <<log, usable>>

\* MODE within the loop: another seat answers, and mode_log says so.
ChangesMode ==
  /\ run.at = "judge" /\ run.modes = 1
  /\ run' = [run EXCEPT !.modes = 2]
  /\ UNCHANGED <<log, usable>>

\* A rejection: the agent's next loop resolves for itself.
Rework ==
  /\ run.at = "judge" /\ run.reworks < MaxReworks /\ usable # {}
  /\ \E o \in SeatOrders :
       run' = [run EXCEPT !.reworks = @ + 1, !.by = FirstUsable(o)]
  /\ UNCHANGED <<log, usable>>

\* _record_seat, on the judge's last word (an approval, a rejection past the
\* cap, a judge that cannot be reached): a run of one mode, and the model the
\* task resolves to now.
Resolve(o) ==
  /\ run.at = "judge"
  /\ run' = IF run.modes > 1 \/ usable = {} THEN NoRun
            ELSE [run EXCEPT !.at = "record", !.to = FirstUsable(o)]
  /\ UNCHANGED <<log, usable>>

ResolveBest == \E o \in {Reordered} : Resolve(o)
ResolveExploring == Explores /\ \E c \in Explorer : Resolve(Leading(c))

Recorded(row, approved, calls) ==
  IF row.runs >= MaxRuns THEN row
  ELSE [runs |-> row.runs + 1, approved |-> row.approved + (IF approved THEN 1 ELSE 0),
        calls |-> row.calls + calls]

\* outcomes.record.
Record ==
  /\ run.at = "record"
  /\ \E approved \in BOOLEAN, calls \in Costs :
       /\ log' = [log EXCEPT ![run.to] = Recorded(@, approved, calls)]
  /\ run' = NoRun
  /\ UNCHANGED usable

(* ------------------------------- providers ------------------------------- *)

Fail ==
  /\ \E c \in MayFail \cap usable : usable' = usable \ {c}
  /\ UNCHANGED <<log, run>>

Recover ==
  /\ \E c \in Candidates \ usable : usable' = usable \cup {c}
  /\ UNCHANGED <<log, run>>

(* ------------------------------------------------------------------------- *)

SeatsInit ==
  /\ log = [c \in Candidates |-> [runs |-> 0, approved |-> 0, calls |-> 0]]
  /\ usable = Candidates
  /\ run = NoRun

SeatsNext == Start \/ ChangesMode \/ Rework \/ ResolveBest \/ ResolveExploring \/ Record \/ Fail \/ Recover

SeatsSpec == SeatsInit /\ [][SeatsNext]_seatVars

(* ------------------------------ properties ------------------------------- *)

\* A row holds no more approvals than runs, and a resolve tries every candidate
\* once.
SeatsTypeOK ==
  /\ \A c \in Candidates : /\ log[c].runs \in 0..MaxRuns
                           /\ log[c].approved \in 0..log[c].runs
                           /\ log[c].calls \in Nat
  /\ usable \in SUBSET Candidates
  /\ run.at \in {"idle", "judge", "record"}
  /\ run.by \in 0..N /\ run.to \in 0..N
  /\ \A o \in SeatOrders : /\ o \in [Candidates -> Candidates]
                       /\ \A i, j \in Candidates : o[i] = o[j] => i = j
  /\ run.reworks \in 0..MaxReworks /\ run.modes \in 1..2

\* The evidence order moves no candidate that has no trusted record, whatever
\* the records around it (reorder: ONLY TWO MEASURED CANDIDATES EVER TRADE
\* PLACES).
UnmeasuredStay ==
  \A o \in {Reordered} : \A c \in Candidates : ~Trusted(c) => o[c] = c

\* When the passes are over no candidate stands right behind one it overtakes
\* (reorder: best-evidenced first).
Settled ==
  \A o \in {Reordered} : \A i \in 1..(N - 1) : ~Overtakes(o[i + 1], o[i])

\* In every state of the log and of the run the chain is settled, and who has
\* no record has not moved.
SeatsInv == SeatsTypeOK /\ UnmeasuredStay /\ Settled

\* "A candidate nobody has evidence about keeps its declared position", in
\* whatever order a run is resolved by.
DeclaredPosition == \A o \in SeatOrders, c \in Candidates : ~Trusted(c) => o[c] = c

\* "Credit the seat that produced this answer" (_record_seat).
CreditIsOwn == run.at = "record" => run.to = run.by

=============================================================================
