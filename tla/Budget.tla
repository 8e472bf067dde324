-------------------------------- MODULE Budget --------------------------------
(* What a run may spend: agent/pipeline/budget.py, as functions of a Budget and
   the clock.  A Budget is a record; a ceiling or a deadline of 0 is None.  The
   clock counts fifths of a unit, so that WRAP_UP_FRACTION (4/5) and
   RECON_FRACTION (1/5) of a span of whole units are whole.                  *)
EXTENDS Naturals

CONSTANTS
  Margin,         \* of a budget of seconds, in units
  MinTurnCalls,   \* MIN_TURN_CALLS
  MinTurnUnits,   \* MIN_TURN_SECONDS
  Recon           \* whether RECON_FRACTION is above zero

Least(a, b) == IF a < b THEN a ELSE b
Most(a, b) == IF a > b THEN a ELSE b
Left(a, b) == IF a > b THEN a - b ELSE 0

NoBudget == [max |-> 0, hard |-> 0, wrap |-> 0, calls |-> 0, warned |-> FALSE,
             recon |-> FALSE, turnMax |-> 0, turnHard |-> 0, turnStart |-> 0, turnWrap |-> 0]

\* default_budget: a ceiling of calls, never below one, and no clock.
DefaultBudget(limit) == [NoBudget EXCEPT !.max = Most(limit, 1)]

\* Budget.of: `units` from now, less the margin, and at least one.
Of(units, now) ==
  LET usable == Most(Left(units, Margin), 1)
  IN [NoBudget EXCEPT !.hard = now + 5 * usable, !.wrap = now + 4 * usable]

\* Budget.until: what is left until a deadline, less the margin once more.
Until(deadline, now) ==
  LET usable == Most(Left(Most(Left(deadline, now), 5), 5 * Margin), 5)
  IN [NoBudget EXCEPT !.hard = now + usable, !.wrap = now + (4 * usable) \div 5]

\* spend: one model request.
Spent1(b) == [b EXCEPT !.calls = @ + 1]

PastCalls(b) == b.max # 0 /\ b.calls >= b.max
PastTurn(b, now) == \/ b.turnMax # 0 /\ b.calls >= b.turnMax
                    \/ b.turnHard # 0 /\ now >= b.turnHard

\* phase: the ceilings first, then four fifths of each.
Phase(b, now) ==
  IF PastCalls(b) \/ (b.hard # 0 /\ now >= b.hard) \/ PastTurn(b, now) THEN "spent"
  ELSE IF \/ /\ b.turnMax # 0
             /\ 5 * Left(b.calls, b.turnStart) >= 4 * (b.turnMax - b.turnStart)
          \/ b.max # 0 /\ 5 * b.calls >= 4 * b.max
          \/ b.turnWrap # 0 /\ now >= b.turnWrap
          \/ b.wrap # 0 /\ now >= b.wrap
       THEN "wrap_up" ELSE "ok"

IsSpent(b, now) == Phase(b, now) = "spent"

\* in_recon: the first fifth of the calls, or without a ceiling of the clock.
InRecon(b, now) ==
  /\ Recon
  /\ IF b.max # 0 THEN 5 * b.calls < b.max
     ELSE b.hard # 0 /\ b.wrap # 0 /\ now + 4 * (b.hard - b.wrap) < b.hard

\* recon_once and wrap_up_once: whether the note is given.
SaysRecon(b, now) == ~b.recon /\ ~InRecon(b, now) /\ (b.max # 0 \/ b.hard # 0)
SaysWrapUp(b, now) == ~b.warned /\ Phase(b, now) = "wrap_up"

\* The budget after a look that asks for both notes.
Looked(b, now) == [b EXCEPT !.recon = @ \/ SaysRecon(b, now),
                            !.warned = @ \/ SaysWrapUp(b, now)]

\* skip_recon
SkipRecon(b) == [b EXCEPT !.recon = TRUE]

\* _affordable_turns: no more turns than the floors can be paid for.
Affordable(b, now, turns) ==
  LET byClock == IF b.hard = 0 THEN turns
                 ELSE Least(turns, Most(1, Left(b.hard, now) \div (5 * MinTurnUnits)))
      byCalls == IF b.max = 0 THEN byClock
                 ELSE Least(byClock, Most(1, Left(b.max, b.calls) \div MinTurnCalls))
  IN Most(1, byCalls)

\* begin_turn, which nothing calls: what is left is shared out.
BeginTurn(b, now, turns) ==
  LET n     == Affordable(b, now, Most(1, turns))
      share == Most(5 * MinTurnUnits, Left(b.hard, now) \div n)
  IN [b EXCEPT !.warned = FALSE, !.turnStart = b.calls,
       !.turnMax = IF b.max = 0 THEN @
                   ELSE b.calls + Most(MinTurnCalls, Left(b.max, b.calls) \div n),
       !.turnHard = IF b.hard = 0 THEN @ ELSE now + share,
       !.turnWrap = IF b.hard = 0 THEN @ ELSE now + (4 * share) \div 5]
=============================================================================
