------------------------------- MODULE Router -------------------------------
(* How a model is chosen for a call, and what the outcome of the call does
   to the next choice: agent/router/router.py (resolve, chain),
   agent/router/health.py (cooldowns and the breaker),
   agent/router/llm_provider/retired.py and the catalogue cache of
   llm_provider/base.py, with the two callers that report outcomes,
   nodes.py _call and vision.py describe_with_fallback.

   Several threads route and call at once: the graph threads of a server's
   sessions and the tool calls they wait for.  Every candidate is asked in a
   step of its own, because each question reads the clock and the health
   records anew; and a report that opens a window is two, because it writes
   the window before the reason a question answers with.

   Time is what is left of each window, so a tick takes one from every
   window and there is no clock to bound.  The doubling of a window stops at
   MaxCooldown, so strikes stop at the last one that changes anything, and a
   breaker's failures at BreakerThreshold.  Abstracted: a candidate is the
   models it may name in the order it prefers them (one, for a spec), the
   parameters and capabilities of a model are not modelled, nor is the strict
   router, which only tests build, nor the vendor pin `only`, which no caller
   passes.                                                                  *)
EXTENDS Naturals, Sequences, FiniteSets, SequencesExt

CONSTANTS Callers,          \* threads that route and call
          Providers,        \* vendors
          Required,         \* the vendor Otto cannot start without
          OwnErrors,        \* vendors whose chat class raises ProviderError
          Models,
          ProviderOf,       \* the vendor of each model
          Advertised,       \* the models a vendor lists when it is asked
          Chain,            \* the candidates of the task, each a sequence of
                            \* models of one vendor, best first
          Orders,           \* the orders evidence may put the chain in
          ModelWait,        \* cooldown of a model at each strike
          ProviderWait,     \* cooldown of a vendor at each strike
          MaxStrikes,
          MaxCooldown,
          ExhaustedCooldown,
          RetryAfters,      \* waits a vendor may ask for, capped
          BreakerThreshold,
          Reloads,          \* whether keys change while threads route
          Gone              \* whether a vendor may withdraw a model

Places == 1..Len(Chain)
Vendor(i) == ProviderOf[Chain[i][1]]
None == "none"

ASSUME RouterAssumption ==
  /\ Required \in Providers
  /\ OwnErrors \subseteq Providers
  /\ ProviderOf \in [Models -> Providers]
  /\ Advertised \in [Providers -> SUBSET Models]
  /\ Chain \in Seq(Seq(Models))
  /\ \A i \in 1..Len(Chain) : Len(Chain[i]) > 0
  /\ Orders \subseteq Seq(1..Len(Chain))
  /\ Orders # {}
  /\ \A o \in Orders : \A i \in 1..Len(Chain) : \E k \in 1..Len(o) : o[k] = i
  /\ MaxStrikes \in Nat \ {0}
  /\ MaxCooldown \in Nat \ {0}
  /\ ExhaustedCooldown \in Nat \ {0}
  /\ BreakerThreshold \in Nat \ {0}
  /\ ModelWait \in [1..MaxStrikes -> 1..MaxCooldown]
  /\ ProviderWait \in [1..MaxStrikes -> 1..MaxCooldown]
  /\ RetryAfters \subseteq 1..MaxCooldown
  /\ Reloads \in BOOLEAN
  /\ Gone \in BOOLEAN

VARIABLES
  configured,   \* Router._configured: vendors with a key, as last read
  listed,       \* vendors whose provider object has its list of models
  catalogue,    \* BaseProvider._models of those
  learned,      \* retired._LEARNED
  model,        \* Health._models
  provider,     \* Health._providers
  caller,       \* where each thread is in resolve, chain or its call
  steady,       \* (history) candidates on offer since a thread began
  inARow        \* (history) transport failures of a vendor since it last
                \* answered anything, up to BreakerThreshold

vars == <<configured, listed, catalogue, learned, model, provider, caller, steady, inARow>>
health == <<model, provider, inARow>>
offer == <<configured, listed, catalogue, learned>>

LeastOf(a, b) == IF a < b THEN a ELSE b

(* ------------------------------- health --------------------------------- *)

\* A _Cooling nobody has touched: a record that was popped reads the same.
\* `told`: it has its reason in words, which only a new record lacks.
Fresh == [left |-> 0, strikes |-> 0, failures |-> 0, told |-> FALSE]

Records == [left : Nat, strikes : 0..MaxStrikes, failures : 0..BreakerThreshold,
            told : BOOLEAN]

Struck(r) == LeastOf(r.strikes + 1, MaxStrikes)

\* Mutant of Cooling: a record that is still there is a reason.
CoolingWhileStruck(m) ==
  provider[ProviderOf[m]].strikes > 0 \/ model[m].strikes > 0

\* Health.cooling: an expired window is no reason, its record stays.
Cooling(m) == provider[ProviderOf[m]].left > 0 \/ model[m].left > 0

\* Whether the reason that Health.cooling gives says so: the words of the
\* record it found.
SaysCooling(m) == IF provider[ProviderOf[m]].left > 0 THEN provider[ProviderOf[m]].told
                                                      ELSE model[m].told

\* Health.cooling_until, as what is left.
CoolingLeft(m) == LET p == provider[ProviderOf[m]].left
                  IN IF p < model[m].left THEN model[m].left ELSE p

\* Health.note_success
NoteSuccess(m) ==
  /\ model' = [model EXCEPT ![m] = Fresh]
  /\ provider' = [provider EXCEPT ![ProviderOf[m]] = Fresh]

\* One strike more, and a window of `wait`; the reason comes next.
Cooled(r, wait) == [r EXCEPT !.strikes = Struck(r), !.left = wait]

\* Health.note_rate_limit, up to its window, with the vendor's own wait or
\* the doubled one.
NoteRateLimit(m, wait) ==
  /\ model' = [model EXCEPT ![m] = Cooled(@, wait)]
  /\ UNCHANGED provider

\* Health.note_exhausted, up to its window.
NoteExhausted(p) ==
  /\ provider' = [provider EXCEPT ![p] = Cooled(@, ExhaustedCooldown)]
  /\ UNCHANGED model

\* The record of a vendor after Health.note_transport_failure, up to its
\* window if it opens one.
Failed(r) ==
  LET counted == LeastOf(r.failures + 1, BreakerThreshold)
      more == [r EXCEPT !.failures = counted]
  IN IF counted < BreakerThreshold THEN more ELSE Cooled(more, ProviderWait[Struck(r)])

Trips(p) == provider[p].failures + 1 >= BreakerThreshold

NoteTransportFailure(p) ==
  /\ provider' = [provider EXCEPT ![p] = Failed(@)]
  /\ UNCHANGED model

\* Mutant of Ticked: an expired window takes its record with it.
TickedAway(r) == IF r.left <= 1 THEN Fresh ELSE [r EXCEPT !.left = @ - 1]

Ticked(r) == [r EXCEPT !.left = IF @ = 0 THEN 0 ELSE @ - 1]

\* A second passes.
Tick ==
  /\ model' = [m \in Models |-> Ticked(model[m])]
  /\ provider' = [p \in Providers |-> Ticked(provider[p])]
  /\ UNCHANGED <<offer, caller, steady, inARow>>

(* ------------------------------ catalogue ------------------------------- *)

\* list_models: the filter runs when the list is fetched, and the list is
\* kept.
Pool(p) == IF p \in listed THEN catalogue[p] ELSE Advertised[p] \ learned

\* select_candidate: the first of a candidate's models in a pool.
Named(i, pool) == {k \in DOMAIN Chain[i] : Chain[i][k] \in pool}
Selected(i) == LET named == Named(i, Pool(Vendor(i)))
               IN Chain[i][CHOOSE k \in named : \A j \in named : k <= j]

\* What Router._match asks of a candidate before its health: that its
\* vendor has a key and lists one of its models.
OnOffer(keys, pools) ==
  {i \in Places : Vendor(i) \in keys /\ Named(i, pools[Vendor(i)]) # {}}
AllOffered == OnOffer(configured, [p \in Providers |-> Pool(p)])
Offered(i) == i \in AllOffered

\* reload_everything after the keys changed: every provider instance goes,
\* its list with it, and the router reads which vendors have a key.  What
\* was learned of retired models stays.
Reload ==
  /\ Reloads
  /\ \E keys \in SUBSET Providers :
       LET refetched == [p \in Providers |-> Advertised[p] \ learned]
       IN /\ Required \in keys
          /\ configured' = keys
          /\ steady' = [c \in Callers |-> steady[c] \cap OnOffer(keys, refetched)]
  /\ listed' = {}
  /\ catalogue' = [p \in Providers |-> {}]
  /\ UNCHANGED <<learned, health, caller>>

(* ------------------------------- routing -------------------------------- *)

Idle == [at |-> "idle", honour |-> TRUE, order |-> <<>>, pos |-> 1,
         cooled |-> FALSE, half |-> FALSE, picked |-> None, owes |-> None,
         walk |-> FALSE, plan |-> <<>>, asked |-> FALSE]

\* Router.resolve: require_ready, then the first pass over the chain, in
\* the order the evidence puts it in.
Begin(c) ==
  /\ caller[c].at = "idle"
  /\ Required \in configured
  /\ \E o \in Orders :
       caller' = [caller EXCEPT ![c] = [Idle EXCEPT !.at = "routing", !.order = o]]
  /\ steady' = [steady EXCEPT ![c] = AllOffered]
  /\ UNCHANGED <<offer, health>>

Candidate(c) == caller[c].order[caller[c].pos]
AtCandidate(c) == caller[c].pos <= Len(caller[c].order)

\* A list that is not cached is fetched on the way to a candidate, by
\* resolve and by chain.  A fetch that fails raises out of both.
Needed(c) ==
  IF caller[c].at = "routing"
  THEN IF AtCandidate(c) THEN {Vendor(Candidate(c))} ELSE {}
  ELSE IF caller[c].at = "planning" THEN {Vendor(i) : i \in Places} ELSE {}

Fetch(c) ==
  \E p \in Needed(c) \cap configured :
    /\ p \notin listed
    /\ \/ /\ listed' = listed \cup {p}
          /\ catalogue' = [catalogue EXCEPT ![p] = Pool(p)]
          /\ UNCHANGED caller
       \/ /\ caller' = [caller EXCEPT ![c] = [Idle EXCEPT !.at = "raised"]]
          /\ UNCHANGED <<listed, catalogue>>
    /\ UNCHANGED <<configured, learned, health, steady>>

\* Router._match on the next candidate of the pass.
Ask(c) ==
  LET i == Candidate(c)
  IN /\ caller[c].at = "routing"
     /\ AtCandidate(c)
     /\ Vendor(i) \in configured => Vendor(i) \in listed
     /\ \/ /\ ~Offered(i)
           /\ caller' = [caller EXCEPT ![c].pos = @ + 1]
        \/ /\ Offered(i)
           /\ caller[c].honour
           /\ Cooling(Selected(i))
           /\ caller' = [caller EXCEPT ![c].pos = @ + 1,
                                       ![c].cooled = @ \/ SaysCooling(Selected(i)),
                                       ![c].half = @ \/ ~SaysCooling(Selected(i))]
        \/ /\ Offered(i)
           /\ caller[c].honour => ~Cooling(Selected(i))
           /\ caller' = [caller EXCEPT ![c] = [Idle EXCEPT !.at = "calling",
                                                           !.picked = Selected(i)]]
     /\ UNCHANGED <<offer, health, steady>>

\* Mutant of PassEnds: one pass.
OnePass(c) ==
  /\ caller[c].at = "routing"
  /\ ~AtCandidate(c)
  /\ caller' = [caller EXCEPT ![c] = [Idle EXCEPT !.at = "noroute", !.half = caller[c].half]]
  /\ UNCHANGED <<offer, health, steady>>

\* The end of a pass with no candidate.  resolve tries again without the
\* cooldowns when any reason reads like one.
PassEnds(c) ==
  /\ caller[c].at = "routing"
  /\ ~AtCandidate(c)
  /\ \/ /\ caller[c].honour /\ caller[c].cooled
        /\ \E o \in Orders :
             caller' = [caller EXCEPT ![c].honour = FALSE, ![c].pos = 1,
                                      ![c].order = o]
     \/ /\ ~(caller[c].honour /\ caller[c].cooled)
        /\ caller' = [caller EXCEPT ![c] = [Idle EXCEPT !.at = "noroute",
                                                        !.half = caller[c].half]]
  /\ UNCHANGED <<offer, health, steady>>

(* ------------------------ the walk for an image ------------------------- *)

BeginWalk(c) ==
  /\ caller[c].at = "idle"
  /\ Required \in configured
  /\ caller' = [caller EXCEPT ![c] = [Idle EXCEPT !.at = "planning", !.walk = TRUE]]
  /\ steady' = [steady EXCEPT ![c] = AllOffered]
  /\ UNCHANGED <<offer, health>>

\* Router.chain: every candidate on offer, those that are cooling last.
Plan(c) ==
  LET onOffer == [k \in 1..Cardinality(AllOffered) |->
                    Selected(SetToSortSeq(AllOffered, <)[k])]
      Ready(m) == ~Cooling(m)
  IN /\ caller[c].at = "planning"
     /\ Needed(c) \cap configured \subseteq listed
     /\ caller' = [caller EXCEPT ![c].at = "walking",
                     ![c].plan = SelectSeq(onOffer, Ready) \o SelectSeq(onOffer, Cooling)]
     /\ UNCHANGED <<offer, health, steady>>

\* Mutant of Walk: a model that was asked stays in the plan.
WalkRetries(c) ==
  /\ caller[c].at = "walking"
  /\ IF caller[c].plan = <<>>
     THEN caller' = [caller EXCEPT ![c].at = "unanswered"]
     ELSE caller' = IF Cooling(Head(caller[c].plan))
                    THEN [caller EXCEPT ![c].plan = Tail(@)]
                    ELSE [caller EXCEPT ![c].at = "calling", ![c].asked = TRUE,
                                        ![c].picked = Head(caller[c].plan)]
  /\ UNCHANGED <<offer, health, steady>>

\* describe_with_fallback: the next model of the plan, unless it cools now.
Walk(c) ==
  /\ caller[c].at = "walking"
  /\ IF caller[c].plan = <<>>
     THEN caller' = [caller EXCEPT ![c].at = "unanswered"]
     ELSE caller' =
            IF Cooling(Head(caller[c].plan))
            THEN [caller EXCEPT ![c].plan = Tail(@)]
            ELSE [caller EXCEPT ![c].plan = Tail(@), ![c].at = "calling",
                                ![c].picked = Head(caller[c].plan), ![c].asked = TRUE]
  /\ UNCHANGED <<offer, health, steady>>

(* --------------------------- what a call does --------------------------- *)

\* A failed call ends a resolve's caller; a walk goes on to the next model.
AfterFailure(c) ==
  caller' = [caller EXCEPT ![c] =
    IF @.walk THEN [@ EXCEPT !.at = "walking", !.picked = None, !.owes = None] ELSE Idle]

\* The window is written; the reason, of which record, is owed.
Owes(c, which) == caller' = [caller EXCEPT ![c].at = "noting", ![c].owes = which]

Vendors(c) == ProviderOf[caller[c].picked]

\* Somebody about to write the reason of a record that was just popped, by an
\* answer of model m, writes it into a record nobody reads.
Orphaned(t, m) ==
  \/ caller[t].owes = "model" /\ caller[t].picked = m
  \/ caller[t].owes = "provider" /\ Vendors(t) = ProviderOf[m]

Answers(c) ==
  /\ caller[c].at = "calling"
  /\ NoteSuccess(caller[c].picked)
  /\ caller' = [t \in Callers |->
       IF t = c THEN Idle
       ELSE IF Orphaned(t, caller[c].picked) THEN [caller[t] EXCEPT !.owes = None]
       ELSE caller[t]]
  /\ inARow' = [inARow EXCEPT ![Vendors(c)] = 0]
  /\ UNCHANGED <<offer, steady>>

\* note_failure reads the status of the raw error a LangChain class raises.
\* _call passes a ProviderError on unreported, and a walk reports one whose
\* status is gone: only its name may still say that the wire failed.
Reported(c) == Vendors(c) \notin OwnErrors
MayReport(c) == Reported(c) \/ caller[c].walk

RateLimited(c) ==
  /\ caller[c].at = "calling"
  /\ IF Reported(c)
     THEN /\ \E wait \in RetryAfters \cup {ModelWait[Struck(model[caller[c].picked])]} :
               NoteRateLimit(caller[c].picked, wait)
          /\ Owes(c, "model")
     ELSE AfterFailure(c) /\ UNCHANGED <<model, provider>>
  /\ inARow' = [inARow EXCEPT ![Vendors(c)] = 0]
  /\ UNCHANGED <<offer, steady>>

OutOfCredit(c) ==
  /\ caller[c].at = "calling"
  /\ IF Reported(c)
     THEN NoteExhausted(Vendors(c)) /\ Owes(c, "provider")
     ELSE AfterFailure(c) /\ UNCHANGED <<model, provider>>
  /\ inARow' = [inARow EXCEPT ![Vendors(c)] = 0]
  /\ UNCHANGED <<offer, steady>>

TransportFails(c) ==
  /\ caller[c].at = "calling"
  /\ \/ /\ MayReport(c)
        /\ NoteTransportFailure(Vendors(c))
        /\ IF Trips(Vendors(c)) THEN Owes(c, "provider") ELSE AfterFailure(c)
     \/ ~Reported(c) /\ AfterFailure(c) /\ UNCHANGED <<model, provider>>
  /\ inARow' = [inARow EXCEPT ![Vendors(c)] = LeastOf(@ + 1, BreakerThreshold)]
  /\ UNCHANGED <<offer, steady>>

\* The second statement of a report: the reason.
Explains(c) ==
  /\ caller[c].at = "noting"
  /\ model' = IF caller[c].owes = "model"
                THEN [model EXCEPT ![caller[c].picked].told = TRUE] ELSE model
  /\ provider' = IF caller[c].owes = "provider"
                   THEN [provider EXCEPT ![Vendors(c)].told = TRUE] ELSE provider
  /\ AfterFailure(c)
  /\ UNCHANGED <<offer, steady, inARow>>

\* Any other refusal: a bad request, a rejected key.
Refused(c) ==
  /\ caller[c].at = "calling"
  /\ AfterFailure(c)
  /\ inARow' = [inARow EXCEPT ![Vendors(c)] = 0]
  /\ UNCHANGED <<offer, model, provider, steady>>

\* The vendor says the model is gone: translate_unknown has it remembered.
Withdrawn(c) ==
  /\ Gone
  /\ caller[c].at = "calling"
  /\ Vendors(c) \notin OwnErrors
  /\ learned' = learned \cup {caller[c].picked}
  /\ AfterFailure(c)
  /\ inARow' = [inARow EXCEPT ![Vendors(c)] = 0]
  /\ LET left == [p \in Providers |-> IF p \in listed THEN Pool(p)
                                       ELSE Pool(p) \ {caller[c].picked}]
     IN steady' = [t \in Callers |-> steady[t] \cap OnOffer(configured, left)]
  /\ UNCHANGED <<configured, listed, catalogue, model, provider>>

\* A thread whose routing failed reports it to its run and may come back.
Reports(c) ==
  /\ caller[c].at \in {"noroute", "raised", "unanswered"}
  /\ caller' = [caller EXCEPT ![c] = Idle]
  /\ UNCHANGED <<offer, health, steady>>

(* ------------------------------------------------------------------------ *)

Init ==
  /\ configured \in {s \in SUBSET Providers : Required \in s}
  /\ listed = {}
  /\ catalogue = [p \in Providers |-> {}]
  /\ learned = {}
  /\ model = [m \in Models |-> Fresh]
  /\ provider = [p \in Providers |-> Fresh]
  /\ caller = [c \in Callers |-> Idle]
  /\ steady = [c \in Callers |-> {}]
  /\ inARow = [p \in Providers |-> 0]

Routes(c) == Fetch(c) \/ Ask(c) \/ PassEnds(c) \/ Plan(c) \/ Walk(c)

Ends(c) == Answers(c) \/ RateLimited(c) \/ OutOfCredit(c) \/ TransportFails(c)
             \/ Explains(c) \/ Refused(c) \/ Withdrawn(c)

Next ==
  \/ Tick
  \/ Reload
  \/ \E c \in Callers : Begin(c) \/ BeginWalk(c) \/ Routes(c) \/ Ends(c) \/ Reports(c)

Spec == Init /\ [][Next]_vars

\* A thread runs on between its waits, a vendor's answer or error comes back
\* (the code leaves that to the vendors' clients), and time passes.
FairSpec ==
  /\ Spec
  /\ WF_vars(Tick)
  /\ \A c \in Callers : WF_vars(Routes(c)) /\ WF_vars(Ends(c)) /\ WF_vars(Reports(c))

(* ------------------------------ properties ------------------------------ *)

CallerType ==
  [at : {"idle", "routing", "planning", "walking", "calling", "noting",
         "noroute", "raised", "unanswered"},
   honour : BOOLEAN, order : Orders \cup {<<>>}, pos : Nat \ {0},
   cooled : BOOLEAN, half : BOOLEAN,
   picked : Models \cup {None}, owes : {"model", "provider", None},
   walk : BOOLEAN, plan : Seq(Models), asked : BOOLEAN]

\* Every record is within the bounds the doubling stops at.
TypeOK ==
  /\ configured \in SUBSET Providers
  /\ listed \in SUBSET Providers
  /\ catalogue \in [Providers -> SUBSET Models]
  /\ learned \in SUBSET Models
  /\ model \in [Models -> Records]
  /\ provider \in [Providers -> Records]
  /\ caller \in [Callers -> CallerType]
  /\ steady \in [Callers -> SUBSET Places]
  /\ inARow \in [Providers -> 0..BreakerThreshold]

\* A resolve that finds no route had no candidate that was on offer all the
\* time it looked, whatever other threads reported to the health records in
\* between, or it looked into the first report on a record between the two
\* statements that write it: a window with no reason yet, which does not read
\* like a cooldown (health.py, NEVER INTO NOTHING; Router.resolve's passes).
NeverIntoNothing ==
  \A c \in Callers : caller[c].at = "noroute" => steady[c] = {} \/ caller[c].half

\* "A breaker that leaves a task with no route has turned a slow provider
\* into a broken agent" (health.py, NEVER INTO NOTHING).
NeverIntoNothingAtAll ==
  \A c \in Callers : caller[c].at = "noroute" => steady[c] = {}

\* The strikes that double a vendor's or a model's window are only forgotten
\* when a call to it is answered, not when its window runs out (health.py,
\* HALF-OPEN, THEN LONGER).
OnlyAnAnswerForgives ==
  [][\A m \in Models :
       \/ model'[m].strikes < model[m].strikes
       \/ provider'[ProviderOf[m]].strikes < provider[ProviderOf[m]].strikes
       => \E c \in Callers : /\ caller[c].at = "calling" /\ caller'[c].at = "idle"
                             /\ ProviderOf[caller[c].picked] = ProviderOf[m]]_vars

\* Somebody who edits the keys for ever, and clears every list as it is
\* fetched, keeps any thread from its route.
KeysSettle == <>[][~Reload]_vars

\* A thread that wants a model comes to its end, whatever the calls it makes
\* on the way run into: an answer, a failed call or no route.
RoutingEnds == KeysSettle => \A c \in Callers : []<>(caller[c].at = "idle")

Fails(c) == RateLimited(c) \/ OutOfCredit(c) \/ TransportFails(c)

\* Once calls stop failing, routing comes back to the order of the chain:
\* from some time on no candidate is passed over for being unwell.
RecoveryRestores ==
  KeysSettle /\ <>[][\A c \in Callers : ~Fails(c)]_vars =>
    <>[](\A c \in Callers : ~caller[c].cooled /\ ~caller[c].half)

\* A model a vendor has withdrawn is not routed to again (retired.py:
\* note_retired takes effect immediately for this process).
RetiredIsNotAskedAgain ==
  [][\A c \in Callers : caller[c].at = "routing" /\ caller'[c].at = "calling"
                          => caller'[c].picked \notin learned]_vars

\* BreakerThreshold transport failures in a row trip a vendor's breaker
\* (health.py, note_transport_failure).
AnOutageIsNoticed ==
  \A p \in Providers : inARow[p] = BreakerThreshold => provider[p].strikes > 0

\* A breaker trips on consecutive failures only: the third in a row.
TripsOnARow ==
  [][\A p \in Providers :
       provider[p].failures < BreakerThreshold /\ provider'[p].failures = BreakerThreshold
       => inARow'[p] = BreakerThreshold]_vars

\* A vendor whose account is out of credit is passed over for
\* ExhaustedCooldown, or until it answers: no other report cuts it short.
ExhaustionHolds ==
  [][\A p \in Providers :
       provider'[p].left + 1 < provider[p].left => provider'[p] = Fresh]_vars

\* When every candidate cools, resolve takes the one that cools least.
FallsBackToTheLeastCooled ==
  [][\A c \in Callers :
       /\ caller[c].at = "routing" /\ ~caller[c].honour
       /\ caller'[c].at = "calling"
       => \A i \in steady[c] :
            CoolingLeft(caller'[c].picked) <= CoolingLeft(Selected(i))]_vars

\* An image is put to some model when one is on offer, cooling or not.
AnImageIsAsked ==
  \A c \in Callers : caller[c].at = "unanswered" => caller[c].asked \/ steady[c] = {}

\* A vendor that cannot be reached for its list does not take the route
\* from a candidate whose vendor has given its own.
ADeadVendorIsSkipped ==
  \A c \in Callers : caller[c].at = "raised" =>
     \A i \in steady[c] : Vendor(i) \notin listed

=============================================================================
