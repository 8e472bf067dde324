----------------------------- MODULE Temperature -----------------------------
(* What temperature a model is sent, and what is remembered of a model that
   refuses it: agent/router/llm_provider/temperature.py, the request loop of
   nodes._call with _without_temperature, Router.model_for, and
   translate_unknown, which must not take the refusal for a retirement.

   The table of refusals is kept by every process whole and in memory, is read
   from ~/.otto/temperature.json on first use, and is written whole, through
   one .tmp name, whenever a refusal is learned.  Threads of one process share
   the table; other processes do not see it until they start again.

   Abstracted: a temperature is a number of tenths; a model is what the tables
   and its catalogue entry say of it (Facts) and what its vendor does (Truth).
   What a refusal said, and when, is left out.                              *)
EXTENDS Naturals, FiniteSets

CONSTANTS Processes, CallThreads,
          CalledModels, \* the models that are called
          Catalogue,  \* of each process: those its routes lead to
          Facts,      \* of these and others: what the tables and the catalogue know
          Truth,      \* of each: what its vendor does with a temperature
          MayGo,      \* models a vendor may withdraw
          MayStop,    \* processes that may stop
          Wanted,     \* the temperatures routes ask for
          Files,      \* inodes
          Attempts    \* MAX_DIFFUSION_RETRIES

Tenths == 0..20

\* There is an inode for the file, for its .tmp and for one that each thread
\* still has open.
ASSUME TempAssumption ==
  /\ Catalogue \in [Processes -> SUBSET CalledModels]
  /\ MayStop \subseteq Processes /\ MayGo \subseteq CalledModels
  /\ Wanted \subseteq Tenths /\ Attempts \in Nat \ {0}
  /\ \A m \in CalledModels :
       Facts[m].low \in Tenths /\ Facts[m].high \in Tenths /\ Facts[m].ceiling \in Tenths
  /\ IsFiniteSet(CallThreads) /\ IsFiniteSet(Files) /\ 0 \notin Files
  /\ Cardinality(Files) >= Cardinality(CallThreads) + 2

VARIABLES
  home,       \* the process of each thread
  loaded,     \* processes whose table is in _learned_by_store
  refusing,   \* of each process: the models it takes for refusing
  retired,    \* of each process: the models note_retired has hidden
  gone,       \* models their vendors have withdrawn
  store, tmp, \* the inodes of temperature.json and its .tmp, or 0
  content,    \* what is in each inode
  call,       \* where each thread is
  noted,      \* (history) of each process: refusals whose note has returned
  raced,      \* (history) processes whose first load two threads made
  crowded     \* (history) two saves were in progress at once

disk == <<store, tmp, content>>
history == <<noted, raced, crowded>>
tempVars == <<home, loaded, refusing, retired, gone, disk, call, history>>

Nothing == 99   \* no temperature is sent

Blank == [state |-> "empty", models |-> {}]

(* -------------------------------- policies -------------------------------- *)

\* A TemperaturePolicy; `known` is FALSE of the None that policy_for returns
\* of a provider nobody has measured.
Policy(low, high) == [known |-> TRUE, fixed |-> FALSE, low |-> low, high |-> high]
Fixed == [known |-> TRUE, fixed |-> TRUE, low |-> 0, high |-> 0]
Unmeasured == [known |-> FALSE, fixed |-> FALSE, low |-> 0, high |-> 0]

\* published_maximum: only a ceiling above zero counts.
Ceiling(m) == Facts[m].ceiling

\* published_fixed, the vendor's flag, and only without one the name.
TakesNone(m) == Facts[m].flag = "fixed" \/ (Facts[m].flag = "none" /\ Facts[m].named)

\* _BY_PROVIDER
Default(m) == IF Facts[m].measured THEN Policy(Facts[m].low, Facts[m].high) ELSE Unmeasured

\* policy_for, given what this process has learned.
PolicyFor(m, known) ==
  IF m \in known \/ TakesNone(m) THEN Fixed
  ELSE IF Ceiling(m) > 0
       THEN Policy(IF Facts[m].measured THEN Facts[m].low ELSE 0, Ceiling(m))
       ELSE Default(m)

\* Mutant of Clamped: the value goes as it was asked for.
Unclamped(p, t) == t

\* TemperaturePolicy.apply: the nearest honoured value.
Clamped(p, t) == LET up == IF t < p.low THEN p.low ELSE t
                 IN IF up > p.high THEN p.high ELSE up

\* apply_to_params
Sends(m, known, t) ==
  LET p == PolicyFor(m, known)
  IN IF ~p.known THEN t ELSE IF p.fixed THEN Nothing ELSE Clamped(p, t)

(* -------------------------------- the vendor ------------------------------ *)

\* The vendor answers 400 to this value, or quietly puts its own in its place.
Refuses(m, t) ==
  /\ t # Nothing
  /\ Truth[m].does = "fixed" \/ (Truth[m].does = "rejects" /\ t \notin Truth[m].range)
Resets(m, t) == t # Nothing /\ Truth[m].does = "resets" /\ t \notin Truth[m].range

\* An exception of a request: the status, and whether its text speaks of a
\* temperature and reads like a retirement; bare: a ValueError that a client
\* library raises before anything is sent.
Error(status, temperature, deprecated) ==
  [status |-> status, temperature |-> temperature, deprecated |-> deprecated, bare |-> FALSE]
NoError == Error(0, FALSE, FALSE)
BareError == [NoError EXCEPT !.temperature = TRUE, !.bare = TRUE]

\* Anthropic says "`temperature` is deprecated for this model", its client
\* for a model it knows takes none raises a ValueError; a rate limit may quote
\* the request, a withdrawn model is a 404.
Errors(m, t) ==
  IF Refuses(m, t) THEN {IF Truth[m].client THEN BareError ELSE Error(400, TRUE, TRUE)}
  ELSE {Error(429, TRUE, FALSE)}
       \cup IF m \in gone THEN {Error(404, FALSE, TRUE)} ELSE {}

\* looks_like_temperature_rejection
LooksLikeRejection(e) == e.temperature /\ e.status \in {0, 400, 422}

\* looks_retired: the words of a retirement.
LooksRetired(e) == e.deprecated

\* translate_unknown: the refusal is asked for first.
Translated(e) ==
  IF LooksLikeRejection(e) THEN "ProviderError"
  ELSE IF LooksRetired(e) \/ e.status = 404 THEN "ModelNotFound"
  ELSE IF e.status \in {401, 403} THEN "AuthError"
  ELSE IF e.status = 429 \/ e.status >= 500 THEN "ProviderUnavailable"
  ELSE "ProviderError"

(* ---------------------------------- a call -------------------------------- *)

Resting == [at |-> "idle", model |-> "none", want |-> 0, sends |-> Nothing, attempt |-> 0,
            late |-> FALSE, error |-> NoError, read |-> {}, fd |-> 0]

Of(c) == home[c]
At(c, place) == call[c].at = place
Saving == {c \in CallThreads : call[c].at \in {"write", "replace"}}

\* model_for of a route asks policy_for, which asks _learned for the table.
Build(c) ==
  /\ At(c, "idle")
  /\ \E m \in Catalogue[Of(c)] \ retired[Of(c)], t \in Wanted :
       call' = [call EXCEPT ![c] = [Resting EXCEPT
         !.at = IF Of(c) \in loaded THEN "apply" ELSE "load", !.model = m, !.want = t,
         !.late = m \in noted[Of(c)]]]
  /\ UNCHANGED <<home, loaded, refusing, retired, gone, disk, history>>

\* _load: a file that is absent, torn or of another shape holds nothing.
LoadFile(c) ==
  /\ At(c, "load")
  /\ call' = [call EXCEPT ![c] = [@ EXCEPT !.at = "keep",
       !.read = IF store = 0 \/ content[store].state # "whole" THEN {}
                ELSE content[store].models]]
  /\ UNCHANGED <<home, loaded, refusing, retired, gone, disk, history>>

\* _learned_by_store[path] = ...: over what another thread loaded meanwhile.
KeepTable(c) ==
  /\ At(c, "keep")
  /\ raced' = IF Of(c) \in loaded THEN raced \cup {Of(c)} ELSE raced
  /\ loaded' = loaded \cup {Of(c)}
  /\ refusing' = [refusing EXCEPT ![Of(c)] = call[c].read]
  /\ call' = [call EXCEPT ![c] = [@ EXCEPT !.at = "apply", !.read = {}]]
  /\ UNCHANGED <<home, retired, gone, disk, noted, crowded>>

Apply(c) ==
  /\ At(c, "apply")
  /\ call' = [call EXCEPT ![c] = [@ EXCEPT !.at = "send", !.attempt = 1, !.want = 0,
       !.sends = Sends(call[c].model, refusing[Of(c)], call[c].want)]]
  /\ UNCHANGED <<home, loaded, refusing, retired, gone, disk, history>>

\* A request that is answered ends the call.
Answered(c) ==
  /\ At(c, "send")
  /\ ~Refuses(call[c].model, call[c].sends)
  /\ call' = [call EXCEPT ![c] = Resting]
  /\ UNCHANGED <<home, loaded, refusing, retired, gone, disk, history>>

\* An empty stream, or a diffusion that ran into its max_tokens: the same
\* request again, while there are attempts.
AnsweredNothing(c) ==
  /\ At(c, "send")
  /\ ~Refuses(call[c].model, call[c].sends)
  /\ \/ call[c].attempt < Attempts /\ call' = [call EXCEPT ![c].attempt = @ + 1]
     \/ call[c].attempt >= Attempts /\ call' = [call EXCEPT ![c] = Resting]
  /\ UNCHANGED <<home, loaded, refusing, retired, gone, disk, history>>

\* A request that fails.  The clause for ValueErrors comes first, and raises
\* all but the one of an empty stream; the others ask _without_temperature,
\* which looks at what was sent and at the error.
RequestFails(c) ==
  /\ At(c, "send")
  /\ \E e \in Errors(call[c].model, call[c].sends) :
       call' = [call EXCEPT ![c] = [@ EXCEPT !.error = e, !.late = FALSE,
         !.at = IF e.bare THEN "unwind"
                ELSE IF call[c].sends # Nothing /\ LooksLikeRejection(e) THEN "note"
                ELSE "raise"]]
  /\ UNCHANGED <<home, loaded, refusing, retired, gone, disk, history>>

\* The note is made: the request goes again without a temperature if there
\* are attempts left, else the error goes on.
Noted(r) ==
  IF r.attempt < Attempts
  THEN [r EXCEPT !.at = "send", !.sends = Nothing, !.attempt = @ + 1, !.error = NoError, !.fd = 0]
  ELSE [r EXCEPT !.at = "raise", !.fd = 0]

\* note_rejects_temperature: what is known already is not written again.
Note(c) ==
  /\ At(c, "note")
  /\ refusing' = [refusing EXCEPT ![Of(c)] = @ \cup {call[c].model}]
  /\ IF call[c].model \in refusing[Of(c)]
     THEN /\ call' = [call EXCEPT ![c] = Noted(@)]
          /\ noted' = [noted EXCEPT ![Of(c)] = @ \cup {call[c].model}]
     ELSE call' = [call EXCEPT ![c].at = "open"] /\ UNCHANGED noted
  /\ UNCHANGED <<home, loaded, retired, gone, disk, raced, crowded>>

\* _save: write_text opens the one .tmp there is, and truncates it,
OpenTmp(c) ==
  /\ At(c, "open")
  /\ LET i == IF tmp # 0 THEN tmp
              ELSE CHOOSE f \in Files : f # store /\ \A d \in CallThreads : call[d].fd # f
     IN /\ tmp' = i
        /\ content' = [content EXCEPT ![i] = Blank]
        /\ call' = [call EXCEPT ![c] = [@ EXCEPT !.at = "write", !.fd = i]]
  /\ crowded' = (crowded \/ Saving # {})
  /\ UNCHANGED <<home, loaded, refusing, retired, gone, store, noted, raced>>

\* writes the whole table of the process, which may leave the tail of a
\* longer text another writer put there first,
WriteTmp(c) ==
  /\ At(c, "write")
  /\ \E state \in IF content[call[c].fd].state = "empty" THEN {"whole"} ELSE {"whole", "torn"} :
       content' = [content EXCEPT ![call[c].fd] =
         [state |-> state, models |-> IF state = "whole" THEN refusing[Of(c)] ELSE {}]]
  /\ call' = [call EXCEPT ![c] = [@ EXCEPT !.at = "replace", !.fd = 0]]
  /\ UNCHANGED <<home, loaded, refusing, retired, gone, store, tmp, history>>

\* and renames it; an OSError is logged and no more.
Replace(c) ==
  /\ At(c, "replace")
  /\ IF tmp = 0 THEN UNCHANGED disk
     ELSE /\ store' = tmp /\ tmp' = 0
          /\ content' = [f \in Files |-> IF f = store THEN Blank ELSE content[f]]
  /\ noted' = [noted EXCEPT ![Of(c)] = @ \cup {call[c].model}]
  /\ call' = [call EXCEPT ![c] = Noted(@)]
  /\ UNCHANGED <<home, loaded, refusing, retired, gone, raced, crowded>>

\* The disk is full: nothing is written, and it is learned for this process.
SaveFails(c) ==
  /\ At(c, "open")
  /\ noted' = [noted EXCEPT ![Of(c)] = @ \cup {call[c].model}]
  /\ call' = [call EXCEPT ![c] = Noted(@)]
  /\ UNCHANGED <<home, loaded, refusing, retired, gone, disk, raced, crowded>>

\* The error leaves _call, translated; a retirement is remembered on the way.
Raise(c) ==
  /\ At(c, "raise")
  /\ retired' = [retired EXCEPT ![Of(c)] =
       IF ~LooksLikeRejection(call[c].error) /\ LooksRetired(call[c].error)
       THEN @ \cup {call[c].model} ELSE @]
  /\ call' = [call EXCEPT ![c] = Resting]
  /\ UNCHANGED <<home, loaded, refusing, gone, disk, history>>

\* A ValueError goes through every caller that waits for a ProviderError.
Unwind(c) ==
  /\ At(c, "unwind")
  /\ call' = [call EXCEPT ![c] = Resting]
  /\ UNCHANGED <<home, loaded, refusing, retired, gone, disk, history>>

\* A vendor withdraws a model.
Withdraw ==
  /\ \E m \in MayGo \ gone : gone' = gone \cup {m}
  /\ UNCHANGED <<home, loaded, refusing, retired, disk, call, history>>

\* A process stops anywhere, and starts with nothing in memory.
StopProcess(p) ==
  /\ loaded' = loaded \ {p}
  /\ refusing' = [refusing EXCEPT ![p] = {}]
  /\ retired' = [retired EXCEPT ![p] = {}]
  /\ noted' = [noted EXCEPT ![p] = {}]
  /\ raced' = raced \ {p}
  /\ call' = [c \in CallThreads |-> IF Of(c) = p THEN Resting ELSE call[c]]
  /\ UNCHANGED <<home, gone, disk, crowded>>

(* -------------------------------------------------------------------------- *)

TempInit ==
  /\ home \in [CallThreads -> Processes]
  /\ loaded = {} /\ gone = {}
  /\ refusing = [p \in Processes |-> {}]
  /\ retired = [p \in Processes |-> {}]
  /\ store = 0 /\ tmp = 0
  /\ content = [f \in Files |-> Blank]
  /\ call = [c \in CallThreads |-> Resting]
  /\ noted = [p \in Processes |-> {}]
  /\ raced = {} /\ crowded = FALSE

TempNext ==
  \/ \E c \in CallThreads :
       \/ Build(c) \/ LoadFile(c) \/ KeepTable(c) \/ Apply(c)
       \/ Answered(c) \/ AnsweredNothing(c) \/ RequestFails(c)
       \/ Note(c) \/ OpenTmp(c) \/ WriteTmp(c) \/ Replace(c) \/ SaveFails(c)
       \/ Raise(c) \/ Unwind(c)
  \/ Withdraw
  \/ \E p \in MayStop : StopProcess(p)

TempSpec == TempInit /\ [][TempNext]_tempVars

(* -------------------------------- properties ------------------------------ *)

\* Types of what the threads and the disk hold.
TempTypeOK ==
  /\ loaded \subseteq Processes /\ gone \subseteq CalledModels
  /\ \A p \in Processes : refusing[p] \cup retired[p] \cup noted[p] \subseteq CalledModels
  /\ store \in Files \cup {0} /\ tmp \in Files \cup {0} /\ (store # 0 => store # tmp)
  /\ \A c \in CallThreads : call[c].attempt \in 0..Attempts

\* temperature.py, policy_for: of the models whose vendors tell, or whose kind
\* the tables know, none is ever refused or reset for what it is sent; the
\* others are refused at most until the first refusal is learned, and the value
\* sent is the honoured one nearest to what the route wanted.
Measured(m) == Facts[m].told
Nearest(m, t, want) ==
  t # Nothing => \A u \in Truth[m].range : (t < want => u <= t \/ u > want)
                                            /\ (t > want => u >= t \/ u < want)
SentIsHonoured == \A m \in DOMAIN Facts, want \in Tenths :
  LET t == Sends(m, {}, want)
  IN Measured(m) => /\ ~Refuses(m, t) /\ ~Resets(m, t) /\ Nearest(m, t, want)
                    /\ t = Nothing => Truth[m].does = "fixed"

\* note_rejects_temperature: in one process a refused temperature is not sent
\* to that model again by a call that begins after the note, but when two
\* threads made the first load, of which the later put back what it had read.
RefusedOnce == \A c \in CallThreads :
  At(c, "send") /\ call[c].late /\ Of(c) \notin raced => call[c].sends = Nothing

\* _without_temperature, _load, _save: what any process takes for refusing, and
\* what the file says so, does refuse something, whoever wrote it and whatever
\* of it was torn.
LearnedIsTrue ==
  \A m \in UNION ({refusing[p] : p \in Processes} \cup {content[f].models : f \in Files}) :
     \E t \in Tenths : Refuses(m, t)

\* translate_unknown: a model that is only particular about its temperature is
\* not hidden as withdrawn, "deprecated" as its answer may call it.
AliveStaysListed == \A p \in Processes : retired[p] \subseteq gone

\* _call: a refused temperature fails a call only when it was the last attempt.
RefusalIsRetried == \A c \in CallThreads :
  At(c, "raise") /\ LooksLikeRejection(call[c].error) => call[c].attempt = Attempts

\* temperature.py:307, of looks_like_temperature_rejection: "langchain_anthropic
\* raises a bare ValueError for a model it knows takes none", and nodes.py:957:
\* "this call is retried at the model's default rather than failed".  False of
\* the code: _call never asks it of a ValueError.
EveryRefusalIsRetried == \A c \in CallThreads :
  At(c, "unwind") => ~LooksLikeRejection(call[c].error)

\* _save: a process that stops leaves the old file or the new one; only two
\* saves at once tear it.
StoreIsWhole == store # 0 /\ ~crowded => content[store].state = "whole"

\* All of these; the first is of functions, and is looked at once.
TempInv == /\ (loaded = {} /\ gone = {} => SentIsHonoured)
           /\ TempTypeOK /\ RefusedOnce /\ LearnedIsTrue
           /\ AliveStaysListed /\ RefusalIsRetried /\ StoreIsWhole

\* temperature.py:36: "every later call in this run and every future run leaves
\* the parameter out": what the store has it keeps.  False of the code: the
\* save of another process writes the table that process has.
SavedIsKept ==
  [][ store # 0 /\ store' # store /\ content[store].state = "whole"
        => content[store].models \subseteq content'[store'].models ]_tempVars
=============================================================================
