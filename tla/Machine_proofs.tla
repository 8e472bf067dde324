--------------------------- MODULE Machine_proofs ---------------------------
(***************************************************************************)
(* Proofs about PythonSession, for every number of calls, of calls a       *)
(* process serves and of forged frames; and about Routes, for every number *)
(* of processes, of threads that edit and resolve, and of tasks; and about *)
(* Walkthrough, for every set of scripts.                                  *)
(***************************************************************************)
EXTENDS PythonSession, Routes, Walkthrough, FiniteSetTheorems, SequenceTheorems, TLAPS

CallWaits == parent.at \in {"await", "grace", "kill"}

\* What is in the pipes is of the call that waits, and there is one thing at
\* most: the request, the snippet that runs, or its report.
Pipes ==
  /\ request # 0 => request = parent.call /\ CallWaits
  /\ child.at = "running" =>
       child.call = parent.call /\ request = 0 /\ parent.at \in {"await", "grace"}
  /\ \A k \in DOMAIN frames : frames[k].call # 0 =>
       /\ frames[k].call = parent.call /\ CallWaits
       /\ request = 0 /\ child.at = "reading"
       /\ frames[k].ok => parent.call \in child.ns
  /\ \A j, k \in DOMAIN frames : frames[j].call # 0 /\ frames[k].call # 0 => j = k
  /\ parent.call \in 0..runs
  /\ parent.at \notin {"idle", "closed"} => parent.call # 0
  /\ parent.at = "kill" => ~Alive

\* What the caller believes to be in the interpreter is there, or this call
\* knows of the loss and will tell.
CallsKnown ==
  /\ believes # {} =>
       \/ session.hasState
       \/ parent.at = "returned" /\ parent.result.reset /\ parent.result.kind = "result"
  /\ parent.at \in {"idle", "check"} /\ child.at # "none" => believes \subseteq child.ns
  /\ parent.at \in {"spawn", "boot"} => parent.lost \/ believes = {}
  /\ parent.at = "send" \/ CallWaits => parent.lost \/ believes \subseteq child.ns
  /\ CallWaits /\ request = 0 => parent.lost \/ believes \subseteq child.saw

\* What a result says of the interpreter it comes from.
Outcome ==
  /\ parent.result.of \in {0, parent.call}
  /\ parent.at \notin {"note", "returned"} => parent.result.of = 0
  /\ parent.at = "note" =>
       /\ parent.result.kind = "result"
       /\ parent.result.reset => ~parent.result.ok
       /\ ~parent.result.reset =>
            /\ child.at = "reading" /\ request = 0
            /\ parent.lost \/ (believes \subseteq child.ns /\ believes \subseteq child.saw)
            /\ parent.result.ok => parent.call \in child.ns
  /\ parent.at = "returned" =>
       IF parent.result.kind = "result"
       THEN /\ ~parent.result.reset => /\ believes \subseteq child.saw \cap child.ns
                                       /\ session.hasState
            /\ parent.result.ok => parent.call \in child.ns /\ session.hasState
       ELSE child = NoChild
  /\ parent.at = "closed" => child = NoChild /\ ~session.private

SessionInd == TypeOK /\ NothingIsLeft /\ Pipes /\ CallsKnown /\ Outcome

-----------------------------------------------------------------------------
LEMMA Ahead ==
  ASSUME NEW s \in Seq(Frames), s # <<>>
  PROVE  /\ Head(s) \in Frames /\ Tail(s) \in Seq(Frames)
         /\ 1 \in DOMAIN s /\ Head(s) = s[1]
         /\ \A k \in DOMAIN Tail(s) : k + 1 \in DOMAIN s /\ Tail(s)[k] = s[k + 1] /\ k \in Nat
OBVIOUS

LEMMA Behind ==
  ASSUME NEW s \in Seq(Frames), NEW f \in Frames
  PROVE  /\ Append(s, f) \in Seq(Frames)
         /\ \A k \in DOMAIN Append(s, f) :
              \/ k \in DOMAIN s /\ Append(s, f)[k] = s[k]
              \/ k = Len(s) + 1 /\ Append(s, f)[k] = f
OBVIOUS

\* What the records are.
LEMMA ResultType ==
  ASSUME NEW c \in Calls \cup {0}, NEW ok \in BOOLEAN, NEW t \in BOOLEAN, NEW r \in BOOLEAN
  PROVE  Result(c, ok, t, r) \in Results
BY DEF Result, Results

LEMMA NobodyIsTyped ==
  /\ NoChild \in Children /\ NoResult \in Results
  /\ \A k \in {"unavailable", "oserror"} : Raised(k) \in Results
BY DEF NoChild, NoResult, Raised, Children, Results

Ats == {"idle", "check", "spawn", "boot", "send", "await", "grace", "kill", "note", "returned", "closed"}

LEMMA MovesAt ==
  ASSUME TypeOK, NEW a \in Ats, parent' = [parent EXCEPT !.at = a]
  PROVE  /\ parent' \in Parents /\ parent'.at = a /\ parent'.result = parent.result
         /\ parent'.call = parent.call /\ parent'.lost = parent.lost
BY DEF TypeOK, Parents, Ats

LEMMA Moves ==
  ASSUME TypeOK, NEW a \in Ats, NEW r \in Results,
         parent' = [parent EXCEPT !.at = a, !.result = r]
  PROVE  /\ parent' \in Parents /\ parent'.at = a /\ parent'.result = r
         /\ parent'.call = parent.call /\ parent'.lost = parent.lost
BY DEF TypeOK, Parents, Ats

LEMMA Restarts ==
  ASSUME TypeOK, NEW l \in BOOLEAN
  PROVE  /\ [parent EXCEPT !.at = "spawn", !.lost = l] \in Parents
         /\ [parent EXCEPT !.at = "spawn", !.lost = l, !.again = TRUE] \in Parents
         /\ [parent EXCEPT !.at = "spawn", !.lost = l].lost = l
         /\ [parent EXCEPT !.at = "spawn", !.lost = l].at = "spawn"
         /\ [parent EXCEPT !.at = "spawn", !.lost = l].result = parent.result
         /\ [parent EXCEPT !.at = "spawn", !.lost = l].call = parent.call
BY DEF TypeOK, Parents

LEMMA Discards ==
  ASSUME TypeOK, NothingIsLeft, Discard, session' = [session EXCEPT !.private = FALSE]
  PROVE  /\ session' \in [hasState : BOOLEAN, calls : Nat, private : BOOLEAN]
         /\ ~session'.private /\ session'.hasState = session.hasState /\ dirs' = 0
         /\ child' = NoChild /\ child' \in Children /\ child'.at = "none" /\ child'.ns = {}
         /\ request' = 0 /\ frames' = <<>> /\ frames' \in Seq(Frames)
<1>1. session' \in [hasState : BOOLEAN, calls : Nat, private : BOOLEAN]
      /\ ~session'.private /\ session'.hasState = session.hasState
  BY DEF TypeOK
<1>2. child' = NoChild /\ child' \in Children /\ child'.at = "none" /\ child'.ns = {}
  BY NobodyIsTyped DEF Discard, NoChild
<1>3. request' = 0 /\ frames' = <<>> /\ frames' \in Seq(Frames) /\ dirs' = 0
  BY DEF Discard, TypeOK, NothingIsLeft
<1> QED BY <1>1, <1>2, <1>3

LEMMA KillStep == ASSUME SessionInd, Kill PROVE SessionInd'
<1> USE DEF SessionInd, Kill
<1>1. TypeOK'
  <2>1. parent' \in Parents BY Moves, ResultType DEF Ats
  <2> QED BY <2>1, Discards DEF TypeOK
<1>2. NothingIsLeft' BY Discards DEF TypeOK, NothingIsLeft, Alive, Parents
<1>3. Pipes' BY Discards DEF TypeOK, Pipes, CallWaits, Parents
<1>4. CallsKnown' BY Discards DEF TypeOK, CallsKnown, CallWaits, Outcome, Parents
<1>5. Outcome' BY Discards DEF TypeOK, Outcome, Result, Results, Parents
<1> QED BY <1>1, <1>2, <1>3, <1>4, <1>5

LEMMA DiedStep == ASSUME SessionInd, Died PROVE SessionInd'
<1> USE DEF SessionInd, Died
<1>1. TypeOK'
  <2>1. parent' \in Parents BY Moves, ResultType DEF Ats
  <2> QED BY <2>1, Discards DEF TypeOK
<1>2. NothingIsLeft' BY Discards DEF TypeOK, NothingIsLeft, Alive, Parents
<1>3. Pipes' BY Discards DEF TypeOK, Pipes, CallWaits, Parents
<1>4. CallsKnown' BY Discards DEF TypeOK, CallsKnown, CallWaits, Outcome, Parents
<1>5. Outcome' BY Discards DEF TypeOK, Outcome, Result, Results, Parents
<1> QED BY <1>1, <1>2, <1>3, <1>4, <1>5

LEMMA BootFailsStep == ASSUME SessionInd, BootFails PROVE SessionInd'
<1> USE DEF SessionInd, BootFails
<1>1. TypeOK'
  <2>1. parent' \in Parents BY Moves, NobodyIsTyped DEF Ats
  <2> QED BY <2>1, Discards DEF TypeOK
<1>2. NothingIsLeft' BY Discards DEF TypeOK, NothingIsLeft, Alive, Parents
<1>3. Pipes' BY Discards DEF TypeOK, Pipes, CallWaits, Parents
<1>4. CallsKnown' BY Discards DEF TypeOK, CallsKnown, CallWaits, Outcome, Parents, Raised, NoResult
<1>5. Outcome' BY Discards DEF TypeOK, Outcome, Raised, NoResult, Results, Parents
<1> QED BY <1>1, <1>2, <1>3, <1>4, <1>5

LEMMA CloseStep == ASSUME SessionInd, Close PROVE SessionInd'
<1> USE DEF SessionInd, Close
<1>1. TypeOK'
  <2>1. parent' \in Parents BY MovesAt DEF Ats
  <2> QED BY <2>1, Discards DEF TypeOK
<1>2. NothingIsLeft' BY Discards DEF TypeOK, NothingIsLeft, Alive, Parents
<1>3. Pipes' BY Discards DEF TypeOK, Pipes, CallWaits, Parents
<1>4. CallsKnown' BY Discards DEF TypeOK, CallsKnown, CallWaits, Outcome, Parents
<1>5. Outcome' BY Discards DEF TypeOK, Outcome, Result, Results, Parents
<1> QED BY <1>1, <1>2, <1>3, <1>4, <1>5

LEMMA BootedStep == ASSUME SessionInd, Booted PROVE SessionInd'
<1> USE DEF SessionInd, Booted
<1>0. frames \in Seq(Frames) /\ frames # <<>> /\ frames' = Tail(frames)
  BY DEF TypeOK
<1>1. TypeOK'
  <2>1. parent' \in Parents BY MovesAt DEF Ats
  <2> QED BY <2>1, <1>0, Ahead DEF TypeOK
<1>2. NothingIsLeft' BY DEF TypeOK, NothingIsLeft, Alive, Parents
<1>3. Pipes'
  <2>1. \A k \in DOMAIN frames : frames[k].call = 0
    BY DEF Pipes, CallWaits
  <2>2. \A k \in DOMAIN frames' : frames'[k].call = 0
    BY <2>1, <1>0, Ahead
  <2> QED BY <2>2 DEF TypeOK, Pipes, CallWaits, Parents
<1>4. CallsKnown' BY DEF TypeOK, CallsKnown, CallWaits, Outcome, Parents
<1>5. Outcome' BY DEF TypeOK, Outcome, Parents
<1> QED BY <1>1, <1>2, <1>3, <1>4, <1>5

\* Between two calls nothing is in the pipes.
LEMMA NothingDue ==
  ASSUME TypeOK, Pipes, ~CallWaits
  PROVE  /\ \A k \in DOMAIN frames : frames[k].call = 0
         /\ request = 0 /\ child.at # "running"
BY DEF Pipes, CallWaits

LEMMA CheckStep == ASSUME SessionInd, Check PROVE SessionInd'
<1> USE DEF SessionInd, Check
<1> DEFINE l == parent.lost \/ session.hasState
<1>0. /\ parent' \in Parents /\ l \in BOOLEAN
      /\ parent'.call = parent.call /\ parent'.result = parent.result
      /\ Alive => parent'.at = "send" /\ parent'.lost = parent.lost
      /\ ~Alive => parent'.at = "spawn" /\ parent'.lost = l
  <2>1. CASE Alive
    BY <2>1, MovesAt DEF Ats
  <2>2. CASE ~Alive
    <3>1. parent' = [parent EXCEPT !.at = "spawn", !.lost = l] /\ l \in BOOLEAN
      BY <2>2 DEF TypeOK, Parents
    <3> HIDE DEF l
    <3> QED BY <2>2, <3>1, Restarts
  <2> QED BY <2>1, <2>2
<1> HIDE DEF l
<1>1. TypeOK' BY <1>0 DEF TypeOK
<1>2. NothingIsLeft' BY <1>0 DEF NothingIsLeft
<1>3. Pipes'
  BY <1>0, NothingDue DEF Pipes, CallWaits
<1>4. CallsKnown'
  <2>1. believes = {} \/ session.hasState
    BY DEF CallsKnown
  <2> QED BY <1>0, <2>1 DEF CallsKnown, CallWaits, Alive, l
<1>5. Outcome' BY <1>0 DEF Outcome
<1> QED BY <1>1, <1>2, <1>3, <1>4, <1>5

LEMMA SendStep == ASSUME SessionInd, Send PROVE SessionInd'
<1> USE DEF SessionInd, Send
<1>0. /\ parent' \in Parents /\ parent'.at = "await" /\ parent'.lost = parent.lost
      /\ parent'.call = parent.call /\ parent'.result = parent.result
      /\ request' = parent.call /\ parent.call # 0 /\ parent.call \in Calls \cup {0}
      /\ session'.hasState = session.hasState /\ session'.private = session.private
      /\ session' \in [hasState : BOOLEAN, calls : Nat, private : BOOLEAN]
  <2>1. parent' = [parent EXCEPT !.at = "await"] /\ parent' \in Parents
    BY MovesAt DEF Ats
  <2>2. /\ parent'.at = "await" /\ parent'.lost = parent.lost /\ parent'.call = parent.call
        /\ parent'.result = parent.result /\ parent.call \in Calls \cup {0}
    BY <2>1 DEF TypeOK, Parents
  <2>3. request' = parent.call /\ parent.call # 0
    BY DEF Pipes
  <2>4. session' \in [hasState : BOOLEAN, calls : Nat, private : BOOLEAN]
        /\ session'.hasState = session.hasState /\ session'.private = session.private
    BY DEF TypeOK
  <2> QED BY <2>1, <2>2, <2>3, <2>4
<1>1. TypeOK' BY <1>0 DEF TypeOK
<1>2. NothingIsLeft' BY <1>0 DEF NothingIsLeft
<1>3. Pipes'
  BY <1>0, NothingDue DEF Pipes, CallWaits
<1>4. CallsKnown' BY <1>0 DEF CallsKnown, CallWaits
<1>5. Outcome' BY <1>0 DEF Outcome
<1> QED BY <1>1, <1>2, <1>3, <1>4, <1>5

LEMMA TimesOutStep == ASSUME SessionInd, TimesOut PROVE SessionInd'
<1> USE DEF SessionInd, TimesOut
<1>0. /\ parent' \in Parents /\ parent'.lost = parent.lost
      /\ parent'.call = parent.call /\ parent'.result = parent.result
      /\ child' \in Children
      /\ child'.at = child.at /\ child'.call = child.call /\ child'.ns = child.ns
      /\ child'.saw = child.saw
      /\ parent'.at = "grace" \/ (parent'.at = "kill" /\ ~Alive)
  <2>1. CASE Alive
    <3>1. parent' = [parent EXCEPT !.at = "grace"] /\ parent' \in Parents
      BY <2>1, MovesAt DEF Ats
    <3> DEFINE s == child.at = "running"
    <3>2. child' = [child EXCEPT !.signalled = s] /\ s \in BOOLEAN
      BY <2>1
    <3> HIDE DEF s
    <3> QED BY <3>1, <3>2 DEF TypeOK, Parents, Children
  <2>2. CASE ~Alive
    <3>1. parent' = [parent EXCEPT !.at = "kill"] /\ parent' \in Parents
      BY <2>2, MovesAt DEF Ats
    <3> QED BY <2>2, <3>1 DEF TypeOK, Parents
  <2> QED BY <2>1, <2>2
<1>1. TypeOK' BY <1>0 DEF TypeOK
<1>2. NothingIsLeft' BY <1>0 DEF NothingIsLeft
<1>3. Pipes'
  BY <1>0 DEF Pipes, CallWaits, Alive
<1>4. CallsKnown' BY <1>0 DEF CallsKnown, CallWaits
<1>5. Outcome' BY <1>0 DEF Outcome
<1> QED BY <1>1, <1>2, <1>3, <1>4, <1>5

LEMMA NoteStep == ASSUME SessionInd, Note PROVE SessionInd'
<1> USE DEF SessionInd, Note
<1> DEFINE t == parent.result.reset \/ parent.lost
<1>0. /\ parent' \in Parents /\ t \in BOOLEAN
      /\ parent'.call = parent.call /\ parent'.at = "returned"
      /\ parent'.result = [parent.result EXCEPT !.reset = t]
  <2>1. parent' = [parent EXCEPT !.at = "returned", !.result.reset = t] /\ t \in BOOLEAN
    BY DEF TypeOK, Parents, Results
  <2> HIDE DEF t
  <2>2. /\ parent'.call = parent.call /\ parent'.at = "returned"
        /\ parent'.result = [parent.result EXCEPT !.reset = t]
    BY <2>1 DEF TypeOK, Parents, Results
  <2>3. [parent.result EXCEPT !.reset = t] \in Results
    BY <2>1 DEF TypeOK, Parents, Results
  <2>4. parent' = [parent EXCEPT !.at = "returned", !.result = [parent.result EXCEPT !.reset = t]]
    BY <2>1
  <2> QED BY <2>1, <2>2, <2>3, <2>4, Moves DEF Ats
<1>a. /\ parent'.result.reset = t /\ parent'.result.ok = parent.result.ok
      /\ parent'.result.kind = parent.result.kind /\ parent'.result.of = parent.result.of
  BY <1>0 DEF TypeOK, Parents, Results
<1> DEFINE a == Alive
<1>b. /\ session' \in [hasState : BOOLEAN, calls : Nat, private : BOOLEAN]
      /\ session'.hasState = a /\ session'.private = session.private
  <2>1. session' = [session EXCEPT !.hasState = a] /\ a \in BOOLEAN
    BY DEF Alive
  <2> HIDE DEF a
  <2> QED BY <2>1 DEF TypeOK
<1> HIDE DEF t, a
<1>1. TypeOK' BY <1>0, <1>b DEF TypeOK
<1>2. NothingIsLeft' BY <1>0, <1>b DEF NothingIsLeft
<1>3. Pipes'
  BY <1>0, NothingDue DEF Pipes, CallWaits
<1>4. CallsKnown' BY <1>0, <1>a, <1>b DEF CallsKnown, CallWaits, Outcome, t, a, Alive
<1>5. Outcome' BY <1>0, <1>a, <1>b DEF Outcome, t, a, Alive
<1> QED BY <1>1, <1>2, <1>3, <1>4, <1>5

LEMMA ReadStep == ASSUME SessionInd, Read PROVE SessionInd'
<1> USE DEF SessionInd, Read
<1>0. /\ parent' \in Parents /\ parent'.at = "idle" /\ parent'.call = 0
      /\ parent'.result = NoResult
  BY NobodyIsTyped DEF TypeOK, Parents
<1>a. believes' \in SUBSET Calls
  BY DEF TypeOK, Parents, Pipes
<1>1. TypeOK' BY <1>0, <1>a DEF TypeOK
<1>2. NothingIsLeft' BY <1>0 DEF NothingIsLeft
<1>3. Pipes'
  BY <1>0, NothingDue DEF Pipes, CallWaits, TypeOK
<1>4. CallsKnown'
  <2>1. /\ believes' # {} => session.hasState
        /\ child.at # "none" => believes' \subseteq child.ns
    <3>1. CASE parent.result.kind # "result"
      BY <3>1 DEF CallsKnown, Outcome, NoChild
    <3>2. CASE parent.result.kind = "result"
      BY <3>2 DEF Outcome, CallsKnown
    <3> QED BY <3>1, <3>2
  <2> QED BY <1>0, <2>1 DEF CallsKnown, CallWaits
<1>5. Outcome' BY <1>0 DEF Outcome, NoResult
<1> QED BY <1>1, <1>2, <1>3, <1>4, <1>5

LEMMA CallStep == ASSUME SessionInd, Call PROVE SessionInd'
<1> USE DEF SessionInd
<1>0. /\ parent.at = "idle" /\ runs < MaxRuns /\ runs' = runs + 1
      /\ UNCHANGED <<forged, believes>>
  BY DEF Call
<1>a. PICK due \in {Alive /\ MaxCalls > 0 /\ session.calls >= MaxCalls} \cup {Alive /\ Idles} :
        /\ parent' = [at |-> "check", call |-> runs + 1, lost |-> due, again |-> FALSE,
                      result |-> NoResult]
        /\ IF due THEN Discard /\ session' = [session EXCEPT !.private = FALSE]
           ELSE UNCHANGED <<session, child, request, frames, dirs>>
  BY DEF Call
<1>b. due \in BOOLEAN
  BY SessionAssumption DEF Alive
<1>c. runs' \in 0..MaxRuns /\ runs' \in Calls /\ runs \in Nat
  BY <1>0, SessionAssumption DEF TypeOK, Calls
<1>d. /\ parent' \in Parents /\ parent'.at = "check" /\ parent'.call = runs'
      /\ parent'.result = NoResult
  BY <1>a, <1>b, <1>c, <1>0, NobodyIsTyped DEF Parents
<1>1. CASE due
  <2>0. Discard /\ session' = [session EXCEPT !.private = FALSE]
    BY <1>1, <1>a
  <2>1. TypeOK' BY <1>0, <1>c, <1>d, <2>0, Discards DEF TypeOK
  <2>2. NothingIsLeft' BY <2>0, <1>d, Discards DEF NothingIsLeft
  <2>3. Pipes'
    <3>1. runs' \in 0..runs' /\ runs' # 0
      BY <1>c, <1>0, SessionAssumption
    <3> QED BY <1>d, <2>0, <3>1, Discards DEF Pipes, CallWaits, Alive
  <2>4. CallsKnown' BY <1>0, <1>d, <2>0, Discards DEF CallsKnown, CallWaits
  <2>5. Outcome' BY <1>d DEF Outcome, NoResult
  <2> QED BY <2>1, <2>2, <2>3, <2>4, <2>5
<1>2. CASE ~due
  <2>0. UNCHANGED <<session, child, request, frames, dirs>>
    BY <1>2, <1>a
  <2>1. TypeOK' BY <1>0, <1>c, <1>d, <2>0 DEF TypeOK
  <2>2. NothingIsLeft' BY <2>0, <1>d DEF NothingIsLeft
  <2>3. Pipes'
    <3>1. runs' \in 0..runs' /\ runs' # 0
      BY <1>c, <1>0, SessionAssumption
    <3> QED BY <1>0, <1>d, <2>0, <3>1, NothingDue DEF Pipes, CallWaits
  <2>4. CallsKnown' BY <1>0, <1>d, <2>0 DEF CallsKnown, CallWaits
  <2>5. Outcome' BY <1>d DEF Outcome, NoResult
  <2> QED BY <2>1, <2>2, <2>3, <2>4, <2>5
<1> QED BY <1>1, <1>2

LEMMA SpawnStep == ASSUME SessionInd, Spawn PROVE SessionInd'
<1> USE DEF SessionInd
<1>0. /\ parent.at = "spawn" /\ request' = 0 /\ frames' = <<>> /\ frames' \in Seq(Frames)
      /\ UNCHANGED <<runs, forged, believes>> /\ dirs' = 1
  BY DEF Spawn, TypeOK, NothingIsLeft
<1>1. CASE /\ child' = [NoChild EXCEPT !.at = "booting"]
           /\ session' = [session EXCEPT !.private = TRUE, !.calls = 0]
           /\ parent' = [parent EXCEPT !.at = "boot"]
  <2>0. /\ parent' \in Parents /\ parent'.at = "boot" /\ parent'.lost = parent.lost
        /\ parent'.call = parent.call /\ parent'.result = parent.result
    BY <1>1, MovesAt DEF Ats
  <2>a. /\ session' \in [hasState : BOOLEAN, calls : Nat, private : BOOLEAN]
        /\ session'.hasState = session.hasState /\ session'.private
    BY <1>1 DEF TypeOK
  <2>b. child' \in Children /\ child'.at = "booting"
    BY <1>1 DEF NoChild, Children
  <2>1. TypeOK' BY <1>0, <2>0, <2>a, <2>b DEF TypeOK
  <2>2. NothingIsLeft' BY <1>0, <2>0, <2>a DEF NothingIsLeft
  <2>3. Pipes' BY <1>0, <2>0, <2>b DEF Pipes, CallWaits
  <2>4. CallsKnown' BY <1>0, <2>0, <2>a, <2>b DEF CallsKnown, CallWaits
  <2>5. Outcome' BY <1>0, <2>0 DEF Outcome
  <2> QED BY <2>1, <2>2, <2>3, <2>4, <2>5
<1>2. CASE /\ child' = NoChild
           /\ session' = [session EXCEPT !.private = TRUE]
           /\ parent' = [parent EXCEPT !.at = "returned", !.result = Raised("oserror")]
  <2>0. /\ parent' \in Parents /\ parent'.at = "returned" /\ parent'.call = parent.call
        /\ parent'.result = Raised("oserror")
    BY <1>2, Moves, NobodyIsTyped DEF Ats
  <2>a. /\ session' \in [hasState : BOOLEAN, calls : Nat, private : BOOLEAN]
        /\ session'.hasState = session.hasState /\ session'.private
    BY <1>2 DEF TypeOK
  <2>b. child' = NoChild /\ child' \in Children /\ child'.at = "none"
    BY <1>2, NobodyIsTyped DEF NoChild
  <2>1. TypeOK' BY <1>0, <2>0, <2>a, <2>b DEF TypeOK
  <2>2. NothingIsLeft' BY <1>0, <2>0, <2>a DEF NothingIsLeft
  <2>3. Pipes' BY <1>0, <2>0, <2>b DEF Pipes, CallWaits
  <2>4. CallsKnown' BY <1>0, <2>0, <2>a, <2>b DEF CallsKnown, CallWaits
  <2>5. Outcome' BY <2>0, <2>b DEF Outcome, Raised, NoResult
  <2> QED BY <2>1, <2>2, <2>3, <2>4, <2>5
<1> QED BY <1>1, <1>2 DEF Spawn

LEMMA SendFailsStep == ASSUME SessionInd, SendFails PROVE SessionInd'
<1> USE DEF SessionInd
<1>1. CASE parent.again
  <2>0. /\ parent.at = "send" /\ Discard /\ session' = [session EXCEPT !.private = FALSE]
        /\ parent' = [parent EXCEPT !.at = "returned", !.result = Raised("unavailable")]
        /\ UNCHANGED <<runs, forged, believes>>
    BY <1>1 DEF SendFails
  <2>a. /\ parent' \in Parents /\ parent'.at = "returned" /\ parent'.call = parent.call
        /\ parent'.result = Raised("unavailable")
    BY <2>0, Moves, NobodyIsTyped DEF Ats
  <2>1. TypeOK' BY <2>0, <2>a, Discards DEF TypeOK
  <2>2. NothingIsLeft' BY <2>0, <2>a, Discards DEF NothingIsLeft
  <2>3. Pipes' BY <2>0, <2>a, Discards DEF Pipes, CallWaits
  <2>4. CallsKnown' BY <2>0, <2>a, Discards DEF CallsKnown, CallWaits
  <2>5. Outcome' BY <2>0, <2>a, Discards DEF Outcome, Raised, NoResult
  <2> QED BY <2>1, <2>2, <2>3, <2>4, <2>5
<1>2. CASE ~parent.again
  <2>0. /\ parent.at = "send"
        /\ parent' = [parent EXCEPT !.at = "spawn", !.lost = TRUE, !.again = TRUE]
        /\ UNCHANGED <<session, child, request, frames, runs, forged, dirs, believes>>
    BY <1>2 DEF SendFails
  <2>a. /\ parent' \in Parents /\ parent'.at = "spawn" /\ parent'.call = parent.call
        /\ parent'.result = parent.result /\ parent'.lost
    BY <2>0, Restarts DEF TypeOK, Parents
  <2>1. TypeOK' BY <2>0, <2>a DEF TypeOK
  <2>2. NothingIsLeft' BY <2>0, <2>a DEF NothingIsLeft
  <2>3. Pipes' BY <2>0, <2>a, NothingDue DEF Pipes, CallWaits
  <2>4. CallsKnown' BY <2>0, <2>a DEF CallsKnown, CallWaits
  <2>5. Outcome' BY <2>0, <2>a DEF Outcome
  <2> QED BY <2>1, <2>2, <2>3, <2>4, <2>5
<1> QED BY <1>1, <1>2

\* What is left of the frames when the first is taken.
LEMMA Taken ==
  ASSUME TypeOK, Pipes, frames # <<>>, frames' = Tail(frames)
  PROVE  /\ frames' \in Seq(Frames) /\ Head(frames) \in Frames
         /\ \A k \in DOMAIN frames' :
              /\ k + 1 \in DOMAIN frames /\ frames'[k] = frames[k + 1]
              /\ Head(frames).call # 0 => frames'[k].call = 0
         /\ \A j, k \in DOMAIN frames' : frames'[j].call # 0 /\ frames'[k].call # 0 => j = k
<1>1. frames \in Seq(Frames)
  BY DEF TypeOK
<1>2. \A k \in DOMAIN frames' : k + 1 \in DOMAIN frames /\ frames'[k] = frames[k + 1] /\ k \in Nat
  BY <1>1, Ahead
<1>3. Head(frames) = frames[1] /\ 1 \in DOMAIN frames
  BY <1>1, Ahead
<1>4. ASSUME NEW k \in DOMAIN frames', Head(frames).call # 0 PROVE frames'[k].call = 0
  BY <1>2, <1>3, <1>4 DEF Pipes
<1>5. ASSUME NEW j \in DOMAIN frames', NEW k \in DOMAIN frames',
             frames'[j].call # 0, frames'[k].call # 0
      PROVE  j = k
  <2>1. j + 1 = k + 1
    BY <1>2, <1>5 DEF Pipes
  <2> QED BY <2>1, <1>2
<1> QED BY <1>1, <1>2, <1>4, <1>5, Ahead

LEMMA DropStep == ASSUME SessionInd, Drop PROVE SessionInd'
<1> USE DEF SessionInd
<1>0. /\ frames # <<>> /\ frames' = Tail(frames)
      /\ UNCHANGED <<parent, session, child, request, runs, forged, dirs, believes>>
  BY DEF Drop
<1>1. TypeOK' BY <1>0, Taken DEF TypeOK
<1>2. NothingIsLeft' BY <1>0 DEF NothingIsLeft, Alive
<1>3. Pipes'
  <2>1. \A k \in DOMAIN frames' : frames'[k].call # 0 =>
          /\ frames'[k].call = parent.call /\ CallWaits
          /\ request = 0 /\ child.at = "reading"
          /\ frames'[k].ok => parent.call \in child.ns
    BY <1>0, Taken DEF Pipes
  <2> QED BY <1>0, <2>1, Taken DEF Pipes, CallWaits, Alive
<1>4. CallsKnown' BY <1>0 DEF CallsKnown, CallWaits
<1>5. Outcome' BY <1>0 DEF Outcome
<1> QED BY <1>1, <1>2, <1>3, <1>4, <1>5

LEMMA AnsweredStep == ASSUME SessionInd, Answered PROVE SessionInd'
<1> USE DEF SessionInd
<1> DEFINE f == Head(frames)
           ok == f.ok /\ parent.at = "await"
           timed == parent.at = "grace"
<1>0. /\ frames # <<>> /\ frames' = Tail(frames) /\ parent.at \in {"await", "grace"}
      /\ f.call = parent.call /\ parent.call # 0 /\ f \in Frames
      /\ UNCHANGED <<session, child, request, runs, forged, dirs, believes>>
  BY Ahead DEF Answered, Answers, TypeOK, Pipes
<1>a. parent' = [parent EXCEPT !.at = "note", !.result = Result(f.call, ok, timed, FALSE)]
  BY DEF Answered
<1>b. ok \in BOOLEAN /\ timed \in BOOLEAN /\ f.call \in Calls \cup {0} /\ (ok => f.ok)
  BY <1>0 DEF Frames
<1>c. request = 0 /\ child.at = "reading" /\ (f.ok => parent.call \in child.ns)
  <2>1. frames \in Seq(Frames) /\ f = frames[1] /\ 1 \in DOMAIN frames
    BY <1>0, Ahead DEF TypeOK
  <2> QED BY <1>0, <2>1 DEF Pipes
<1> HIDE DEF ok, timed, f
<1>d. /\ parent' \in Parents /\ parent'.at = "note" /\ parent'.lost = parent.lost
      /\ parent'.call = parent.call /\ parent'.result = Result(f.call, ok, timed, FALSE)
  <2>1. Result(f.call, ok, timed, FALSE) \in Results
    BY <1>b, ResultType
  <2> QED BY <1>a, <2>1, Moves DEF Ats
<1>1. TypeOK' BY <1>0, <1>d, Taken DEF TypeOK
<1>2. NothingIsLeft' BY <1>0, <1>d DEF NothingIsLeft
<1>3. Pipes'
  <2>1. \A k \in DOMAIN frames' : frames'[k].call = 0
    BY <1>0, Taken DEF f
  <2> QED BY <1>0, <1>c, <1>d, <2>1, Taken DEF Pipes, CallWaits
<1>4. CallsKnown' BY <1>0, <1>d DEF CallsKnown, CallWaits
<1>5. Outcome'
  <2>1. /\ parent'.result.of = parent.call /\ parent'.result.kind = "result"
        /\ parent'.result.ok = ok /\ ~parent'.result.reset
    BY <1>0, <1>d DEF Result
  <2> QED BY <1>0, <1>b, <1>c, <1>d, <2>1 DEF Outcome, CallsKnown, CallWaits
<1> QED BY <1>1, <1>2, <1>3, <1>4, <1>5

-----------------------------------------------------------------------------
(* The child *)

\* What it writes is one frame more, or nothing when its channel is closed.
LEMMA Emitted ==
  ASSUME TypeOK, NEW f \in Frames, Emit(f)
  PROVE  /\ frames' \in Seq(Frames)
         /\ \A k \in DOMAIN frames' :
              \/ k \in DOMAIN frames /\ frames'[k] = frames[k]
              \/ k = Len(frames) + 1 /\ frames'[k] = f
<1>1. CASE child.muted
  BY <1>1 DEF Emit, TypeOK
<1>2. CASE ~child.muted
  BY <1>2, Behind DEF Emit, TypeOK
<1> QED BY <1>1, <1>2

\* A frame of nobody's call changes nothing of what is due.
LEMMA NobodysFrame ==
  ASSUME TypeOK, NEW f \in Frames, f.call = 0, Emit(f)
  PROVE  /\ frames' \in Seq(Frames)
         /\ \A k \in DOMAIN frames' : frames'[k].call # 0 => k \in DOMAIN frames /\ frames'[k] = frames[k]
BY Emitted

\* A step of the child that leaves the request and the call alone, and the
\* namespace unless the snippet ends.
LEMMA Elsewhere ==
  ASSUME SessionInd, NEW f \in Frames, f.call = 0, Emit(f), child' \in Children,
         child'.ns = child.ns, child'.saw = child.saw, child'.call = child.call,
         child.at # "none", child'.at # "none",
         UNCHANGED <<parent, session, request, runs, dirs, believes>>,
         forged' \in 0..Forged,
         child'.at = "running" => child.at = "running",
         parent.at = "kill" => child'.at = "dead",
         (request = 0 /\ parent.at \in {"await", "grace", "kill", "note"} /\ child.at = "reading")
           => child'.at = "reading"
  PROVE  SessionInd'
<1> USE DEF SessionInd
<1>0. parent.at # "closed" /\ child # NoChild
  BY DEF Outcome, NoChild
<1>1. TypeOK' BY NobodysFrame DEF TypeOK
<1>2. NothingIsLeft' BY <1>0 DEF NothingIsLeft
<1>3. Pipes'
  <2>1. \A k \in DOMAIN frames' : frames'[k].call # 0 =>
          /\ frames'[k].call = parent.call /\ CallWaits
          /\ request = 0 /\ child'.at = "reading"
          /\ frames'[k].ok => parent.call \in child.ns
    BY NobodysFrame DEF Pipes, CallWaits
  <2>2. \A j, k \in DOMAIN frames' : frames'[j].call # 0 /\ frames'[k].call # 0 => j = k
    BY NobodysFrame DEF Pipes
  <2> QED BY <2>1, <2>2 DEF Pipes, CallWaits, Alive
<1>4. CallsKnown' BY DEF CallsKnown, CallWaits
<1>5. Outcome' BY <1>0 DEF Outcome
<1> QED BY <1>1, <1>2, <1>3, <1>4, <1>5

LEMMA WordsAreTyped ==
  /\ Eof \in Frames /\ Ready \in Frames /\ Eof.call = 0 /\ Ready.call = 0
  /\ \A c \in Calls \cup {0}, ok \in BOOLEAN : /\ Report(c, ok) \in Frames
                                             /\ Report(c, ok).call = c /\ Report(c, ok).ok = ok
BY DEF Eof, Ready, Report, Frames

LEMMA BootsUpStep == ASSUME SessionInd, BootsUp PROVE SessionInd'
<1>1. child' \in Children /\ child' = [child EXCEPT !.at = "reading"] /\ child.at = "booting"
  BY DEF SessionInd, BootsUp, TypeOK, Children
<1>2. /\ child'.at = "reading" /\ child'.ns = child.ns /\ child'.saw = child.saw
      /\ child'.call = child.call
  BY <1>1 DEF SessionInd, TypeOK, Children
<1>3. parent.at # "kill"
  BY <1>1 DEF SessionInd, Pipes, Alive
<1> QED BY <1>1, <1>2, <1>3, WordsAreTyped, Elsewhere DEF BootsUp, SessionInd, TypeOK

LEMMA MutesStep == ASSUME SessionInd, Mutes PROVE SessionInd'
<1>1. child' \in Children /\ child' = [child EXCEPT !.muted = TRUE] /\ child.at \in {"reading", "running"}
  BY DEF SessionInd, Mutes, TypeOK, Children
<1>2. /\ child'.at = child.at /\ child'.ns = child.ns /\ child'.saw = child.saw
      /\ child'.call = child.call
  BY <1>1 DEF SessionInd, TypeOK, Children
<1>3. parent.at # "kill"
  BY <1>1 DEF SessionInd, Pipes, Alive
<1> QED BY <1>1, <1>2, <1>3, WordsAreTyped, Elsewhere DEF Mutes, SessionInd, TypeOK

LEMMA ForgesStep == ASSUME SessionInd, Forges PROVE SessionInd'
<1>1. /\ child' = child /\ child.at = "running" /\ Emit(Report(0, TRUE))
      /\ UNCHANGED <<parent, session, request, runs, dirs, believes>>
  BY DEF Forges
<1>2. forged' \in 0..Forged
  BY SessionAssumption DEF Forges, SessionInd, TypeOK
<1>3. parent.at # "kill" /\ child \in Children
  BY <1>1 DEF SessionInd, Pipes, Alive, TypeOK
<1> QED BY <1>1, <1>2, <1>3, WordsAreTyped, Elsewhere

LEMMA DiesStep == ASSUME ~LateDeath, SessionInd, Dies PROVE SessionInd'
<1>1. /\ child' \in Children /\ child' = [child EXCEPT !.at = "dead", !.muted = TRUE]
      /\ child.at # "none"
  BY DEF SessionInd, Dies, TypeOK, Children, Alive
<1>2. /\ child'.at = "dead" /\ child'.ns = child.ns /\ child'.saw = child.saw
      /\ child'.call = child.call
  BY <1>1 DEF SessionInd, TypeOK, Children
<1>3. ~(request = 0 /\ parent.at \in {"await", "grace", "kill", "note"} /\ child.at = "reading")
  BY DEF Dies
<1> QED BY <1>1, <1>2, <1>3, WordsAreTyped, Elsewhere DEF Dies, SessionInd, TypeOK

LEMMA StartsStep == ASSUME SessionInd, Starts PROVE SessionInd'
<1> USE DEF SessionInd
<1>0. PICK deaf \in BOOLEAN :
        child' = [child EXCEPT !.at = "running", !.call = request, !.saw = child.ns, !.deaf = deaf]
  BY DEF Starts
<1>1. /\ child.at = "reading" /\ request # 0 /\ request' = 0 /\ request \in Calls \cup {0}
      /\ UNCHANGED <<parent, session, frames, runs, forged, dirs, believes>>
  BY DEF Starts, TypeOK
<1>2. /\ child' \in Children /\ child'.at = "running" /\ child'.call = request
      /\ child'.ns = child.ns /\ child'.saw = child.ns
  BY <1>0, <1>1 DEF TypeOK, Children
<1>3. parent.at \in {"await", "grace"} /\ request = parent.call
  BY <1>1 DEF Pipes, CallWaits, Alive
<1>4. TypeOK' BY <1>1, <1>2 DEF TypeOK
<1>5. NothingIsLeft' BY <1>1, <1>3 DEF NothingIsLeft
<1>6. Pipes' BY <1>1, <1>2, <1>3 DEF Pipes, CallWaits
<1>7. CallsKnown' BY <1>1, <1>2, <1>3 DEF CallsKnown, CallWaits
<1>8. Outcome' BY <1>1, <1>3 DEF Outcome
<1> QED BY <1>4, <1>5, <1>6, <1>7, <1>8

LEMMA EndsStep == ASSUME SessionInd, Ends PROVE SessionInd'
<1> USE DEF SessionInd
<1>0. PICK ok \in BOOLEAN, defined \in BOOLEAN :
        /\ ok => defined
        /\ Emit(Report(child.call, ok))
        /\ child' = [child EXCEPT !.at = "reading", !.call = 0, !.deaf = FALSE,
                       !.signalled = FALSE,
                       !.ns = IF defined THEN @ \cup {child.call} ELSE @]
  BY DEF Ends
<1>1. /\ child.at = "running" /\ UNCHANGED <<parent, session, request, runs, forged, dirs, believes>>
  BY DEF Ends
<1>2. /\ child.call = parent.call /\ request = 0 /\ parent.at \in {"await", "grace"}
      /\ child.call \in Calls
  BY <1>1 DEF Pipes, TypeOK, Parents
<1>3. /\ child' \in Children /\ child'.at = "reading" /\ child'.saw = child.saw
      /\ child.ns \subseteq child'.ns /\ (ok => child.call \in child'.ns)
  BY <1>0, <1>2 DEF TypeOK, Children
<1>4. \A k \in DOMAIN frames : frames[k].call = 0
  BY <1>1 DEF Pipes
<1>5. /\ Report(child.call, ok) \in Frames /\ Report(child.call, ok).call = parent.call
      /\ Report(child.call, ok).ok = ok
  BY <1>2, WordsAreTyped
<1>6. TypeOK' BY <1>0, <1>1, <1>3, <1>5, Emitted DEF TypeOK
<1>7. NothingIsLeft' BY <1>1, <1>2 DEF NothingIsLeft
<1>8. Pipes'
  <2>1. \A k \in DOMAIN frames' : frames'[k].call # 0 =>
          k = Len(frames) + 1 /\ frames'[k] = Report(child.call, ok)
    BY <1>0, <1>4, <1>5, Emitted
  <2>2. \A j, k \in DOMAIN frames' : frames'[j].call # 0 /\ frames'[k].call # 0 => j = k
    BY <2>1
  <2> QED BY <1>1, <1>2, <1>3, <1>5, <2>1, <2>2 DEF Pipes, CallWaits, Alive
<1>9. CallsKnown' BY <1>1, <1>2, <1>3 DEF CallsKnown, CallWaits
<1>10. Outcome' BY <1>1, <1>2 DEF Outcome
<1> QED BY <1>6, <1>7, <1>8, <1>9, <1>10

-----------------------------------------------------------------------------
(* The inductive invariant *)

LEMMA SessionStarts == Init => SessionInd
<1> SUFFICES ASSUME Init PROVE SessionInd OBVIOUS
<1>1. TypeOK
  BY NobodyIsTyped, SessionAssumption DEF Init, TypeOK, Parents
<1>2. NothingIsLeft
  BY DEF Init, NothingIsLeft
<1>3. Pipes
  BY SessionAssumption DEF Init, Pipes, CallWaits, NoChild, Alive
<1>4. CallsKnown
  BY DEF Init, CallsKnown, CallWaits
<1>5. Outcome
  BY DEF Init, Outcome, NoResult
<1> QED BY <1>1, <1>2, <1>3, <1>4, <1>5 DEF SessionInd

LEMMA SessionStutters == ASSUME SessionInd, UNCHANGED vars PROVE SessionInd'
<1> USE DEF vars, SessionInd
<1>1. TypeOK' BY DEF TypeOK
<1>2. NothingIsLeft' BY DEF NothingIsLeft, Alive
<1>3. Pipes' BY DEF Pipes, CallWaits, Alive
<1>4. CallsKnown' BY DEF CallsKnown, CallWaits
<1>5. Outcome' BY DEF Outcome
<1> QED BY <1>1, <1>2, <1>3, <1>4, <1>5

LEMMA SessionSteps == ~LateDeath /\ SessionInd /\ [Next]_vars => SessionInd'
<1> SUFFICES ASSUME ~LateDeath, SessionInd, [Next]_vars PROVE SessionInd'
  OBVIOUS
<1>1. CASE Call \/ Close \/ Drop
  BY <1>1, CallStep, CloseStep, DropStep
<1>2. CASE Runs
  BY <1>2, CheckStep, SpawnStep, SendStep, SendFailsStep, BootedStep, BootFailsStep, AnsweredStep,
     DiedStep, TimesOutStep, KillStep, NoteStep, ReadStep DEF Runs, Waits
<1>3. CASE Shim
  BY <1>3, BootsUpStep, StartsStep, EndsStep, ForgesStep, MutesStep, DiesStep DEF Shim
<1>4. CASE UNCHANGED vars
  BY <1>4, SessionStutters
<1> QED BY <1>1, <1>2, <1>3, <1>4 DEF Next

-----------------------------------------------------------------------------
(* Theorem *)

(***************************************************************************)
(* However many calls a run makes, whatever their snippets do and whenever *)
(* the process is evicted, killed or dies but right after a report: a      *)
(* session has one process and one directory at most and leaves neither, a *)
(* result is of the call that waits for it, and one that does not say the  *)
(* interpreter was restarted is of a call that found every definition the  *)
(* caller knows of (python_session.py run, _await, _evict_if_due, close).  *)
(***************************************************************************)
THEOREM NothingIsLostUntold == ASSUME ~LateDeath PROVE Spec => []SessionInv
<1>1. Init => SessionInd
  BY SessionStarts
<1>2. SessionInd /\ [Next]_vars => SessionInd'
  BY SessionSteps
<1>3. SessionInd => SessionInv
  BY DEF SessionInd, SessionInv, Outcome, AnswersAreOwn, NothingLostUntold
<1> QED BY <1>1, <1>2, <1>3, PTL DEF Spec

-----------------------------------------------------------------------------
(* Routes: one step at a time, an edit leaves the file whole, and the table *)
(* what the file says                                                       *)

\* No two threads of a process edit; nobody else edits the file; there is one
\* process.
EditsTakeTurns == \A d, e \in Editors : Home[d] = Home[e] => d = e
OneEditor == \A d, e \in Editors : d = e
OneProcess == \A p, q \in Processes : p = q

Applying(e) == editor[e].at \in {"restore", "clear", "place", "hold"}
Saving(e) == editor[e].at \in {"open", "write", "replace"}

\* What the steps of an edit and of a resolve find when they begin.
Steps ==
  /\ \A e \in Editors :
       /\ editor[e].at = "check" =>
            editor[e].edit.task \in Tasks /\ editor[e].edit.spec \in Specs
       /\ \A t \in editor[e].todo : editor[e].arg.pins[t] # None
       /\ editor[e].at \notin {"place", "hold"} => editor[e].todo = {}
       /\ editor[e].at = "hold" => editor[e].task \in Tasks /\ editor[e].pin # 0
  /\ \A r \in Turns : turn[r].at # "idle" => turn[r].task \in Tasks
  /\ \A p \in Processes, t \in Tasks : live[p][t].spec # None <=> live[p][t].pin # 0

\* The table and what is_pin knows of it differ in the middle of apply only.
Heads ==
  /\ \A p \in Processes, t \in Tasks :
       \/ active[p][t] = live[p][t].pin
       \/ \E e \in Editors : Home[e] = p /\
            (editor[e].at = "clear" \/ (editor[e].at = "hold" /\ editor[e].task = t))
  /\ \A e \in Editors :
       /\ editor[e].at = "clear" => \A t \in Tasks : live[Home[e]][t] = NoPin
       /\ editor[e].at = "hold" => live[Home[e]][editor[e].task].pin = editor[e].pin

\* What a thread that resolves with no edit beside it has seen is still so.
Quiet ==
  \A r \in Turns : turn[r].quiet =>
    /\ Idle(Home[r]) /\ turn[r].at # "idle"
    /\ turn[r].want # None => live[Home[r]][turn[r].task].spec = turn[r].want
    /\ turn[r].at # "begun" => turn[r].head = live[Home[r]][turn[r].task]
    /\ turn[r].at \in {"held", "reordered"} /\ turn[r].want # None => turn[r].at = "held"

\* The .tmp is beside the file, and holds what the editor has written.
Beside ==
  /\ FileIsWhole
  /\ tmp # 0 => tmp # routes
  /\ \A e \in Editors :
       /\ editor[e].at = "write" =>
            tmp # 0 /\ editor[e].fd = tmp /\ content[tmp].state = "empty"
       /\ editor[e].at = "replace" => tmp # 0 /\ content[tmp].state = "whole"

\* What an editor applies, and how far it has come.
Follow(e) ==
  /\ editor[e].at = "check" /\ Home[e] \notin ahead =>
       \A t \in Tasks : live[Home[e]][t].spec = Applied(Loaded)[t]
  /\ editor[e].at = "check" \/ (Applying(e) /\ editor[e].then = "pinned")
       => editor[e].old = Loaded /\ editor[e].edit.kind = "pin"
  /\ Applying(e) /\ editor[e].then \in {"refused", "reloaded"} => editor[e].arg = Loaded
  /\ Saving(e) /\ editor[e].edit.kind # "pin" /\ Home[e] \notin ahead
       => \A t \in Tasks : live[Home[e]][t].spec = Applied(Loaded)[t]
  /\ editor[e].at \in {"clear", "place", "hold"} =>
       registered[Home[e]] = editor[e].arg.ends
  /\ editor[e].at = "clear" => \A t \in Tasks : live[Home[e]][t].spec = None
  /\ editor[e].at \in {"place", "hold"} => \A t \in Tasks :
       live[Home[e]][t].spec =
         IF t \in editor[e].todo THEN None ELSE Applied(editor[e].arg)[t]
Follows == LiveIsFile /\ \A e \in Editors : Follow(e)

-----------------------------------------------------------------------------
(* What the operators of Routes return *)

LEMMA NothingIsKept == Nothing \in Kept
BY DEF Nothing, Kept

LEMMA LoadedIsKept == ASSUME RoutesTypeOK PROVE Loaded \in Kept
BY NothingIsKept DEF Loaded, RoutesTypeOK, Contents

LEMMA AllAreFinite ==
  /\ IsFiniteSet(Processes) /\ IsFiniteSet(Editors) /\ IsFiniteSet(Turns)
  /\ IsFiniteSet(Tasks) /\ IsFiniteSet(Files) /\ IsFiniteSet(Pins)
BY RoutesAssumption

LEMMA EditIsTyped ==
  ASSUME NEW e \in Editors, NEW d \in Edits(e)
  PROVE  /\ d.kind \in {"pin", "clear", "add", "remove"}
         /\ d.kind \in {"pin", "clear"} => d.task \in Tasks
         /\ d.kind = "pin" => d.spec \in Specs
         /\ d.kind \in {"add", "remove"} => d.end \in Customs
         /\ d \in EditsMade
BY RoutesAssumption DEF Edits, EditsMade

LEMMA ChangedIsKept ==
  ASSUME NEW e \in Editors, NEW d \in Edits(e), NEW o \in Kept
  PROVE  Changed(d, o) \in Kept
<1>1. CASE d.kind = "pin" BY <1>1, EditIsTyped DEF Changed, Kept
<1>2. CASE d.kind = "clear" BY <1>2, EditIsTyped DEF Changed, Kept
<1>3. CASE d.kind = "add" BY <1>3, EditIsTyped DEF Changed, Kept
<1>4. CASE d.kind = "remove" BY <1>4, EditIsTyped DEF Changed, Kept
<1> QED BY <1>1, <1>2, <1>3, <1>4, EditIsTyped

\* The values of a function on a finite set are no more than its arguments.
LEMMA ValuesAreFew ==
  ASSUME NEW S, IsFiniteSet(S), NEW f
  PROVE  /\ IsFiniteSet({f[x] : x \in S}) /\ Cardinality(S) \in Nat
         /\ Cardinality({f[x] : x \in S}) \in Nat
         /\ Cardinality({f[x] : x \in S}) <= Cardinality(S)
<1> DEFINE g == [x \in S |-> f[x]]
<1>1. g \in Surjection(S, {f[x] : x \in S}) BY DEF Surjection
<1> QED BY <1>1, FS_Surjection, FS_CardinalityType

LEMMA SumsAreFew ==
  ASSUME NEW A, IsFiniteSet(A), NEW B, IsFiniteSet(B), NEW a \in Nat, NEW b \in Nat,
         Cardinality(A) <= a, Cardinality(B) <= b
  PROVE  IsFiniteSet(A \cup B) /\ Cardinality(A \cup B) <= a + b
         /\ Cardinality(A \cup B) \in Nat
<1>1. /\ IsFiniteSet(A \cup B) /\ IsFiniteSet(A \cap B)
      /\ Cardinality(A \cup B) = Cardinality(A) + Cardinality(B) - Cardinality(A \cap B)
  BY FS_Union, FS_Intersection
<1>2. /\ Cardinality(A \cup B) \in Nat /\ Cardinality(A \cap B) \in Nat
      /\ Cardinality(A) \in Nat /\ Cardinality(B) \in Nat
  BY <1>1, FS_CardinalityType
<1> QED BY <1>1, <1>2

\* A finite set has an element that is not in a smaller one.
LEMMA OneIsLeft ==
  ASSUME NEW S, IsFiniteSet(S), NEW U, IsFiniteSet(U), Cardinality(U) < Cardinality(S)
  PROVE  \E x \in S : x \notin U
<1> SUFFICES ASSUME S \subseteq U PROVE FALSE OBVIOUS
<1> QED BY FS_Subset, FS_CardinalityType

NProc == Cardinality(Processes)
NTask == Cardinality(Tasks)
NEdit == Cardinality(Editors)
NTurn == Cardinality(Turns)

LEMMA Sizes ==
  /\ NProc \in Nat /\ NTask \in Nat /\ NEdit \in Nat /\ NTurn \in Nat
  /\ NProc * NTask \in Nat
  /\ IsFiniteSet(Processes \X Tasks) /\ Cardinality(Processes \X Tasks) = NProc * NTask
  /\ Cardinality(Pins) \in Nat /\ Cardinality(Files) \in Nat
  /\ Cardinality(Pins) > 2 * NProc * NTask + NEdit + NTurn
  /\ Cardinality(Files) >= 2 + NEdit
<1>1. NProc \in Nat /\ NTask \in Nat /\ NEdit \in Nat /\ NTurn \in Nat
      /\ Cardinality(Pins) \in Nat /\ Cardinality(Files) \in Nat
  BY RoutesAssumption, FS_CardinalityType DEF NProc, NTask, NEdit, NTurn
<1>2. IsFiniteSet(Processes \X Tasks) /\ Cardinality(Processes \X Tasks) = NProc * NTask
  BY RoutesAssumption, FS_Product DEF NProc, NTask
<1>3. Cardinality(Pins) > 2 * NProc * NTask + NEdit + NTurn /\ Cardinality(Files) >= 2 + NEdit
  BY RoutesAssumption DEF NProc, NTask, NEdit, NTurn
<1>4. NProc * NTask \in Nat BY <1>1
<1> QED BY <1>1, <1>2, <1>3, <1>4

\* What is in use: the pins of the tables, of editors and of turns.
InUse ==
  UNION {{live[x[1]][x[2]].pin : x \in Processes \X Tasks},
         {active[x[1]][x[2]] : x \in Processes \X Tasks},
         {editor[e].pin : e \in Editors}, {turn[r].head.pin : r \in Turns}}

LEMMA InUseIsFew ==
  /\ IsFiniteSet(InUse) /\ Cardinality(InUse) \in Nat
  /\ Cardinality(InUse) <= NProc * NTask + NProc * NTask + NEdit + NTurn
<1> DEFINE L == {live[x[1]][x[2]].pin : x \in Processes \X Tasks}
           A == {active[x[1]][x[2]] : x \in Processes \X Tasks}
           H == {editor[e].pin : e \in Editors}
           D == {turn[r].head.pin : r \in Turns}
           f1 == [x \in Processes \X Tasks |-> live[x[1]][x[2]].pin]
           f2 == [x \in Processes \X Tasks |-> active[x[1]][x[2]]]
           f3 == [e \in Editors |-> editor[e].pin]
           f4 == [r \in Turns |-> turn[r].head.pin]
<1>1. IsFiniteSet(L) /\ Cardinality(L) <= NProc * NTask
  <2>1. L = {f1[x] : x \in Processes \X Tasks} OBVIOUS
  <2> HIDE DEF f1
  <2>2. IsFiniteSet({f1[x] : x \in Processes \X Tasks})
        /\ Cardinality({f1[x] : x \in Processes \X Tasks}) <= Cardinality(Processes \X Tasks)
    BY Sizes, ValuesAreFew
  <2> QED BY <2>1, <2>2, Sizes
<1>2. IsFiniteSet(A) /\ Cardinality(A) <= NProc * NTask
  <2>1. A = {f2[x] : x \in Processes \X Tasks} OBVIOUS
  <2> HIDE DEF f2
  <2>2. IsFiniteSet({f2[x] : x \in Processes \X Tasks})
        /\ Cardinality({f2[x] : x \in Processes \X Tasks}) <= Cardinality(Processes \X Tasks)
    BY Sizes, ValuesAreFew
  <2> QED BY <2>1, <2>2, Sizes
<1>3. IsFiniteSet(H) /\ Cardinality(H) <= NEdit
  <2>1. H = {f3[e] : e \in Editors} OBVIOUS
  <2> HIDE DEF f3
  <2> QED BY <2>1, AllAreFinite, ValuesAreFew DEF NEdit
<1>4. IsFiniteSet(D) /\ Cardinality(D) <= NTurn
  <2>1. D = {f4[r] : r \in Turns} OBVIOUS
  <2> HIDE DEF f4
  <2>2. IsFiniteSet({f4[r] : r \in Turns}) /\ Cardinality({f4[r] : r \in Turns}) <= Cardinality(Turns)
    BY AllAreFinite, ValuesAreFew
  <2> QED BY <2>1, <2>2 DEF NTurn
<1> HIDE DEF L, A, H, D
<1>5. IsFiniteSet(L \cup A) /\ Cardinality(L \cup A) <= NProc * NTask + NProc * NTask
  BY <1>1, <1>2, Sizes, SumsAreFew
<1>6. IsFiniteSet(L \cup A \cup H) /\ Cardinality(L \cup A \cup H) <= NProc * NTask + NProc * NTask + NEdit
  <2>1. NProc * NTask + NProc * NTask \in Nat BY Sizes
  <2> QED BY <1>5, <1>3, <2>1, Sizes, SumsAreFew
<1>7. IsFiniteSet(L \cup A \cup H \cup D)
      /\ Cardinality(L \cup A \cup H \cup D) <= NProc * NTask + NProc * NTask + NEdit + NTurn
      /\ Cardinality(L \cup A \cup H \cup D) \in Nat
  <2>1. NProc * NTask + NProc * NTask + NEdit \in Nat BY Sizes
  <2> QED BY <1>6, <1>4, <2>1, Sizes, SumsAreFew
<1>8. InUse = L \cup A \cup H \cup D BY DEF InUse, L, A, H, D
<1> QED BY <1>7, <1>8

LEMMA FreshIsThere == Fresh \in Pins /\ Fresh # 0
<1>1. \E n \in Pins : n \notin InUse
  <2>1. Cardinality(InUse) < Cardinality(Pins)
    <3>1. 2 * NProc * NTask = NProc * NTask + NProc * NTask BY Sizes
    <3> QED BY <3>1, InUseIsFew, Sizes
  <2> QED BY <2>1, InUseIsFew, RoutesAssumption, OneIsLeft
<1>2. \E n \in Pins :
        /\ \A p \in Processes, t \in Tasks : live[p][t].pin # n /\ active[p][t] # n
        /\ \A e \in Editors : editor[e].pin # n
        /\ \A r \in Turns : turn[r].head.pin # n
  <2>1. PICK n \in Pins : n \notin InUse BY <1>1
  <2>2. \A p \in Processes, t \in Tasks : live[p][t].pin # n /\ active[p][t] # n
    <3> SUFFICES ASSUME NEW p \in Processes, NEW t \in Tasks
                 PROVE  live[p][t].pin # n /\ active[p][t] # n
      OBVIOUS
    <3>1. <<p, t>> \in Processes \X Tasks /\ <<p, t>>[1] = p /\ <<p, t>>[2] = t OBVIOUS
    <3> QED BY <2>1, <3>1 DEF InUse
  <2>3. (\A e \in Editors : editor[e].pin # n) /\ \A r \in Turns : turn[r].head.pin # n
    BY <2>1 DEF InUse
  <2> QED BY <2>2, <2>3
<1> QED BY <1>2, RoutesAssumption DEF Fresh

LEMMA FileIsThere ==
  ASSUME tmp = 0
  PROVE  LET i == CHOOSE f \in Files : f # routes /\ \A d \in Editors : editor[d].fd # f
         IN  i \in Files /\ i # 0 /\ i # routes /\ \A d \in Editors : editor[d].fd # i
<1> DEFINE f1 == [d \in Editors |-> editor[d].fd]
           O == {f1[d] : d \in Editors}
<1>1. IsFiniteSet(O) /\ Cardinality(O) <= NEdit
  <2> HIDE DEF f1
  <2> QED BY AllAreFinite, ValuesAreFew DEF NEdit
<1>2. \A d \in Editors : editor[d].fd \in O OBVIOUS
<1> HIDE DEF O
<1>3. IsFiniteSet({routes}) /\ Cardinality({routes}) <= 1
  <2>1. IsFiniteSet({routes}) /\ Cardinality({routes}) = 1 BY FS_Singleton
  <2> QED BY <2>1
<1>4. IsFiniteSet({routes} \cup O) /\ Cardinality({routes} \cup O) <= 1 + NEdit
      /\ Cardinality({routes} \cup O) \in Nat
  BY <1>1, <1>3, Sizes, SumsAreFew
<1>5. \E f \in Files : f \notin {routes} \cup O
  <2>1. Cardinality({routes} \cup O) < Cardinality(Files) BY <1>4, Sizes
  <2> QED BY <2>1, <1>4, AllAreFinite, OneIsLeft
<1>6. \E f \in Files : f # routes /\ \A d \in Editors : editor[d].fd # f
  BY <1>5, <1>2
<1> QED BY <1>6, RoutesAssumption

\* The pins a process gets when it starts: there are enough that are free.
LEMMA InjectionIsThere ==
  ASSUME NEW S, IsFiniteSet(S), NEW D, IsFiniteSet(D), Cardinality(S) <= Cardinality(D)
  PROVE  \E f \in [S -> D] : \A s, t \in S : f[s] = f[t] => s = t
<1>1. Cardinality(S) \in Nat /\ Cardinality(D) \in Nat
      /\ ExistsBijection(1..Cardinality(S), S) /\ ExistsBijection(1..Cardinality(D), D)
  BY FS_CardinalityType
<1>2. PICK g \in Bijection(1..Cardinality(S), S) : TRUE
  BY <1>1 DEF ExistsBijection
<1>3. PICK h \in Bijection(1..Cardinality(D), D) : TRUE
  BY <1>1 DEF ExistsBijection
<1>4. /\ g \in [1..Cardinality(S) -> S] /\ \A s \in S : \E i \in 1..Cardinality(S) : g[i] = s
  BY <1>2 DEF Bijection, Surjection
<1>5. /\ h \in [1..Cardinality(D) -> D]
      /\ \A i, j \in 1..Cardinality(D) : h[i] = h[j] => i = j
  BY <1>3 DEF Bijection, Injection, IsInjective
<1> DEFINE index(s) == CHOOSE i \in 1..Cardinality(S) : g[i] = s
           f == [s \in S |-> h[index(s)]]
<1>6. \A s \in S : index(s) \in 1..Cardinality(D) /\ g[index(s)] = s
  BY <1>4, <1>1
<1> HIDE DEF index
<1>7. f \in [S -> D] BY <1>5, <1>6
<1>8. \A s, t \in S : f[s] = f[t] => s = t
  <2> SUFFICES ASSUME NEW s \in S, NEW t \in S, f[s] = f[t] PROVE s = t OBVIOUS
  <2>1. h[index(s)] = h[index(t)] OBVIOUS
  <2>2. index(s) = index(t) BY <2>1, <1>5, <1>6
  <2> QED BY <2>2, <1>6
<1> QED BY <1>7, <1>8

LEMMA GivenIsThere ==
  ASSUME NEW p \in Processes
  PROVE  LET used == {n \in Pins : \/ \E q \in Processes \ {p}, t \in Tasks :
                                        live[q][t].pin = n \/ active[q][t] = n
                                   \/ \E e \in Editors : Home[e] # p /\ editor[e].pin = n
                                   \/ \E r \in Turns : Home[r] # p /\ turn[r].head.pin = n}
             given == CHOOSE f \in [Tasks -> Pins \ used] :
                        \A s, t \in Tasks : f[s] = f[t] => s = t
         IN  given \in [Tasks -> Pins]
<1> DEFINE used == {n \in Pins : \/ \E q \in Processes \ {p}, t \in Tasks :
                                      live[q][t].pin = n \/ active[q][t] = n
                                 \/ \E e \in Editors : Home[e] # p /\ editor[e].pin = n
                                 \/ \E r \in Turns : Home[r] # p /\ turn[r].head.pin = n}
           Rest == Processes \ {p}
           f1 == [x \in Rest \X Tasks |-> live[x[1]][x[2]].pin]
           f2 == [x \in Rest \X Tasks |-> active[x[1]][x[2]]]
           f3 == [e \in Editors |-> editor[e].pin]
           f4 == [r \in Turns |-> turn[r].head.pin]
           L == {f1[x] : x \in Rest \X Tasks}
           A == {f2[x] : x \in Rest \X Tasks}
           H == {f3[e] : e \in Editors}
           D == {f4[r] : r \in Turns}
           M == (NProc - 1) * NTask
<1>1. /\ used \subseteq L \cup A \cup H \cup D
  <2> SUFFICES ASSUME NEW n \in used PROVE n \in L \cup A \cup H \cup D OBVIOUS
  <2>1. ASSUME NEW q \in Rest, NEW t \in Tasks, live[q][t].pin = n PROVE n \in L
    <3>1. <<q, t>> \in Rest \X Tasks /\ f1[<<q, t>>] = n BY <2>1
    <3> QED BY <3>1
  <2>2. ASSUME NEW q \in Rest, NEW t \in Tasks, active[q][t] = n PROVE n \in A
    <3>1. <<q, t>> \in Rest \X Tasks /\ f2[<<q, t>>] = n BY <2>2
    <3> QED BY <3>1
  <2> QED BY <2>1, <2>2
<1> HIDE DEF f1, f2, f3, f4, used
<1>2. /\ IsFiniteSet(Rest \X Tasks) /\ Cardinality(Rest \X Tasks) = M /\ M \in Nat
      /\ M + NTask = NProc * NTask /\ NProc >= 1
  <2>1. IsFiniteSet(Rest) /\ Cardinality(Rest) = NProc - 1 /\ NProc >= 1
    <3>1. IsFiniteSet(Rest) /\ Cardinality(Rest) = NProc - 1
      BY AllAreFinite, FS_RemoveElement DEF NProc
    <3>2. Cardinality(Rest) \in Nat BY <3>1, FS_CardinalityType
    <3> QED BY <3>1, <3>2, Sizes
  <2>2. IsFiniteSet(Rest \X Tasks) /\ Cardinality(Rest \X Tasks) = (NProc - 1) * NTask
    BY <2>1, AllAreFinite, FS_Product DEF NTask
  <2>3. M \in Nat /\ M + NTask = NProc * NTask BY <2>1, Sizes
  <2> QED BY <2>1, <2>2, <2>3
<1> HIDE DEF M
<1>3. IsFiniteSet(L) /\ Cardinality(L) <= M /\ IsFiniteSet(A) /\ Cardinality(A) <= M
  BY <1>2, ValuesAreFew
<1>4. IsFiniteSet(H) /\ Cardinality(H) <= NEdit /\ IsFiniteSet(D) /\ Cardinality(D) <= NTurn
  BY AllAreFinite, ValuesAreFew DEF NEdit, NTurn
<1> HIDE DEF L, A, H, D
<1>5. IsFiniteSet(L \cup A) /\ Cardinality(L \cup A) <= M + M
  BY <1>3, <1>2, SumsAreFew
<1>6. IsFiniteSet(L \cup A \cup H) /\ Cardinality(L \cup A \cup H) <= M + M + NEdit
  <2>1. M + M \in Nat BY <1>2
  <2> QED BY <1>5, <1>4, <2>1, Sizes, SumsAreFew
<1>7. IsFiniteSet(L \cup A \cup H \cup D) /\ Cardinality(L \cup A \cup H \cup D) <= M + M + NEdit + NTurn
  <2>1. M + M + NEdit \in Nat BY <1>2, Sizes
  <2> QED BY <1>6, <1>4, <2>1, Sizes, SumsAreFew
<1>8. IsFiniteSet(used) /\ Cardinality(used) <= M + M + NEdit + NTurn /\ Cardinality(used) \in Nat
  <2>1. IsFiniteSet(used) /\ Cardinality(used) <= Cardinality(L \cup A \cup H \cup D)
    BY <1>1, <1>7, FS_Subset
  <2>2. Cardinality(used) \in Nat /\ Cardinality(L \cup A \cup H \cup D) \in Nat
    BY <2>1, <1>7, FS_CardinalityType
  <2>3. M + M + NEdit + NTurn \in Nat BY <1>2, Sizes
  <2> QED BY <2>1, <2>2, <2>3, <1>7
<1>9. IsFiniteSet(Pins \ used) /\ Cardinality(Tasks) <= Cardinality(Pins \ used)
  <2>1. IsFiniteSet(Pins \ used) /\ IsFiniteSet(Pins \cap used)
        /\ Cardinality(Pins \ used) = Cardinality(Pins) - Cardinality(Pins \cap used)
    BY AllAreFinite, <1>8, FS_Difference, FS_Intersection
  <2>2. Pins \cap used = used BY DEF used
  <2>3. 2 * NProc * NTask = (M + NTask) + (M + NTask) BY <1>2, Sizes
  <2>4. Cardinality(Pins \ used) = Cardinality(Pins) - Cardinality(used) BY <2>1, <2>2
  <2>5. Cardinality(Pins) > (M + NTask) + (M + NTask) + NEdit + NTurn BY <2>3, Sizes
  <2>6. NTask <= Cardinality(Pins) - Cardinality(used) BY <2>5, <1>8, <1>2, Sizes
  <2> QED BY <2>1, <2>4, <2>6 DEF NTask
<1>10. \E f \in [Tasks -> Pins \ used] : \A s, t \in Tasks : f[s] = f[t] => s = t
  BY <1>9, AllAreFinite, InjectionIsThere
<1>11. (CHOOSE f \in [Tasks -> Pins \ used] : \A s, t \in Tasks : f[s] = f[t] => s = t)
         \in [Tasks -> Pins \ used]
  BY <1>10
<1> QED BY <1>11 DEF used

-----------------------------------------------------------------------------
(* Types *)

Typed == RoutesTypeOK /\ Steps

\* Where apply goes on.
Thens == {"pinned", "refused", "applied", "reloaded"}

LEMMA BlankIsTyped == Blank \in Contents
BY NothingIsKept DEF Blank, Contents

LEMMA TornIsTyped == Torn \in Contents
BY NothingIsKept DEF Torn, Contents

LEMMA RestingIsTyped ==
  /\ Resting \in EditorType /\ Waiting \in TurnType
  /\ Resting.at = "idle" /\ Waiting.at = "idle" /\ ~Waiting.quiet /\ Resting.todo = {}
BY NothingIsKept DEF Resting, Waiting, EditorType, TurnType, NoPin, Stages, EditsMade

\* A step that only moves an editor, to a record of the right type.
LEMMA EditorMoves ==
  ASSUME RoutesTypeOK, NEW e \in Editors, NEW x \in EditorType,
         editor' = [editor EXCEPT ![e] = x]
  PROVE  editor' \in [Editors -> EditorType] /\ editor'[e] = x
         /\ \A d \in Editors \ {e} : editor'[d] = editor[d]
BY DEF RoutesTypeOK

LEMMA TellIsTyped ==
  ASSUME RoutesTypeOK, NEW e \in Editors, NEW w \in {"none", "done", "refused", "failed"},
         Tell(e, w)
  PROVE  editor' \in [Editors -> EditorType] /\ editor'[e].at = "idle" /\ editor'[e].todo = {}
         /\ editor'[e].fd = 0 /\ editor'[e].pin = 0
         /\ \A d \in Editors \ {e} : editor'[d] = editor[d]
<1> DEFINE x == [Resting EXCEPT !.told = w, !.edit = IF w = "done" THEN editor[e].edit ELSE NoEdit]
<1>1. x \in EditorType /\ x.at = "idle" /\ x.todo = {} /\ x.fd = 0 /\ x.pin = 0
  BY NothingIsKept DEF RoutesTypeOK, EditorType, Resting, Stages, EditsMade
<1>2. editor' = [editor EXCEPT ![e] = x] BY DEF Tell
<1> HIDE DEF x
<1> QED BY <1>1, <1>2, EditorMoves

\* An editor whose place, and one or two things it holds, change.
LEMMA SetAt ==
  ASSUME NEW x \in EditorType, NEW a \in Stages
  PROVE  LET y == [x EXCEPT !.at = a]
         IN  /\ y \in EditorType /\ y.at = a
             /\ y.edit = x.edit /\ y.old = x.old /\ y.arg = x.arg /\ y.then = x.then
             /\ y.todo = x.todo /\ y.task = x.task /\ y.pin = x.pin
             /\ y.problems = x.problems /\ y.fd = x.fd
BY DEF EditorType

LEMMA SetTodo ==
  ASSUME NEW x \in EditorType, NEW s \in SUBSET Tasks
  PROVE  LET y == [x EXCEPT !.todo = s]
         IN  /\ y \in EditorType /\ y.at = x.at
             /\ y.edit = x.edit /\ y.old = x.old /\ y.arg = x.arg /\ y.then = x.then
             /\ y.todo = s /\ y.task = x.task /\ y.pin = x.pin
             /\ y.problems = x.problems /\ y.fd = x.fd
BY DEF EditorType

LEMMA SetProblems ==
  ASSUME NEW x \in EditorType, NEW s \in SUBSET Tasks
  PROVE  LET y == [x EXCEPT !.problems = s]
         IN  /\ y \in EditorType /\ y.at = x.at
             /\ y.edit = x.edit /\ y.old = x.old /\ y.arg = x.arg /\ y.then = x.then
             /\ y.todo = x.todo /\ y.task = x.task /\ y.pin = x.pin
             /\ y.problems = s /\ y.fd = x.fd
BY DEF EditorType

LEMMA SetOld ==
  ASSUME NEW x \in EditorType, NEW o \in Kept
  PROVE  LET y == [x EXCEPT !.old = o]
         IN  /\ y \in EditorType /\ y.at = x.at
             /\ y.edit = x.edit /\ y.old = o /\ y.arg = x.arg /\ y.then = x.then
             /\ y.todo = x.todo /\ y.task = x.task /\ y.pin = x.pin
             /\ y.problems = x.problems /\ y.fd = x.fd
BY DEF EditorType

LEMMA SetFd ==
  ASSUME NEW x \in EditorType, NEW i \in Files \cup {0}
  PROVE  LET y == [x EXCEPT !.fd = i]
         IN  /\ y \in EditorType /\ y.at = x.at
             /\ y.edit = x.edit /\ y.old = x.old /\ y.arg = x.arg /\ y.then = x.then
             /\ y.todo = x.todo /\ y.task = x.task /\ y.pin = x.pin
             /\ y.problems = x.problems /\ y.fd = i
BY DEF EditorType

\* Where an editor that applies begins.
LEMMA ApplyIsTyped ==
  ASSUME NEW x \in EditorType, NEW o \in Kept, NEW then \in Thens
  PROVE  LET y == Apply(x, o, then)
         IN  /\ y \in EditorType /\ y.at = "restore"
             /\ y.edit = x.edit /\ y.old = x.old /\ y.arg = o /\ y.then = then
             /\ y.todo = x.todo /\ y.task = x.task /\ y.pin = x.pin
             /\ y.problems = {} /\ y.fd = x.fd
<1> DEFINE a == [x EXCEPT !.at = "restore"]
           b == [a EXCEPT !.arg = o, !.then = then]
           c == [b EXCEPT !.problems = {}]
<1>0. Apply(x, o, then) = c BY DEF Apply
<1>1. /\ a \in EditorType /\ a.at = "restore"
      /\ a.edit = x.edit /\ a.old = x.old /\ a.arg = x.arg /\ a.then = x.then
      /\ a.todo = x.todo /\ a.task = x.task /\ a.pin = x.pin
      /\ a.problems = x.problems /\ a.fd = x.fd
  <2>1. "restore" \in Stages BY DEF Stages
  <2> QED BY <2>1, SetAt
<1> HIDE DEF a
<1>2. /\ b \in EditorType /\ b.at = a.at
      /\ b.edit = a.edit /\ b.old = a.old /\ b.arg = o /\ b.then = then
      /\ b.todo = a.todo /\ b.task = a.task /\ b.pin = a.pin
      /\ b.problems = a.problems /\ b.fd = a.fd
  BY <1>1 DEF EditorType, Thens
<1> HIDE DEF b
<1>3. /\ c \in EditorType /\ c.at = b.at
      /\ c.edit = b.edit /\ c.old = b.old /\ c.arg = b.arg /\ c.then = b.then
      /\ c.todo = b.todo /\ c.task = b.task /\ c.pin = b.pin
      /\ c.problems = {} /\ c.fd = b.fd
  BY <1>2, SetProblems
<1> HIDE DEF c
<1> QED BY <1>0, <1>1, <1>2, <1>3

\* An editor that is sent through apply.
Sent(e, o, then) == editor' = [editor EXCEPT ![e] = Apply(@, o, then)]

LEMMA ApplyMoves ==
  ASSUME RoutesTypeOK, NEW e \in Editors, NEW o \in Kept,
         NEW then \in Thens,
         Sent(e, o, then)
  PROVE  /\ editor' \in [Editors -> EditorType]
         /\ \A d \in Editors \ {e} : editor'[d] = editor[d]
         /\ editor'[e].at = "restore"
         /\ editor'[e].edit = editor[e].edit /\ editor'[e].old = editor[e].old
         /\ editor'[e].arg = o /\ editor'[e].then = then
         /\ editor'[e].todo = editor[e].todo /\ editor'[e].task = editor[e].task
         /\ editor'[e].pin = editor[e].pin
         /\ editor'[e].problems = {} /\ editor'[e].fd = editor[e].fd
<1> DEFINE x == editor[e]
           y == Apply(x, o, then)
<1>1. x \in EditorType BY DEF RoutesTypeOK
<1>3. editor' = [editor EXCEPT ![e] = y] BY DEF Sent
<1> HIDE DEF x
<1>2. /\ y \in EditorType /\ y.at = "restore"
      /\ y.edit = x.edit /\ y.old = x.old /\ y.arg = o /\ y.then = then
      /\ y.todo = x.todo /\ y.task = x.task /\ y.pin = x.pin
      /\ y.problems = {} /\ y.fd = x.fd
  BY <1>1, ApplyIsTyped
<1> HIDE DEF y
<1>4. /\ editor' \in [Editors -> EditorType] /\ editor'[e] = y
      /\ \A d \in Editors \ {e} : editor'[d] = editor[d]
  BY <1>2, <1>3, EditorMoves
<1> QED BY <1>2, <1>4 DEF x
\* An editor that goes on.
LEMMA AtMoves ==
  ASSUME RoutesTypeOK, NEW e \in Editors,
         NEW a \in Stages,
         editor' = [editor EXCEPT ![e].at = a]
  PROVE  /\ editor' \in [Editors -> EditorType]
         /\ \A d \in Editors \ {e} : editor'[d] = editor[d]
         /\ editor'[e].at = a
         /\ editor'[e].edit = editor[e].edit
         /\ editor'[e].old = editor[e].old
         /\ editor'[e].arg = editor[e].arg
         /\ editor'[e].then = editor[e].then
         /\ editor'[e].todo = editor[e].todo
         /\ editor'[e].task = editor[e].task
         /\ editor'[e].pin = editor[e].pin
         /\ editor'[e].problems = editor[e].problems
         /\ editor'[e].fd = editor[e].fd
<1> DEFINE x == editor[e]
           y1 == [x EXCEPT !.at = a]
<1>0. x \in EditorType BY DEF RoutesTypeOK
<1>1. editor' = [editor EXCEPT ![e] = y1] OBVIOUS
<1> HIDE DEF x
<1>2. /\ y1 \in EditorType
      /\ y1.at = a /\ y1.edit = x.edit /\ y1.old = x.old /\ y1.arg = x.arg
      /\ y1.then = x.then /\ y1.todo = x.todo /\ y1.task = x.task
      /\ y1.pin = x.pin /\ y1.problems = x.problems /\ y1.fd = x.fd
  BY <1>0 DEF EditorType, Stages
<1> HIDE DEF y1
<1>3. /\ editor' \in [Editors -> EditorType] /\ editor'[e] = y1
      /\ \A d \in Editors \ {e} : editor'[d] = editor[d]
  BY <1>1, <1>2, EditorMoves
<1> QED BY <1>2, <1>3 DEF x

\* An editor that knows what it has to place.
LEMMA TodoMoves ==
  ASSUME RoutesTypeOK, NEW e \in Editors,
         NEW s \in SUBSET Tasks,
         editor' = [editor EXCEPT ![e].at = "place", ![e].todo = s]
  PROVE  /\ editor' \in [Editors -> EditorType]
         /\ \A d \in Editors \ {e} : editor'[d] = editor[d]
         /\ editor'[e].at = "place"
         /\ editor'[e].edit = editor[e].edit
         /\ editor'[e].old = editor[e].old
         /\ editor'[e].arg = editor[e].arg
         /\ editor'[e].then = editor[e].then
         /\ editor'[e].todo = s
         /\ editor'[e].task = editor[e].task
         /\ editor'[e].pin = editor[e].pin
         /\ editor'[e].problems = editor[e].problems
         /\ editor'[e].fd = editor[e].fd
<1> DEFINE x == editor[e]
           y1 == [x EXCEPT !.at = "place"]
           y2 == [y1 EXCEPT !.todo = s]
<1>0. x \in EditorType BY DEF RoutesTypeOK
<1>1. editor' = [editor EXCEPT ![e] = y2] OBVIOUS
<1> HIDE DEF x
<1>2. /\ y1 \in EditorType
      /\ y1.at = "place" /\ y1.edit = x.edit /\ y1.old = x.old /\ y1.arg = x.arg
      /\ y1.then = x.then /\ y1.todo = x.todo /\ y1.task = x.task
      /\ y1.pin = x.pin /\ y1.problems = x.problems /\ y1.fd = x.fd
  BY <1>0 DEF EditorType, Stages
<1> HIDE DEF y1
<1>3. /\ y2 \in EditorType
      /\ y2.at = y1.at /\ y2.edit = y1.edit /\ y2.old = y1.old /\ y2.arg = y1.arg
      /\ y2.then = y1.then /\ y2.todo = s /\ y2.task = y1.task
      /\ y2.pin = y1.pin /\ y2.problems = y1.problems /\ y2.fd = y1.fd
  BY <1>2 DEF EditorType, Stages
<1> HIDE DEF y2
<1>4. /\ editor' \in [Editors -> EditorType] /\ editor'[e] = y2
      /\ \A d \in Editors \ {e} : editor'[d] = editor[d]
  BY <1>1, <1>3, EditorMoves
<1> QED BY <1>2, <1>3, <1>4 DEF x

\* An editor that has put a pin at the head of a chain.
PlacedAt(e, s, t, n) == editor' = [editor EXCEPT ![e].todo = s, ![e].task = t, ![e].pin = n, ![e].at = "hold"]

LEMMA PlaceMoves ==
  ASSUME RoutesTypeOK, NEW e \in Editors,
         NEW s \in SUBSET Tasks,
         NEW t \in Tasks,
         NEW n \in Pins,
         PlacedAt(e, s, t, n)
  PROVE  /\ editor' \in [Editors -> EditorType]
         /\ \A d \in Editors \ {e} : editor'[d] = editor[d]
         /\ editor'[e].at = "hold"
         /\ editor'[e].edit = editor[e].edit
         /\ editor'[e].old = editor[e].old
         /\ editor'[e].arg = editor[e].arg
         /\ editor'[e].then = editor[e].then
         /\ editor'[e].todo = s
         /\ editor'[e].task = t
         /\ editor'[e].pin = n
         /\ editor'[e].problems = editor[e].problems
         /\ editor'[e].fd = editor[e].fd
<1> DEFINE x == editor[e]
           y1 == [x EXCEPT !.todo = s]
           y2 == [y1 EXCEPT !.task = t]
           y3 == [y2 EXCEPT !.pin = n]
           y4 == [y3 EXCEPT !.at = "hold"]
<1>0. x \in EditorType BY DEF RoutesTypeOK
<1>1. editor' = [editor EXCEPT ![e] = y4] BY DEF PlacedAt
<1> HIDE DEF x
<1>2. /\ y1 \in EditorType
      /\ y1.at = x.at /\ y1.edit = x.edit /\ y1.old = x.old /\ y1.arg = x.arg
      /\ y1.then = x.then /\ y1.todo = s /\ y1.task = x.task
      /\ y1.pin = x.pin /\ y1.problems = x.problems /\ y1.fd = x.fd
  BY <1>0 DEF EditorType, Stages
<1> HIDE DEF y1
<1>3. /\ y2 \in EditorType
      /\ y2.at = y1.at /\ y2.edit = y1.edit /\ y2.old = y1.old /\ y2.arg = y1.arg
      /\ y2.then = y1.then /\ y2.todo = y1.todo /\ y2.task = t
      /\ y2.pin = y1.pin /\ y2.problems = y1.problems /\ y2.fd = y1.fd
  BY <1>2 DEF EditorType, Stages
<1> HIDE DEF y2
<1>4. /\ y3 \in EditorType
      /\ y3.at = y2.at /\ y3.edit = y2.edit /\ y3.old = y2.old /\ y3.arg = y2.arg
      /\ y3.then = y2.then /\ y3.todo = y2.todo /\ y3.task = y2.task
      /\ y3.pin = n /\ y3.problems = y2.problems /\ y3.fd = y2.fd
  BY <1>3 DEF EditorType, Stages
<1> HIDE DEF y3
<1>5. /\ y4 \in EditorType
      /\ y4.at = "hold" /\ y4.edit = y3.edit /\ y4.old = y3.old /\ y4.arg = y3.arg
      /\ y4.then = y3.then /\ y4.todo = y3.todo /\ y4.task = y3.task
      /\ y4.pin = y3.pin /\ y4.problems = y3.problems /\ y4.fd = y3.fd
  BY <1>4 DEF EditorType, Stages
<1> HIDE DEF y4
<1>6. /\ editor' \in [Editors -> EditorType] /\ editor'[e] = y4
      /\ \A d \in Editors \ {e} : editor'[d] = editor[d]
  BY <1>1, <1>5, EditorMoves
<1> QED BY <1>2, <1>3, <1>4, <1>5, <1>6 DEF x

\* An editor whose pin is a problem.
LEMMA ProblemMoves ==
  ASSUME RoutesTypeOK, NEW e \in Editors,
         NEW s \in SUBSET Tasks,
         NEW b \in SUBSET Tasks,
         editor' = [editor EXCEPT ![e].todo = s, ![e].problems = b]
  PROVE  /\ editor' \in [Editors -> EditorType]
         /\ \A d \in Editors \ {e} : editor'[d] = editor[d]
         /\ editor'[e].at = editor[e].at
         /\ editor'[e].edit = editor[e].edit
         /\ editor'[e].old = editor[e].old
         /\ editor'[e].arg = editor[e].arg
         /\ editor'[e].then = editor[e].then
         /\ editor'[e].todo = s
         /\ editor'[e].task = editor[e].task
         /\ editor'[e].pin = editor[e].pin
         /\ editor'[e].problems = b
         /\ editor'[e].fd = editor[e].fd
<1> DEFINE x == editor[e]
           y1 == [x EXCEPT !.todo = s]
           y2 == [y1 EXCEPT !.problems = b]
<1>0. x \in EditorType BY DEF RoutesTypeOK
<1>1. editor' = [editor EXCEPT ![e] = y2] OBVIOUS
<1> HIDE DEF x
<1>2. /\ y1 \in EditorType
      /\ y1.at = x.at /\ y1.edit = x.edit /\ y1.old = x.old /\ y1.arg = x.arg
      /\ y1.then = x.then /\ y1.todo = s /\ y1.task = x.task
      /\ y1.pin = x.pin /\ y1.problems = x.problems /\ y1.fd = x.fd
  BY <1>0 DEF EditorType, Stages
<1> HIDE DEF y1
<1>3. /\ y2 \in EditorType
      /\ y2.at = y1.at /\ y2.edit = y1.edit /\ y2.old = y1.old /\ y2.arg = y1.arg
      /\ y2.then = y1.then /\ y2.todo = y1.todo /\ y2.task = y1.task
      /\ y2.pin = y1.pin /\ y2.problems = b /\ y2.fd = y1.fd
  BY <1>2 DEF EditorType, Stages
<1> HIDE DEF y2
<1>4. /\ editor' \in [Editors -> EditorType] /\ editor'[e] = y2
      /\ \A d \in Editors \ {e} : editor'[d] = editor[d]
  BY <1>1, <1>3, EditorMoves
<1> QED BY <1>2, <1>3, <1>4 DEF x

\* An editor that is done with a pin.
LEMMA HoldMoves ==
  ASSUME RoutesTypeOK, NEW e \in Editors,
         editor' = [editor EXCEPT ![e].at = "place", ![e].task = NoTask, ![e].pin = 0]
  PROVE  /\ editor' \in [Editors -> EditorType]
         /\ \A d \in Editors \ {e} : editor'[d] = editor[d]
         /\ editor'[e].at = "place"
         /\ editor'[e].edit = editor[e].edit
         /\ editor'[e].old = editor[e].old
         /\ editor'[e].arg = editor[e].arg
         /\ editor'[e].then = editor[e].then
         /\ editor'[e].todo = editor[e].todo
         /\ editor'[e].task = NoTask
         /\ editor'[e].pin = 0
         /\ editor'[e].problems = editor[e].problems
         /\ editor'[e].fd = editor[e].fd
<1> DEFINE x == editor[e]
           y1 == [x EXCEPT !.at = "place"]
           y2 == [y1 EXCEPT !.task = NoTask]
           y3 == [y2 EXCEPT !.pin = 0]
<1>0. x \in EditorType BY DEF RoutesTypeOK
<1>1. editor' = [editor EXCEPT ![e] = y3] OBVIOUS
<1> HIDE DEF x
<1>2. /\ y1 \in EditorType
      /\ y1.at = "place" /\ y1.edit = x.edit /\ y1.old = x.old /\ y1.arg = x.arg
      /\ y1.then = x.then /\ y1.todo = x.todo /\ y1.task = x.task
      /\ y1.pin = x.pin /\ y1.problems = x.problems /\ y1.fd = x.fd
  BY <1>0 DEF EditorType, Stages
<1> HIDE DEF y1
<1>3. /\ y2 \in EditorType
      /\ y2.at = y1.at /\ y2.edit = y1.edit /\ y2.old = y1.old /\ y2.arg = y1.arg
      /\ y2.then = y1.then /\ y2.todo = y1.todo /\ y2.task = NoTask
      /\ y2.pin = y1.pin /\ y2.problems = y1.problems /\ y2.fd = y1.fd
  BY <1>2 DEF EditorType, Stages
<1> HIDE DEF y2
<1>4. /\ y3 \in EditorType
      /\ y3.at = y2.at /\ y3.edit = y2.edit /\ y3.old = y2.old /\ y3.arg = y2.arg
      /\ y3.then = y2.then /\ y3.todo = y2.todo /\ y3.task = y2.task
      /\ y3.pin = 0 /\ y3.problems = y2.problems /\ y3.fd = y2.fd
  BY <1>3 DEF EditorType, Stages
<1> HIDE DEF y3
<1>5. /\ editor' \in [Editors -> EditorType] /\ editor'[e] = y3
      /\ \A d \in Editors \ {e} : editor'[d] = editor[d]
  BY <1>1, <1>4, EditorMoves
<1> QED BY <1>2, <1>3, <1>4, <1>5 DEF x

\* An editor whose apply is over.
LEMMA ReturnMoves ==
  ASSUME RoutesTypeOK, NEW e \in Editors,
         NEW a \in Stages,
         editor' = [editor EXCEPT ![e].at = a, ![e].problems = {}]
  PROVE  /\ editor' \in [Editors -> EditorType]
         /\ \A d \in Editors \ {e} : editor'[d] = editor[d]
         /\ editor'[e].at = a
         /\ editor'[e].edit = editor[e].edit
         /\ editor'[e].old = editor[e].old
         /\ editor'[e].arg = editor[e].arg
         /\ editor'[e].then = editor[e].then
         /\ editor'[e].todo = editor[e].todo
         /\ editor'[e].task = editor[e].task
         /\ editor'[e].pin = editor[e].pin
         /\ editor'[e].problems = {}
         /\ editor'[e].fd = editor[e].fd
<1> DEFINE x == editor[e]
           y1 == [x EXCEPT !.at = a]
           y2 == [y1 EXCEPT !.problems = {}]
<1>0. x \in EditorType BY DEF RoutesTypeOK
<1>1. editor' = [editor EXCEPT ![e] = y2] OBVIOUS
<1> HIDE DEF x
<1>2. /\ y1 \in EditorType
      /\ y1.at = a /\ y1.edit = x.edit /\ y1.old = x.old /\ y1.arg = x.arg
      /\ y1.then = x.then /\ y1.todo = x.todo /\ y1.task = x.task
      /\ y1.pin = x.pin /\ y1.problems = x.problems /\ y1.fd = x.fd
  BY <1>0 DEF EditorType, Stages
<1> HIDE DEF y1
<1>3. /\ y2 \in EditorType
      /\ y2.at = y1.at /\ y2.edit = y1.edit /\ y2.old = y1.old /\ y2.arg = y1.arg
      /\ y2.then = y1.then /\ y2.todo = y1.todo /\ y2.task = y1.task
      /\ y2.pin = y1.pin /\ y2.problems = {} /\ y2.fd = y1.fd
  BY <1>2 DEF EditorType, Stages
<1> HIDE DEF y2
<1>4. /\ editor' \in [Editors -> EditorType] /\ editor'[e] = y2
      /\ \A d \in Editors \ {e} : editor'[d] = editor[d]
  BY <1>1, <1>3, EditorMoves
<1> QED BY <1>2, <1>3, <1>4 DEF x

\* An editor that saves what it has applied.
LEMMA SaveMoves ==
  ASSUME RoutesTypeOK, NEW e \in Editors,
         NEW o \in Kept,
         editor' = [editor EXCEPT ![e] = [@ EXCEPT !.at = "open", !.old = o, !.problems = {}]]
  PROVE  /\ editor' \in [Editors -> EditorType]
         /\ \A d \in Editors \ {e} : editor'[d] = editor[d]
         /\ editor'[e].at = "open"
         /\ editor'[e].edit = editor[e].edit
         /\ editor'[e].old = o
         /\ editor'[e].arg = editor[e].arg
         /\ editor'[e].then = editor[e].then
         /\ editor'[e].todo = editor[e].todo
         /\ editor'[e].task = editor[e].task
         /\ editor'[e].pin = editor[e].pin
         /\ editor'[e].problems = {}
         /\ editor'[e].fd = editor[e].fd
<1> DEFINE x == editor[e]
           y1 == [x EXCEPT !.at = "open"]
           y2 == [y1 EXCEPT !.old = o]
           y3 == [y2 EXCEPT !.problems = {}]
<1>0. x \in EditorType BY DEF RoutesTypeOK
<1>1. editor' = [editor EXCEPT ![e] = y3] OBVIOUS
<1> HIDE DEF x
<1>2. /\ y1 \in EditorType
      /\ y1.at = "open" /\ y1.edit = x.edit /\ y1.old = x.old /\ y1.arg = x.arg
      /\ y1.then = x.then /\ y1.todo = x.todo /\ y1.task = x.task
      /\ y1.pin = x.pin /\ y1.problems = x.problems /\ y1.fd = x.fd
  BY <1>0 DEF EditorType, Stages
<1> HIDE DEF y1
<1>3. /\ y2 \in EditorType
      /\ y2.at = y1.at /\ y2.edit = y1.edit /\ y2.old = o /\ y2.arg = y1.arg
      /\ y2.then = y1.then /\ y2.todo = y1.todo /\ y2.task = y1.task
      /\ y2.pin = y1.pin /\ y2.problems = y1.problems /\ y2.fd = y1.fd
  BY <1>2 DEF EditorType, Stages
<1> HIDE DEF y2
<1>4. /\ y3 \in EditorType
      /\ y3.at = y2.at /\ y3.edit = y2.edit /\ y3.old = y2.old /\ y3.arg = y2.arg
      /\ y3.then = y2.then /\ y3.todo = y2.todo /\ y3.task = y2.task
      /\ y3.pin = y2.pin /\ y3.problems = {} /\ y3.fd = y2.fd
  BY <1>3 DEF EditorType, Stages
<1> HIDE DEF y3
<1>5. /\ editor' \in [Editors -> EditorType] /\ editor'[e] = y3
      /\ \A d \in Editors \ {e} : editor'[d] = editor[d]
  BY <1>1, <1>4, EditorMoves
<1> QED BY <1>2, <1>3, <1>4, <1>5 DEF x

\* An editor that opens or closes the .tmp.
LEMMA FdMoves ==
  ASSUME RoutesTypeOK, NEW e \in Editors,
         NEW a \in Stages,
         NEW i \in Files \cup {0},
         editor' = [editor EXCEPT ![e].at = a, ![e].fd = i]
  PROVE  /\ editor' \in [Editors -> EditorType]
         /\ \A d \in Editors \ {e} : editor'[d] = editor[d]
         /\ editor'[e].at = a
         /\ editor'[e].edit = editor[e].edit
         /\ editor'[e].old = editor[e].old
         /\ editor'[e].arg = editor[e].arg
         /\ editor'[e].then = editor[e].then
         /\ editor'[e].todo = editor[e].todo
         /\ editor'[e].task = editor[e].task
         /\ editor'[e].pin = editor[e].pin
         /\ editor'[e].problems = editor[e].problems
         /\ editor'[e].fd = i
<1> DEFINE x == editor[e]
           y1 == [x EXCEPT !.at = a]
           y2 == [y1 EXCEPT !.fd = i]
<1>0. x \in EditorType BY DEF RoutesTypeOK
<1>1. editor' = [editor EXCEPT ![e] = y2] OBVIOUS
<1> HIDE DEF x
<1>2. /\ y1 \in EditorType
      /\ y1.at = a /\ y1.edit = x.edit /\ y1.old = x.old /\ y1.arg = x.arg
      /\ y1.then = x.then /\ y1.todo = x.todo /\ y1.task = x.task
      /\ y1.pin = x.pin /\ y1.problems = x.problems /\ y1.fd = x.fd
  BY <1>0 DEF EditorType, Stages
<1> HIDE DEF y1
<1>3. /\ y2 \in EditorType
      /\ y2.at = y1.at /\ y2.edit = y1.edit /\ y2.old = y1.old /\ y2.arg = y1.arg
      /\ y2.then = y1.then /\ y2.todo = y1.todo /\ y2.task = y1.task
      /\ y2.pin = y1.pin /\ y2.problems = y1.problems /\ y2.fd = i
  BY <1>2 DEF EditorType, Stages
<1> HIDE DEF y2
<1>4. /\ editor' \in [Editors -> EditorType] /\ editor'[e] = y2
      /\ \A d \in Editors \ {e} : editor'[d] = editor[d]
  BY <1>1, <1>3, EditorMoves
<1> QED BY <1>2, <1>3, <1>4 DEF x

-----------------------------------------------------------------------------
(* What each action does, with the types it keeps *)

LEMMA TellMoves ==
  ASSUME RoutesTypeOK, NEW e \in Editors, NEW w \in {"done", "refused", "failed"}, Tell(e, w)
  PROVE  /\ editor' \in [Editors -> EditorType]
         /\ \A d \in Editors \ {e} : editor'[d] = editor[d]
         /\ editor'[e].at = "idle" /\ editor'[e].todo = {}
<1> DEFINE u == IF w = "done" THEN editor[e].edit ELSE NoEdit
           x == [Resting EXCEPT !.told = w, !.edit = u]
<1>0. u \in EditsMade BY DEF RoutesTypeOK, EditorType, EditsMade
<1>1. editor' = [editor EXCEPT ![e] = x] BY DEF Tell
<1> HIDE DEF u
<1>2. x \in EditorType /\ x.at = "idle" /\ x.todo = {} BY <1>0, RestingIsTyped DEF EditorType
<1> HIDE DEF x
<1> QED BY <1>1, <1>2, EditorMoves

\* The steps of an edit that leave the table and the turns alone, and take
\* the editor somewhere it has neither a pin to hold nor one to check.
LEMMA StepsStay ==
  ASSUME Typed, RoutesTypeOK', NEW e \in Editors, UNCHANGED <<live, turn>>,
         \A d \in Editors \ {e} : editor'[d] = editor[d],
         editor'[e].at \notin {"check", "hold"},
         editor'[e].at = "place" \/ editor'[e].todo = {},
         \A t \in editor'[e].todo : editor'[e].arg.pins[t] # None
  PROVE  Typed'
BY DEF Typed, Steps

LEMMA LoadDoes ==
  ASSUME Typed, NEW e \in Editors, Load(e)
  PROVE  /\ Typed' /\ UNCHANGED <<routes, tmp, content, live, active, registered, ahead>>
         /\ \A d \in Editors \ {e} : editor'[d] = editor[d]
         /\ editor[e].at = "idle" /\ editor'[e].at \in {"check", "reload", "open"}
         /\ editor'[e].at = "check" => editor'[e].old = Loaded /\ editor'[e].edit.kind = "pin"
         /\ \A r \in Turns :
              /\ turn'[r].at = turn[r].at /\ turn'[r].task = turn[r].task
              /\ turn'[r].head = turn[r].head
              /\ turn'[r].quiet => turn[r].quiet /\ Home[r] # Home[e]
              /\ turn'[r].want # None => turn'[r].want = turn[r].want
<1>1. PICK edit \in Edits(e) :
        /\ editor' = [editor EXCEPT ![e] = [Resting EXCEPT
             !.edit = edit, !.old = IF edit.kind = "pin" THEN Loaded ELSE Nothing,
             !.arg = Changed(edit, Loaded),
             !.at = IF edit.kind = "pin" THEN "check"
                    ELSE IF edit.kind = "clear" /\ Loaded.pins[edit.task] = None
                         THEN "reload" ELSE "open"]]
        /\ turn' = [r \in Turns |-> [turn[r] EXCEPT
             !.quiet = @ /\ Home[r] # Home[e],
             !.want = IF Touches(edit, turn[r].task) THEN None ELSE @]]
  BY DEF Load
<1> DEFINE old == IF edit.kind = "pin" THEN Loaded ELSE Nothing
           place == IF edit.kind = "pin" THEN "check"
                 ELSE IF edit.kind = "clear" /\ Loaded.pins[edit.task] = None
                      THEN "reload" ELSE "open"
           arg == Changed(edit, Loaded)
           y == [Resting EXCEPT !.edit = edit, !.old = old]
           x == [y EXCEPT !.arg = arg, !.at = place]
<1>2. /\ old \in Kept /\ arg \in Kept /\ edit \in EditsMade
      /\ place \in {"check", "reload", "open"} /\ (place = "check" => edit.kind = "pin" /\ old = Loaded)
  BY LoadedIsKept, NothingIsKept, ChangedIsKept, EditIsTyped DEF Typed
<1>3. editor' = [editor EXCEPT ![e] = x] BY <1>1
<1> HIDE DEF old, place, arg
<1>4. y \in EditorType /\ y.todo = {} /\ y.edit = edit /\ y.old = old
  BY <1>2, RestingIsTyped DEF EditorType
<1> HIDE DEF y
<1>5. x \in EditorType /\ x.todo = {} /\ x.edit = edit /\ x.old = old /\ x.at = place
  BY <1>2, <1>4 DEF EditorType, Stages
<1> HIDE DEF x
<1>6. /\ editor' \in [Editors -> EditorType] /\ editor'[e] = x
      /\ \A d \in Editors \ {e} : editor'[d] = editor[d]
  BY <1>3, <1>5, EditorMoves DEF Typed
<1>7. turn' \in [Turns -> TurnType] /\ \A r \in Turns :
        /\ turn'[r].at = turn[r].at /\ turn'[r].task = turn[r].task
        /\ turn'[r].head = turn[r].head
        /\ turn'[r].quiet => turn[r].quiet /\ Home[r] # Home[e]
        /\ turn'[r].want # None => turn'[r].want = turn[r].want
  <2> SUFFICES ASSUME NEW r \in Turns
               PROVE  /\ turn'[r] \in TurnType
                      /\ turn'[r].at = turn[r].at /\ turn'[r].task = turn[r].task
                      /\ turn'[r].head = turn[r].head
                      /\ turn'[r].quiet => turn[r].quiet /\ Home[r] # Home[e]
                      /\ turn'[r].want # None => turn'[r].want = turn[r].want
    BY <1>1
  <2> DEFINE q == turn[r].quiet /\ Home[r] # Home[e]
             w == IF Touches(edit, turn[r].task) THEN None ELSE turn[r].want
  <2>1. turn[r] \in TurnType BY DEF Typed, RoutesTypeOK
  <2>2. q \in BOOLEAN /\ w \in Specs \cup {None} BY <2>1 DEF TurnType
  <2>3. turn'[r] = [turn[r] EXCEPT !.quiet = q, !.want = w] BY <1>1
  <2>4. (q => turn[r].quiet /\ Home[r] # Home[e]) /\ (w # None => w = turn[r].want) OBVIOUS
  <2> HIDE DEF q, w
  <2>5. /\ turn'[r] \in TurnType
        /\ turn'[r].at = turn[r].at /\ turn'[r].task = turn[r].task
        /\ turn'[r].head = turn[r].head /\ turn'[r].quiet = q /\ turn'[r].want = w
    BY <2>1, <2>2, <2>3 DEF TurnType
  <2> QED BY <2>4, <2>5
<1>8. UNCHANGED <<routes, tmp, content, live, active, registered, ahead>> /\ editor[e].at = "idle"
  BY DEF Load, disk, table
<1>9. RoutesTypeOK' BY <1>6, <1>7, <1>8 DEF Typed, RoutesTypeOK
<1>10. editor'[e].todo = {} /\ editor'[e].at = place /\ editor'[e].old = old /\ editor'[e].edit = edit
  BY <1>5, <1>6
<1>11. Steps'
  <2>1. editor'[e].at = "check" => editor'[e].edit.task \in Tasks /\ editor'[e].edit.spec \in Specs
    BY <1>2, <1>10, EditIsTyped
  <2>2. editor'[e].at # "hold" BY <1>2, <1>10
  <2> QED BY <1>6, <1>7, <1>8, <1>10, <2>1, <2>2 DEF Typed, Steps
<1> QED BY <1>2, <1>6, <1>7, <1>8, <1>9, <1>10, <1>11 DEF Typed

LEMMA CheckDoes ==
  ASSUME Typed, NEW e \in Editors, CheckPin(e)
  PROVE  /\ Typed' /\ UNCHANGED <<routes, tmp, content, live, active, ahead, turn>>
         /\ \A d \in Editors \ {e} : editor'[d] = editor[d]
         /\ editor[e].at = "check"
         /\ \/ editor'[e].at = "restore" /\ editor'[e].then = "pinned"
               /\ editor'[e].old = editor[e].old /\ editor'[e].edit = editor[e].edit
            \/ editor'[e].at = "idle"
<1> DEFINE ends == IF editor[e].old.ends = {} THEN registered[Home[e]] ELSE editor[e].old.ends
<1>1. /\ editor[e].at = "check" /\ registered' = [registered EXCEPT ![Home[e]] = ends]
      /\ UNCHANGED <<routes, tmp, content, live, active, ahead, turn>>
  BY DEF CheckPin, disk
<1>0. RoutesTypeOK BY DEF Typed
<1>2. ends \in SUBSET Customs /\ editor[e].arg \in Kept
  BY RoutesAssumption DEF Typed, RoutesTypeOK, EditorType, Kept
<1>3. registered' \in [Processes -> SUBSET Customs] BY <1>1, <1>2 DEF Typed, RoutesTypeOK
<1>4. CASE editor' = [editor EXCEPT ![e] = Apply(@, editor[e].arg, "pinned")]
  <2>0. "pinned" \in Thens BY DEF Thens
  <2>1. /\ editor' \in [Editors -> EditorType]
        /\ \A d \in Editors \ {e} : editor'[d] = editor[d]
        /\ editor'[e].at = "restore" /\ editor'[e].old = editor[e].old
        /\ editor'[e].arg = editor[e].arg /\ editor'[e].then = "pinned"
        /\ editor'[e].todo = editor[e].todo /\ editor'[e].edit = editor[e].edit
    <3>1. Sent(e, editor[e].arg, "pinned") BY <1>4 DEF Sent
    <3> QED BY <1>0, <1>2, <2>0, <3>1, ApplyMoves
  <2>2. RoutesTypeOK' BY <1>1, <1>3, <2>1 DEF Typed, RoutesTypeOK
  <2>3. editor'[e].todo = {} BY <1>1, <2>1 DEF Typed, Steps
  <2>4. Typed' BY <1>1, <2>1, <2>2, <2>3, StepsStay
  <2> QED BY <1>1, <2>1, <2>4
<1>5. CASE Tell(e, "refused")
  <2>1. /\ editor' \in [Editors -> EditorType]
        /\ \A d \in Editors \ {e} : editor'[d] = editor[d]
        /\ editor'[e].at = "idle" /\ editor'[e].todo = {}
    BY <1>5, TellMoves DEF Typed
  <2>2. RoutesTypeOK' BY <1>1, <1>3, <2>1 DEF Typed, RoutesTypeOK
  <2>3. Typed' BY <1>1, <2>1, <2>2, StepsStay
  <2> QED BY <1>1, <2>1, <2>3
<1> QED BY <1>4, <1>5 DEF CheckPin

LEMMA RestoreDoes ==
  ASSUME Typed, NEW e \in Editors, Restore(e)
  PROVE  /\ Typed' /\ UNCHANGED <<routes, tmp, content, active, turn>>
         /\ \A d \in Editors \ {e} : editor'[d] = editor[d]
         /\ editor[e].at = "restore" /\ editor'[e].at = "clear"
         /\ editor'[e].arg = editor[e].arg /\ editor'[e].then = editor[e].then
         /\ editor'[e].old = editor[e].old /\ editor'[e].edit = editor[e].edit
         /\ registered'[Home[e]] = editor[e].arg.ends /\ Home[e] \notin ahead'
         /\ \A t \in Tasks : live'[Home[e]][t] = NoPin
         /\ \A p \in Processes \ {Home[e]} : live'[p] = live[p] /\ registered'[p] = registered[p]
<1>1. /\ UNCHANGED <<routes, tmp, content, active, turn>> /\ editor[e].at = "restore"
      /\ registered' = [registered EXCEPT ![Home[e]] = editor[e].arg.ends]
      /\ live' = [live EXCEPT ![Home[e]] = [t \in Tasks |-> NoPin]]
      /\ ahead' = ahead \ {Home[e]}
      /\ editor' = [editor EXCEPT ![e].at = "clear"]
  BY DEF Restore, disk
<1>2. Home[e] \in Processes /\ editor[e].arg.ends \in SUBSET Customs
  BY RoutesAssumption DEF Typed, RoutesTypeOK, EditorType, Kept
<1>3. /\ registered' \in [Processes -> SUBSET Customs]
      /\ registered'[Home[e]] = editor[e].arg.ends
      /\ \A p \in Processes \ {Home[e]} : registered'[p] = registered[p]
  BY <1>1, <1>2 DEF Typed, RoutesTypeOK
<1>4. /\ live' \in [Processes -> [Tasks -> [spec : Specs \cup {None}, pin : Pins \cup {0}]]]
      /\ \A t \in Tasks : live'[Home[e]][t] = NoPin
      /\ \A p \in Processes \ {Home[e]} : live'[p] = live[p]
  BY <1>1, <1>2 DEF Typed, RoutesTypeOK, NoPin
<1>0. "clear" \in Stages BY DEF Stages
<1>5. /\ editor' \in [Editors -> EditorType]
      /\ \A d \in Editors \ {e} : editor'[d] = editor[d]
      /\ editor'[e].at = "clear" /\ editor'[e].arg = editor[e].arg
      /\ editor'[e].then = editor[e].then /\ editor'[e].old = editor[e].old /\ editor'[e].edit = editor[e].edit
      /\ editor'[e].todo = editor[e].todo
  BY <1>0, <1>1, AtMoves DEF Typed
<1>6. RoutesTypeOK' BY <1>1, <1>3, <1>4, <1>5 DEF Typed, RoutesTypeOK
<1>7. Steps'
  <2>1. \A p \in Processes, t \in Tasks : live'[p][t].spec # None <=> live'[p][t].pin # 0
    <3> SUFFICES ASSUME NEW p \in Processes, NEW t \in Tasks
                 PROVE  live'[p][t].spec # None <=> live'[p][t].pin # 0
      OBVIOUS
    <3>1. CASE p = Home[e] BY <3>1, <1>4 DEF NoPin
    <3>2. CASE p # Home[e] BY <3>2, <1>4 DEF Typed, Steps
    <3> QED BY <3>1, <3>2
  <2> QED BY <1>1, <1>5, <2>1 DEF Typed, Steps
<1> QED BY <1>1, <1>3, <1>4, <1>5, <1>6, <1>7 DEF Typed

LEMMA ClearDoes ==
  ASSUME Typed, NEW e \in Editors, ClearActive(e)
  PROVE  /\ Typed' /\ UNCHANGED <<routes, tmp, content, live, registered, ahead, turn>>
         /\ \A d \in Editors \ {e} : editor'[d] = editor[d]
         /\ editor[e].at = "clear" /\ editor'[e].at = "place"
         /\ editor'[e].arg = editor[e].arg /\ editor'[e].then = editor[e].then
         /\ editor'[e].old = editor[e].old /\ editor'[e].edit = editor[e].edit
         /\ editor'[e].todo = {t \in Tasks : editor[e].arg.pins[t] # None}
         /\ \A t \in Tasks : active'[Home[e]][t] = 0
         /\ \A p \in Processes \ {Home[e]} : active'[p] = active[p]
<1> DEFINE s == {t \in Tasks : editor[e].arg.pins[t] # None}
<1>1. /\ UNCHANGED <<routes, tmp, content, live, registered, ahead, turn>> /\ editor[e].at = "clear"
      /\ active' = [active EXCEPT ![Home[e]] = [t \in Tasks |-> 0]]
      /\ editor' = [editor EXCEPT ![e].at = "place", ![e].todo = s]
  BY DEF ClearActive, disk
<1>2. s \in SUBSET Tasks /\ \A t \in s : editor[e].arg.pins[t] # None OBVIOUS
<1> HIDE DEF s
<1>3. /\ active' \in [Processes -> [Tasks -> Pins \cup {0}]]
      /\ \A t \in Tasks : active'[Home[e]][t] = 0
      /\ \A p \in Processes \ {Home[e]} : active'[p] = active[p]
  BY <1>1, RoutesAssumption DEF Typed, RoutesTypeOK
<1>4. /\ editor' \in [Editors -> EditorType]
      /\ \A d \in Editors \ {e} : editor'[d] = editor[d]
      /\ editor'[e].at = "place" /\ editor'[e].arg = editor[e].arg
      /\ editor'[e].then = editor[e].then /\ editor'[e].old = editor[e].old /\ editor'[e].edit = editor[e].edit
      /\ editor'[e].todo = s
  BY <1>1, <1>2, TodoMoves DEF Typed
<1>5. RoutesTypeOK' BY <1>1, <1>3, <1>4 DEF Typed, RoutesTypeOK
<1>6. Typed' BY <1>1, <1>2, <1>4, <1>5, StepsStay
<1> QED BY <1>1, <1>3, <1>4, <1>6 DEF s

LEMMA PlaceDoes ==
  ASSUME Typed, NEW e \in Editors, Place(e)
  PROVE  /\ Typed' /\ UNCHANGED <<routes, tmp, content, active, registered, ahead, turn>>
         /\ \A d \in Editors \ {e} : editor'[d] = editor[d]
         /\ editor[e].at = "place"
         /\ editor'[e].arg = editor[e].arg /\ editor'[e].then = editor[e].then
         /\ editor'[e].old = editor[e].old /\ editor'[e].edit = editor[e].edit
         /\ \E t \in editor[e].todo :
              LET spec == editor[e].arg.pins[t]
                  fits == /\ Valid(registered[Home[e]], t, spec)
                          /\ <<t, spec>> \notin Unfit
                          /\ \A u \in Tasks : live[Home[e]][u].spec # None
                               => Known(registered[Home[e]], live[Home[e]][u].spec)
              IN /\ editor'[e].todo = editor[e].todo \ {t} /\ t \in Tasks /\ spec # None
                 /\ \/ /\ fits /\ editor'[e].at = "hold" /\ editor'[e].task = t
                       /\ live'[Home[e]][t].spec = spec
                       /\ live'[Home[e]][t].pin = editor'[e].pin
                    \/ /\ ~fits /\ editor'[e].at = "place"
                       /\ live'[Home[e]][t] = live[Home[e]][t]
                 /\ \A u \in Tasks \ {t} : live'[Home[e]][u] = live[Home[e]][u]
         /\ \A p \in Processes \ {Home[e]} : live'[p] = live[p]
<1> DEFINE fits(t) == /\ Valid(registered[Home[e]], t, editor[e].arg.pins[t])
                      /\ <<t, editor[e].arg.pins[t]>> \notin Unfit
                      /\ \A u \in Tasks : live[Home[e]][u].spec # None
                           => Known(registered[Home[e]], live[Home[e]][u].spec)
<1>1. PICK t \in editor[e].todo :
        IF fits(t)
        THEN /\ live' = [live EXCEPT ![Home[e]][t] = [spec |-> editor[e].arg.pins[t], pin |-> Fresh]]
             /\ editor' = [editor EXCEPT ![e].todo = @ \ {t}, ![e].task = t,
                                         ![e].pin = Fresh, ![e].at = "hold"]
        ELSE /\ editor' = [editor EXCEPT ![e].todo = @ \ {t}, ![e].problems = @ \cup {t}]
             /\ UNCHANGED live
  BY DEF Place
<1> DEFINE s == editor[e].todo \ {t}
           b == editor[e].problems \cup {t}
           spec == editor[e].arg.pins[t]
           n == Fresh
<1>0. RoutesTypeOK BY DEF Typed
<1>2. editor[e].at = "place" /\ UNCHANGED <<routes, tmp, content, active, registered, ahead, turn>>
  BY DEF Place, disk
<1>3. /\ t \in Tasks /\ spec \in Specs /\ spec # None /\ n \in Pins /\ n # 0
      /\ s \in SUBSET Tasks /\ b \in SUBSET Tasks /\ Home[e] \in Processes
  BY FreshIsThere, RoutesAssumption DEF Typed, RoutesTypeOK, EditorType, Kept, Steps
<1>4. CASE fits(t)
  <2>1. /\ live' = [live EXCEPT ![Home[e]][t] = [spec |-> spec, pin |-> n]]
        /\ PlacedAt(e, s, t, n)
    BY <1>1, <1>4 DEF PlacedAt
  <2>2. s = editor[e].todo \ {t} /\ spec = editor[e].arg.pins[t] OBVIOUS
  <2> HIDE DEF s, b, spec, n
  <2>3. /\ live' \in [Processes -> [Tasks -> [spec : Specs \cup {None}, pin : Pins \cup {0}]]]
        /\ live'[Home[e]][t].spec = spec /\ live'[Home[e]][t].pin = n
        /\ \A u \in Tasks \ {t} : live'[Home[e]][u] = live[Home[e]][u]
        /\ \A p \in Processes \ {Home[e]} : live'[p] = live[p]
    BY <1>3, <2>1 DEF Typed, RoutesTypeOK
  <2>4. /\ editor' \in [Editors -> EditorType]
        /\ \A d \in Editors \ {e} : editor'[d] = editor[d]
        /\ editor'[e].todo = s /\ editor'[e].task = t /\ editor'[e].pin = n
        /\ editor'[e].at = "hold" /\ editor'[e].arg = editor[e].arg
        /\ editor'[e].then = editor[e].then /\ editor'[e].old = editor[e].old /\ editor'[e].edit = editor[e].edit
    BY <1>0, <1>3, <2>1, PlaceMoves
  <2>5. RoutesTypeOK' BY <1>2, <2>3, <2>4 DEF Typed, RoutesTypeOK
  <2>6. \A p \in Processes, u \in Tasks : live'[p][u].spec # None <=> live'[p][u].pin # 0
    <3> SUFFICES ASSUME NEW p \in Processes, NEW u \in Tasks
                 PROVE  live'[p][u].spec # None <=> live'[p][u].pin # 0
      OBVIOUS
    <3>1. CASE p = Home[e] /\ u = t BY <3>1, <1>3, <2>3
    <3>2. CASE ~(p = Home[e] /\ u = t)
      <4>1. live'[p][u] = live[p][u] BY <3>2, <2>3
      <4> QED BY <4>1 DEF Typed, Steps
    <3> QED BY <3>1, <3>2
  <2>7. \A x \in editor'[e].todo : editor'[e].arg.pins[x] # None
    BY <2>2, <2>4 DEF Typed, Steps
  <2>8. Steps' BY <1>2, <1>3, <2>4, <2>6, <2>7 DEF Typed, Steps
  <2>9. Typed' BY <2>5, <2>8 DEF Typed
  <2>10. /\ editor'[e].todo = editor[e].todo \ {t} /\ spec # None /\ fits(t)
         /\ editor'[e].at = "hold" /\ editor'[e].task = t
         /\ live'[Home[e]][t].spec = editor[e].arg.pins[t]
         /\ live'[Home[e]][t].pin = editor'[e].pin
    BY <1>3, <1>4, <2>2, <2>3, <2>4
  <2> QED BY <1>2, <1>3, <2>2, <2>3, <2>4, <2>9, <2>10
<1>5. CASE ~fits(t)
  <2>1. UNCHANGED live /\ editor' = [editor EXCEPT ![e].todo = s, ![e].problems = b]
    BY <1>1, <1>5
  <2>2. s = editor[e].todo \ {t} /\ spec = editor[e].arg.pins[t] OBVIOUS
  <2> HIDE DEF s, b, spec, n
  <2>4. /\ editor' \in [Editors -> EditorType]
        /\ \A d \in Editors \ {e} : editor'[d] = editor[d]
        /\ editor'[e].todo = s /\ editor'[e].at = editor[e].at
        /\ editor'[e].arg = editor[e].arg
        /\ editor'[e].then = editor[e].then /\ editor'[e].old = editor[e].old /\ editor'[e].edit = editor[e].edit
    BY <1>3, <2>1, ProblemMoves DEF Typed
  <2>5. RoutesTypeOK' BY <1>2, <2>1, <2>4 DEF Typed, RoutesTypeOK
  <2>7. \A x \in editor'[e].todo : editor'[e].arg.pins[x] # None
    BY <2>2, <2>4 DEF Typed, Steps
  <2>8. Typed' BY <1>2, <2>1, <2>4, <2>5, <2>7, StepsStay
  <2> QED BY <1>2, <1>3, <1>5, <2>1, <2>2, <2>4, <2>8
<1> QED BY <1>4, <1>5

LEMMA HoldDoes ==
  ASSUME Typed, NEW e \in Editors, Hold(e)
  PROVE  /\ Typed' /\ UNCHANGED <<routes, tmp, content, live, registered, ahead, turn>>
         /\ \A d \in Editors \ {e} : editor'[d] = editor[d]
         /\ editor[e].at = "hold" /\ editor'[e].at = "place" /\ editor[e].task \in Tasks
         /\ editor'[e].arg = editor[e].arg /\ editor'[e].then = editor[e].then
         /\ editor'[e].old = editor[e].old /\ editor'[e].edit = editor[e].edit /\ editor'[e].todo = editor[e].todo
         /\ active'[Home[e]][editor[e].task] = editor[e].pin
         /\ \A t \in Tasks \ {editor[e].task} : active'[Home[e]][t] = active[Home[e]][t]
         /\ \A p \in Processes \ {Home[e]} : active'[p] = active[p]
<1>1. /\ UNCHANGED <<routes, tmp, content, live, registered, ahead, turn>> /\ editor[e].at = "hold"
      /\ active' = [active EXCEPT ![Home[e]][editor[e].task] = editor[e].pin]
      /\ editor' = [editor EXCEPT ![e].at = "place", ![e].task = NoTask, ![e].pin = 0]
  BY DEF Hold, disk
<1>2. editor[e].task \in Tasks /\ editor[e].pin \in Pins \cup {0} /\ Home[e] \in Processes
  BY <1>1, RoutesAssumption DEF Typed, Steps, RoutesTypeOK, EditorType
<1>3. /\ active' \in [Processes -> [Tasks -> Pins \cup {0}]]
      /\ active'[Home[e]][editor[e].task] = editor[e].pin
      /\ \A t \in Tasks \ {editor[e].task} : active'[Home[e]][t] = active[Home[e]][t]
      /\ \A p \in Processes \ {Home[e]} : active'[p] = active[p]
  BY <1>1, <1>2 DEF Typed, RoutesTypeOK
<1>4. /\ editor' \in [Editors -> EditorType]
      /\ \A d \in Editors \ {e} : editor'[d] = editor[d]
      /\ editor'[e].at = "place" /\ editor'[e].arg = editor[e].arg
      /\ editor'[e].then = editor[e].then /\ editor'[e].old = editor[e].old /\ editor'[e].edit = editor[e].edit
      /\ editor'[e].todo = editor[e].todo
  BY <1>1, HoldMoves DEF Typed
<1>5. RoutesTypeOK' BY <1>1, <1>3, <1>4 DEF Typed, RoutesTypeOK
<1>6. \A t \in editor'[e].todo : editor'[e].arg.pins[t] # None BY <1>4 DEF Typed, Steps
<1>7. Typed' BY <1>1, <1>4, <1>5, <1>6, StepsStay
<1> QED BY <1>1, <1>2, <1>3, <1>4, <1>7

\* A step that sends the editor through apply again.
LEMMA AgainDoes ==
  ASSUME Typed, NEW e \in Editors, NEW o \in Kept, NEW then \in Thens, editor[e].todo = {},
         Sent(e, o, then),
         UNCHANGED <<live, active, registered, ahead, turn>>,
         routes' \in Files \cup {0}, tmp' \in Files \cup {0}, content' \in [Files -> Contents]
  PROVE  /\ Typed'
         /\ \A d \in Editors \ {e} : editor'[d] = editor[d]
         /\ editor'[e].at = "restore" /\ editor'[e].arg = o /\ editor'[e].then = then
         /\ editor'[e].old = editor[e].old
<1>1. /\ editor' \in [Editors -> EditorType]
      /\ \A d \in Editors \ {e} : editor'[d] = editor[d]
      /\ editor'[e].at = "restore" /\ editor'[e].arg = o /\ editor'[e].then = then
      /\ editor'[e].old = editor[e].old /\ editor'[e].todo = {}
  BY ApplyMoves DEF Typed
<1>2. RoutesTypeOK' BY <1>1 DEF Typed, RoutesTypeOK
<1>3. Typed' BY <1>1, <1>2, StepsStay
<1> QED BY <1>1, <1>3

LEMMA ReturnsDoes ==
  ASSUME Typed, NEW e \in Editors, Returns(e)
  PROVE  /\ Typed' /\ UNCHANGED <<routes, tmp, content, live, active, registered, ahead, turn>>
         /\ \A d \in Editors \ {e} : editor'[d] = editor[d]
         /\ editor[e].at = "place" /\ editor[e].todo = {}
         /\ \/ /\ editor[e].then = "pinned" /\ editor'[e].at = "restore"
               /\ editor'[e].arg = editor[e].old /\ editor'[e].then = "refused"
            \/ editor[e].then = "pinned" /\ editor'[e].at = "open" /\ editor'[e].edit = editor[e].edit
            \/ editor[e].then = "applied" /\ editor'[e].at = "reload"
            \/ editor[e].then \in {"refused", "reloaded"} /\ editor'[e].at = "idle"
<1>1. /\ UNCHANGED <<routes, tmp, content, live, active, registered, ahead, turn>>
      /\ editor[e].at = "place" /\ editor[e].todo = {}
  BY DEF Returns, disk, table
<1>0. /\ editor[e] \in EditorType /\ editor[e].old \in Kept
      /\ routes \in Files \cup {0} /\ tmp \in Files \cup {0} /\ content \in [Files -> Contents]
  BY DEF Typed, RoutesTypeOK, EditorType
<1>2. CASE editor[e].then = "pinned"
           /\ editor' = [editor EXCEPT ![e] = Apply(@, editor[e].old, "refused")]
  <2>1. "refused" \in Thens BY DEF Thens
  <2>2. Sent(e, editor[e].old, "refused") BY <1>2 DEF Sent
  <2>3. /\ Typed' /\ \A d \in Editors \ {e} : editor'[d] = editor[d]
        /\ editor'[e].at = "restore" /\ editor'[e].arg = editor[e].old
        /\ editor'[e].then = "refused"
    BY <1>0, <1>1, <2>1, <2>2, AgainDoes
  <2> QED BY <1>1, <1>2, <2>3
<1>3. CASE editor[e].then = "pinned"
           /\ editor' = [editor EXCEPT ![e] = [@ EXCEPT !.at = "open", !.old = Nothing, !.problems = {}]]
  <2>1. /\ editor' \in [Editors -> EditorType]
        /\ \A d \in Editors \ {e} : editor'[d] = editor[d]
        /\ editor'[e].at = "open" /\ editor'[e].todo = editor[e].todo
        /\ editor'[e].edit = editor[e].edit
    BY <1>3, NothingIsKept, SaveMoves DEF Typed
  <2>2. RoutesTypeOK' BY <1>1, <2>1 DEF Typed, RoutesTypeOK
  <2>3. Typed' BY <1>1, <2>1, <2>2, StepsStay
  <2> QED BY <1>1, <1>3, <2>1, <2>3
<1>4. CASE editor[e].then \in {"refused", "reloaded"} /\ (Tell(e, "refused") \/ Tell(e, "done"))
  <2>1. /\ editor' \in [Editors -> EditorType]
        /\ \A d \in Editors \ {e} : editor'[d] = editor[d]
        /\ editor'[e].at = "idle" /\ editor'[e].todo = {}
    BY <1>4, TellMoves DEF Typed
  <2>2. RoutesTypeOK' BY <1>1, <2>1 DEF Typed, RoutesTypeOK
  <2>3. Typed' BY <1>1, <2>1, <2>2, StepsStay
  <2> QED BY <1>1, <1>4, <2>1, <2>3
<1>5. CASE editor[e].then = "applied"
           /\ editor' = [editor EXCEPT ![e].at = "reload", ![e].problems = {}]
  <2>0. "reload" \in Stages BY DEF Stages
  <2>1. /\ editor' \in [Editors -> EditorType]
        /\ \A d \in Editors \ {e} : editor'[d] = editor[d]
        /\ editor'[e].at = "reload" /\ editor'[e].todo = editor[e].todo
    BY <1>5, <2>0, ReturnMoves DEF Typed
  <2>2. RoutesTypeOK' BY <1>1, <2>1 DEF Typed, RoutesTypeOK
  <2>3. Typed' BY <1>1, <2>1, <2>2, StepsStay
  <2> QED BY <1>1, <1>5, <2>1, <2>3
<1> QED BY <1>2, <1>3, <1>4, <1>5 DEF Returns

LEMMA OpenDoes ==
  ASSUME Typed, NEW e \in Editors, Open(e)
  PROVE  /\ Typed' /\ UNCHANGED <<routes, live, active, registered, ahead, turn>>
         /\ \A d \in Editors \ {e} : editor'[d] = editor[d]
         /\ editor[e].at = "open" /\ editor'[e].at = "write"
         /\ editor'[e].edit = editor[e].edit
         /\ editor'[e].fd = tmp' /\ tmp' \in Files /\ tmp' # 0
         /\ (tmp = 0 /\ tmp' # routes) \/ (tmp # 0 /\ tmp' = tmp)
         /\ content'[tmp'] = Blank
         /\ \A f \in Files \ {tmp'} : content'[f] = content[f]
<1> DEFINE i == IF tmp # 0 THEN tmp
                ELSE CHOOSE f \in Files : f # routes /\ \A d \in Editors : editor[d].fd # f
<1>1. /\ tmp' = i /\ content' = [content EXCEPT ![i] = Blank] /\ editor[e].at = "open"
      /\ editor' = [editor EXCEPT ![e].at = "write", ![e].fd = i]
      /\ UNCHANGED <<routes, live, active, registered, ahead, turn>>
  BY DEF Open, table
<1>2. /\ i \in Files /\ i # 0
      /\ (tmp = 0 /\ i # routes) \/ (tmp # 0 /\ i = tmp)
  BY FileIsThere, RoutesAssumption DEF Typed, RoutesTypeOK
<1> HIDE DEF i
<1>3. /\ content' \in [Files -> Contents] /\ content'[i] = Blank
      /\ \A f \in Files \ {i} : content'[f] = content[f]
  BY <1>1, <1>2, BlankIsTyped DEF Typed, RoutesTypeOK
<1>4. /\ editor' \in [Editors -> EditorType]
      /\ \A d \in Editors \ {e} : editor'[d] = editor[d]
      /\ editor'[e].at = "write" /\ editor'[e].fd = i
      /\ editor'[e].todo = editor[e].todo /\ editor'[e].arg = editor[e].arg
      /\ editor'[e].edit = editor[e].edit
  <2>1. "write" \in Stages /\ i \in Files \cup {0} BY <1>2 DEF Stages
  <2> QED BY <1>1, <2>1, FdMoves DEF Typed
<1>5. RoutesTypeOK' BY <1>1, <1>2, <1>3, <1>4 DEF Typed, RoutesTypeOK
<1>6. editor'[e].todo = {} BY <1>1, <1>4 DEF Typed, Steps
<1>7. Typed' BY <1>1, <1>4, <1>5, <1>6, StepsStay
<1> QED BY <1>1, <1>2, <1>3, <1>4, <1>7

LEMMA WriteDoes ==
  ASSUME Typed, NEW e \in Editors, Write(e)
  PROVE  /\ Typed' /\ UNCHANGED <<routes, tmp, live, active, registered, ahead, turn>>
         /\ \A d \in Editors \ {e} : editor'[d] = editor[d]
         /\ editor[e].at = "write" /\ editor'[e].at = "replace"
         /\ editor'[e].edit = editor[e].edit
         /\ editor[e].fd \in Files /\ content[editor[e].fd].state = "empty"
              => content'[editor[e].fd].state = "whole"
         /\ \A f \in Files \ {editor[e].fd} : content'[f] = content[f]
<1> DEFINE i == editor[e].fd
<1>1. PICK state \in IF content[i].state = "empty" THEN {"whole"} ELSE {"whole", "torn"} :
        content' = [content EXCEPT ![i] =
          [state |-> state, kept |-> IF state = "whole" THEN editor[e].arg ELSE Nothing]]
  BY DEF Write
<1>2. /\ UNCHANGED <<routes, tmp, live, active, registered, ahead, turn>> /\ editor[e].at = "write"
      /\ editor' = [editor EXCEPT ![e].at = "replace", ![e].fd = 0]
  BY DEF Write, table
<1>3. /\ content' \in [Files -> Contents]
      /\ i \in Files /\ content[i].state = "empty" => content'[i].state = "whole"
      /\ \A f \in Files \ {i} : content'[f] = content[f]
  <2> DEFINE k == IF state = "whole" THEN editor[e].arg ELSE Nothing
             c == [state |-> state, kept |-> k]
  <2>1. k \in Kept BY NothingIsKept DEF Typed, RoutesTypeOK, EditorType
  <2> HIDE DEF k
  <2>2. state \in {"whole", "torn"} /\ (content[i].state = "empty" => state = "whole") BY <1>1
  <2>3. c \in Contents /\ c.state = state BY <2>1, <2>2 DEF Contents
  <2>4. content' = [content EXCEPT ![i] = c] BY <1>1 DEF k
  <2> HIDE DEF c, i
  <2> QED BY <2>2, <2>3, <2>4 DEF Typed, RoutesTypeOK
<1>4. /\ editor' \in [Editors -> EditorType]
      /\ \A d \in Editors \ {e} : editor'[d] = editor[d]
      /\ editor'[e].at = "replace"
      /\ editor'[e].todo = editor[e].todo /\ editor'[e].arg = editor[e].arg
      /\ editor'[e].edit = editor[e].edit
  <2>1. "replace" \in Stages /\ 0 \in Files \cup {0} BY DEF Stages
  <2> QED BY <1>2, <2>1, FdMoves DEF Typed
<1>5. RoutesTypeOK' BY <1>2, <1>3, <1>4 DEF Typed, RoutesTypeOK
<1>6. editor'[e].todo = {} BY <1>2, <1>4 DEF Typed, Steps
<1>7. Typed' BY <1>2, <1>4, <1>5, <1>6, StepsStay
<1> QED BY <1>2, <1>3, <1>4, <1>7

\* A step that moves the editor on, and changes the disk at most.
LEMMA GoesOn ==
  ASSUME Typed, NEW e \in Editors, NEW a \in Stages, a \notin {"check", "hold"},
         editor' = [editor EXCEPT ![e].at = a], editor[e].todo = {},
         UNCHANGED <<live, active, registered, ahead, turn>>,
         routes' \in Files \cup {0}, tmp' \in Files \cup {0}, content' \in [Files -> Contents]
  PROVE  Typed' /\ (\A d \in Editors \ {e} : editor'[d] = editor[d]) /\ editor'[e].at = a
<1>1. /\ editor' \in [Editors -> EditorType]
      /\ \A d \in Editors \ {e} : editor'[d] = editor[d]
      /\ editor'[e].at = a
      /\ editor'[e].todo = editor[e].todo /\ editor'[e].arg = editor[e].arg
  BY AtMoves DEF Typed
<1>2. RoutesTypeOK' BY <1>1 DEF Typed, RoutesTypeOK
<1>3. editor'[e].todo = {} BY <1>1
<1>4. Typed' BY <1>1, <1>2, <1>3, StepsStay
<1> QED BY <1>1, <1>4

\* An edit that raises leaves the table as it is.
LEMMA RaisesDoes ==
  ASSUME Typed, NEW e \in Editors, Raises(e), UNCHANGED <<live, active, registered, turn>>,
         routes' \in Files \cup {0}, tmp' \in Files \cup {0}, content' \in [Files -> Contents]
  PROVE  /\ Typed' /\ editor'[e].at = "idle"
         /\ \A d \in Editors \ {e} : editor'[d] = editor[d]
<1>1. /\ editor' \in [Editors -> EditorType]
      /\ \A d \in Editors \ {e} : editor'[d] = editor[d]
      /\ editor'[e].at = "idle" /\ editor'[e].todo = {}
  <2>1. Tell(e, "failed") BY DEF Raises
  <2> QED BY <2>1, TellMoves DEF Typed
<1>2. ahead' \subseteq Processes
  BY RoutesAssumption DEF Raises, Typed, RoutesTypeOK
<1>3. RoutesTypeOK' BY <1>1, <1>2 DEF Typed, RoutesTypeOK
<1>4. Typed' BY <1>1, <1>3, StepsStay
<1> QED BY <1>1, <1>4

LEMMA SaveFailsDoes ==
  ASSUME Typed, NEW e \in Editors, SaveFails(e)
  PROVE  /\ Typed' /\ UNCHANGED <<routes, tmp, live, active, registered, turn>>
         /\ \A d \in Editors \ {e} : editor'[d] = editor[d]
         /\ editor[e].at \in {"open", "write", "replace"} /\ editor'[e].at = "idle"
         /\ ahead' = IF editor[e].edit.kind = "pin" THEN ahead \cup {Home[e]} ELSE ahead
         /\ \/ UNCHANGED content
            \/ /\ editor[e].at = "write"
               /\ \A f \in Files \ {editor[e].fd} : content'[f] = content[f]
<1>1. /\ UNCHANGED <<routes, tmp, live, active, registered, turn>> /\ Raises(e)
      /\ editor[e].at \in {"open", "write", "replace"}
      /\ \/ UNCHANGED content
         \/ editor[e].at = "write" /\ content' = [content EXCEPT ![editor[e].fd] = Torn]
  BY DEF SaveFails
<1>2. /\ content' \in [Files -> Contents]
      /\ \/ UNCHANGED content
         \/ /\ editor[e].at = "write"
            /\ \A f \in Files \ {editor[e].fd} : content'[f] = content[f]
  BY <1>1, TornIsTyped DEF Typed, RoutesTypeOK
<1>3. /\ Typed' /\ editor'[e].at = "idle"
      /\ \A d \in Editors \ {e} : editor'[d] = editor[d]
  BY <1>1, <1>2, RaisesDoes DEF Typed, RoutesTypeOK
<1>4. ahead' = IF editor[e].edit.kind = "pin" THEN ahead \cup {Home[e]} ELSE ahead
  BY <1>1 DEF Raises
<1> QED BY <1>1, <1>2, <1>3, <1>4

LEMMA ReplaceDoes ==
  ASSUME Typed, NEW e \in Editors, Replace(e)
  PROVE  /\ Typed' /\ UNCHANGED <<live, active, registered, turn>>
         /\ \A d \in Editors \ {e} : editor'[d] = editor[d]
         /\ editor[e].at = "replace"
         /\ \/ tmp = 0 /\ editor'[e].at = "idle" /\ UNCHANGED <<routes, tmp, content>>
            \/ /\ tmp # 0 /\ routes' = tmp /\ tmp' = 0
               /\ \A f \in Files : content'[f] = IF f = routes THEN Blank ELSE content[f]
               /\ \/ editor'[e].at = "reload"
                  \/ editor'[e].at = "restore" /\ editor'[e].then = "applied"
<1>1. UNCHANGED <<live, active, registered, turn>> /\ editor[e].at = "replace"
  BY DEF Replace
<1>2. CASE tmp = 0
  <2>1. Raises(e) /\ UNCHANGED <<routes, tmp, content>> BY <1>2 DEF Replace, disk
  <2>2. /\ Typed' /\ \A d \in Editors \ {e} : editor'[d] = editor[d]
        /\ editor'[e].at = "idle"
    BY <1>1, <2>1, RaisesDoes DEF Typed, RoutesTypeOK
  <2> QED BY <1>1, <1>2, <2>1, <2>2
<1>3. CASE tmp # 0
  <2>1. /\ routes' = tmp /\ tmp' = 0
        /\ content' = [f \in Files |-> IF f = routes THEN Blank ELSE content[f]]
        /\ UNCHANGED ahead
    BY <1>3 DEF Replace
  <2>2. /\ routes' \in Files \cup {0} /\ tmp' \in Files \cup {0}
        /\ content' \in [Files -> Contents]
        /\ \A f \in Files : content'[f] = IF f = routes THEN Blank ELSE content[f]
    BY <2>1, BlankIsTyped DEF Typed, RoutesTypeOK
  <2>3. CASE editor[e].edit.kind = "pin"
    <3>1. editor' = [editor EXCEPT ![e].at = "reload"] BY <1>3, <2>3 DEF Replace
    <3>2. "reload" \in Stages BY DEF Stages
    <3>4. editor[e].todo = {} BY <1>1 DEF Typed, Steps
    <3>3. Typed' /\ (\A d \in Editors \ {e} : editor'[d] = editor[d]) /\ editor'[e].at = "reload"
      BY <1>1, <2>1, <2>2, <3>1, <3>2, <3>4, GoesOn
    <3> QED BY <1>1, <1>3, <2>1, <2>2, <3>3
  <2>4. CASE editor[e].edit.kind # "pin"
    <3>1. Sent(e, editor[e].arg, "applied") BY <1>3, <2>4 DEF Replace, Sent
    <3>2. "applied" \in Thens /\ editor[e].arg \in Kept BY DEF Thens, Typed, RoutesTypeOK, EditorType
    <3>3. /\ editor' \in [Editors -> EditorType]
          /\ \A d \in Editors \ {e} : editor'[d] = editor[d]
          /\ editor'[e].at = "restore" /\ editor'[e].arg = editor[e].arg
          /\ editor'[e].then = "applied" /\ editor'[e].todo = editor[e].todo
      BY <3>1, <3>2, ApplyMoves DEF Typed
    <3>4. RoutesTypeOK' BY <1>1, <2>1, <2>2, <3>3 DEF Typed, RoutesTypeOK
    <3>5. editor'[e].todo = {} BY <1>1, <3>3 DEF Typed, Steps
    <3>6. Typed' BY <1>1, <3>3, <3>4, <3>5, StepsStay
    <3> QED BY <1>1, <1>3, <2>1, <2>2, <3>3, <3>6
  <2> QED BY <2>3, <2>4
<1> QED BY <1>2, <1>3

LEMMA ReloadDoes ==
  ASSUME Typed, NEW e \in Editors, Reload(e)
  PROVE  /\ Typed' /\ UNCHANGED <<routes, tmp, content, live, active, registered, ahead, turn>>
         /\ \A d \in Editors \ {e} : editor'[d] = editor[d]
         /\ editor[e].at = "reload" /\ editor'[e].at = "restore"
         /\ editor'[e].arg = Loaded /\ editor'[e].then = "reloaded"
<1>1. /\ UNCHANGED <<routes, tmp, content, live, active, registered, ahead, turn>>
      /\ editor[e].at = "reload" /\ Sent(e, Loaded, "reloaded")
  BY DEF Reload, disk, table, Sent
<1>2. /\ "reloaded" \in Thens /\ Loaded \in Kept /\ editor[e].todo = {}
      /\ routes \in Files \cup {0} /\ tmp \in Files \cup {0} /\ content \in [Files -> Contents]
  BY <1>1, LoadedIsKept DEF Thens, Typed, RoutesTypeOK, Steps
<1>3. /\ Typed' /\ \A d \in Editors \ {e} : editor'[d] = editor[d]
      /\ editor'[e].at = "restore" /\ editor'[e].arg = Loaded /\ editor'[e].then = "reloaded"
  BY <1>1, <1>2, AgainDoes
<1> QED BY <1>1, <1>3

\* A step of a thread that resolves.
LEMMA TurnMoves ==
  ASSUME Typed, NEW r \in Turns, NEW y \in TurnType, turn' = [turn EXCEPT ![r] = y],
         y.at # "idle" => y.task \in Tasks,
         UNCHANGED <<disk, table, editor>>
  PROVE  Typed' /\ turn'[r] = y /\ \A s \in Turns \ {r} : turn'[s] = turn[s]
<1>1. /\ turn' \in [Turns -> TurnType] /\ turn'[r] = y
      /\ \A s \in Turns \ {r} : turn'[s] = turn[s]
  BY DEF Typed, RoutesTypeOK
<1>2. RoutesTypeOK' BY <1>1 DEF Typed, RoutesTypeOK, disk, table
<1>3. \A s \in Turns : turn'[s].at # "idle" => turn'[s].task \in Tasks
  BY <1>1 DEF Typed, Steps
<1>4. Steps' BY <1>3 DEF Typed, Steps, disk, table
<1> QED BY <1>1, <1>2, <1>4 DEF Typed

LEMMA BeginDoes ==
  ASSUME Typed, NEW r \in Turns, BeginResolve(r)
  PROVE  /\ Typed' /\ UNCHANGED <<routes, tmp, content, live, active, registered, ahead, editor>>
         /\ \A s \in Turns \ {r} : turn'[s] = turn[s]
         /\ turn'[r].at = "begun"
         /\ turn'[r].quiet => \A e \in Editors : Home[e] = Home[r] => editor[e].at = "idle"
         /\ turn'[r].want # None => live[Home[r]][turn'[r].task].spec = turn'[r].want
<1>1. PICK t \in Tasks :
        turn' = [turn EXCEPT ![r] = [Waiting EXCEPT
          !.at = "begun", !.task = t,
          !.want = IF /\ live[Home[r]][t].spec = Loaded.pins[t]
                      /\ active[Home[r]][t] = live[Home[r]][t].pin
                      /\ \A e \in Editors : editor[e].at # "idle" => ~Touches(editor[e].edit, t)
                   THEN Loaded.pins[t] ELSE None,
          !.quiet = \A e \in Editors : Home[e] = Home[r] => editor[e].at = "idle"]]
  BY DEF BeginResolve
<1> DEFINE w == IF /\ live[Home[r]][t].spec = Loaded.pins[t]
                   /\ active[Home[r]][t] = live[Home[r]][t].pin
                   /\ \A e \in Editors : editor[e].at # "idle" => ~Touches(editor[e].edit, t)
                THEN Loaded.pins[t] ELSE None
           q == \A e \in Editors : Home[e] = Home[r] => editor[e].at = "idle"
           a == [Waiting EXCEPT !.at = "begun", !.task = t]
           y == [a EXCEPT !.want = w, !.quiet = q]
<1>2. turn' = [turn EXCEPT ![r] = y] BY <1>1
<1>3. /\ w \in Specs \cup {None} /\ q \in BOOLEAN
      /\ w # None => live[Home[r]][t].spec = w
  BY LoadedIsKept DEF Typed, Kept
<1>4. q => \A e \in Editors : Home[e] = Home[r] => editor[e].at = "idle" OBVIOUS
<1> HIDE DEF w, q
<1>5. a \in TurnType /\ a.at = "begun" /\ a.task = t BY RestingIsTyped DEF TurnType
<1> HIDE DEF a
<1>6. /\ y \in TurnType /\ y.at = "begun" /\ y.task = t /\ y.want = w /\ y.quiet = q
  BY <1>3, <1>5 DEF TurnType
<1> HIDE DEF y
<1>7. UNCHANGED <<disk, table, editor>> BY DEF BeginResolve
<1>8. Typed' /\ turn'[r] = y /\ \A s \in Turns \ {r} : turn'[s] = turn[s]
  BY <1>2, <1>6, <1>7, TurnMoves
<1>9. UNCHANGED <<routes, tmp, content, live, active, registered, ahead, editor>>
  BY <1>7 DEF disk, table
<1> QED BY <1>3, <1>4, <1>6, <1>8, <1>9

LEMMA ReadDoes ==
  ASSUME Typed, NEW r \in Turns, ReadChain(r)
  PROVE  /\ Typed' /\ UNCHANGED <<routes, tmp, content, live, active, registered, ahead, editor>>
         /\ \A s \in Turns \ {r} : turn'[s] = turn[s]
         /\ turn[r].at = "begun" /\ turn'[r].at = "read" /\ turn'[r].task = turn[r].task
         /\ turn'[r].head = live[Home[r]][turn[r].task]
         /\ turn'[r].quiet = turn[r].quiet /\ turn'[r].want = turn[r].want
<1> DEFINE h == live[Home[r]][turn[r].task]
           y == [turn[r] EXCEPT !.at = "read", !.head = h]
<1>1. /\ turn[r].at = "begun" /\ turn' = [turn EXCEPT ![r] = y] /\ UNCHANGED <<disk, table, editor>>
  BY DEF ReadChain
<1>2. turn[r] \in TurnType /\ turn[r].task \in Tasks /\ Home[r] \in Processes
  BY <1>1, RoutesAssumption DEF Typed, RoutesTypeOK, Steps
<1>3. h \in [spec : Specs \cup {None}, pin : Pins \cup {0}] BY <1>2 DEF Typed, RoutesTypeOK
<1>4. h = live[Home[r]][turn[r].task] OBVIOUS
<1> HIDE DEF h
<1>5. /\ y \in TurnType /\ y.at = "read" /\ y.task = turn[r].task /\ y.head = h
      /\ y.quiet = turn[r].quiet /\ y.want = turn[r].want
  BY <1>2, <1>3 DEF TurnType
<1> HIDE DEF y
<1>6. Typed' /\ turn'[r] = y /\ \A s \in Turns \ {r} : turn'[s] = turn[s]
  BY <1>1, <1>2, <1>5, TurnMoves
<1> QED BY <1>1, <1>4, <1>5, <1>6 DEF disk, table

LEMMA AskDoes ==
  ASSUME Typed, NEW r \in Turns, AskHead(r)
  PROVE  /\ Typed' /\ UNCHANGED <<routes, tmp, content, live, active, registered, ahead, editor>>
         /\ \A s \in Turns \ {r} : turn'[s] = turn[s]
         /\ turn[r].at = "read" /\ turn'[r].task = turn[r].task /\ turn'[r].head = turn[r].head
         /\ turn'[r].at = IF IsHeld(r) THEN "held" ELSE "reordered"
         /\ turn'[r].quiet = turn[r].quiet /\ turn'[r].want = turn[r].want
<1> DEFINE a == IF IsHeld(r) THEN "held" ELSE "reordered"
           y == [turn[r] EXCEPT !.at = a]
<1>1. /\ turn[r].at = "read" /\ turn' = [turn EXCEPT ![r] = y] /\ UNCHANGED <<disk, table, editor>>
  BY DEF AskHead
<1>2. turn[r] \in TurnType /\ turn[r].task \in Tasks /\ a \in {"held", "reordered"}
      /\ a = IF IsHeld(r) THEN "held" ELSE "reordered"
  BY <1>1 DEF Typed, RoutesTypeOK, Steps
<1> HIDE DEF a
<1>3. /\ y \in TurnType /\ y.at = a /\ y.task = turn[r].task /\ y.head = turn[r].head
      /\ y.quiet = turn[r].quiet /\ y.want = turn[r].want
  BY <1>2 DEF TurnType
<1> HIDE DEF y
<1>4. Typed' /\ turn'[r] = y /\ \A s \in Turns \ {r} : turn'[s] = turn[s]
  BY <1>1, <1>2, <1>3, TurnMoves
<1> QED BY <1>1, <1>2, <1>3, <1>4 DEF disk, table

LEMMA EndDoes ==
  ASSUME Typed, NEW r \in Turns, EndResolve(r)
  PROVE  /\ Typed' /\ UNCHANGED <<routes, tmp, content, live, active, registered, ahead, editor>>
         /\ \A s \in Turns \ {r} : turn'[s] = turn[s]
         /\ turn'[r] = Waiting
<1>1. turn' = [turn EXCEPT ![r] = Waiting] /\ UNCHANGED <<disk, table, editor>>
  BY DEF EndResolve
<1>2. Typed' /\ turn'[r] = Waiting /\ \A s \in Turns \ {r} : turn'[s] = turn[s]
  BY <1>1, RestingIsTyped, TurnMoves
<1> QED BY <1>1, <1>2 DEF disk, table

LEMMA RestartDoes ==
  ASSUME Typed, NEW p \in Processes, Restart(p)
  PROVE  /\ Typed' /\ UNCHANGED <<routes, tmp, content>>
         /\ \A e \in Editors : editor'[e] = IF Home[e] = p THEN Resting ELSE editor[e]
         /\ \A r \in Turns : turn'[r] = IF Home[r] = p THEN Waiting ELSE turn[r]
         /\ p \notin ahead'
         /\ \A t \in Tasks : /\ live'[p][t].spec = Applied(Loaded)[t]
                             /\ active'[p][t] = live'[p][t].pin
         /\ \A q \in Processes \ {p} :
              live'[q] = live[q] /\ active'[q] = active[q] /\ registered'[q] = registered[q]
<1> DEFINE specs == Applied(Loaded)
           used == {n \in Pins : \/ \E q \in Processes \ {p}, t \in Tasks :
                                      live[q][t].pin = n \/ active[q][t] = n
                                 \/ \E e \in Editors : Home[e] # p /\ editor[e].pin = n
                                 \/ \E r \in Turns : Home[r] # p /\ turn[r].head.pin = n}
           given == CHOOSE f \in [Tasks -> Pins \ used] :
                      \A s, t \in Tasks : f[s] = f[t] => s = t
<1>1. /\ live' = [live EXCEPT ![p] = [t \in Tasks |->
           IF specs[t] = None THEN NoPin ELSE [spec |-> specs[t], pin |-> given[t]]]]
      /\ active' = [active EXCEPT ![p] = [t \in Tasks |->
           IF specs[t] = None THEN 0 ELSE given[t]]]
      /\ registered' = [registered EXCEPT ![p] = Loaded.ends]
      /\ ahead' = ahead \ {p}
  BY DEF Restart
<1>2. /\ editor' = [e \in Editors |-> IF Home[e] = p THEN Resting ELSE editor[e]]
      /\ turn' = [r \in Turns |-> IF Home[r] = p THEN Waiting ELSE turn[r]]
      /\ UNCHANGED <<routes, tmp, content>>
  BY DEF Restart, disk
<1>3. given \in [Tasks -> Pins] BY GivenIsThere
<1>4. Loaded \in Kept BY LoadedIsKept DEF Typed
<1>5. /\ \A t \in Tasks : specs[t] \in Specs \cup {None}
      /\ Loaded.ends \in SUBSET Customs
  BY <1>4 DEF Applied, Kept
<1> HIDE DEF specs, used, given
<1>6. /\ live' \in [Processes -> [Tasks -> [spec : Specs \cup {None}, pin : Pins \cup {0}]]]
      /\ \A t \in Tasks : live'[p][t].spec = specs[t] /\ (specs[t] = None <=> live'[p][t].pin = 0)
                          /\ live'[p][t].pin = IF specs[t] = None THEN 0 ELSE given[t]
      /\ \A q \in Processes \ {p} : live'[q] = live[q]
  <2> DEFINE l == [t \in Tasks |->
                     IF specs[t] = None THEN NoPin ELSE [spec |-> specs[t], pin |-> given[t]]]
  <2>1. \A t \in Tasks : l[t] \in [spec : Specs \cup {None}, pin : Pins \cup {0}]
    BY <1>3, <1>5 DEF NoPin
  <2>2. l \in [Tasks -> [spec : Specs \cup {None}, pin : Pins \cup {0}]] BY <2>1
  <2>3. \A t \in Tasks : /\ l[t].spec = specs[t] /\ (specs[t] = None <=> l[t].pin = 0)
                         /\ l[t].pin = IF specs[t] = None THEN 0 ELSE given[t]
    BY <1>3, RoutesAssumption DEF NoPin
  <2>4. live' = [live EXCEPT ![p] = l] BY <1>1
  <2> HIDE DEF l
  <2> QED BY <2>2, <2>3, <2>4 DEF Typed, RoutesTypeOK
<1>7. /\ active' \in [Processes -> [Tasks -> Pins \cup {0}]]
      /\ \A t \in Tasks : active'[p][t] = IF specs[t] = None THEN 0 ELSE given[t]
      /\ \A q \in Processes \ {p} : active'[q] = active[q]
  BY <1>1, <1>3 DEF Typed, RoutesTypeOK
<1>8. /\ registered' \in [Processes -> SUBSET Customs]
      /\ \A q \in Processes \ {p} : registered'[q] = registered[q]
  BY <1>1, <1>5 DEF Typed, RoutesTypeOK
<1>9. /\ editor' \in [Editors -> EditorType] /\ turn' \in [Turns -> TurnType]
      /\ \A e \in Editors : editor'[e] = IF Home[e] = p THEN Resting ELSE editor[e]
      /\ \A r \in Turns : turn'[r] = IF Home[r] = p THEN Waiting ELSE turn[r]
  BY <1>2, RestingIsTyped DEF Typed, RoutesTypeOK
<1>10. RoutesTypeOK' BY <1>1, <1>2, <1>6, <1>7, <1>8, <1>9 DEF Typed, RoutesTypeOK
<1>11. Steps'
  <2>1. \A q \in Processes, t \in Tasks : live'[q][t].spec # None <=> live'[q][t].pin # 0
    <3> SUFFICES ASSUME NEW q \in Processes, NEW t \in Tasks
                 PROVE  live'[q][t].spec # None <=> live'[q][t].pin # 0
      OBVIOUS
    <3>1. CASE q = p BY <3>1, <1>6
    <3>2. CASE q # p BY <3>2, <1>6 DEF Typed, Steps
    <3> QED BY <3>1, <3>2
  <2>2. \A r \in Turns : turn'[r].at # "idle" => turn'[r].task \in Tasks
    BY <1>9, RestingIsTyped DEF Typed, Steps
  <2>3. ASSUME NEW e \in Editors
        PROVE  /\ editor'[e].at = "check" =>
                    editor'[e].edit.task \in Tasks /\ editor'[e].edit.spec \in Specs
               /\ \A t \in editor'[e].todo : editor'[e].arg.pins[t] # None
               /\ editor'[e].at \notin {"place", "hold"} => editor'[e].todo = {}
               /\ editor'[e].at = "hold" => editor'[e].task \in Tasks /\ editor'[e].pin # 0
    <3>1. CASE Home[e] = p BY <3>1, <1>9, RestingIsTyped
    <3>2. CASE Home[e] # p
      <4>1. editor'[e] = editor[e] BY <3>2, <1>9
      <4> QED BY <4>1 DEF Typed, Steps
    <3> QED BY <3>1, <3>2
  <2> QED BY <2>1, <2>2, <2>3 DEF Steps
<1>12. \A t \in Tasks : live'[p][t].spec = Applied(Loaded)[t] /\ active'[p][t] = live'[p][t].pin
  BY <1>6, <1>7 DEF specs
<1> QED BY <1>1, <1>2, <1>6, <1>7, <1>8, <1>9, <1>10, <1>11, <1>12 DEF Typed

-----------------------------------------------------------------------------
(* Every step keeps the types *)

LEMMA StartsTyped == RoutesInit => Typed
<1> SUFFICES ASSUME RoutesInit PROVE Typed OBVIOUS
<1>1. RoutesTypeOK BY RestingIsTyped, BlankIsTyped DEF RoutesInit, RoutesTypeOK, NoPin
<1>2. Steps BY RestingIsTyped DEF RoutesInit, Steps, NoPin
<1> QED BY <1>1, <1>2 DEF Typed

LEMMA StepsTyped == Typed /\ [RoutesNext]_routesVars => Typed'
<1> SUFFICES ASSUME Typed, [RoutesNext]_routesVars PROVE Typed' OBVIOUS
<1>1. CASE UNCHANGED routesVars
  BY <1>1 DEF Typed, RoutesTypeOK, Steps, routesVars
<1>2. ASSUME NEW e \in Editors, Load(e) PROVE Typed' BY <1>2, LoadDoes
<1>3. ASSUME NEW e \in Editors, CheckPin(e) PROVE Typed' BY <1>3, CheckDoes
<1>4. ASSUME NEW e \in Editors, Applies(e) PROVE Typed'
  BY <1>4, RestoreDoes, ClearDoes, PlaceDoes, HoldDoes, ReturnsDoes DEF Applies
<1>5. ASSUME NEW e \in Editors, Saves(e) PROVE Typed'
  BY <1>5, OpenDoes, WriteDoes, ReplaceDoes, SaveFailsDoes DEF Saves
<1>6. ASSUME NEW e \in Editors, Reload(e) PROVE Typed' BY <1>6, ReloadDoes
<1>7. ASSUME NEW r \in Turns, Resolves(r) PROVE Typed'
  BY <1>7, BeginDoes, ReadDoes, AskDoes, EndDoes DEF Resolves
<1>8. ASSUME NEW p \in Processes, Restart(p) PROVE Typed' BY <1>8, RestartDoes
<1> QED BY <1>1, <1>2, <1>3, <1>4, <1>5, <1>6, <1>7, <1>8 DEF RoutesNext

\* Every inode, object and task an editor, a turn or the table refers to
\* exists, for any number of processes, editors and turns, and wherever they
\* stop: an edit finds an inode and a pin that nothing else uses.
THEOREM RoutesAreTyped == RoutesSpec => []RoutesTypeOK
<1>1. RoutesSpec => []Typed
  BY StartsTyped, StepsTyped, PTL DEF RoutesSpec
<1>2. Typed => RoutesTypeOK BY DEF Typed
<1> QED BY <1>1, <1>2, PTL

-----------------------------------------------------------------------------
(* One edit at a time in each process: a pin is what its task resolves to *)

LEMMA StartsWithHeads == RoutesInit => Heads /\ Quiet
<1> SUFFICES ASSUME RoutesInit PROVE Heads /\ Quiet OBVIOUS
<1>1. \A e \in Editors : editor[e].at = "idle" BY RestingIsTyped DEF RoutesInit
<1>2. \A p \in Processes, t \in Tasks : active[p][t] = live[p][t].pin
  BY DEF RoutesInit, NoPin
<1>3. \A r \in Turns : ~turn[r].quiet BY RestingIsTyped DEF RoutesInit
<1> QED BY <1>1, <1>2, <1>3 DEF Heads, Quiet

\* A step that leaves the table alone, and an editor neither in the middle of
\* clearing nor of placing.
LEMMA HeadsStay ==
  ASSUME Heads, NEW e \in Editors, UNCHANGED <<live, active>>,
         \A d \in Editors \ {e} : editor'[d] = editor[d],
         editor[e].at \notin {"clear", "hold"}, editor'[e].at \notin {"clear", "hold"}
  PROVE  Heads'
<1>1. ASSUME NEW p \in Processes, NEW t \in Tasks
      PROVE  \/ active'[p][t] = live'[p][t].pin
             \/ \E d \in Editors : Home[d] = p /\
                  (editor'[d].at = "clear" \/ (editor'[d].at = "hold" /\ editor'[d].task = t))
  <2>1. CASE active[p][t] = live[p][t].pin BY <2>1
  <2>2. CASE \E d \in Editors : Home[d] = p /\
               (editor[d].at = "clear" \/ (editor[d].at = "hold" /\ editor[d].task = t))
    <3>1. PICK d \in Editors : Home[d] = p /\
               (editor[d].at = "clear" \/ (editor[d].at = "hold" /\ editor[d].task = t))
      BY <2>2
    <3>2. d # e BY <3>1
    <3> QED BY <3>1, <3>2
  <2> QED BY <2>1, <2>2 DEF Heads
<1>2. ASSUME NEW d \in Editors
      PROVE  /\ editor'[d].at = "clear" => \A t \in Tasks : live'[Home[d]][t] = NoPin
             /\ editor'[d].at = "hold" => live'[Home[d]][editor'[d].task].pin = editor'[d].pin
  BY DEF Heads
<1> QED BY <1>1, <1>2 DEF Heads

\* The processes other than the editor's own keep what they have.
LEMMA OthersKeepHeads ==
  ASSUME Heads, Typed, NEW e \in Editors, \A d \in Editors \ {e} : editor'[d] = editor[d],
         \A p \in Processes \ {Home[e]} : live'[p] = live[p] /\ active'[p] = active[p]
  PROVE  /\ \A p \in Processes \ {Home[e]}, t \in Tasks :
              \/ active'[p][t] = live'[p][t].pin
              \/ \E d \in Editors : Home[d] = p /\
                   (editor'[d].at = "clear" \/ (editor'[d].at = "hold" /\ editor'[d].task = t))
         /\ \A d \in Editors : Home[d] # Home[e] =>
              /\ editor'[d].at = "clear" => \A t \in Tasks : live'[Home[d]][t] = NoPin
              /\ editor'[d].at = "hold" => live'[Home[d]][editor'[d].task].pin = editor'[d].pin
<1>1. ASSUME NEW p \in Processes \ {Home[e]}, NEW t \in Tasks
      PROVE  \/ active'[p][t] = live'[p][t].pin
             \/ \E d \in Editors : Home[d] = p /\
                  (editor'[d].at = "clear" \/ (editor'[d].at = "hold" /\ editor'[d].task = t))
  <2>1. CASE active[p][t] = live[p][t].pin BY <2>1
  <2>2. CASE \E d \in Editors : Home[d] = p /\
               (editor[d].at = "clear" \/ (editor[d].at = "hold" /\ editor[d].task = t))
    <3>1. PICK d \in Editors : Home[d] = p /\
               (editor[d].at = "clear" \/ (editor[d].at = "hold" /\ editor[d].task = t))
      BY <2>2
    <3>2. d # e BY <3>1
    <3> QED BY <3>1, <3>2
  <2> QED BY <2>1, <2>2 DEF Heads
<1>2. ASSUME NEW d \in Editors, Home[d] # Home[e]
      PROVE  /\ editor'[d].at = "clear" => \A t \in Tasks : live'[Home[d]][t] = NoPin
             /\ editor'[d].at = "hold" => live'[Home[d]][editor'[d].task].pin = editor'[d].pin
  <2>1. editor'[d] = editor[d] /\ live'[Home[d]] = live[Home[d]]
    BY <1>2, RoutesAssumption
  <2> QED BY <2>1 DEF Heads
<1> QED BY <1>1, <1>2

LEMMA HeadsKept ==
  ASSUME EditsTakeTurns, Typed, Heads, [RoutesNext]_routesVars
  PROVE  Heads'
<1>0. ASSUME NEW e \in Editors,
             \A d \in Editors \ {e} : editor'[d] = editor[d],
             \A p \in Processes \ {Home[e]} : live'[p] = live[p] /\ active'[p] = active[p],
             \A t \in Tasks : \/ active'[Home[e]][t] = live'[Home[e]][t].pin
                              \/ editor'[e].at = "clear"
                              \/ editor'[e].at = "hold" /\ editor'[e].task = t,
             editor'[e].at = "clear" => \A t \in Tasks : live'[Home[e]][t] = NoPin,
             editor'[e].at = "hold" => live'[Home[e]][editor'[e].task].pin = editor'[e].pin
      PROVE  Heads'
  <2>1. ASSUME NEW p \in Processes, NEW t \in Tasks
        PROVE  \/ active'[p][t] = live'[p][t].pin
               \/ \E d \in Editors : Home[d] = p /\
                    (editor'[d].at = "clear" \/ (editor'[d].at = "hold" /\ editor'[d].task = t))
    <3>1. CASE p = Home[e] BY <1>0, <3>1
    <3>2. CASE p # Home[e] BY <1>0, <3>2, OthersKeepHeads
    <3> QED BY <3>1, <3>2
  <2>2. ASSUME NEW d \in Editors
        PROVE  /\ editor'[d].at = "clear" => \A t \in Tasks : live'[Home[d]][t] = NoPin
               /\ editor'[d].at = "hold" => live'[Home[d]][editor'[d].task].pin = editor'[d].pin
    <3>1. CASE d = e BY <1>0, <3>1
    <3>2. CASE d # e
      <4>1. Home[d] # Home[e] BY <3>2 DEF EditsTakeTurns
      <4> QED BY <1>0, <4>1, OthersKeepHeads
    <3> QED BY <3>1, <3>2
  <2> QED BY <2>1, <2>2 DEF Heads
<1>a. ASSUME NEW e \in Editors
      PROVE  /\ Home[e] \in Processes
             /\ \A t \in Tasks :
                  \/ active[Home[e]][t] = live[Home[e]][t].pin
                  \/ editor[e].at = "clear"
                  \/ editor[e].at = "hold" /\ editor[e].task = t
             /\ editor[e].at = "clear" => \A t \in Tasks : live[Home[e]][t] = NoPin
             /\ editor[e].at = "hold" => live[Home[e]][editor[e].task].pin = editor[e].pin
  BY RoutesAssumption DEF Heads, EditsTakeTurns
<1>1. CASE UNCHANGED routesVars BY <1>1 DEF Heads, routesVars
<1>2. ASSUME NEW e \in Editors, Load(e) PROVE Heads'
  <2>1. /\ UNCHANGED <<live, active>> /\ \A d \in Editors \ {e} : editor'[d] = editor[d]
        /\ editor[e].at = "idle" /\ editor'[e].at \in {"check", "reload", "open"}
    BY <1>2, LoadDoes
  <2> QED BY <2>1, HeadsStay
<1>3. ASSUME NEW e \in Editors, CheckPin(e) PROVE Heads'
  <2>1. /\ UNCHANGED <<live, active>> /\ \A d \in Editors \ {e} : editor'[d] = editor[d]
        /\ editor[e].at = "check" /\ editor'[e].at \in {"restore", "idle"}
    BY <1>3, CheckDoes
  <2> QED BY <2>1, HeadsStay
<1>4. ASSUME NEW e \in Editors, Restore(e) PROVE Heads'
  <2>1. /\ UNCHANGED active /\ \A d \in Editors \ {e} : editor'[d] = editor[d]
        /\ editor'[e].at = "clear"
        /\ \A t \in Tasks : live'[Home[e]][t] = NoPin
        /\ \A p \in Processes \ {Home[e]} : live'[p] = live[p]
    BY <1>4, RestoreDoes
  <2> QED BY <2>1, <1>0
<1>5. ASSUME NEW e \in Editors, ClearActive(e) PROVE Heads'
  <2>1. /\ UNCHANGED live /\ \A d \in Editors \ {e} : editor'[d] = editor[d]
        /\ editor[e].at = "clear" /\ editor'[e].at = "place"
        /\ \A t \in Tasks : active'[Home[e]][t] = 0
        /\ \A p \in Processes \ {Home[e]} : active'[p] = active[p]
    BY <1>5, ClearDoes
  <2>2. \A t \in Tasks : live'[Home[e]][t].pin = 0 BY <2>1, <1>a DEF NoPin
  <2> QED BY <2>1, <2>2, <1>0
<1>6. ASSUME NEW e \in Editors, Place(e) PROVE Heads'
  <2>1. /\ UNCHANGED active /\ \A d \in Editors \ {e} : editor'[d] = editor[d]
        /\ editor[e].at = "place" /\ \A p \in Processes \ {Home[e]} : live'[p] = live[p]
    BY <1>6, PlaceDoes
  <2>2. PICK t \in editor[e].todo :
          /\ t \in Tasks
          /\ \/ /\ editor'[e].at = "hold" /\ editor'[e].task = t
                /\ live'[Home[e]][t].pin = editor'[e].pin
             \/ editor'[e].at = "place" /\ live'[Home[e]][t] = live[Home[e]][t]
          /\ \A u \in Tasks \ {t} : live'[Home[e]][u] = live[Home[e]][u]
    BY <1>6, PlaceDoes
  <2>3. \A u \in Tasks : active[Home[e]][u] = live[Home[e]][u].pin BY <2>1, <1>a
  <2>4. \A u \in Tasks : \/ active'[Home[e]][u] = live'[Home[e]][u].pin
                         \/ editor'[e].at = "hold" /\ editor'[e].task = u
    BY <2>1, <2>2, <2>3
  <2> QED BY <2>1, <2>2, <2>4, <1>0
<1>7. ASSUME NEW e \in Editors, Hold(e) PROVE Heads'
  <2>1. /\ UNCHANGED live /\ \A d \in Editors \ {e} : editor'[d] = editor[d]
        /\ editor[e].at = "hold" /\ editor'[e].at = "place" /\ editor[e].task \in Tasks
        /\ active'[Home[e]][editor[e].task] = editor[e].pin
        /\ \A t \in Tasks \ {editor[e].task} : active'[Home[e]][t] = active[Home[e]][t]
        /\ \A p \in Processes \ {Home[e]} : active'[p] = active[p]
    BY <1>7, HoldDoes
  <2>2. \A t \in Tasks : active'[Home[e]][t] = live'[Home[e]][t].pin BY <2>1, <1>a
  <2> QED BY <2>1, <2>2, <1>0
<1>8. ASSUME NEW e \in Editors, Returns(e) PROVE Heads'
  <2>1. /\ UNCHANGED <<live, active>> /\ \A d \in Editors \ {e} : editor'[d] = editor[d]
        /\ editor[e].at = "place" /\ editor'[e].at \in {"restore", "open", "reload", "idle"}
    BY <1>8, ReturnsDoes
  <2> QED BY <2>1, HeadsStay
<1>9. ASSUME NEW e \in Editors, Open(e) PROVE Heads'
  <2>1. /\ UNCHANGED <<live, active>> /\ \A d \in Editors \ {e} : editor'[d] = editor[d]
        /\ editor[e].at = "open" /\ editor'[e].at = "write"
    BY <1>9, OpenDoes
  <2> QED BY <2>1, HeadsStay
<1>10. ASSUME NEW e \in Editors, Write(e) PROVE Heads'
  <2>1. /\ UNCHANGED <<live, active>> /\ \A d \in Editors \ {e} : editor'[d] = editor[d]
        /\ editor[e].at = "write" /\ editor'[e].at = "replace"
    BY <1>10, WriteDoes
  <2> QED BY <2>1, HeadsStay
<1>11. ASSUME NEW e \in Editors, Replace(e) PROVE Heads'
  <2>1. /\ UNCHANGED <<live, active>> /\ \A d \in Editors \ {e} : editor'[d] = editor[d]
        /\ editor[e].at = "replace" /\ editor'[e].at \in {"idle", "reload", "restore"}
    BY <1>11, ReplaceDoes
  <2> QED BY <2>1, HeadsStay
<1>12. ASSUME NEW e \in Editors, Reload(e) PROVE Heads'
  <2>1. /\ UNCHANGED <<live, active>> /\ \A d \in Editors \ {e} : editor'[d] = editor[d]
        /\ editor[e].at = "reload" /\ editor'[e].at = "restore"
    BY <1>12, ReloadDoes
  <2> QED BY <2>1, HeadsStay
<1>13. ASSUME NEW r \in Turns, Resolves(r) PROVE Heads'
  <2>1. UNCHANGED <<live, active, editor>>
    BY <1>13, BeginDoes, ReadDoes, AskDoes, EndDoes DEF Resolves
  <2> QED BY <2>1 DEF Heads
<1>14. ASSUME NEW p \in Processes, Restart(p) PROVE Heads'
  <2>1. /\ \A e \in Editors : editor'[e] = IF Home[e] = p THEN Resting ELSE editor[e]
        /\ \A t \in Tasks : active'[p][t] = live'[p][t].pin
        /\ \A q \in Processes \ {p} : live'[q] = live[q] /\ active'[q] = active[q]
    BY <1>14, RestartDoes
  <2>2. ASSUME NEW q \in Processes, NEW t \in Tasks
        PROVE  \/ active'[q][t] = live'[q][t].pin
               \/ \E d \in Editors : Home[d] = q /\
                    (editor'[d].at = "clear" \/ (editor'[d].at = "hold" /\ editor'[d].task = t))
    <3>1. CASE q = p BY <2>1, <3>1
    <3>2. CASE q # p /\ active[q][t] = live[q][t].pin BY <2>1, <3>2
    <3>3. CASE q # p /\ active[q][t] # live[q][t].pin
      <4>1. PICK d \in Editors : Home[d] = q /\
              (editor[d].at = "clear" \/ (editor[d].at = "hold" /\ editor[d].task = t))
        BY <3>3 DEF Heads
      <4>2. editor'[d] = editor[d] BY <2>1, <3>3, <4>1
      <4> QED BY <4>1, <4>2
    <3> QED BY <3>1, <3>2, <3>3
  <2>3. ASSUME NEW d \in Editors
        PROVE  /\ editor'[d].at = "clear" => \A t \in Tasks : live'[Home[d]][t] = NoPin
               /\ editor'[d].at = "hold" => live'[Home[d]][editor'[d].task].pin = editor'[d].pin
    <3>1. CASE Home[d] = p BY <2>1, <3>1, RestingIsTyped
    <3>2. CASE Home[d] # p
      <4>1. editor'[d] = editor[d] /\ live'[Home[d]] = live[Home[d]]
        BY <2>1, <3>2, RoutesAssumption
      <4> QED BY <4>1 DEF Heads
    <3> QED BY <3>1, <3>2
  <2> QED BY <2>2, <2>3 DEF Heads
<1>15. ASSUME NEW e \in Editors, SaveFails(e) PROVE Heads'
  <2>1. /\ UNCHANGED <<live, active>> /\ \A d \in Editors \ {e} : editor'[d] = editor[d]
        /\ editor[e].at \in {"open", "write", "replace"} /\ editor'[e].at = "idle"
    BY <1>15, SaveFailsDoes
  <2> QED BY <2>1, HeadsStay
<1> QED BY <1>1, <1>2, <1>3, <1>4, <1>5, <1>6, <1>7, <1>8, <1>9, <1>10, <1>11, <1>12,
           <1>13, <1>14, <1>15 DEF RoutesNext, Applies, Saves

\* What a step of an editor leaves to the turns it may not disturb.
LEMMA QuietStays ==
  ASSUME Typed, Quiet, NEW e \in Editors, UNCHANGED turn, editor[e].at # "idle",
         \A d \in Editors \ {e} : editor'[d] = editor[d],
         \A p \in Processes \ {Home[e]} : live'[p] = live[p]
  PROVE  Quiet'
<1> SUFFICES ASSUME NEW r \in Turns, turn[r].quiet
             PROVE  /\ Idle(Home[r])' /\ turn[r].at # "idle"
                    /\ turn[r].want # None => live'[Home[r]][turn[r].task].spec = turn[r].want
                    /\ turn[r].at # "begun" => turn[r].head = live'[Home[r]][turn[r].task]
                    /\ turn[r].at \in {"held", "reordered"} /\ turn[r].want # None
                         => turn[r].at = "held"
  BY DEF Quiet
<1>1. Idle(Home[r]) /\ Home[r] # Home[e] BY DEF Quiet, Idle
<1>2. live'[Home[r]] = live[Home[r]] BY <1>1, RoutesAssumption
<1>3. Idle(Home[r])' BY <1>1 DEF Idle
<1> QED BY <1>2, <1>3 DEF Quiet

LEMMA QuietKept ==
  ASSUME Typed, Heads, Quiet, [RoutesNext]_routesVars
  PROVE  Quiet'
<1>1. CASE UNCHANGED routesVars BY <1>1 DEF Quiet, Idle, routesVars
<1>2. ASSUME NEW e \in Editors, Load(e) PROVE Quiet'
  <2>1. /\ UNCHANGED live /\ \A d \in Editors \ {e} : editor'[d] = editor[d]
        /\ \A r \in Turns :
             /\ turn'[r].at = turn[r].at /\ turn'[r].task = turn[r].task
             /\ turn'[r].head = turn[r].head
             /\ turn'[r].quiet => turn[r].quiet /\ Home[r] # Home[e]
             /\ turn'[r].want # None => turn'[r].want = turn[r].want
    BY <1>2, LoadDoes
  <2> SUFFICES ASSUME NEW r \in Turns, turn'[r].quiet
               PROVE  /\ Idle(Home[r])' /\ turn'[r].at # "idle"
                      /\ turn'[r].want # None =>
                           live'[Home[r]][turn'[r].task].spec = turn'[r].want
                      /\ turn'[r].at # "begun" => turn'[r].head = live'[Home[r]][turn'[r].task]
                      /\ turn'[r].at \in {"held", "reordered"} /\ turn'[r].want # None
                           => turn'[r].at = "held"
    BY DEF Quiet
  <2>2. turn[r].quiet /\ Home[r] # Home[e] BY <2>1
  <2>3. Idle(Home[r])' BY <2>1, <2>2 DEF Quiet, Idle
  <2> QED BY <2>1, <2>2, <2>3 DEF Quiet
<1>3. ASSUME NEW e \in Editors, CheckPin(e) PROVE Quiet'
  <2>1. /\ UNCHANGED <<live, turn>> /\ \A d \in Editors \ {e} : editor'[d] = editor[d]
        /\ editor[e].at = "check"
    BY <1>3, CheckDoes
  <2> QED BY <2>1, QuietStays
<1>4. ASSUME NEW e \in Editors, Restore(e) PROVE Quiet'
  <2>1. /\ UNCHANGED turn /\ \A d \in Editors \ {e} : editor'[d] = editor[d]
        /\ editor[e].at = "restore" /\ \A p \in Processes \ {Home[e]} : live'[p] = live[p]
    BY <1>4, RestoreDoes
  <2> QED BY <2>1, QuietStays
<1>5. ASSUME NEW e \in Editors, ClearActive(e) PROVE Quiet'
  <2>1. /\ UNCHANGED <<live, turn>> /\ \A d \in Editors \ {e} : editor'[d] = editor[d]
        /\ editor[e].at = "clear"
    BY <1>5, ClearDoes
  <2> QED BY <2>1, QuietStays
<1>6. ASSUME NEW e \in Editors, Place(e) PROVE Quiet'
  <2>1. /\ UNCHANGED turn /\ \A d \in Editors \ {e} : editor'[d] = editor[d]
        /\ editor[e].at = "place" /\ \A p \in Processes \ {Home[e]} : live'[p] = live[p]
    BY <1>6, PlaceDoes
  <2> QED BY <2>1, QuietStays
<1>7. ASSUME NEW e \in Editors, Hold(e) PROVE Quiet'
  <2>1. /\ UNCHANGED <<live, turn>> /\ \A d \in Editors \ {e} : editor'[d] = editor[d]
        /\ editor[e].at = "hold"
    BY <1>7, HoldDoes
  <2> QED BY <2>1, QuietStays
<1>8. ASSUME NEW e \in Editors, Returns(e) PROVE Quiet'
  <2>1. /\ UNCHANGED <<live, turn>> /\ \A d \in Editors \ {e} : editor'[d] = editor[d]
        /\ editor[e].at = "place"
    BY <1>8, ReturnsDoes
  <2> QED BY <2>1, QuietStays
<1>9. ASSUME NEW e \in Editors, Saves(e) PROVE Quiet'
  <2>1. /\ UNCHANGED <<live, turn>> /\ \A d \in Editors \ {e} : editor'[d] = editor[d]
        /\ editor[e].at \in {"open", "write", "replace"}
    BY <1>9, OpenDoes, WriteDoes, ReplaceDoes, SaveFailsDoes DEF Saves
  <2> QED BY <2>1, QuietStays
<1>10. ASSUME NEW e \in Editors, Reload(e) PROVE Quiet'
  <2>1. /\ UNCHANGED <<live, turn>> /\ \A d \in Editors \ {e} : editor'[d] = editor[d]
        /\ editor[e].at = "reload"
    BY <1>10, ReloadDoes
  <2> QED BY <2>1, QuietStays
<1>11. ASSUME NEW r \in Turns, UNCHANGED <<live, editor>>,
              \A s \in Turns \ {r} : turn'[s] = turn[s],
              turn'[r].quiet =>
                /\ Idle(Home[r]) /\ turn'[r].at # "idle"
                /\ turn'[r].want # None => live[Home[r]][turn'[r].task].spec = turn'[r].want
                /\ turn'[r].at # "begun" => turn'[r].head = live[Home[r]][turn'[r].task]
                /\ turn'[r].at \in {"held", "reordered"} /\ turn'[r].want # None
                     => turn'[r].at = "held"
       PROVE  Quiet'
  <2> SUFFICES ASSUME NEW s \in Turns, turn'[s].quiet
               PROVE  /\ Idle(Home[s])' /\ turn'[s].at # "idle"
                      /\ turn'[s].want # None =>
                           live'[Home[s]][turn'[s].task].spec = turn'[s].want
                      /\ turn'[s].at # "begun" => turn'[s].head = live'[Home[s]][turn'[s].task]
                      /\ turn'[s].at \in {"held", "reordered"} /\ turn'[s].want # None
                           => turn'[s].at = "held"
    BY DEF Quiet
  <2>1. CASE s = r BY <1>11, <2>1 DEF Idle
  <2>2. CASE s # r
    <3>1. turn'[s] = turn[s] BY <1>11, <2>2
    <3> QED BY <1>11, <3>1 DEF Quiet, Idle
  <2> QED BY <2>1, <2>2
<1>12. ASSUME NEW r \in Turns, BeginResolve(r) PROVE Quiet'
  <2>1. /\ UNCHANGED <<live, editor>> /\ \A s \in Turns \ {r} : turn'[s] = turn[s]
        /\ turn'[r].at = "begun"
        /\ turn'[r].quiet => \A e \in Editors : Home[e] = Home[r] => editor[e].at = "idle"
        /\ turn'[r].want # None => live[Home[r]][turn'[r].task].spec = turn'[r].want
    BY <1>12, BeginDoes
  <2> QED BY <2>1, <1>11 DEF Idle
<1>13. ASSUME NEW r \in Turns, ReadChain(r) PROVE Quiet'
  <2>1. /\ UNCHANGED <<live, editor>> /\ \A s \in Turns \ {r} : turn'[s] = turn[s]
        /\ turn'[r].at = "read" /\ turn'[r].task = turn[r].task
        /\ turn'[r].head = live[Home[r]][turn[r].task]
        /\ turn'[r].quiet = turn[r].quiet /\ turn'[r].want = turn[r].want
    BY <1>13, ReadDoes
  <2> QED BY <2>1, <1>11 DEF Quiet
<1>14. ASSUME NEW r \in Turns, AskHead(r) PROVE Quiet'
  <2>1. /\ UNCHANGED <<live, editor>> /\ \A s \in Turns \ {r} : turn'[s] = turn[s]
        /\ turn[r].at = "read" /\ turn'[r].task = turn[r].task /\ turn'[r].head = turn[r].head
        /\ turn'[r].at = IF IsHeld(r) THEN "held" ELSE "reordered"
        /\ turn'[r].quiet = turn[r].quiet /\ turn'[r].want = turn[r].want
    BY <1>14, AskDoes
  <2>2. ASSUME turn[r].quiet, turn[r].want # None PROVE IsHeld(r)
    <3>1. /\ turn[r].task \in Tasks /\ Home[r] \in Processes
          /\ live[Home[r]][turn[r].task].spec = turn[r].want
          /\ turn[r].head = live[Home[r]][turn[r].task] /\ Idle(Home[r])
      BY <2>1, <2>2, RoutesAssumption DEF Quiet, Typed, Steps
    <3>2. turn[r].head.pin # 0 BY <2>2, <3>1 DEF Typed, Steps
    <3>3. active[Home[r]][turn[r].task] = live[Home[r]][turn[r].task].pin
      BY <3>1 DEF Heads, Idle
    <3> QED BY <3>1, <3>2, <3>3 DEF IsHeld
  <2>3. turn[r].quiet =>
          /\ Idle(Home[r]) /\ turn[r].head = live[Home[r]][turn[r].task]
          /\ turn[r].want # None => live[Home[r]][turn[r].task].spec = turn[r].want
    BY <2>1 DEF Quiet
  <2> QED BY <2>1, <2>2, <2>3, <1>11
<1>15. ASSUME NEW r \in Turns, EndResolve(r) PROVE Quiet'
  <2>1. /\ UNCHANGED <<live, editor>> /\ \A s \in Turns \ {r} : turn'[s] = turn[s]
        /\ ~turn'[r].quiet
    BY <1>15, EndDoes, RestingIsTyped
  <2> QED BY <2>1, <1>11
<1>16. ASSUME NEW p \in Processes, Restart(p) PROVE Quiet'
  <2>1. /\ \A e \in Editors : editor'[e] = IF Home[e] = p THEN Resting ELSE editor[e]
        /\ \A r \in Turns : turn'[r] = IF Home[r] = p THEN Waiting ELSE turn[r]
        /\ \A q \in Processes \ {p} : live'[q] = live[q]
    BY <1>16, RestartDoes
  <2> SUFFICES ASSUME NEW s \in Turns, turn'[s].quiet
               PROVE  /\ Idle(Home[s])' /\ turn'[s].at # "idle"
                      /\ turn'[s].want # None =>
                           live'[Home[s]][turn'[s].task].spec = turn'[s].want
                      /\ turn'[s].at # "begun" => turn'[s].head = live'[Home[s]][turn'[s].task]
                      /\ turn'[s].at \in {"held", "reordered"} /\ turn'[s].want # None
                           => turn'[s].at = "held"
    BY DEF Quiet
  <2>2. Home[s] # p /\ turn'[s] = turn[s] BY <2>1, RestingIsTyped
  <2>3. live'[Home[s]] = live[Home[s]] BY <2>1, <2>2, RoutesAssumption
  <2>4. Idle(Home[s])' BY <2>1, <2>2, RestingIsTyped DEF Quiet, Idle
  <2> QED BY <2>2, <2>3, <2>4 DEF Quiet
<1> QED BY <1>1, <1>2, <1>3, <1>4, <1>5, <1>6, <1>7, <1>8, <1>9, <1>10, <1>12, <1>13, <1>14,
           <1>15, <1>16 DEF RoutesNext, Applies, Resolves

\* With one edit at a time in each process, and any number of processes,
\* stopping and starting where they like: between edits is_pin knows each
\* pin by the object that heads its chain, and a turn with no edit beside it
\* resolves a pinned task from its pin.
THEOREM PinsHoldInTurn == EditsTakeTurns /\ RoutesSpec => []PinsHold
<1> DEFINE Inv == Typed /\ Heads /\ Quiet
<1>1. RoutesInit => Inv BY StartsTyped, StartsWithHeads
<1>2. EditsTakeTurns /\ Inv /\ [RoutesNext]_routesVars => Inv'
  BY StepsTyped, HeadsKept, QuietKept
<1>3. Inv => PinsHold
  <2> SUFFICES ASSUME Inv PROVE PinsHold OBVIOUS
  <2>1. PinIsHead BY DEF PinIsHead, Heads, Idle
  <2>2. PinsLeadBetweenTurns
    <3> SUFFICES ASSUME NEW r \in Turns, turn[r].quiet,
                        turn[r].at \in {"held", "reordered"}, turn[r].want # None
                 PROVE  turn[r].at = "held" /\ turn[r].head.spec = turn[r].want
      BY DEF PinsLeadBetweenTurns, Led
    <3> QED BY DEF Quiet
  <2> QED BY <2>1, <2>2 DEF PinsHold
<1>4. EditsTakeTurns /\ Inv /\ [][RoutesNext]_routesVars => []Inv
  <2> SUFFICES ASSUME EditsTakeTurns PROVE Inv /\ [][RoutesNext]_routesVars => []Inv OBVIOUS
  <2>1. Inv /\ [RoutesNext]_routesVars => Inv' BY <1>2
  <2> HIDE DEF Inv
  <2> QED BY <2>1, PTL
<1> HIDE DEF Inv
<1> QED BY <1>1, <1>3, <1>4, PTL DEF RoutesSpec

-----------------------------------------------------------------------------
(* One editor: the file is whole *)

LEMMA BesideKept ==
  ASSUME OneEditor, Typed, Beside, [RoutesNext]_routesVars
  PROVE  Beside'
<1>1. CASE UNCHANGED routesVars BY <1>1 DEF Beside, FileIsWhole, routesVars
\* An editor that neither writes nor replaces, before or after.
<1>2. ASSUME NEW e \in Editors, UNCHANGED <<routes, tmp, content>>,
             editor'[e].at \notin {"write", "replace"}
      PROVE  Beside'
  <2>1. \A d \in Editors : editor'[d].at \notin {"write", "replace"}
    BY <1>2 DEF OneEditor
  <2> QED BY <1>2, <2>1 DEF Beside, FileIsWhole
<1>3. ASSUME NEW e \in Editors, Load(e) PROVE Beside'
  <2>1. UNCHANGED <<routes, tmp, content>> /\ editor'[e].at \in {"check", "reload", "open"}
    BY <1>3, LoadDoes
  <2> QED BY <2>1, <1>2
<1>4. ASSUME NEW e \in Editors, CheckPin(e) PROVE Beside'
  <2>1. UNCHANGED <<routes, tmp, content>> /\ editor'[e].at \in {"restore", "idle"}
    BY <1>4, CheckDoes
  <2> QED BY <2>1, <1>2
<1>5. ASSUME NEW e \in Editors, Applies(e) PROVE Beside'
  <2>1. UNCHANGED <<routes, tmp, content>>
    BY <1>5, RestoreDoes, ClearDoes, PlaceDoes, HoldDoes, ReturnsDoes DEF Applies
  <2>2. CASE Restore(e) \/ ClearActive(e) \/ Hold(e)
    <3>1. editor'[e].at \in {"clear", "place"} BY <2>2, RestoreDoes, ClearDoes, HoldDoes
    <3> QED BY <2>1, <3>1, <1>2
  <2>3. CASE Place(e)
    <3>1. editor'[e].at \in {"hold", "place"} BY <2>3, PlaceDoes
    <3> QED BY <2>1, <3>1, <1>2
  <2>4. CASE Returns(e)
    <3>1. editor'[e].at \in {"restore", "open", "reload", "idle"} BY <2>4, ReturnsDoes
    <3> QED BY <2>1, <3>1, <1>2
  <2> QED BY <1>5, <2>2, <2>3, <2>4 DEF Applies
<1>6. ASSUME NEW e \in Editors, Open(e) PROVE Beside'
  <2>1. /\ UNCHANGED routes /\ editor'[e].at = "write"
        /\ editor'[e].fd = tmp' /\ tmp' \in Files /\ tmp' # 0
        /\ (tmp = 0 /\ tmp' # routes) \/ (tmp # 0 /\ tmp' = tmp)
        /\ content'[tmp'] = Blank
        /\ \A f \in Files \ {tmp'} : content'[f] = content[f]
    BY <1>6, OpenDoes
  <2>2. tmp' # routes' BY <2>1 DEF Beside
  <2>3. FileIsWhole'
    <3> SUFFICES ASSUME routes' # 0 PROVE content'[routes'].state = "whole"
      BY DEF FileIsWhole
    <3>1. routes \in Files /\ content[routes].state = "whole"
      BY <2>1 DEF Beside, FileIsWhole, Typed, RoutesTypeOK
    <3> QED BY <2>1, <2>2, <3>1
  <2>4. content'[tmp'].state = "empty" BY <2>1 DEF Blank
  <2>5. \A d \in Editors : d = e BY DEF OneEditor
  <2> QED BY <2>1, <2>2, <2>3, <2>4, <2>5 DEF Beside
<1>7. ASSUME NEW e \in Editors, Write(e) PROVE Beside'
  <2>1. /\ UNCHANGED <<routes, tmp>> /\ editor[e].at = "write" /\ editor'[e].at = "replace"
        /\ editor[e].fd \in Files /\ content[editor[e].fd].state = "empty"
             => content'[editor[e].fd].state = "whole"
        /\ \A f \in Files \ {editor[e].fd} : content'[f] = content[f]
    BY <1>7, WriteDoes
  <2>2. tmp # 0 /\ editor[e].fd = tmp /\ content[tmp].state = "empty" /\ tmp # routes /\ tmp \in Files
    BY <2>1 DEF Beside, Typed, RoutesTypeOK
  <2>3. content'[tmp].state = "whole" BY <2>1, <2>2
  <2>4. FileIsWhole'
    <3> SUFFICES ASSUME routes' # 0 PROVE content'[routes'].state = "whole"
      BY DEF FileIsWhole
    <3>1. routes \in Files /\ content[routes].state = "whole"
      BY <2>1 DEF Beside, FileIsWhole, Typed, RoutesTypeOK
    <3> QED BY <2>1, <2>2, <3>1
  <2>5. \A d \in Editors : d = e BY DEF OneEditor
  <2> QED BY <2>1, <2>2, <2>3, <2>4, <2>5 DEF Beside
<1>8. ASSUME NEW e \in Editors, Replace(e) PROVE Beside'
  <2>1. /\ editor[e].at = "replace"
        /\ \/ tmp = 0 /\ editor'[e].at = "idle" /\ UNCHANGED <<routes, tmp, content>>
           \/ /\ tmp # 0 /\ routes' = tmp /\ tmp' = 0
              /\ \A f \in Files : content'[f] = IF f = routes THEN Blank ELSE content[f]
              /\ editor'[e].at \in {"reload", "restore"}
    BY <1>8, ReplaceDoes
  <2>2. tmp # 0 /\ content[tmp].state = "whole" /\ tmp # routes /\ tmp \in Files
    BY <2>1 DEF Beside, Typed, RoutesTypeOK
  <2>3. FileIsWhole' BY <2>1, <2>2 DEF FileIsWhole
  <2>4. \A d \in Editors : d = e BY DEF OneEditor
  <2> QED BY <2>1, <2>2, <2>3, <2>4 DEF Beside
<1>9. ASSUME NEW e \in Editors, Reload(e) PROVE Beside'
  <2>1. UNCHANGED <<routes, tmp, content>> /\ editor'[e].at = "restore"
    BY <1>9, ReloadDoes
  <2> QED BY <2>1, <1>2
<1>10. ASSUME NEW r \in Turns, Resolves(r) PROVE Beside'
  <2>1. UNCHANGED <<routes, tmp, content, editor>>
    BY <1>10, BeginDoes, ReadDoes, AskDoes, EndDoes DEF Resolves
  <2> QED BY <2>1 DEF Beside, FileIsWhole
<1>11. ASSUME NEW p \in Processes, Restart(p) PROVE Beside'
  <2>1. UNCHANGED <<routes, tmp, content>>
        /\ \A e \in Editors : editor'[e] = IF Home[e] = p THEN Resting ELSE editor[e]
    BY <1>11, RestartDoes
  <2>2. \A e \in Editors : editor'[e].at \in {"write", "replace"} => editor'[e] = editor[e]
    BY <2>1, RestingIsTyped
  <2> QED BY <2>1, <2>2 DEF Beside, FileIsWhole
<1>12. ASSUME NEW e \in Editors, SaveFails(e) PROVE Beside'
  <2>1. /\ UNCHANGED <<routes, tmp>> /\ editor'[e].at = "idle"
        /\ \/ UNCHANGED content
           \/ /\ editor[e].at = "write"
              /\ \A f \in Files \ {editor[e].fd} : content'[f] = content[f]
    BY <1>12, SaveFailsDoes
  <2>2. editor[e].at = "write" => editor[e].fd # routes BY DEF Beside
  <2>3. FileIsWhole'
    <3> SUFFICES ASSUME routes' # 0 PROVE content'[routes'].state = "whole"
      BY DEF FileIsWhole
    <3>1. routes \in Files /\ content[routes].state = "whole"
      BY <2>1 DEF Beside, FileIsWhole, Typed, RoutesTypeOK
    <3> QED BY <2>1, <2>2, <3>1
  <2>4. \A d \in Editors : d = e BY DEF OneEditor
  <2> QED BY <2>1, <2>3, <2>4 DEF Beside
<1> QED BY <1>1, <1>3, <1>4, <1>5, <1>6, <1>7, <1>8, <1>9, <1>10, <1>11, <1>12
        DEF RoutesNext, Saves

LEMMA StartsBeside == RoutesInit => Beside
BY RestingIsTyped DEF RoutesInit, Beside, FileIsWhole

\* With one editor, wherever its process stops in a save, routes.json is
\* absent or a whole file.
THEOREM FileStaysWhole == OneEditor /\ RoutesSpec => []FileInv
<1> DEFINE Inv == Typed /\ Beside
<1>1. RoutesInit => Inv BY StartsTyped, StartsBeside
<1>2. Inv => FileInv BY DEF FileInv, Typed, Beside
<1>3. OneEditor /\ Inv /\ [][RoutesNext]_routesVars => []Inv
  <2> SUFFICES ASSUME OneEditor PROVE Inv /\ [][RoutesNext]_routesVars => []Inv OBVIOUS
  <2>1. Inv /\ [RoutesNext]_routesVars => Inv' BY StepsTyped, BesideKept
  <2> HIDE DEF Inv
  <2> QED BY <2>1, PTL
<1> HIDE DEF Inv
<1> QED BY <1>1, <1>2, <1>3, PTL DEF RoutesSpec

-----------------------------------------------------------------------------
(* One editor and one process: the table is what the file says *)

\* The file is what it was.
LEMMA LoadedStays ==
  UNCHANGED <<routes, content>> => Loaded' = Loaded /\ Applied(Loaded)' = Applied(Loaded)
BY DEF Loaded, Applied, Valid, Known


LEMMA AppliedIs ==
  ASSUME NEW o, NEW t \in Tasks
  PROVE  Applied(o)[t] = IF /\ o.pins[t] # None
                            /\ Valid(o.ends, t, o.pins[t])
                            /\ <<t, o.pins[t]>> \notin Unfit
                         THEN o.pins[t] ELSE None
BY DEF Applied

LEMMA FollowsFrom ==
  ASSUME OneEditor, OneProcess, NEW e \in Editors, Follow(e)',
         editor'[e].at = "idle" /\ Home[e] \notin ahead' =>
           \A t \in Tasks : live'[Home[e]][t].spec = (Applied(Loaded)')[t]
  PROVE  Follows'
<1>1. \A d \in Editors : d = e BY DEF OneEditor
<1>2. \A d \in Editors : Follow(d)' BY <1>1
<1>3. LiveIsFile'
  <2> SUFFICES ASSUME NEW p \in Processes \ ahead', Idle(p)', NEW t \in Tasks
               PROVE  live'[p][t].spec = (Applied(Loaded)')[t]
    BY DEF LiveIsFile
  <2>1. p = Home[e] BY RoutesAssumption DEF OneProcess
  <2>2. editor'[e].at = "idle" BY <2>1 DEF Idle
  <2> QED BY <2>1, <2>2
<1> QED BY <1>2, <1>3 DEF Follows

LEMMA FollowsKept ==
  ASSUME OneEditor, OneProcess, Typed, Beside, Follows, [RoutesNext]_routesVars
  PROVE  Follows'
<1>0. ASSUME NEW e \in Editors
      PROVE  /\ Follow(e) /\ Home[e] \in Processes
             /\ editor[e].at = "idle" /\ Home[e] \notin ahead =>
                  \A t \in Tasks : live[Home[e]][t].spec = Applied(Loaded)[t]
  <2>1. editor[e].at = "idle" => Idle(Home[e]) BY DEF Idle, OneEditor
  <2> QED BY <2>1, RoutesAssumption DEF Follows, LiveIsFile
\* A step that leaves the file's inode as it is.
<1>a. ASSUME UNCHANGED routes, NEW i, i # routes, \A f \in Files \ {i} : content'[f] = content[f]
      PROVE  Applied(Loaded)' = Applied(Loaded)
  <2>1. routes # 0 => routes \in Files BY DEF Typed, RoutesTypeOK
  <2>2. routes # 0 => content'[routes] = content[routes] BY <1>a, <2>1
  <2>3. Loaded' = Loaded BY <1>a, <2>2 DEF Loaded
  <2> QED BY <2>3 DEF Applied, Valid, Known
<1>1. CASE UNCHANGED routesVars
  BY <1>1 DEF Follows, Follow, Applying, Saving, LiveIsFile, Idle, Applied, Loaded, Valid, Known, routesVars
<1>2. ASSUME NEW e \in Editors, Load(e) PROVE Follows'
  <2>1. /\ UNCHANGED <<routes, content, live, ahead>>
        /\ editor[e].at = "idle" /\ editor'[e].at \in {"check", "reload", "open"}
        /\ editor'[e].at = "check" => editor'[e].old = Loaded /\ editor'[e].edit.kind = "pin"
    BY <1>2, LoadDoes
  <2>2. Loaded' = Loaded /\ Applied(Loaded)' = Applied(Loaded) BY <2>1, LoadedStays
  <2>3. Follow(e)' BY <1>0, <2>1, <2>2 DEF Follow, Applying, Saving
  <2> QED BY <2>1, <2>3, FollowsFrom
<1>3. ASSUME NEW e \in Editors, CheckPin(e) PROVE Follows'
  <2>1. /\ UNCHANGED <<routes, content, live, ahead>> /\ editor[e].at = "check"
        /\ \/ editor'[e].at = "restore" /\ editor'[e].then = "pinned"
              /\ editor'[e].old = editor[e].old /\ editor'[e].edit = editor[e].edit
           \/ editor'[e].at = "idle"
    BY <1>3, CheckDoes
  <2>2. Loaded' = Loaded /\ Applied(Loaded)' = Applied(Loaded) BY <2>1, LoadedStays
  <2>3. /\ editor[e].old = Loaded /\ editor[e].edit.kind = "pin"
        /\ Home[e] \notin ahead => \A t \in Tasks : live[Home[e]][t].spec = Applied(Loaded)[t]
    BY <1>0, <2>1 DEF Follow
  <2>4. Follow(e)' BY <2>1, <2>2, <2>3 DEF Follow, Applying, Saving
  <2> QED BY <2>1, <2>2, <2>3, <2>4, FollowsFrom
<1>4. ASSUME NEW e \in Editors, Restore(e) PROVE Follows'
  <2>1. /\ UNCHANGED <<routes, content>> /\ editor[e].at = "restore" /\ editor'[e].at = "clear"
        /\ editor'[e].arg = editor[e].arg /\ editor'[e].then = editor[e].then
        /\ editor'[e].old = editor[e].old /\ editor'[e].edit = editor[e].edit
        /\ registered'[Home[e]] = editor[e].arg.ends
        /\ \A t \in Tasks : live'[Home[e]][t] = NoPin
    BY <1>4, RestoreDoes
  <2>2. Loaded' = Loaded BY <2>1, LoadedStays
  <2>3. \A t \in Tasks : live'[Home[e]][t].spec = None BY <2>1 DEF NoPin
  <2>4. Follow(e)' BY <1>0, <2>1, <2>2, <2>3 DEF Follow, Applying, Saving
  <2> QED BY <2>1, <2>4, FollowsFrom
<1>5. ASSUME NEW e \in Editors, ClearActive(e) PROVE Follows'
  <2>1. /\ UNCHANGED <<routes, content, live, registered, ahead>>
        /\ editor[e].at = "clear" /\ editor'[e].at = "place"
        /\ editor'[e].arg = editor[e].arg /\ editor'[e].then = editor[e].then
        /\ editor'[e].old = editor[e].old /\ editor'[e].edit = editor[e].edit
        /\ editor'[e].todo = {t \in Tasks : editor[e].arg.pins[t] # None}
    BY <1>5, ClearDoes
  <2>2. Loaded' = Loaded BY <2>1, LoadedStays
  <2>3. \A t \in Tasks : live[Home[e]][t].spec = None BY <1>0, <2>1 DEF Follow
  <2>5. \A t \in Tasks : t \notin editor'[e].todo => Applied(editor[e].arg)[t] = None
    BY <2>1 DEF Applied
  <2>6. Applied(editor[e].arg)' = Applied(editor[e].arg)
    BY <2>1 DEF Applied, Valid, Known
  <2>7. Follow(e)' BY <1>0, <2>1, <2>2, <2>3, <2>5, <2>6 DEF Follow, Applying, Saving
  <2> QED BY <2>1, <2>7, FollowsFrom
<1>6. ASSUME NEW e \in Editors, Place(e) PROVE Follows'
  <2>1. /\ UNCHANGED <<routes, content, registered, ahead>> /\ editor[e].at = "place"
        /\ editor'[e].arg = editor[e].arg /\ editor'[e].then = editor[e].then
        /\ editor'[e].old = editor[e].old /\ editor'[e].edit = editor[e].edit
    BY <1>6, PlaceDoes
  <2> DEFINE o == editor[e].arg
             ends == registered[Home[e]]
             fits(t) == /\ Valid(ends, t, o.pins[t]) /\ <<t, o.pins[t]>> \notin Unfit
                        /\ \A u \in Tasks : live[Home[e]][u].spec # None
                             => Known(ends, live[Home[e]][u].spec)
  <2>2. PICK t \in editor[e].todo :
          /\ editor'[e].todo = editor[e].todo \ {t} /\ t \in Tasks /\ o.pins[t] # None
          /\ \/ fits(t) /\ editor'[e].at = "hold" /\ live'[Home[e]][t].spec = o.pins[t]
             \/ ~fits(t) /\ editor'[e].at = "place" /\ live'[Home[e]][t] = live[Home[e]][t]
          /\ \A u \in Tasks \ {t} : live'[Home[e]][u] = live[Home[e]][u]
    BY <1>6, PlaceDoes
  <2>3. /\ ends = o.ends
        /\ \A u \in Tasks : live[Home[e]][u].spec =
             IF u \in editor[e].todo THEN None ELSE Applied(o)[u]
    BY <1>0, <2>1 DEF Follow
  <2>4. \A u \in Tasks : live[Home[e]][u].spec # None => Known(ends, live[Home[e]][u].spec)
    <3> SUFFICES ASSUME NEW u \in Tasks, live[Home[e]][u].spec # None
                 PROVE  Known(ends, live[Home[e]][u].spec)
      OBVIOUS
    <3>1. live[Home[e]][u].spec = Applied(o)[u] /\ Applied(o)[u] # None BY <2>3
    <3>2. Valid(o.ends, u, o.pins[u]) /\ Applied(o)[u] = o.pins[u] BY <3>1, AppliedIs
    <3> QED BY <2>3, <3>1, <3>2 DEF Valid
  <2>5. live'[Home[e]][t].spec = Applied(o)[t]
    <3>1. live[Home[e]][t].spec = None BY <2>2, <2>3
    <3>2. fits(t) => Applied(o)[t] = o.pins[t] BY <2>2, <2>3, AppliedIs
    <3>3. ~fits(t) => Applied(o)[t] = None BY <2>2, <2>3, <2>4, AppliedIs
    <3> QED BY <2>2, <3>1, <3>2, <3>3
  <2>6. \A u \in Tasks : live'[Home[e]][u].spec =
          IF u \in editor'[e].todo THEN None ELSE Applied(o)[u]
    BY <2>2, <2>3, <2>5
  <2>7. Loaded' = Loaded BY <2>1, LoadedStays
  <2>8. Applied(editor[e].arg)' = Applied(o) BY <2>1 DEF Applied, Valid, Known
  <2>9. editor'[e].at \in {"hold", "place"} BY <2>2
  <2>10. Follow(e)' BY <1>0, <2>1, <2>6, <2>7, <2>8, <2>9 DEF Follow, Applying, Saving
  <2> QED BY <2>9, <2>10, FollowsFrom
<1>7. ASSUME NEW e \in Editors, Hold(e) PROVE Follows'
  <2>1. /\ UNCHANGED <<routes, content, live, registered, ahead>>
        /\ editor[e].at = "hold" /\ editor'[e].at = "place"
        /\ editor'[e].arg = editor[e].arg /\ editor'[e].then = editor[e].then
        /\ editor'[e].old = editor[e].old /\ editor'[e].edit = editor[e].edit
        /\ editor'[e].todo = editor[e].todo
    BY <1>7, HoldDoes
  <2>2. Loaded' = Loaded BY <2>1, LoadedStays
  <2>3. Applied(editor[e].arg)' = Applied(editor[e].arg) BY <2>1 DEF Applied, Valid, Known
  <2>4. Follow(e)' BY <1>0, <2>1, <2>2, <2>3 DEF Follow, Applying, Saving
  <2> QED BY <2>1, <2>4, FollowsFrom
<1>8. ASSUME NEW e \in Editors, Returns(e) PROVE Follows'
  <2>1. /\ UNCHANGED <<routes, content, live, registered, ahead>>
        /\ editor[e].at = "place" /\ editor[e].todo = {}
        /\ \/ /\ editor[e].then = "pinned" /\ editor'[e].at = "restore"
              /\ editor'[e].arg = editor[e].old /\ editor'[e].then = "refused"
           \/ /\ editor[e].then = "pinned" /\ editor'[e].at = "open"
              /\ editor'[e].edit = editor[e].edit
           \/ editor'[e].at = "reload"
           \/ editor[e].then \in {"refused", "reloaded"} /\ editor'[e].at = "idle"
    BY <1>8, ReturnsDoes
  <2>2. Loaded' = Loaded /\ Applied(Loaded)' = Applied(Loaded) BY <2>1, LoadedStays
  <2>3. /\ editor[e].then = "pinned" => editor[e].old = Loaded /\ editor[e].edit.kind = "pin"
        /\ editor[e].then \in {"refused", "reloaded"} => editor[e].arg = Loaded
        /\ \A t \in Tasks : live[Home[e]][t].spec = Applied(editor[e].arg)[t]
    BY <1>0, <2>1 DEF Follow, Applying, Saving
  <2>4. Follow(e)' BY <2>1, <2>2, <2>3 DEF Follow, Applying, Saving
  <2>5. editor'[e].at = "idle" => \A t \in Tasks : live'[Home[e]][t].spec = (Applied(Loaded)')[t]
    BY <2>1, <2>2, <2>3
  <2> QED BY <2>4, <2>5, FollowsFrom
<1>9. ASSUME NEW e \in Editors, Open(e) PROVE Follows'
  <2>1. /\ UNCHANGED <<routes, live, ahead>> /\ editor[e].at = "open" /\ editor'[e].at = "write"
        /\ editor'[e].edit = editor[e].edit
        /\ tmp' \in Files /\ ((tmp = 0 /\ tmp' # routes) \/ (tmp # 0 /\ tmp' = tmp))
        /\ \A f \in Files \ {tmp'} : content'[f] = content[f]
    BY <1>9, OpenDoes
  <2>2. tmp' # routes BY <2>1 DEF Beside
  <2>3. Applied(Loaded)' = Applied(Loaded) BY <2>1, <2>2, <1>a
  <2>4. Follow(e)' BY <1>0, <2>1, <2>3 DEF Follow, Applying, Saving
  <2> QED BY <2>1, <2>4, FollowsFrom
<1>10. ASSUME NEW e \in Editors, Write(e) PROVE Follows'
  <2>1. /\ UNCHANGED <<routes, live, ahead>> /\ editor[e].at = "write" /\ editor'[e].at = "replace"
        /\ editor'[e].edit = editor[e].edit
        /\ \A f \in Files \ {editor[e].fd} : content'[f] = content[f]
    BY <1>10, WriteDoes
  <2>2. editor[e].fd # routes BY <2>1 DEF Beside
  <2>3. Applied(Loaded)' = Applied(Loaded) BY <2>1, <2>2, <1>a
  <2>4. Follow(e)' BY <1>0, <2>1, <2>3 DEF Follow, Applying, Saving
  <2> QED BY <2>1, <2>4, FollowsFrom
<1>11. ASSUME NEW e \in Editors, Replace(e) PROVE Follows'
  <2>1. tmp # 0 BY <1>11, ReplaceDoes DEF Beside
  <2>2. editor'[e].at = "reload" \/ (editor'[e].at = "restore" /\ editor'[e].then = "applied")
    BY <1>11, <2>1, ReplaceDoes
  <2>3. Follow(e)' BY <2>2 DEF Follow, Applying, Saving
  <2> QED BY <2>2, <2>3, FollowsFrom
<1>12. ASSUME NEW e \in Editors, Reload(e) PROVE Follows'
  <2>1. /\ UNCHANGED <<routes, content>> /\ editor'[e].at = "restore"
        /\ editor'[e].arg = Loaded /\ editor'[e].then = "reloaded"
    BY <1>12, ReloadDoes
  <2>2. Loaded' = Loaded BY <2>1, LoadedStays
  <2>3. Follow(e)' BY <2>1, <2>2 DEF Follow, Applying, Saving
  <2> QED BY <2>1, <2>3, FollowsFrom
<1>13. ASSUME NEW r \in Turns, Resolves(r) PROVE Follows'
  <2>1. UNCHANGED <<routes, content, live, registered, ahead, editor>>
    BY <1>13, BeginDoes, ReadDoes, AskDoes, EndDoes DEF Resolves
  <2> QED BY <2>1 DEF Follows, Follow, Applying, Saving, LiveIsFile, Idle, Applied, Loaded, Valid, Known
<1>14. ASSUME NEW p \in Processes, Restart(p) PROVE Follows'
  <2>1. /\ UNCHANGED <<routes, content>>
        /\ \A e \in Editors : editor'[e] = IF Home[e] = p THEN Resting ELSE editor[e]
        /\ \A t \in Tasks : live'[p][t].spec = Applied(Loaded)[t]
    BY <1>14, RestartDoes
  <2>2. Applied(Loaded)' = Applied(Loaded) BY <2>1, LoadedStays
  <2>3. \A e \in Editors : editor'[e].at = "idle"
    BY <2>1, RoutesAssumption, RestingIsTyped DEF OneProcess
  <2>4. LiveIsFile' BY <2>1, <2>2 DEF LiveIsFile, OneProcess
  <2>5. \A e \in Editors : Follow(e)' BY <2>3 DEF Follow, Applying, Saving
  <2> QED BY <2>4, <2>5 DEF Follows
<1>15. ASSUME NEW e \in Editors, SaveFails(e) PROVE Follows'
  <2>1. /\ UNCHANGED <<routes, live>> /\ editor'[e].at = "idle"
        /\ editor[e].at \in {"open", "write", "replace"}
        /\ ahead' = IF editor[e].edit.kind = "pin" THEN ahead \cup {Home[e]} ELSE ahead
        /\ \/ UNCHANGED content
           \/ /\ editor[e].at = "write"
              /\ \A f \in Files \ {editor[e].fd} : content'[f] = content[f]
    BY <1>15, SaveFailsDoes
  <2>2. Follow(e)' BY <2>1 DEF Follow, Applying, Saving
  <2>3. Applied(Loaded)' = Applied(Loaded)
    <3>1. CASE UNCHANGED content BY <2>1, <3>1, LoadedStays
    <3>2. CASE editor[e].at = "write" /\ \A f \in Files \ {editor[e].fd} : content'[f] = content[f]
      <4>1. editor[e].fd # routes BY <3>2 DEF Beside
      <4> QED BY <2>1, <3>2, <4>1, <1>a
    <3> QED BY <2>1, <3>1, <3>2
  <2>4. Home[e] \notin ahead' =>
          \A t \in Tasks : live[Home[e]][t].spec = Applied(Loaded)[t]
    <3> SUFFICES ASSUME Home[e] \notin ahead'
                 PROVE  \A t \in Tasks : live[Home[e]][t].spec = Applied(Loaded)[t]
      OBVIOUS
    <3>1. editor[e].edit.kind # "pin" /\ Home[e] \notin ahead BY <2>1
    <3> QED BY <1>0, <2>1, <3>1 DEF Follow, Saving
  <2> QED BY <2>1, <2>2, <2>3, <2>4, FollowsFrom
<1> QED BY <1>1, <1>2, <1>3, <1>4, <1>5, <1>6, <1>7, <1>8, <1>9, <1>10, <1>11, <1>12,
           <1>13, <1>14, <1>15 DEF RoutesNext, Applies, Saves

LEMMA StartsFollowing == RoutesInit => Follows
<1> SUFFICES ASSUME RoutesInit PROVE Follows OBVIOUS
<1>1. \A e \in Editors : editor[e].at = "idle" BY RestingIsTyped DEF RoutesInit
<1>2. \A p \in Processes, t \in Tasks : live[p][t].spec = None BY DEF RoutesInit, NoPin
<1>3. Loaded = Nothing /\ \A t \in Tasks : Applied(Loaded)[t] = None
  BY DEF RoutesInit, Loaded, Nothing, Applied
<1>4. LiveIsFile BY <1>2, <1>3 DEF LiveIsFile
<1>5. \A e \in Editors : Follow(e) BY <1>1 DEF Follow, Applying, Saving
<1> QED BY <1>4, <1>5 DEF Follows

\* With one editor in one process, stopping and starting where it likes: the
\* file is whole, between edits the live table is what the file says, and a
\* pin is what its task resolves to - whatever is pinned, cleared, added and
\* removed, and whatever apply refuses on the way.
THEOREM RoutesHold == OneEditor /\ OneProcess /\ RoutesSpec => []RoutesInv
<1> DEFINE Inv == Beside /\ Typed /\ Follows
<1>1. RoutesInit => Inv BY StartsTyped, StartsBeside, StartsFollowing
<1>2. OneEditor /\ OneProcess /\ Inv /\ [][RoutesNext]_routesVars => []Inv
  <2> SUFFICES ASSUME OneEditor, OneProcess PROVE Inv /\ [][RoutesNext]_routesVars => []Inv
    OBVIOUS
  <2>1. Inv /\ [RoutesNext]_routesVars => Inv' BY StepsTyped, BesideKept, FollowsKept
  <2> HIDE DEF Inv
  <2> QED BY <2>1, PTL
<1>3. OneEditor => EditsTakeTurns BY DEF OneEditor, EditsTakeTurns
<1>4. OneEditor /\ RoutesSpec => []PinsHold BY <1>3, PinsHoldInTurn, PTL
<1>5. Inv /\ PinsHold => RoutesInv BY DEF RoutesInv, FileInv, Typed, Beside, Follows
<1> HIDE DEF Inv
<1> QED BY <1>1, <1>2, <1>4, <1>5, PTL DEF RoutesSpec

-----------------------------------------------------------------------------
(***************************************************************************)
(* Walkthroughs: a clean result is a check, whatever the script.           *)
(***************************************************************************)
Exits == {"exit 0", "exit 2"}
Outs == [text : BOOLEAN, exit : {0, 2}, status : {"none", "200", "404"}]

WalkTypes ==
  /\ script \in Seq(STRING) /\ held \in 0..Len(script)
  /\ at \in {"parse", "step", "alive", "end", "close", "done"}
  /\ proc \in {"none", "up", "dead", "stopped", "asked"}
  /\ at # "done" => proc # "asked"
  /\ screen \in Int /\ shots \in Seq(Int) /\ Len(shots) <= 2 /\ out \in Outs
  /\ traced \in BOOLEAN /\ threw \in BOOLEAN /\ failed \in BOOLEAN /\ killed \in BOOLEAN
  /\ crashes \subseteq Nat
  /\ result \in {"none", "refused", "could not run", "a step failed", "the page threw", "clean"}

\* A step to come says what the command at m exits with, and the exit is still
\* that command's when it is reached.
StillTold(m) ==
  \E k \in (held + 1)..Len(script) :
     script[k] \in Exits /\ \A j \in (m + 1)..k : script[j] \notin {"run", "request", "serve"}

\* A walk that goes on past a command that failed has that ahead of it.
CrashesTold ==
  /\ crashes # {} => Backend = "shell"
  /\ ~failed => \A m \in crashes : m <= held /\ out.exit = 2 /\ StillTold(m)

\* What holds at the points of a walk.
Stopped == failed \/ held = Len(script)
Traces == Backend \in Devices \ {"windows"} /\ proc = "dead" /\ traced
Phases ==
  /\ at = "parse" => held = 0 /\ proc = "none" /\ crashes = {} /\ ~failed
  /\ at \notin {"parse", "done"} => Parses
  /\ at # "done" => result = "none"
  /\ at = "alive" => held < Len(script) /\ ~failed /\ crashes = {}
  /\ at \in {"end", "close"} => Stopped
  /\ at = "close" /\ Traces => failed
  /\ killed => at \in {"close", "done"}

WalkEnds == CleanIsACheck /\ NothingLeftUnasked
Walks == WalkTypes /\ CrashesTold /\ Phases /\ WalkEnds

LEMMA ScriptStays ==
  ASSUME script' = script PROVE Backend' = Backend /\ (Parses' <=> Parses) /\ Allowed' = Allowed
BY DEF Backend, Parses, Allowed

LEMMA WalkIsTyped ==
  ASSUME WalkTypes
  PROVE  /\ Len(script) \in Nat /\ held \in Nat /\ held <= Len(script) /\ crashes \subseteq Nat
         /\ failed \in BOOLEAN /\ out \in Outs /\ shots \in Seq(Int) /\ Len(shots) <= 2
         /\ screen \in Int /\ proc \in {"none", "up", "dead", "stopped", "asked"} /\ traced \in BOOLEAN
<1>1. script \in Seq(STRING) /\ held \in 0..Len(script) BY DEF WalkTypes
<1>2. Len(script) \in Nat BY <1>1, LenProperties
<1>3. held \in Nat /\ held <= Len(script) BY <1>1, <1>2
<1>4. Len(shots) <= 2 BY DEF WalkTypes
<1> QED BY <1>2, <1>3, <1>4, Zenon DEF WalkTypes

\* One picture more, of the last two.
LEMMA FramesAreTwo ==
  ASSUME shots \in Seq(Int), NEW image \in Int
  PROVE Framed(image) \in Seq(Int) /\ Len(Framed(image)) <= 2
<1>1. CASE shots = <<>> BY <1>1 DEF Framed
<1>2. CASE shots # <<>>
  <2>1. Len(shots) \in Nat /\ Len(shots) # 0 BY <1>2, EmptySeq
  <2>2. Last(shots) \in Int BY <2>1 DEF Last
  <2> QED BY <1>2, <2>2 DEF Framed
<1> QED BY <1>1, <1>2

AnyStart == ServerStart \cup TtyStart \cup AndroidStart \cup IosStart \cup MacStart
            \cup LinuxStart \cup WindowsStart

LEMMA StartsAreTyped ==
  ASSUME NEW s \in AnyStart
  PROVE s.ok \in BOOLEAN /\ s.proc \in {"none", "up", "dead"} /\ s.traced \in BOOLEAN
BY DEF AnyStart, Start, ServerStart, TtyStart, AndroidStart, IosStart, MacStart,
       LinuxStart, WindowsStart

-----------------------------------------------------------------------------
(* A step, whatever drives it: what it says of the crashes, and the rest. *)

\* A step that is no exit leaves what was promised ahead of the walk.
Onward == held' = held + 1 /\ held < Len(script) /\ UNCHANGED failed /\ Verb \notin Exits
StepTaken == failed' = TRUE \/ UNCHANGED <<held, failed>> \/ Onward
LEMMA PromisesStay ==
  ASSUME WalkTypes, CrashesTold, StepTaken, script' = script, crashes' = crashes, out'.exit = out.exit
  PROVE CrashesTold'
<1>1. Backend' = Backend BY ScriptStays
<1>2. CASE failed' BY <1>1, <1>2 DEF CrashesTold
<1>3. CASE ~failed'
  <2> SUFFICES ASSUME NEW m \in crashes PROVE m <= held' /\ out'.exit = 2 /\ StillTold(m)'
    BY <1>1, <1>3 DEF CrashesTold
  <2>0. CASE failed BY <1>3, <2>0, Zenon DEF StepTaken, Onward
  <2>1. /\ ~failed => m <= held /\ out.exit = 2 /\ StillTold(m)
        /\ m \in Nat /\ held \in Nat /\ Len(script) \in Nat
    BY WalkIsTyped, Zenon DEF CrashesTold
  <2>2. CASE ~failed /\ held' = held BY <2>1, <2>2 DEF StillTold
  <2>3. CASE ~failed /\ Onward
    <3>1. PICK k \in (held + 1)..Len(script) :
             script[k] \in Exits /\ \A j \in (m + 1)..k : script[j] \notin {"run", "request", "serve"}
      BY <2>1, <2>3 DEF StillTold
    <3>2. k # held + 1 BY <2>3, <3>1 DEF Verb, Onward
    <3>3. k \in (held' + 1)..Len(script') BY <2>1, <2>3, <3>1, <3>2 DEF Onward
    <3> QED BY <2>1, <2>3, <3>1, <3>3 DEF StillTold, Onward
  <2> QED BY <1>3, <2>0, <2>2, <2>3, Zenon DEF StepTaken
<1> QED BY <1>2, <1>3

\* Where nothing but a shell runs, no command has failed.
LEMMA NoCrashes ==
  ASSUME CrashesTold, Backend # "shell", script' = script, crashes' = crashes
  PROVE CrashesTold'
<1>1. crashes = {} BY DEF CrashesTold
<1> QED BY <1>1 DEF CrashesTold

\* In the middle of a walk the rest is as it was.
LEMMA MidWalk ==
  ASSUME Phases, at = "step", at' = "step", script' = script, result' = result, killed' = killed
  PROVE Phases' /\ WalkEnds'
BY ScriptStays DEF Phases, WalkEnds, CleanIsACheck, NothingLeftUnasked

LEMMA HoldsIsTyped ==
  ASSUME WalkTypes, held < Len(script), script' = script, Holds \/ Fails
  PROVE held' \in 0..Len(script') /\ failed' \in BOOLEAN /\ at' = at
<1>1. Len(script) \in Nat /\ held \in Nat /\ held <= Len(script) BY WalkIsTyped
<1>2. failed' \in BOOLEAN /\ at' = at BY WalkIsTyped, Zenon DEF Holds, Fails
<1>3. held' = held \/ held' = held + 1 BY Zenon DEF Holds, Fails
<1>4. held' \in 0..Len(script') BY <1>1, <1>3
<1> QED BY <1>2, <1>4

LEMMA BeginHolds ==
  ASSUME Walks, at = "step", held < Len(script), Verb \notin Exits,
         NEW starts \in SUBSET AnyStart, Begin(starts)
  PROVE Walks'
<1>1. PICK s \in starts : (IF s.ok THEN Holds ELSE Fails) /\ proc' = s.proc /\ traced' = s.traced
  BY DEF Begin
<1>2. s.proc \in {"none", "up", "dead"} /\ s.traced \in BOOLEAN BY StartsAreTyped
<1>3. Holds \/ Fails BY <1>1
<1>4. held' \in 0..Len(script') /\ failed' \in BOOLEAN /\ at' = "step"
  BY <1>3, HoldsIsTyped DEF Walks, Begin
<1>5. WalkTypes' BY <1>1, <1>2, <1>4 DEF Walks, WalkTypes, Begin
<1>6. CrashesTold' BY <1>3, PromisesStay DEF Walks, Begin, Holds, Fails, StepTaken, Onward
<1>7. Phases' /\ WalkEnds' BY <1>4, MidWalk DEF Walks, Begin
<1> QED BY <1>5, <1>6, <1>7 DEF Walks

-----------------------------------------------------------------------------
(* The shell *)

\* No command runs while the exit of an earlier one is to be said.
LEMMA RunHolds == ASSUME Walks, Run PROVE Walks'
<1> USE DEF Walks
<1>0. /\ at = "step" /\ held < Len(script) /\ ~failed /\ Backend = "shell" /\ Verb = "run"
      /\ held \in Nat /\ Len(script) \in Nat /\ script' = script
  BY WalkIsTyped DEF Run, At
<1>1. crashes = {}
  <2> SUFFICES ASSUME NEW m \in crashes PROVE FALSE OBVIOUS
  <2>1. m <= held /\ StillTold(m) /\ m \in Nat BY <1>0, WalkIsTyped DEF CrashesTold
  <2>2. held + 1 \in (m + 1)..(held + 1) BY <1>0, <2>1
  <2> QED BY <1>0, <2>1, <2>2 DEF StillTold, Verb
<1>2. PICK exit \in {0, 2}, text \in BOOLEAN :
         /\ out' = [out EXCEPT !.exit = exit, !.text = text]
         /\ IF exit # 0 /\ ~ExpectsExit THEN Fails ELSE Holds
         /\ crashes' = IF exit # 0 THEN crashes \cup {held + 1} ELSE crashes
  BY DEF Run
<1>3. out' \in Outs /\ out'.exit = exit BY <1>2 DEF WalkTypes, Outs
<1>4. Holds \/ Fails BY <1>2
<1>5. held' \in 0..Len(script') /\ failed' \in BOOLEAN /\ at' = "step"
  BY <1>0, <1>4, HoldsIsTyped DEF Run
<1>6. WalkTypes'
  <2>1. crashes' \subseteq Nat BY <1>0, <1>2, WalkIsTyped
  <2>2. at # "done" /\ proc' = proc BY <1>0 DEF Run
  <2>3. proc' # "asked" BY <2>2 DEF WalkTypes
  <2> QED BY <1>3, <1>5, <2>1, <2>3, Zenon DEF WalkTypes, Run
<1>7. Phases' /\ WalkEnds' BY <1>0, <1>5, MidWalk DEF Run
<1>8. CrashesTold'
  <2>1. Backend' = "shell" BY <1>0, ScriptStays DEF Run
  <2>2. CASE failed' \/ crashes' = {} BY <2>1, <2>2 DEF CrashesTold
  <2>3. CASE ~failed' /\ crashes' # {}
    <3>1. exit = 2 /\ crashes' = {held + 1} BY <1>1, <1>2, <2>3
    <3>2. ExpectsExit /\ held' = held + 1 BY <1>2, <2>3, <3>1 DEF Holds, Fails
    <3>3. PICK k \in (held + 2)..Len(script) :
            /\ script[k] \in {"exit 0", "exit 2"}
            /\ \A j \in (held + 2)..k : script[j] \notin {"run", "request", "serve"}
      BY <3>2 DEF ExpectsExit
    <3>4. k \in (held' + 1)..Len(script') /\ (held + 1) + 1 = held + 2
      <4>1. held' = held + 1 /\ held \in Nat /\ Len(script) \in Nat BY <1>0, <3>2
      <4>2. k \in (held' + 1)..Len(script) /\ (held + 1) + 1 = held + 2 BY <4>1
      <4> QED BY <1>0, <4>2
    <3>5. ASSUME NEW m \in crashes' PROVE m = held + 1 /\ StillTold(m)'
      BY <1>0, <3>1, <3>3, <3>4, <3>5 DEF StillTold, Exits
    <3>6. held + 1 <= held' BY <1>0, <3>2
    <3>7. \A m \in crashes' : m <= held' /\ out'.exit = 2 /\ StillTold(m)'
      BY <1>3, <3>1, <3>5, <3>6
    <3> QED BY <2>1, <3>7, Zenon DEF CrashesTold
  <2> QED BY <2>2, <2>3
<1> QED BY <1>6, <1>7, <1>8

LEMMA RequestHolds == ASSUME Walks, Request PROVE Walks'
<1> USE DEF Walks
<1>0. at = "step" /\ held < Len(script) /\ Verb \notin Exits BY DEF Request, At, Exits
<1>1. out' \in Outs /\ out'.exit = out.exit /\ (Holds \/ Fails)
  <2>1. CASE UNCHANGED out /\ Fails BY <2>1 DEF WalkTypes
  <2>2. CASE Holds /\ \E text \in BOOLEAN, status \in {"200", "404"} :
               out' = [out EXCEPT !.text = text, !.status = status]
    BY <2>2 DEF WalkTypes, Outs
  <2> QED BY <2>1, <2>2 DEF Request
<1>2. held' \in 0..Len(script') /\ failed' \in BOOLEAN /\ at' = "step"
  BY <1>0, <1>1, HoldsIsTyped DEF Request
<1>3. WalkTypes'
  <2>1. proc' = proc /\ proc # "asked" BY <1>0 DEF Request, WalkTypes
  <2> QED BY <1>1, <1>2, <2>1, Zenon DEF WalkTypes, Request
<1>4. CrashesTold' BY <1>0, <1>1, PromisesStay DEF Request, Holds, Fails, StepTaken, Onward
<1>5. Phases' /\ WalkEnds' BY <1>0, <1>2, MidWalk DEF Request
<1> QED BY <1>3, <1>4, <1>5

\* The steps that only look.
Looks == Status \/ ShellExpect
LEMMA LooksHold == ASSUME Walks, Looks PROVE Walks'
<1> USE DEF Walks
<1>0. /\ at = "step" /\ held < Len(script) /\ Verb \notin Exits /\ (Holds \/ Fails)
      /\ UNCHANGED <<script, proc, traced, screen, shots, threw, out, result, killed, crashes>>
  <2>1. CASE Status BY <2>1 DEF Status, At, Exits
  <2>2. CASE ShellExpect BY <2>2 DEF ShellExpect, At, Exits
  <2> QED BY <2>1, <2>2 DEF Looks
<1>1. held' \in 0..Len(script') /\ failed' \in BOOLEAN /\ at' = "step"
  BY <1>0, HoldsIsTyped
<1>2. WalkTypes' BY <1>0, <1>1 DEF WalkTypes
<1>3. CrashesTold' BY <1>0, PromisesStay DEF Holds, Fails, StepTaken, Onward
<1>4. Phases' /\ WalkEnds' BY <1>0, <1>1, MidWalk
<1> QED BY <1>2, <1>3, <1>4

\* An exit that holds is that of every command that failed so far, or the walk
\* would have stopped at them.
LEMMA ShellExitHolds == ASSUME Walks, ShellExit PROVE Walks'
<1> USE DEF Walks
<1>0. /\ at = "step" /\ held < Len(script) /\ ~failed /\ Verb \in Exits
      /\ held \in Nat /\ Len(script) \in Nat /\ (Holds \/ Fails)
      /\ Backend = "shell" /\ crashes' \subseteq crashes
  BY WalkIsTyped DEF ShellExit, At, Exits
<1>1. held' \in 0..Len(script') /\ failed' \in BOOLEAN /\ at' = "step"
  BY <1>0, HoldsIsTyped DEF ShellExit
<1>2. WalkTypes' BY <1>0, <1>1 DEF WalkTypes, ShellExit
<1>3. Phases' /\ WalkEnds' BY <1>0, <1>1, MidWalk DEF ShellExit
<1>4. Backend' = "shell" BY <1>0, ScriptStays DEF ShellExit
<1>5. ASSUME ~failed', NEW m \in crashes'
      PROVE m <= held' /\ out'.exit = 2 /\ StillTold(m)'
  <2>1. Holds BY <1>0, <1>5 DEF Fails
  <2>2. held' = held + 1 BY <2>1 DEF Holds
  <2>3. m \in crashes /\ m <= held /\ out.exit = 2 /\ StillTold(m) /\ m \in Nat
    BY <1>0, <1>5, WalkIsTyped DEF CrashesTold
  <2>4. PICK k \in (held + 1)..Len(script) :
          script[k] \in Exits /\ \A j \in (m + 1)..k : script[j] \notin {"run", "request", "serve"}
    BY <2>3 DEF StillTold
  <2>5. Verb = "exit 2"
    <3>1. Verb = "exit 0" \/ Verb = "exit 2" BY <1>0 DEF Exits
    <3>2. ~Fails BY <1>5 DEF Fails
    <3>3. out.exit = (IF Verb = "exit 0" THEN 0 ELSE 2) BY <3>2, Zenon DEF ShellExit
    <3>4. Verb = "exit 0" => out.exit = 0 BY <3>3, Zenon
    <3>5. out.exit = 2 BY <2>3, Zenon
    <3>6. out.exit # 0 BY <3>5
    <3> QED BY <3>1, <3>4, <3>6, Zenon
  <2>6. crashes' = {i \in crashes : \E j \in (i + 1)..held : script[j] = "run"}
    BY <2>3, <2>5 DEF ShellExit
  <2>7. PICK j \in (m + 1)..held : script[j] = "run" BY <1>5, <2>6
  <2>8. j \in (m + 1)..k BY <1>0, <2>3, <2>4, <2>7
  <2> QED BY <2>4, <2>7, <2>8
<1>6. CrashesTold' BY <1>4, <1>5 DEF CrashesTold
<1> QED BY <1>2, <1>3, <1>6

-----------------------------------------------------------------------------
(* The page, the terminal and the device *)

OffShell ==
  \/ PageAct \/ PageExpect \/ PageExit \/ PageChanged
  \/ TtyStep \/ TtyExit \/ Screen \/ DeviceChanged

LEMMA ForgetIsTyped == ASSUME out \in Outs PROVE Forget \in Outs
BY DEF Forget, Outs

LEMMA OffShellHolds == ASSUME Walks, OffShell PROVE Walks'
<1> USE DEF Walks
<1>t. /\ out \in Outs /\ proc \in {"none", "up", "dead", "stopped", "asked"} /\ screen \in Int
      /\ shots \in Seq(Int) /\ Len(shots) <= 2 /\ Forget \in Outs
      /\ at = "step" => proc # "asked"
  BY ForgetIsTyped DEF WalkTypes
<1>0. /\ at = "step" /\ held < Len(script) /\ Backend # "shell" /\ (Holds \/ Fails)
      /\ UNCHANGED <<script, traced, threw, result, killed, crashes>>
      /\ out' \in Outs /\ proc' \in {"none", "up", "dead", "stopped"}
      /\ screen' \in Int /\ shots' \in Seq(Int) /\ Len(shots') <= 2
  <2>1. CASE PageAct
    <3>1. CASE Fails /\ UNCHANGED <<shots, screen>> BY <1>t, <2>1, <3>1 DEF PageAct, At
    <3>2. CASE Holds /\ screen' \in {0, 1} /\ shots' = Framed(screen')
      <4>1. screen' \in Int BY <3>2
      <4>2. shots' \in Seq(Int) /\ Len(shots') <= 2 BY <1>t, <3>2, <4>1, FramesAreTwo
      <4> QED BY <1>t, <2>1, <3>2, <4>1, <4>2 DEF PageAct, At
    <3> QED BY <2>1, <3>1, <3>2 DEF PageAct
  <2>2. CASE PageExpect BY <1>t, <2>2 DEF PageExpect, At
  <2>3. CASE PageExit BY <1>t, <2>3 DEF PageExit, At
  <2>4. CASE PageChanged BY <1>t, <2>4 DEF PageChanged, At
  <2>5. CASE TtyStep BY <1>t, <2>5 DEF TtyStep, At
  <2>6. CASE TtyExit BY <1>t, <2>6 DEF TtyExit, At
  <2>7. CASE Screen BY <1>t, <2>7 DEF Screen, At, Devices
  <2>8. CASE DeviceChanged BY <1>t, <2>8 DEF DeviceChanged, At, Devices
  <2> QED BY <2>1, <2>2, <2>3, <2>4, <2>5, <2>6, <2>7, <2>8 DEF OffShell
<1>1. held' \in 0..Len(script') /\ failed' \in BOOLEAN /\ at' = "step"
  BY <1>0, HoldsIsTyped
<1>2. WalkTypes' BY <1>0, <1>1 DEF WalkTypes
<1>3. CrashesTold' BY <1>0, NoCrashes
<1>4. Phases' /\ WalkEnds' BY <1>0, <1>1, MidWalk
<1> QED BY <1>2, <1>3, <1>4

\* An app that took a step is asked next whether it lives.
Asks == Launch \/ Act
LEMMA AsksHold == ASSUME Walks, Asks PROVE Walks'
<1> USE DEF Walks
<1>0. /\ at = "step" /\ held < Len(script) /\ ~failed /\ Backend \in Devices /\ (Asked \/ Fails)
      /\ UNCHANGED <<script, shots, threw, out, result, killed, crashes>>
      /\ proc' \in {"none", "up", "dead", "stopped"} /\ traced' \in BOOLEAN /\ screen' \in Int
  <2>1. CASE Launch
    <3>1. PICK s \in AnyStart : /\ IF s.ok THEN Asked ELSE Fails
                               /\ proc' = s.proc /\ traced' = s.traced
      BY <2>1 DEF Launch, AnyStart
    <3>2. s.proc \in {"none", "up", "dead"} /\ s.traced \in BOOLEAN BY StartsAreTyped
    <3> QED BY <2>1, <3>1, <3>2 DEF Launch, At, WalkTypes
  <2>2. CASE Act
    <3>1. at = "step" /\ proc' = proc BY <2>2 DEF Act, At
    <3>2. proc' \in {"none", "up", "dead", "stopped"} BY <3>1 DEF WalkTypes
    <3>3. screen' \in Int BY <2>2, WalkIsTyped DEF Act
    <3> QED BY <2>2, <3>2, <3>3, WalkIsTyped DEF Act, At
  <2> QED BY <2>1, <2>2 DEF Asks
<1>1. crashes = {} /\ Backend # "shell" BY <1>0 DEF CrashesTold, Devices
<1>2. held' = held /\ failed' \in BOOLEAN /\ at' \in {"step", "alive"} /\ (at' = "alive" => ~failed')
  <2>1. CASE Asked
    <3>1. at' = "alive" /\ held' = held BY <2>1 DEF Asked
    <3>2. failed' = failed BY <2>1 DEF Asked
    <3>3. ~failed' /\ failed' \in BOOLEAN BY <1>0, <3>2, WalkIsTyped, Zenon
    <3> QED BY <3>1, <3>3, Zenon
  <2>2. CASE Fails BY <1>0, <2>2 DEF Fails
  <2> QED BY <1>0, <2>1, <2>2
<1>3. WalkTypes' BY <1>0, <1>2 DEF WalkTypes
<1>4. CrashesTold' BY <1>0, <1>1, NoCrashes
<1>5. Phases' /\ WalkEnds'
  BY <1>0, <1>1, <1>2, ScriptStays DEF Phases, WalkEnds, CleanIsACheck, NothingLeftUnasked
<1> QED BY <1>3, <1>4, <1>5

LEMMA StillAliveHolds == ASSUME Walks, StillAlive PROVE Walks'
<1> USE DEF Walks
<1>0. /\ at = "alive" /\ at' = "step" /\ held < Len(script) /\ held \in Nat /\ Len(script) \in Nat
      /\ crashes = {} /\ shots \in Seq(Int) /\ screen \in Int /\ failed \in BOOLEAN
  BY DEF StillAlive, Phases, WalkTypes
<1>1. held' \in 0..Len(script) /\ failed' \in BOOLEAN /\ shots' \in Seq(Int) /\ Len(shots') <= 2
  <2>1. CASE failed' = TRUE /\ UNCHANGED <<held, shots>> BY <2>1 DEF WalkTypes
  <2>2. CASE /\ held' = held + 1 /\ UNCHANGED failed
             /\ \E image \in {screen, -1} :
                  shots' = IF Verb = "expect" THEN shots ELSE Framed(image)
    <3>1. PICK image \in {screen, -1} : shots' = IF Verb = "expect" THEN shots ELSE Framed(image)
      BY <2>2
    <3>2. image \in Int BY <1>0
    <3>3. Framed(image) \in Seq(Int) /\ Len(Framed(image)) <= 2 BY <1>0, <3>2, FramesAreTwo
    <3> QED BY <1>0, <2>2, <3>1, <3>3, WalkIsTyped
  <2> QED BY <2>1, <2>2 DEF StillAlive
<1>2. WalkTypes' BY <1>0, <1>1 DEF WalkTypes, StillAlive
<1>3. CrashesTold' BY <1>0 DEF CrashesTold, StillAlive
<1>4. Phases' /\ WalkEnds'
  BY <1>0, ScriptStays DEF StillAlive, Phases, WalkEnds, CleanIsACheck, NothingLeftUnasked
<1> QED BY <1>2, <1>3, <1>4

-----------------------------------------------------------------------------
(* The start, what happens between the steps, and the end *)

LEMMA ParseHolds == ASSUME Walks, Parse PROVE Walks'
<1> USE DEF Walks
<1>1. WalkTypes' BY DEF WalkTypes, Parse
<1>2. CrashesTold' BY PromisesStay DEF Parse, StepTaken
<1>3. Phases' /\ WalkEnds'
  BY ScriptStays DEF Parse, Phases, WalkEnds, CleanIsACheck, NothingLeftUnasked
<1> QED BY <1>1, <1>2, <1>3

LEMMA DieHolds == ASSUME Walks, Die PROVE Walks'
<1> USE DEF Walks
<1>0. traced' \in BOOLEAN BY DEF Die, AndroidTrace, IosTrace, MacTrace, LinuxTrace, WalkTypes
<1>1. WalkTypes' BY <1>0 DEF WalkTypes, Die
<1>2. CrashesTold' BY PromisesStay DEF Die, StepTaken
<1>3. Phases' /\ WalkEnds'
  BY ScriptStays DEF Die, Phases, Stopped, WalkEnds, CleanIsACheck, NothingLeftUnasked
<1> QED BY <1>1, <1>2, <1>3

LEMMA ThrowHolds == ASSUME Walks, Throw PROVE Walks'
<1> USE DEF Walks
<1>1. WalkTypes' BY DEF WalkTypes, Throw
<1>2. CrashesTold' BY PromisesStay DEF Throw, StepTaken
<1>3. Phases' /\ WalkEnds'
  BY ScriptStays DEF Throw, Phases, Stopped, WalkEnds, CleanIsACheck, NothingLeftUnasked
<1> QED BY <1>1, <1>2, <1>3

LEMMA EndHolds == ASSUME Walks, End PROVE Walks'
<1> USE DEF Walks
<1>1. WalkTypes' BY DEF WalkTypes, End
<1>2. CrashesTold' BY PromisesStay DEF End, StepTaken
<1>3. Phases' /\ WalkEnds'
  BY ScriptStays DEF End, Phases, Stopped, WalkEnds, CleanIsACheck, NothingLeftUnasked
<1> QED BY <1>1, <1>2, <1>3

LEMMA LastErrorsHolds == ASSUME Walks, LastErrors PROVE Walks'
<1> USE DEF Walks
<1>0. /\ failed' \in BOOLEAN /\ killed' \in BOOLEAN /\ (failed => failed')
      /\ (Traces' => failed') /\ StepTaken
  BY ScriptStays DEF LastErrors, Traces, WalkTypes, StepTaken
<1>1. WalkTypes' BY <1>0 DEF WalkTypes, LastErrors
<1>2. CrashesTold' BY <1>0, PromisesStay DEF LastErrors
<1>3. Phases' /\ WalkEnds'
  BY <1>0, ScriptStays DEF LastErrors, Phases, Stopped, WalkEnds, CleanIsACheck, NothingLeftUnasked
<1> QED BY <1>1, <1>2, <1>3

\* The walk is over: what it says is what it did.
LEMMA CloseWalkHolds == ASSUME Walks, CloseWalk PROVE Walks'
<1> USE DEF Walks
<1>0. /\ at = "close" /\ at' = "done" /\ Parses /\ Stopped /\ (Traces => failed)
      /\ proc \in {"none", "up", "dead", "stopped"} /\ threw \in BOOLEAN /\ failed \in BOOLEAN /\ killed \in BOOLEAN
  BY DEF CloseWalk, Phases, WalkTypes
<1>1. /\ proc' \in {"none", "dead", "stopped", "asked"} /\ (proc' = "dead" => proc = "dead")
      /\ proc' = "asked" => Backend \in Devices
  BY <1>0 DEF CloseWalk, AsksIt, StopsIt
<1>2. /\ result' \in {"could not run", "a step failed", "the page threw", "clean"}
      /\ result' = "clean" => ~failed /\ ~threw
  BY <1>0 DEF CloseWalk
<1>3. WalkTypes' BY <1>0, <1>1, <1>2 DEF WalkTypes, CloseWalk
<1>4. CrashesTold' BY PromisesStay DEF CloseWalk, StepTaken
<1>5. ~failed => held = Len(script) /\ crashes = {}
  <2> SUFFICES ASSUME ~failed PROVE crashes = {} /\ held = Len(script) OBVIOUS
  <2>1. held = Len(script) /\ Len(script) \in Nat BY <1>0, WalkIsTyped DEF Stopped
  <2> QED BY <2>1 DEF CrashesTold, StillTold
<1>6. CleanIsACheck'
  BY <1>0, <1>1, <1>2, <1>5, ScriptStays DEF CloseWalk, CleanIsACheck, Traces
<1>7. Phases' /\ WalkEnds'
  BY <1>0, <1>1, <1>6, ScriptStays DEF CloseWalk, Phases, WalkEnds, NothingLeftUnasked
<1> QED BY <1>3, <1>4, <1>7

LEMMA TimeoutHolds == ASSUME Walks, Timeout PROVE Walks'
<1> USE DEF Walks
<1>1. WalkTypes' BY DEF WalkTypes, Timeout
<1>2. CrashesTold' BY PromisesStay DEF Timeout, StepTaken
<1>3. Phases' /\ WalkEnds'
  BY DEF Timeout, Phases, WalkEnds, CleanIsACheck, NothingLeftUnasked
<1> QED BY <1>1, <1>2, <1>3

-----------------------------------------------------------------------------
LEMMA WalkInitHolds == WalkInit => Walks
<1> SUFFICES ASSUME WalkInit PROVE Walks OBVIOUS
<1>1. script \in Seq(STRING) BY WalkAssumption DEF WalkInit
<1>2. Len(script) \in Nat BY <1>1, LenProperties
<1>3. held \in 0..Len(script) BY <1>2 DEF WalkInit
<1>4. out \in Outs BY DEF WalkInit, NoOutput, Outs
<1>5. shots \in Seq(Int) /\ Len(shots) <= 2 /\ screen \in Int BY DEF WalkInit
<1>6. WalkTypes BY <1>1, <1>3, <1>4, <1>5, Zenon DEF WalkInit, WalkTypes
<1>7. CrashesTold /\ Phases /\ WalkEnds
  BY DEF WalkInit, CrashesTold, Phases, Stopped, WalkEnds, CleanIsACheck, NothingLeftUnasked
<1> QED BY <1>6, <1>7 DEF Walks

LEMMA WalkStepHolds == Walks /\ [WalkNext]_walkVars => Walks'
<1> SUFFICES ASSUME Walks, [WalkNext]_walkVars PROVE Walks' OBVIOUS
<1>1. CASE ShellServe \/ PageServe \/ TtyLaunch
  <2>1. at = "step" /\ held < Len(script) /\ Verb \notin Exits
    BY <1>1 DEF ShellServe, PageServe, TtyLaunch, At, Exits
  <2>2. ServerStart \in SUBSET AnyStart /\ TtyStart \in SUBSET AnyStart BY DEF AnyStart
  <2> QED BY <1>1, <2>1, <2>2, BeginHolds DEF ShellServe, PageServe, TtyLaunch
<1>2. CASE Run BY <1>2, RunHolds
<1>3. CASE Request BY <1>3, RequestHolds
<1>4. CASE Looks BY <1>4, LooksHold
<1>5. CASE ShellExit BY <1>5, ShellExitHolds
<1>6. CASE OffShell BY <1>6, OffShellHolds
<1>7. CASE Asks BY <1>7, AsksHold
<1>8. CASE StillAlive BY <1>8, StillAliveHolds
<1>9. CASE Parse BY <1>9, ParseHolds
<1>10. CASE Die BY <1>10, DieHolds
<1>11. CASE Throw BY <1>11, ThrowHolds
<1>12. CASE End BY <1>12, EndHolds
<1>13. CASE LastErrors BY <1>13, LastErrorsHolds
<1>14. CASE CloseWalk BY <1>14, CloseWalkHolds
<1>15. CASE Timeout BY <1>15, TimeoutHolds
<1>16. CASE UNCHANGED walkVars
  <2>1. WalkTypes' BY <1>16 DEF walkVars, Walks, WalkTypes
  <2>2. CrashesTold' BY <1>16, PromisesStay DEF walkVars, Walks, StepTaken
  <2>3. Phases' /\ WalkEnds'
    BY <1>16, ScriptStays
    DEF walkVars, Walks, Phases, Stopped, Traces, WalkEnds, CleanIsACheck, NothingLeftUnasked
  <2> QED BY <2>1, <2>2, <2>3 DEF Walks
<1> QED BY <1>1, <1>2, <1>3, <1>4, <1>5, <1>6, <1>7, <1>8, <1>9, <1>10, <1>11, <1>12,
           <1>13, <1>14, <1>15, <1>16
        DEF WalkNext, Looks, OffShell, Asks

\* Whatever the scripts, and however what is driven dies, throws or hangs: a
\* walkthrough that says clean was a check -- its script was one, every step of
\* it held, no command failed that the script did not say would, the page threw
\* nothing and no app died with a trace --, and what it started is stopped, or, an
\* app on a device or a desktop, asked to end, unless its driver was killed.
THEOREM CleanWalksAreChecks == WalkSpec => []WalkInv
<1>1. WalkInit => Walks BY WalkInitHolds
<1>2. Walks /\ [WalkNext]_walkVars => Walks' BY WalkStepHolds
<1>3. Walks => WalkInv BY DEF Walks, WalkTypes, WalkEnds, WalkInv, WalkTypeOK
<1> QED BY <1>1, <1>2, <1>3, PTL DEF WalkSpec

=============================================================================
