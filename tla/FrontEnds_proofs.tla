--------------------------- MODULE FrontEnds_proofs ---------------------------
(***************************************************************************)
(* Proofs about the two ways in.  Serve: for every number of connections,  *)
(* sessions, workers and turns, and any limit of open handles.  Terminal:  *)
(* for any sessions, screens and workspaces, any number of messages and of *)
(* questions.                                                              *)
(***************************************************************************)
EXTENDS Serve, Terminal, FiniteSetTheorems, SequenceTheorems, TLAPS

(* ------------------------------- the server ------------------------------- *)

Whats == Calls \cup {"start"}

\* TypeOK, but for what an ordered lane is.
Types ==
  /\ phase \in [Conns -> {"up", "draining", "gone"}]
  /\ lane \in [Conns -> SUBSET (Whats \X Sessions)]
  /\ loose \in [Conns -> SUBSET (Calls \X Sessions)]
  /\ handles \in [Conns -> SUBSET Sessions] /\ store \in [Conns -> SUBSET Sessions]
  /\ spare \in [Conns -> SUBSET Sessions] /\ waits \in [Conns -> SUBSET Sessions]
  /\ job \in [Conns -> [Sessions -> {"none", "queued", "running", "asking", "done"}]]
  /\ backlog \in Seq(Conns \X Sessions)
  /\ cancelled \in [Conns -> [Sessions -> BOOLEAN]]
  /\ asked \in [Conns -> [Sessions -> BOOLEAN]]
  /\ changing \subseteq Conns /\ deleted \subseteq Sessions
  /\ turns \in 0..MaxTurns

(* Between the frames of a lane the table is what is open.  What a frame    *)
(* waits for says what it has found and what it has done so far: room for   *)
(* one more, an idle session it holds, a handle in no table.                *)
AtRest(c) == lane[c] = {} /\ spare[c] = {}

Opening(c, s) ==
  /\ \E what \in {"open", "turn"} : lane[c] = {<<what, s>>}
  /\ spare[c] = {} /\ ~Full(c)

Starting(c, s) ==
  /\ lane[c] = {<<"start", s>>}
  /\ spare[c] = {} /\ s \in handles[c] /\ ~Busy(c, s)

Leaving(c, s) ==
  /\ \E what \in {"close", "drop", "second"} : lane[c] = {<<what, s>>}
  /\ spare[c] = {s}

Deleting(c, s) == lane[c] = {<<"delete", s>>} /\ spare[c] = {}

\* Of a client that has left: what its lane's call had in hand, or opens yet.
Left(c) ==
  /\ lane[c] = {} /\ store[c] \subseteq handles[c]
  /\ \/ loose[c] = {} /\ \E s \in Sessions : spare[c] \subseteq {s}
     \/ \E s \in Sessions, what \in Calls : loose[c] = {<<what, s>>} /\ spare[c] \subseteq {s}
     \/ loose[c] = {} /\ spare[c] = {}

LaneInv(c) ==
  \/ /\ phase[c] = "up" /\ loose[c] = {} /\ store[c] = handles[c]
     /\ \/ AtRest(c)
        \/ \E s \in Sessions : Opening(c, s) \/ Starting(c, s) \/ Leaving(c, s) \/ Deleting(c, s)
  \/ /\ phase[c] # "up" /\ Left(c)
     /\ phase[c] = "gone" => store[c] = {}

WithinLimit(c) == Cardinality(handles[c]) <= MaxHandles

IndInv ==
  /\ Types /\ TurnsInv
  /\ \A c \in Conns : LaneInv(c) /\ WithinLimit(c)

-----------------------------------------------------------------------------
(* Sets and the queue *)

LEMMA SessionsAreFinite ==
  ASSUME NEW S \in SUBSET Sessions
  PROVE  IsFiniteSet(S) /\ Cardinality(S) \in Nat
BY SetsAssumption, FS_Subset, FS_CardinalityType

LEMMA OneMore ==
  ASSUME NEW S \in SUBSET Sessions, NEW s \in Sessions
  PROVE  Cardinality(S \cup {s}) <= Cardinality(S) + 1
<1>1. IsFiniteSet(S) /\ Cardinality(S) \in Nat
  BY SessionsAreFinite
<1> QED BY <1>1, FS_AddElement

LEMMA Fewer ==
  ASSUME NEW S \in SUBSET Sessions, NEW T \in SUBSET S
  PROVE  Cardinality(T) <= Cardinality(S)
BY SessionsAreFinite, FS_Subset

-----------------------------------------------------------------------------
(* The inductive invariant *)

USE LimitsAssumption

LEMMA InitInd == Init => IndInv
<1> SUFFICES ASSUME Init PROVE IndInv OBVIOUS
<1>1. Types
  <2>1. /\ cancelled \in [Conns -> [Sessions -> BOOLEAN]]
        /\ asked \in [Conns -> [Sessions -> BOOLEAN]]
    BY DEF Init, None
  <2>2. backlog \in Seq(Conns \X Sessions) /\ turns \in 0..MaxTurns
    BY DEF Init
  <2>3. lane \in [Conns -> SUBSET (Whats \X Sessions)]
    BY DEF Init
  <2> QED BY <2>1, <2>2, <2>3 DEF Init, Types
<1>2. TurnsInv
  BY DEF Init, TurnsInv, TurnsHaveOpenHandles, OneTurnPerHandle
<1>3. \A c \in Conns : LaneInv(c) /\ WithinLimit(c)
  BY FS_EmptySet DEF Init, LaneInv, AtRest, WithinLimit
<1> QED BY <1>1, <1>2, <1>3 DEF IndInv

LEMMA TypesInd == Types /\ [Next]_vars => Types'
<1> SUFFICES ASSUME Types, [Next]_vars PROVE Types' OBVIOUS
<1>1. ASSUME NEW c \in Conns, NEW s \in Sessions, TakeTurn(c, s) \/ TakeDelete(c, s)
      PROVE  Types'
  <2>1. \E what \in Whats : lane' = [lane EXCEPT ![c] = {<<what, s>>}]
    BY <1>1 DEF TakeTurn, TakeDelete, Await, Whats, Calls
  <2>2. lane' \in [Conns -> SUBSET (Whats \X Sessions)]
    BY <2>1 DEF Types
  <2>3. UNCHANGED <<phase, handles, store, spare, deleted, pool, changing, ending>>
    BY <1>1 DEF TakeTurn, TakeDelete
  <2> QED BY <2>2, <2>3 DEF Types, pool, ending
<1>2. ASSUME NEW c \in Conns, NEW s \in Sessions, NEW what \in {"open", "turn"}, TakeOpen(c, s, what)
      PROVE  Types'
  BY <1>2 DEF Types, TakeOpen, Await, pool, ending, Whats, Calls
<1>3. ASSUME NEW c \in Conns, NEW s \in Sessions, NEW what \in {"open", "turn"}, Opened(c, s, what)
      PROVE  Types'
  <2>0. \E fs \in {{}, {<<"start", s>>}} : lane' = [lane EXCEPT ![c] = fs]
    BY <1>3 DEF Opened, Await, Done
  <2>1. lane' \in [Conns -> SUBSET (Whats \X Sessions)]
    BY <2>0 DEF Types, Whats
  <2>2. cancelled' \in [Conns -> [Sessions -> BOOLEAN]]
    BY <1>3 DEF Types, Opened
  <2> QED BY <1>3, <2>1, <2>2 DEF Types, Opened, ending
<1>4. ASSUME NEW c \in Conns, NEW s \in Sessions, NEW what \in Whats, GivesUp(c, s, what)
      PROVE  Types'
  BY <1>4 DEF Types, GivesUp, Done, pool, ending
<1>5. ASSUME NEW c \in Conns, NEW s \in Sessions, Started(c, s)
      PROVE  Types'
  BY <1>5 DEF Types, Started, Done, ending
<1>6. ASSUME NEW c \in Conns, NEW s \in Sessions, NEW what \in {"close", "drop"}, TakeClose(c, s, what)
      PROVE  Types'
  BY <1>6 DEF Types, TakeClose, Await, pool, ending, Whats, Calls
<1>7. ASSUME NEW c \in Conns, NEW s \in Sessions, NEW what \in Whats, Closed(c, s, what)
      PROVE  Types'
  <2>0. \E fs \in {{}, {<<"delete", s>>}} : lane' = [lane EXCEPT ![c] = fs]
    BY <1>7 DEF Closed, Await, Done
  <2>1. lane' \in [Conns -> SUBSET (Whats \X Sessions)]
    BY <2>0 DEF Types, Whats, Calls
  <2> QED BY <1>7, <2>1 DEF Types, Closed, pool, ending
<1>8. ASSUME NEW c \in Conns, NEW s \in Sessions, Deleted(c, s)
      PROVE  Types'
  BY <1>8 DEF Types, Deleted, Done, pool, ending
<1>9. ASSUME NEW c \in Conns, NEW s \in Sessions, Cancel(c, s)
      PROVE  Types'
  BY <1>9 DEF Types, Cancel, Busy, frames, ending
<1>10. ASSUME NEW c \in Conns, NEW s \in Sessions, Answer(c, s) \/ AskUser(c, s) \/ TurnEnds(c, s)
      PROVE  Types'
  <2>0. \E does \in {"running", "asking", "done"} : job' = [job EXCEPT ![c][s] = does]
    BY <1>10 DEF Answer, AskUser, TurnEnds
  <2>1. job' \in [Conns -> [Sessions -> {"none", "queued", "running", "asking", "done"}]]
    BY <2>0 DEF Types
  <2>2. UNCHANGED <<phase, frames, backlog, cancelled, asked, turns, changing, ending>>
    BY <1>10 DEF Answer, AskUser, TurnEnds
  <2> QED BY <2>1, <2>2 DEF Types, frames, ending
<1>11. ASSUME PoolStart
      PROVE  Types'
  BY <1>11 DEF Types, PoolStart, frames, ending
<1>12. ASSUME NEW c \in Conns, TakeSetting(c) \/ SettingDone(c)
      PROVE  Types'
  BY <1>12 DEF Types, TakeSetting, SettingDone, frames, pool, ending
<1>13. ASSUME NEW c \in Conns, Disconnect(c)
      PROVE  Types'
  <2>1. PICK call \in {{}, {f \in lane[c] : f[1] # "start"}} : loose' = [loose EXCEPT ![c] = call]
    BY <1>13 DEF Disconnect
  <2>2. call \subseteq Calls \X Sessions
    <3> SUFFICES ASSUME NEW f \in call PROVE f \in Calls \X Sessions OBVIOUS
    <3>1. f \in Whats \X Sessions /\ f[1] # "start"
      BY <2>1 DEF Types
    <3> QED BY <3>1 DEF Whats
  <2>3. loose' \in [Conns -> SUBSET (Calls \X Sessions)]
    BY <2>1, <2>2 DEF Types
  <2>4. waits' \in [Conns -> SUBSET Sessions]
    BY <1>13 DEF Types, Disconnect, Cuts
  <2>5. cancelled' \in [Conns -> [Sessions -> BOOLEAN]] /\ asked' \in [Conns -> [Sessions -> BOOLEAN]]
    BY <1>13 DEF Types, Disconnect, Cuts, Busy
  <2> QED BY <1>13, <2>3, <2>4, <2>5 DEF Types, Disconnect, Cuts, Done
<1>14. ASSUME NEW c \in Conns, Teardown(c)
      PROVE  Types'
  <2>1. CASE TornDown(c)
    BY <2>1 DEF Types, TornDown, frames, pool, ending
  <2>2. ASSUME NEW s \in Sessions, WaitOver(c, s)
        PROVE  Types'
    BY <2>2 DEF Types, WaitOver, frames, pool
  <2>3. ASSUME NEW s \in Sessions, ClosesHandle(c, s)
        PROVE  Types'
    BY <2>3 DEF Types, ClosesHandle, pool, ending
  <2> QED BY <1>14, <2>1, <2>2, <2>3 DEF Teardown
<1>15. ASSUME NEW c \in Conns, NEW s \in Sessions, NEW what \in Calls, LooseEnds(c, s, what)
      PROVE  Types'
  <2>1. spare' \in [Conns -> SUBSET Sessions] /\ deleted' \subseteq Sessions
    <3>1. spare[c] \ {s} \in SUBSET Sessions /\ {s} \in SUBSET Sessions
      BY DEF Types
    <3>2. deleted' = deleted \/ deleted' = deleted \cup {s}
      BY <1>15 DEF LooseEnds
    <3>3. spare' = spare \/ \E S \in SUBSET Sessions : spare' = [spare EXCEPT ![c] = S]
      <4>1. CASE spare' = [spare EXCEPT ![c] = {s}]
        BY <3>1, <4>1
      <4>2. CASE spare' = [spare EXCEPT ![c] = @ \ {s}]
        BY <3>1, <4>2
      <4> QED BY <1>15, <4>1, <4>2 DEF LooseEnds
    <3>4. spare' \in [Conns -> SUBSET Sessions]
      BY <3>3 DEF Types
    <3>5. deleted' \subseteq Sessions
      BY <3>2 DEF Types
    <3> QED BY <3>4, <3>5
  <2>2. loose' \in [Conns -> SUBSET (Calls \X Sessions)]
    BY <1>15 DEF Types, LooseEnds
  <2>3. UNCHANGED <<phase, lane, handles, store, pool, changing, waits>>
    BY <1>15 DEF LooseEnds
  <2> QED BY <2>1, <2>2, <2>3 DEF Types, pool
<1>16. ASSUME NEW c \in Conns, NEW s \in Sessions, OpenedTwice(c, s)
      PROVE  Types'
  BY <1>16 DEF Types, OpenedTwice, Await, pool, ending, Whats, Calls
<1>17. ASSUME UNCHANGED vars
      PROVE  Types'
  BY <1>17 DEF Types, vars, frames, pool, ending
<1> QED
  BY <1>1, <1>2, <1>3, <1>4, <1>5, <1>6, <1>7, <1>8, <1>9, <1>10, <1>11, <1>12, <1>13, <1>14, <1>15, <1>16, <1>17
  DEF Next, OnLane, OnLoop, OnPool, LeftBehind, Whats, Calls

\* A step elsewhere leaves a lane as it was.
LEMMA Elsewhere ==
  ASSUME NEW c \in Conns, LaneInv(c) /\ WithinLimit(c),
         phase'[c] = phase[c], lane'[c] = lane[c], handles'[c] = handles[c],
         store'[c] = store[c], spare'[c] = spare[c], loose'[c] = loose[c],
         \A s \in Sessions : Busy(c, s)' => Busy(c, s)
  PROVE  LaneInv(c)' /\ WithinLimit(c)'
BY DEF LaneInv, AtRest, Opening, Starting, Leaving, Deleting, Left, Full, WithinLimit

\* What a lane that waits for something knows.
LEMMA Waiting ==
  ASSUME NEW c \in Conns, NEW s \in Sessions, NEW what \in Whats, LaneInv(c),
         lane[c] = {<<what, s>>}
  PROVE  /\ phase[c] = "up" /\ loose[c] = {} /\ store[c] = handles[c]
         /\ what \in {"open", "turn"} => Opening(c, s)
         /\ what = "start" => Starting(c, s)
         /\ what \in {"close", "drop", "second"} => Leaving(c, s)
         /\ what = "delete" => Deleting(c, s)
<1>1. ~AtRest(c) /\ ~Left(c)
  BY DEF AtRest, Left
<1>2. PICK t \in Sessions : Opening(c, t) \/ Starting(c, t) \/ Leaving(c, t) \/ Deleting(c, t)
  BY <1>1 DEF LaneInv
<1>3. phase[c] = "up" /\ loose[c] = {} /\ store[c] = handles[c]
  BY <1>1 DEF LaneInv
<1>4. ASSUME NEW w, lane[c] = {<<w, t>>}
      PROVE  w = what /\ t = s
  <2>1. <<w, t>> \in {<<what, s>>}
    BY <1>4
  <2>2. <<w, t>> = <<what, s>>
    BY <2>1
  <2> QED BY <2>2
<1>5. CASE Opening(c, t)
  <2>1. what \in {"open", "turn"} /\ t = s
    BY <1>4, <1>5 DEF Opening
  <2> QED BY <1>3, <1>5, <2>1
<1>6. CASE Starting(c, t)
  <2>1. what = "start" /\ t = s
    BY <1>4, <1>6 DEF Starting
  <2> QED BY <1>3, <1>6, <2>1
<1>7. CASE Leaving(c, t)
  <2>1. what \in {"close", "drop", "second"} /\ t = s
    BY <1>4, <1>7 DEF Leaving
  <2> QED BY <1>3, <1>7, <2>1
<1>8. CASE Deleting(c, t)
  <2>1. what = "delete" /\ t = s
    BY <1>4, <1>8 DEF Deleting
  <2> QED BY <1>3, <1>8, <2>1
<1> QED BY <1>2, <1>5, <1>6, <1>7, <1>8

\* A connection that is served and at rest.
LEMMA Resting ==
  ASSUME NEW c \in Conns, LaneInv(c), Idle(c)
  PROVE  /\ phase[c] = "up" /\ loose[c] = {} /\ store[c] = handles[c]
         /\ lane[c] = {} /\ spare[c] = {}
BY DEF LaneInv, Idle, AtRest, Opening, Starting, Leaving, Deleting

\* A step of one connection's lane or teardown leaves the other lanes alone.
LEMMA NotMine ==
  ASSUME Types, NEW c \in Conns, NEW d \in Conns, d # c,
         LaneInv(d) /\ WithinLimit(d),
         OnLane(c) \/ Disconnect(c) \/ Teardown(c) \/ LeftBehind(c)
  PROVE  LaneInv(d)' /\ WithinLimit(d)'
<1> DEFINE Same == /\ phase'[d] = phase[d] /\ lane'[d] = lane[d]
                   /\ handles'[d] = handles[d] /\ store'[d] = store[d]
                   /\ spare'[d] = spare[d] /\ loose'[d] = loose[d]
                   /\ job'[d] = job[d]
<1>1. ASSUME NEW s \in Sessions,
             TakeTurn(c, s) \/ Started(c, s) \/ TakeDelete(c, s) \/ Deleted(c, s) \/ OpenedTwice(c, s)
      PROVE  Same
  BY <1>1 DEF Types, TakeTurn, Started, TakeDelete, Deleted, OpenedTwice, Await, Done, pool, ending
<1>2. ASSUME NEW s \in Sessions, NEW what \in Whats, TakeOpen(c, s, what) \/ Opened(c, s, what)
      PROVE  Same
  BY <1>2 DEF Types, TakeOpen, Opened, Await, Done, pool, ending
<1>3. ASSUME NEW s \in Sessions, NEW what \in Whats,
             GivesUp(c, s, what) \/ TakeClose(c, s, what) \/ Closed(c, s, what)
      PROVE  Same
  BY <1>3 DEF Types, GivesUp, TakeClose, Closed, Await, Done, pool, ending
<1>4. ASSUME Disconnect(c)
      PROVE  Same
  BY <1>4 DEF Types, Disconnect, Cuts, Done
<1>5. ASSUME Teardown(c)
      PROVE  Same
  BY <1>5 DEF Types, Teardown, TornDown, WaitOver, ClosesHandle, frames, pool, ending
<1>6. ASSUME NEW s \in Sessions, NEW what \in Calls, LooseEnds(c, s, what)
      PROVE  Same
  BY <1>6 DEF Types, LooseEnds, pool
<1>7. Same
  BY <1>1, <1>2, <1>3, <1>4, <1>5, <1>6 DEF OnLane, LeftBehind, Whats, Calls
<1> HIDE DEF Same
<1>8. \A s \in Sessions : Busy(d, s)' => Busy(d, s)
  BY <1>7 DEF Busy, Same
<1> QED BY <1>7, <1>8, Elsewhere DEF Same

\* What a worker takes off the queue has not begun.
LEMMA QueueHead ==
  ASSUME Types, OneTurnPerHandle, backlog # <<>>
  PROVE  \E c \in Conns, s \in Sessions :
           /\ Head(backlog)[1] = c /\ Head(backlog)[2] = s /\ backlog[1] = <<c, s>>
           /\ job[c][s] = "queued"
<1>1. Head(backlog) \in Conns \X Sessions /\ 1 \in DOMAIN backlog /\ Head(backlog) = backlog[1]
  BY DEF Types
<1>2. PICK c \in Conns, s \in Sessions : Head(backlog) = <<c, s>>
  BY <1>1
<1>3. job[c][s] = "queued"
  BY <1>1, <1>2 DEF OneTurnPerHandle
<1> QED BY <1>1, <1>2, <1>3

\* A step of the pool, the settings or the inline frames moves no lane, and
\* makes no session busy that was not.
LEMMA NoLane ==
  ASSUME Types, TurnsInv, NEW d \in Conns, LaneInv(d) /\ WithinLimit(d),
         \/ OnPool \/ UNCHANGED vars
         \/ \E c \in Conns : TakeSetting(c) \/ SettingDone(c)
                             \/ \E s \in Sessions : Cancel(c, s) \/ Answer(c, s)
  PROVE  LaneInv(d)' /\ WithinLimit(d)'
<1> DEFINE Same == /\ phase' = phase /\ lane' = lane /\ handles' = handles /\ store' = store
                   /\ spare' = spare /\ loose' = loose
           Calm == \A s \in Sessions : Busy(d, s)' => Busy(d, s)
<1>1. CASE UNCHANGED vars
  BY <1>1, Elsewhere DEF vars, frames, pool, ending, Busy
<1>2. CASE PoolStart
  <2>1. PICK c \in Conns, s \in Sessions :
          job[c][s] = "queued" /\ job' = [job EXCEPT ![c][s] = "running"]
    BY <1>2, QueueHead DEF PoolStart, TurnsInv
  <2>2. Calm
    BY <2>1 DEF Types, Busy
  <2>3. Same
    BY <1>2 DEF PoolStart, frames, ending
  <2> QED BY <2>2, <2>3, Elsewhere
<1>3. ASSUME NEW c \in Conns, NEW s \in Sessions, Answer(c, s) \/ AskUser(c, s) \/ TurnEnds(c, s)
      PROVE  Same /\ Calm
  <2>1. Busy(c, s) /\ \E does \in {"running", "asking", "done"} : job' = [job EXCEPT ![c][s] = does]
    BY <1>3 DEF Answer, AskUser, TurnEnds, Busy
  <2>2. Calm
    BY <2>1 DEF Types, Busy
  <2>3. Same
    BY <1>3 DEF Answer, AskUser, TurnEnds, frames, ending
  <2> QED BY <2>2, <2>3
<1>4. ASSUME NEW c \in Conns, NEW s \in Sessions, Cancel(c, s)
      PROVE  Same /\ Calm
  BY <1>4 DEF Cancel, frames, ending, Busy
<1>5. ASSUME NEW c \in Conns, TakeSetting(c) \/ SettingDone(c)
      PROVE  Same /\ Calm
  BY <1>5 DEF TakeSetting, SettingDone, frames, pool, ending, Busy
<1> QED BY <1>1, <1>2, <1>3, <1>4, <1>5, Elsewhere DEF OnPool

\* A step of a lane, or of its teardown, leaves the lane with what the next
\* step relies on.
LEMMA Mine ==
  ASSUME Types, NEW c \in Conns, LaneInv(c) /\ WithinLimit(c),
         OnLane(c) \/ Disconnect(c) \/ Teardown(c) \/ LeftBehind(c)
  PROVE  LaneInv(c)' /\ WithinLimit(c)'
<1> USE DEF Types
<1>1. ASSUME NEW s \in Sessions, TakeTurn(c, s)
      PROVE  LaneInv(c)' /\ WithinLimit(c)'
  <2>1. /\ phase[c] = "up" /\ loose[c] = {} /\ store[c] = handles[c] /\ spare[c] = {}
    BY <1>1, Resting DEF TakeTurn
  <2>2. Starting(c, s)'
    BY <1>1, <2>1 DEF TakeTurn, Await, pool, Starting, Busy
  <2> QED BY <1>1, <2>1, <2>2 DEF LaneInv, WithinLimit, TakeTurn, ending
<1>2. ASSUME NEW s \in Sessions, NEW what \in {"open", "turn"}, TakeOpen(c, s, what)
      PROVE  LaneInv(c)' /\ WithinLimit(c)'
  <2>1. /\ phase[c] = "up" /\ loose[c] = {} /\ store[c] = handles[c] /\ spare[c] = {}
    BY <1>2, Resting DEF TakeOpen
  <2>2. Opening(c, s)'
    BY <1>2, <2>1 DEF TakeOpen, Await, Opening, Full
  <2> QED BY <1>2, <2>1, <2>2 DEF LaneInv, WithinLimit, TakeOpen, ending
<1>3. ASSUME NEW s \in Sessions, NEW what \in {"open", "turn"}, Opened(c, s, what)
      PROVE  LaneInv(c)' /\ WithinLimit(c)'
  <2>1. phase[c] = "up" /\ loose[c] = {} /\ store[c] = handles[c] /\ Opening(c, s)
    BY <1>3, Waiting DEF Opened, Whats, Calls
  <2>2. /\ handles'[c] = handles[c] \cup {s} /\ store'[c] = handles'[c]
        /\ phase'[c] = "up" /\ loose'[c] = {} /\ spare'[c] = {} /\ job' = job
    BY <1>3, <2>1 DEF Opened, Opening, ending
  <2>3. WithinLimit(c)'
    <3>1. handles[c] \in SUBSET Sessions
      OBVIOUS
    <3>2. /\ Cardinality(handles[c]) \in Nat
          /\ Cardinality(handles[c] \cup {s}) \in Nat
          /\ Cardinality(handles[c] \cup {s}) <= Cardinality(handles[c]) + 1
      BY <3>1, OneMore, SessionsAreFinite
    <3>3. Cardinality(handles[c]) < MaxHandles
      BY <2>1, <3>2 DEF Opening, Full
    <3> QED BY <2>2, <3>2, <3>3 DEF WithinLimit
  <2>4. CASE what = "turn" /\ ~Busy(c, s) /\ Await(c, "start", s)
    <3>1. Starting(c, s)'
      BY <2>2, <2>4 DEF Starting, Await, Busy
    <3> QED BY <2>2, <2>3, <3>1 DEF LaneInv
  <2>5. CASE Done(c)
    <3>1. AtRest(c)'
      BY <2>2, <2>5 DEF AtRest, Done
    <3> QED BY <2>2, <2>3, <3>1 DEF LaneInv
  <2> QED BY <1>3, <2>4, <2>5 DEF Opened
<1>4. ASSUME NEW s \in Sessions, OpenedTwice(c, s)
      PROVE  LaneInv(c)' /\ WithinLimit(c)'
  <2>1. phase[c] = "up" /\ loose[c] = {} /\ store[c] = handles[c]
    BY <1>4, Waiting DEF OpenedTwice, Whats, Calls
  <2>2. Leaving(c, s)'
    BY <1>4 DEF OpenedTwice, Await, Leaving
  <2> QED BY <1>4, <2>1, <2>2 DEF LaneInv, WithinLimit, OpenedTwice, ending
<1>5. ASSUME NEW s \in Sessions, NEW what \in {"open", "turn", "start"}, GivesUp(c, s, what)
      PROVE  LaneInv(c)' /\ WithinLimit(c)'
  <2>1. /\ phase[c] = "up" /\ loose[c] = {} /\ store[c] = handles[c]
        /\ Opening(c, s) \/ Starting(c, s)
    BY <1>5, Waiting DEF GivesUp, Whats, Calls
  <2>2. AtRest(c)'
    BY <1>5, <2>1 DEF GivesUp, Done, AtRest, Opening, Starting
  <2> QED BY <1>5, <2>1, <2>2 DEF LaneInv, WithinLimit, GivesUp, ending
<1>6. ASSUME NEW s \in Sessions, Started(c, s)
      PROVE  LaneInv(c)' /\ WithinLimit(c)'
  <2>1. phase[c] = "up" /\ loose[c] = {} /\ store[c] = handles[c] /\ Starting(c, s)
    BY <1>6, Waiting DEF Started, Whats
  <2>2. AtRest(c)'
    BY <1>6, <2>1 DEF Started, Done, AtRest, Starting
  <2> QED BY <1>6, <2>1, <2>2 DEF LaneInv, WithinLimit, Started, ending
<1>7. ASSUME NEW s \in Sessions, NEW what \in {"close", "drop"}, TakeClose(c, s, what)
      PROVE  LaneInv(c)' /\ WithinLimit(c)'
  <2>1. phase[c] = "up" /\ loose[c] = {} /\ store[c] = handles[c]
    BY <1>7, Resting DEF TakeClose
  <2>2. handles'[c] = handles[c] \ {s} /\ store'[c] = handles'[c]
    BY <1>7, <2>1 DEF TakeClose
  <2>3. Leaving(c, s)'
    BY <1>7 DEF TakeClose, Await, Leaving
  <2>4. WithinLimit(c)'
    <3>1. handles[c] \in SUBSET Sessions /\ handles[c] \ {s} \in SUBSET handles[c]
      OBVIOUS
    <3>2. /\ Cardinality(handles[c]) \in Nat /\ Cardinality(handles[c] \ {s}) \in Nat
          /\ Cardinality(handles[c] \ {s}) <= Cardinality(handles[c])
      BY <3>1, Fewer, SessionsAreFinite
    <3> QED BY <2>2, <3>2 DEF WithinLimit
  <2> QED BY <1>7, <2>1, <2>2, <2>3, <2>4 DEF LaneInv, TakeClose, ending
<1>8. ASSUME NEW s \in Sessions, NEW what \in {"close", "drop", "second"}, Closed(c, s, what)
      PROVE  LaneInv(c)' /\ WithinLimit(c)'
  <2>1. phase[c] = "up" /\ loose[c] = {} /\ store[c] = handles[c] /\ Leaving(c, s)
    BY <1>8, Waiting DEF Closed, Whats, Calls
  <2>2. spare'[c] = {} /\ phase'[c] = "up" /\ loose'[c] = {} /\ store'[c] = handles'[c]
    BY <1>8, <2>1 DEF Closed, Leaving, ending
  <2>3. WithinLimit(c)'
    BY <1>8 DEF Closed, WithinLimit
  <2>4. CASE Done(c)
    <3>1. AtRest(c)'
      BY <2>2, <2>4 DEF Done, AtRest
    <3> QED BY <2>2, <2>3, <3>1 DEF LaneInv
  <2>5. CASE Await(c, "delete", s)
    <3>1. Deleting(c, s)'
      BY <2>2, <2>5 DEF Await, Deleting
    <3> QED BY <2>2, <2>3, <3>1 DEF LaneInv
  <2> QED BY <1>8, <2>4, <2>5 DEF Closed
<1>9. ASSUME NEW s \in Sessions, TakeDelete(c, s)
      PROVE  LaneInv(c)' /\ WithinLimit(c)'
  <2>1. /\ phase[c] = "up" /\ loose[c] = {} /\ store[c] = handles[c] /\ spare[c] = {}
    BY <1>9, Resting DEF TakeDelete
  <2>2. Deleting(c, s)'
    BY <1>9, <2>1 DEF TakeDelete, Await, Deleting
  <2> QED BY <1>9, <2>1, <2>2 DEF LaneInv, WithinLimit, TakeDelete, ending
<1>10. ASSUME NEW s \in Sessions, Deleted(c, s)
      PROVE  LaneInv(c)' /\ WithinLimit(c)'
  <2>1. phase[c] = "up" /\ loose[c] = {} /\ store[c] = handles[c] /\ Deleting(c, s)
    BY <1>10, Waiting DEF Deleted, Whats, Calls
  <2>2. AtRest(c)'
    BY <1>10, <2>1 DEF Deleted, Done, AtRest, Deleting
  <2> QED BY <1>10, <2>1, <2>2 DEF LaneInv, WithinLimit, Deleted, ending
<1>11. ASSUME Disconnect(c)
      PROVE  LaneInv(c)' /\ WithinLimit(c)'
  <2>1. /\ phase'[c] = "draining" /\ lane'[c] = {}
        /\ handles' = handles /\ store' = store /\ spare' = spare
    BY <1>11 DEF Disconnect, Cuts, Done
  <2>2. PICK call \in {{}, {f \in lane[c] : f[1] # "start"}} : loose'[c] = call
    BY <1>11 DEF Disconnect
  <2>3. store[c] = handles[c]
    BY <1>11 DEF LaneInv, Disconnect, Cuts
  <2>4. \/ call = {} /\ spare[c] = {}
        \/ call = {} /\ \E s \in Sessions : spare[c] \subseteq {s}
        \/ \E s \in Sessions, what \in Calls : call = {<<what, s>>} /\ spare[c] \subseteq {s}
    <3>1. CASE AtRest(c)
      BY <2>2, <3>1 DEF AtRest
    <3>2. ASSUME NEW s \in Sessions, Opening(c, s) \/ Starting(c, s) \/ Leaving(c, s) \/ Deleting(c, s)
          PROVE  /\ spare[c] \subseteq {s}
                 /\ call = {} \/ \E what \in Calls : call = {<<what, s>>}
      <4>1. spare[c] \subseteq {s} /\ \E what \in Whats : lane[c] = {<<what, s>>}
        BY <3>2 DEF Opening, Starting, Leaving, Deleting, Whats, Calls
      <4>2. PICK what \in Whats : lane[c] = {<<what, s>>}
        BY <4>1
      <4>3. CASE what = "start"
        BY <2>2, <4>1, <4>2, <4>3
      <4>4. CASE what # "start"
        BY <2>2, <4>1, <4>2, <4>4 DEF Whats
      <4> QED BY <4>3, <4>4
    <3> QED BY <1>11, <3>1, <3>2 DEF LaneInv, Disconnect, Cuts
  <2>5. Left(c)'
    BY <2>1, <2>2, <2>3, <2>4 DEF Left
  <2> QED BY <2>1, <2>5 DEF LaneInv, WithinLimit
<1>12. ASSUME Teardown(c)
      PROVE  LaneInv(c)' /\ WithinLimit(c)'
  <2>1. phase[c] = "draining" /\ Left(c)
    BY <1>12 DEF LaneInv, Teardown, TornDown, WaitOver, ClosesHandle
  <2>2. /\ lane' = lane /\ handles' = handles /\ spare' = spare /\ loose' = loose
        /\ store'[c] \subseteq store[c] /\ phase'[c] # "up"
        /\ phase'[c] = "gone" => store'[c] = {}
    BY <1>12, <2>1 DEF Teardown, TornDown, WaitOver, ClosesHandle, frames, ending
  <2>3. Left(c)'
    BY <2>1, <2>2 DEF Left
  <2> QED BY <2>2, <2>3 DEF LaneInv, WithinLimit
<1>13. ASSUME NEW s \in Sessions, NEW what \in Calls, LooseEnds(c, s, what)
      PROVE  LaneInv(c)' /\ WithinLimit(c)'
  <2>1. phase[c] # "up" /\ Left(c) /\ (phase[c] = "gone" => store[c] = {}) /\ loose[c] # {}
    BY <1>13 DEF LaneInv, LooseEnds
  <2>2. PICK u \in Sessions, w \in Calls : loose[c] = {<<w, u>>} /\ spare[c] \subseteq {u}
    BY <2>1 DEF Left
  <2>3. u = s
    <3>1. <<w, u>> \in {<<what, s>>}
      BY <1>13, <2>2 DEF LooseEnds
    <3>2. <<w, u>> = <<what, s>>
      BY <3>1
    <3> QED BY <3>2
  <2>4. /\ loose'[c] = {} /\ spare'[c] \subseteq {s}
        /\ lane' = lane /\ handles' = handles /\ store' = store /\ phase' = phase
    BY <1>13, <2>2, <2>3 DEF LooseEnds
  <2>5. Left(c)'
    BY <2>1, <2>4 DEF Left
  <2> QED BY <2>1, <2>4, <2>5 DEF LaneInv, WithinLimit
<1> QED BY <1>1, <1>2, <1>3, <1>4, <1>5, <1>6, <1>7, <1>8, <1>9, <1>10, <1>11, <1>12, <1>13 DEF OnLane, LeftBehind

\* Every lane, after every step.
LEMMA LaneInd ==
  ASSUME IndInv, [Next]_vars
  PROVE  \A d \in Conns : LaneInv(d)' /\ WithinLimit(d)'
<1> TAKE d \in Conns
<1>1. Types /\ TurnsInv /\ LaneInv(d) /\ WithinLimit(d)
  BY DEF IndInv
<1>2. ASSUME NEW c \in Conns, OnLane(c) \/ Disconnect(c) \/ Teardown(c) \/ LeftBehind(c)
      PROVE  LaneInv(d)' /\ WithinLimit(d)'
  <2>1. CASE d = c
    BY <1>1, <1>2, <2>1, Mine
  <2>2. CASE d # c
    BY <1>1, <1>2, <2>2, NotMine
  <2> QED BY <2>1, <2>2
<1>3. CASE \/ OnPool \/ UNCHANGED vars
           \/ \E c \in Conns : TakeSetting(c) \/ SettingDone(c)
                               \/ \E s \in Sessions : Cancel(c, s) \/ Answer(c, s)
  BY <1>1, <1>3, NoLane
<1> QED BY <1>2, <1>3 DEF Next, OnLoop

\* A turn that is queued or running keeps its handle: it is only queued for a
\* session the lane has found in the table, and only a session at rest leaves.
LEMMA HandlesInd ==
  ASSUME IndInv, [Next]_vars
  PROVE  TurnsHaveOpenHandles'
<1>1. Types /\ TurnsHaveOpenHandles /\ OneTurnPerHandle
  BY DEF IndInv, TurnsInv
<1> USE <1>1 DEF Types
<1>2. ASSUME NEW c \in Conns, NEW s \in Sessions, 
             TakeTurn(c, s) \/ TakeDelete(c, s) \/ Deleted(c, s) \/ OpenedTwice(c, s)
      PROVE  TurnsHaveOpenHandles'
  BY <1>2 DEF TakeTurn, TakeDelete, Deleted, OpenedTwice, pool, TurnsHaveOpenHandles
<1>3. ASSUME NEW c \in Conns, NEW s \in Sessions, NEW what \in Whats,
             TakeOpen(c, s, what) \/ GivesUp(c, s, what)
      PROVE  TurnsHaveOpenHandles'
  BY <1>3 DEF TakeOpen, GivesUp, pool, TurnsHaveOpenHandles
<1>4. ASSUME NEW c \in Conns, NEW s \in Sessions, NEW what \in {"open", "turn"}, Opened(c, s, what)
      PROVE  TurnsHaveOpenHandles'
  BY <1>4 DEF Opened, TurnsHaveOpenHandles
<1>5. ASSUME NEW c \in Conns, NEW s \in Sessions, Started(c, s)
      PROVE  TurnsHaveOpenHandles'
  <2>1. s \in handles[c] /\ s \in store[c]
    BY <1>5, Waiting DEF Started, Whats, IndInv, Starting
  <2> QED BY <1>5, <2>1 DEF Started, TurnsHaveOpenHandles
<1>6. ASSUME NEW c \in Conns, NEW s \in Sessions, NEW what \in {"close", "drop"}, TakeClose(c, s, what)
      PROVE  TurnsHaveOpenHandles'
  BY <1>6 DEF TakeClose, pool, TurnsHaveOpenHandles, Busy
<1>7. ASSUME NEW c \in Conns, NEW s \in Sessions, NEW what \in Whats, Closed(c, s, what)
      PROVE  TurnsHaveOpenHandles'
  BY <1>7 DEF Closed, pool, TurnsHaveOpenHandles
<1>8. ASSUME NEW c \in Conns, NEW s \in Sessions, Cancel(c, s)
      PROVE  TurnsHaveOpenHandles'
  BY <1>8 DEF Cancel, frames, TurnsHaveOpenHandles
<1>9. ASSUME NEW c \in Conns, NEW s \in Sessions, Answer(c, s) \/ AskUser(c, s) \/ TurnEnds(c, s)
      PROVE  TurnsHaveOpenHandles'
  <2>1. Busy(c, s) /\ \E does \in {"running", "asking", "done"} : job' = [job EXCEPT ![c][s] = does]
    BY <1>9 DEF Answer, AskUser, TurnEnds, Busy
  <2>2. UNCHANGED <<phase, frames>>
    BY <1>9 DEF Answer, AskUser, TurnEnds
  <2> QED BY <2>1, <2>2 DEF frames, TurnsHaveOpenHandles, Busy
<1>10. ASSUME PoolStart
       PROVE  TurnsHaveOpenHandles'
  <2>1. PICK c \in Conns, s \in Sessions :
          job[c][s] = "queued" /\ job' = [job EXCEPT ![c][s] = "running"]
    BY <1>10, QueueHead DEF PoolStart
  <2>2. UNCHANGED <<phase, frames>>
    BY <1>10 DEF PoolStart
  <2> QED BY <2>1, <2>2 DEF frames, TurnsHaveOpenHandles
<1>11. ASSUME NEW c \in Conns, TakeSetting(c) \/ SettingDone(c)
       PROVE  TurnsHaveOpenHandles'
  BY <1>11 DEF TakeSetting, SettingDone, frames, pool, TurnsHaveOpenHandles
<1>12. ASSUME NEW c \in Conns, Disconnect(c) \/ Teardown(c)
       PROVE  TurnsHaveOpenHandles'
  <2>1. phase'[c] # "up" /\ \A d \in Conns : d # c => phase'[d] = phase[d]
    BY <1>12 DEF Disconnect, Cuts, Teardown, TornDown, WaitOver, ClosesHandle
  <2>2. handles' = handles /\ job' = job /\ \A d \in Conns : d # c => store'[d] = store[d]
    BY <1>12 DEF Disconnect, Cuts, Teardown, TornDown, WaitOver, ClosesHandle, frames, pool
  <2> SUFFICES ASSUME NEW d \in Conns, NEW s \in Sessions, phase'[d] = "up",
                      job'[d][s] \in {"queued", "running", "asking"}
               PROVE  s \in handles'[d] /\ s \in store'[d]
    BY DEF TurnsHaveOpenHandles
  <2>3. d # c /\ phase[d] = "up"
    BY <2>1
  <2> QED BY <2>2, <2>3 DEF TurnsHaveOpenHandles
<1>14. ASSUME NEW c \in Conns, LeftBehind(c)
       PROVE  TurnsHaveOpenHandles'
  BY <1>14 DEF LeftBehind, LooseEnds, pool, TurnsHaveOpenHandles
<1>13. CASE UNCHANGED vars
  BY <1>13 DEF vars, frames, pool, TurnsHaveOpenHandles
<1> QED BY <1>2, <1>3, <1>4, <1>5, <1>6, <1>7, <1>8, <1>9, <1>10, <1>11, <1>12, <1>13, <1>14 DEF Next, OnLane, OnLoop, OnPool, Whats, Calls

\* The pool's queue holds each turn that has not begun, once: what is queued
\* was not busy, so it was not there, and what is taken is taken off.
LEMMA QueueInd ==
  ASSUME IndInv, [Next]_vars
  PROVE  OneTurnPerHandle'
<1>1. Types /\ OneTurnPerHandle
  BY DEF IndInv, TurnsInv
<1>2. backlog \in Seq(Conns \X Sessions) /\ \A i \in DOMAIN backlog : backlog[i] \in Conns \X Sessions
  BY <1>1 DEF Types
<1>3. CASE job' = job /\ backlog' = backlog
  BY <1>1, <1>3 DEF OneTurnPerHandle
<1>4. ASSUME NEW c \in Conns, NEW s \in Sessions, Started(c, s)
      PROVE  OneTurnPerHandle'
  <2>1. ~Busy(c, s)
    BY <1>4, Waiting DEF Started, Whats, IndInv, Starting
  <2>2. /\ job' = [job EXCEPT ![c][s] = "queued"]
        /\ backlog' = Append(backlog, <<c, s>>)
    BY <1>4 DEF Started
  <2>3. /\ Len(backlog') = Len(backlog) + 1
        /\ DOMAIN backlog' = 1..(Len(backlog) + 1) /\ DOMAIN backlog = 1..Len(backlog)
        /\ \A i \in 1..Len(backlog) : backlog'[i] = backlog[i]
        /\ backlog'[Len(backlog) + 1] = <<c, s>>
    BY <1>2, <2>2
  <2>4. \A i \in 1..Len(backlog) : backlog[i] # <<c, s>>
    BY <1>1, <2>1, <2>3 DEF OneTurnPerHandle, Busy
  <2>5. \A i, j \in DOMAIN backlog' : backlog'[i] = backlog'[j] => i = j
    BY <1>1, <1>2, <2>3, <2>4 DEF OneTurnPerHandle
  <2>6. \A i \in DOMAIN backlog' : job'[backlog'[i][1]][backlog'[i][2]] = "queued"
    <3> TAKE i \in DOMAIN backlog'
    <3>1. CASE i = Len(backlog) + 1
      BY <1>1, <2>2, <2>3, <3>1 DEF Types
    <3>2. CASE i \in 1..Len(backlog)
      <4>1. PICK d \in Conns, t \in Sessions : backlog[i] = <<d, t>>
        BY <1>2, <2>3, <3>2
      <4>2. job[d][t] = "queued" /\ backlog'[i] = <<d, t>>
        BY <1>1, <2>3, <3>2, <4>1 DEF OneTurnPerHandle
      <4>3. job'[d][t] = "queued"
        BY <1>1, <2>2, <4>2 DEF Types
      <4> QED BY <4>2, <4>3
    <3> QED BY <2>3, <3>1, <3>2, <1>2
  <2> QED BY <2>5, <2>6 DEF OneTurnPerHandle
<1>5. ASSUME PoolStart
      PROVE  OneTurnPerHandle'
  <2>1. PICK c \in Conns, s \in Sessions :
          /\ job[c][s] = "queued" /\ job' = [job EXCEPT ![c][s] = "running"]
          /\ backlog[1] = <<c, s>> /\ backlog # <<>> /\ backlog' = Tail(backlog)
    BY <1>1, <1>5, QueueHead DEF PoolStart
  <2>2. /\ DOMAIN backlog = 1..Len(backlog) /\ 1 \in DOMAIN backlog
        /\ \A i \in DOMAIN backlog' : i + 1 \in DOMAIN backlog /\ i + 1 # 1 /\ backlog'[i] = backlog[i + 1]
        /\ DOMAIN backlog' \subseteq Nat
    BY <1>2, <2>1
  <2>3. \A i, j \in DOMAIN backlog' : backlog'[i] = backlog'[j] => i = j
    BY <1>1, <2>2 DEF OneTurnPerHandle
  <2>4. \A i \in DOMAIN backlog' : job'[backlog'[i][1]][backlog'[i][2]] = "queued"
    <3> TAKE i \in DOMAIN backlog'
    <3>1. PICK d \in Conns, t \in Sessions : backlog[i + 1] = <<d, t>>
      BY <1>2, <2>2
    <3>2. job[d][t] = "queued" /\ backlog'[i] = <<d, t>> /\ <<d, t>> # <<c, s>>
      BY <1>1, <2>1, <2>2, <3>1 DEF OneTurnPerHandle
    <3>3. job'[d][t] = "queued"
      BY <1>1, <2>1, <3>2 DEF Types
    <3> QED BY <3>2, <3>3
  <2> QED BY <2>3, <2>4 DEF OneTurnPerHandle
<1>6. ASSUME NEW c \in Conns, NEW s \in Sessions, Answer(c, s) \/ AskUser(c, s) \/ TurnEnds(c, s)
      PROVE  OneTurnPerHandle'
  <2>1. /\ job[c][s] # "queued" /\ backlog' = backlog
        /\ \E does \in {"running", "asking", "done"} : job' = [job EXCEPT ![c][s] = does]
    BY <1>6 DEF Answer, AskUser, TurnEnds
  <2>2. \A i \in DOMAIN backlog : job'[backlog[i][1]][backlog[i][2]] = "queued"
    <3> TAKE i \in DOMAIN backlog
    <3>1. PICK d \in Conns, t \in Sessions : backlog[i] = <<d, t>>
      BY <1>2
    <3>2. job[d][t] = "queued"
      BY <1>1, <3>1 DEF OneTurnPerHandle
    <3>3. job'[d][t] = "queued"
      BY <1>1, <2>1, <3>2 DEF Types
    <3> QED BY <3>1, <3>3
  <2> QED BY <1>1, <2>1, <2>2 DEF OneTurnPerHandle
<1>7. ASSUME NEW c \in Conns, NEW s \in Sessions,
             \/ TakeTurn(c, s) \/ TakeDelete(c, s) \/ Deleted(c, s) \/ OpenedTwice(c, s)
             \/ Cancel(c, s)
      PROVE  job' = job /\ backlog' = backlog
  BY <1>7 DEF TakeTurn, TakeDelete, Deleted, OpenedTwice, Cancel, pool
<1>8. ASSUME NEW c \in Conns, NEW s \in Sessions, NEW what \in Whats,
             \/ TakeOpen(c, s, what) \/ Opened(c, s, what) \/ GivesUp(c, s, what)
             \/ TakeClose(c, s, what) \/ Closed(c, s, what)
      PROVE  job' = job /\ backlog' = backlog
  BY <1>8 DEF TakeOpen, Opened, GivesUp, TakeClose, Closed, pool
<1>9. ASSUME NEW c \in Conns, 
             TakeSetting(c) \/ SettingDone(c) \/ Disconnect(c) \/ Teardown(c) \/ LeftBehind(c)
      PROVE  job' = job /\ backlog' = backlog
  BY <1>9 DEF TakeSetting, SettingDone, Disconnect, Cuts, Teardown, TornDown, WaitOver, ClosesHandle,
              LeftBehind, LooseEnds, frames, pool
<1>10. CASE UNCHANGED vars
  BY <1>3, <1>10 DEF vars, pool
<1> QED BY <1>3, <1>4, <1>5, <1>6, <1>7, <1>8, <1>9, <1>10 DEF Next, OnLane, OnLoop, OnPool, Whats, Calls

LEMMA StepInd == IndInv /\ [Next]_vars => IndInv'
BY TypesInd, LaneInd, HandlesInd, QueueInd DEF IndInv, TurnsInv

-----------------------------------------------------------------------------
(* What follows from it *)

LEMMA TypeFollows == IndInv => TypeOK
<1> SUFFICES ASSUME IndInv PROVE TypeOK OBVIOUS
<1>1. ASSUME NEW c \in Conns
      PROVE  Cardinality(lane[c]) <= 1
  <2>1. \/ lane[c] = {}
        \/ \E what \in Whats, s \in Sessions : lane[c] = {<<what, s>>}
    BY DEF IndInv, LaneInv, AtRest, Opening, Starting, Leaving, Deleting, Left, Whats, Calls
  <2>2. CASE lane[c] = {}
    BY <2>2, FS_EmptySet
  <2>3. ASSUME NEW what, NEW s, lane[c] = {<<what, s>>}
        PROVE  Cardinality(lane[c]) = 1
    BY <2>3, FS_Singleton
  <2> QED BY <2>1, <2>2, <2>3
<1> QED BY <1>1 DEF IndInv, Types, TypeOK, Whats

LEMMA ServeFollows == IndInv => ServeInv
<1> SUFFICES ASSUME IndInv PROVE ServeInv OBVIOUS
<1>1. HandlesAreCapped
  <2> SUFFICES ASSUME NEW c \in Conns
               PROVE  Cardinality(store[c]) <= MaxHandles /\ Cardinality(spare[c]) <= 1
    BY DEF HandlesAreCapped
  <2>1. store[c] \in SUBSET handles[c] /\ handles[c] \in SUBSET Sessions
    BY DEF IndInv, Types, LaneInv, Left
  <2>2. /\ Cardinality(store[c]) \in Nat /\ Cardinality(handles[c]) \in Nat
        /\ Cardinality(store[c]) <= Cardinality(handles[c])
    BY <2>1, Fewer, SessionsAreFinite
  <2>3. spare[c] = {} \/ \E s \in Sessions : spare[c] = {s}
    <3>1. spare[c] = {} \/ \E s \in Sessions : spare[c] \subseteq {s}
      BY DEF IndInv, LaneInv, AtRest, Opening, Starting, Leaving, Deleting, Left
    <3>2. ASSUME NEW s \in Sessions, spare[c] \subseteq {s}
          PROVE  spare[c] = {} \/ spare[c] = {s}
      BY <3>2
    <3> QED BY <3>1, <3>2
  <2>4. CASE spare[c] = {}
    BY <2>2, <2>4, FS_EmptySet DEF IndInv, WithinLimit
  <2>5. ASSUME NEW s \in Sessions, spare[c] = {s}
        PROVE  Cardinality(spare[c]) = 1
    BY <2>5, FS_Singleton
  <2> QED BY <2>2, <2>3, <2>4, <2>5 DEF IndInv, WithinLimit
<1>2. TableIsOpenFiles
  BY Resting DEF IndInv, TableIsOpenFiles
<1>3. GoneLeavesNoTable
  BY DEF IndInv, LaneInv, Left, GoneLeavesNoTable
<1>4. TurnsInv
  BY DEF IndInv
<1> QED BY <1>1, <1>2, <1>3, <1>4, TypeFollows DEF ServeInv, TableInv

\* Whatever the clients send and however the pool and the teardowns fall in,
\* a turn that was accepted is queued or running once, with its handle in the
\* table and its file open; a table is what is open, within its limit; and of
\* a connection that is gone nothing is open but, at most, the one file that
\* its lane's call had in hand (agent/server/app.py).
THEOREM ServeIsConsistent == Spec => []ServeInv
<1>1. Spec => []IndInv
  BY InitInd, StepInd, PTL DEF Spec
<1> QED BY <1>1, ServeFollows, PTL

(* ------------------------------ the terminal ------------------------------ *)

\* The kinds of screens, of blocks of the transcript, and where a worker is.
Kinds == {"ask", "confirm", "sessions", "delete", "import", "workspace", "setup", "rename",
          "score", "pin"}
Marks == {"you", "reply", "partial"} \cup EndMarks
Blocks == Marks \X MessageNos
Outcomes == {"none"} \cup EndMarks
Presses == {"no", "early", "heard"}

ScreenRecords == [kind : Kinds, id : AppIds \cup {"none"}, seen : MessageNos, running : BOOLEAN]
Places == {"start", "running", "calling", "asking", "answered", "final", "settled", "failing",
           "closing", "unlink"}
JobRecords ==
  [kind : {"turn", "reset", "load", "delete", "import"},
   at : Places,
   turn : MessageNos, id : AppIds, ws : Workspaces \cup {"none"}, asks : 0..MaxAsks,
   late : Presses, outcome : Outcomes, keep : BOOLEAN]

AppTypes ==
  /\ AppTypeOK
  /\ up \in BOOLEAN /\ busy \in BOOLEAN
  /\ screens \in Seq(ScreenRecords) /\ jobs \subseteq JobRecords
  /\ cancel \in [turn : MessageNos, set : BOOLEAN] /\ pressed \in Presses
  /\ shown \in Seq(Blocks) /\ sent \in MessageNos

\* What belongs to message n, and how it ended.
IsEnd(i, n) == i \in DOMAIN shown /\ shown[i][2] = n /\ shown[i][1] \in EndMarks
NoEnd(n) == \A i \in DOMAIN shown : ~IsEnd(i, n)
OneEnd(i, n) == IsEnd(i, n) /\ \A k \in DOMAIN shown : IsEnd(k, n) => k = i
Answered(n) == \E i \in DOMAIN shown : OneEnd(i, n) /\ shown[i][1] \in Answers
TwoEnds(n) ==
  \E i, k \in DOMAIN shown :
    /\ IsEnd(i, n) /\ shown[i][1] \in Answers /\ IsEnd(k, n) /\ shown[k][1] = "error"
    /\ \A m \in DOMAIN shown : IsEnd(m, n) => m \in {i, k}
Ended(n) == (\E i \in DOMAIN shown : OneEnd(i, n)) \/ TwoEnds(n)

\* The worker that holds the session: a turn is of the last message, in the
\* session and the workspace of now, and what it has said is what it has come to;
\* a change of session finds an id to go to.
OfTurn(j) ==
  /\ j.turn = sent /\ sent # 0 /\ j.id = cur /\ j.late # "heard"
  /\ j.at # "unlink"
  /\ j.at \notin {"start", "closing"} => j.ws = ws
  /\ j.at = "start" => cancel.turn # sent
  /\ j.at \in {"start", "running", "calling", "asking", "answered", "final"} => NoEnd(sent)
  /\ j.at = "final" => j.outcome \in Answers /\ trace = sent
  /\ j.at = "settled" => Answered(sent)
  /\ j.at = "failing" => \/ j.outcome \in {"stopped", "error"} /\ NoEnd(sent)
                         \/ j.outcome = "error" /\ Answered(sent)
  /\ j.at = "closing" => Ended(sent)
OfChange(j) ==
  /\ j.turn = 0 /\ j.late = "no" /\ j.at \in {"start", "unlink", "closing"}
  /\ j.kind \in {"reset", "delete"} /\ j.at = "start" => IdsLeft
  /\ j.at = "unlink" => j.kind = "delete" /\ j.id # cur

OfJob(j) == IF j.kind = "turn" THEN OfTurn(j) ELSE OfChange(j)

Holder ==
  \/ jobs = {} /\ ~busy
  \/ up /\ busy /\ \E j \in jobs : jobs = {j} /\ OfJob(j)

\* An application that died has left nothing open.
Dead == ~up => jobs = {} /\ screens = <<>> /\ Unlisted # {}

\* Screens from which a worker starts, or that no turn may run under, are
\* opened while there is no worker, and are the only one but for a late pin.
Choosers == {"sessions", "delete", "confirm", "import", "workspace", "setup"}
Chosen ==
  \A k \in DOMAIN screens :
    /\ screens[k].kind \in Choosers => k = 1 /\ jobs = {}
    /\ screens[k].kind = "confirm" => screens[k].id \in AppIds
    /\ screens[k].kind = "score" /\ ~screens[k].running =>
         jobs = {} /\ trace \in {0, screens[k].seen}

\* One question, of the turn that waits.
Asked ==
  /\ \A k \in DOMAIN screens : screens[k].kind = "ask" =>
       \E j \in Holds("turn", "asking") : j.turn = screens[k].seen
  /\ \A k, l \in DOMAIN screens : screens[k].kind = "ask" /\ screens[l].kind = "ask" => k = l
  /\ Holds("turn", "asking") # {} => \E k \in DOMAIN screens : screens[k].kind = "ask"

\* A stop that was heard stays in the event of the turn.
Stopping ==
  /\ cancel.turn <= sent
  /\ pressed = "heard" => cancel = [turn |-> sent, set |-> TRUE] /\ sent # 0

\* The transcript is in the order of the messages, each begins what belongs to
\* it, and a block that streamed is the one that is settled.
InOrder ==
  /\ \A i \in DOMAIN shown : shown[i][2] \in 1..sent
  /\ \A i, k \in DOMAIN shown : i < k => shown[i][2] <= shown[k][2]
  /\ \A i \in DOMAIN shown :
       shown[i][1] = "you" <=> \A k \in DOMAIN shown : shown[k][2] = shown[i][2] => i <= k
  /\ \A n \in 1..sent : \E i \in DOMAIN shown : shown[i] = <<"you", n>>
  /\ \A i, k \in DOMAIN shown :
       /\ shown[i][2] = shown[k][2]
       /\ shown[i][1] \in Answers \cup {"partial"} /\ shown[k][1] \in Answers \cup {"partial"}
       => i = k

\* What no worker is at is over.
Over == \A n \in 1..sent : (\A j \in jobs : j.turn # n) => Ended(n)

\* The trace is of the last answer on the screen, or of the one that is next.
IsLast(i) ==
  /\ i \in DOMAIN shown /\ shown[i][1] \in Answers
  /\ \A k \in DOMAIN shown : shown[k][1] \in Answers => k <= i
HasLast == (\E i \in DOMAIN shown : shown[i][1] \in Answers) => \E i \in DOMAIN shown : IsLast(i)
Traced ==
  \/ trace = 0 \/ \E j \in jobs : j.kind = "turn" /\ j.at = "final"
  \/ \E i \in DOMAIN shown : IsLast(i) /\ shown[i][2] = trace

AppInd ==
  /\ AppTypes /\ Holder /\ Dead /\ Chosen /\ Asked /\ Stopping /\ InOrder /\ Over /\ HasLast /\ Traced
-----------------------------------------------------------------------------
(* Sequences and the one worker *)

LEMMA Appended ==
  ASSUME NEW S, NEW s \in Seq(S), NEW e \in S
  PROVE  /\ Append(s, e) \in Seq(S) /\ Len(s) \in Nat
         /\ DOMAIN s = 1..Len(s) /\ DOMAIN Append(s, e) = 1..(Len(s) + 1)
         /\ \A i \in DOMAIN s : Append(s, e)[i] = s[i]
         /\ Append(s, e)[Len(s) + 1] = e
OBVIOUS

LEMMA TopTaken ==
  ASSUME AppTypes, screens # <<>>
  PROVE  /\ Below \in Seq(ScreenRecords) /\ Top \in ScreenRecords
         /\ Len(screens) \in DOMAIN screens /\ DOMAIN screens = 1..Len(screens)
         /\ Len(screens) \in Nat /\ DOMAIN Below = 1..(Len(screens) - 1)
         /\ \A k \in DOMAIN Below : Below[k] = screens[k]
<1>1. screens \in Seq(ScreenRecords) /\ Len(screens) \in Nat /\ Len(screens) >= 1
  BY DEF AppTypes
<1> QED BY <1>1, SubSeqProperties DEF Below, Top

LEMMA OneWorker ==
  ASSUME Holder, NEW j \in jobs
  PROVE  jobs = {j} /\ up /\ busy /\ OfJob(j) /\ \A k : Becomes(j, k) => jobs' = {k}
BY DEF Holder, Becomes

LEMMA FreeMeansNone ==
  ASSUME Holder, ~busy
  PROVE  jobs = {}
BY DEF Holder

USE AppAssumption

LEMMA AppInitInd == AppInit => AppInd
<1> SUFFICES ASSUME AppInit PROVE AppInd OBVIOUS
<1>1. AppTypes
  <2>1. <<>> \in Seq(ScreenRecords) /\ <<>> \in Seq(Blocks)
    OBVIOUS
  <2>2. cancel \in [turn : MessageNos, set : BOOLEAN] /\ 0 \in MessageNos /\ cancel.turn = 0
    BY DEF AppInit, MessageNos
  <2>3. listed \subseteq AppIds /\ cur \in AppIds
    BY DEF AppInit
  <2> QED BY <2>1, <2>2, <2>3 DEF AppInit, AppTypes, AppTypeOK, Presses
<1>2. Holder /\ Dead /\ Chosen /\ Asked /\ Stopping
  BY DEF AppInit, Holder, Dead, Chosen, Asked, Stopping, Holds
<1>3. InOrder /\ Over /\ HasLast /\ Traced
  BY DEF AppInit, InOrder, Over, HasLast, Traced
<1> QED BY <1>1, <1>2, <1>3 DEF AppInd
LEMMA FreshIds ==
  /\ Unlisted # {} /\ ~up => FreshId \in AppIds
  /\ IdsLeft /\ up => FreshId \in AppIds /\ FreshId # cur
BY DEF Unlisted, FreshId, IdsLeft

LEMMA LastShownTyped ==
  ASSUME AppTypes, HasLast
  PROVE  LastShown \in MessageNos
<1> DEFINE at == {i \in DOMAIN shown : shown[i][1] \in Answers}
<1>1. shown \in Seq(Blocks) /\ \A i \in DOMAIN shown : shown[i] \in Blocks /\ shown[i][2] \in MessageNos
  BY DEF AppTypes, Blocks
<1>2. CASE at = {}
  BY <1>2 DEF LastShown, MessageNos
<1>3. CASE at # {}
  <2>1. PICK i \in at : \A k \in at : k <= i
    BY <1>3 DEF HasLast, IsLast
  <2>2. (CHOOSE l \in at : \A k \in at : k <= l) \in at
    BY <2>1
  <2> QED BY <1>1, <1>3, <2>2 DEF LastShown
<1> QED BY <1>2, <1>3

LEMMA NewJob ==
  ASSUME NEW kind \in {"turn", "reset", "load", "delete", "import"}, NEW id \in AppIds
  PROVE  Job(kind, id) \in JobRecords
BY DEF Job, JobRecords, Places, MessageNos, Presses, Outcomes

LEMMA ChangedJob ==
  ASSUME NEW j \in JobRecords
  PROVE  /\ \A p \in Places : [j EXCEPT !.at = p] \in JobRecords
         /\ \A p \in Places, o \in Outcomes : [j EXCEPT !.at = p, !.outcome = o] \in JobRecords
         /\ \A p \in Places, w \in Workspaces : [j EXCEPT !.at = p, !.ws = w] \in JobRecords
         /\ \A p \in Places, l \in Presses : [j EXCEPT !.at = p, !.late = l] \in JobRecords
         /\ \A n \in MessageNos : [j EXCEPT !.turn = n] \in JobRecords
         /\ \A k \in BOOLEAN : [j EXCEPT !.keep = k] \in JobRecords
         /\ \A p \in Places : j.asks < MaxAsks =>
              [j EXCEPT !.at = p, !.asks = @ + 1] \in JobRecords
<1> USE DEF JobRecords
<1>1. ASSUME NEW p \in Places PROVE [j EXCEPT !.at = p] \in JobRecords
  OBVIOUS
<1>2. ASSUME NEW p \in Places, NEW o \in Outcomes
      PROVE  [j EXCEPT !.at = p, !.outcome = o] \in JobRecords
  OBVIOUS
<1>3. ASSUME NEW p \in Places, NEW w \in Workspaces
      PROVE  [j EXCEPT !.at = p, !.ws = w] \in JobRecords
  OBVIOUS
<1>4. ASSUME NEW p \in Places, NEW l \in Presses
      PROVE  [j EXCEPT !.at = p, !.late = l] \in JobRecords
  OBVIOUS
<1>5. ASSUME NEW n \in MessageNos PROVE [j EXCEPT !.turn = n] \in JobRecords
  OBVIOUS
<1>6. ASSUME NEW k \in BOOLEAN PROVE [j EXCEPT !.keep = k] \in JobRecords
  OBVIOUS
<1>7. ASSUME NEW p \in Places, j.asks < MaxAsks
      PROVE  [j EXCEPT !.at = p, !.asks = @ + 1] \in JobRecords
  <2>1. j.asks + 1 \in 0..MaxAsks
    BY <1>7
  <2> QED BY <2>1
<1> HIDE DEF JobRecords
<1> QED BY <1>1, <1>2, <1>3, <1>4, <1>5, <1>6, <1>7

LEMMA JobsTyped ==
  ASSUME AppTypes, Chosen, Dead, AppNext
  PROVE  jobs' \subseteq JobRecords
<1> USE DEF AppTypes, AppTypeOK
<1>1. CASE UNCHANGED jobs
  BY <1>1
<1>2. CASE Submit
  <2>1. Job("turn", cur) \in JobRecords /\ sent + 1 \in MessageNos
    BY <1>2, NewJob DEF Submit, MessageNos
  <2>2. [Job("turn", cur) EXCEPT !.turn = sent + 1] \in JobRecords
    BY <2>1, ChangedJob
  <2> QED BY <1>2, <2>2 DEF Submit
<1>3. CASE NewSession \/ PickSession \/ PickImport
  BY <1>3, NewJob DEF NewSession, PickSession, PickImport, Take
<1>4. CASE ConfirmDelete
  <2>1. Top.id \in AppIds
    BY <1>4, TopTaken DEF ConfirmDelete, On, Top, Chosen
  <2> QED BY <1>4, <2>1, NewJob DEF ConfirmDelete, Take
<1>5. CASE StartApp
  <2>1. ASSUME NEW i \in listed, NEW keep \in BOOLEAN
        PROVE  [Job("load", i) EXCEPT !.keep = keep] \in JobRecords
    BY NewJob, ChangedJob
  <2> QED BY <1>5, <2>1 DEF StartApp, Take
<1>6. ASSUME NEW j \in jobs, NEW k \in JobRecords, Becomes(j, k)
      PROVE  jobs' \subseteq JobRecords
  BY <1>6 DEF Becomes
<1>7. ASSUME NEW j \in jobs, NEW p \in Places, Moves(j, p)
      PROVE  jobs' \subseteq JobRecords
  BY <1>6, <1>7, ChangedJob DEF Moves
<1>8. CASE Reply
  BY <1>7, <1>8 DEF Reply, Holds, Places
<1>9. ASSUME NEW j \in jobs, TurnBegins(j) \/ TurnCalls(j) \/ TurnReturns(j)
      PROVE  jobs' \subseteq JobRecords
  <2>1. CASE TurnBegins(j)
    BY <1>6, <2>1, ChangedJob DEF TurnBegins, Places
  <2>2. CASE TurnCalls(j)
    BY <1>6, <2>2, ChangedJob DEF TurnCalls, Places, Outcomes, EndMarks
  <2>3. CASE TurnReturns(j)
    BY <1>6, <1>7, <2>3, ChangedJob DEF TurnReturns, Places, Outcomes, EndMarks
  <2> QED BY <1>9, <2>1, <2>2, <2>3
<1>10. ASSUME NEW j \in jobs, TurnAsks(j) \/ TurnResumes(j) \/ TurnFinals(j)
      PROVE  jobs' \subseteq JobRecords
  <2>1. CASE TurnAsks(j)
    BY <1>6, <2>1, ChangedJob DEF TurnAsks, Places
  <2>2. CASE TurnResumes(j)
    BY <1>6, <2>2, ChangedJob DEF TurnResumes, Places
  <2>3. CASE TurnFinals(j)
    BY <1>6, <2>3, ChangedJob DEF TurnFinals, Places, Outcomes, EndMarks
  <2> QED BY <1>10, <2>1, <2>2, <2>3
<1>11. ASSUME NEW j \in jobs, TurnRecords(j) \/ ImportSession(j)
      PROVE  jobs' \subseteq JobRecords
  <2>1. CASE TurnRecords(j)
    BY <1>6, <1>7, <2>1, ChangedJob DEF TurnRecords, Places, Outcomes, EndMarks
  <2>2. CASE ImportSession(j)
    BY <1>6, <1>7, <2>2, NewJob DEF ImportSession, Places
  <2> QED BY <1>11, <2>1, <2>2
<1>12. ASSUME NEW j \in jobs,
              \/ TurnSettles(j) \/ TurnFails(j) \/ ResetSession(j) \/ LoadSession(j)
              \/ DeleteSession(j) \/ UnlinkSession(j)
      PROVE  jobs' \subseteq JobRecords
  BY <1>7, <1>12
  DEF TurnSettles, TurnFails, ResetSession, LoadSession, DeleteSession, UnlinkSession, Places
<1>13. ASSUME NEW j \in jobs, Release(j) \/ JobDies(j)
      PROVE  jobs' \subseteq JobRecords
  BY <1>13 DEF Release, JobDies
<1>14. ASSUME NEW j \in jobs, TurnStreams(j)
      PROVE  jobs' \subseteq JobRecords
  BY <1>14 DEF TurnStreams
<1>15. CASE \/ Escape \/ OpenSessions \/ PickDelete \/ OpenImport \/ Dismiss \/ OpenScreen
           \/ SetWorkspace \/ RenameSession \/ Close \/ PickTask \/ ListModels \/ PickPin
           \/ ApplyPin
  BY <1>15, <1>1
  DEF Escape, OpenSessions, PickDelete, OpenImport, Dismiss, OpenScreen, SetWorkspace,
      RenameSession, Close, PickTask, ListModels, PickPin, ApplyPin
<1> QED BY <1>2, <1>3, <1>4, <1>5, <1>8, <1>9, <1>10, <1>11, <1>12, <1>13, <1>14, <1>15
  DEF AppNext
-----------------------------------------------------------------------------
(* What a step does to the screens *)

Shuts == screens # <<>> /\ screens' = Below

LEMMA ScreenSteps ==
  ASSUME AppNext
  PROVE  \/ UNCHANGED screens
         \/ Shuts
         \/ \E j \in jobs : TurnAsks(j)
         \/ screens' = Append(screens, Screen("pin"))
         \/ OpenSessions \/ OpenImport \/ OpenScreen \/ PickDelete
         \/ screens' = <<>>
<1>1. CASE \/ Reply \/ PickSession \/ ConfirmDelete \/ PickImport \/ Dismiss \/ SetWorkspace
           \/ RenameSession \/ Close \/ PickPin
  BY <1>1 DEF Reply, PickSession, ConfirmDelete, PickImport, Dismiss, SetWorkspace, RenameSession,
              Close, PickPin, On, Shuts
<1>2. ASSUME NEW j \in jobs,
             \/ TurnBegins(j) \/ TurnCalls(j) \/ TurnStreams(j) \/ TurnReturns(j)
             \/ TurnResumes(j) \/ TurnFinals(j) \/ TurnSettles(j)
             \/ TurnRecords(j) \/ TurnFails(j) \/ Release(j)
             \/ ResetSession(j) \/ LoadSession(j) \/ DeleteSession(j) \/ UnlinkSession(j)
             \/ ImportSession(j) \/ JobDies(j)
      PROVE  UNCHANGED screens \/ screens' = <<>>
  BY <1>2 DEF TurnBegins, TurnCalls, TurnStreams, TurnReturns, TurnResumes, TurnFinals, TurnSettles,
              TurnRecords, TurnFails, Release, ResetSession, LoadSession, DeleteSession,
              UnlinkSession, ImportSession, JobDies
<1>3. CASE Submit \/ Escape \/ NewSession \/ StartApp \/ PickTask \/ ListModels \/ ApplyPin
  BY <1>3 DEF Submit, Escape, NewSession, StartApp, PickTask, ListModels, ApplyPin
<1> QED BY <1>1, <1>2, <1>3 DEF AppNext

LEMMA ScreensTyped ==
  ASSUME AppTypes, Holder, HasLast, AppNext
  PROVE  screens' \in Seq(ScreenRecords)
<1>0. /\ screens \in Seq(ScreenRecords) /\ 0 \in MessageNos
      /\ \A kind \in Kinds : Screen(kind) \in ScreenRecords
  BY DEF AppTypes, Screen, ScreenRecords, MessageNos
<1>a. \A s \in ScreenRecords : /\ <<s>> \in Seq(ScreenRecords) /\ Append(screens, s) \in Seq(ScreenRecords)
                              /\ \A b \in Seq(ScreenRecords) : Append(b, s) \in Seq(ScreenRecords)
  BY <1>0
<1>1. CASE Shuts
  BY <1>1, TopTaken DEF Shuts
<1>2. ASSUME NEW j \in jobs, TurnAsks(j)
      PROVE  screens' \in Seq(ScreenRecords)
  <2>1. [Screen("ask") EXCEPT !.seen = j.turn] \in ScreenRecords
    BY <1>0 DEF AppTypes, JobRecords, ScreenRecords, Kinds
  <2> QED BY <1>0, <1>2, <2>1 DEF TurnAsks
<1>3. CASE screens' = Append(screens, Screen("pin"))
  BY <1>0, <1>a, <1>3 DEF Kinds
<1>4. CASE OpenSessions \/ OpenImport
  BY <1>0, <1>a, <1>4 DEF OpenSessions, OpenImport, Kinds
<1>5. CASE OpenScreen
  <2>1. \A kind \in Kinds : [Screen(kind) EXCEPT !.id = cur] \in ScreenRecords
    BY <1>0 DEF AppTypes, AppTypeOK, ScreenRecords
  <2>2. [Screen("score") EXCEPT !.seen = LastShown, !.running = busy] \in ScreenRecords
    BY <1>0, LastShownTyped DEF AppTypes, ScreenRecords, Kinds
  <2>3. \/ \E kind \in {"workspace", "setup"} : screens' = <<Screen(kind)>>
        \/ screens' = <<[Screen("rename") EXCEPT !.id = cur]>>
        \/ screens' = <<[Screen("score") EXCEPT !.seen = LastShown, !.running = busy]>>
    BY <1>5 DEF OpenScreen
  <2>4. \A kind \in {"workspace", "setup", "rename", "score"} : kind \in Kinds
    BY DEF Kinds
  <2>5. [Screen("rename") EXCEPT !.id = cur] \in ScreenRecords
    BY <2>1, <2>4
  <2>6. \A kind \in {"workspace", "setup"} : <<Screen(kind)>> \in Seq(ScreenRecords)
    BY <1>0, <1>a, <2>4
  <2>7. CASE \E kind \in {"workspace", "setup"} : screens' = <<Screen(kind)>>
    BY <2>6, <2>7
  <2>8. CASE screens' = <<[Screen("rename") EXCEPT !.id = cur]>>
    BY <1>a, <2>5, <2>8
  <2>9. CASE screens' = <<[Screen("score") EXCEPT !.seen = LastShown, !.running = busy]>>
    BY <1>a, <2>2, <2>9
  <2> QED BY <2>3, <2>7, <2>8, <2>9
<1>6. CASE PickDelete
  <2>1. \A i \in listed : [Screen("confirm") EXCEPT !.id = i] \in ScreenRecords
    BY <1>0 DEF AppTypes, AppTypeOK, ScreenRecords, Kinds
  <2> QED BY <1>a, <1>6, <2>1, TopTaken DEF PickDelete, On
<1>7. CASE UNCHANGED screens
  BY <1>0, <1>7
<1>8. CASE screens' = <<>>
  <2>1. <<>> \in Seq(ScreenRecords)
    OBVIOUS
  <2> QED BY <1>8, <2>1
<1> QED BY <1>1, <1>2, <1>3, <1>4, <1>5, <1>6, <1>7, <1>8, ScreenSteps

-----------------------------------------------------------------------------
(* What a step does to the transcript *)

LEMMA ShownSteps ==
  ASSUME AppNext
  PROVE  \/ UNCHANGED <<shown, sent>>
         \/ Submit
         \/ \E j \in jobs :
              TurnStreams(j) \/ TurnResumes(j) \/ TurnSettles(j) \/ TurnFails(j) \/ JobDies(j)
<1>1. ASSUME NEW j \in jobs,
             \/ TurnBegins(j) \/ TurnCalls(j) \/ TurnReturns(j) \/ TurnAsks(j) \/ TurnFinals(j)
             \/ TurnRecords(j) \/ Release(j) \/ ResetSession(j) \/ LoadSession(j)
             \/ DeleteSession(j) \/ UnlinkSession(j) \/ ImportSession(j)
      PROVE  UNCHANGED <<shown, sent>>
  BY <1>1 DEF TurnBegins, TurnCalls, TurnReturns, TurnAsks, TurnFinals, TurnRecords, Release,
              ResetSession, LoadSession, DeleteSession, UnlinkSession, ImportSession
<1>2. CASE \/ Escape \/ Reply \/ NewSession \/ OpenSessions \/ PickSession \/ PickDelete
           \/ ConfirmDelete \/ OpenImport \/ PickImport \/ StartApp
  BY <1>2 DEF Escape, Reply, NewSession, OpenSessions, PickSession, PickDelete, ConfirmDelete,
              OpenImport, PickImport, StartApp
<1>3. CASE \/ Dismiss \/ OpenScreen \/ SetWorkspace \/ RenameSession \/ Close
           \/ PickTask \/ ListModels \/ PickPin \/ ApplyPin
  BY <1>3 DEF Dismiss, OpenScreen, SetWorkspace, RenameSession, Close, PickTask, ListModels,
              PickPin, ApplyPin
<1> QED BY <1>1, <1>2, <1>3 DEF AppNext

LEMMA ShownTyped ==
  ASSUME AppTypes, Holder, AppNext
  PROVE  shown' \in Seq(Blocks) /\ sent' \in MessageNos
<1>0. shown \in Seq(Blocks) /\ sent \in MessageNos
  BY DEF AppTypes
<1>1. CASE UNCHANGED <<shown, sent>>
  BY <1>0, <1>1
<1>2. CASE Submit
  <2>1. sent' \in MessageNos
    BY <1>0, <1>2 DEF Submit, MessageNos
  <2>2. <<"you", sent'>> \in Blocks
    BY <2>1 DEF Blocks, Marks
  <2> QED BY <1>0, <1>2, <2>1, <2>2 DEF Submit
<1>3. ASSUME NEW j \in jobs,
             TurnStreams(j) \/ TurnResumes(j) \/ TurnSettles(j) \/ TurnFails(j) \/ JobDies(j)
      PROVE  shown' \in Seq(Blocks) /\ sent' \in MessageNos
  <2>1. j.turn \in MessageNos /\ OfJob(j)
    BY OneWorker DEF AppTypes, JobRecords
  <2>2. CASE TurnStreams(j)
    BY <1>0, <2>1, <2>2 DEF TurnStreams, Blocks, Marks
  <2>3. CASE TurnResumes(j)
    BY <1>0, <2>1, <2>3 DEF TurnResumes, Blocks, Marks
  <2>4. CASE TurnFails(j)
    <3>1. <<j.outcome, j.turn>> \in Blocks
      BY <2>1, <2>4 DEF TurnFails, OfJob, OfTurn, Blocks, Marks, EndMarks
    <3> QED BY <1>0, <2>4, <3>1 DEF TurnFails
  <2>5. CASE TurnSettles(j)
    <3>1. <<j.outcome, j.turn>> \in Blocks
      BY <2>1, <2>5 DEF TurnSettles, OfJob, OfTurn, Blocks, Marks, EndMarks
    <3>2. CASE Streaming(j)
      <4> DEFINE s == [i \in DOMAIN shown |-> IF shown[i] = <<"partial", j.turn>>
                                              THEN <<j.outcome, j.turn>> ELSE shown[i]]
      <4>1. DOMAIN shown = 1..Len(shown) /\ Len(shown) \in Nat /\ \A i \in DOMAIN shown : shown[i] \in Blocks
        BY <1>0
      <4>2. s \in Seq(Blocks)
        BY <3>1, <4>1
      <4> QED BY <1>0, <2>5, <3>2, <4>2 DEF TurnSettles
    <3> QED BY <1>0, <2>5, <3>1, <3>2 DEF TurnSettles
  <2>6. CASE JobDies(j)
    BY <2>6 DEF JobDies, MessageNos
  <2> QED BY <1>3, <2>2, <2>3, <2>4, <2>5, <2>6
<1> QED BY <1>1, <1>2, <1>3, ShownSteps

LEMMA RestTyped ==
  ASSUME AppTypes, Holder, Dead, AppNext
  PROVE  /\ AppTypeOK' /\ up' \in BOOLEAN /\ busy' \in BOOLEAN
         /\ cancel' \in [turn : MessageNos, set : BOOLEAN] /\ pressed' \in Presses
<1> USE DEF AppTypes, AppTypeOK
<1>1. ASSUME NEW j \in jobs,
             \/ TurnBegins(j) \/ TurnCalls(j) \/ TurnStreams(j) \/ TurnReturns(j) \/ TurnAsks(j)
             \/ TurnResumes(j) \/ TurnFinals(j) \/ TurnSettles(j) \/ TurnFails(j) \/ Release(j)
      PROVE  /\ AppTypeOK' /\ up' \in BOOLEAN /\ busy' \in BOOLEAN
             /\ cancel' \in [turn : MessageNos, set : BOOLEAN] /\ pressed' \in Presses
  <2>1. j.turn \in MessageNos
    BY DEF JobRecords
  <2>2. CASE TurnBegins(j) \/ TurnFinals(j)
    <3>1. [turn |-> j.turn, set |-> FALSE] \in [turn : MessageNos, set : BOOLEAN]
      BY <2>1
    <3> QED BY <2>1, <2>2, <3>1 DEF TurnBegins, TurnFinals, session
  <2>3. CASE \/ TurnCalls(j) \/ TurnStreams(j) \/ TurnReturns(j) \/ TurnAsks(j) \/ TurnResumes(j)
             \/ TurnSettles(j) \/ TurnFails(j) \/ Release(j)
    BY <2>3 DEF TurnCalls, TurnStreams, TurnReturns, TurnAsks, TurnResumes, TurnSettles, TurnFails,
                Release, session
  <2> QED BY <1>1, <2>2, <2>3
<1>2. ASSUME NEW j \in jobs,
             \/ TurnRecords(j) \/ ResetSession(j) \/ LoadSession(j) \/ DeleteSession(j)
             \/ UnlinkSession(j) \/ ImportSession(j)
      PROVE  /\ AppTypeOK' /\ up' \in BOOLEAN /\ busy' \in BOOLEAN
             /\ cancel' \in [turn : MessageNos, set : BOOLEAN] /\ pressed' \in Presses
  <2>1. j.id \in AppIds /\ 0 \in MessageNos
    BY DEF JobRecords, MessageNos
  <2>2. ResetSession(j) \/ DeleteSession(j) => IdsLeft /\ FreshId \in AppIds
    BY OneWorker DEF ResetSession, DeleteSession, OfJob, OfChange, IdsLeft, FreshId, Unlisted
  <2>3. CASE ResetSession(j) \/ DeleteSession(j)
    <3>1. Reset => cur' \in AppIds /\ ws' \in Workspaces /\ trace' \in MessageNos
      BY <2>1, <2>2, <2>3 DEF Reset
    <3>2. Reset \/ UNCHANGED session
      BY <2>3 DEF ResetSession, DeleteSession
    <3>3. UNCHANGED <<up, busy, cancel, pinning, listed, pressed>>
      BY <2>3 DEF ResetSession, DeleteSession
    <3> QED BY <3>1, <3>2, <3>3 DEF session
  <2>4. CASE LoadSession(j)
    BY <2>1, <2>4 DEF LoadSession, session
  <2>5. CASE TurnRecords(j) \/ UnlinkSession(j) \/ ImportSession(j)
    BY <2>5 DEF TurnRecords, UnlinkSession, ImportSession, session
  <2> QED BY <1>2, <2>3, <2>4, <2>5
<1>3. ASSUME NEW j \in jobs, JobDies(j)
      PROVE  /\ AppTypeOK' /\ up' \in BOOLEAN /\ busy' \in BOOLEAN
             /\ cancel' \in [turn : MessageNos, set : BOOLEAN] /\ pressed' \in Presses
  <2>1. [turn |-> 0, set |-> FALSE] \in [turn : MessageNos, set : BOOLEAN] /\ 0 \in MessageNos
    BY DEF MessageNos
  <2> QED BY <1>3, <2>1 DEF JobDies, Presses
<1>4. CASE StartApp
  <2>1. FreshId \in AppIds
    BY <1>4, FreshIds DEF StartApp, Dead
  <2> QED BY <1>4, <2>1 DEF StartApp, Take
<1>5. CASE \/ Submit \/ Escape \/ Reply \/ NewSession \/ OpenSessions \/ PickSession \/ PickDelete
           \/ ConfirmDelete \/ OpenImport \/ PickImport
  BY <1>5 DEF Submit, Escape, Reply, NewSession, OpenSessions, PickSession, PickDelete,
              ConfirmDelete, OpenImport, PickImport, Take, session, Presses
<1>6. CASE \/ Dismiss \/ OpenScreen \/ SetWorkspace \/ RenameSession \/ Close
           \/ PickTask \/ ListModels \/ PickPin \/ ApplyPin
  BY <1>6 DEF Dismiss, OpenScreen, SetWorkspace, RenameSession, Close, PickTask, ListModels,
              PickPin, ApplyPin, session
<1> QED BY <1>1, <1>2, <1>3, <1>4, <1>5, <1>6 DEF AppNext

LEMMA AppTypesKept ==
  ASSUME AppInd, AppNext
  PROVE  AppTypes'
BY JobsTyped, ScreensTyped, ShownTyped, RestTyped DEF AppInd, AppTypes

-----------------------------------------------------------------------------
(* How what was said has ended *)

LEMMA SameEnds ==
  ASSUME UNCHANGED shown, NEW n
  PROVE  (NoEnd(n)' <=> NoEnd(n)) /\ (Answered(n)' <=> Answered(n)) /\ (Ended(n)' <=> Ended(n))
BY DEF NoEnd, Answered, Ended, OneEnd, TwoEnds, IsEnd

LEMMA KeptEnds ==
  ASSUME NEW n, DOMAIN shown \subseteq DOMAIN shown',
         \A i \in DOMAIN shown : IsEnd(i, n) => shown'[i] = shown[i],
         \A i \in DOMAIN shown' : IsEnd(i, n)' => IsEnd(i, n)
  PROVE  (NoEnd(n) => NoEnd(n)') /\ (Answered(n) => Answered(n)') /\ (Ended(n) => Ended(n)')
<1>1. NoEnd(n) => NoEnd(n)'
  BY DEF NoEnd, IsEnd
<1>2. ASSUME NEW i \in DOMAIN shown, OneEnd(i, n)
      PROVE  i \in DOMAIN shown' /\ shown'[i] = shown[i] /\ OneEnd(i, n)'
  BY <1>2 DEF OneEnd, IsEnd
<1>3. TwoEnds(n) => TwoEnds(n)'
  <2> SUFFICES ASSUME TwoEnds(n) PROVE TwoEnds(n)' OBVIOUS
  <2>1. PICK i, k \in DOMAIN shown :
          /\ IsEnd(i, n) /\ shown[i][1] \in Answers /\ IsEnd(k, n) /\ shown[k][1] = "error"
          /\ \A m \in DOMAIN shown : IsEnd(m, n) => m \in {i, k}
    BY DEF TwoEnds
  <2>2. /\ i \in DOMAIN shown' /\ k \in DOMAIN shown'
        /\ IsEnd(i, n)' /\ shown'[i][1] \in Answers /\ IsEnd(k, n)' /\ shown'[k][1] = "error"
    BY <2>1 DEF IsEnd
  <2>3. \A m \in DOMAIN shown' : IsEnd(m, n)' => m \in {i, k}
    BY <2>1 DEF IsEnd
  <2> QED BY <2>2, <2>3 DEF TwoEnds
<1> QED BY <1>1, <1>2, <1>3 DEF Answered, Ended

LEMMA AppendedEnds ==
  ASSUME shown \in Seq(Blocks), NEW b \in Blocks, shown' = Append(shown, b), NEW n,
         NEW l, l = Len(shown) + 1
  PROVE  /\ b[2] # n \/ b[1] \notin EndMarks =>
              (NoEnd(n) => NoEnd(n)') /\ (Answered(n) => Answered(n)') /\ (Ended(n) => Ended(n)')
         /\ b[2] = n /\ b[1] \in EndMarks /\ NoEnd(n) =>
              OneEnd(l, n)' /\ (b[1] \in Answers => Answered(n)') /\ Ended(n)'
         /\ b[2] = n /\ b[1] = "error" /\ Answered(n) => Ended(n)'
<1>1. /\ Len(shown) \in Nat /\ DOMAIN shown = 1..Len(shown) /\ DOMAIN shown' = 1..(Len(shown) + 1)
      /\ \A i \in DOMAIN shown : shown'[i] = shown[i]
      /\ shown'[l] = b
  BY Appended
<1>2. DOMAIN shown \subseteq DOMAIN shown'
  BY <1>1
<1>3. CASE b[2] # n \/ b[1] \notin EndMarks
  <2>1. \A i \in DOMAIN shown' : IsEnd(i, n)' => IsEnd(i, n)
    BY <1>1, <1>3 DEF IsEnd
  <2>2. (NoEnd(n) => NoEnd(n)') /\ (Answered(n) => Answered(n)') /\ (Ended(n) => Ended(n)')
    BY <1>1, <1>2, <2>1, KeptEnds
  <2> QED BY <1>3, <2>2 DEF EndMarks
<1>4. CASE b[2] = n /\ b[1] \in EndMarks
  <2>1. \A i \in DOMAIN shown' : IsEnd(i, n)' <=> IsEnd(i, n) \/ i = l
    BY <1>1, <1>4 DEF IsEnd
  <2>2. NoEnd(n) => l \in DOMAIN shown' /\ OneEnd(l, n)' /\ (b[1] \in Answers => Answered(n)')
    <3>1. l \in DOMAIN shown' /\ shown'[l] = b
      BY <1>1
    <3>2. NoEnd(n) => OneEnd(l, n)'
      BY <2>1, <3>1 DEF NoEnd, OneEnd, IsEnd
    <3> QED BY <3>1, <3>2 DEF Answered
  <2>3. b[1] = "error" /\ Answered(n) => TwoEnds(n)'
    <3> SUFFICES ASSUME b[1] = "error", Answered(n) PROVE TwoEnds(n)' OBVIOUS
    <3>1. PICK i \in DOMAIN shown : OneEnd(i, n) /\ shown[i][1] \in Answers
      BY DEF Answered
    <3>2. i \in DOMAIN shown' /\ l \in DOMAIN shown'
      BY <1>1
    <3>3. /\ IsEnd(i, n)' /\ shown'[i][1] \in Answers /\ IsEnd(l, n)'
          /\ shown'[l][1] = "error"
      BY <1>1, <2>1, <3>1, <3>2 DEF OneEnd
    <3>4. \A m \in DOMAIN shown' : IsEnd(m, n)' => m \in {i, l}
      BY <1>1, <2>1, <3>1 DEF OneEnd, IsEnd
    <3> QED BY <3>2, <3>3, <3>4 DEF TwoEnds
  <2>4. /\ NoEnd(n) => OneEnd(l, n)' /\ (b[1] \in Answers => Answered(n)') /\ Ended(n)'
        /\ b[1] = "error" /\ Answered(n) => Ended(n)'
    BY <2>2, <2>3 DEF Ended
  <2> QED BY <1>4, <2>4
<1> QED BY <1>3, <1>4

LEMMA AppendedKeeps ==
  ASSUME shown \in Seq(Blocks), NEW what \in Marks, NEW m \in MessageNos,
         shown' = Append(shown, <<what, m>>), NEW n, m # n \/ what \notin EndMarks
  PROVE  (NoEnd(n) => NoEnd(n)') /\ (Answered(n) => Answered(n)') /\ (Ended(n) => Ended(n)')
<1>1. PICK l : l = Len(shown) + 1
  OBVIOUS
<1>2. <<what, m>> \in Blocks /\ <<what, m>>[1] = what /\ <<what, m>>[2] = m
  BY DEF Blocks
<1> QED BY <1>1, <1>2, AppendedEnds

LEMMA SettledStep ==
  ASSUME AppInd, NEW j \in jobs, TurnSettles(j)
  PROVE  \E p \in DOMAIN shown' :
           /\ DOMAIN shown \subseteq DOMAIN shown' /\ DOMAIN shown' \subseteq DOMAIN shown \cup {p}
           /\ \A i \in DOMAIN shown : i # p => shown'[i] = shown[i]
           /\ shown'[p] = <<j.outcome, sent>>
           /\ p \in DOMAIN shown => shown[p] = <<"partial", sent>>
           /\ p \notin DOMAIN shown => \A i \in DOMAIN shown : i < p /\ shown[i] # <<"partial", sent>>
<1>0. /\ shown \in Seq(Blocks) /\ DOMAIN shown = 1..Len(shown) /\ Len(shown) \in Nat
      /\ j.turn = sent /\ j.outcome \in Answers /\ NoEnd(sent) /\ InOrder
  BY OneWorker DEF AppInd, AppTypes, OfJob, OfTurn, TurnSettles
<1>1. CASE Streaming(j)
  <2>1. PICK p \in DOMAIN shown : shown[p] = <<"partial", sent>>
    BY <1>0, <1>1 DEF Streaming
  <2>2. \A i \in DOMAIN shown : shown[i] = <<"partial", sent>> => i = p
    <3> SUFFICES ASSUME NEW i \in DOMAIN shown, shown[i] = <<"partial", sent>> PROVE i = p
      OBVIOUS
    <3>1. /\ shown[i][1] = "partial" /\ shown[p][1] = "partial"
          /\ shown[i][2] = sent /\ shown[p][2] = sent
      BY <2>1
    <3> QED BY <1>0, <3>1 DEF InOrder
  <2>3. shown' = [i \in DOMAIN shown |-> IF shown[i] = <<"partial", sent>>
                                         THEN <<j.outcome, sent>> ELSE shown[i]]
    BY <1>0, <1>1 DEF TurnSettles
  <2>4. /\ DOMAIN shown' = DOMAIN shown /\ shown'[p] = <<j.outcome, sent>>
        /\ \A i \in DOMAIN shown : i # p => shown'[i] = shown[i]
    BY <2>1, <2>2, <2>3
  <2> QED BY <2>1, <2>4
<1>2. CASE ~Streaming(j)
  <2>1. <<j.outcome, sent>> \in Blocks
    BY <1>0 DEF AppInd, AppTypes, Blocks, Marks, EndMarks
  <2>2. shown' = Append(shown, <<j.outcome, sent>>)
    BY <1>0, <1>2 DEF TurnSettles
  <2>3. /\ DOMAIN shown' = 1..(Len(shown) + 1) /\ \A i \in DOMAIN shown : shown'[i] = shown[i]
        /\ shown'[Len(shown) + 1] = <<j.outcome, sent>>
    BY <1>0, <2>1, <2>2, Appended
  <2>4. \A i \in DOMAIN shown : shown[i] # <<"partial", sent>>
    BY <1>0, <1>2 DEF Streaming
  <2>5. /\ Len(shown) + 1 \in DOMAIN shown' /\ Len(shown) + 1 \notin DOMAIN shown
        /\ \A i \in DOMAIN shown : i < Len(shown) + 1
        /\ DOMAIN shown \subseteq DOMAIN shown'
        /\ DOMAIN shown' \subseteq DOMAIN shown \cup {Len(shown) + 1}
    BY <1>0, <2>3
  <2> QED BY <2>3, <2>4, <2>5
<1> QED BY <1>1, <1>2

LEMMA SettledEnds ==
  ASSUME AppInd, NEW j \in jobs, TurnSettles(j)
  PROVE  /\ Answered(sent)'
         /\ \A n : n # sent => (Ended(n) => Ended(n)')
<1>1. PICK p \in DOMAIN shown' :
           /\ DOMAIN shown \subseteq DOMAIN shown' /\ DOMAIN shown' \subseteq DOMAIN shown \cup {p}
           /\ \A i \in DOMAIN shown : i # p => shown'[i] = shown[i]
           /\ shown'[p] = <<j.outcome, sent>>
           /\ p \in DOMAIN shown => shown[p] = <<"partial", sent>>
  BY SettledStep
<1>2. sent' = sent /\ j.outcome \in Answers /\ NoEnd(sent)
  BY OneWorker DEF AppInd, OfJob, OfTurn, TurnSettles
<1>3. Answered(sent)'
  <2>1. IsEnd(p, sent)'
    BY <1>1, <1>2 DEF IsEnd, EndMarks
  <2>2. \A k \in DOMAIN shown' : IsEnd(k, sent)' => k = p
    BY <1>1, <1>2 DEF NoEnd, IsEnd
  <2> QED BY <1>1, <1>2, <2>1, <2>2 DEF Answered, OneEnd
<1>4. ASSUME NEW n, n # sent
      PROVE  Ended(n) => Ended(n)'
  <2>1. \A i \in DOMAIN shown : IsEnd(i, n) => shown'[i] = shown[i]
    BY <1>1, <1>4 DEF IsEnd
  <2>2. \A i \in DOMAIN shown' : IsEnd(i, n)' => IsEnd(i, n)
    BY <1>1, <1>4 DEF IsEnd
  <2> QED BY <1>1, <2>1, <2>2, KeptEnds
<1> QED BY <1>3, <1>4

-----------------------------------------------------------------------------
(* The one worker and what it has come to *)

LEMMA SameWorker ==
  ASSUME Holder, UNCHANGED <<up, busy, jobs, cur, trace, shown, sent>>,
         cancel'.turn = cancel.turn, jobs = {} \/ ws' = ws, IdsLeft => IdsLeft'
  PROVE  Holder'
<1>1. CASE jobs = {}
  BY <1>1 DEF Holder
<1>2. CASE jobs # {}
  <2>1. PICK j \in jobs : jobs = {j} /\ up /\ busy /\ OfJob(j)
    BY <1>2, OneWorker
  <2>2. OfTurn(j) => OfTurn(j)'
    BY <2>1, SameEnds DEF OfTurn
  <2>3. OfChange(j) => OfChange(j)'
    BY <2>1 DEF OfChange
  <2>4. OfJob(j)'
    BY <2>1, <2>2, <2>3 DEF OfJob
  <2> QED BY <2>1, <2>4 DEF Holder
<1> QED BY <1>1, <1>2

LEMMA NextWorker ==
  ASSUME Holder, NEW j \in jobs, NEW k, Becomes(j, k), UNCHANGED <<up, busy>>, OfJob(k)'
  PROVE  Holder'
BY OneWorker DEF Holder

LEMMA NewWorker ==
  ASSUME jobs = {}, up', NEW k, Take(k), OfJob(k)'
  PROVE  Holder'
BY DEF Holder, Take

LEMMA WorkersStart ==
  ASSUME AppInd, Submit \/ NewSession \/ PickSession \/ ConfirmDelete \/ PickImport \/ StartApp
  PROVE  Holder'
<1>0. AppTypes /\ Holder /\ Chosen /\ Stopping /\ InOrder
  BY DEF AppInd
<1>1. CASE Submit
  <2>1. PICK k : k = [Job("turn", cur) EXCEPT !.turn = sent + 1]
    OBVIOUS
  <2>2. /\ k.kind = "turn" /\ k.at = "start" /\ k.turn = sent + 1 /\ k.id = cur /\ k.late = "no"
    BY <2>1 DEF Job
  <2>3. /\ sent \in Nat /\ shown \in Seq(Blocks) /\ sent' = sent + 1 /\ UNCHANGED <<cur, cancel, up>>
        /\ up /\ jobs = {} /\ shown' = Append(shown, <<"you", sent + 1>>)
    BY <1>0, <1>1 DEF Submit, AppTypes, MessageNos, Holder, session, Free
  <2>4. Take(k)
    BY <1>1, <2>1 DEF Submit, Take
  <2>5. NoEnd(sent)'
    <3>1. PICK n : n = sent + 1
      OBVIOUS
    <3>2. n \in MessageNos /\ "you" \in Marks /\ "you" \notin EndMarks
      BY <1>0, <1>1, <3>1 DEF Submit, Marks, EndMarks, Answers, AppTypes, MessageNos
    <3>3. NoEnd(n)
      BY <1>0, <2>3, <3>1 DEF InOrder, NoEnd, IsEnd
    <3>4. NoEnd(n)'
      BY <2>3, <3>1, <3>2, <3>3, AppendedKeeps
    <3>5. sent' = n
      BY <2>3, <3>1
    <3> QED BY <3>4, <3>5 DEF NoEnd, IsEnd
  <2>6. cancel'.turn # sent'
    BY <1>0, <2>3 DEF Stopping, AppTypes, MessageNos
  <2>7. OfTurn(k)'
    BY <2>2, <2>3, <2>5, <2>6 DEF OfTurn
  <2> QED BY <2>2, <2>3, <2>4, <2>7, NewWorker DEF OfJob
<1>2. ASSUME NEW k, Take(k), jobs = {}, up', k.kind # "turn", k.turn = 0, k.late = "no", k.at = "start",
             k.kind \in {"reset", "delete"} => IdsLeft'
      PROVE  Holder'
  BY <1>2, NewWorker DEF OfJob, OfChange
<1>3. CASE NewSession
  <2>1. PICK k : k = Job("reset", cur)
    OBVIOUS
  <2> QED BY <1>0, <1>2, <1>3, <2>1 DEF NewSession, Job, Holder, Free, IdsLeft, Unlisted, session
<1>4. CASE PickSession
  <2>1. jobs = {} /\ ~busy /\ up
    BY <1>0, <1>4, TopTaken DEF PickSession, On, Top, Chosen, Choosers, Holder
  <2>2. UNCHANGED <<busy, jobs>> \/ \E i \in listed : Take(Job("load", i))
    BY <1>4 DEF PickSession
  <2>3. \A i \in listed : /\ Job("load", i).kind = "load" /\ Job("load", i).turn = 0
                          /\ Job("load", i).late = "no" /\ Job("load", i).at = "start"
    BY DEF Job
  <2> QED BY <1>2, <1>4, <2>1, <2>2, <2>3 DEF PickSession, Holder
<1>5. CASE ConfirmDelete
  <2>1. jobs = {} /\ up' /\ IdsLeft'
    BY <1>0, <1>5, TopTaken DEF ConfirmDelete, On, Top, Chosen, Choosers, IdsLeft, Unlisted, session
  <2>2. PICK k : k = Job("delete", Top.id) /\ Take(k)
    BY <1>5 DEF ConfirmDelete
  <2> QED BY <1>2, <2>1, <2>2 DEF Job
<1>6. CASE PickImport
  <2>1. jobs = {} /\ up'
    BY <1>0, <1>6, TopTaken DEF PickImport, On, Top, Chosen, Choosers
  <2> QED BY <1>2, <1>6, <2>1 DEF PickImport, Job
<1>7. CASE StartApp
  <2>1. jobs = {} /\ ~busy /\ up'
    BY <1>0, <1>7 DEF StartApp, Holder
  <2>2. ASSUME NEW i \in listed, NEW keep \in BOOLEAN, Take([Job("load", i) EXCEPT !.keep = keep])
        PROVE  Holder'
    <3>1. PICK k : k = [Job("load", i) EXCEPT !.keep = keep]
      OBVIOUS
    <3> QED BY <1>2, <2>1, <2>2, <3>1 DEF Job
  <2> QED BY <1>7, <2>1, <2>2 DEF StartApp, Holder
<1> QED BY <1>1, <1>3, <1>4, <1>5, <1>6, <1>7

LEMMA TurnsWork ==
  ASSUME AppInd, NEW j \in jobs,
         \/ TurnBegins(j) \/ TurnCalls(j) \/ TurnStreams(j) \/ TurnReturns(j) \/ TurnAsks(j)
         \/ TurnResumes(j) \/ TurnFinals(j) \/ TurnSettles(j) \/ TurnRecords(j) \/ TurnFails(j)
  PROVE  Holder'
<1>0. /\ j \in JobRecords /\ j.kind = "turn" /\ jobs = {j} /\ up /\ busy /\ OfTurn(j)
      /\ UNCHANGED <<up, busy, cur, ws, sent>>
      /\ AppTypes /\ Holder /\ Stopping /\ InOrder /\ shown \in Seq(Blocks) /\ sent \in MessageNos
  BY OneWorker DEF AppInd, AppTypes, OfJob, session, TurnBegins, TurnCalls, TurnStreams, TurnReturns,
     TurnAsks, TurnResumes, TurnFinals, TurnSettles, TurnRecords, TurnFails
<1>1. ASSUME NEW k, Becomes(j, k), k.kind = "turn", OfTurn(k)'
      PROVE  Holder'
  BY <1>0, <1>1, NextWorker DEF OfJob
<1>2. ASSUME UNCHANGED shown
      PROVE  /\ NoEnd(sent)' <=> NoEnd(sent)
             /\ Answered(sent)' <=> Answered(sent)
             /\ Ended(sent)' <=> Ended(sent)
  BY <1>0, <1>2, SameEnds DEF NoEnd, Answered, Ended, OneEnd, TwoEnds, IsEnd
<1>3. CASE TurnBegins(j)
  <2>1. PICK k : k = [j EXCEPT !.at = "running", !.ws = ws]
    OBVIOUS
  <2>2. /\ k.kind = "turn" /\ k.at = "running" /\ k.turn = j.turn /\ k.id = j.id /\ k.late = j.late
        /\ k.ws = ws
    BY <1>0, <2>1 DEF JobRecords
  <2>3. OfTurn(k)'
    BY <1>0, <1>2, <1>3, <2>2 DEF OfTurn, TurnBegins
  <2> QED BY <1>1, <1>3, <2>1, <2>2, <2>3 DEF TurnBegins
<1>4. CASE TurnCalls(j)
  <2>1. CASE cancel = [turn |-> j.turn, set |-> TRUE]
    <3>1. PICK k : k = [j EXCEPT !.at = "failing", !.outcome = "stopped"]
      OBVIOUS
    <3>2. /\ k.kind = "turn" /\ k.at = "failing" /\ k.turn = j.turn /\ k.id = j.id /\ k.late = j.late
          /\ k.ws = j.ws /\ k.outcome = "stopped"
      BY <1>0, <3>1 DEF JobRecords
    <3>3. OfTurn(k)'
      BY <1>0, <1>2, <1>4, <3>2 DEF OfTurn, TurnCalls
    <3> QED BY <1>1, <1>4, <2>1, <3>1, <3>2, <3>3 DEF TurnCalls
  <2>2. CASE cancel # [turn |-> j.turn, set |-> TRUE]
    <3>1. PICK k : k = [j EXCEPT !.at = "calling", !.late = pressed]
      OBVIOUS
    <3>2. /\ k.kind = "turn" /\ k.at = "calling" /\ k.turn = j.turn /\ k.id = j.id
          /\ k.late = pressed /\ k.ws = j.ws
      BY <1>0, <3>1 DEF JobRecords
    <3>3. pressed # "heard"
      BY <1>0, <2>2 DEF Stopping, OfTurn
    <3>4. OfTurn(k)'
      BY <1>0, <1>2, <1>4, <3>2, <3>3 DEF OfTurn, TurnCalls
    <3> QED BY <1>1, <1>4, <2>2, <3>1, <3>2, <3>4 DEF TurnCalls
  <2> QED BY <2>1, <2>2
<1>5. CASE TurnReturns(j)
  <2>1. ASSUME NEW k, Becomes(j, k), k = [j EXCEPT !.at = "running"]
        PROVE  Holder'
    <3>1. /\ k.kind = "turn" /\ k.at = "running" /\ k.turn = j.turn /\ k.id = j.id /\ k.late = j.late
          /\ k.ws = j.ws
      BY <1>0, <2>1 DEF JobRecords
    <3>2. OfTurn(k)'
      BY <1>0, <1>2, <1>5, <3>1 DEF OfTurn, TurnReturns
    <3> QED BY <1>1, <2>1, <3>1, <3>2
  <2>2. ASSUME NEW k, Becomes(j, k), k = [j EXCEPT !.at = "failing", !.outcome = "error"]
        PROVE  Holder'
    <3>1. /\ k.kind = "turn" /\ k.at = "failing" /\ k.turn = j.turn /\ k.id = j.id /\ k.late = j.late
          /\ k.ws = j.ws /\ k.outcome = "error"
      BY <1>0, <2>2 DEF JobRecords
    <3>2. OfTurn(k)'
      BY <1>0, <1>2, <1>5, <3>1 DEF OfTurn, TurnReturns
    <3> QED BY <1>1, <2>2, <3>1, <3>2
  <2> QED BY <1>5, <2>1, <2>2 DEF TurnReturns, Moves
<1>6. CASE TurnAsks(j)
  <2>1. PICK k : k = [j EXCEPT !.at = "asking", !.asks = @ + 1]
    OBVIOUS
  <2>2. /\ k.kind = "turn" /\ k.at = "asking" /\ k.turn = j.turn /\ k.id = j.id /\ k.late = j.late
        /\ k.ws = j.ws
    BY <1>0, <2>1 DEF JobRecords
  <2>3. OfTurn(k)'
    BY <1>0, <1>2, <1>6, <2>2 DEF OfTurn, TurnAsks
  <2> QED BY <1>1, <1>6, <2>1, <2>2, <2>3 DEF TurnAsks
<1>7. CASE TurnFinals(j)
  <2>1. PICK o \in Answers : Becomes(j, [j EXCEPT !.at = "final", !.outcome = o])
    BY <1>7 DEF TurnFinals
  <2>2. PICK k : k = [j EXCEPT !.at = "final", !.outcome = o]
    OBVIOUS
  <2>3. /\ k.kind = "turn" /\ k.at = "final" /\ k.turn = j.turn /\ k.id = j.id /\ k.late = j.late
        /\ k.ws = j.ws /\ k.outcome = o
    BY <1>0, <2>2 DEF JobRecords
  <2>4. OfTurn(k)'
    BY <1>0, <1>2, <1>7, <2>3 DEF OfTurn, TurnFinals
  <2> QED BY <1>1, <2>1, <2>2, <2>3, <2>4
<1>8. CASE TurnRecords(j)
  <2>1. ASSUME NEW k, Becomes(j, k), k = [j EXCEPT !.at = "closing"]
        PROVE  Holder'
    <3>1. /\ k.kind = "turn" /\ k.at = "closing" /\ k.turn = j.turn /\ k.id = j.id /\ k.late = j.late
      BY <1>0, <2>1 DEF JobRecords
    <3>2. Answered(sent) => Ended(sent)
      BY DEF Answered, Ended
    <3>3. OfTurn(k)'
      BY <1>0, <1>2, <1>8, <3>1, <3>2 DEF OfTurn, TurnRecords
    <3> QED BY <1>1, <2>1, <3>1, <3>3
  <2>2. ASSUME NEW k, Becomes(j, k), k = [j EXCEPT !.at = "failing", !.outcome = "error"]
        PROVE  Holder'
    <3>1. /\ k.kind = "turn" /\ k.at = "failing" /\ k.turn = j.turn /\ k.id = j.id /\ k.late = j.late
          /\ k.ws = j.ws /\ k.outcome = "error"
      BY <1>0, <2>2 DEF JobRecords
    <3>2. OfTurn(k)'
      BY <1>0, <1>2, <1>8, <3>1 DEF OfTurn, TurnRecords
    <3> QED BY <1>1, <2>2, <3>1, <3>2
  <2> QED BY <1>8, <2>1, <2>2 DEF TurnRecords, Moves
<1>9. CASE TurnStreams(j)
  <2>1. (NoEnd(sent) => NoEnd(sent)')
    <3>1. shown' = Append(shown, <<"partial", sent>>) /\ "partial" \in Marks /\ "partial" \notin EndMarks
      BY <1>0, <1>9 DEF TurnStreams, OfTurn, Marks, EndMarks, Answers
    <3>2. \A n : n = sent => (NoEnd(n) => NoEnd(n)')
      BY <1>0, <3>1, AppendedKeeps
    <3> QED BY <1>0, <3>2 DEF NoEnd, IsEnd
  <2>2. OfTurn(j)' /\ jobs' = {j}
    BY <1>0, <1>9, <2>1 DEF OfTurn, TurnStreams
  <2> QED BY <1>0, <2>2 DEF Holder, OfJob
<1>10. CASE TurnResumes(j)
  <2>1. (NoEnd(sent) => NoEnd(sent)')
    <3>1. shown' = Append(shown, <<"reply", sent>>) /\ "reply" \in Marks /\ "reply" \notin EndMarks
      BY <1>0, <1>10 DEF TurnResumes, OfTurn, Marks, EndMarks, Answers
    <3>2. \A n : n = sent => (NoEnd(n) => NoEnd(n)')
      BY <1>0, <3>1, AppendedKeeps
    <3> QED BY <1>0, <3>2 DEF NoEnd, IsEnd
  <2>2. PICK k : k = [j EXCEPT !.at = "running", !.ws = ws]
    OBVIOUS
  <2>3. /\ k.kind = "turn" /\ k.at = "running" /\ k.turn = j.turn /\ k.id = j.id /\ k.late = j.late
        /\ k.ws = ws
    BY <1>0, <2>2 DEF JobRecords
  <2>4. OfTurn(k)'
    BY <1>0, <1>10, <2>1, <2>3 DEF OfTurn, TurnResumes
  <2> QED BY <1>1, <1>10, <2>2, <2>3, <2>4 DEF TurnResumes
<1>11. CASE TurnSettles(j)
  <2>1. PICK k : k = [j EXCEPT !.at = "settled"]
    OBVIOUS
  <2>2. /\ k.kind = "turn" /\ k.at = "settled" /\ k.turn = j.turn /\ k.id = j.id /\ k.late = j.late
        /\ k.ws = j.ws
    BY <1>0, <2>1 DEF JobRecords
  <2>3. OfTurn(k)'
    BY <1>0, <1>11, <2>2, SettledEnds DEF OfTurn, TurnSettles
  <2> QED BY <1>1, <1>11, <2>1, <2>2, <2>3 DEF TurnSettles, Moves
<1>12. CASE TurnFails(j)
  <2>1. PICK k : k = [j EXCEPT !.at = "closing"]
    OBVIOUS
  <2>2. /\ k.kind = "turn" /\ k.at = "closing" /\ k.turn = j.turn /\ k.id = j.id /\ k.late = j.late
    BY <1>0, <2>1 DEF JobRecords
  <2>3. Ended(sent)'
    <3>1. PICK n, l : n = sent /\ l = Len(shown) + 1
      OBVIOUS
    <3>2. /\ shown' = Append(shown, <<j.outcome, n>>) /\ <<j.outcome, n>> \in Blocks
          /\ j.outcome \in EndMarks
          /\ NoEnd(n) \/ (j.outcome = "error" /\ Answered(n))
      BY <1>0, <1>12, <3>1 DEF TurnFails, OfTurn, Blocks, Marks, EndMarks
    <3>3. Ended(n)'
      BY <1>0, <3>1, <3>2, AppendedEnds
    <3> QED BY <1>0, <3>1, <3>3 DEF Ended, OneEnd, TwoEnds, IsEnd
  <2>4. OfTurn(k)'
    BY <1>0, <1>12, <2>2, <2>3 DEF OfTurn, TurnFails
  <2> QED BY <1>1, <1>12, <2>1, <2>2, <2>4 DEF TurnFails, Moves
<1> QED BY <1>3, <1>4, <1>5, <1>6, <1>7, <1>8, <1>9, <1>10, <1>11, <1>12

LEMMA ChangesWork ==
  ASSUME AppInd, NEW j \in jobs,
         \/ Release(j) \/ ResetSession(j) \/ LoadSession(j) \/ DeleteSession(j) \/ UnlinkSession(j)
         \/ ImportSession(j) \/ JobDies(j)
  PROVE  Holder'
<1>0. /\ j \in JobRecords /\ jobs = {j} /\ up /\ busy /\ OfJob(j) /\ Holder
  BY OneWorker DEF AppInd, AppTypes
<1>1. CASE Release(j) \/ JobDies(j)
  BY <1>0, <1>1 DEF Release, JobDies, Holder
<1>2. ASSUME NEW k, Becomes(j, k), UNCHANGED <<up, busy>>, k.kind # "turn", k.turn = 0, k.late = "no",
             k.at \in {"start", "closing", "unlink"},
             k.at = "start" => k.kind = "load",
             k.at = "unlink" => k.kind = "delete" /\ k.id # cur'
      PROVE  Holder'
  <2>1. OfJob(k)'
    BY <1>2 DEF OfJob, OfChange
  <2> QED BY <1>0, <1>2, <2>1, NextWorker
<1>3. CASE ResetSession(j) \/ LoadSession(j) \/ UnlinkSession(j)
  <2>1. PICK k : k = [j EXCEPT !.at = "closing"]
    OBVIOUS
  <2>2. j.kind # "turn" /\ OfChange(j) /\ Becomes(j, k) /\ UNCHANGED <<up, busy>>
    BY <1>0, <1>3, <2>1 DEF OfJob, ResetSession, LoadSession, UnlinkSession, Moves
  <2>3. k.kind = j.kind /\ k.at = "closing" /\ k.turn = 0 /\ k.late = "no"
    BY <1>0, <2>1, <2>2 DEF JobRecords, OfChange
  <2> QED BY <1>2, <2>2, <2>3
<1>4. CASE DeleteSession(j)
  <2>1. PICK k : k = [j EXCEPT !.at = "unlink"]
    OBVIOUS
  <2>2. j.kind = "delete" /\ OfChange(j) /\ Becomes(j, k) /\ UNCHANGED <<up, busy>>
    BY <1>0, <1>4, <2>1 DEF OfJob, DeleteSession, Moves
  <2>3. k.kind = j.kind /\ k.at = "unlink" /\ k.turn = 0 /\ k.late = "no" /\ k.id = j.id
    BY <1>0, <2>1, <2>2 DEF JobRecords, OfChange
  <2>4. IdsLeft
    BY <1>4, <2>2 DEF OfChange, DeleteSession
  <2>5. k.id # cur'
    BY <1>0, <1>4, <2>3, <2>4, FreshIds DEF DeleteSession, Reset, session
  <2> QED BY <1>2, <2>2, <2>3, <2>5
<1>5. CASE ImportSession(j)
  <2>1. CASE Becomes(j, [j EXCEPT !.at = "closing"])
    <3>1. PICK k : k = [j EXCEPT !.at = "closing"]
      OBVIOUS
    <3>2. j.kind = "import" /\ OfChange(j) /\ Becomes(j, k) /\ UNCHANGED <<up, busy>>
      BY <1>0, <1>5, <2>1, <3>1 DEF OfJob, ImportSession
    <3>3. k.kind = j.kind /\ k.at = "closing" /\ k.turn = 0 /\ k.late = "no"
      BY <1>0, <3>1, <3>2 DEF JobRecords, OfChange
    <3> QED BY <1>2, <3>2, <3>3
  <2>2. CASE Becomes(j, Job("load", Brought))
    <3>1. PICK k : k = Job("load", Brought)
      OBVIOUS
    <3> QED BY <1>2, <1>5, <2>2, <3>1 DEF Job, ImportSession
  <2> QED BY <1>5, <2>1, <2>2 DEF ImportSession, Moves
<1> QED BY <1>1, <1>3, <1>4, <1>5

LEMMA HolderKept ==
  ASSUME AppInd, AppNext
  PROVE  Holder'
<1>0. Holder /\ Chosen /\ AppTypes
  BY DEF AppInd
<1>1. CASE Reply
  <2>1. PICK j \in jobs : j.kind = "turn" /\ j.at = "asking" /\ Moves(j, "answered")
    BY <1>1 DEF Reply, Holds
  <2>2. PICK k : k = [j EXCEPT !.at = "answered"]
    OBVIOUS
  <2>3. /\ k.kind = "turn" /\ k.at = "answered" /\ k.turn = j.turn /\ k.id = j.id /\ k.late = j.late
        /\ k.ws = j.ws /\ OfTurn(j)
    BY <1>0, <2>1, <2>2, OneWorker DEF AppTypes, JobRecords, OfJob
  <2>4. UNCHANGED <<cur, ws, sent, up, busy, shown>>
    BY <1>1 DEF Reply, session
  <2>5. NoEnd(sent) => NoEnd(sent)'
    BY <2>4 DEF NoEnd, IsEnd
  <2>6. OfTurn(k)'
    BY <2>1, <2>3, <2>4, <2>5 DEF OfTurn
  <2> QED BY <1>0, <2>1, <2>2, <2>3, <2>4, <2>6, NextWorker DEF Moves, OfJob
<1>2. CASE Escape \/ OpenSessions \/ PickDelete \/ OpenImport \/ PickTask \/ ListModels \/ PickPin \/ ApplyPin
  BY <1>0, <1>2, SameWorker
  DEF Escape, OpenSessions, PickDelete, OpenImport, PickTask, ListModels, PickPin, ApplyPin, session,
      IdsLeft, Unlisted, AppTypes
<1>3. CASE Dismiss \/ OpenScreen \/ Close
  BY <1>0, <1>3, SameWorker DEF Dismiss, OpenScreen, Close, session, IdsLeft, Unlisted
<1>4. CASE RenameSession
  <2>1. IdsLeft => IdsLeft'
    BY <1>4 DEF RenameSession, session, IdsLeft, Unlisted
  <2> QED BY <1>0, <1>4, <2>1, SameWorker DEF RenameSession, session
<1>5. CASE SetWorkspace
  <2>1. jobs = {}
    BY <1>0, <1>5, TopTaken DEF SetWorkspace, On, Top, Chosen, Choosers
  <2> QED BY <1>0, <1>5, <2>1, SameWorker DEF SetWorkspace, IdsLeft, Unlisted
<1> QED BY <1>1, <1>2, <1>3, <1>4, <1>5, WorkersStart, TurnsWork, ChangesWork DEF AppNext

-----------------------------------------------------------------------------
(* Screens, questions and the stop *)

LEMMA RunsOrDied ==
  ASSUME AppInd, AppNext
  PROVE  up' \/ \E j \in jobs : JobDies(j)
<1>1. ASSUME NEW j \in jobs
      PROVE  up
  BY OneWorker DEF AppInd
<1>2. ASSUME NEW j \in jobs,
             \/ TurnBegins(j) \/ TurnCalls(j) \/ TurnStreams(j) \/ TurnReturns(j)
             \/ TurnAsks(j) \/ TurnResumes(j) \/ TurnFinals(j) \/ TurnSettles(j)
             \/ TurnRecords(j) \/ TurnFails(j) \/ Release(j)
             \/ ResetSession(j) \/ LoadSession(j) \/ DeleteSession(j) \/ UnlinkSession(j)
             \/ ImportSession(j)
      PROVE  up'
  <2>1. up
    BY <1>1
  <2>2. UNCHANGED up
    BY <1>2 DEF TurnBegins, TurnCalls, TurnStreams, TurnReturns, TurnAsks, TurnResumes,
       TurnFinals, TurnSettles, TurnRecords, TurnFails, Release, ResetSession, LoadSession,
       DeleteSession, UnlinkSession, ImportSession
  <2> QED BY <2>1, <2>2
<1>3. CASE \/ Submit \/ Escape \/ Reply \/ NewSession \/ OpenSessions \/ PickSession \/ PickDelete
           \/ ConfirmDelete \/ OpenImport \/ PickImport \/ StartApp
  BY <1>3 DEF Submit, Escape, Reply, NewSession, OpenSessions, PickSession, PickDelete,
     ConfirmDelete, OpenImport, PickImport, StartApp, Free, On
<1>4. CASE \/ Dismiss \/ OpenScreen \/ SetWorkspace \/ RenameSession \/ Close
           \/ PickTask \/ ListModels \/ PickPin \/ ApplyPin
  <2>1. UNCHANGED up
    BY <1>4 DEF Dismiss, OpenScreen, SetWorkspace, RenameSession, Close, PickTask, ListModels,
       PickPin, ApplyPin
  <2>2. up
    BY <1>4 DEF Dismiss, OpenScreen, SetWorkspace, RenameSession, Close, PickTask, ListModels,
       PickPin, ApplyPin, Free, On
  <2> QED BY <2>1, <2>2
<1> QED BY <1>2, <1>3, <1>4 DEF AppNext

LEMMA DeadKept ==
  ASSUME AppInd, AppNext
  PROVE  Dead'
BY RunsOrDied DEF Dead, JobDies, Unlisted

\* What a step that is not of a worker, or that starts one, leaves alone.
LEMMA WorkersAreNew ==
  ASSUME AppInd, AppNext, jobs = {}
  PROVE  /\ trace' = trace
         /\ jobs' = {} \/ screens' = <<>>
<1>0. AppTypes /\ Chosen /\ Dead
  BY DEF AppInd
<1>1. CASE PickSession \/ ConfirmDelete \/ PickImport
  <2>1. Top.kind \in Choosers /\ screens # <<>> /\ screens' = Below
    BY <1>1 DEF PickSession, ConfirmDelete, PickImport, On, Choosers
  <2>2. Len(screens) = 1
    BY <1>0, <2>1, TopTaken DEF Top, Chosen
  <2>3. screens' = <<>>
    BY <1>0, <2>1, <2>2, TopTaken DEF AppTypes
  <2> QED BY <1>1, <2>3 DEF PickSession, ConfirmDelete, PickImport, session
<1>2. CASE Submit \/ NewSession \/ StartApp
  BY <1>0, <1>2 DEF Submit, NewSession, StartApp, Free, session, Dead
<1>3. CASE \/ Escape \/ Reply \/ OpenSessions \/ PickDelete \/ OpenImport
           \/ Dismiss \/ OpenScreen \/ SetWorkspace \/ RenameSession \/ Close
           \/ PickTask \/ ListModels \/ PickPin \/ ApplyPin
  BY <1>3 DEF Escape, Reply, OpenSessions, PickDelete, OpenImport, Dismiss, OpenScreen, SetWorkspace,
     RenameSession, Close, PickTask, ListModels, PickPin, ApplyPin, session, Holds
<1> QED BY <1>1, <1>2, <1>3 DEF AppNext

LEMMA LastIsShown ==
  ASSUME AppInd, jobs = {}
  PROVE  trace \in {0, LastShown}
<1> DEFINE at == {i \in DOMAIN shown : shown[i][1] \in Answers}
<1>1. CASE trace # 0
  <2>1. PICK i \in DOMAIN shown : IsLast(i) /\ shown[i][2] = trace
    BY <1>1 DEF AppInd, Traced
  <2>2. i \in at /\ \A k \in at : k <= i
    BY <2>1 DEF IsLast
  <2>3. shown \in Seq(Blocks) /\ \A l \in at : l \in Nat
    BY DEF AppInd, AppTypes
  <2>4. (CHOOSE l \in at : \A k \in at : k <= l) = i
    BY <2>2, <2>3
  <2>5. LastShown = shown[CHOOSE l \in at : \A k \in at : k <= l][2]
    BY <2>2 DEF LastShown
  <2>6. LastShown = shown[i][2]
    BY <2>4, <2>5
  <2> QED BY <2>1, <2>6
<1> QED BY <1>1

LEMMA ChosenKept ==
  ASSUME AppInd, AppNext
  PROVE  Chosen'
<1>0. /\ AppTypes /\ Holder /\ Chosen /\ screens \in Seq(ScreenRecords)
      /\ DOMAIN screens = 1..Len(screens) /\ Len(screens) \in Nat
  BY DEF AppInd, AppTypes
\* A screen that stays is what it was.
<1>1. ASSUME NEW k \in DOMAIN screens, NEW l, screens'[l] = screens[k], l = k, l \in DOMAIN screens'
      PROVE  /\ screens'[l].kind \in Choosers => l = 1 /\ jobs' = {}
             /\ screens'[l].kind = "confirm" => screens'[l].id \in AppIds
             /\ screens'[l].kind = "score" /\ ~screens'[l].running =>
                  jobs' = {} /\ trace' \in {0, screens'[l].seen}
  BY <1>0, <1>1, WorkersAreNew DEF Chosen
<1>2. CASE UNCHANGED screens
  BY <1>0, <1>1, <1>2 DEF Chosen
<1>3. CASE Shuts
  <2>1. \A l \in DOMAIN screens' : l \in DOMAIN screens /\ screens'[l] = screens[l]
    BY <1>0, <1>3, TopTaken DEF Shuts
  <2> QED BY <1>1, <2>1 DEF Chosen
<1>4. ASSUME NEW s \in ScreenRecords, screens' = Append(screens, s), s.kind \in {"ask", "pin"}
      PROVE  Chosen'
  <2>1. /\ DOMAIN screens' = 1..(Len(screens) + 1) /\ screens'[Len(screens) + 1] = s
        /\ \A k \in DOMAIN screens : screens'[k] = screens[k]
    BY <1>0, <1>4, Appended
  <2>2. \A l \in DOMAIN screens' : l \in DOMAIN screens \/ l = Len(screens) + 1
    BY <1>0, <2>1
  <2> QED BY <1>1, <1>4, <2>1, <2>2 DEF Chosen, Choosers
<1>5. ASSUME NEW j \in jobs, TurnAsks(j)
      PROVE  Chosen'
  <2>1. [Screen("ask") EXCEPT !.seen = j.turn] \in ScreenRecords
    BY <1>0 DEF AppTypes, JobRecords, Screen, ScreenRecords, Kinds
  <2>2. [Screen("ask") EXCEPT !.seen = j.turn].kind = "ask"
    BY DEF Screen
  <2> QED BY <1>4, <1>5, <2>1, <2>2 DEF TurnAsks
<1>6. CASE screens' = Append(screens, Screen("pin"))
  <2>1. Screen("pin") \in ScreenRecords /\ Screen("pin").kind = "pin"
    BY DEF Screen, ScreenRecords, Kinds, MessageNos
  <2> QED BY <1>4, <1>6, <2>1
<1>7. ASSUME NEW s, screens' = <<s>>, s.kind \in Choosers => jobs' = {}, s.kind = "confirm" => s.id \in AppIds,
             s.kind = "score" /\ ~s.running => jobs' = {} /\ trace' \in {0, s.seen}
      PROVE  Chosen'
  <2>1. DOMAIN screens' = {1} /\ screens'[1] = s
    BY <1>7
  <2> QED BY <1>7, <2>1 DEF Chosen
<1>8. CASE OpenSessions \/ OpenImport
  <2>1. jobs' = {}
    BY <1>0, <1>8 DEF OpenSessions, OpenImport, Holder
  <2>2. PICK kind \in {"sessions", "delete", "import"} : screens' = <<Screen(kind)>>
    BY <1>8 DEF OpenSessions, OpenImport
  <2> QED BY <1>7, <2>1, <2>2 DEF Screen
<1>9. CASE OpenScreen
  <2>0. UNCHANGED <<jobs, trace, busy>>
    BY <1>9 DEF OpenScreen, session
  <2>1. ASSUME NEW kind \in {"workspace", "setup"}, ~busy, screens' = <<Screen(kind)>>
        PROVE  Chosen'
    <3>1. jobs' = {}
      BY <1>0, <2>0, <2>1 DEF Holder
    <3> QED BY <1>7, <2>1, <3>1 DEF Screen
  <2>2. CASE screens' = <<[Screen("rename") EXCEPT !.id = cur]>>
    BY <1>7, <2>2 DEF Screen, Choosers
  <2>3. CASE screens' = <<[Screen("score") EXCEPT !.seen = LastShown, !.running = busy]>>
    <3>1. ~busy => jobs' = {} /\ trace' \in {0, LastShown}
      BY <1>0, <2>0, LastIsShown DEF Holder
    <3>2. PICK s : s = [Screen("score") EXCEPT !.seen = LastShown, !.running = busy]
      OBVIOUS
    <3>3. s.kind = "score" /\ s.seen = LastShown /\ s.running = busy
      BY <3>2 DEF Screen
    <3> QED BY <1>7, <2>3, <3>1, <3>2, <3>3 DEF Choosers
  <2> QED BY <1>9, <2>1, <2>2, <2>3 DEF OpenScreen
<1>10. CASE PickDelete
  <2>1. PICK i \in listed : screens' = Append(Below, [Screen("confirm") EXCEPT !.id = i])
    BY <1>10 DEF PickDelete
  <2>2. screens # <<>> /\ Top.kind = "delete" /\ UNCHANGED jobs
    BY <1>10 DEF PickDelete, On
  <2>3. Len(screens) = 1 /\ jobs' = {}
    BY <1>0, <2>2, TopTaken DEF Top, Chosen, Choosers
  <2>4. Below = <<>>
    BY <1>0, <2>2, <2>3, TopTaken
  <2>5. PICK s : s = [Screen("confirm") EXCEPT !.id = i]
    OBVIOUS
  <2>6. s.kind = "confirm" /\ s.id = i
    BY <2>5 DEF Screen
  <2>7. screens' = <<s>>
    BY <2>1, <2>4, <2>5
  <2> QED BY <1>0, <1>7, <2>3, <2>6, <2>7 DEF AppTypes, AppTypeOK
<1>11. CASE screens' = <<>>
  BY <1>11 DEF Chosen
<1> QED BY <1>2, <1>3, <1>5, <1>6, <1>8, <1>9, <1>10, <1>11, ScreenSteps

LEMMA WaitingIsKept ==
  ASSUME AppInd, AppNext, ~Reply, \A j \in jobs : ~TurnAsks(j)
  PROVE  Holds("turn", "asking")' = Holds("turn", "asking")
<1>0. jobs \subseteq JobRecords /\ Holder
  BY DEF AppInd, AppTypes
<1>1. CASE UNCHANGED jobs
  BY <1>1 DEF Holds
<1>2. ASSUME NEW k, k.at = "start", jobs' = jobs \cup {k}
      PROVE  Holds("turn", "asking")' = Holds("turn", "asking")
  BY <1>2 DEF Holds
<1>3. CASE Submit
  <2>1. PICK k : k = [Job("turn", cur) EXCEPT !.turn = sent + 1]
    OBVIOUS
  <2> QED BY <1>2, <1>3, <2>1 DEF Submit, Job
<1>4. CASE NewSession \/ PickSession \/ ConfirmDelete \/ PickImport
  <2>1. \A kind, id : Job(kind, id).at = "start"
    BY DEF Job
  <2> QED BY <1>1, <1>2, <1>4, <2>1 DEF NewSession, PickSession, ConfirmDelete, PickImport, Take
<1>5. CASE StartApp
  <2>1. \A i, keep : [Job("load", i) EXCEPT !.keep = keep].at = "start"
    BY DEF Job
  <2> QED BY <1>1, <1>2, <1>5, <2>1 DEF StartApp, Take
<1>6. ASSUME NEW j \in jobs, NEW k, j.at # "asking", k.at # "asking", Becomes(j, k)
      PROVE  Holds("turn", "asking")' = Holds("turn", "asking")
  BY <1>0, <1>6 DEF Holds, Becomes
<1>7. ASSUME NEW j \in jobs, NEW p, j.at # "asking", p # "asking", Moves(j, p)
      PROVE  Holds("turn", "asking")' = Holds("turn", "asking")
  <2>1. [j EXCEPT !.at = p].at = p
    BY <1>0 DEF JobRecords
  <2> QED BY <1>6, <1>7, <2>1 DEF Moves
<1>8. ASSUME NEW j \in jobs,
             \/ TurnBegins(j) \/ TurnCalls(j) \/ TurnReturns(j) \/ TurnResumes(j) \/ TurnFinals(j)
      PROVE  Holds("turn", "asking")' = Holds("turn", "asking")
  <2>1. /\ \A w : [j EXCEPT !.at = "running", !.ws = w].at = "running"
        /\ \A o : [j EXCEPT !.at = "failing", !.outcome = o].at = "failing"
        /\ \A l : [j EXCEPT !.at = "calling", !.late = l].at = "calling"
        /\ \A o : [j EXCEPT !.at = "final", !.outcome = o].at = "final"
    BY <1>0 DEF JobRecords
  <2>2. CASE TurnBegins(j) \/ TurnResumes(j)
    BY <1>6, <2>1, <2>2 DEF TurnBegins, TurnResumes
  <2>3. CASE TurnCalls(j)
    BY <1>6, <2>1, <2>3 DEF TurnCalls
  <2>4. CASE TurnReturns(j)
    BY <1>6, <1>7, <2>1, <2>4 DEF TurnReturns
  <2>5. CASE TurnFinals(j)
    BY <1>6, <2>1, <2>5 DEF TurnFinals
  <2> QED BY <1>8, <2>2, <2>3, <2>4, <2>5
<1>9. ASSUME NEW j \in jobs,
             \/ TurnSettles(j) \/ TurnFails(j) \/ ResetSession(j) \/ LoadSession(j)
             \/ DeleteSession(j) \/ UnlinkSession(j)
      PROVE  Holds("turn", "asking")' = Holds("turn", "asking")
  BY <1>7, <1>9 DEF TurnSettles, TurnFails, ResetSession, LoadSession, DeleteSession, UnlinkSession
<1>10. ASSUME NEW j \in jobs, TurnRecords(j) \/ ImportSession(j)
      PROVE  Holds("turn", "asking")' = Holds("turn", "asking")
  <2>1. [j EXCEPT !.at = "failing", !.outcome = "error"].at = "failing"
    BY <1>0 DEF JobRecords
  <2>2. Job("load", Brought).at = "start"
    BY DEF Job
  <2>3. CASE TurnRecords(j)
    BY <1>6, <1>7, <2>1, <2>3 DEF TurnRecords
  <2>4. CASE ImportSession(j)
    BY <1>6, <1>7, <2>2, <2>4 DEF ImportSession
  <2> QED BY <1>10, <2>3, <2>4
<1>11. ASSUME NEW j \in jobs, Release(j) \/ JobDies(j)
      PROVE  Holds("turn", "asking")' = Holds("turn", "asking")
  <2>1. jobs = {j} /\ jobs' = {} /\ j.at # "asking"
    BY <1>0, <1>11, OneWorker DEF Release, JobDies
  <2> QED BY <2>1 DEF Holds
<1>12. ASSUME NEW j \in jobs, TurnStreams(j)
      PROVE  UNCHANGED jobs
  BY <1>12 DEF TurnStreams
<1>13. CASE \/ Escape \/ OpenSessions \/ PickDelete \/ OpenImport \/ Dismiss \/ OpenScreen
           \/ SetWorkspace \/ RenameSession \/ Close \/ PickTask \/ ListModels \/ PickPin
           \/ ApplyPin
  BY <1>1, <1>13 DEF Escape, OpenSessions, PickDelete, OpenImport, Dismiss, OpenScreen, SetWorkspace,
      RenameSession, Close, PickTask, ListModels, PickPin, ApplyPin
<1> QED BY <1>1, <1>3, <1>4, <1>5, <1>8, <1>9, <1>10, <1>11, <1>12, <1>13 DEF AppNext

AskAt(k) == k \in DOMAIN screens /\ screens[k].kind = "ask"

LEMMA QuestionsAreKept ==
  ASSUME AppInd, AppNext, ~Reply, \A j \in jobs : ~TurnAsks(j)
  PROVE  /\ \A k : AskAt(k)' <=> AskAt(k)
         /\ \A k : AskAt(k) => screens'[k] = screens[k]
<1>0. /\ AppTypes /\ Holder /\ Chosen /\ Asked /\ screens \in Seq(ScreenRecords)
      /\ DOMAIN screens = 1..Len(screens) /\ Len(screens) \in Nat
  BY DEF AppInd, AppTypes
<1>1. CASE UNCHANGED screens
  BY <1>1 DEF AskAt
<1>2. CASE \/ PickSession \/ ConfirmDelete \/ PickImport \/ Dismiss \/ SetWorkspace
           \/ RenameSession \/ Close \/ PickPin
  <2>1. screens # <<>> /\ screens' = Below /\ Top.kind # "ask"
    BY <1>2 DEF PickSession, ConfirmDelete, PickImport, Dismiss, SetWorkspace,
                RenameSession, Close, PickPin, On
  <2>2. /\ DOMAIN screens' = 1..(Len(screens) - 1) /\ screens[Len(screens)].kind # "ask"
        /\ \A k \in DOMAIN screens' : screens'[k] = screens[k]
    BY <1>0, <2>1, TopTaken DEF Top
  <2> QED BY <1>0, <2>2 DEF AskAt
<1>3. CASE screens' = Append(screens, Screen("pin"))
  <2>1. Screen("pin") \in ScreenRecords /\ Screen("pin").kind = "pin"
    BY DEF Screen, ScreenRecords, Kinds, MessageNos
  <2>2. /\ DOMAIN screens' = 1..(Len(screens) + 1) /\ screens'[Len(screens) + 1].kind = "pin"
        /\ \A k \in DOMAIN screens : screens'[k] = screens[k]
    BY <1>0, <1>3, <2>1, Appended
  <2> QED BY <1>0, <2>2 DEF AskAt
<1>4. ASSUME NEW s, screens = <<>>, screens' = <<s>>, s.kind # "ask"
      PROVE  (\A k : AskAt(k)' <=> AskAt(k)) /\ \A k : AskAt(k) => screens'[k] = screens[k]
  BY <1>4 DEF AskAt
<1>5. CASE OpenSessions \/ OpenImport \/ OpenScreen
  <2>1. \/ \E kind \in {"sessions", "delete", "import", "workspace", "setup"} : screens' = <<Screen(kind)>>
        \/ screens' = <<[Screen("rename") EXCEPT !.id = cur]>>
        \/ screens' = <<[Screen("score") EXCEPT !.seen = LastShown, !.running = busy]>>
    BY <1>5 DEF OpenSessions, OpenImport, OpenScreen
  <2>2. PICK s : screens' = <<s>> /\ s.kind # "ask"
    <3>1. /\ \A kind : Screen(kind).kind = kind
          /\ [Screen("rename") EXCEPT !.id = cur].kind = "rename"
          /\ [Screen("score") EXCEPT !.seen = LastShown, !.running = busy].kind = "score"
      BY DEF Screen
    <3> HIDE DEF Screen
    <3> QED BY <2>1, <3>1
  <2> QED BY <1>4, <1>5, <2>2 DEF OpenSessions, OpenImport, OpenScreen, Free
<1>6. CASE PickDelete
  <2>1. PICK i \in listed : screens' = Append(Below, [Screen("confirm") EXCEPT !.id = i])
    BY <1>6 DEF PickDelete
  <2>2. screens # <<>> /\ Top.kind = "delete"
    BY <1>6 DEF PickDelete, On
  <2>3. Len(screens) = 1 /\ Below = <<>>
    BY <1>0, <2>2, TopTaken DEF Top, Chosen, Choosers
  <2>4. PICK s : s = [Screen("confirm") EXCEPT !.id = i]
    OBVIOUS
  <2>5. s.kind = "confirm" /\ screens' = <<s>>
    BY <2>1, <2>3, <2>4 DEF Screen
  <2>6. DOMAIN screens = {1} /\ DOMAIN screens' = {1} /\ screens'[1].kind # "ask" /\ screens[1].kind # "ask"
    BY <1>0, <2>2, <2>3, <2>5 DEF Top
  <2> QED BY <2>6 DEF AskAt
<1>7. ASSUME NEW j \in jobs, JobDies(j)
      PROVE  (\A k : AskAt(k)' <=> AskAt(k)) /\ \A k : AskAt(k) => screens'[k] = screens[k]
  <2>1. screens' = <<>> /\ jobs = {j} /\ j.kind # "turn"
    BY <1>0, <1>7, OneWorker DEF JobDies
  <2>2. \A k : ~AskAt(k)
    BY <1>0, <2>1 DEF Asked, Holds, AskAt
  <2> QED BY <2>1, <2>2 DEF AskAt
<1>8. ASSUME NEW j \in jobs,
             \/ TurnBegins(j) \/ TurnCalls(j) \/ TurnStreams(j) \/ TurnReturns(j)
             \/ TurnResumes(j) \/ TurnFinals(j) \/ TurnSettles(j)
             \/ TurnRecords(j) \/ TurnFails(j) \/ Release(j)
             \/ ResetSession(j) \/ LoadSession(j) \/ DeleteSession(j) \/ UnlinkSession(j)
             \/ ImportSession(j)
      PROVE  UNCHANGED screens
  BY <1>8 DEF TurnBegins, TurnCalls, TurnStreams, TurnReturns, TurnResumes, TurnFinals, TurnSettles,
              TurnRecords, TurnFails, Release, ResetSession, LoadSession, DeleteSession,
              UnlinkSession, ImportSession
<1>9. CASE Submit \/ Escape \/ NewSession \/ StartApp \/ PickTask \/ ListModels \/ ApplyPin
  BY <1>1, <1>3, <1>9 DEF Submit, Escape, NewSession, StartApp, PickTask, ListModels, ApplyPin
<1> QED BY <1>1, <1>2, <1>5, <1>6, <1>7, <1>8, <1>9 DEF AppNext

LEMMA AskedKept ==
  ASSUME AppInd, AppNext
  PROVE  Asked'
<1>0. /\ AppTypes /\ Holder /\ Asked /\ screens \in Seq(ScreenRecords)
      /\ DOMAIN screens = 1..Len(screens) /\ Len(screens) \in Nat
  BY DEF AppInd, AppTypes
<1>1. CASE ~Reply /\ \A j \in jobs : ~TurnAsks(j)
  <2>1. Holds("turn", "asking")' = Holds("turn", "asking")
    BY <1>1, WaitingIsKept
  <2>2. (\A k : AskAt(k)' <=> AskAt(k)) /\ \A k : AskAt(k) => screens'[k] = screens[k]
    BY <1>1, QuestionsAreKept
  <2> QED BY <1>0, <2>1, <2>2 DEF Asked, AskAt
<1>2. CASE Reply
  <2>1. screens # <<>> /\ screens' = Below /\ Top.kind = "ask"
    BY <1>2 DEF Reply, On
  <2>2. /\ DOMAIN screens' = 1..(Len(screens) - 1) /\ screens[Len(screens)].kind = "ask"
        /\ Len(screens) \in DOMAIN screens
        /\ \A k \in DOMAIN screens' : screens'[k] = screens[k]
    BY <1>0, <2>1, TopTaken DEF Top
  <2>3. \A k \in DOMAIN screens' : screens'[k].kind # "ask"
    BY <1>0, <2>2 DEF Asked
  <2>4. PICK j \in jobs : Moves(j, "answered")
    BY <1>2 DEF Reply, Holds
  <2>5. PICK k : k = [j EXCEPT !.at = "answered"]
    OBVIOUS
  <2>6. k.at = "answered" /\ jobs' = {k}
    BY <1>0, <2>4, <2>5, OneWorker DEF AppTypes, JobRecords, Moves
  <2>7. Holds("turn", "asking")' = {}
    BY <2>6 DEF Holds
  <2> QED BY <2>3, <2>7 DEF Asked
<1>3. ASSUME NEW j \in jobs, TurnAsks(j)
      PROVE  Asked'
  <2>1. /\ jobs = {j} /\ j \in JobRecords /\ Holds("turn", "asking") = {}
    BY <1>0, <1>3, OneWorker DEF AppTypes, TurnAsks, Holds
  <2>2. \A k \in DOMAIN screens : screens[k].kind # "ask"
    BY <1>0, <2>1 DEF Asked
  <2>3. PICK s : s = [Screen("ask") EXCEPT !.seen = j.turn]
    OBVIOUS
  <2>4. s \in ScreenRecords /\ s.kind = "ask" /\ s.seen = j.turn
    BY <2>1, <2>3 DEF JobRecords, Screen, ScreenRecords, Kinds
  <2>5. screens' = Append(screens, s)
    BY <1>3, <2>3 DEF TurnAsks
  <2>6. /\ DOMAIN screens' = 1..(Len(screens) + 1) /\ screens'[Len(screens) + 1] = s
        /\ \A k \in DOMAIN screens : screens'[k] = screens[k]
    BY <1>0, <2>4, <2>5, Appended
  <2>7. \A k \in DOMAIN screens' : screens'[k].kind = "ask" <=> k = Len(screens) + 1
    BY <1>0, <2>2, <2>4, <2>6
  <2>8. PICK w : w = [j EXCEPT !.at = "asking", !.asks = @ + 1]
    OBVIOUS
  <2>9. w.kind = "turn" /\ w.at = "asking" /\ w.turn = j.turn /\ jobs' = {w}
    BY <1>0, <1>3, <2>1, <2>8, OneWorker DEF JobRecords, TurnAsks
  <2>10. Holds("turn", "asking")' = {w}
    BY <2>9 DEF Holds
  <2>11. Len(screens) + 1 \in DOMAIN screens'
    BY <1>0, <2>6
  <2> QED BY <2>4, <2>6, <2>7, <2>9, <2>10, <2>11 DEF Asked
<1> QED BY <1>1, <1>2, <1>3

LEMMA StoppingKept ==
  ASSUME AppInd, AppNext
  PROVE  Stopping'
<1>0. AppTypes /\ Holder /\ Stopping /\ sent \in Nat
  BY DEF AppInd, AppTypes, MessageNos
<1>1. CASE UNCHANGED <<cancel, pressed, sent>>
  BY <1>0, <1>1 DEF Stopping
<1>2. CASE Submit
  BY <1>0, <1>2 DEF Submit, Stopping, AppTypes, MessageNos
<1>3. CASE Escape
  <2>1. UNCHANGED sent /\ cancel' = [cancel EXCEPT !.set = cancel.turn # 0]
    BY <1>3 DEF Escape
  <2>2. cancel'.turn = cancel.turn /\ cancel' = [turn |-> cancel.turn, set |-> cancel.turn # 0]
    BY <1>0, <2>1 DEF AppTypes
  <2>3. CASE \E j \in jobs : j.kind = "turn"
    <3>1. sent # 0
      BY <1>0, <2>3, OneWorker DEF OfJob, OfTurn
    <3>2. pressed' = "heard" => cancel.turn = sent
      BY <1>3, <2>3 DEF Escape
    <3>3. pressed' = "heard" => cancel' = [turn |-> sent', set |-> TRUE] /\ sent' # 0
      BY <2>1, <2>2, <3>1, <3>2
    <3> QED BY <1>0, <2>1, <2>2, <3>3 DEF Stopping
  <2>4. CASE ~\E j \in jobs : j.kind = "turn"
    <3>1. pressed' = pressed
      BY <1>3, <2>4 DEF Escape
    <3>2. pressed = "heard" => cancel.turn = sent /\ sent # 0
      BY <1>0 DEF Stopping
    <3>3. pressed' = "heard" => cancel' = [turn |-> sent', set |-> TRUE] /\ sent' # 0
      BY <2>1, <2>2, <3>1, <3>2
    <3> QED BY <1>0, <2>1, <2>2, <3>3 DEF Stopping
  <2> QED BY <2>3, <2>4
<1>4. ASSUME NEW j \in jobs, TurnBegins(j)
      PROVE  Stopping'
  <2>1. /\ j.turn = sent /\ cancel.turn # sent /\ UNCHANGED <<sent, pressed>>
        /\ cancel' = [turn |-> j.turn, set |-> FALSE]
    BY <1>0, <1>4, OneWorker DEF OfJob, OfTurn, TurnBegins
  <2>2. pressed # "heard"
    BY <1>0, <2>1 DEF Stopping
  <2> QED BY <1>0, <2>1, <2>2 DEF Stopping
<1>5. ASSUME NEW j \in jobs, JobDies(j)
      PROVE  Stopping'
  BY <1>5 DEF JobDies, Stopping
<1>6. ASSUME NEW j \in jobs,
             \/ TurnCalls(j) \/ TurnStreams(j) \/ TurnReturns(j)
             \/ TurnAsks(j) \/ TurnResumes(j) \/ TurnFinals(j) \/ TurnSettles(j)
             \/ TurnRecords(j) \/ TurnFails(j) \/ Release(j)
             \/ ResetSession(j) \/ LoadSession(j) \/ DeleteSession(j) \/ UnlinkSession(j)
             \/ ImportSession(j)
      PROVE  UNCHANGED <<cancel, pressed, sent>>
  BY <1>6 DEF TurnCalls, TurnStreams, TurnReturns, TurnAsks, TurnResumes, TurnFinals, TurnSettles,
              TurnRecords, TurnFails, Release, ResetSession, LoadSession, DeleteSession,
              UnlinkSession, ImportSession
<1>7. CASE \/ Reply \/ NewSession \/ OpenSessions \/ PickSession \/ PickDelete
           \/ ConfirmDelete \/ OpenImport \/ PickImport \/ StartApp
  BY <1>1, <1>7 DEF Reply, NewSession, OpenSessions, PickSession, PickDelete,
     ConfirmDelete, OpenImport, PickImport, StartApp
<1>8. CASE \/ Dismiss \/ OpenScreen \/ SetWorkspace \/ RenameSession \/ Close
           \/ PickTask \/ ListModels \/ PickPin \/ ApplyPin
  BY <1>1, <1>8 DEF Dismiss, OpenScreen, SetWorkspace, RenameSession, Close, PickTask, ListModels,
     PickPin, ApplyPin
<1> QED BY <1>1, <1>2, <1>3, <1>4, <1>5, <1>6, <1>7, <1>8 DEF AppNext

-----------------------------------------------------------------------------
(* The transcript *)

LEMMA BlocksTyped ==
  ASSUME AppTypes
  PROVE  /\ shown \in Seq(Blocks) /\ Len(shown) \in Nat /\ DOMAIN shown = 1..Len(shown)
         /\ \A i \in DOMAIN shown : /\ shown[i] \in Blocks /\ shown[i][1] \in Marks
                                    /\ shown[i][2] \in Nat /\ shown[i] = <<shown[i][1], shown[i][2]>>
         /\ sent \in Nat
BY DEF AppTypes, Blocks, MessageNos

\* A block of the last message, that neither begins it nor says its answer again.
LEMMA AddedInOrder ==
  ASSUME AppTypes, InOrder, sent # 0, sent' = sent, NEW what \in Marks, what # "you",
         shown' = Append(shown, <<what, sent>>),
         what \in Answers \cup {"partial"} =>
           \A i \in DOMAIN shown : shown[i][2] = sent => shown[i][1] \notin Answers \cup {"partial"}
  PROVE  InOrder'
<1> DEFINE l == Len(shown) + 1
<1>1. /\ Len(shown) \in Nat /\ DOMAIN shown = 1..Len(shown) /\ DOMAIN shown' = 1..l
      /\ \A i \in DOMAIN shown : shown'[i] = shown[i]
      /\ shown'[l] = <<what, sent>> /\ shown'[l][1] = what /\ shown'[l][2] = sent
      /\ sent \in Nat /\ \A i \in DOMAIN shown : shown[i][2] \in Nat
  <2>1. <<what, sent>> \in Blocks
    BY DEF AppTypes, Blocks
  <2> QED BY <2>1, Appended, BlocksTyped
<1>2. l \in Nat /\ l \in DOMAIN shown' /\ \A i \in DOMAIN shown' : i \in DOMAIN shown \/ i = l
  BY <1>1
<1>3. PICK b \in DOMAIN shown : shown[b] = <<"you", sent>>
  <2>1. sent \in 1..sent
    BY <1>1
  <2> QED BY <2>1 DEF InOrder
<1> HIDE DEF l
<1>4. \A i \in DOMAIN shown' : shown'[i][2] \in 1..sent
  BY <1>1, <1>2 DEF InOrder
<1>5. \A i, k \in DOMAIN shown' : i < k => shown'[i][2] <= shown'[k][2]
  BY <1>1, <1>2 DEF InOrder, l
<1>6. \A i \in DOMAIN shown' :
        shown'[i][1] = "you" <=> \A k \in DOMAIN shown' : shown'[k][2] = shown'[i][2] => i <= k
  <2>1. b < l /\ shown'[b][2] = sent
    BY <1>1, <1>3 DEF l
  <2>2. ASSUME NEW i \in DOMAIN shown
        PROVE  i <= l
    BY <1>1 DEF l
  <2>3. ASSUME NEW i \in DOMAIN shown
        PROVE  shown'[i][1] = "you" <=> \A k \in DOMAIN shown' : shown'[k][2] = shown'[i][2] => i <= k
    BY <1>1, <1>2, <2>2 DEF InOrder
  <2>4. ~\A k \in DOMAIN shown' : shown'[k][2] = shown'[l][2] => l <= k
    <3>1. b \in DOMAIN shown' /\ ~(l <= b)
      BY <1>1, <1>2, <1>3, <2>1
    <3> QED BY <1>1, <2>1, <3>1
  <2> QED BY <1>1, <1>2, <2>3, <2>4
<1>7. \A n \in 1..sent : \E i \in DOMAIN shown' : shown'[i] = <<"you", n>>
  <2> SUFFICES ASSUME NEW n \in 1..sent PROVE \E i \in DOMAIN shown' : shown'[i] = <<"you", n>>
    OBVIOUS
  <2>1. PICK i \in DOMAIN shown : shown[i] = <<"you", n>>
    BY DEF InOrder
  <2> QED BY <1>1, <2>1 DEF l
<1>8. \A i, k \in DOMAIN shown' :
        /\ shown'[i][2] = shown'[k][2]
        /\ shown'[i][1] \in Answers \cup {"partial"} /\ shown'[k][1] \in Answers \cup {"partial"}
        => i = k
  BY <1>1, <1>2 DEF InOrder
<1> QED BY <1>4, <1>5, <1>6, <1>7, <1>8 DEF InOrder

LEMMA SubmitInOrder ==
  ASSUME AppInd, Submit
  PROVE  InOrder'
<1> DEFINE l == Len(shown) + 1
<1>0. AppTypes /\ InOrder /\ sent \in Nat /\ sent' = sent + 1 /\ shown' = Append(shown, <<"you", sent + 1>>)
      /\ sent + 1 \in MessageNos
  BY DEF AppInd, Submit, AppTypes, MessageNos
<1>1. /\ Len(shown) \in Nat /\ DOMAIN shown = 1..Len(shown) /\ DOMAIN shown' = 1..l
      /\ \A i \in DOMAIN shown : shown'[i] = shown[i]
      /\ shown'[l] = <<"you", sent + 1>> /\ shown'[l][1] = "you" /\ shown'[l][2] = sent + 1
      /\ \A i \in DOMAIN shown : shown[i][2] \in Nat
  <2>1. <<"you", sent + 1>> \in Blocks
    BY <1>0 DEF Blocks, Marks
  <2> QED BY <1>0, <2>1, Appended, BlocksTyped
<1>2. l \in Nat /\ l \in DOMAIN shown' /\ \A i \in DOMAIN shown' : i \in DOMAIN shown \/ i = l
  BY <1>1
<1>3. \A i \in DOMAIN shown : shown[i][2] \in 1..sent /\ shown[i][2] < sent + 1 /\ i < l
  BY <1>0, <1>1 DEF InOrder
<1> HIDE DEF l
<1>4. \A i \in DOMAIN shown' : shown'[i][2] \in 1..sent'
  BY <1>0, <1>1, <1>2, <1>3
<1>5. \A i, k \in DOMAIN shown' : i < k => shown'[i][2] <= shown'[k][2]
  <2> SUFFICES ASSUME NEW i \in DOMAIN shown', NEW k \in DOMAIN shown', i < k
               PROVE  shown'[i][2] <= shown'[k][2]
    OBVIOUS
  <2>1. i \in DOMAIN shown
    BY <1>1, <1>2, <1>3
  <2>2. CASE k \in DOMAIN shown
    BY <1>0, <1>1, <2>1, <2>2 DEF InOrder
  <2>3. CASE k = l
    BY <1>0, <1>1, <1>3, <2>1, <2>3
  <2> QED BY <1>2, <2>2, <2>3
<1>6. \A i \in DOMAIN shown' :
        shown'[i][1] = "you" <=> \A k \in DOMAIN shown' : shown'[k][2] = shown'[i][2] => i <= k
  <2>1. ASSUME NEW i \in DOMAIN shown
        PROVE  shown'[i][1] = "you" <=> \A k \in DOMAIN shown' : shown'[k][2] = shown'[i][2] => i <= k
    <3>1. \A k \in DOMAIN shown' : shown'[k][2] = shown'[i][2] <=> k \in DOMAIN shown /\ shown[k][2] = shown[i][2]
      BY <1>0, <1>1, <1>2, <1>3
    <3> QED BY <1>0, <1>1, <1>2, <3>1 DEF InOrder
  <2>2. \A k \in DOMAIN shown' : shown'[k][2] = shown'[l][2] => l <= k
    BY <1>0, <1>1, <1>2, <1>3
  <2> QED BY <1>1, <1>2, <2>1, <2>2
<1>7. \A n \in 1..sent' : \E i \in DOMAIN shown' : shown'[i] = <<"you", n>>
  <2> SUFFICES ASSUME NEW n \in 1..sent' PROVE \E i \in DOMAIN shown' : shown'[i] = <<"you", n>>
    OBVIOUS
  <2>1. CASE n = sent + 1
    BY <1>1, <1>2, <2>1
  <2>2. CASE n # sent + 1
    <3>1. PICK i \in DOMAIN shown : shown[i] = <<"you", n>>
      BY <1>0, <2>2 DEF InOrder
    <3> QED BY <1>1, <3>1 DEF l
  <2> QED BY <2>1, <2>2
<1>8. \A i, k \in DOMAIN shown' :
        /\ shown'[i][2] = shown'[k][2]
        /\ shown'[i][1] \in Answers \cup {"partial"} /\ shown'[k][1] \in Answers \cup {"partial"}
        => i = k
  <2>1. "you" \notin Answers \cup {"partial"}
    BY DEF Answers
  <2> QED BY <1>0, <1>1, <1>2, <2>1 DEF InOrder
<1> QED BY <1>4, <1>5, <1>6, <1>7, <1>8 DEF InOrder

LEMMA SettledInOrder ==
  ASSUME AppInd, NEW j \in jobs, TurnSettles(j)
  PROVE  InOrder'
<1>0. /\ AppTypes /\ InOrder /\ j.turn = sent /\ sent # 0 /\ j.outcome \in Answers /\ NoEnd(sent)
      /\ sent' = sent /\ j.outcome \in Marks /\ j.outcome # "you"
  BY OneWorker DEF AppInd, OfJob, OfTurn, TurnSettles, Marks, EndMarks, Answers
<1>1. CASE ~Streaming(j)
  <2>1. shown' = Append(shown, <<j.outcome, sent>>)
    BY <1>0, <1>1 DEF TurnSettles
  <2>2. \A i \in DOMAIN shown : shown[i][2] = sent => shown[i][1] \notin Answers \cup {"partial"}
    <3>1. \A i \in DOMAIN shown : shown[i][2] = sent => shown[i][1] \notin Answers
      BY <1>0 DEF NoEnd, IsEnd, EndMarks
    <3>2. \A i \in DOMAIN shown : shown[i] # <<"partial", sent>>
      BY <1>0, <1>1 DEF Streaming
    <3>3. \A i \in DOMAIN shown : shown[i][2] = sent => shown[i][1] # "partial"
      BY <1>0, <3>2, BlocksTyped
    <3> QED BY <3>1, <3>3
  <2> QED BY <1>0, <2>1, <2>2, AddedInOrder
<1>2. CASE Streaming(j)
  <2>1. PICK p \in DOMAIN shown : shown[p] = <<"partial", sent>>
    BY <1>0, <1>2 DEF Streaming
  <2>2. shown' = [i \in DOMAIN shown |-> IF shown[i] = <<"partial", sent>>
                                         THEN <<j.outcome, sent>> ELSE shown[i]]
    BY <1>0, <1>2 DEF TurnSettles
  <2>3. /\ DOMAIN shown' = DOMAIN shown
        /\ \A i \in DOMAIN shown : shown'[i][2] = shown[i][2]
    BY <2>2
  <2>4. \A i \in DOMAIN shown : shown'[i][1] = "you" <=> shown[i][1] = "you"
    BY <1>0, <2>2
  <2>5. \A i \in DOMAIN shown : shown'[i][1] \in Answers \cup {"partial"} => shown[i][1] \in Answers \cup {"partial"}
    BY <1>0, <2>2
  <2>6. \A n, i : i \in DOMAIN shown /\ shown[i] = <<"you", n>> => shown'[i] = <<"you", n>>
    BY <2>2
  <2>7. \A n \in 1..sent : \E i \in DOMAIN shown' : shown'[i] = <<"you", n>>
    BY <1>0, <2>3, <2>6 DEF InOrder
  <2>8. /\ \A i \in DOMAIN shown' : shown'[i][2] \in 1..sent'
        /\ \A i, k \in DOMAIN shown' : i < k => shown'[i][2] <= shown'[k][2]
    BY <1>0, <2>3 DEF InOrder
  <2>9. \A i \in DOMAIN shown' :
          shown'[i][1] = "you" <=> \A k \in DOMAIN shown' : shown'[k][2] = shown'[i][2] => i <= k
    BY <1>0, <2>3, <2>4 DEF InOrder
  <2>10. \A i, k \in DOMAIN shown' :
           /\ shown'[i][2] = shown'[k][2]
           /\ shown'[i][1] \in Answers \cup {"partial"} /\ shown'[k][1] \in Answers \cup {"partial"}
           => i = k
    BY <1>0, <2>3, <2>5 DEF InOrder
  <2> QED BY <1>0, <2>7, <2>8, <2>9, <2>10 DEF InOrder
<1> QED BY <1>1, <1>2

LEMMA InOrderKept ==
  ASSUME AppInd, AppNext
  PROVE  InOrder'
<1>0. AppTypes /\ InOrder /\ Holder
  BY DEF AppInd
<1>1. CASE UNCHANGED <<shown, sent>>
  BY <1>0, <1>1 DEF InOrder
<1>2. ASSUME NEW j \in jobs, TurnStreams(j) \/ TurnResumes(j) \/ TurnFails(j)
      PROVE  InOrder'
  <2>0. j.turn = sent /\ sent # 0 /\ OfTurn(j) /\ sent' = sent
    BY <1>0, <1>2, OneWorker DEF OfJob, OfTurn, TurnStreams, TurnResumes, TurnFails
  <2>1. CASE TurnStreams(j)
    <3>1. \A i \in DOMAIN shown : shown[i][2] = sent => shown[i][1] \notin Answers
      BY <2>0, <2>1 DEF OfTurn, TurnStreams, NoEnd, IsEnd, EndMarks
    <3>2. \A i \in DOMAIN shown : shown[i] # <<"partial", sent>>
      BY <2>0, <2>1 DEF TurnStreams, Streaming
    <3>3. \A i \in DOMAIN shown : shown[i][2] = sent => shown[i][1] # "partial"
      BY <1>0, <3>2, BlocksTyped
    <3> QED BY <1>0, <2>0, <2>1, <3>1, <3>3, AddedInOrder DEF TurnStreams, Marks
  <2>2. CASE TurnResumes(j)
    BY <1>0, <2>0, <2>2, AddedInOrder DEF TurnResumes, Marks, Answers
  <2>3. CASE TurnFails(j)
    <3>1. j.outcome \in {"stopped", "error"}
      BY <2>0, <2>3 DEF OfTurn, TurnFails
    <3>2. j.outcome \in Marks /\ j.outcome # "you" /\ j.outcome \notin Answers \cup {"partial"}
      BY <3>1 DEF Marks, EndMarks, Answers
    <3> QED BY <1>0, <2>0, <2>3, <3>2, AddedInOrder DEF TurnFails
  <2> QED BY <1>2, <2>1, <2>2, <2>3
<1>3. ASSUME NEW j \in jobs, JobDies(j)
      PROVE  InOrder'
  BY <1>3 DEF JobDies, InOrder
<1> QED BY <1>1, <1>2, <1>3, SubmitInOrder, SettledInOrder, ShownSteps

LEMMA TurnStays ==
  ASSUME AppInd, AppNext, NEW j \in jobs, j.kind = "turn"
  PROVE  Release(j) \/ \E k \in jobs' : k.turn = j.turn
<1>0. j \in JobRecords /\ jobs = {j} /\ Holder
  BY OneWorker DEF AppInd, AppTypes
<1>1. ASSUME jobs \subseteq jobs'
      PROVE  \E k \in jobs' : k.turn = j.turn
  BY <1>1
<1>2. ASSUME NEW k, k.turn = j.turn, Becomes(j, k)
      PROVE  \E l \in jobs' : l.turn = j.turn
  BY <1>2 DEF Becomes
<1>3. ASSUME NEW p, Moves(j, p)
      PROVE  \E l \in jobs' : l.turn = j.turn
  <2>1. [j EXCEPT !.at = p].turn = j.turn
    BY <1>0 DEF JobRecords
  <2> QED BY <1>2, <1>3, <2>1 DEF Moves
<1>4. CASE TurnBegins(j) \/ TurnCalls(j) \/ TurnReturns(j) \/ TurnAsks(j) \/ TurnResumes(j) \/ TurnFinals(j)
  <2>1. /\ \A w : [j EXCEPT !.at = "running", !.ws = w].turn = j.turn
        /\ \A o : [j EXCEPT !.at = "failing", !.outcome = o].turn = j.turn
        /\ \A l : [j EXCEPT !.at = "calling", !.late = l].turn = j.turn
        /\ \A o : [j EXCEPT !.at = "final", !.outcome = o].turn = j.turn
        /\ [j EXCEPT !.at = "asking", !.asks = @ + 1].turn = j.turn
    BY <1>0 DEF JobRecords
  <2>2. CASE TurnBegins(j) \/ TurnResumes(j) \/ TurnAsks(j)
    BY <1>2, <2>1, <2>2 DEF TurnBegins, TurnResumes, TurnAsks
  <2>3. CASE TurnCalls(j)
    BY <1>2, <2>1, <2>3 DEF TurnCalls
  <2>4. CASE TurnReturns(j)
    BY <1>2, <1>3, <2>1, <2>4 DEF TurnReturns
  <2>5. CASE TurnFinals(j)
    BY <1>2, <2>1, <2>5 DEF TurnFinals
  <2> QED BY <1>4, <2>2, <2>3, <2>4, <2>5
<1>5. CASE TurnSettles(j) \/ TurnFails(j) \/ Reply
  BY <1>0, <1>3, <1>5 DEF TurnSettles, TurnFails, Reply, Holds
<1>6. CASE TurnRecords(j)
  <2>1. [j EXCEPT !.at = "failing", !.outcome = "error"].turn = j.turn
    BY <1>0 DEF JobRecords
  <2> QED BY <1>2, <1>3, <1>6, <2>1 DEF TurnRecords
<1>7. CASE TurnStreams(j)
  BY <1>1, <1>7 DEF TurnStreams
<1>8. CASE \/ Submit \/ Escape \/ NewSession \/ OpenSessions \/ PickSession \/ PickDelete \/ ConfirmDelete
           \/ OpenImport \/ PickImport \/ StartApp
  BY <1>1, <1>8 DEF Submit, Escape, NewSession, OpenSessions, PickSession, PickDelete, ConfirmDelete,
     OpenImport, PickImport, StartApp, Take
<1>9. CASE \/ Dismiss \/ OpenScreen \/ SetWorkspace \/ RenameSession \/ Close
           \/ PickTask \/ ListModels \/ PickPin \/ ApplyPin
  BY <1>1, <1>9 DEF Dismiss, OpenScreen, SetWorkspace, RenameSession, Close, PickTask, ListModels,
     PickPin, ApplyPin
<1>10. ~(ResetSession(j) \/ LoadSession(j) \/ DeleteSession(j) \/ UnlinkSession(j) \/ ImportSession(j) \/ JobDies(j))
  BY DEF ResetSession, LoadSession, DeleteSession, UnlinkSession, ImportSession, JobDies
<1> QED BY <1>0, <1>4, <1>5, <1>6, <1>7, <1>8, <1>9, <1>10 DEF AppNext

LEMMA EarlierEnds ==
  ASSUME AppInd, AppNext, NEW n \in 1..sent, n \in 1..sent', n # sent \/ UNCHANGED shown, Ended(n)
  PROVE  Ended(n)'
<1>0. AppTypes /\ Holder /\ sent \in Nat /\ sent \in MessageNos /\ shown \in Seq(Blocks)
  BY DEF AppInd, AppTypes, MessageNos
<1>1. CASE UNCHANGED shown
  BY <1>1, SameEnds
<1>2. CASE Submit
  <2>1. /\ sent + 1 \in MessageNos /\ "you" \in Marks /\ n # sent + 1
        /\ shown' = Append(shown, <<"you", sent + 1>>)
    BY <1>0, <1>2 DEF Submit, MessageNos, Marks
  <2> QED BY <1>0, <2>1, AppendedKeeps
<1>3. ASSUME NEW j \in jobs, TurnStreams(j) \/ TurnResumes(j) \/ TurnFails(j), n # sent
      PROVE  Ended(n)'
  <2>1. OfTurn(j) /\ j.turn = sent
    BY <1>0, <1>3, OneWorker DEF OfJob, OfTurn, TurnStreams, TurnResumes, TurnFails
  <2>2. \E what \in Marks : shown' = Append(shown, <<what, sent>>)
    BY <1>3, <2>1 DEF OfTurn, TurnStreams, TurnResumes, TurnFails, Marks, EndMarks
  <2> QED BY <1>0, <1>3, <2>2, AppendedKeeps
<1>4. ASSUME NEW j \in jobs, TurnSettles(j), n # sent
      PROVE  Ended(n)'
  BY <1>4, SettledEnds
<1>5. ASSUME NEW j \in jobs, JobDies(j)
      PROVE  FALSE
  BY <1>5 DEF JobDies
<1> QED BY <1>1, <1>2, <1>3, <1>4, <1>5, ShownSteps

LEMMA OverKept ==
  ASSUME AppInd, AppNext
  PROVE  Over'
<1>0. AppTypes /\ Holder /\ Over /\ sent \in Nat /\ Holder' /\ sent' \in Nat
  BY HolderKept, AppTypesKept DEF AppInd, AppTypes, MessageNos
<1> SUFFICES ASSUME NEW n \in 1..sent', \A k \in jobs' : k.turn # n
             PROVE  Ended(n)'
  BY DEF Over
<1>1. CASE n \in 1..sent /\ n # sent
  <2>1. \A j \in jobs : j.turn # n
    BY <1>1, <1>0, OneWorker DEF OfJob, OfTurn, OfChange
  <2> QED BY <1>1, <2>1, EarlierEnds, <1>0 DEF Over
<1>2. CASE n = sent
  <2>1. CASE \E j \in jobs : j.turn = n
    <3>1. PICK j \in jobs : j.turn = n
      BY <2>1
    <3>2. j.kind = "turn" /\ OfTurn(j)
      BY <1>0, <1>2, <3>1, OneWorker DEF OfJob, OfChange
    <3>3. Release(j)
      BY <3>1, <3>2, TurnStays
    <3>4. Ended(n) /\ UNCHANGED shown
      BY <1>2, <3>2, <3>3 DEF OfTurn, Release
    <3> QED BY <1>0, <1>2, <3>4, EarlierEnds
  <2>2. CASE \A j \in jobs : j.turn # n
    <3>1. Ended(n)
      BY <1>0, <1>2, <2>2 DEF Over
    <3>2. \A j \in jobs : ~(TurnStreams(j) \/ TurnResumes(j) \/ TurnSettles(j) \/ TurnFails(j))
      BY <1>0, <1>2, <2>2, OneWorker DEF OfJob, OfTurn, TurnStreams, TurnResumes, TurnSettles, TurnFails
    <3>3. CASE Submit
      <4>1. /\ sent + 1 \in MessageNos /\ "you" \in Marks /\ n # sent + 1
            /\ shown' = Append(shown, <<"you", sent + 1>>) /\ shown \in Seq(Blocks)
        BY <1>0, <1>2, <3>3 DEF Submit, MessageNos, Marks, AppTypes
      <4> QED BY <3>1, <4>1, AppendedKeeps
    <3>4. CASE UNCHANGED shown
      BY <3>1, <3>4, SameEnds
    <3>5. ASSUME NEW j \in jobs, JobDies(j)
          PROVE  FALSE
      BY <3>5 DEF JobDies
    <3> QED BY <3>2, <3>3, <3>4, <3>5, ShownSteps
  <2> QED BY <2>1, <2>2
<1>3. CASE n > sent
  <2>1. sent' # sent
    BY <1>0, <1>3
  <2>2. Submit
    <3>1. ASSUME NEW j \in jobs, TurnStreams(j) \/ TurnResumes(j) \/ TurnSettles(j) \/ TurnFails(j)
          PROVE  UNCHANGED sent
      BY <3>1 DEF TurnStreams, TurnResumes, TurnSettles, TurnFails
    <3>2. ASSUME NEW j \in jobs, JobDies(j)
          PROVE  FALSE
      BY <3>2 DEF JobDies
    <3> QED BY <2>1, <3>1, <3>2, ShownSteps
  <2>3. n = sent + 1
    BY <1>0, <1>3, <2>2 DEF Submit
  <2>4. PICK k : k = [Job("turn", cur) EXCEPT !.turn = sent + 1]
    OBVIOUS
  <2>5. k \in jobs' /\ k.turn = n
    BY <2>2, <2>3, <2>4 DEF Submit, Job
  <2> QED BY <2>5
<1> QED BY <1>0, <1>1, <1>2, <1>3

LEMMA FinalStays ==
  ASSUME AppInd, AppNext, NEW j \in jobs, j.kind = "turn", j.at = "final"
  PROVE  TurnSettles(j) \/ j \in jobs'
<1>0. jobs = {j}
  BY OneWorker DEF AppInd
<1>1. ~ \/ TurnBegins(j) \/ TurnCalls(j) \/ TurnStreams(j) \/ TurnReturns(j) \/ TurnAsks(j)
        \/ TurnResumes(j) \/ TurnFinals(j) \/ TurnRecords(j) \/ TurnFails(j) \/ Release(j)
        \/ ResetSession(j) \/ LoadSession(j) \/ DeleteSession(j) \/ UnlinkSession(j)
        \/ ImportSession(j) \/ JobDies(j)
  BY DEF TurnBegins, TurnCalls, TurnStreams, TurnReturns, TurnAsks, TurnResumes, TurnFinals,
     TurnRecords, TurnFails, Release, ResetSession, LoadSession, DeleteSession, UnlinkSession,
     ImportSession, JobDies
<1>2. CASE \/ Submit \/ Escape \/ NewSession \/ OpenSessions \/ PickSession \/ PickDelete \/ ConfirmDelete
           \/ OpenImport \/ PickImport \/ StartApp
  BY <1>2 DEF Submit, Escape, NewSession, OpenSessions, PickSession, PickDelete, ConfirmDelete,
     OpenImport, PickImport, StartApp, Take
<1>3. CASE \/ Dismiss \/ OpenScreen \/ SetWorkspace \/ RenameSession \/ Close
           \/ PickTask \/ ListModels \/ PickPin \/ ApplyPin
  BY <1>3 DEF Dismiss, OpenScreen, SetWorkspace, RenameSession, Close, PickTask, ListModels,
     PickPin, ApplyPin
<1>4. ~Reply
  BY <1>0 DEF Reply, Holds
<1> QED BY <1>0, <1>1, <1>2, <1>3, <1>4 DEF AppNext

\* The last answer is another one only when a turn settles its own.
LEMMA LastIsKept ==
  ASSUME AppInd, AppNext, \A j \in jobs : ~TurnSettles(j) /\ ~JobDies(j)
  PROVE  /\ \A i : IsLast(i) => IsLast(i)' /\ shown'[i] = shown[i]
         /\ \A i \in DOMAIN shown' : shown'[i][1] \in Answers => i \in DOMAIN shown /\ shown'[i] = shown[i]
<1>0. AppTypes /\ Holder
  BY DEF AppInd
<1>1. CASE UNCHANGED shown
  BY <1>1 DEF IsLast
<1>2. CASE \E what \in Marks \ Answers, n \in MessageNos : shown' = Append(shown, <<what, n>>)
  <2>1. PICK what \in Marks \ Answers, n \in MessageNos : shown' = Append(shown, <<what, n>>)
    BY <1>2
  <2>2. <<what, n>> \in Blocks /\ <<what, n>>[1] = what
    BY DEF Blocks
  <2>3. PICK l : l = Len(shown) + 1
    OBVIOUS
  <2>4. /\ \A i \in DOMAIN shown : i \in DOMAIN shown' /\ shown'[i] = shown[i]
        /\ \A i \in DOMAIN shown' : i \in DOMAIN shown \/ i = l
        /\ shown'[l][1] \notin Answers
    BY <1>0, <2>1, <2>2, <2>3, Appended, BlocksTyped
  <2> QED BY <2>4 DEF IsLast
<1>3. CASE Submit
  <2>1. PICK n : n = sent + 1
    OBVIOUS
  <2>2. n \in MessageNos /\ "you" \in Marks \ Answers /\ shown' = Append(shown, <<"you", n>>)
    BY <1>0, <1>3, <2>1 DEF Submit, Marks, Answers, AppTypes, MessageNos
  <2> QED BY <1>2, <2>2
<1>4. ASSUME NEW j \in jobs, TurnStreams(j) \/ TurnResumes(j) \/ TurnFails(j)
      PROVE  \E what \in Marks \ Answers, n \in MessageNos : shown' = Append(shown, <<what, n>>)
  <2>1. OfTurn(j) /\ j.turn = sent /\ sent \in MessageNos
    BY <1>0, <1>4, OneWorker DEF OfJob, OfTurn, TurnStreams, TurnResumes, TurnFails, AppTypes
  <2> QED BY <1>4, <2>1 DEF OfTurn, TurnStreams, TurnResumes, TurnFails, Marks, EndMarks, Answers
<1> QED BY <1>1, <1>2, <1>3, <1>4, ShownSteps

LEMMA SettledTyped ==
  ASSUME AppInd, NEW j \in jobs, TurnSettles(j)
  PROVE  \A p \in DOMAIN shown' : p \in Nat
<1>1. shown' \in Seq(Blocks)
  BY ShownTyped DEF AppInd, AppNext
<1> QED BY <1>1

LEMMA SettledIsLast ==
  ASSUME AppInd, NEW j \in jobs, TurnSettles(j)
  PROVE  \E p \in DOMAIN shown' : IsLast(p)' /\ shown'[p][2] = sent
<1>0. AppTypes /\ InOrder /\ j.outcome \in Answers /\ NoEnd(sent) /\ sent \in Nat
  BY OneWorker DEF AppInd, AppTypes, MessageNos, OfJob, OfTurn, TurnSettles
<1>1. PICK p \in DOMAIN shown' :
           /\ DOMAIN shown \subseteq DOMAIN shown' /\ DOMAIN shown' \subseteq DOMAIN shown \cup {p}
           /\ \A i \in DOMAIN shown : i # p => shown'[i] = shown[i]
           /\ shown'[p] = <<j.outcome, sent>>
           /\ p \in DOMAIN shown => shown[p] = <<"partial", sent>>
           /\ p \notin DOMAIN shown => \A i \in DOMAIN shown : i < p /\ shown[i] # <<"partial", sent>>
  BY SettledStep
<1>2. ASSUME NEW k \in DOMAIN shown', shown'[k][1] \in Answers
      PROVE  k <= p
  <2>1. CASE k = p
    <3>1. p \in Nat
      BY <1>0, <1>1, BlocksTyped, SettledTyped
    <3> QED BY <2>1, <3>1
  <2>2. CASE k # p /\ p \in DOMAIN shown
    <3>1. k \in DOMAIN shown /\ shown[k][1] \in Answers /\ shown[p][2] = sent
      BY <1>1, <1>2, <2>2
    <3>2. shown[k][2] # sent
      BY <1>0, <3>1 DEF NoEnd, IsEnd, EndMarks
    <3>3. shown[k][2] < sent
      BY <1>0, <3>1, <3>2 DEF InOrder
    <3>4. ~(p < k)
      BY <1>0, <2>2, <3>1, <3>3, BlocksTyped DEF InOrder
    <3> QED BY <1>0, <2>2, <3>1, <3>4, BlocksTyped
  <2>3. CASE k # p /\ p \notin DOMAIN shown
    BY <1>0, <1>1, <2>3, BlocksTyped, SettledTyped
  <2> QED BY <2>1, <2>2, <2>3
<1> QED BY <1>0, <1>1, <1>2 DEF IsLast

LEMMA TracedKept ==
  ASSUME AppInd, AppNext
  PROVE  HasLast' /\ Traced'
<1>0. AppTypes /\ Holder /\ HasLast /\ Traced
  BY DEF AppInd
<1>1. ASSUME NEW j \in jobs, TurnSettles(j)
      PROVE  HasLast' /\ Traced'
  <2>1. trace = sent /\ trace' = trace
    BY <1>0, <1>1, OneWorker DEF OfJob, OfTurn, TurnSettles, session
  <2>2. PICK p \in DOMAIN shown' : IsLast(p)' /\ shown'[p][2] = sent
    BY <1>1, SettledIsLast
  <2> QED BY <2>1, <2>2 DEF HasLast, Traced
<1>2. ASSUME NEW j \in jobs, JobDies(j)
      PROVE  HasLast' /\ Traced'
  BY <1>2 DEF JobDies, HasLast, Traced
<1>3. CASE \A j \in jobs : ~TurnSettles(j) /\ ~JobDies(j)
  <2>1. /\ \A i : IsLast(i) => IsLast(i)' /\ shown'[i] = shown[i]
        /\ \A i \in DOMAIN shown' : shown'[i][1] \in Answers => i \in DOMAIN shown /\ shown'[i] = shown[i]
    BY <1>3, LastIsKept
  <2>2. \A i : IsLast(i) => i \in DOMAIN shown
    BY DEF IsLast
  <2>3. \A i : IsLast(i)' => i \in DOMAIN shown'
    BY DEF IsLast
  <2>4. HasLast'
    BY <1>0, <2>1, <2>2, <2>3 DEF HasLast
  <2>5. ASSUME NEW j \in jobs, TurnFinals(j)
        PROVE  Traced'
    <3>1. PICK o \in Answers : Becomes(j, [j EXCEPT !.at = "final", !.outcome = o])
      BY <2>5 DEF TurnFinals
    <3>2. PICK k : k = [j EXCEPT !.at = "final", !.outcome = o]
      OBVIOUS
    <3>3. k \in jobs' /\ k.kind = "turn" /\ k.at = "final"
      BY <1>0, <2>5, <3>1, <3>2 DEF AppTypes, JobRecords, Becomes, TurnFinals
    <3> QED BY <3>3 DEF Traced
  <2>6. ASSUME trace' = trace
        PROVE  Traced'
    <3>1. CASE trace = 0
      BY <2>6, <3>1 DEF Traced
    <3>2. ASSUME NEW j \in jobs, j.kind = "turn", j.at = "final"
          PROVE  Traced'
      BY <1>3, <3>2, FinalStays DEF Traced
    <3>3. ASSUME NEW i \in DOMAIN shown, IsLast(i), shown[i][2] = trace
          PROVE  Traced'
      BY <2>1, <2>3, <2>6, <3>3 DEF Traced
    <3> QED BY <1>0, <3>1, <3>2, <3>3 DEF Traced
  <2>7. ASSUME trace' = 0
        PROVE  Traced'
    BY <2>7 DEF Traced
  <2>8. trace' = trace \/ trace' = 0 \/ \E j \in jobs : TurnFinals(j)
    <3>1. ASSUME NEW j \in jobs,
                 \/ TurnBegins(j) \/ TurnCalls(j) \/ TurnStreams(j) \/ TurnReturns(j)
                 \/ TurnAsks(j) \/ TurnResumes(j) \/ TurnRecords(j) \/ TurnFails(j) \/ Release(j)
                 \/ ResetSession(j) \/ LoadSession(j) \/ DeleteSession(j) \/ UnlinkSession(j)
                 \/ ImportSession(j)
          PROVE  trace' = trace \/ trace' = 0
      BY <3>1 DEF TurnBegins, TurnCalls, TurnStreams, TurnReturns, TurnAsks, TurnResumes, TurnRecords,
         TurnFails, Release, ResetSession, Reset, LoadSession, DeleteSession, UnlinkSession,
         ImportSession, session
    <3>2. CASE \/ Submit \/ Escape \/ Reply \/ NewSession \/ OpenSessions \/ PickSession \/ PickDelete
               \/ ConfirmDelete \/ OpenImport \/ PickImport \/ StartApp
      BY <3>2 DEF Submit, Escape, Reply, NewSession, OpenSessions, PickSession, PickDelete,
         ConfirmDelete, OpenImport, PickImport, StartApp, session
    <3>3. CASE \/ Dismiss \/ OpenScreen \/ SetWorkspace \/ RenameSession \/ Close
               \/ PickTask \/ ListModels \/ PickPin \/ ApplyPin
      BY <3>3 DEF Dismiss, OpenScreen, SetWorkspace, RenameSession, Close, PickTask, ListModels,
         PickPin, ApplyPin, session
    <3> QED BY <1>3, <3>1, <3>2, <3>3 DEF AppNext
  <2> QED BY <2>4, <2>5, <2>6, <2>7, <2>8
<1> QED BY <1>1, <1>2, <1>3

LEMMA AppIndKept == AppInd /\ [AppNext]_appVars => AppInd'
<1> SUFFICES ASSUME AppInd, [AppNext]_appVars PROVE AppInd' OBVIOUS
<1>1. CASE AppNext
  BY <1>1, AppTypesKept, HolderKept, DeadKept, ChosenKept, AskedKept, StoppingKept, InOrderKept,
     OverKept, TracedKept DEF AppInd
<1>2. CASE UNCHANGED appVars
  <2>1. UNCHANGED <<up, busy, screens, jobs, cancel, pinning, cur, ws, trace, listed, shown, sent, pressed>>
    BY <1>2 DEF appVars, session
  <2>2. AppTypes' /\ Dead' /\ Chosen' /\ Asked' /\ Stopping'
    BY <2>1 DEF AppInd, AppTypes, AppTypeOK, Dead, Unlisted, Chosen, Asked, Holds, Stopping
  <2>3. Holder'
    BY <2>1, SameWorker DEF AppInd, IdsLeft, Unlisted
  <2>4. InOrder' /\ HasLast' /\ Traced'
    BY <2>1 DEF AppInd, InOrder, HasLast, Traced, IsLast
  <2>5. Over'
    BY <2>1, SameEnds DEF AppInd, Over
  <2> QED BY <2>2, <2>3, <2>4, <2>5 DEF AppInd
<1> QED BY <1>1, <1>2

-----------------------------------------------------------------------------
(* What follows from it *)

LEMMA OneOrNone ==
  ASSUME NEW S, \A x, y \in S : x = y
  PROVE  Cardinality(S) <= 1
<1>1. CASE S = {}
  BY <1>1, FS_EmptySet
<1>2. CASE S # {}
  <2>1. PICK x \in S : S = {x}
    BY <1>2
  <2> QED BY <2>1, FS_Singleton
<1> QED BY <1>1, <1>2

LEMMA JustTwo ==
  ASSUME NEW x, NEW y, x # y
  PROVE  Cardinality({x, y}) = 2
<1>1. IsFiniteSet({x}) /\ Cardinality({x}) = 1 /\ y \notin {x} /\ {x} \cup {y} = {x, y}
  BY FS_Singleton
<1>2. Cardinality({x} \cup {y}) = Cardinality({x}) + 1
  BY <1>1, FS_AddElement
<1> QED BY <1>1, <1>2

LEMMA OneHolds ==
  ASSUME AppInd
  PROVE  OneHolder
<1>1. Holder
  BY DEF AppInd
<1>2. Cardinality(jobs) <= 1
  BY <1>1, OneOrNone DEF Holder
<1>3. busy <=> jobs # {}
  BY <1>1, OneWorker DEF AppInd, AppTypes, Holder
<1>4. \A j \in jobs : j.kind = "turn" =>
        j.id = cur /\ (j.at \notin {"start", "closing"} => j.ws = ws)
  BY <1>1, OneWorker DEF OfJob, OfTurn
<1> QED BY <1>2, <1>3, <1>4 DEF OneHolder

LEMMA StandsApart ==
  ASSUME AppInd
  PROVE  TurnsStayApart
<1>0. AppTypes /\ Holder /\ InOrder /\ Over /\ sent \in Nat
  BY DEF AppInd, AppTypes, MessageNos
<1> SUFFICES ASSUME NEW n \in 1..sent
             PROVE  LET mine == Of(n)
                        ends == {i \in mine : shown[i][1] \in EndMarks}
                        kinds == {shown[i][1] : i \in ends}
                    IN /\ \A i, k \in mine : \A m \in i..k : m \in mine
                       /\ \A i \in mine : shown[i] = <<"you", n>> <=> \A k \in mine : i <= k
                       /\ Cardinality({i \in mine : shown[i][1] \in Answers \cup {"partial"}}) <= 1
                       /\ (\A j \in jobs : j.turn # n \/ j.at = "closing") =>
                            \/ Cardinality(ends) = 1
                            \/ Cardinality(ends) = 2 /\ "error" \in kinds /\ kinds \cap Answers # {}
  BY DEF TurnsStayApart
<1> DEFINE mine == Of(n)
           ends == {i \in mine : shown[i][1] \in EndMarks}
           kinds == {shown[i][1] : i \in ends}
<1>1. /\ mine = {i \in DOMAIN shown : shown[i][2] = n}
      /\ \A i : i \in ends <=> IsEnd(i, n)
  BY DEF Of, IsEnd
<1>2. \A i, k \in mine : \A m \in i..k : m \in mine
  <2> SUFFICES ASSUME NEW i \in mine, NEW k \in mine, NEW m \in i..k PROVE m \in mine
    OBVIOUS
  <2>1. i \in DOMAIN shown /\ k \in DOMAIN shown /\ m \in DOMAIN shown /\ i <= m /\ m <= k /\ i \in Nat /\ m \in Nat /\ k \in Nat
    BY <1>0, <1>1, BlocksTyped
  <2>2. shown[i][2] <= shown[m][2] /\ shown[m][2] <= shown[k][2]
    <3>1. i < m => shown[i][2] <= shown[m][2]
      BY <1>0, <2>1 DEF InOrder
    <3>2. m < k => shown[m][2] <= shown[k][2]
      BY <1>0, <2>1 DEF InOrder
    <3> QED BY <1>0, <2>1, <3>1, <3>2, BlocksTyped
  <2> QED BY <1>0, <1>1, <2>1, <2>2, BlocksTyped
<1>3. \A i \in mine : shown[i] = <<"you", n>> <=> \A k \in mine : i <= k
  <2>1. \A i \in mine : shown[i] = <<"you", n>> <=> shown[i][1] = "you"
    BY <1>0, <1>1, BlocksTyped
  <2> QED BY <1>0, <1>1, <2>1 DEF InOrder
<1>4. Cardinality({i \in mine : shown[i][1] \in Answers \cup {"partial"}}) <= 1
  <2>1. \A i, k \in {i \in mine : shown[i][1] \in Answers \cup {"partial"}} : i = k
    BY <1>0, <1>1 DEF InOrder
  <2> QED BY <2>1, OneOrNone
<1>5. ASSUME \A j \in jobs : j.turn # n \/ j.at = "closing"
      PROVE  \/ Cardinality(ends) = 1
             \/ Cardinality(ends) = 2 /\ "error" \in kinds /\ kinds \cap Answers # {}
  <2>1. Ended(n)
    <3>1. CASE \A j \in jobs : j.turn # n
      BY <1>0, <3>1 DEF Over
    <3>2. ASSUME NEW j \in jobs, j.turn = n
          PROVE  Ended(n)
      <4>1. j.kind = "turn" /\ OfTurn(j)
        BY <1>0, <3>2, OneWorker DEF OfJob, OfChange
      <4> QED BY <1>5, <3>2, <4>1 DEF OfTurn
    <3> QED BY <3>1, <3>2
  <2>2. ASSUME NEW i \in DOMAIN shown, OneEnd(i, n)
        PROVE  Cardinality(ends) = 1
    <3>1. ends = {i}
      BY <1>1, <2>2 DEF OneEnd, IsEnd
    <3> QED BY <3>1, FS_Singleton
  <2>3. CASE TwoEnds(n)
    <3>1. PICK i, k \in DOMAIN shown :
            /\ IsEnd(i, n) /\ shown[i][1] \in Answers /\ IsEnd(k, n) /\ shown[k][1] = "error"
            /\ \A m \in DOMAIN shown : IsEnd(m, n) => m \in {i, k}
      BY <2>3 DEF TwoEnds
    <3>2. ends = {i, k} /\ i # k
      BY <1>1, <3>1 DEF IsEnd, Answers
    <3>3. "error" \in kinds /\ kinds \cap Answers # {}
      BY <3>1, <3>2
    <3>4. Cardinality({i, k}) = 2
      BY <3>2, JustTwo
    <3>5. Cardinality(ends) = 2
      BY <3>2, <3>4
    <3> QED BY <3>3, <3>5
  <2> QED BY <2>1, <2>2, <2>3 DEF Ended
<1> QED BY <1>2, <1>3, <1>4, <1>5

LEMMA RestHolds ==
  ASSUME AppInd
  PROVE  OpenIsKept /\ AskedIsAwaited /\ StopLands /\ ScreensHold
<1>0. AppTypes /\ Holder /\ Chosen /\ Asked
  BY DEF AppInd
<1>1. OpenIsKept
  BY <1>0, OneWorker DEF OpenIsKept, Holds, OfJob, OfTurn, OfChange
<1>2. StopLands
  BY <1>0, OneWorker DEF StopLands, OfJob, OfTurn, OfChange
<1>3. AskedIsAwaited
  <2> DEFINE asks == {k \in DOMAIN screens : screens[k].kind = "ask"}
  <2>1. \A k \in asks : \E j \in Holds("turn", "asking") : j.turn = screens[k].seen
    BY <1>0 DEF Asked
  <2>2. ASSUME NEW j \in Holds("turn", "asking")
        PROVE  \E k \in asks : screens[k].seen = j.turn
    <3>1. PICK k \in asks : TRUE
      BY <1>0, <2>2 DEF Asked
    <3>2. PICK l \in Holds("turn", "asking") : l.turn = screens[k].seen
      BY <2>1
    <3>3. l = j
      BY <1>0, <2>2, <3>2, OneWorker DEF Holds
    <3> QED BY <3>1, <3>2, <3>3
  <2> QED BY <2>1, <2>2 DEF AskedIsAwaited
<1>4. ScreensHold
  <2>1. screens # <<>> => Len(screens) \in DOMAIN screens
    BY <1>0, TopTaken
  <2>2. On("score") /\ ~Top.running => trace \in {0, Top.seen}
    BY <1>0, <2>1 DEF On, Top, Chosen
  <2>3. On("setup") => jobs = {}
    BY <1>0, <2>1 DEF On, Top, Chosen, Choosers
  <2> QED BY <2>2, <2>3 DEF ScreensHold
<1> QED BY <1>1, <1>2, <1>3, <1>4

LEMMA AppIndImplies == AppInd => AppInv
BY OneHolds, StandsApart, RestHolds DEF AppInd, AppTypes, AppInv

\* tui.py: whatever is typed, picked and stopped while the application runs, one
\* worker holds the session, what was said ends once and in its place, a question
\* is on the screen while its turn waits, and a stop that was heard is followed by
\* no request.
THEOREM TheTerminalHolds == AppSpec => []AppInv
<1>1. AppInit => AppInd
  BY AppInitInd
<1>2. AppInd /\ [AppNext]_appVars => AppInd'
  BY AppIndKept
<1>3. AppInd => AppInv
  BY AppIndImplies
<1> QED BY <1>1, <1>2, <1>3, PTL DEF AppSpec
=============================================================================
