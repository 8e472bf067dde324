-------------------------- MODULE AgentLoop_proofs --------------------------
(***************************************************************************)
(* Proofs about AgentLoop, about Toolbox, the tools the loop calls, and    *)
(* about Benchmark, the trials it is run in, for every value of their      *)
(* constants.                                                              *)
(***************************************************************************)
EXTENDS AgentLoop, Toolbox, Benchmark, FiniteSetTheorems, SequenceTheorems, TLAPS

OneMessage == [kind : Kinds, of : Nat, says : Nat]

\* Every hold the gate remembers is in the conversation.
Remembers(f) == \A t \in f.confirmed : Holds(f.messages, Len(f.messages), t)

\* A frame of the right type whose conversation, and the one it would restart
\* from, run no irreversible call that was not held.
Sound(f) ==
  /\ f \in Frames
  /\ ResultsAreHeld(f.messages) /\ ResultsAreHeld(f.seed)
  /\ Remembers(f)

SoundInv == Sound(frame) /\ (parent = <<>> \/ (parent \in [1..1 -> Frames] /\ Sound(parent[1])))

LEMMA MessageType ==
  ASSUME NEW k \in Kinds, NEW o \in Nat, NEW s \in Nat
  PROVE  Message(k, o, s) \in OneMessage
BY DEF Message, OneMessage

\* A message that is no result of an irreversible call, or whose call was
\* held before, keeps a conversation as it should be.
LEMMA AppendKeeps ==
  ASSUME NEW msgs \in Messages, NEW m \in OneMessage, ResultsAreHeld(msgs),
         IsResult(m) /\ m.says # 0 => Holds(msgs, Len(msgs), m.says)
  PROVE  /\ Append(msgs, m) \in Messages
         /\ ResultsAreHeld(Append(msgs, m))
         /\ \A t : Holds(msgs, Len(msgs), t)
                     => Holds(Append(msgs, m), Len(Append(msgs, m)), t)
         /\ \A t : m.kind = "hold" /\ m.of = t
                     => Holds(Append(msgs, m), Len(Append(msgs, m)), t)
<1> DEFINE after == Append(msgs, m)
<1>1. /\ after \in Messages /\ Len(after) = Len(msgs) + 1 /\ Len(msgs) \in Nat
      /\ \A i \in 1..Len(msgs) : after[i] = msgs[i]
      /\ after[Len(msgs) + 1] = m
  BY DEF Messages, OneMessage
<1>2. ASSUME NEW n \in 0..Len(msgs), NEW t, Holds(msgs, n, t)
      PROVE  Holds(after, n, t)
  BY <1>1, <1>2 DEF Holds
<1>3. ResultsAreHeld(after)
  <2> SUFFICES ASSUME NEW i \in 1..Len(after), IsResult(after[i]), after[i].says # 0
               PROVE  Holds(after, i - 1, after[i].says)
    BY DEF ResultsAreHeld
  <2>1. CASE i \in 1..Len(msgs)
    <3>1. Holds(msgs, i - 1, msgs[i].says)
      BY <1>1, <2>1 DEF ResultsAreHeld
    <3> QED BY <1>1, <1>2, <2>1, <3>1
  <2>2. CASE i = Len(msgs) + 1
    <3>1. Holds(msgs, Len(msgs), m.says)
      BY <1>1, <2>2
    <3> QED BY <1>1, <1>2, <2>2, <3>1
  <2> QED BY <1>1, <2>1, <2>2
<1>4. ASSUME NEW t, Holds(msgs, Len(msgs), t)
      PROVE  Holds(after, Len(after), t)
  BY <1>1, <1>4 DEF Holds
<1>5. ASSUME NEW t, m.kind = "hold", m.of = t
      PROVE  Holds(after, Len(after), t)
  BY <1>1, <1>5 DEF Holds
<1> QED BY <1>1, <1>3, <1>4, <1>5

\* Compaction rewrites no hold and makes no result.
LEMMA CompactKeeps ==
  ASSUME NEW msgs \in Messages, NEW actions \in Seq(Nat), ResultsAreHeld(msgs)
  PROVE  /\ Compact(msgs, actions) \in Messages
         /\ ResultsAreHeld(Compact(msgs, actions))
         /\ \A t : Holds(msgs, Len(msgs), t)
              => Holds(Compact(msgs, actions), Len(Compact(msgs, actions)), t)
<1> DEFINE after == Compact(msgs, actions)
<1>0. msgs \in Seq(OneMessage)
  BY DEF Messages, OneMessage
<1>1. \A i \in 1..Len(msgs) : msgs[i] \in OneMessage
  BY <1>0, ElementOfSeq
<1>2. ASSUME NEW i \in 1..Len(msgs) PROVE Summary(msgs, i, actions) \in Nat
  BY <1>1 DEF Summary, OneMessage
<1>3. ASSUME NEW i \in 1..Len(msgs)
      PROVE  Message("stub", msgs[i].of, Summary(msgs, i, actions)) \in OneMessage
  BY <1>1, <1>2, MessageType DEF OneMessage, Kinds
<1>4. Len(msgs) \in Nat
  BY DEF Messages
<1>5. after \in [1..Len(msgs) -> OneMessage]
  BY <1>1, <1>3 DEF Compact
<1>6. after \in Messages /\ Len(after) = Len(msgs)
  <2>1. after \in Seq(OneMessage)
    BY <1>4, <1>5, SeqDef
  <2>2. Len(after) = Len(msgs)
    BY <1>4, <1>5, <2>1, LenProperties
  <2> QED BY <2>1, <2>2 DEF Messages, OneMessage
<1>7. ASSUME NEW i \in 1..Len(msgs)
      PROVE  /\ IsResult(after[i]) => after[i] = msgs[i]
             /\ msgs[i].kind = "hold" => after[i] = msgs[i]
  BY DEF Compact, Message, IsResult
<1>8. ASSUME NEW n \in 0..Len(msgs), NEW t, Holds(msgs, n, t)
      PROVE  Holds(after, n, t)
  BY <1>4, <1>7, <1>8 DEF Holds
<1>9. ResultsAreHeld(after)
  <2> SUFFICES ASSUME NEW i \in 1..Len(msgs), IsResult(after[i]), after[i].says # 0
               PROVE  Holds(after, i - 1, after[i].says)
    BY <1>6 DEF ResultsAreHeld
  <2>1. Holds(msgs, i - 1, msgs[i].says)
    BY <1>7 DEF ResultsAreHeld
  <2> QED BY <1>4, <1>7, <1>8, <2>1
<1> QED BY <1>4, <1>6, <1>8, <1>9

\* So the turn starts from a sound frame, the same but for its messages.
LEMMA PreparedKeeps ==
  ASSUME Sound(frame)
  PROVE  /\ Sound(Prepared)
         /\ Prepared = [frame EXCEPT !.messages = Prepared.messages]
<1> DEFINE msgs == Compact(frame.messages, frame.actions)
<1>1. /\ frame \in Frames /\ frame.messages \in Messages /\ frame.actions \in Seq(Nat)
      /\ ResultsAreHeld(frame.messages)
  BY DEF Sound, Frames
<1>2. /\ msgs \in Messages /\ ResultsAreHeld(msgs)
      /\ \A t : Holds(frame.messages, Len(frame.messages), t) => Holds(msgs, Len(msgs), t)
  BY <1>1, CompactKeeps
<1> HIDE DEF msgs
<1>3. [frame EXCEPT !.messages = msgs] \in Frames
  BY <1>1, <1>2 DEF Frames
<1>4. /\ [frame EXCEPT !.messages = msgs].messages = msgs
      /\ [frame EXCEPT !.messages = msgs].seed = frame.seed
      /\ [frame EXCEPT !.messages = msgs].confirmed = frame.confirmed
  BY <1>1 DEF Frames
<1>5. Sound([frame EXCEPT !.messages = msgs])
  BY <1>2, <1>3, <1>4 DEF Sound, Remembers
<1>6. frame = [frame EXCEPT !.messages = frame.messages]
  BY <1>1 DEF Frames
<1>7. Prepared = frame \/ Prepared = [frame EXCEPT !.messages = msgs]
  BY DEF Prepared, msgs
<1> QED BY <1>4, <1>5, <1>6, <1>7

-----------------------------------------------------------------------------
\* Whatever a turn changes of a sound frame besides what Sound reads.
LEMMA SameConversation ==
  ASSUME NEW f, NEW g \in Frames, Sound(f), g.messages = f.messages,
         g.seed = f.seed, g.confirmed = f.confirmed
  PROVE  Sound(g)
BY DEF Sound, Remembers

\* One more message in the conversation of a sound frame.
LEMMA OneMore ==
  ASSUME NEW f, NEW g \in Frames, NEW m \in OneMessage, Sound(f),
         IsResult(m) /\ m.says # 0 => m.says \in f.confirmed,
         g.messages = Append(f.messages, m), g.seed = f.seed,
         g.confirmed \subseteq f.confirmed \cup (IF m.kind = "hold" THEN {m.of} ELSE {})
  PROVE  Sound(g)
<1>1. f.messages \in Messages /\ ResultsAreHeld(f.messages) /\ ResultsAreHeld(g.seed)
  BY DEF Sound, Frames
<1>2. IsResult(m) /\ m.says # 0 => Holds(f.messages, Len(f.messages), m.says)
  BY DEF Sound, Remembers
<1>3. ResultsAreHeld(g.messages)
  BY <1>1, <1>2, AppendKeeps
<1>4. \A t : Holds(f.messages, Len(f.messages), t) \/ (m.kind = "hold" /\ m.of = t)
               => Holds(g.messages, Len(g.messages), t)
  BY <1>1, <1>2, AppendKeeps
<1>5. Remembers(g)
  BY <1>4 DEF Sound, Remembers
<1> QED BY <1>1, <1>3, <1>5 DEF Sound

\* A loop begins sound in a conversation that is, with nothing confirmed.
LEMMA NewFrameSound ==
  ASSUME NEW msgs \in Messages, NEW mode \in Modes, ResultsAreHeld(msgs)
  PROVE  Sound(NewFrame(msgs, mode))
<1>1. /\ SeedOf(msgs) \in Messages
      /\ Len(SeedOf(msgs)) <= Len(msgs)
      /\ \A i \in 1..Len(SeedOf(msgs)) : SeedOf(msgs)[i] = msgs[i]
  <2> DEFINE n == IF Notes >= 2 THEN 0 ELSE 2 - Notes
  <2>1. n \in Nat /\ Len(msgs) \in Nat /\ msgs \in Seq(OneMessage)
    BY NumbersAssumption DEF Messages, OneMessage
  <2>2. SeedOf(msgs) = FirstOf(msgs, n)
    BY DEF SeedOf
  <2> HIDE DEF n
  <2>3. CASE Len(msgs) <= n
    BY <2>1, <2>2, <2>3 DEF FirstOf
  <2>4. CASE ~(Len(msgs) <= n)
    <3>1. \A i \in 1..n : msgs[i] \in OneMessage
      BY <2>1, <2>4, ElementOfSeq
    <3>2. /\ SubSeq(msgs, 1, n) \in Seq(OneMessage)
          /\ Len(SubSeq(msgs, 1, n)) = IF 1 <= n THEN n - 1 + 1 ELSE 0
          /\ \A i \in 1..(n - 1 + 1) : SubSeq(msgs, 1, n)[i] = msgs[1 + i - 1]
      BY <2>1, <3>1, SubSeqProperties
    <3>3. Len(SubSeq(msgs, 1, n)) = n
      BY <2>1, <3>2
    <3>4. \A i \in 1..n : SubSeq(msgs, 1, n)[i] = msgs[i]
      BY <2>1, <3>2
    <3> QED BY <2>1, <2>2, <2>4, <3>2, <3>3, <3>4 DEF FirstOf, Messages, OneMessage
  <2> QED BY <2>3, <2>4
<1>2. Len(msgs) \in Nat /\ Len(SeedOf(msgs)) \in Nat
  BY <1>1 DEF Messages
<1>3. ResultsAreHeld(SeedOf(msgs))
  BY <1>1, <1>2 DEF ResultsAreHeld, Holds
<1>4. NewFrame(msgs, mode) \in Frames
  BY <1>1, NumbersAssumption DEF NewFrame, Frames
<1> QED BY <1>3, <1>4 DEF Sound, Remembers, NewFrame

-----------------------------------------------------------------------------
\* What is not in a frame.
CountsOK == calls \in Nat /\ ran \in Nat /\ runs \in 0..Reruns
SavedOK == saved \in [mode : Modes, actions : Seq(Nat), asks : BOOLEAN]
WhyOK == why \in {"none", "final", "budget", "dead", "ask", "error", "rejected", "over"}
ProofOK == proof \in [owed : BOOLEAN, asked : BOOLEAN]

LoopInv == SoundInv /\ CountsOK /\ SavedOK /\ WhyOK /\ ProofOK

\* What a turn keeps.
Kept == SoundInv' /\ SavedOK' /\ WhyOK' /\ runs' = runs

LEMMA ParentSound ==
  ASSUME NEW f, Sound(f)
  PROVE  <<f>> \in [1..1 -> Frames] /\ <<f>>[1] = f
BY DEF Sound

LEMMA GoesOnSound ==
  ASSUME LoopInv, NEW f, Sound(f), GoesOn(f)
  PROVE  Kept
BY DEF LoopInv, SoundInv, GoesOn, SavedOK, WhyOK, Kept

LEMMA StopsSound ==
  ASSUME LoopInv, NEW f, Sound(f), NEW reason, NEW mode \in Modes,
         reason \in {"final", "budget", "dead", "ask", "error"},
         Stops(f, reason, mode)
  PROVE  Kept
<1>1. SoundInv' /\ WhyOK' /\ runs' = runs
  BY DEF SoundInv, Stops, WhyOK
<1>2. saved.actions \in Seq(Nat) /\ f.actions \in Seq(Nat)
  BY DEF LoopInv, SavedOK, Sound, Frames
<1>3. saved.actions \o f.actions \in Seq(Nat)
  BY <1>2
<1>4. saved' = [saved EXCEPT !.mode = mode, !.actions = @ \o f.actions]
  BY DEF Stops
<1>5. saved \in [mode : Modes, actions : Seq(Nat), asks : BOOLEAN]
  BY DEF LoopInv, SavedOK
<1>6. saved' = [mode |-> mode, actions |-> saved.actions \o f.actions,
                asks |-> saved.asks]
  BY <1>4, <1>5
<1>7. SavedOK'
  BY <1>3, <1>5, <1>6, SMT DEF SavedOK
<1> QED BY <1>1, <1>7 DEF Kept

LEMMA AnsweredSound ==
  ASSUME NEW f, Sound(f), NEW m \in OneMessage,
         IsResult(m), m.says # 0 => m.says \in f.confirmed
  PROVE  Sound(Answered(f, m))
<1>1. f \in Frames /\ f.messages \in Messages /\ ResultsAreHeld(f.messages)
  BY DEF Sound, Frames
<1>2. Append(f.messages, m) \in Messages
  BY <1>1 DEF Messages, OneMessage
<1>3. Answered(f, m) \in Frames
  <2>1. 0 \in 0..(DeadReplies - 1) /\ f.iteration + 1 \in Nat
    BY <1>1, NumbersAssumption DEF Frames
  <2>2. TRUE \in BOOLEAN
    OBVIOUS
  <2> QED BY <1>1, <1>2, <2>1, <2>2 DEF Answered, Frames
<1>4. /\ Answered(f, m).messages = Append(f.messages, m)
      /\ Answered(f, m).seed = f.seed
      /\ Answered(f, m).confirmed = f.confirmed
  BY <1>1 DEF Answered, Frames
<1> HIDE DEF Answered
<1> QED BY <1>3, <1>4, OneMore DEF IsResult

LEMMA HandsUpSound ==
  ASSUME LoopInv, InChild, NEW actions \in Seq(Nat), HandsUp(actions)
  PROVE  Kept
<1>1. Sound(parent[1])
  BY DEF LoopInv, SoundInv, InChild
<1>2. PICK size \in {"large", "small"} :
        frame' = [Answered(parent[1], Message(size, 0, 0)) EXCEPT !.actions = @ \o actions]
  BY DEF HandsUp
<1> DEFINE f == Answered(parent[1], Message(size, 0, 0))
<1>3. Message(size, 0, 0) \in OneMessage /\ IsResult(Message(size, 0, 0)) /\ Message(size, 0, 0).says = 0
  BY DEF Message, OneMessage, Kinds, IsResult
<1>4. Sound(f)
  BY <1>1, <1>3, AnsweredSound
<1> HIDE DEF f
<1>5. f \in Frames /\ f.actions \in Seq(Nat)
  BY <1>4 DEF Sound, Frames
<1>6. f.actions \o actions \in Seq(Nat)
  BY <1>5
<1>7. /\ [f EXCEPT !.actions = @ \o actions] \in Frames
      /\ [f EXCEPT !.actions = @ \o actions].messages = f.messages
      /\ [f EXCEPT !.actions = @ \o actions].seed = f.seed
      /\ [f EXCEPT !.actions = @ \o actions].confirmed = f.confirmed
  BY <1>5, <1>6 DEF Frames
<1>8. Sound(frame')
  BY <1>2, <1>4, <1>7, SameConversation DEF f
<1> QED BY <1>8 DEF SoundInv, HandsUp, LoopInv, SavedOK, WhyOK, Kept

LEMMA ReturnsSound ==
  ASSUME LoopInv, NEW reason, Returns(reason),
         InChild \/ reason \in {"final", "budget", "dead"}
  PROVE  Kept
<1>1. frame.actions \in Seq(Nat) /\ frame.mode \in Modes
  BY DEF LoopInv, SoundInv, Sound, Frames
<1>2. CASE InChild
  BY <1>1, <1>2, HandsUpSound DEF Returns
<1>3. CASE ~InChild
  <2>1. Sound(Prepared)
    BY PreparedKeeps DEF LoopInv, SoundInv
  <2>2. Stops(Prepared, reason, frame.mode)
    BY <1>3 DEF Returns
  <2> QED BY <1>1, <1>3, <2>1, <2>2, StopsSound
<1> QED BY <1>2, <1>3

LEMMA TurnCounts ==
  ASSUME calls \in Nat, Calls
  PROVE  calls' \in Nat
BY NumbersAssumption DEF Calls

-----------------------------------------------------------------------------
\* The frames a turn goes on with are sound.
LEMMA HoldsAnswerSound == LoopInv /\ HoldsAnswer => Kept
<1> SUFFICES ASSUME LoopInv, HoldsAnswer PROVE Kept
  OBVIOUS
<1> DEFINE m == Message("note", 0, 0)
           f == [Prepared EXCEPT !.asked = @ \cup {Hold}, !.messages = Append(@, m)]
<1>1. m \in OneMessage /\ ~IsResult(m) /\ m.kind # "hold"
  BY DEF Message, OneMessage, Kinds, IsResult
<1> HIDE DEF m
<1>2. Sound(Prepared) /\ Prepared \in Frames
  BY PreparedKeeps DEF LoopInv, SoundInv, Sound
<1>3. Append(Prepared.messages, m) \in Messages /\ Prepared.asked \cup {Hold} \in SUBSET {"proof", "steps"}
  BY <1>1, <1>2 DEF Frames, Messages, OneMessage, HoldsAnswer, Hold
<1>4. /\ f \in Frames /\ f.messages = Append(Prepared.messages, m)
      /\ f.seed = Prepared.seed /\ f.confirmed = Prepared.confirmed
  BY <1>2, <1>3 DEF Frames
<1>5. GoesOn(f)
  BY DEF HoldsAnswer, m
<1> HIDE DEF f
<1>6. Sound(f)
  BY <1>1, <1>2, <1>4, OneMore
<1> QED BY <1>5, <1>6, GoesOnSound
LEMMA UnparseableSound ==
  ASSUME LoopInv, NEW text \in BOOLEAN, Unparseable(text) PROVE Kept
<1> DEFINE m == Message("note", 0, 0)
           f == [Prepared EXCEPT !.dead = @ + 1, !.output = text \/ @,
                                 !.messages = Append(@, m)]
<1>1. m \in OneMessage /\ ~IsResult(m) /\ m.kind # "hold"
  BY DEF Message, OneMessage, Kinds, IsResult
<1> HIDE DEF m
<1>2. Sound(Prepared) /\ Prepared \in Frames
  BY PreparedKeeps DEF LoopInv, SoundInv, Sound
<1>3. CASE frame.dead + 1 >= DeadReplies
  BY <1>3, ReturnsSound DEF Unparseable
<1>4. CASE ~(frame.dead + 1 >= DeadReplies)
  <2>0. Prepared.dead = frame.dead /\ frame \in Frames
    BY PreparedKeeps DEF LoopInv, SoundInv, Sound, Frames
  <2>1. Append(Prepared.messages, m) \in Messages
    BY <1>1, <1>2 DEF Frames, Messages, OneMessage
  <2>2. Prepared.dead + 1 \in 0..(DeadReplies - 1)
    BY <1>4, <2>0, NumbersAssumption DEF Frames
  <2>3. (text \/ Prepared.output) \in BOOLEAN
    BY <1>2, Zenon DEF Frames
  <2>4. f \in Frames
    BY <1>2, <2>1, <2>2, <2>3 DEF Frames
  <2>5. /\ f.messages = Append(Prepared.messages, m)
        /\ f.seed = Prepared.seed /\ f.confirmed = Prepared.confirmed
    BY <1>2 DEF Frames
  <2>6. GoesOn(f)
    BY <1>4 DEF Unparseable, m
  <2> HIDE DEF f
  <2>7. Sound(f)
    BY <1>1, <1>2, <2>4, <2>5, OneMore
  <2> QED BY <2>6, <2>7, GoesOnSound
<1> QED BY <1>3, <1>4

LEMMA AskRefusedSound ==
  ASSUME LoopInv, AskRefused PROVE Kept
<1> DEFINE m == Message("note", 0, 0)
           f == [Prepared EXCEPT !.refused = @ + 1, !.dead = 0, !.iteration = @ + 1,
                                 !.messages = Append(@, m)]
<1>1. m \in OneMessage /\ ~IsResult(m) /\ m.kind # "hold"
  BY DEF Message, OneMessage, Kinds, IsResult
<1> HIDE DEF m
<1>2. Sound(Prepared) /\ Prepared \in Frames
  BY PreparedKeeps DEF LoopInv, SoundInv, Sound
<1>3. CASE frame.refused + 1 >= RefusedAsks
  BY <1>3, ReturnsSound DEF AskRefused
<1>4. CASE ~(frame.refused + 1 >= RefusedAsks)
  <2>0. Prepared.refused = frame.refused /\ frame \in Frames
    BY PreparedKeeps DEF LoopInv, SoundInv, Sound, Frames
  <2>1. Append(Prepared.messages, m) \in Messages
    BY <1>1, <1>2 DEF Frames, Messages, OneMessage
  <2>2. Prepared.refused + 1 \in 0..(RefusedAsks - 1) /\ 0 \in 0..(DeadReplies - 1)
    BY <1>4, <2>0, NumbersAssumption DEF Frames
  <2>3. Prepared.iteration + 1 \in Nat
    BY <1>2 DEF Frames
  <2>4. f \in Frames
    BY <1>2, <2>1, <2>2, <2>3 DEF Frames
  <2>5. /\ f.messages = Append(Prepared.messages, m)
        /\ f.seed = Prepared.seed /\ f.confirmed = Prepared.confirmed
    BY <1>2 DEF Frames
  <2>6. GoesOn(f)
    BY <1>4 DEF AskRefused, m
  <2> HIDE DEF f
  <2>7. Sound(f)
    BY <1>1, <1>2, <2>4, <2>5, OneMore
  <2> QED BY <2>6, <2>7, GoesOnSound
<1> QED BY <1>3, <1>4

LEMMA AsksSound ==
  ASSUME LoopInv, Asks PROVE Kept
<1> DEFINE m == Message("question", 0, 0)
           f == [Prepared EXCEPT !.messages = Append(@, m)]
<1>1. m \in OneMessage /\ ~IsResult(m) /\ m.kind # "hold"
  BY DEF Message, OneMessage, Kinds, IsResult
<1> HIDE DEF m
<1>2. Sound(Prepared) /\ Prepared \in Frames
  BY PreparedKeeps DEF LoopInv, SoundInv, Sound
<1>3. saved.mode \in Modes
  BY DEF LoopInv, SavedOK
<1>4. CASE InChild
  <2>1. Sound(parent[1])
    BY <1>4 DEF LoopInv, SoundInv, InChild
  <2>2. Stops(parent[1], "ask", saved.mode)
    BY <1>4 DEF Asks
  <2> QED BY <1>3, <2>1, <2>2, StopsSound
<1>5. CASE ~InChild
  <2>1. Append(Prepared.messages, m) \in Messages
    BY <1>1, <1>2 DEF Frames, Messages, OneMessage
  <2>2. /\ f \in Frames /\ f.messages = Append(Prepared.messages, m)
        /\ f.seed = Prepared.seed /\ f.confirmed = Prepared.confirmed
    BY <1>2, <2>1 DEF Frames
  <2>3. Stops(f, "ask", saved.mode)
    BY <1>5 DEF Asks, m
  <2> HIDE DEF f
  <2>4. Sound(f)
    BY <1>1, <1>2, <2>2, OneMore
  <2> QED BY <1>3, <2>3, <2>4, StopsSound
<1> QED BY <1>4, <1>5

LEMMA ProviderFailsSound ==
  ASSUME LoopInv, ProviderFails PROVE Kept
<1>2. Sound(Prepared) /\ Prepared \in Frames
  BY PreparedKeeps DEF LoopInv, SoundInv, Sound
<1>3. CASE InChild
  <2>1. HandsUp(<<>>) /\ <<>> \in Seq(Nat)
    BY <1>3 DEF ProviderFails
  <2> QED BY <1>3, <2>1, HandsUpSound
<1>4. CASE ~InChild
  BY <1>2, <1>4, StopsSound DEF ProviderFails, LoopInv, SavedOK
<1> QED BY <1>3, <1>4

\* The conversation a subtask starts with.
LEMMA ContractHeld ==
  /\ <<Message("said", 0, 0), Message("mode", 0, 0)>> \in Messages
  /\ ResultsAreHeld(<<Message("said", 0, 0), Message("mode", 0, 0)>>)
<1> DEFINE a == Message("said", 0, 0)  b == Message("mode", 0, 0)
<1>1. a \in OneMessage /\ b \in OneMessage /\ ~IsResult(a) /\ ~IsResult(b)
  BY DEF Message, OneMessage, Kinds, IsResult
<1> HIDE DEF a, b
<1>2. <<a, b>> \in Messages /\ ResultsAreHeld(<<a, b>>)
  BY <1>1 DEF Messages, OneMessage, ResultsAreHeld
<1> QED BY <1>2 DEF a, b

LEMMA DelegateSound ==
  ASSUME LoopInv, NEW mode \in Modes, Delegate(mode) PROVE Kept
<1> DEFINE m == Message("small", 0, 0)
<1>1. m \in OneMessage /\ IsResult(m) /\ m.says = 0
  BY DEF Message, OneMessage, Kinds, IsResult
<1> HIDE DEF m
<1>2. Sound(Prepared) /\ Prepared \in Frames
  BY PreparedKeeps DEF LoopInv, SoundInv, Sound
<1>3. CASE InChild \/ mode = frame.mode
  <2>1. GoesOn(Answered(Prepared, m))
    BY <1>3 DEF Delegate, m
  <2> QED BY <1>1, <1>2, <2>1, AnsweredSound, GoesOnSound
<1>4. CASE ~(InChild \/ mode = frame.mode)
  <2>1. Sound(NewFrame(<<Message("said", 0, 0), Message("mode", 0, 0)>>, mode))
    BY ContractHeld, NewFrameSound
  <2>2. SoundInv'
    BY <1>2, <1>4, <2>1, ParentSound DEF Delegate, SoundInv
  <2> QED BY <1>4, <2>2 DEF Delegate, Kept, LoopInv, SavedOK, WhyOK
<1> QED BY <1>3, <1>4

LEMMA ToolRefusedSound ==
  ASSUME LoopInv, ToolRefused PROVE Kept
<1> DEFINE m == Message("small", 0, 0)
<1>1. m \in OneMessage /\ IsResult(m) /\ m.says = 0
  BY DEF Message, OneMessage, Kinds, IsResult
<1> HIDE DEF m
<1>2. Sound(Prepared) /\ Prepared \in Frames
  BY PreparedKeeps DEF LoopInv, SoundInv, Sound
<1>3. GoesOn(Answered(Prepared, m))
  BY DEF ToolRefused, m
<1> QED BY <1>1, <1>2, <1>3, AnsweredSound, GoesOnSound

\* A restarted conversation, of which the gate remembers nothing.
LEMMA RestartedSound ==
  ASSUME NEW f, Sound(f) PROVE Sound(Restarted(f))
<1> DEFINE m == Message("fresh", 0, 0)
<1>1. m \in OneMessage /\ ~IsResult(m)
  BY DEF Message, OneMessage, Kinds, IsResult
<1> HIDE DEF m
<1>2. f \in Frames /\ f.seed \in Messages /\ ResultsAreHeld(f.seed)
  BY DEF Sound, Frames
<1>3. Append(f.seed, m) \in Messages /\ ResultsAreHeld(Append(f.seed, m))
  BY <1>1, <1>2, AppendKeeps
<1>4. Restarted(f) = [f EXCEPT !.messages = Append(f.seed, m), !.confirmed = {}]
  BY DEF Restarted, m
<1>5. Restarted(f) \in Frames /\ Restarted(f).confirmed = {}
      /\ Restarted(f).messages = Append(f.seed, m) /\ Restarted(f).seed = f.seed
  BY <1>2, <1>3, <1>4 DEF Frames
<1> QED BY <1>2, <1>3, <1>5 DEF Sound, Remembers

\* A mode that is entered, or refused.
LEMMA SwitchedSound ==
  ASSUME NEW f, Sound(f), NEW mode \in Modes, f.swaps < ModeSwaps
  PROVE  Sound([f EXCEPT !.messages = Append(@, Message("mode", 0, 0)),
                         !.mode = mode, !.swaps = @ + 1, !.worked = FALSE])
<1> DEFINE m == Message("mode", 0, 0)
           g == [f EXCEPT !.messages = Append(@, m),
                          !.mode = mode, !.swaps = @ + 1, !.worked = FALSE]
<1>1. m \in OneMessage /\ ~IsResult(m) /\ m.kind # "hold"
  BY DEF Message, OneMessage, Kinds, IsResult
<1> SUFFICES Sound(g)
  OBVIOUS
<1> HIDE DEF m
<1>2. f \in Frames
  BY DEF Sound
<1>3. Append(f.messages, m) \in Messages
  BY <1>1, <1>2 DEF Frames, Messages, OneMessage
<1>4. f.swaps + 1 \in 0..ModeSwaps
  BY <1>2, NumbersAssumption DEF Frames
<1>5. /\ g \in Frames /\ g.messages = Append(f.messages, m)
      /\ g.seed = f.seed /\ g.confirmed = f.confirmed
  BY <1>2, <1>3, <1>4 DEF Frames
<1> HIDE DEF g
<1> QED BY <1>1, <1>5, OneMore

LEMMA RefusedSound ==
  ASSUME NEW f, Sound(f)
  PROVE  Sound([f EXCEPT !.messages = Append(@, Message("note", 0, 0))])
<1> DEFINE m == Message("note", 0, 0)
           g == [f EXCEPT !.messages = Append(@, m)]
<1>1. m \in OneMessage /\ ~IsResult(m) /\ m.kind # "hold"
  BY DEF Message, OneMessage, Kinds, IsResult
<1> SUFFICES Sound(g)
  OBVIOUS
<1> HIDE DEF m
<1>2. f \in Frames
  BY DEF Sound
<1>3. Append(f.messages, m) \in Messages
  BY <1>1, <1>2 DEF Frames, Messages, OneMessage
<1>4. /\ g \in Frames /\ g.messages = Append(f.messages, m)
      /\ g.seed = f.seed /\ g.confirmed = f.confirmed
  BY <1>2, <1>3 DEF Frames
<1> HIDE DEF g
<1> QED BY <1>1, <1>4, OneMore

LEMMA SwitchModeSound ==
  ASSUME LoopInv, NEW mode \in Modes, SwitchMode(mode) PROVE Kept
<1> DEFINE here == [Prepared EXCEPT !.dead = 0]
           next == IF Escalates(mode) THEN Restarted(here) ELSE here
           yes == [next EXCEPT !.messages = Append(@, Message("mode", 0, 0)),
                               !.mode = mode, !.swaps = @ + 1, !.worked = FALSE]
           no == [here EXCEPT !.messages = Append(@, Message("note", 0, 0))]
<1>1. GoesOn(IF MaySwitch(mode) THEN yes ELSE no)
  BY DEF SwitchMode
<1>2. Sound(Prepared) /\ Prepared \in Frames
  BY PreparedKeeps DEF LoopInv, SoundInv, Sound
<1>3. 0 \in 0..(DeadReplies - 1)
  BY NumbersAssumption
<1>4. /\ here \in Frames /\ here.messages = Prepared.messages
      /\ here.seed = Prepared.seed /\ here.confirmed = Prepared.confirmed
  BY <1>2, <1>3 DEF Frames
<1>5. Sound(here) /\ here.swaps = frame.swaps
  <2>1. here.swaps = frame.swaps
    BY <1>2, PreparedKeeps DEF Frames, LoopInv, SoundInv, Sound
  <2> QED BY <1>2, <1>4, <2>1, SameConversation
<1> HIDE DEF here
<1>6. Sound(next) /\ next.swaps = frame.swaps
  BY <1>4, <1>5, RestartedSound DEF Restarted, Frames
<1> HIDE DEF next
<1>7. CASE MaySwitch(mode)
  <2>1. Sound(yes)
    BY <1>6, <1>7, SwitchedSound DEF MaySwitch
  <2> QED BY <1>1, <1>7, <2>1, GoesOnSound
<1>8. CASE ~MaySwitch(mode)
  <2>1. Sound(no)
    BY <1>5, RefusedSound
  <2> QED BY <1>1, <1>8, <2>1, GoesOnSound
<1> QED BY <1>7, <1>8

LEMMA HoldsToolSound ==
  ASSUME LoopInv, NEW t \in Targets, HoldsTool(t) PROVE Kept
<1> DEFINE m == Message("hold", t, 0)
           f == [Prepared EXCEPT !.messages = Append(@, m), !.confirmed = @ \cup {t},
                                 !.dead = 0, !.worked = TRUE]
<1>1. m \in OneMessage /\ ~IsResult(m) /\ m.kind = "hold" /\ m.of = t
  BY ModesAssumption DEF Message, OneMessage, Kinds, IsResult
<1> HIDE DEF m
<1>2. Sound(Prepared) /\ Prepared \in Frames
  BY PreparedKeeps DEF LoopInv, SoundInv, Sound
<1>3. Append(Prepared.messages, m) \in Messages
  BY <1>1, <1>2 DEF Frames, Messages, OneMessage
<1>4. 0 \in 0..(DeadReplies - 1) /\ TRUE \in BOOLEAN /\ Prepared.confirmed \cup {t} \in SUBSET Targets
  BY <1>2, NumbersAssumption DEF Frames
<1>5. /\ f \in Frames /\ f.messages = Append(Prepared.messages, m)
      /\ f.seed = Prepared.seed /\ f.confirmed = Prepared.confirmed \cup {t}
  BY <1>2, <1>3, <1>4 DEF Frames
<1>6. GoesOn(f)
  BY DEF HoldsTool, m
<1> HIDE DEF f
<1>7. Sound(f)
  BY <1>1, <1>2, <1>5, OneMore
<1> QED BY <1>6, <1>7, GoesOnSound

\* A tool that ran on no target, or on one the gate remembers.
LEMMA RanSound ==
  ASSUME LoopInv, NEW f, Sound(f), NEW t \in Targets \cup {0},
         t # 0 => t \in f.confirmed, Ran(f, t)
  PROVE  Kept
<1>1. ran + 1 \in Nat /\ ran' = ran + 1 /\ t \in Nat
  BY ModesAssumption DEF LoopInv, CountsOK, Ran
<1> DEFINE g == [f EXCEPT !.actions = Append(@, ran + 1)]
<1>2. PICK size \in {"large", "small"} : GoesOn(Answered(g, Message(size, ran + 1, t)))
  BY <1>1 DEF Ran
<1> DEFINE m == Message(size, ran + 1, t)
<1>3. m \in OneMessage /\ IsResult(m) /\ m.says = t
  BY <1>1 DEF Message, OneMessage, Kinds, IsResult
<1>4. f \in Frames /\ Append(f.actions, ran + 1) \in Seq(Nat)
  BY <1>1 DEF Sound, Frames
<1>5. /\ g \in Frames /\ g.messages = f.messages
      /\ g.seed = f.seed /\ g.confirmed = f.confirmed
  BY <1>4 DEF Frames
<1> HIDE DEF g, m
<1>6. Sound(g)
  BY <1>5, SameConversation
<1>7. Sound(Answered(g, m))
  BY <1>3, <1>5, <1>6, AnsweredSound
<1> QED BY <1>2, <1>7, GoesOnSound DEF m, g

LEMMA RunHeldSound ==
  ASSUME LoopInv, NEW t \in Targets, RunHeld(t) PROVE Kept
<1>1. Sound(Prepared) /\ Prepared.confirmed = frame.confirmed
  BY PreparedKeeps DEF LoopInv, SoundInv, Sound, Frames
<1> QED BY <1>1, RanSound DEF RunHeld

\* The ledger is all of a frame that a tool's effect changes.
LEMMA Recorded ==
  ASSUME NEW f \in Frames, NEW e \in Effects
  PROVE  /\ Record(f, e) \in Frames /\ Record(f, e).messages = f.messages
         /\ Record(f, e).seed = f.seed /\ Record(f, e).confirmed = f.confirmed
<1>1. /\ e.adds \in SUBSET {"check", "use", "render"}
      /\ e.launches \in BOOLEAN
  <2> DEFINE All == {"check", "use", "render"}
  <2>1. \E a, p \in SUBSET All, l \in BOOLEAN : e = Effect(a, p, l)
    <3>1. CASE \E a \in {{"check"}, {"check", "use"}, {"check", "use", "render"}} :
                 e = Effect(a, {}, FALSE)
      BY <3>1
    <3>2. CASE \E p \in {{}, {"check"}, {"check", "use"}} : e = Effect({}, p, FALSE)
      BY <3>2
    <3>3. CASE \E p \in {{"check"}, {"check", "use"}} :
                 e = Effect({}, p \cup {"render"}, FALSE)
      BY <3>3
    <3>4. CASE \E p \in {{"check"}, {"check", "render"}} : e = Effect({}, p, TRUE)
      BY <3>4
    <3> QED BY <3>1, <3>2, <3>3, <3>4, Zenon DEF Effects
  <2>2. PICK a \in SUBSET All, p \in SUBSET All, l \in BOOLEAN : e = Effect(a, p, l)
    BY <2>1
  <2>3. e.adds = a /\ e.launches = l
    BY <2>2 DEF Effect
  <2> QED BY <2>3
<1>2. (f.needs \ e.proves) \cup e.adds \in SUBSET {"check", "use", "render"}
  BY <1>1 DEF Frames
<1>3. (e.launches \/ (f.launched /\ "use" \notin e.proves)) \in BOOLEAN
  BY <1>1, Zenon DEF Frames
<1> QED BY <1>2, <1>3 DEF Record, Frames

LEMMA RunToolSound ==
  ASSUME LoopInv, NEW e \in Effects, RunTool(e) PROVE Kept
<1> DEFINE f == Record(Prepared, e)
<1>1. Sound(Prepared) /\ Prepared \in Frames
  BY PreparedKeeps DEF LoopInv, SoundInv, Sound
<1>2. /\ f \in Frames /\ f.messages = Prepared.messages
      /\ f.seed = Prepared.seed /\ f.confirmed = Prepared.confirmed
  BY <1>1, Recorded
<1> HIDE DEF f
<1>3. Sound(f)
  BY <1>1, <1>2, SameConversation
<1>4. Ran(f, 0)
  BY DEF RunTool, f
<1> QED BY <1>3, <1>4, RanSound

-----------------------------------------------------------------------------
\* An answer of the person leaves the type of what is saved as it is.
LEMMA AsksFallSaved ==
  ASSUME SavedOK, AsksFall PROVE SavedOK'
<1>1. PICK left \in BOOLEAN : saved' = [saved EXCEPT !.asks = left]
  BY DEF AsksFall
<1> QED BY <1>1 DEF SavedOK

LEMMA AgainSound ==
  ASSUME LoopInv, Again
  PROVE  SoundInv' /\ SavedOK' /\ WhyOK' /\ CountsOK' /\ ProofOK'
<1> DEFINE m == Message("said", 0, 0)
<1>1. m \in OneMessage /\ ~IsResult(m)
  BY DEF Message, OneMessage, Kinds, IsResult
<1> HIDE DEF m
<1>2. frame \in Frames /\ frame.messages \in Messages /\ ResultsAreHeld(frame.messages)
  BY DEF LoopInv, SoundInv, Sound, Frames
<1>3. Append(frame.messages, m) \in Messages /\ ResultsAreHeld(Append(frame.messages, m))
  BY <1>1, <1>2, AppendKeeps
<1>4. saved.mode \in Modes
  BY DEF LoopInv, SavedOK
<1>5. Sound(NewFrame(Append(frame.messages, m), saved.mode))
  BY <1>3, <1>4, NewFrameSound
<1>6. SoundInv'
  BY <1>5 DEF Again, LoopInv, SoundInv, m
<1>7. SavedOK'
  BY AsksFallSaved DEF Again, LoopInv, SavedOK
<1>8. WhyOK' /\ CountsOK' /\ ProofOK'
  <2>1. calls' \in Nat
    BY NumbersAssumption DEF Again, LoopInv, CountsOK
  <2> QED BY <2>1, NumbersAssumption DEF Again, LoopInv, WhyOK, CountsOK, ProofOK
<1> QED BY <1>6, <1>7, <1>8

\* The judge spends, and leaves every conversation as it is.
LEMMA JudgeSound ==
  ASSUME LoopInv, Judge
  PROVE  SoundInv' /\ SavedOK' /\ WhyOK' /\ CountsOK' /\ ProofOK'
<1>1. UNCHANGED <<frame, parent, ran, proof>>
  BY DEF Judge, JudgeCalls, JudgeAsks, JudgeRejects, JudgeEnds
<1>2. SavedOK'
  BY AsksFallSaved DEF Judge, JudgeCalls, JudgeAsks, JudgeRejects, JudgeEnds, LoopInv, SavedOK
<1>3. calls' \in Nat /\ runs' \in 0..Reruns
  BY NumbersAssumption
     DEF Judge, JudgeCalls, JudgeAsks, JudgeRejects, JudgeEnds, SpendsUpTo, Calls,
         LoopInv, CountsOK
<1>4. WhyOK'
  BY DEF Judge, JudgeCalls, JudgeAsks, JudgeRejects, JudgeEnds, LoopInv, WhyOK
<1> QED BY <1>1, <1>2, <1>3, <1>4 DEF LoopInv, SoundInv, CountsOK, ProofOK

\* What a turn counts.
LEMMA CountsStep ==
  ASSUME LoopInv, Next, ~Again, ~Judge
  PROVE  CountsOK' <=> runs' \in 0..Reruns
<1>1. calls' \in Nat
  BY TurnCounts, Zenon
     DEF Next, LoopInv, CountsOK, OutOfBudget, LastCall, Exhausted, HoldsAnswer, Final,
         Unparseable, Asks, AskRefused, Delegate, SwitchMode, HoldsTool, RunHeld,
         RunTool, Ran, ToolRefused, ProviderFails, Turn
<1>2. ran' = ran \/ ran' = ran + 1
  BY Zenon
     DEF Next, OutOfBudget, Exhausted, HoldsAnswer, Final,
         Unparseable, Asks, AskRefused, Delegate, SwitchMode, HoldsTool, RunHeld,
         RunTool, Ran, ToolRefused, ProviderFails
<1> QED BY <1>1, <1>2 DEF LoopInv, CountsOK

LEMMA ProofStep ==
  ASSUME LoopInv, Next, ~Again, ~Judge
  PROVE  ProofOK'
<1>1. CASE HoldsAnswer
  BY <1>1 DEF LoopInv, ProofOK, HoldsAnswer
<1>2. CASE \E e \in Effects : RunTool(e)
  <2>1. PICK e \in Effects : RunTool(e)
    BY <1>2
  <2>2. (e.adds # {} \/ (proof.owed /\ e.proves = {})) \in BOOLEAN
    BY Zenon
  <2> QED BY <2>1, <2>2 DEF LoopInv, ProofOK, RunTool
<1>3. CASE UNCHANGED proof
  BY <1>3 DEF LoopInv, ProofOK
<1> QED
  BY <1>1, <1>2, <1>3, Zenon
     DEF Next, OutOfBudget, Exhausted, Final, Unparseable, Asks, AskRefused, Delegate,
         SwitchMode, HoldsTool, RunHeld, ToolRefused, ProviderFails

LEMMA KeptStep ==
  ASSUME LoopInv, Next, ~Again, ~Judge
  PROVE  Kept
<1>1. CASE OutOfBudget
  BY <1>1, ReturnsSound DEF OutOfBudget
<1>2. CASE Exhausted
  BY <1>2, ReturnsSound DEF Exhausted
<1>3. CASE HoldsAnswer
  BY <1>3, HoldsAnswerSound
<1>4. CASE Final
  BY <1>4, ReturnsSound DEF Final
<1>5. CASE \E text \in BOOLEAN : Unparseable(text)
  BY <1>5, UnparseableSound
<1>6. CASE Asks
  BY <1>6, AsksSound
<1>7. CASE AskRefused
  BY <1>7, AskRefusedSound
<1>8. CASE \E mode \in Modes : Delegate(mode) \/ SwitchMode(mode)
  BY <1>8, DelegateSound, SwitchModeSound
<1>9. CASE \E t \in Targets : HoldsTool(t) \/ RunHeld(t)
  BY <1>9, HoldsToolSound, RunHeldSound
<1>10. CASE \E e \in Effects : RunTool(e)
  BY <1>10, RunToolSound
<1>11. CASE ToolRefused
  BY <1>11, ToolRefusedSound
<1>12. CASE ProviderFails
  BY <1>12, ProviderFailsSound
<1> QED
  BY <1>1, <1>2, <1>3, <1>4, <1>5, <1>6, <1>7, <1>8, <1>9, <1>10, <1>11, <1>12
     DEF Next

LEMMA LoopInvInit == Init => LoopInv
<1> SUFFICES ASSUME Init PROVE LoopInv
  OBVIOUS
<1> DEFINE a == Message("task", 0, 0)  b == Message("mode", 0, 0)
<1>1. a \in OneMessage /\ b \in OneMessage /\ ~IsResult(a) /\ ~IsResult(b)
  BY DEF Message, OneMessage, Kinds, IsResult
<1> HIDE DEF a, b
<1>2. <<a, b>> \in Messages /\ ResultsAreHeld(<<a, b>>)
  BY <1>1 DEF Messages, OneMessage, ResultsAreHeld
<1>3. Sound(NewFrame(<<a, b>>, Start))
  BY <1>2, NewFrameSound, ModesAssumption
<1>4. SoundInv
  BY <1>3 DEF Init, SoundInv, a, b
<1>5. CountsOK /\ WhyOK /\ ProofOK
  BY NumbersAssumption DEF Init, CountsOK, WhyOK, ProofOK
<1>6. SavedOK
  <2>1. saved \in [mode : {Start}, actions : {<<>>}, asks : BOOLEAN]
    BY DEF Init
  <2>2. {<<>>} \subseteq Seq(Nat) /\ {Start} \subseteq Modes
    BY ModesAssumption
  <2> QED BY <2>1, <2>2 DEF SavedOK
<1> QED BY <1>4, <1>5, <1>6 DEF LoopInv

LEMMA LoopInvStep == LoopInv /\ [Next]_vars => LoopInv'
<1> SUFFICES ASSUME LoopInv, [Next]_vars PROVE LoopInv'
  OBVIOUS
<1>1. CASE Again
  BY <1>1, AgainSound DEF LoopInv
<1>4. CASE Judge
  BY <1>4, JudgeSound DEF LoopInv
<1>2. CASE Next /\ ~Again /\ ~Judge
  <2>1. Kept /\ ProofOK' /\ (CountsOK' <=> runs' \in 0..Reruns)
    BY <1>2, KeptStep, ProofStep, CountsStep
  <2> QED BY <2>1 DEF LoopInv, Kept, CountsOK
<1>3. CASE UNCHANGED vars
  BY <1>3 DEF vars, LoopInv, SoundInv, CountsOK, SavedOK, WhyOK, ProofOK
<1> QED BY <1>1, <1>2, <1>3, <1>4

LEMMA LoopInvHolds == Spec => []LoopInv
BY LoopInvInit, LoopInvStep, PTL DEF Spec

(***************************************************************************)
(* The type of the loop's state, whatever the bounds of the code are.      *)
(***************************************************************************)
THEOREM TypeCorrect == Spec => []TypeOK
<1>1. LoopInv => TypeOK
  BY DEF LoopInv, SoundInv, Sound, TypeOK, CountsOK, SavedOK, WhyOK, ProofOK
<1> QED BY <1>1, LoopInvHolds, PTL

(***************************************************************************)
(* No irreversible call runs in a conversation that does not hold its      *)
(* HOLD: every hold the gate remembers is still in the conversation, since *)
(* compaction keeps it, a restart forgets with it, and a subtask and a     *)
(* resume begin remembering nothing (nodes.py, the gate).                  *)
(***************************************************************************)
THEOREM HoldsArePresent == Spec => []HeldBeforeIrreversible
<1>1. LoopInv => HeldBeforeIrreversible
  BY DEF LoopInv, SoundInv, Sound, HeldBeforeIrreversible, Outermost, InChild
<1> QED BY <1>1, LoopInvHolds, PTL

-----------------------------------------------------------------------------
\* How far past the ceiling each of the two loops can be, and the judge that
\* follows them.
SpendInv ==
  /\ why = "none" /\ InChild => calls < Ceiling + Retries
  /\ Judging \/ why = "ask" => calls < Ceiling + Retries
  /\ why \notin {"budget", "over"} => calls < Ceiling + 2 * Retries
  /\ calls < Ceiling + 3 * Retries

\* Only the outermost loop stops the run.
OuterStops == why # "none" => ~InChild

LEMMA StopsStep == OuterStops /\ [Next]_vars => OuterStops'
<1> SUFFICES ASSUME OuterStops, [Next]_vars PROVE OuterStops'
  OBVIOUS
<1>1. \A f : GoesOn(f) => why' = why /\ parent' = parent
  BY DEF GoesOn
<1>2. \A f, reason, mode : Stops(f, reason, mode) => parent' = <<>>
  BY DEF Stops
<1>3. \A actions : HandsUp(actions) => parent' = <<>>
  BY DEF HandsUp
<1>4. \A reason : Returns(reason) => parent' = <<>>
  BY <1>2, <1>3 DEF Returns
<1>5. Turn => why = "none"
  BY DEF Turn, Loops
<1>6. \/ parent' = <<>> \/ why' = "none"
      \/ UNCHANGED vars
      \/ parent' = parent /\ why # "none"
  <2>1. Judge => parent' = parent /\ why # "none"
    BY DEF Judge, JudgeCalls, JudgeAsks, JudgeRejects, JudgeEnds, Judging
  <2> QED
    BY <1>1, <1>2, <1>3, <1>4, <1>5, <2>1, Zenon
       DEF Next, OutOfBudget, Exhausted, HoldsAnswer, Final, Unparseable, Asks,
           AskRefused, Delegate, SwitchMode, HoldsTool, RunHeld, RunTool, Ran,
           ToolRefused, ProviderFails, Again
<1> QED BY <1>6 DEF OuterStops, InChild, vars

\* A turn that called the model began below the ceiling.
LEMMA TurnSpends ==
  ASSUME calls \in Nat, Turn
  PROVE  calls' \in Nat /\ calls' < Ceiling + Retries /\ why = "none"
BY NumbersAssumption DEF Turn, Loops, Calls

LEMMA SpendStep == LoopInv /\ OuterStops /\ SpendInv /\ [Next]_vars => SpendInv'
<1> SUFFICES ASSUME LoopInv, OuterStops, SpendInv, [Next]_vars PROVE SpendInv'
  OBVIOUS
<1> USE NumbersAssumption
<1>0. calls \in Nat
  BY DEF LoopInv, CountsOK
<1>1. CASE Turn
  <2>1. calls' \in Nat /\ calls' < Ceiling + Retries
    BY <1>0, <1>1, TurnSpends
  <2>2. calls' < Ceiling + 2 * Retries /\ calls' < Ceiling + 3 * Retries
    BY <2>1
  <2> QED BY <2>1, <2>2 DEF SpendInv
<1>2. CASE OutOfBudget
  <2>1. calls' \in Nat /\ calls' <= calls + Retries /\ why = "none"
    BY <1>0, <1>2 DEF OutOfBudget, LastCall, Calls, Loops
  <2>2. CASE InChild
    <3>1. calls' < Ceiling + 2 * Retries
      BY <1>0, <2>1, <2>2 DEF SpendInv
    <3>2. ~InChild' /\ why' = "none"
      BY <1>2, <2>1, <2>2 DEF OutOfBudget, Returns, HandsUp, InChild
    <3> QED BY <2>1, <3>1, <3>2 DEF SpendInv, Judging
  <2>3. CASE ~InChild
    <3>1. calls' < Ceiling + 3 * Retries
      BY <1>0, <2>1 DEF SpendInv
    <3>2. why' = "budget"
      BY <1>2, <2>3 DEF OutOfBudget, Returns, Stops
    <3> QED BY <2>1, <3>1, <3>2 DEF SpendInv, Judging
  <2> QED BY <2>2, <2>3
<1>3. CASE Exhausted
  <2>1. calls' = calls /\ ~InChild' /\ why' = why
    BY <1>3 DEF Exhausted, Returns, HandsUp, InChild
  <2>2. why = "none" /\ InChild
    BY <1>3 DEF Exhausted
  <2> QED BY <1>0, <2>1, <2>2 DEF SpendInv, Judging
<1>4. CASE Again
  <2>1. /\ why \in {"rejected", "ask"} /\ why' = "none" /\ parent' = parent
        /\ calls' \in 0..Retries \/ calls' = calls
    BY <1>4 DEF Again
  <2>2. ~InChild
    BY <2>1 DEF OuterStops
  <2>3. calls' < Ceiling + 2 * Retries /\ calls' < Ceiling + 3 * Retries
    BY <1>0, <2>1 DEF SpendInv
  <2> QED BY <2>1, <2>2, <2>3 DEF SpendInv, InChild, Judging
<1>7. CASE Judge
  <2>1. why # "none" /\ why' # "none"
    BY <1>7 DEF Judge, JudgeCalls, JudgeAsks, JudgeRejects, JudgeEnds, Judging
  <2>2. CASE JudgeCalls
    <3>1. calls' < Ceiling + Retries /\ calls' \in Nat
      BY <1>0, <2>2 DEF JudgeCalls, Calls
    <3> QED BY <2>1, <3>1 DEF SpendInv
  <2>3. CASE JudgeAsks
    BY <2>1, <2>3 DEF JudgeAsks, SpendInv
  <2>4. CASE JudgeRejects
    <3>1. calls' < Ceiling + 2 * Retries /\ why' = "rejected" /\ calls' \in Nat
      BY <1>0, <2>4 DEF JudgeRejects, SpendsUpTo, SpendInv
    <3> QED BY <2>1, <3>1 DEF SpendInv, Judging
  <2>5. CASE JudgeEnds
    <3>1. calls' < Ceiling + 3 * Retries /\ why' = "over"
      BY <1>0, <2>5 DEF JudgeEnds, SpendsUpTo, SpendInv
    <3> QED BY <2>1, <3>1 DEF SpendInv, Judging
  <2> QED BY <1>7, <2>2, <2>3, <2>4, <2>5 DEF Judge
<1>5. CASE UNCHANGED vars
  BY <1>5 DEF vars, SpendInv, InChild, Judging
<1>6. Next => Turn \/ OutOfBudget \/ Exhausted \/ Judge \/ Again
  BY Zenon
     DEF Next, HoldsAnswer, Final, Unparseable, Asks, AskRefused, Delegate, SwitchMode,
         HoldsTool, RunHeld, RunTool, Ran, ToolRefused, ProviderFails
<1> QED BY <1>1, <1>2, <1>3, <1>4, <1>5, <1>6, <1>7

(***************************************************************************)
(* A run passes its ceiling by less than three calls of the model with all *)
(* their retries: the turn that was begun below it, and two of the calls   *)
(* nothing looks before, the last of a subtask and that of its parent, or  *)
(* the verdict and the lesson.  A rejected run whose budget the judge has  *)
(* spent answers with one call and is not judged again (nodes.py, _call,   *)
(* _agent_loop and evaluator).                                             *)
(***************************************************************************)
THEOREM SpendIsBounded == Spec => []OverspendIsBounded
<1>1. Init => SpendInv
  BY NumbersAssumption DEF Init, SpendInv, InChild, Judging
<1>2. SpendInv => OverspendIsBounded
  BY DEF SpendInv, OverspendIsBounded
<1>3. Init => OuterStops
  BY DEF Init, OuterStops
<1> QED BY <1>1, <1>2, <1>3, SpendStep, StopsStep, LoopInvHolds, PTL DEF Spec
-----------------------------------------------------------------------------
\* The outermost conversation begins with its task, or as a restart left it,
\* and what it would restart from begins with the task too, or is empty.
Begins(msgs) ==
  /\ Len(msgs) >= 1
  /\ msgs[1].kind = "task" \/ (Notes >= 2 /\ msgs[1].kind = "fresh")
Starts(f) ==
  /\ Begins(f.messages)
  /\ IF Notes <= 1 THEN Begins(f.seed) ELSE f.seed = <<>>
TaskInv == Starts(Outermost)

LEMMA LongerStays ==
  ASSUME NEW msgs \in Messages, NEW m \in OneMessage
  PROVE  Append(msgs, m) \in Messages
BY DEF Messages, OneMessage

LEMMA LongerBegins ==
  ASSUME NEW msgs \in Messages, Begins(msgs), NEW m \in OneMessage
  PROVE  Begins(Append(msgs, m))
BY DEF Begins, Messages, OneMessage

LEMMA FreshBegins ==
  ASSUME Notes >= 2, NEW m, m.kind = "fresh"
  PROVE  Begins(Append(<<>>, m))
<1>1. Append(<<>>, m) = <<m>> /\ Len(<<m>>) = 1 /\ <<m>>[1] = m
  OBVIOUS
<1> QED BY <1>1 DEF Begins

LEMMA PreparedStarts ==
  ASSUME Sound(frame), Starts(frame)
  PROVE  Prepared \in Frames /\ Prepared.messages \in Messages /\ Starts(Prepared)
<1>1. /\ Prepared \in Frames
      /\ Prepared = [frame EXCEPT !.messages = Prepared.messages]
  BY PreparedKeeps DEF Sound
<1>2. /\ frame \in Frames /\ frame.messages \in Messages /\ Prepared.messages \in Messages
      /\ frame.actions \in Seq(Nat) /\ ResultsAreHeld(frame.messages)
  BY <1>1 DEF Sound, Frames
<1>3. Prepared.seed = frame.seed
  BY <1>1, <1>2 DEF Frames
<1>4. \/ Prepared.messages = frame.messages
      \/ Prepared.messages = Compact(frame.messages, frame.actions)
  BY <1>2 DEF Prepared, Frames
<1>5. Begins(Compact(frame.messages, frame.actions))
  <2> DEFINE msgs == frame.messages
             after == Compact(msgs, frame.actions)
  <2>1. after \in Messages
    BY <1>2, CompactKeeps
  <2>2. /\ Len(msgs) \in Nat /\ 1 \in 1..Len(msgs)
        /\ msgs[1].kind = "task" \/ (Notes >= 2 /\ msgs[1].kind = "fresh")
    BY <1>2 DEF Starts, Begins, Messages
  <2>3. DOMAIN after = 1..Len(msgs) /\ after[1] = msgs[1]
    BY <2>2 DEF Compact
  <2>4. Len(after) = Len(msgs)
    BY <2>1, <2>2, <2>3 DEF Messages
  <2> QED BY <2>2, <2>3, <2>4 DEF Begins
<1> QED BY <1>1, <1>2, <1>3, <1>4, <1>5 DEF Starts

\* A loop begins with what it is given, and with at most one message of notes
\* its seed does too; with more its seed is empty.
LEMMA NewFrameStarts ==
  ASSUME NEW msgs \in Messages, Begins(msgs), NEW mode
  PROVE  Starts(NewFrame(msgs, mode))
<1>1. Notes \in 0..3
  BY NumbersAssumption
<1>3. msgs \in Seq(OneMessage) /\ Len(msgs) \in Nat /\ Len(msgs) >= 1
  BY DEF Messages, OneMessage, Begins
<1>4. ASSUME Notes <= 1 PROVE Begins(SeedOf(msgs))
  <2> DEFINE n == 2 - Notes
  <2>1. n \in {1, 2} /\ SeedOf(msgs) = FirstOf(msgs, n)
    BY <1>1, <1>4 DEF SeedOf
  <2> HIDE DEF n
  <2>2. CASE Len(msgs) <= n
    BY <2>1, <2>2 DEF FirstOf
  <2>3. CASE ~(Len(msgs) <= n)
    <3>1. \A i \in 1..n : msgs[i] \in OneMessage
      BY <1>3, <2>1, <2>3, ElementOfSeq
    <3>2. /\ Len(SubSeq(msgs, 1, n)) = IF 1 <= n THEN n - 1 + 1 ELSE 0
          /\ \A i \in 1..(n - 1 + 1) : SubSeq(msgs, 1, n)[i] = msgs[1 + i - 1]
      BY <1>3, <2>1, <3>1, SubSeqProperties
    <3> QED BY <2>1, <2>3, <3>2 DEF FirstOf, Begins
  <2> QED BY <2>2, <2>3
<1>5. ASSUME Notes >= 2 PROVE SeedOf(msgs) = <<>>
  <2>1. SeedOf(msgs) = FirstOf(msgs, 0)
    BY <1>5 DEF SeedOf
  <2>2. CASE Len(msgs) <= 0
    BY <1>3, <2>2
  <2>3. CASE ~(Len(msgs) <= 0)
    BY <2>1, <2>3, SubSeqEmpty DEF FirstOf
  <2> QED BY <2>2, <2>3
<1>6. NewFrame(msgs, mode).messages = msgs /\ NewFrame(msgs, mode).seed = SeedOf(msgs)
  BY DEF NewFrame
<1> QED BY <1>1, <1>4, <1>5, <1>6 DEF Starts

\* One more message, or none, and the same seed.
LEMMA ExtendedStarts ==
  ASSUME NEW f, f.messages \in Messages, Starts(f), NEW g, g.seed = f.seed,
         \/ g.messages = f.messages
         \/ \E m \in OneMessage : g.messages = Append(f.messages, m)
  PROVE  Starts(g)
BY LongerBegins DEF Starts

LEMMA GoesOnTask ==
  ASSUME TaskInv, NEW f, GoesOn(f), InChild \/ Starts(f)
  PROVE  TaskInv'
BY DEF TaskInv, GoesOn, Outermost, InChild

LEMMA StopsTask ==
  ASSUME NEW f, Starts(f), NEW reason, NEW mode, Stops(f, reason, mode)
  PROVE  TaskInv'
BY DEF TaskInv, Stops, Outermost, InChild

LEMMA AnsweredStarts ==
  ASSUME NEW f \in Frames, Starts(f), NEW m \in OneMessage, NEW actions
  PROVE  /\ Starts(Answered(f, m))
         /\ Starts([Answered(f, m) EXCEPT !.actions = actions])
<1>1. f.messages \in Messages
  BY DEF Frames
<1>2. /\ Answered(f, m).messages = Append(f.messages, m) /\ Answered(f, m).seed = f.seed
      /\ [Answered(f, m) EXCEPT !.actions = actions].messages = Append(f.messages, m)
      /\ [Answered(f, m) EXCEPT !.actions = actions].seed = f.seed
  BY DEF Answered, Frames
<1> QED BY <1>1, <1>2, ExtendedStarts

LEMMA HandsUpTask ==
  ASSUME LoopInv, TaskInv, InChild, NEW actions, HandsUp(actions)
  PROVE  TaskInv'
<1>1. parent[1] \in Frames /\ Starts(parent[1])
  BY DEF LoopInv, SoundInv, Sound, InChild, TaskInv, Outermost
<1>2. PICK size \in {"large", "small"} :
        frame' = [Answered(parent[1], Message(size, 0, 0)) EXCEPT !.actions = @ \o actions]
  BY DEF HandsUp
<1>3. Message(size, 0, 0) \in OneMessage
  BY DEF Message, OneMessage, Kinds
<1>4. Starts(frame')
  BY <1>1, <1>2, <1>3, AnsweredStarts
<1> QED BY <1>4 DEF HandsUp, TaskInv, Outermost, InChild

LEMMA ReturnsTask ==
  ASSUME LoopInv, TaskInv, NEW reason, Returns(reason)
  PROVE  TaskInv'
<1>1. CASE InChild
  BY <1>1, HandsUpTask DEF Returns
<1>2. CASE ~InChild
  <2>1. Starts(Prepared)
    BY <1>2, PreparedStarts DEF LoopInv, SoundInv, TaskInv, Outermost
  <2> QED BY <1>2, <2>1, StopsTask DEF Returns
<1> QED BY <1>1, <1>2

\* No step of either loop takes the task out of the outermost conversation.
LEMMA TaskStep ==
  ASSUME LoopInv, OuterStops, TaskInv, [Next]_vars
  PROVE  TaskInv'
<1> DEFINE p == Prepared
<1>0. ~InChild => /\ p \in Frames /\ p.messages \in Messages /\ p.seed \in Messages /\ Starts(p)
                  /\ \A m \in OneMessage : Append(p.messages, m) \in Messages
  <2>1. ASSUME ~InChild PROVE p \in Frames /\ p.messages \in Messages /\ Starts(p)
    BY <2>1, PreparedStarts DEF LoopInv, SoundInv, TaskInv, Outermost
  <2>2. ASSUME ~InChild PROVE p.seed \in Messages
    BY <2>1, <2>2 DEF Frames
  <2> HIDE DEF p
  <2> QED BY <2>1, <2>2, LongerStays
<1> HIDE DEF p
<1>m. /\ Message("note", 0, 0) \in OneMessage /\ Message("mode", 0, 0) \in OneMessage
      /\ Message("small", 0, 0) \in OneMessage /\ Message("question", 0, 0) \in OneMessage
      /\ Message("said", 0, 0) \in OneMessage
      /\ Message("fresh", 0, 0) \in OneMessage /\ Message("fresh", 0, 0).kind = "fresh"
      /\ \A t \in Nat : Message("hold", t, 0) \in OneMessage
      /\ \A size \in {"large", "small"}, n, t \in Nat : Message(size, n, t) \in OneMessage
  BY DEF Message, OneMessage, Kinds
<1>1. CASE OutOfBudget \/ Exhausted \/ Final
  BY <1>1, ReturnsTask DEF OutOfBudget, Exhausted, Final
<1>2. CASE HoldsAnswer
  <2> DEFINE f == [p EXCEPT !.asked = @ \cup {Hold}, !.messages = Append(@, Message("note", 0, 0))]
  <2>1. GoesOn(f)
    BY <1>2 DEF HoldsAnswer, p
  <2>2. ~InChild => f.messages = Append(p.messages, Message("note", 0, 0)) /\ f.seed = p.seed
    BY <1>0 DEF Frames
  <2> HIDE DEF f
  <2> QED BY <1>0, <1>m, <2>1, <2>2, ExtendedStarts, GoesOnTask
<1>3. ASSUME NEW text \in BOOLEAN, Unparseable(text)
      PROVE  TaskInv'
  <2> DEFINE f == [p EXCEPT !.dead = @ + 1, !.output = text \/ @,
                            !.messages = Append(@, Message("note", 0, 0))]
  <2>1. GoesOn(f) \/ Returns("dead")
    BY <1>3 DEF Unparseable, p
  <2>2. ~InChild => f.messages = Append(p.messages, Message("note", 0, 0)) /\ f.seed = p.seed
    BY <1>0 DEF Frames
  <2> HIDE DEF f
  <2> QED BY <1>0, <1>m, <2>1, <2>2, ExtendedStarts, GoesOnTask, ReturnsTask
<1>4. CASE Asks
  <2> DEFINE f == [p EXCEPT !.messages = Append(@, Message("question", 0, 0))]
  <2>1. Stops(IF InChild THEN parent[1] ELSE f, "ask", saved.mode)
    BY <1>4 DEF Asks, p
  <2>2. ~InChild => f.messages = Append(p.messages, Message("question", 0, 0)) /\ f.seed = p.seed
    BY <1>0 DEF Frames
  <2> HIDE DEF f
  <2>3. InChild => Starts(parent[1])
    BY DEF TaskInv, Outermost
  <2> QED BY <1>0, <1>m, <2>1, <2>2, <2>3, ExtendedStarts, StopsTask
<1>5. CASE AskRefused
  <2> DEFINE f == [p EXCEPT !.refused = @ + 1, !.dead = 0, !.iteration = @ + 1,
                            !.messages = Append(@, Message("note", 0, 0))]
  <2>1. GoesOn(f) \/ Returns("dead")
    BY <1>5 DEF AskRefused, p
  <2>2. ~InChild => f.messages = Append(p.messages, Message("note", 0, 0)) /\ f.seed = p.seed
    BY <1>0 DEF Frames
  <2> HIDE DEF f
  <2> QED BY <1>0, <1>m, <2>1, <2>2, ExtendedStarts, GoesOnTask, ReturnsTask
<1>6. CASE ProviderFails
  <2>1. \/ InChild /\ HandsUp(<<>>)
        \/ ~InChild /\ Stops(p, "error", saved.mode)
    BY <1>6 DEF ProviderFails, p
  <2> QED BY <1>0, <2>1, HandsUpTask, StopsTask
<1>7. CASE Again
  <2>1. /\ why # "none" /\ parent' = parent
        /\ frame' = NewFrame(Append(frame.messages, Message("said", 0, 0)), saved.mode)
    BY <1>7 DEF Again
  <2>2. parent = <<>>
    BY <2>1 DEF OuterStops, InChild
  <2>3. frame.messages \in Messages /\ Begins(frame.messages)
    BY <2>2 DEF LoopInv, SoundInv, Sound, Frames, TaskInv, Starts, Outermost, InChild
  <2>4. /\ Append(frame.messages, Message("said", 0, 0)) \in Messages
        /\ Begins(Append(frame.messages, Message("said", 0, 0)))
    BY <1>m, <2>3, LongerBegins, LongerStays
  <2>5. Starts(frame')
    BY <2>1, <2>4, NewFrameStarts
  <2> QED BY <2>1, <2>2, <2>5 DEF TaskInv, Outermost, InChild
<1>8. ASSUME NEW mode \in Modes, Delegate(mode)
      PROVE  TaskInv'
  <2>1. CASE GoesOn(Answered(Prepared, Message("small", 0, 0)))
    BY <1>0, <1>m, <2>1, AnsweredStarts, GoesOnTask DEF p
  <2>2. CASE ~InChild /\ parent' = <<Prepared>>
    BY <1>0, <2>2 DEF p, TaskInv, Outermost, InChild
  <2> QED BY <1>8, <2>1, <2>2 DEF Delegate
<1>9. ASSUME NEW mode \in Modes, SwitchMode(mode)
      PROVE  TaskInv'
  <2> DEFINE here == [p EXCEPT !.dead = 0]
             next == IF Escalates(mode) THEN Restarted(here) ELSE here
             f == IF MaySwitch(mode)
                    THEN [next EXCEPT !.messages = Append(@, Message("mode", 0, 0)),
                                      !.mode = mode, !.swaps = @ + 1, !.worked = FALSE]
                    ELSE [here EXCEPT !.messages = Append(@, Message("note", 0, 0))]
  <2>1. GoesOn(f)
    BY <1>9 DEF SwitchMode, p
  <2>2. ASSUME ~InChild PROVE Starts(f)
    <3>1. here.messages = p.messages /\ here.seed = p.seed /\ DOMAIN here = DOMAIN p
      BY <1>0, <2>2 DEF Frames
    <3>2. Restarted(here).messages = Append(p.seed, Message("fresh", 0, 0)) /\ Restarted(here).seed = p.seed
      BY <1>0, <2>2 DEF Restarted, Frames
    <3>3. /\ next.seed = p.seed /\ next.messages \in Messages /\ Begins(next.messages)
      <4>1. Begins(p.messages)
        BY <1>0, <2>2 DEF Starts
      <4>2. Append(p.seed, Message("fresh", 0, 0)) \in Messages
        BY <1>0, <1>m, <2>2, LongerStays
      <4>3. Begins(Append(p.seed, Message("fresh", 0, 0)))
        <5>1. p.seed \in Messages /\ Notes \in 0..3
          BY <1>0, <2>2, NumbersAssumption
        <5>2. CASE Notes <= 1
          <6>1. Begins(p.seed)
            BY <1>0, <2>2, <5>2 DEF Starts
          <6> QED BY <1>m, <5>1, <6>1, LongerBegins
        <5>3. CASE ~(Notes <= 1)
          <6>1. p.seed = <<>> /\ Notes >= 2
            BY <1>0, <2>2, <5>1, <5>3 DEF Starts
          <6> QED BY <1>m, <6>1, FreshBegins
        <5> QED BY <5>2, <5>3
      <4> HIDE DEF here
      <4> QED BY <1>0, <1>m, <2>2, <3>1, <3>2, <4>1, <4>2, <4>3
    <3>4. \/ f.messages = Append(next.messages, Message("mode", 0, 0)) /\ f.seed = next.seed
          \/ f.messages = Append(p.messages, Message("note", 0, 0)) /\ f.seed = p.seed
      <4>1. /\ "messages" \in DOMAIN next /\ "seed" \in DOMAIN next
            /\ "messages" \in DOMAIN here /\ "seed" \in DOMAIN here
        BY <1>0, <2>2 DEF Restarted, Frames
      <4> HIDE DEF here, next
      <4> QED BY <3>1, <4>1
    <3> HIDE DEF f, next
    <3> QED BY <1>0, <1>m, <2>2, <3>3, <3>4, LongerBegins DEF Starts
  <2> HIDE DEF f
  <2> QED BY <2>1, <2>2, GoesOnTask
<1>10. ASSUME NEW t \in Targets, HoldsTool(t)
       PROVE  TaskInv'
  <2> DEFINE f == [p EXCEPT !.messages = Append(@, Message("hold", t, 0)),
                            !.confirmed = @ \cup {t}, !.dead = 0, !.worked = TRUE]
  <2>1. GoesOn(f)
    BY <1>10 DEF HoldsTool, p
  <2>2. ~InChild => f.messages = Append(p.messages, Message("hold", t, 0)) /\ f.seed = p.seed
    BY <1>0 DEF Frames
  <2>3. Message("hold", t, 0) \in OneMessage
    BY <1>m, ModesAssumption
  <2> HIDE DEF f
  <2> QED BY <1>0, <2>1, <2>2, <2>3, ExtendedStarts, GoesOnTask
<1>11. ASSUME NEW f, NEW t \in Nat, Ran(f, t), InChild \/ (f \in Frames /\ Starts(f))
       PROVE  TaskInv'
  <2> DEFINE g == [f EXCEPT !.actions = Append(@, ran + 1)]
  <2>1. PICK size \in {"large", "small"} : GoesOn(Answered(g, Message(size, ran + 1, t)))
    BY <1>11 DEF Ran
  <2>2. Message(size, ran + 1, t) \in OneMessage
    BY <1>m DEF LoopInv, CountsOK
  <2>3. CASE InChild
    BY <2>1, <2>3, GoesOnTask
  <2>4. CASE ~InChild
    <3>1. g \in Frames /\ g.messages = f.messages /\ g.seed = f.seed
      <4>1. Append(f.actions, ran + 1) \in Seq(Nat)
        BY <1>11, <2>4 DEF Frames, LoopInv, CountsOK
      <4> QED BY <1>11, <2>4, <4>1 DEF Frames
    <3>2. Starts(g)
      BY <1>11, <2>4, <3>1 DEF Starts
    <3> HIDE DEF g
    <3>3. Starts(Answered(g, Message(size, ran + 1, t)))
      BY <2>2, <3>1, <3>2, AnsweredStarts
    <3> QED BY <2>1, <3>3, GoesOnTask
  <2> QED BY <2>3, <2>4
<1>12. ASSUME NEW t \in Targets, RunHeld(t)
       PROVE  TaskInv'
  BY <1>0, <1>11, <1>12, ModesAssumption DEF RunHeld, p
<1>13. ASSUME NEW e \in Effects, RunTool(e)
       PROVE  TaskInv'
  <2>1. Ran(Record(p, e), 0)
    BY <1>13 DEF RunTool, p
  <2>2. ASSUME ~InChild PROVE Record(p, e) \in Frames /\ Starts(Record(p, e))
    <3>1. /\ Record(p, e) \in Frames
          /\ Record(p, e).messages = p.messages /\ Record(p, e).seed = p.seed
      BY <1>0, <2>2, Recorded
    <3> QED BY <1>0, <2>2, <3>1 DEF Starts
  <2> QED BY <1>11, <2>1, <2>2
<1>14. CASE ToolRefused
  BY <1>0, <1>m, <1>14, AnsweredStarts, GoesOnTask DEF ToolRefused, p
<1>15. CASE UNCHANGED vars
  BY <1>15 DEF vars, TaskInv, Outermost, InChild
<1>16. CASE Judge
  BY <1>16
     DEF Judge, JudgeCalls, JudgeAsks, JudgeRejects, JudgeEnds, TaskInv, Outermost, InChild
<1> QED
  BY <1>1, <1>2, <1>3, <1>4, <1>5, <1>6, <1>7, <1>8, <1>9, <1>10, <1>12, <1>13, <1>14, <1>15,
     <1>16
  DEF Next

(***************************************************************************)
(* Whatever the number of notes, a run's conversation begins with its task *)
(* however it was compacted, delegated from, asked in, rejected or         *)
(* resumed.  Restarting keeps it too with at most one note; with more,     *)
(* messages[:3] without the system messages is empty, and the conversation *)
(* begins with what the restart says instead (nodes.py, agent and          *)
(* _switch_mode).                                                          *)
(***************************************************************************)
THEOREM TaskIsKept == Spec => []TaskIsKnown
<1>1. Init => TaskInv
  <2> SUFFICES ASSUME Init PROVE TaskInv
    OBVIOUS
  <2> DEFINE a == Message("task", 0, 0)  b == Message("mode", 0, 0)
  <2>1. a \in OneMessage /\ b \in OneMessage /\ a.kind = "task"
    BY DEF Message, OneMessage, Kinds
  <2> HIDE DEF a, b
  <2>2. <<a, b>> \in Messages /\ Begins(<<a, b>>)
    BY <2>1 DEF Messages, OneMessage, Begins
  <2>3. Starts(NewFrame(<<a, b>>, Start))
    BY <2>2, NewFrameStarts
  <2> QED BY <2>3 DEF Init, TaskInv, Outermost, InChild, a, b
<1>2. Init => OuterStops
  BY DEF Init, OuterStops
<1>3. LoopInv /\ TaskInv => TaskIsKnown
  BY DEF TaskInv, Starts, Begins, TaskIsKnown, LoopInv, SoundInv, Sound, Frames, Messages, Outermost, InChild
<1> QED BY <1>1, <1>2, <1>3, TaskStep, StopsStep, LoopInvHolds, PTL DEF Spec

(* --- Toolbox ---------------------------------------------------------- *)

\* Every set of naturals but the empty one has a least member.
LEMMA NatMin ==
  ASSUME NEW K, K \subseteq Nat, K # {}
  PROVE  \E m \in K : \A k \in K : m <= k
<1> DEFINE R == StrictSubsetOrdering(Nat)
           T == {1..k : k \in K}
<1>1. IsWellFoundedOn(R, FiniteSubsetsOf(Nat))
  BY FS_StrictSubsetOrderingWellFounded
<1>2. T \subseteq FiniteSubsetsOf(Nat)
  BY FS_Interval DEF FiniteSubsetsOf
<1>3. T # {}
  OBVIOUS
<1>4. PICK x \in T : \A y \in T : ~(<<y, x>> \in R)
  <2> HIDE DEF R, T
  <2> QED BY <1>1, <1>2, <1>3, WFMin
<1>5. PICK m \in K : x = 1..m
  OBVIOUS
<1>6. ASSUME NEW k \in K, k < m PROVE FALSE
  <2>1. 1..k \subseteq 1..m /\ m \in 1..m /\ m \notin 1..k
        /\ 1..k \subseteq Nat /\ 1..m \subseteq Nat
    <3>1. k \in Nat /\ m \in Nat
      OBVIOUS
    <3> HIDE DEF R, T
    <3> QED BY <1>6, <3>1
  <2>2. <<1..k, 1..m>> \in R
    <3> DEFINE a == 1..k
               b == 1..m
    <3>1. a \in SUBSET Nat /\ b \in SUBSET Nat /\ a \subseteq b /\ a # b
      BY <2>1, Zenon
    <3> HIDE DEF a, b
    <3>2. <<a, b>> \in StrictSubsetOrdering(Nat)
      BY <3>1 DEF StrictSubsetOrdering
    <3> QED BY <3>2 DEF a, b
  <2>3. 1..k \in T
    OBVIOUS
  <2> HIDE DEF R, T
  <2> QED BY <1>4, <1>5, <2>2, <2>3
<1> QED BY <1>6

\* A set with 0 and with each successor of its members has every natural: what is
\* needed here of the induction the library states over an operator.
LEMMA NatInd ==
  ASSUME NEW S, 0 \in S, \A n \in Nat : n \in S => n + 1 \in S
  PROVE  Nat \subseteq S
<1>1. SUFFICES ASSUME Nat \ S # {} PROVE FALSE
  OBVIOUS
<1>2. PICK m \in Nat \ S : \A k \in Nat \ S : m <= k
  BY <1>1, NatMin, Zenon
<1> QED BY <1>2
\* The place of a file in a map, which has one part per Python file.
Numbers(f) == IF f = "app.py" THEN 1 ELSE 2
Paths == Files \cup {NotAPath}
\* Who tells the ledger anything, and what.
Tellers == {"execute_python", "check_bash", "execute_bash", "browse", "exercise",
            "predict_edit", "write_file", "edit_file"}
Entries == [tool : Tellers, ok : BOOLEAN, path : Paths, file : Files \cup {None}, page : BOOLEAN, steps : Nat]

\* Every file has a text and a stamp below the clock.
Shelves ==
  /\ clock \in Nat /\ DOMAIN tree = Files
  /\ \A f \in Files : /\ IsText(tree[f].text) /\ tree[f].stamp \in Nat /\ tree[f].stamp < clock
                      /\ DOMAIN tree[f] = {"text", "stamp"}

\* An edit on its way was located in the text it read.
Editing ==
  step.do = "edit" =>
    /\ IsText(step.was) /\ step.quote \in Quotes
    /\ step.file \in Files
    /\ step.at = Locate(step.was, step.quote) /\ step.at # Nowhere

\* One map at most; a file with the stamp the map has of it has the text the map has.
Cached ==
  /\ \A m \in maps, f \in Py :
       /\ m.stamp[f] < clock /\ m.stamp[f] \in Nat
       /\ m.stamp[f] = tree[f].stamp => m.files[Numbers(f)] = tree[f].text
  /\ \A m, o \in maps : m = o

\* code_map between its steps: what it has read was there during the call, and what it
\* read first is still there if the stamp is.
Mapping ==
  /\ step.do \in {"idle", "edit", "index", "answer"}
  /\ step.do \in {"index", "answer"} =>
       /\ DOMAIN step = {"do", "stamp", "files", "during"}
       /\ DOMAIN step.during = Py /\ DOMAIN step.stamp = Py
       /\ \A f \in Py : /\ tree[f].text \in step.during[f]
                        /\ step.stamp[f] \in Nat /\ step.stamp[f] < clock
  /\ step.do = "index" =>
       \/ step.files = <<>>
       \/ /\ step.files = <<step.files[1]>>
          /\ step.files[1] \in step.during["app.py"]
          /\ step.stamp["app.py"] = tree["app.py"].stamp => step.files[1] = tree["app.py"].text
  /\ step.do = "answer" =>
       /\ maps # {}
       /\ \A m \in maps : m.files[1] \in step.during["app.py"] /\ m.files[2] \in step.during["test_app.py"]

\* The ledger and the history it is the account of.
Evidence ==
  /\ proofs \in Seq(Entries)
  /\ \A k \in 1..Len(proofs) : IsEdit(proofs[k]) => proofs[k].path \in {NotAPath, proofs[k].file}
  /\ DOMAIN ledger = {"unproven", "unrendered", "unused", "launch_only"}
  /\ LedgerInv

\* The inductive invariant of Toolbox.
Desks == Shelves /\ Editing /\ Cached /\ Mapping /\ Evidence /\ EditInv /\ MapIsFresh
\* MenuIsHonest, of one host and one tool.
Honest(h, t) ==
  IF t \in ReachableTools(h) THEN Answers(t, h) \intersect {"unbound", "no browser"} = {}
  ELSE "ok" \in Answers(t, h) => t = "rag" \/ h.shown

\* A tool the menu offers has somewhere to act; one it leaves out could only refuse.
LEMMA MenuHolds ==
  ASSUME NEW h \in Hosts, NEW t \in Tools, t \notin h.off
  PROVE  Honest(h, t)
<1> USE DEF Honest, ReachableTools, Tools, Anywhere, NeedsEither, NeedsBrowser, NeedsContainer, NeedsWorkspace
<1>0. h.ws \in BOOLEAN /\ h.ct \in BOOLEAN /\ h.browser \in BOOLEAN /\ h.shown \in BOOLEAN
  BY DEF Hosts
<1>1. CASE t \in {"execute_python"}
  BY <1>1 DEF Answers, ExecutePython
<1>2. CASE t = "execute_bash"
  BY <1>2 DEF Answers, ExecuteBash
<1>3. CASE t = "web_search"
  BY <1>3 DEF Answers, WebSearch
<1>4. CASE t \in {"complete_code", "predict_edit"}
  BY <1>4 DEF Answers, CompleteCode
<1>5. CASE t = "recall_memory"
  BY <1>5 DEF Answers, RecallMemory
<1>6. CASE t = "read_file"
  BY <1>0, <1>6 DEF Answers, ReadFile, ThenOf, PathOf, ResolveInWorkspace
<1>7. CASE t = "write_file"
  BY <1>0, <1>7 DEF Answers, WriteFile, ThenOf, PathOf, ResolveInWorkspace
<1>8. CASE t = "edit_file"
  BY <1>0, <1>8 DEF Answers, EditFile, ThenOf, PathOf, ResolveInWorkspace
<1>9. CASE t = "list_files"
  BY <1>0, <1>9 DEF Answers, ListFiles, ThenOf, PathOf, ResolveInWorkspace
<1>10. CASE t = "view_image"
  BY <1>0, <1>10 DEF Answers, ViewImage, ThenOf, PathOf, ResolveInWorkspace, DescribeImage
<1>11. CASE t = "exercise"
  BY <1>0, <1>11 DEF Answers, Exercise
<1>12. CASE t \in {"browse", "browse_act"}
  BY <1>0, <1>12 DEF Answers, Browse, BrowserThere
<1>13. CASE t = "look"
  BY <1>0, <1>13 DEF Answers, LookOf, DescribeImage
<1>14. CASE t = "look_act"
  BY <1>0, <1>14 DEF Answers, LookAct
<1>15. CASE t = "rag"
  BY <1>0, <1>15 DEF Answers, Rag, GrepWorkspace
<1>16. CASE t = "code_map"
  BY <1>0, <1>16 DEF Answers, CodeMap, ThenOf, ResolveInWorkspace
<1>17. CASE t = "make_document"
  BY <1>0, <1>17 DEF Answers, MakeDocument, ThenOf, ResolveInWorkspace
<1> QED BY <1>1, <1>2, <1>3, <1>4, <1>5, <1>6, <1>7, <1>8, <1>9, <1>10, <1>11, <1>12, <1>13, <1>14, <1>15, <1>16, <1>17

\* There is a left-to-right choice of hits that do not overlap, so FindIter is one: each
\* hit it leaves out begins inside one it takes.
LEMMA FindIterIs ==
  ASSUME NEW how, NEW text, IsText(text), NEW quote, IsText(quote), quote # <<>>
  PROVE  LET S == StartsOf(how, text, quote)
             H == FindIter(how, text, quote)
         IN H \subseteq S /\ \A i \in S : i \in H \/ \E j \in H : j < i /\ i < j + Len(quote)
<1> DEFINE S == StartsOf(how, text, quote)
           covered(i, H) == \E j \in H : j < i /\ i < j + Len(quote)
           Upto(k, H) == H \subseteq S /\ H \subseteq 1..k /\ \A i \in S : i <= k => (i \in H <=> ~covered(i, H))
           K == {k \in Nat : \E H \in SUBSET S : Upto(k, H)}
<1>1. Len(text) \in Nat /\ Len(quote) \in Nat /\ S \subseteq 1..Len(text)
  BY LenProperties DEF IsText, StartsOf
<1> HIDE DEF S
<1>2. 0 \in K
  <2>1. Upto(0, {})
    BY <1>1
  <2> QED BY <2>1
<1>3. ASSUME NEW k \in Nat, k \in K PROVE k + 1 \in K
  <2>1. PICK H \in SUBSET S : Upto(k, H)
    BY <1>3
  <2>2. CASE k + 1 \in S /\ ~covered(k + 1, H)
    <3> DEFINE G == H \cup {k + 1}
    <3>1. G \subseteq S /\ G \subseteq 1..(k + 1)
      BY <2>1, <2>2
    <3>2. \A i \in S : i <= k => (covered(i, G) <=> covered(i, H))
      BY <1>1, <2>1
    <3>3. ~covered(k + 1, G)
      BY <2>2
    <3>4. ASSUME NEW i \in S, i <= k + 1 PROVE i \in G <=> ~covered(i, G)
      <4>1. CASE i = k + 1
        BY <3>3, <4>1
      <4>2. CASE i <= k
        <5>1. i # k + 1
          BY <4>2, <1>1
        <5> QED BY <2>1, <3>2, <4>2, <5>1
      <4> QED BY <1>1, <3>4, <4>1, <4>2
    <3>5. Upto(k + 1, G)
      BY <3>1, <3>4
    <3> HIDE DEF G
    <3> QED BY <3>1, <3>5
  <2>3. CASE ~(k + 1 \in S /\ ~covered(k + 1, H))
    <3>1. H \subseteq 1..(k + 1) /\ k + 1 \notin H
      BY <2>1
    <3>2. ASSUME NEW i \in S, i <= k + 1 PROVE i \in H <=> ~covered(i, H)
      <4>1. CASE i = k + 1
        BY <2>3, <3>1, <4>1
      <4>2. CASE i <= k
        BY <2>1, <4>2
      <4> QED BY <1>1, <3>2, <4>1, <4>2
    <3>3. Upto(k + 1, H)
      BY <2>1, <3>1, <3>2
    <3> QED BY <3>3
  <2> QED BY <2>2, <2>3
<1>4. Nat \subseteq K
  <2> HIDE DEF K
  <2> QED BY <1>2, <1>3, NatInd
<1>5. \E H \in SUBSET S : \A i \in S : i \in H <=> ~covered(i, H)
  <2>1. PICK H \in SUBSET S : Upto(Len(text), H)
    BY <1>1, <1>4
  <2>2. \A i \in S : i <= Len(text)
    BY <1>1
  <2> QED BY <2>1, <2>2
<1>6. FindIter(how, text, quote) = CHOOSE H \in SUBSET S : \A i \in S : i \in H <=> ~covered(i, H)
  BY DEF FindIter, S
<1>7. /\ FindIter(how, text, quote) \in SUBSET S
      /\ \A i \in S : i \in FindIter(how, text, quote) <=> ~covered(i, FindIter(how, text, quote))
  BY <1>5, <1>6
<1> QED BY <1>7 DEF S

\* No span but one.
LEMMA OnlyOne ==
  ASSUME NEW X, IsFiniteSet(X), ~(Cardinality(X) > 1), NEW a \in X, NEW b \in X
  PROVE  a = b
<1> SUFFICES ASSUME a # b PROVE FALSE
  OBVIOUS
<1>1. Cardinality({a, b}) = 2 /\ IsFiniteSet({a, b})
  <2>1. IsFiniteSet({a}) /\ Cardinality({a}) = 1
    BY FS_Singleton
  <2>2. {a, b} = {a} \cup {b} /\ b \notin {a}
    OBVIOUS
  <2> QED BY <2>1, <2>2, FS_AddElement
<1>2. Cardinality({a, b}) <= Cardinality(X)
  BY FS_Subset
<1>3. Cardinality(X) \in Nat
  BY FS_CardinalityType
<1> QED BY <1>1, <1>2, <1>3

\* The only span of a pass lies in the text, begins and ends on the quote's words, and
\* every place that fits the quote overlaps it.
LEMMA SpansAre ==
  ASSUME NEW how \in {"exact", "trailing", "indent"},
         NEW text, IsText(text), NEW quote, IsText(quote), quote # <<>>,
         ~(Cardinality(Spans(how, text, quote)) > 1), NEW s \in Spans(how, text, quote)
  PROVE  /\ s.from \in 1..Len(text) /\ s.to \in 1..Len(text) /\ s.from <= s.to
         /\ text[s.from].w = quote[1].w /\ text[s.to].w = quote[Len(quote)].w
         /\ \A i \in StartsOf(how, text, quote) : ~(i + Len(quote) - 1 < s.from \/ i > s.to)
<1> DEFINE S == StartsOf(how, text, quote)
           hits == IF how = "exact" THEN S ELSE FindIter(how, text, quote)
           n == Len(quote)
           span(i) == Run(i, i + n - 1,
                          IF how = "indent" THEN 0 ELSE text[i].ind - quote[1].ind,
                          text[i + n - 1].tr - (IF how = "exact" THEN quote[n].tr ELSE 0))
<1>1. Len(text) \in Nat /\ n \in Nat \ {0} /\ S \subseteq 1..Len(text)
  BY LenProperties, EmptySeq DEF IsText, StartsOf
<1>2. hits \subseteq S /\ \A i \in S : i \in hits \/ \E j \in hits : j < i /\ i < j + n
  BY FindIterIs
<1>3. Spans(how, text, quote) = {span(i) : i \in hits}
  BY DEF Spans
<1> HIDE DEF hits
<1>4. IsFiniteSet(Spans(how, text, quote))
  <2>1. IsFiniteSet(1..Len(text))
    BY <1>1, FS_Interval
  <2>2. IsFiniteSet(hits)
    BY <1>1, <1>2, <2>1, FS_Subset
  <2> DEFINE f == [i \in hits |-> span(i)]
  <2>3. f \in Surjection(hits, Spans(how, text, quote))
    <3> HIDE DEF span
    <3> QED BY <1>3 DEF Surjection
  <2> HIDE DEF f
  <2> QED BY <2>2, <2>3, FS_Surjection
<1>5. PICK a \in hits : s = span(a)
  BY <1>3
<1>6. \A i \in hits : span(i).from = i /\ span(i).to = i + n - 1
  BY DEF Run
<1>7. \A i \in hits : i = a
  <2> TAKE i \in hits
  <2>1. span(i) = span(a)
    <3> HIDE DEF span
    <3> QED BY <1>3, <1>4, <1>5, OnlyOne
  <2> QED BY <1>6, <2>1
<1>8. s.from = a /\ s.to = a + n - 1
  BY <1>5, <1>6
<1>9. a \in 1..Len(text) /\ a + n - 1 <= Len(text) /\ a \in S
  BY <1>1, <1>2 DEF StartsOf, FitsLines
<1>10. \A k \in 1..n : text[a + k - 1].w = quote[k].w
  <2> TAKE k \in 1..n
  <2>1. FitsLines(how, text, quote, a)
    BY <1>9 DEF StartsOf
  <2>2. how = "exact" => ExactLine(text[a + k - 1], quote[k], k = 1, k = n)
    BY <2>1 DEF FitsLines
  <2>3. how = "trailing" => TrailingLine(text[a + k - 1], quote[k], k = 1, k = n)
    BY <2>1 DEF FitsLines
  <2>4. how = "indent" => IndentLine(text[a + k - 1], quote[k], k = 1, k = n)
    BY <2>1 DEF FitsLines
  <2> QED BY <2>2, <2>3, <2>4 DEF ExactLine, TrailingLine, IndentLine
<1>11. text[a].w = quote[1].w /\ text[a + n - 1].w = quote[n].w
  <2>1. 1 \in 1..n /\ n \in 1..n /\ a + 1 - 1 = a
    BY <1>1, <1>9
  <2> QED BY <1>10, <2>1
<1>12. \A i \in S : ~(i + n - 1 < a \/ i > a + n - 1)
  <2> TAKE i \in S
  <2>1. i = a \/ (a < i /\ i < a + n)
    BY <1>2, <1>7
  <2> QED BY <1>1, <1>9, <2>1
<1> QED BY <1>1, <1>8, <1>9, <1>11, <1>12

\* The same of the pass that looks at the first and the last line only.
LEMMA AnchoredAre ==
  ASSUME NEW text, IsText(text), NEW quote, NEW s \in Anchored(text, quote)
  PROVE  /\ s.from \in 1..Len(text) /\ s.to \in 1..Len(text) /\ s.from <= s.to
         /\ text[s.from].w = quote[1].w /\ text[s.to].w = quote[Len(quote)].w
<1> DEFINE heads == {i \in 1..Len(text) : text[i].w = quote[1].w}
           tails == {i \in 1..Len(text) : text[i].w = quote[Len(quote)].w}
<1>1. PICK p \in heads \X tails : p[1] <= p[2] /\ s = Run(p[1], p[2], text[p[1]].ind, text[p[2]].tr)
  BY DEF Anchored
<1>2. s.from = p[1] /\ s.to = p[2]
  BY <1>1 DEF Run
<1> QED BY <1>1, <1>2

\* What _locate returns: a run of lines of the text, on the words of the quote, and the
\* only one of its pass.
LEMMA LocateIs ==
  ASSUME NEW text, IsText(text), NEW quote, IsText(quote), quote # <<>>,
         Locate(text, quote) # Nowhere
  PROVE  LET at == Locate(text, quote)
             s == at.span
         IN /\ s.from \in 1..Len(text) /\ s.to \in 1..Len(text) /\ s.from <= s.to
            /\ text[s.from].w = quote[1].w /\ text[s.to].w = quote[Len(quote)].w
            /\ ~Elsewhere(at, text, quote)
<1> DEFINE found == {n \in 1..4 : EditPass(EditPasses[n], text, quote) # {}}
           n == CHOOSE n \in found : \A m \in found : n <= m
           how == EditPasses[n]
           spans == EditPass(how, text, quote)
           s == CHOOSE s \in spans : TRUE
<1>1. found # {} /\ ~(Cardinality(spans) > 1) /\ Locate(text, quote) = [span |-> s, how |-> how]
  BY DEF Locate, Nowhere
<1>2. n \in found
  <2>1. found \subseteq Nat
    OBVIOUS
  <2> HIDE DEF found
  <2>2. \E k \in found : \A m \in found : k <= m
    BY <1>1, <2>1, NatMin
  <2> QED BY <2>2
<1>3. spans # {} /\ how \in {"exact", "trailing", "indent", "anchored"}
  <2> HIDE DEF n
  <2> QED BY <1>2 DEF EditPasses
<1> HIDE DEF n, found
<1>4. s \in spans
  BY <1>3
<1> HIDE DEF s
<1>5. Locate(text, quote).span = s /\ Locate(text, quote).how = how
  BY <1>1
<1>6. CASE how = "anchored"
  <2>1. s \in Anchored(text, quote)
    BY <1>4, <1>6 DEF EditPass
  <2> QED BY <1>5, <1>6, <2>1, AnchoredAre DEF Elsewhere
<1>7. CASE how # "anchored"
  <2>1. spans = Spans(how, text, quote) /\ how \in {"exact", "trailing", "indent"}
    BY <1>3, <1>7 DEF EditPass
  <2> HIDE DEF spans, how
  <2> QED BY <1>1, <1>4, <1>5, <2>1, SpansAre DEF Elsewhere
<1> QED BY <1>6, <1>7

\* Told of f, and settled by nothing of K since.
Unsettled(ps, K, f) ==
  \E i \in 1..Len(ps) : IsEdit(ps[i]) /\ ps[i].path = f /\ \A j \in (i + 1)..Len(ps) : ps[j] \notin K
\* The entries that settle a change, a page, a file.
Checks == {e \in Entries : IsCheck(e)}
Loading == {e \in Entries : Loads(e)}
Using == {e \in Entries : Uses(e)}
\* The ledger against a history.
Accounts(ps, lg) ==
  /\ lg.unproven = {f \in Paths : ~IsProse(f) /\ Unsettled(ps, Checks, f)}
  /\ lg.unrendered = {f \in Files : IsWeb(f) /\ Unsettled(ps, Loading, f)}
  /\ lg.unused = {f \in Paths : ~IsProse(f) /\ ~IsTest(f) /\ Unsettled(ps, Using, f)}
\* An edit is told under its own name or under none.
Named(ps) == \A k \in 1..Len(ps) : IsEdit(ps[k]) => ps[k].path \in {NotAPath, ps[k].file}

\* LedgerInv, first-order: what settles a change is a set of entries.
LEMMA AccountsAre ==
  proofs \in Seq(Entries) /\ Named(proofs) => (LedgerInv <=> MenuIsHonest /\ Accounts(proofs, ledger))
<1> SUFFICES ASSUME proofs \in Seq(Entries), Named(proofs)
             PROVE  LedgerInv <=> MenuIsHonest /\ Accounts(proofs, ledger)
  OBVIOUS
<1> DEFINE owed1(f) == \E i \in {i \in 1..Len(proofs) : IsEdit(proofs[i])} : proofs[i].path = f /\ Since(i, IsCheck)
           owed2(f) == \E i \in {i \in 1..Len(proofs) : IsEdit(proofs[i])} : proofs[i].path = f /\ Since(i, Loads)
           owed3(f) == \E i \in {i \in 1..Len(proofs) : IsEdit(proofs[i])} : proofs[i].path = f /\ Since(i, Uses)
<1>1. Len(proofs) \in Nat /\ \A j \in 1..Len(proofs) : proofs[j] \in Entries
  BY LenProperties, ElementOfSeq
<1>2. \A i \in 1..Len(proofs) :
        /\ Since(i, IsCheck) <=> \A j \in (i + 1)..Len(proofs) : proofs[j] \notin Checks
        /\ Since(i, Loads) <=> \A j \in (i + 1)..Len(proofs) : proofs[j] \notin Loading
        /\ Since(i, Uses) <=> \A j \in (i + 1)..Len(proofs) : proofs[j] \notin Using
  <2> HIDE DEF Entries
  <2> USE <1>1 DEF Since, Checks, Loading, Using
  <2> QED OBVIOUS
<1>3. \A f : /\ owed1(f) <=> Unsettled(proofs, Checks, f)
             /\ owed2(f) <=> Unsettled(proofs, Loading, f)
             /\ owed3(f) <=> Unsettled(proofs, Using, f)
  BY <1>2 DEF Unsettled
<1> DEFINE Held == \A i \in {i \in 1..Len(proofs) : IsEdit(proofs[i])} :
                     /\ Since(i, IsCheck) /\ proofs[i].file # None /\ ~IsProse(proofs[i].file)
                       => ledger.unproven # {}
<1>4. LedgerInv <=>
        /\ MenuIsHonest
        /\ Held
        /\ ledger.unproven = {f \in Files \union {NotAPath} : ~IsProse(f) /\ owed1(f)}
        /\ ledger.unrendered = {f \in Files : IsWeb(f) /\ owed2(f)}
        /\ ledger.unused = {f \in Files \union {NotAPath} : ~IsProse(f) /\ ~IsTest(f) /\ owed3(f)}
  BY Zenon DEF LedgerInv
<1>5. ledger.unproven = {f \in Paths : ~IsProse(f) /\ Unsettled(proofs, Checks, f)} => Held
  <2> SUFFICES ASSUME ledger.unproven = {f \in Paths : ~IsProse(f) /\ Unsettled(proofs, Checks, f)},
                      NEW i \in 1..Len(proofs), IsEdit(proofs[i]), Since(i, IsCheck),
                      proofs[i].file # None, ~IsProse(proofs[i].file)
               PROVE  ledger.unproven # {}
    OBVIOUS
  <2>1. proofs[i].path \in Paths /\ ~IsProse(proofs[i].path)
    <3>1. proofs[i] \in Entries /\ proofs[i].path \in {NotAPath, proofs[i].file}
      BY <1>1 DEF Named
    <3> QED BY <3>1 DEF Entries, NotAPath, IsProse
  <2>2. Unsettled(proofs, Checks, proofs[i].path)
    BY <1>2 DEF Unsettled
  <2> QED BY <2>1, <2>2
<1> HIDE DEF owed1, owed2, owed3, Held
<1>6. Paths = Files \union {NotAPath}
  BY DEF Paths
<1> QED BY <1>3, <1>4, <1>5, <1>6 DEF Accounts

\* What one more thing told leaves unsettled.
LEMMA AppendUnsettled ==
  ASSUME NEW ps \in Seq(Entries), NEW e \in Entries, NEW K, NEW f
  PROVE  Unsettled(Append(ps, e), K, f) <=> \/ IsEdit(e) /\ e.path = f
                                            \/ e \notin K /\ Unsettled(ps, K, f)
<1> DEFINE n == Len(ps)  qs == Append(ps, e)
<1>1. n \in Nat /\ Len(qs) = n + 1 /\ qs[n + 1] = e /\ \A i \in 1..n : qs[i] = ps[i]
  BY AppendProperties, LenProperties
<1> HIDE DEF qs, n, Entries
<1>2. ASSUME Unsettled(qs, K, f) PROVE \/ IsEdit(e) /\ e.path = f
                                       \/ e \notin K /\ Unsettled(ps, K, f)
  <2>1. PICK i \in 1..(n + 1) : /\ IsEdit(qs[i]) /\ qs[i].path = f
                                /\ \A j \in (i + 1)..(n + 1) : qs[j] \notin K
    BY <1>1, <1>2 DEF Unsettled
  <2>2. CASE i = n + 1
    BY <1>1, <2>1, <2>2
  <2>3. CASE i \in 1..n
    <3>1. e \notin K
      BY <1>1, <2>1, <2>3
    <3>2. \A j \in (i + 1)..n : ps[j] \notin K
      BY <1>1, <2>1, <2>3
    <3>3. IsEdit(ps[i]) /\ ps[i].path = f
      BY <1>1, <2>1, <2>3
    <3> QED BY <2>3, <3>1, <3>2, <3>3 DEF Unsettled, n
  <2> QED BY <1>1, <2>2, <2>3
<1>3. ASSUME IsEdit(e), e.path = f PROVE Unsettled(qs, K, f)
  <2>1. n + 1 \in 1..(n + 1) /\ (n + 1 + 1)..(n + 1) = {}
    BY <1>1
  <2> QED BY <1>1, <1>3, <2>1 DEF Unsettled
<1>4. ASSUME e \notin K, Unsettled(ps, K, f) PROVE Unsettled(qs, K, f)
  <2>1. PICK i \in 1..n : /\ IsEdit(ps[i]) /\ ps[i].path = f
                          /\ \A j \in (i + 1)..n : ps[j] \notin K
    BY <1>4 DEF Unsettled, n
  <2>2. \A j \in (i + 1)..(n + 1) : qs[j] \notin K
    <3> TAKE j \in (i + 1)..(n + 1)
    <3>1. CASE j = n + 1
      BY <1>1, <1>4, <3>1
    <3>2. CASE j \in (i + 1)..n
      BY <1>1, <2>1, <3>2
    <3> QED BY <1>1, <3>1, <3>2
  <2>3. i \in 1..(n + 1) /\ IsEdit(qs[i]) /\ qs[i].path = f
    BY <1>1, <2>1
  <2> QED BY <1>1, <2>2, <2>3 DEF Unsettled
<1> QED BY <1>2, <1>3, <1>4 DEF qs

\* Ledger.record keeps the account of the history, whatever it is told.
LEMMA ToldIs ==
  ASSUME Evidence, NEW e \in Entries, IsEdit(e) => e.path \in {NotAPath, e.file}, Told(e), MenuIsHonest'
  PROVE  Evidence'
<1>1. /\ proofs \in Seq(Entries) /\ Named(proofs) /\ Accounts(proofs, ledger)
      /\ DOMAIN ledger = {"unproven", "unrendered", "unused", "launch_only"}
  BY AccountsAre DEF Evidence, Named
<1>2. Len(proofs) \in Nat
  BY <1>1, LenProperties
<1>3. IsCheck(e) => ~IsEdit(e)
  BY DEF IsCheck, IsEdit
<1>4. proofs' \in Seq(Entries) /\ Named(proofs')
  <2>1. CASE IsCheck(e) \/ IsEdit(e)
    <3>1. proofs' = Append(proofs, e)
      BY <2>1 DEF Told
    <3> HIDE DEF Entries
    <3>2. Len(proofs') = Len(proofs) + 1 /\ proofs'[Len(proofs) + 1] = e
          /\ \A i \in 1..Len(proofs) : proofs'[i] = proofs[i]
      BY <1>1, <3>1, AppendProperties
    <3>3. proofs' \in Seq(Entries)
      BY <1>1, <3>1, AppendProperties
    <3> QED BY <1>1, <1>2, <3>2, <3>3 DEF Named
  <2>2. CASE ~(IsCheck(e) \/ IsEdit(e))
    BY <1>1, <2>2 DEF Told
  <2> QED BY <2>1, <2>2
<1>5. /\ e \in Checks <=> IsCheck(e)
      /\ e \in Loading <=> Loads(e)
      /\ e \in Using <=> Uses(e)
  BY DEF Checks, Loading, Using
<1>6. /\ DOMAIN ledger' = {"unproven", "unrendered", "unused", "launch_only"}
      /\ Accounts(proofs', ledger')
  <2>1. CASE IsCheck(e)
    <3>1. proofs' = Append(proofs, e) /\ ~IsEdit(e)
      BY <1>3, <2>1 DEF Told
    <3>2. ledger' = [unproven |-> {},
          unrendered |-> IF LoadsAPage(e) THEN {} ELSE ledger.unrendered,
          unused |-> IF e.tool = "exercise" /\ e.steps > 1 THEN {} ELSE ledger.unused,
          launch_only |-> IF e.tool = "exercise" THEN e.steps <= 1 ELSE ledger.launch_only]
      BY <2>1 DEF Told, LedgerRecord
    <3>3. /\ ledger'.unproven = {}
          /\ ledger'.unrendered = IF Loads(e) THEN {} ELSE ledger.unrendered
          /\ ledger'.unused = IF Uses(e) THEN {} ELSE ledger.unused
          /\ DOMAIN ledger' = {"unproven", "unrendered", "unused", "launch_only"}
      BY <2>1, <3>2 DEF Loads, Uses
    <3>4. \A f : /\ ~Unsettled(proofs', Checks, f)
                 /\ Unsettled(proofs', Loading, f) <=> ~Loads(e) /\ Unsettled(proofs, Loading, f)
                 /\ Unsettled(proofs', Using, f) <=> ~Uses(e) /\ Unsettled(proofs, Using, f)
      <4> HIDE DEF Entries
      <4> QED BY <1>1, <1>5, <2>1, <3>1, AppendUnsettled
    <3> QED BY <1>1, <3>3, <3>4 DEF Accounts
  <2>2. CASE IsEdit(e)
    <3>1. proofs' = Append(proofs, e) /\ ~IsCheck(e) /\ ~Loads(e) /\ ~Uses(e)
      BY <1>3, <2>2 DEF Told, Loads, Uses
    <3> DEFINE new(yes) == IF yes THEN {e.path} ELSE {}
    <3>2. ledger' = [ledger EXCEPT !.unproven = @ \union new(~IsProse(e.path)),
                    !.unrendered = @ \union new(IsWeb(e.path)),
                    !.unused = @ \union new(~IsProse(e.path) /\ ~IsTest(e.path))]
      BY <2>2, <3>1 DEF Told, LedgerRecord
    <3>3. /\ ledger'.unproven = ledger.unproven \union new(~IsProse(e.path))
          /\ ledger'.unrendered = ledger.unrendered \union new(IsWeb(e.path))
          /\ ledger'.unused = ledger.unused \union new(~IsProse(e.path) /\ ~IsTest(e.path))
          /\ DOMAIN ledger' = {"unproven", "unrendered", "unused", "launch_only"}
      <4> HIDE DEF new
      <4> QED BY <1>1, <3>2
    <3>4. \A f : /\ Unsettled(proofs', Checks, f) <=> e.path = f \/ Unsettled(proofs, Checks, f)
                 /\ Unsettled(proofs', Loading, f) <=> e.path = f \/ Unsettled(proofs, Loading, f)
                 /\ Unsettled(proofs', Using, f) <=> e.path = f \/ Unsettled(proofs, Using, f)
      <4> HIDE DEF Entries
      <4> QED BY <1>1, <1>5, <2>2, <3>1, AppendUnsettled
    <3>5. e.path \in Paths /\ (IsWeb(e.path) => e.path \in Files)
      BY DEF Entries, IsWeb, Files
    <3> QED BY <1>1, <3>3, <3>4, <3>5 DEF Accounts
  <2>3. CASE ~(IsCheck(e) \/ IsEdit(e))
    BY <1>1, <2>3 DEF Told, LedgerRecord
  <2> QED BY <2>1, <2>2, <2>3
<1>7. LedgerInv'
  <2>1. (proofs \in Seq(Entries) /\ Named(proofs) => (LedgerInv <=> MenuIsHonest /\ Accounts(proofs, ledger)))'
    BY AccountsAre, PTL
  <2> QED BY <1>4, <1>6, <2>1
<1> QED BY <1>4, <1>6, <1>7 DEF Evidence, Named

\* A sequence is a text.
LEMMA IsTextOf ==
  ASSUME NEW S, NEW text \in Seq(S)
  PROVE  IsText(text)
<1>1. text \in [1..Len(text) -> S] /\ Len(text) \in Nat /\ DOMAIN text = 1..Len(text)
  BY LenProperties
<1>2. text \in [1..Len(text) -> ToSet(text)]
  BY <1>1 DEF ToSet
<1>3. \A T : Seq(T) = UNION {[1..n -> T] : n \in Nat}
  BY SeqDef
<1> QED BY <1>1, <1>2, <1>3 DEF IsText

\* SubSeqProperties, for a part that begins in the sequence.
LEMMA SubSeqIs ==
  ASSUME NEW T, NEW s, NEW m \in Nat \ {0}, NEW n \in Nat, m <= n + 1, \A i \in m..n : s[i] \in T
  PROVE  /\ SubSeq(s, m, n) \in Seq(T)
         /\ Len(SubSeq(s, m, n)) = n + 1 - m
         /\ \A i \in 1..(n + 1 - m) : SubSeq(s, m, n)[i] = s[m + i - 1]
<1> DEFINE W == SubSeq(s, m, n)
<1>1. m \in Int /\ n \in Int /\ n - m + 1 = n + 1 - m
  OBVIOUS
<1>2. W \in Seq(T) /\ Len(W) = IF m <= n THEN n - m + 1 ELSE 0
  BY <1>1, SubSeqProperties
<1>3. \A i \in 1..(n - m + 1) : W[i] = s[m + i - 1]
  BY <1>1, SubSeqProperties
<1> HIDE DEF W
<1>4. Len(W) = n + 1 - m
  BY <1>2
<1> QED BY <1>1, <1>2, <1>3, <1>4 DEF W
\* Replace puts one line where the span was and keeps the lines before and after it.
LEMMA ReplaceIs ==
  ASSUME NEW text, IsText(text), NEW s, s.from \in 1..Len(text), s.to \in 1..Len(text), s.from <= s.to
  PROVE  LET now == Replace(text, s) IN
         /\ IsText(now)
         /\ SubSeq(now, 1, s.from - 1) = SubSeq(text, 1, s.from - 1)
         /\ Len(now) = Len(text) - (s.to - s.from)
         /\ SubSeq(now, s.from + 1, Len(now)) = SubSeq(text, s.to + 1, Len(text))
<1> DEFINE x == [w |-> "new", ind |-> s.lead, tr |-> s.tail]
           T == ToSet(text) \cup {x}
           a == s.from  b == s.to  n == Len(text)
           L == SubSeq(text, 1, a - 1)
           R == SubSeq(text, b + 1, n)
           now == Replace(text, s)
<1>1. text \in Seq(T) /\ n \in Nat /\ a \in Nat /\ b \in Nat /\ 1 <= a /\ a <= b /\ b <= n
  BY SeqMonotonic, LenProperties DEF IsText
<1>2. now = L \o <<x>> \o R
  BY DEF Replace
<1> HIDE DEF x, now, T
<1>3. \A i \in 1..n : text[i] \in T
  BY <1>1, ElementOfSeq
<1>b. L = SubSeq(text, 1, a - 1) /\ R = SubSeq(text, b + 1, n)
  OBVIOUS
<1> HIDE DEF n, a, b
<1>c. PICK c \in Nat : c = a - 1
  BY <1>1
<1>4. L \in Seq(T) /\ Len(L) = c /\ \A i \in 1..c : L[i] = text[i]
  <2>1. /\ \A i \in 1..c : text[i] \in T
        /\ 1 <= c + 1 /\ 1 \in Nat \ {0} /\ c + 1 - 1 = c
        /\ L = SubSeq(text, 1, c)
    BY <1>1, <1>3, <1>c
  <2> HIDE DEF L
  <2>2. /\ L \in Seq(T) /\ Len(L) = c
        /\ \A i \in 1..c : L[i] = text[1 + i - 1]
    BY <2>1, SubSeqIs
  <2>3. \A i \in 1..c : 1 + i - 1 = i
    OBVIOUS
  <2> QED BY <2>2, <2>3
<1>5. R \in Seq(T) /\ Len(R) = n - b /\ \A i \in 1..(n - b) : R[i] = text[b + i]
  <2>1. /\ \A i \in (b + 1)..n : text[i] \in T
        /\ b + 1 <= n + 1 /\ b + 1 \in Nat \ {0} /\ n + 1 - (b + 1) = n - b
    BY <1>1, <1>3
  <2>2. /\ R \in Seq(T) /\ Len(R) = n - b
        /\ \A i \in 1..(n - b) : R[i] = text[b + 1 + i - 1]
    BY <1>1, <2>1, SubSeqIs
  <2>3. \A i \in 1..(n - b) : b + 1 + i - 1 = b + i
    BY <1>1
  <2> HIDE DEF R
  <2> QED BY <2>2, <2>3
<1> HIDE DEF L, R
<1> DEFINE M == L \o <<x>>
<1>6. <<x>> \in Seq(T) /\ Len(<<x>>) = 1
  BY DEF T
<1>7. M \in Seq(T) /\ Len(M) = a /\ \A i \in 1..(a - 1) : M[i] = text[i]
  <2>1. /\ M \in Seq(T)
        /\ Len(M) = Len(L) + 1
        /\ \A i \in 1..(Len(L) + 1) : M[i] = IF i <= Len(L) THEN L[i] ELSE <<x>>[i - Len(L)]
    BY <1>4, <1>6, ConcatProperties
  <2> HIDE DEF M
  <2>2. Len(L) + 1 = a /\ Len(L) = a - 1 /\ a - 1 = c
    BY <1>1, <1>4, <1>c
  <2>3. ASSUME NEW i \in 1..(a - 1) PROVE M[i] = text[i]
    <3>1. i \in 1..(Len(L) + 1) /\ i <= Len(L) /\ i \in 1..c
      BY <1>1, <2>2
    <3>2. M[i] = L[i]
      BY <2>1, <3>1
    <3> QED BY <1>4, <3>1, <3>2
  <2> QED BY <2>1, <2>2, <2>3
<1>8. now = M \o R
  BY <1>2
<1> HIDE DEF M
<1>9. /\ now \in Seq(T)
      /\ Len(now) = a + (n - b)
      /\ \A i \in 1..(a - 1) : now[i] = text[i]
      /\ \A i \in 1..(n - b) : now[a + i] = text[b + i]
  <2>1. /\ now \in Seq(T)
        /\ Len(now) = Len(M) + Len(R)
        /\ \A i \in 1..(Len(M) + Len(R)) : now[i] = IF i <= Len(M) THEN M[i] ELSE R[i - Len(M)]
    BY <1>5, <1>7, <1>8, ConcatProperties
  <2>2. ASSUME NEW i \in 1..(a - 1) PROVE now[i] = text[i]
    <3>1. i \in 1..(Len(M) + Len(R)) /\ i <= Len(M)
      BY <1>1, <1>5, <1>7
    <3>2. now[i] = M[i]
      BY <2>1, <3>1
    <3> QED BY <1>7, <3>2
  <2>3. ASSUME NEW i \in 1..(n - b) PROVE now[a + i] = R[i]
    <3>1. a + i \in 1..(Len(M) + Len(R)) /\ ~(a + i <= Len(M)) /\ a + i - Len(M) = i
      BY <1>1, <1>5, <1>7
    <3>2. \A k \in 1..(Len(M) + Len(R)) : ~(k <= Len(M)) => now[k] = R[k - Len(M)]
      BY <2>1
    <3>3. PICK k \in 1..(Len(M) + Len(R)) : k = a + i
      BY <3>1
    <3>4. now[k] = R[k - Len(M)] /\ k - Len(M) = i
      BY <1>1, <1>7, <3>1, <3>2, <3>3
    <3> QED BY <3>3, <3>4
  <2> QED BY <1>5, <1>7, <2>1, <2>2, <2>3
<1>10. \A i \in 1..Len(now) : now[i] \in T
  BY <1>9, ElementOfSeq
<1>11. SubSeq(now, 1, a - 1) = L
  <2> DEFINE W == SubSeq(now, 1, a - 1)
  <2>1. /\ \A i \in 1..c : now[i] \in T
        /\ 1 <= c + 1 /\ 1 \in Nat \ {0} /\ c + 1 - 1 = c
        /\ W = SubSeq(now, 1, c)
    BY <1>1, <1>9, <1>10, <1>c
  <2> HIDE DEF W
  <2>2. /\ W \in Seq(T) /\ Len(W) = c
        /\ \A i \in 1..c : W[i] = now[1 + i - 1]
    BY <2>1, SubSeqIs
  <2>3. \A i \in 1..c : 1 + i - 1 = i /\ i \in 1..(a - 1)
    BY <1>c
  <2>4. Len(W) = Len(L) /\ \A i \in 1..Len(W) : W[i] = L[i]
    BY <1>4, <1>9, <2>2, <2>3
  <2> QED BY <1>4, <2>2, <2>4, SeqEqual DEF W
<1>12. SubSeq(now, a + 1, Len(now)) = R
  <2> DEFINE m == Len(now)
             W == SubSeq(now, a + 1, m)
  <2>0. m \in Nat /\ m = a + (n - b)
    BY <1>1, <1>9
  <2>1. /\ \A i \in (a + 1)..m : now[i] \in T
        /\ a + 1 <= m + 1 /\ a + 1 \in Nat \ {0} /\ m + 1 - (a + 1) = n - b
    <3> HIDE DEF m
    <3>1. \A i \in (a + 1)..m : i \in 1..m
      BY <1>1, <2>0
    <3>2. \A i \in 1..m : now[i] \in T
      BY <1>10 DEF m
    <3>3. /\ a + 1 <= m + 1 /\ a + 1 \in Nat \ {0} /\ m + 1 - (a + 1) = n - b
      BY <1>1, <2>0
    <3> QED BY <3>1, <3>2, <3>3
  <2> HIDE DEF m
  <2>2. /\ W \in Seq(T) /\ Len(W) = n - b
        /\ \A i \in 1..(n - b) : W[i] = now[a + 1 + i - 1]
    BY <2>0, <2>1, SubSeqIs
  <2>3. \A i \in 1..(n - b) : a + 1 + i - 1 = a + i
    BY <1>1
  <2> HIDE DEF W
  <2>4. Len(W) = Len(R) /\ \A i \in 1..Len(W) : W[i] = R[i]
    BY <1>5, <1>9, <2>2, <2>3
  <2> QED BY <1>5, <2>2, <2>4, SeqEqual DEF W, m
<1>13. IsText(now)
  BY <1>9, IsTextOf
<1>14. Len(now) = n - (b - a)
  BY <1>1, <1>9
<1> QED BY <1>11, <1>12, <1>13, <1>14 DEF L, R, now, n, a, b

\* An edit that is written as it was found.
LEMMA EditIs ==
  ASSUME Editing, ToolsAssumption, step.do = "edit",
         last' = [do |-> "edited", was |-> step.was, quote |-> step.quote, at |-> step.at,
                  now |-> Replace(step.was, step.at.span)]
  PROVE  EditInv'
<1>1. /\ IsText(step.was) /\ IsText(step.quote) /\ step.quote # <<>>
      /\ step.at = Locate(step.was, step.quote) /\ step.at # Nowhere
  BY DEF Editing, ToolsAssumption
<1> DEFINE s == step.at.span
<1>2. /\ s.from \in 1..Len(step.was) /\ s.to \in 1..Len(step.was) /\ s.from <= s.to
      /\ step.was[s.from].w = step.quote[1].w
      /\ step.was[s.to].w = step.quote[Len(step.quote)].w
      /\ ~Elsewhere(step.at, step.was, step.quote)
  BY <1>1, LocateIs
<1> HIDE DEF s
<1> DEFINE now == Replace(step.was, s)
<1>3. /\ SubSeq(now, 1, s.from - 1) = SubSeq(step.was, 1, s.from - 1)
      /\ Len(now) = Len(step.was) - (s.to - s.from)
      /\ SubSeq(now, s.from + 1, Len(now)) = SubSeq(step.was, s.to + 1, Len(step.was))
  BY <1>1, <1>2, ReplaceIs
<1> HIDE DEF now
<1>4. /\ last'.was = step.was /\ last'.quote = step.quote /\ last'.at = step.at
      /\ last'.now = now /\ last'.at.span = s
  BY DEF now, s
<1>5. Head(step.quote) = step.quote[1] /\ Last(step.quote) = step.quote[Len(step.quote)]
  BY <1>1 DEF Last, IsText
<1> QED BY <1>2, <1>3, <1>4, <1>5 DEF EditInv

\* Nothing in a run changes what the menu says of itself.
LEMMA MenuAlways == MenuIsHonest
  BY MenuHolds DEF MenuIsHonest, Honest

\* Evidence, in terms of Accounts.
LEMMA EvidenceIs ==
  Evidence <=> /\ proofs \in Seq(Entries) /\ Named(proofs)
               /\ DOMAIN ledger = {"unproven", "unrendered", "unused", "launch_only"}
               /\ Accounts(proofs, ledger)
<1> HIDE DEF Entries
<1> QED BY AccountsAre, MenuAlways, Zenon DEF Evidence, Named

LEMMA EvidenceStays ==
  ASSUME Evidence, proofs' = proofs, ledger' = ledger
  PROVE  Evidence'
<1>1. (Evidence <=> /\ proofs \in Seq(Entries) /\ Named(proofs)
               /\ DOMAIN ledger = {"unproven", "unrendered", "unused", "launch_only"}
               /\ Accounts(proofs, ledger))'
  BY EvidenceIs, PTL
<1> HIDE DEF Entries, Named, Accounts
<1> QED BY <1>1, EvidenceIs, Zenon

LEMMA ToldStays ==
  ASSUME Evidence, NEW e \in Entries, IsEdit(e) => e.path \in {NotAPath, e.file}, Told(e)
  PROVE  Evidence'
<1>1. MenuIsHonest'
  BY MenuAlways, PTL
<1> QED BY <1>1, ToldIs

\* A write gives the file a stamp no map has.
LEMMA PutKeeps ==
  ASSUME Shelves, NEW f \in Files, NEW text, IsText(text), Put(f, text)
  PROVE  /\ Shelves' /\ clock' = clock + 1
         /\ tree'[f].text = text /\ tree'[f].stamp = clock
         /\ \A g \in Files : g # f => tree'[g] = tree[g]
<1>1. /\ tree' = [tree EXCEPT ![f] = [text |-> text, stamp |-> clock]]
      /\ clock' = clock + 1 /\ DOMAIN tree = Files /\ clock \in Nat
  BY DEF Put, Shelves
<1>2. DOMAIN tree' = Files /\ tree'[f] = [text |-> text, stamp |-> clock]
      /\ \A g \in Files : g # f => tree'[g] = tree[g]
  BY <1>1
<1>3. ASSUME NEW g \in Files
      PROVE  /\ IsText(tree'[g].text) /\ tree'[g].stamp \in Nat /\ tree'[g].stamp < clock'
             /\ DOMAIN tree'[g] = {"text", "stamp"}
  <2>1. CASE g = f
    BY <1>1, <1>2, <2>1
  <2>2. CASE g # f
    <3>1. IsText(tree[g].text) /\ tree[g].stamp \in Nat /\ tree[g].stamp < clock /\ DOMAIN tree[g] = {"text", "stamp"}
      BY DEF Shelves
    <3> QED BY <1>1, <1>2, <2>2, <3>1
  <2> QED BY <2>1, <2>2
<1> QED BY <1>1, <1>2, <1>3 DEF Shelves

\* What is cached under an old stamp says nothing of the new text.
LEMMA PutCached ==
  ASSUME Shelves, Cached, NEW f \in Files, NEW text, IsText(text), Put(f, text), maps' = maps
  PROVE  Cached'
<1>1. /\ clock' = clock + 1 /\ clock \in Nat /\ tree'[f].stamp = clock
      /\ \A g \in Files : g # f => tree'[g] = tree[g]
  BY PutKeeps DEF Shelves
<1>2. ASSUME NEW m \in maps, NEW g \in Py
      PROVE  /\ m.stamp[g] < clock' /\ m.stamp[g] \in Nat
             /\ m.stamp[g] = tree'[g].stamp => m.files[Numbers(g)] = tree'[g].text
  <2>1. /\ m.stamp[g] < clock /\ m.stamp[g] \in Nat
        /\ m.stamp[g] = tree[g].stamp => m.files[Numbers(g)] = tree[g].text
    BY DEF Cached
  <2>2. g \in Files
    BY DEF Py, Files
  <2> QED BY <1>1, <2>1, <2>2
<1> QED BY <1>2 DEF Cached

\* A write that fails half way is still a write.
LEMMA FailedKeeps ==
  ASSUME Shelves, Cached, NEW f \in Files, NEW text, IsText(text), FailedWrite(f, text), maps' = maps
  PROVE  Shelves' /\ Cached'
<1>1. CASE UNCHANGED <<tree, clock>>
  BY <1>1 DEF Shelves, Cached
<1>2. CASE Put(f, <<>>)
  <2>1. IsText(<<>>)
    BY DEF IsText
  <2> QED BY <1>2, <2>1, PutKeeps, PutCached
<1>3. CASE Put(f, text)
  BY <1>3, PutKeeps, PutCached
<1> QED BY <1>1, <1>2, <1>3 DEF FailedWrite

\* What a run begins with.
LEMMA DesksBegin ==
  ASSUME ToolsInit, ToolsAssumption
  PROVE  Desks
<1>1. PICK T \in Texts : tree = [f \in Files |-> [text |-> IF f \in Edited THEN T ELSE <<Word("a")>>, stamp |-> 0]]
  BY DEF ToolsInit
<1>2. IsText(T) /\ IsText(<<Word("a")>>)
  <2>1. <<Word("a")>> \in Seq({Word("a")})
    OBVIOUS
  <2> QED BY <2>1, IsTextOf DEF ToolsAssumption
<1>3. Shelves
  BY <1>1, <1>2 DEF Shelves, ToolsInit
<1>4. Editing /\ Cached /\ Mapping /\ EditInv /\ MapIsFresh
  BY DEF ToolsInit, Editing, Cached, Mapping, EditInv, MapIsFresh, Idle
<1>5. proofs = <<>> /\ ledger = [unproven |-> {}, unrendered |-> {}, unused |-> {}, launch_only |-> FALSE]
  BY DEF ToolsInit, NewLedger
<1>6. Evidence
  <2>1. Len(<<>>) = 0 /\ <<>> \in Seq(Entries)
    BY EmptySeq
  <2>2. Accounts(proofs, ledger)
    BY <1>5, <2>1 DEF Accounts, Unsettled
  <2> QED BY <1>5, <2>1, <2>2, EvidenceIs DEF Named
<1> QED BY <1>3, <1>4, <1>6 DEF Desks

\* The parts that no tool but the file tools and code_map disturbs.
Standing == Shelves /\ Editing /\ Cached /\ Mapping /\ EditInv /\ MapIsFresh

LEMMA StandingStays ==
  ASSUME Standing, UNCHANGED <<tree, clock, maps, step, last>>
  PROVE  Standing'
<1>1. Shelves' /\ Editing' /\ Cached'
  BY DEF Standing, Shelves, Editing, Cached
<1>2. Mapping'
  BY DEF Standing, Mapping
<1>3. EditInv' /\ MapIsFresh'
  BY DEF Standing, EditInv, MapIsFresh
<1> QED BY <1>1, <1>2, <1>3 DEF Standing

LEMMA PlainTold ==
  ASSUME Evidence, NEW t \in Tellers, NEW ok \in BOOLEAN, Told(Entry(t, ok))
  PROVE  Evidence'
<1> DEFINE e == Entry(t, ok)
<1>1. e \in Entries /\ e.path = NotAPath
  BY DEF Entry, Said, Entries, Paths
<1> HIDE DEF e
<1> QED BY <1>1, ToldStays DEF e

\* The tools that change no file.
LEMMA ReadersKeep ==
  ASSUME Standing, Evidence, Consult \/ RunCheck \/ LoadPage \/ Walk \/ PredictEdit
  PROVE  Standing' /\ Evidence'
<1>1. CASE Consult
  BY <1>1, StandingStays, EvidenceStays DEF Consult
<1>2. CASE RunCheck
  <2>1. PICK t \in {"execute_python", "check_bash", "execute_bash"}, ok \in BOOLEAN :
          Told(Entry(t, ok)) /\ UNCHANGED <<tree, clock, maps, step, last>>
    BY <1>2 DEF RunCheck
  <2>2. Told(Entry(t, ok)) /\ t \in Tellers /\ t \notin {"write_file", "edit_file", "predict_edit"}
    BY <2>1 DEF Tellers
  <2> QED BY <2>1, <2>2, PlainTold, StandingStays
<1>3. CASE LoadPage
  <2>1. PICK ok \in BOOLEAN : Told(Entry("browse", ok)) /\ UNCHANGED <<tree, clock, maps, step, last>>
    BY <1>3 DEF LoadPage
  <2> QED BY <2>1, PlainTold, StandingStays DEF Tellers
<1>4. CASE Walk
  <2>1. PICK ok \in BOOLEAN, page \in BOOLEAN, n \in 1..2 :
          /\ Told(Said("exercise", ok, NotAPath, None, page, n))
          /\ UNCHANGED <<tree, clock, maps, step, last>>
    BY <1>4 DEF Walk
  <2> DEFINE e == Said("exercise", ok, NotAPath, None, page, n)
  <2>2. e \in Entries /\ e.tool = "exercise"
    BY DEF Said, Entries, Paths, Tellers
  <2> HIDE DEF e
  <2>3. ~IsEdit(e)
    BY <2>2 DEF IsEdit
  <2> QED BY <2>1, <2>2, <2>3, StandingStays, ToldStays DEF e
<1>5. CASE PredictEdit
  <2>1. PICK ok \in BOOLEAN : Told(Entry("predict_edit", ok)) /\ UNCHANGED <<tree, clock, maps, step, last>>
    BY <1>5 DEF PredictEdit
  <2> QED BY <2>1, PlainTold, StandingStays DEF Tellers
<1> QED BY <1>1, <1>2, <1>3, <1>4, <1>5

LEMMA FileTold ==
  ASSUME Evidence, NEW t \in Tellers, NEW ok \in BOOLEAN, NEW f \in Files, NEW path \in {NotAPath, f},
         Told(FileEntry(t, ok, path, f))
  PROVE  Evidence'
<1> DEFINE e == FileEntry(t, ok, path, f)
<1>1. e \in Entries /\ e.path \in {NotAPath, e.file}
  BY DEF FileEntry, Said, Entries, Paths
<1> HIDE DEF e
<1> QED BY <1>1, ToldStays DEF e

LEMMA WriteKeeps ==
  ASSUME Standing, Evidence, ToolsAssumption, Write
  PROVE  Standing' /\ Evidence'
<1>1. PICK f \in Edited, T \in Texts, json \in BOOLEAN :
        LET e(ok) == FileEntry("write_file", ok, IF json THEN NotAPath ELSE f, f) IN
        \/ Put(f, T) /\ Told(e(TRUE))
        \/ FailedWrite(f, T) /\ Told(e(FALSE))
  BY DEF Write
<1>2. PICK path \in {NotAPath, f}, ok \in BOOLEAN :
        (Put(f, T) \/ FailedWrite(f, T)) /\ Told(FileEntry("write_file", ok, path, f))
  BY <1>1
<1>3. f \in Files /\ IsText(T)
  BY DEF ToolsAssumption
<1>4. UNCHANGED <<host, maps, step, last, others>> /\ step = Idle
  BY DEF Write, May
<1>5. Evidence'
  BY <1>2, <1>3, FileTold DEF Tellers
<1>6. Shelves' /\ Cached'
  BY <1>2, <1>3, <1>4, PutKeeps, PutCached, FailedKeeps DEF Standing
<1>7. Editing' /\ Mapping' /\ EditInv' /\ MapIsFresh'
  BY <1>4 DEF Standing, Editing, Mapping, EditInv, MapIsFresh, Idle
<1> QED BY <1>5, <1>6, <1>7 DEF Standing

LEMMA EditReadKeeps ==
  ASSUME Standing, Evidence, ToolsAssumption, EditRead
  PROVE  Standing' /\ Evidence'
<1>1. PICK f \in Edited, q \in Quotes :
        LET at == Locate(tree[f].text, q) IN
        IF at = Nowhere
        THEN Told(FileEntry("edit_file", FALSE, f, f)) /\ UNCHANGED step
        ELSE /\ step' = [do |-> "edit", file |-> f, was |-> tree[f].text, quote |-> q, at |-> at]
             /\ UNCHANGED <<ledger, proofs>>
  BY DEF EditRead
<1>2. UNCHANGED <<tree, clock, host, maps, last, others>> /\ step = Idle
  BY DEF EditRead, May
<1>3. f \in Files
  BY DEF ToolsAssumption
<1>4. CASE Locate(tree[f].text, q) = Nowhere
  <2>1. Told(FileEntry("edit_file", FALSE, f, f)) /\ UNCHANGED step
    BY <1>1, <1>4
  <2>2. Evidence'
    BY <1>3, <2>1, FileTold DEF Tellers
  <2> QED BY <1>2, <2>1, <2>2, StandingStays
<1>5. CASE Locate(tree[f].text, q) # Nowhere
  <2>1. /\ step' = [do |-> "edit", file |-> f, was |-> tree[f].text, quote |-> q, at |-> Locate(tree[f].text, q)]
        /\ UNCHANGED <<ledger, proofs>>
    BY <1>1, <1>5
  <2>2. Editing'
    <3>1. /\ step'.was = tree[f].text /\ step'.quote = q /\ step'.file = f
          /\ step'.at = Locate(tree[f].text, q)
      BY <2>1
    <3>2. IsText(tree[f].text)
      BY <1>3 DEF Standing, Shelves
    <3> QED BY <1>3, <1>5, <3>1, <3>2 DEF Editing
  <2>3. Mapping'
    BY <2>1 DEF Mapping
  <2>4. Shelves' /\ Cached' /\ EditInv' /\ MapIsFresh'
    BY <1>2 DEF Standing, Shelves, Cached, EditInv, MapIsFresh
  <2> QED BY <2>1, <2>2, <2>3, <2>4, EvidenceStays DEF Standing
<1> QED BY <1>4, <1>5

LEMMA EditWriteKeeps ==
  ASSUME Standing, Evidence, ToolsAssumption, EditWrite
  PROVE  Standing' /\ Evidence'
<1> DEFINE text == Replace(step.was, step.at.span)
           e(ok) == FileEntry("edit_file", ok, step.file, step.file)
           f == step.file
<1>1. /\ step.do = "edit" /\ step' = Idle /\ maps' = maps
      /\ \/ /\ Put(f, text) /\ Told(e(TRUE))
            /\ last' = [do |-> "edited", was |-> step.was, quote |-> step.quote, at |-> step.at, now |-> text]
         \/ FailedWrite(f, text) /\ Told(e(FALSE)) /\ UNCHANGED last
  BY DEF EditWrite
<1>2. f \in Files /\ IsText(step.was) /\ IsText(step.quote) /\ step.quote # <<>>
      /\ step.at = Locate(step.was, step.quote) /\ step.at # Nowhere
  BY <1>1 DEF Standing, Editing, ToolsAssumption
<1>3. IsText(text)
  <2>1. LET s == step.at.span IN s.from \in 1..Len(step.was) /\ s.to \in 1..Len(step.was) /\ s.from <= s.to
    BY <1>2, LocateIs
  <2> QED BY <1>2, <2>1, ReplaceIs
<1>4. PICK ok \in BOOLEAN : Told(FileEntry("edit_file", ok, f, f))
  BY <1>1
<1>5. EditInv' /\ MapIsFresh'
  <2>1. CASE last' = [do |-> "edited", was |-> step.was, quote |-> step.quote, at |-> step.at, now |-> text]
    <3>1. EditInv'
      BY <1>1, <2>1, EditIs DEF Standing
    <3>2. MapIsFresh'
      BY <2>1 DEF MapIsFresh
    <3> QED BY <3>1, <3>2
  <2>2. CASE UNCHANGED last
    BY <2>2 DEF Standing, EditInv, MapIsFresh
  <2> QED BY <1>1, <2>1, <2>2
<1>6. Evidence'
  BY <1>2, <1>4, FileTold DEF Tellers
<1> HIDE DEF text, f
<1>7. Shelves' /\ Cached'
  BY <1>1, <1>2, <1>3, PutKeeps, PutCached, FailedKeeps DEF Standing
<1>8. Editing' /\ Mapping'
  BY <1>1 DEF Editing, Mapping, Idle
<1> QED BY <1>5, <1>6, <1>7, <1>8 DEF Standing

\* A map that is answered from the cache was made of the files as they are now.
LEMMA MapStampKeeps ==
  ASSUME Standing, Evidence, MapStamp
  PROVE  Standing' /\ Evidence'
<1> DEFINE do == IF \E m \in maps : m.stamp = TreeStamp THEN "answer" ELSE "index"
           during == [f \in Py |-> {tree[f].text}]
<1>1. /\ step' = [do |-> do, stamp |-> TreeStamp, files |-> <<>>, during |-> during]
      /\ UNCHANGED <<tree, clock, host, ledger, maps, last, proofs, others>>
  BY DEF MapStamp
<1>2. /\ step'.do = do /\ step'.stamp = TreeStamp /\ step'.files = <<>> /\ step'.during = during
      /\ DOMAIN step' = {"do", "stamp", "files", "during"}
  <2> HIDE DEF do, during
  <2> QED BY <1>1
<1>3. DOMAIN TreeStamp = Py /\ \A f \in Py : TreeStamp[f] = tree[f].stamp /\ f \in Files
  BY DEF TreeStamp, Py, Files
<1>4. DOMAIN during = Py /\ \A f \in Py : during[f] = {tree[f].text}
  OBVIOUS
<1>5. do = "answer" => \E m \in maps : m.stamp = TreeStamp
  OBVIOUS
<1>6. do \in {"answer", "index"}
  OBVIOUS
<1> HIDE DEF do, during
<1>7. \A f \in Py : /\ tree'[f].text \in step'.during[f]
                    /\ step'.stamp[f] \in Nat /\ step'.stamp[f] < clock'
  BY <1>1, <1>2, <1>3, <1>4 DEF Standing, Shelves
<1>8. do = "answer" => /\ maps # {}
                       /\ \A m \in maps : m.files[1] \in during["app.py"] /\ m.files[2] \in during["test_app.py"]
  <2> SUFFICES ASSUME do = "answer", NEW m \in maps
               PROVE  m.files[1] \in during["app.py"] /\ m.files[2] \in during["test_app.py"]
    BY <1>5
  <2>1. m.stamp = TreeStamp
    BY <1>5 DEF Standing, Cached
  <2>2. \A f \in Py : m.files[Numbers(f)] = tree[f].text
    BY <1>3, <2>1 DEF Standing, Cached
  <2>3. m.files[1] = tree["app.py"].text /\ m.files[2] = tree["test_app.py"].text
    BY <2>2 DEF Numbers, Py
  <2> QED BY <1>4, <2>3 DEF Py
<1>9. Mapping'
  BY <1>1, <1>2, <1>3, <1>4, <1>6, <1>7, <1>8 DEF Mapping
<1>10. Editing'
  BY <1>2, <1>6 DEF Editing
<1>11. Shelves' /\ Cached' /\ EditInv' /\ MapIsFresh' /\ Evidence'
  BY <1>1, EvidenceStays DEF Standing, Shelves, Cached, EditInv, MapIsFresh
<1> QED BY <1>9, <1>10, <1>11 DEF Standing

LEMMA AppendOne ==
  ASSUME NEW x, NEW y
  PROVE  Append(<<x>>, y) = <<x, y>> /\ Len(<<x, y>>) = 2
<1> DEFINE T == {x, y}
           s == Append(<<x>>, y)
<1>1. /\ <<x>> \in Seq(T) /\ Len(<<x>>) = 1
      /\ <<x, y>> \in Seq(T) /\ Len(<<x, y>>) = 2
  OBVIOUS
<1>2. /\ s \in Seq(T) /\ Len(s) = 2 /\ s[2] = y
      /\ \A i \in 1..1 : s[i] = <<x>>[i]
  BY <1>1, AppendProperties
<1> HIDE DEF s
<1>3. \A i \in 1..2 : s[i] = <<x, y>>[i]
  BY <1>2
<1> QED BY <1>1, <1>2, <1>3, SeqEqual DEF s

\* The map is kept under the stamp taken first: when a file still has that stamp it has
\* not changed since it was read.
LEMMA MapIndexKeeps ==
  ASSUME Standing, Evidence, MapIndex
  PROVE  Standing' /\ Evidence'
<1> DEFINE f == IF step.files = <<>> THEN "app.py" ELSE "test_app.py"
           files == Append(step.files, tree[f].text)
<1>1. /\ step.do = "index"
      /\ UNCHANGED <<tree, clock, host, ledger, last, proofs, toolCalls, others>>
      /\ IF Len(files) < 2 THEN step' = [step EXCEPT !.files = files] /\ UNCHANGED maps
         ELSE /\ step' = [step EXCEPT !.do = "answer", !.files = files]
              /\ maps' = {[stamp |-> step.stamp, files |-> files]}
  BY DEF MapIndex
<1>2. /\ DOMAIN step = {"do", "stamp", "files", "during"}
      /\ DOMAIN step.during = Py /\ DOMAIN step.stamp = Py
      /\ \A g \in Py : /\ tree[g].text \in step.during[g]
                       /\ step.stamp[g] \in Nat /\ step.stamp[g] < clock
  BY <1>1 DEF Standing, Mapping
<1>3. "app.py" \in Py /\ "test_app.py" \in Py
  BY DEF Py
<1>4. EditInv' /\ MapIsFresh' /\ Shelves' /\ Evidence'
  BY <1>1, EvidenceStays DEF Standing, EditInv, MapIsFresh, Shelves
<1>5. CASE step.files = <<>>
  <2> DEFINE x == tree["app.py"].text
  <2>1. files = <<x>> /\ Len(files) = 1
    BY <1>5
  <2> HIDE DEF files, x
  <2>2. step' = [step EXCEPT !.files = <<x>>] /\ maps' = maps
    BY <1>1, <2>1
  <2>3. /\ step'.do = "index" /\ step'.files = <<x>> /\ step'.during = step.during /\ step'.stamp = step.stamp
        /\ DOMAIN step' = {"do", "stamp", "files", "during"}
    BY <1>1, <1>2, <2>2
  <2>4. step'.files[1] = x /\ step'.files = <<step'.files[1]>>
    BY <2>3
  <2>5. Mapping'
    BY <1>1, <1>2, <1>3, <2>3, <2>4 DEF Mapping, x
  <2>6. Cached' /\ Editing'
    BY <1>1, <2>2, <2>3 DEF Standing, Cached, Editing
  <2> QED BY <1>4, <2>5, <2>6 DEF Standing
<1>6. CASE step.files # <<>>
  <2> DEFINE x == step.files[1]
             y == tree["test_app.py"].text
  <2>1. /\ step.files = <<x>> /\ x \in step.during["app.py"]
        /\ step.stamp["app.py"] = tree["app.py"].stamp => x = tree["app.py"].text
    BY <1>1, <1>6 DEF Standing, Mapping
  <2> HIDE DEF x
  <2>2. files = Append(<<x>>, y)
    BY <1>6, <2>1
  <2> HIDE DEF files, y
  <2>3. files = <<x, y>> /\ Len(files) = 2
    BY <2>2, AppendOne
  <2>4. step' = [step EXCEPT !.do = "answer", !.files = files] /\ maps' = {[stamp |-> step.stamp, files |-> files]}
    BY <1>1, <2>3
  <2>5. /\ step'.do = "answer" /\ step'.during = step.during /\ step'.stamp = step.stamp
        /\ DOMAIN step' = {"do", "stamp", "files", "during"}
    BY <1>2, <2>4
  <2>6. \A m \in maps' : m.stamp = step.stamp /\ m.files[1] = x /\ m.files[2] = y
    BY <2>3, <2>4
  <2>7. Mapping'
    BY <1>1, <1>2, <1>3, <2>1, <2>4, <2>5, <2>6 DEF Mapping, y
  <2>8. Cached'
    <3> SUFFICES ASSUME NEW m \in maps', NEW g \in Py
                 PROVE  /\ m.stamp[g] < clock' /\ m.stamp[g] \in Nat
                        /\ m.stamp[g] = tree'[g].stamp => m.files[Numbers(g)] = tree'[g].text
      BY <2>4 DEF Cached
    <3>1. CASE g = "app.py"
      BY <1>1, <1>2, <2>1, <2>6, <3>1 DEF Numbers
    <3>2. CASE g = "test_app.py"
      BY <1>1, <1>2, <2>1, <2>6, <3>2 DEF Numbers, y
    <3> QED BY <3>1, <3>2 DEF Py
  <2>9. Editing'
    BY <2>5 DEF Editing
  <2> QED BY <1>4, <2>7, <2>8, <2>9 DEF Standing
<1> QED BY <1>5, <1>6

LEMMA MapAnswerKeeps ==
  ASSUME Standing, Evidence, MapAnswer
  PROVE  Standing' /\ Evidence'
<1> DEFINE m == CHOOSE m \in maps : TRUE
<1>1. /\ step.do = "answer" /\ step' = Idle
      /\ last' = [do |-> "mapped", files |-> m.files, during |-> step.during]
      /\ UNCHANGED <<tree, clock, host, ledger, maps, proofs>>
  BY DEF MapAnswer
<1>2. m \in maps
  BY <1>1 DEF Standing, Mapping
<1> HIDE DEF m
<1>3. m.files[1] \in step.during["app.py"] /\ m.files[2] \in step.during["test_app.py"]
  BY <1>1, <1>2 DEF Standing, Mapping
<1>4. EditInv' /\ MapIsFresh'
  BY <1>1, <1>3 DEF EditInv, MapIsFresh
<1>5. Editing' /\ Mapping'
  BY <1>1 DEF Editing, Mapping, Idle
<1>6. Shelves' /\ Cached' /\ Evidence'
  BY <1>1, EvidenceStays DEF Standing, Shelves, Cached
<1> QED BY <1>4, <1>5, <1>6 DEF Standing

\* A write of another program is one of the texts there were during the call.
LEMMA OtherWritesKeep ==
  ASSUME Standing, Evidence, ToolsAssumption, OtherWrites
  PROVE  Standing' /\ Evidence'
<1>1. PICK f \in Edited \intersect Py, T \in Texts :
        /\ Put(f, T)
        /\ LET during == [step.during EXCEPT ![f] = @ \union {T}]
           IN step' = IF step.do \in {"index", "answer"} THEN [step EXCEPT !.during = during] ELSE step
  BY DEF OtherWrites
<1>2. UNCHANGED <<ledger, maps, last, proofs>> /\ f \in Files /\ f \in Py /\ IsText(T)
  BY DEF OtherWrites, ToolsAssumption
<1>3. /\ Shelves' /\ Cached' /\ clock' = clock + 1 /\ clock \in Nat
      /\ tree'[f].text = T /\ tree'[f].stamp = clock
      /\ \A g \in Files : g # f => tree'[g] = tree[g]
  BY <1>1, <1>2, PutKeeps, PutCached DEF Standing, Shelves
<1>4. EditInv' /\ MapIsFresh' /\ Evidence'
  BY <1>2, EvidenceStays DEF Standing, EditInv, MapIsFresh
<1>5. CASE step.do \in {"index", "answer"}
  <2>1. /\ DOMAIN step = {"do", "stamp", "files", "during"}
        /\ DOMAIN step.during = Py /\ DOMAIN step.stamp = Py
        /\ \A g \in Py : /\ tree[g].text \in step.during[g]
                         /\ step.stamp[g] \in Nat /\ step.stamp[g] < clock
    BY <1>5 DEF Standing, Mapping
  <2> DEFINE d == [step.during EXCEPT ![f] = @ \union {T}]
  <2>2. step' = [step EXCEPT !.during = d]
    BY <1>1, <1>5
  <2>3. DOMAIN d = Py /\ T \in d[f] /\ \A g \in Py : step.during[g] \subseteq d[g]
    BY <1>2, <2>1
  <2> HIDE DEF d
  <2>4. /\ step'.do = step.do /\ step'.stamp = step.stamp /\ step'.files = step.files /\ step'.during = d
        /\ DOMAIN step' = {"do", "stamp", "files", "during"}
    BY <2>1, <2>2
  <2>5. \A g \in Py : /\ tree'[g].text \in d[g]
                      /\ step.stamp[g] \in Nat /\ step.stamp[g] < clock'
    <3> TAKE g \in Py
    <3>1. g \in Files
      BY DEF Py, Files
    <3> QED BY <1>3, <2>1, <2>3, <3>1
  <2>6. step.stamp["app.py"] = tree'["app.py"].stamp =>
          tree'["app.py"] = tree["app.py"]
    <3>1. "app.py" \in Py /\ "app.py" \in Files
      BY DEF Py, Files
    <3>2. CASE f = "app.py"
      BY <1>3, <2>1, <3>1, <3>2
    <3>3. CASE f # "app.py"
      BY <1>3, <3>1, <3>3
    <3> QED BY <3>2, <3>3
  <2>7. step.do = "index" =>
          \/ step.files = <<>>
          \/ /\ step.files = <<step.files[1]>>
             /\ step.files[1] \in d["app.py"]
             /\ step.stamp["app.py"] = tree'["app.py"].stamp => step.files[1] = tree'["app.py"].text
    BY <2>3, <2>6 DEF Standing, Mapping, Py
  <2>8. step.do = "answer" =>
         /\ maps # {}
         /\ \A m \in maps : m.files[1] \in d["app.py"] /\ m.files[2] \in d["test_app.py"]
    BY <2>3 DEF Standing, Mapping, Py
  <2>9. Mapping'
    BY <1>2, <1>5, <2>1, <2>3, <2>4, <2>5, <2>7, <2>8 DEF Mapping
  <2>10. Editing'
    BY <1>5, <2>4 DEF Editing
  <2> QED BY <1>3, <1>4, <2>9, <2>10 DEF Standing
<1>6. CASE step.do \notin {"index", "answer"}
  <2>1. step' = step /\ step.do \in {"idle", "edit"}
    BY <1>1, <1>6 DEF Standing, Mapping
  <2>2. Mapping' /\ Editing'
    BY <2>1 DEF Standing, Mapping, Editing
  <2> QED BY <1>3, <1>4, <2>2 DEF Standing
<1> QED BY <1>5, <1>6

\* Desks is inductive.
LEMMA DesksHold == ToolsSpec => []Desks
<1>0. Desks <=> Standing /\ Evidence
  BY DEF Desks, Standing
<1>1. ToolsInit => Desks
  BY DesksBegin, ToolsAssumption
<1>2. Standing /\ Evidence /\ [ToolsNext]_toolVars => Standing' /\ Evidence'
  <2> SUFFICES ASSUME Standing, Evidence, [ToolsNext]_toolVars PROVE Standing' /\ Evidence'
    OBVIOUS
  <2>1. CASE Consult \/ RunCheck \/ LoadPage \/ Walk \/ PredictEdit
    BY <2>1, ReadersKeep
  <2>2. CASE Write
    BY <2>2, WriteKeeps, ToolsAssumption
  <2>3. CASE EditRead
    BY <2>3, EditReadKeeps, ToolsAssumption
  <2>4. CASE EditWrite
    BY <2>4, EditWriteKeeps, ToolsAssumption
  <2>5. CASE MapStamp
    BY <2>5, MapStampKeeps
  <2>6. CASE MapIndex
    BY <2>6, MapIndexKeeps
  <2>7. CASE MapAnswer
    BY <2>7, MapAnswerKeeps
  <2>8. CASE OtherWrites
    BY <2>8, OtherWritesKeep, ToolsAssumption
  <2>9. CASE UNCHANGED toolVars
    BY <2>9, StandingStays, EvidenceStays DEF toolVars
  <2> QED BY <2>1, <2>2, <2>3, <2>4, <2>5, <2>6, <2>7, <2>8, <2>9 DEF ToolsNext
<1> QED BY <1>0, <1>1, <1>2, PTL DEF ToolsSpec

\* ToolsInv of every run: an edit that is told done replaced one run of lines, the only
\* one its pass could have meant, and kept every other (edit_file, _locate); the ledger
\* owes exactly what the history of the run owes (evidence.Ledger); the menu is honest.
THEOREM ToolsHold == ToolsSpec => []ToolsInv
<1>1. Desks => ToolsInv
  BY DEF Desks, Evidence, ToolsInv
<1> QED BY <1>1, DesksHold, PTL

\* MapIsFresh of every run: code_map answers of files as they were at some moment of the
\* call, whatever was cached and whoever wrote meanwhile.
THEOREM MapsAreFresh == ToolsSpec => []MapIsFresh
<1>1. Desks => MapIsFresh
  BY DEF Desks
<1> QED BY <1>1, DesksHold, PTL

(* --- Benchmark -------------------------------------------------------- *)

\* What a run of the harness is given, in units; the budget gets the span of it
\* that `until` leaves, in fifths.
Given == Most(Left(Seconds, Margin), 1)
Span  == Most(Left(5 * Given, 5 * Margin), 5)

\* No call of the loop and the tool behind it take together more than the last
\* fifth of the budget.  Other calls take what they take.
TurnsFit == \A d, e \in StepCosts \cup {0} : 5 * (d + e) <= Span - (4 * Span) \div 5

\* The schema asks for texts, booleans and numbers, and bodies bring these.
PlainTypes == {"string", "boolean", "integer", "number"}
SchemaIsPlain ==
  /\ \A k \in DOMAIN Schema.properties : Schema.properties[k].type \in PlainTypes
  /\ \A b \in Bodies : b.object => \A k \in DOMAIN b.fields : b.fields[k].type \in PlainTypes

Budgets == [max : Nat, hard : Nat, wrap : Nat, calls : Nat, warned : BOOLEAN, recon : BOOLEAN,
            turnMax : Nat, turnHard : Nat, turnStart : Nat, turnWrap : Nat]
Utterances == {"user", "assistant"} \X Nat

Trying == /\ stage \in {"begin", "container", "run", "rounds", "trace", "graders", "stop",
                        "abandon", "grade", "close", "abort", "report", "failed"}
          /\ agent \in {"idle", "open", "first", "look", "call", "tool", "judge", "last",
                        "ended", "raised"}
          /\ time \in Nat /\ deadline \in [hard : Nat, wrap : Nat]
          /\ budget \in Budgets
          /\ round \in 0..Rounds /\ answer \in 0..(round + 1)
          /\ recorded \in BOOLEAN /\ error \in BOOLEAN
          /\ texts \in Seq(Utterances)
          /\ cwd \in {"workspace", "elsewhere"} /\ services \in BOOLEAN /\ written \in BOOLEAN
          /\ container \in {"none", "empty", "task", "graders"}
          /\ scored \in Seq(Scores)

\* What is up at each stage, and how many trials are graded.
Living ==
  /\ stage \in {"container", "run", "rounds", "trace", "graders", "stop", "abandon", "grade"}
       => services /\ Len(scored) < Trials
  /\ stage \in {"begin", "container", "grade", "close", "abort", "report", "failed"}
       => container = "none"
  /\ stage \in {"begin", "report", "failed"} => ~services
  /\ stage \in {"run", "rounds", "trace"} => container \in {"none", "task"}
  /\ stage \in {"graders", "stop", "grade"} => written
  /\ Len(scored) <= Trials
  /\ stage = "begin" => Len(scored) < Trials
  /\ stage = "close" => scored # <<>>
  /\ stage = "report" => Len(scored) = Trials

\* Each text of the user is in the trace once, up to this round's.
Asked(t, r) ==
  \A q \in 0..Rounds :
    IF q <= r
    THEN \E i \in 1..Len(t) : /\ t[i] = <<"user", q>>
                              /\ \A j \in 1..Len(t) : t[j] = <<"user", q>> => j = i
    ELSE \A i \in 1..Len(t) : t[i] # <<"user", q>>

\* Each answer stands right behind the text it is the answer to.
Replied(t) ==
  \A i \in 1..Len(t) :
    t[i][1] = "assistant" => i > 1 /\ t[i][2] >= 1 /\ t[i - 1] = <<"user", t[i][2] - 1>>

Telling ==
  /\ texts # <<>> => Asked(texts, round)
  /\ ~error => Replied(texts)
  /\ InRound => ~error /\ texts # <<>>
  /\ InRound /\ agent \notin {"idle", "raised"}
       => texts[Len(texts)] = <<"user", round>>
  /\ InRound /\ agent = "ended" => answer \in {0, round + 1}

\* The budget of a run is one of time only, within the deadline; and as long as
\* the agent was not told to finish a stretch that has begun has a turn left.
Clocked ==
  /\ budget.max = 0 /\ budget.turnMax = 0 /\ budget.turnHard = 0 /\ budget.turnWrap = 0
  /\ InRound =>
       /\ budget.hard <= deadline.hard /\ budget.wrap <= deadline.wrap
       /\ budget.wrap > 0 /\ budget.hard = budget.wrap + (Span - (4 * Span) \div 5)
  /\ InRound /\ ~budget.warned =>
       /\ agent = "call" => time < budget.wrap
       /\ agent = "tool" => \E d \in StepCosts \cup {0} : time < budget.wrap + 5 * d
       /\ agent = "look" => time < budget.hard

BenchInd == Trying /\ Living /\ Telling /\ Clocked

LEMMA GivenIs == /\ Given \in Nat \ {0} /\ Span \in Nat /\ Span >= 5 /\ Span <= 5 * Given
                 /\ (4 * Span) \div 5 \in Nat /\ (4 * Span) \div 5 >= 4
                 /\ (4 * Span) \div 5 <= 4 * Given
                 /\ 5 * Given >= 5
<1>1. Given \in Nat \ {0}
  BY BenchAssumption DEF BenchAssumption, Given, Most, Left
<1> HIDE DEF Given
<1>2. Span \in Nat /\ Span >= 5 /\ Span <= 5 * Given
  BY <1>1, BenchAssumption DEF BenchAssumption, Span, Most, Left
<1> HIDE DEF Span
<1> QED
  BY <1>1, <1>2

\* --- The harness as it is at first, and step by step

LEMMA BenchStarts == BenchInit => BenchInd
<1> SUFFICES ASSUME BenchInit PROVE BenchInd
  OBVIOUS
<1>1. Trying
  <2>1. budget \in Budgets /\ deadline \in [hard : Nat, wrap : Nat]
    BY DEF BenchInit, NoBudget, Budgets
  <2>2. texts \in Seq(Utterances) /\ scored \in Seq(Scores)
    BY DEF BenchInit
  <2>3. round \in 0..Rounds /\ answer \in 0..(round + 1) /\ time \in Nat
    BY BenchAssumption DEF BenchAssumption, BenchInit
  <2> QED
    BY <2>1, <2>2, <2>3 DEF BenchInit, Trying
<1>2. Living
  BY BenchAssumption DEF BenchAssumption, BenchInit, Living
<1>3. Telling
  BY DEF BenchInit, Telling, Replied, InRound
<1>4. Clocked
  BY BenchAssumption DEF BenchAssumption, BenchInit, Clocked, NoBudget, InRound
<1> QED
  BY <1>1, <1>2, <1>3, <1>4 DEF BenchInd

LEMMA BenchTypesStay == BenchInd /\ [BenchNext]_benchVars => Trying'
<1> SUFFICES ASSUME BenchInd, [BenchNext]_benchVars PROVE Trying'
  OBVIOUS
<1>1. Trying
  BY DEF BenchInd
<1> USE BenchAssumption DEF BenchAssumption
<1>2. CASE StartServices
  BY <1>1, <1>2 DEF StartServices, Trying, runVars
<1>3. CASE StartContainer
  BY <1>1, <1>3 DEF StartContainer, Trying, runVars
<1>4. CASE BeginRun
  <2>1. Given \in Nat /\ time \in Nat
    BY <1>1, GivenIs DEF Trying
  <2>2. deadline' = [hard |-> time + 5 * Given, wrap |-> time + 4 * Given]
    BY <1>4 DEF BeginRun, Given
  <2>3. deadline' \in [hard : Nat, wrap : Nat]
    BY <2>1, <2>2
  <2>4. budget' = Until(time + 5 * Given, time)
    BY <1>4 DEF BeginRun, Given
  <2>5. budget' \in Budgets
    <3> DEFINE u == Most(Left(Most(Left(time + 5 * Given, time), 5), 5 * Margin), 5)
    <3>1. u \in Nat
      BY <2>1 DEF Most, Left
    <3> HIDE DEF u
    <3>2. time + u \in Nat /\ time + (4 * u) \div 5 \in Nat
      BY <2>1, <3>1
    <3>3. budget' = [NoBudget EXCEPT !.hard = time + u, !.wrap = time + (4 * u) \div 5]
      BY <2>4 DEF Until, u
    <3> QED
      BY <3>2, <3>3 DEF NoBudget, Budgets
  <2>6. texts' = <<<<"user", 0>>>> /\ <<"user", 0>> \in Utterances
    BY <1>4 DEF BeginRun, Utterances
  <2>7. texts' \in Seq(Utterances)
    BY <2>6
  <2>8. round' \in 0..Rounds /\ answer' \in 0..(round' + 1)
    BY <1>4 DEF BeginRun
  <2>9. recorded' \in BOOLEAN /\ error' \in BOOLEAN
    BY <1>4 DEF BeginRun
  <2> QED
    BY <1>1, <1>4, <2>3, <2>5, <2>7, <2>8, <2>9 DEF BeginRun, Trying
<1>5. /\ \A d \in StepCosts \cup OtherCosts \cup {0} : time + 5 * d \in Nat
      /\ \A d \in OtherCosts, e \in StepCosts \cup {0} : time + 5 * (d + e) \in Nat
  BY <1>1 DEF Trying
<1>6. Spent1(budget) \in Budgets
  <2>1. budget \in Budgets /\ budget.calls + 1 \in Nat
    BY <1>1 DEF Trying, Budgets
  <2> QED
    BY <2>1 DEF Budgets, Spent1
<1>6a. ASSUME NEW costs, costs \in {StepCosts, OtherCosts}, Request(costs)
       PROVE  time' \in Nat /\ budget' \in Budgets
  BY <1>5, <1>6, <1>6a DEF Request, Waits
<1>6b. answer \in 0..(round + 1) /\ {0, round + 1} \subseteq 0..(round + 1)
  BY <1>1 DEF Trying
<1>6c. ASSUME time' \in Nat, budget' \in Budgets,
              (agent' \in {"first", "call", "tool", "judge", "last"} /\ UNCHANGED answer) \/ GraphEnds,
              UNCHANGED <<deadline, stage, round, recorded, error, texts, worldVars, scored>>
       PROVE  Trying'
  <2>1. agent' \in {"first", "call", "tool", "judge", "last", "ended", "raised"}
        /\ answer' \in 0..(round + 1)
    BY <1>6b, <1>6c DEF GraphEnds
  <2> QED
    BY <1>1, <1>6c, <2>1 DEF Trying, worldVars
<1>7. CASE OpenRound
  BY <1>1, <1>6a, <1>6c, <1>7 DEF OpenRound, Trying
<1>8. CASE Look
  <2>1. Looked(budget, time) \in Budgets
    BY <1>1 DEF Trying, Budgets, Looked, SaysRecon, SaysWrapUp
  <2> QED
    BY <1>1, <1>6c, <1>8, <2>1 DEF Look, Trying
<1>9. CASE Call
  BY <1>6a, <1>6c, <1>9 DEF Call
<1>9a. CASE JudgeLooks
  <2>1. time' \in Nat /\ budget' \in Budgets
    BY <1>5, <1>6, <1>9a DEF JudgeLooks
  <2> QED
    BY <1>1, <1>9a, <2>1 DEF JudgeLooks, Trying, runVars, worldVars
<1>9b. CASE JudgeSays
  BY <1>1, <1>6a, <1>6c, <1>9b DEF JudgeSays, Trying
<1>9c. CASE LastRequest
  BY <1>6a, <1>6c, <1>9c DEF LastRequest
<1>10. CASE Tool
  <2>1. time' \in Nat
    BY <1>1, <1>5, <1>10 DEF Tool, Trying
  <2> QED
    BY <1>1, <1>10, <2>1 DEF Tool, Trying, runVars, worldVars
<1>11. CASE Shell
  <2>1. time' \in Nat /\ cwd' \in {"workspace", "elsewhere"}
    BY <1>1, <1>5, <1>11 DEF Shell, Trying
  <2> QED
    BY <1>1, <1>11, <2>1 DEF Shell, Trying, runVars
<1>12. CASE NextRound
  <2> DEFINE told == IF answer # 0 THEN Saying("assistant", answer) ELSE texts
  <2>1. told \in Seq(Utterances)
    <3>1. <<"assistant", answer>> \in Utterances /\ texts \in Seq(Utterances)
      BY <1>1 DEF Trying, Utterances
    <3> QED
      BY <3>1, AppendProperties DEF Saying
  <2>2. Append(told, <<"user", round + 1>>) \in Seq(Utterances)
    <3>1. <<"user", round + 1>> \in Utterances
      BY <1>1 DEF Trying, Utterances
    <3> HIDE DEF told
    <3> QED
      BY <2>1, <3>1, AppendProperties
  <2>3. texts' \in {told, Append(told, <<"user", round + 1>>)}
    BY <1>12 DEF NextRound
  <2>4. texts' \in Seq(Utterances)
    <3> HIDE DEF told
    <3> QED
      BY <2>1, <2>2, <2>3
  <2>5. /\ recorded' \in BOOLEAN /\ stage' \in {"trace", stage}
        /\ agent' \in {"idle", "open", "raised"}
        /\ round' \in {round, round + 1} /\ (round' = round + 1 => round < Rounds)
    <3>1. /\ agent' \in {"idle", "open", "raised"} /\ stage' \in {"trace", stage}
          /\ round' \in {round, round + 1} /\ (round' = round + 1 => round < Rounds)
      BY <1>1, <1>12 DEF NextRound, Trying
    <3>2. recorded' = (recorded \/ answer # 0) \/ recorded' = FALSE \/ recorded' = (answer # 0)
      BY <1>12 DEF NextRound
    <3>3. recorded' \in BOOLEAN
      BY <3>2
    <3> QED
      BY <3>1, <3>3
  <2>6. round' \in 0..Rounds /\ answer \in 0..(round' + 1)
    <3>1. round \in 0..Rounds /\ answer \in 0..(round + 1)
      BY <1>1 DEF Trying
    <3>2. round' = round \/ (round' = round + 1 /\ round < Rounds)
      BY <2>5
    <3> QED
      BY <3>1, <3>2
  <2>7. time' \in Nat
    BY <1>1, <1>5, <1>12 DEF NextRound, Waits, Trying
  <2> HIDE DEF told
  <2> QED
    BY <1>1, <1>12, <2>4, <2>5, <2>6, <2>7 DEF NextRound, Trying, worldVars
<1>13. CASE Raised
  <2>1. texts' \in Seq(Utterances)
    <3>1. <<"assistant", answer>> \in Utterances /\ texts \in Seq(Utterances)
      BY <1>1 DEF Trying, Utterances
    <3> QED
      BY <1>13, <3>1, AppendProperties DEF Raised, Saying
  <2> QED
    BY <1>1, <1>13, <2>1 DEF Raised, Trying, worldVars
<1>14. CASE WriteTrace
  BY <1>1, <1>14 DEF WriteTrace, Trying, runVars
<1>15. CASE InjectGraders
  BY <1>1, <1>15 DEF InjectGraders, Trying, runVars
<1>16. CASE StopContainer
  BY <1>1, <1>16 DEF StopContainer, Trying, runVars
<1>17. CASE Grade
  <2>1. scored' \in Seq(Scores) /\ stage' \in {"close", "abort"}
    <3>1. scored \in Seq(Scores)
      BY <1>1 DEF Trying
    <3> QED
      BY <1>17, <3>1, AppendProperties DEF Grade
  <2> QED
    BY <1>1, <1>17, <2>1 DEF Grade, Trying, runVars, worldVars
<1>18. CASE Leave
  <2>1. NoBudget \in Budgets
    BY DEF NoBudget, Budgets
  <2>2. texts' \in Seq(Utterances)
    BY <1>18 DEF Leave
  <2> QED
    <3>1. /\ round' \in 0..Rounds /\ answer' \in 0..(round' + 1) /\ time' \in Nat
          /\ deadline' \in [hard : Nat, wrap : Nat]
      BY <1>18 DEF Leave
    <3>2. /\ recorded' \in BOOLEAN /\ error' \in BOOLEAN
          /\ services' \in BOOLEAN /\ written' \in BOOLEAN
      BY <1>18 DEF Leave
    <3> QED
      BY <1>1, <1>18, <2>1, <2>2, <3>1, <3>2 DEF Leave, Trying
<1>19. CASE NextTask
  BY <1>1, <1>19 DEF NextTask, Trying, runVars, worldVars
<1>20. CASE UNCHANGED benchVars
  BY <1>1, <1>20 DEF benchVars, Trying, runVars, worldVars
<1> QED
  BY <1>2, <1>3, <1>4, <1>7, <1>8, <1>9, <1>9a, <1>9b, <1>9c, <1>10, <1>11, <1>12, <1>13,
     <1>14, <1>15, <1>16, <1>17, <1>18, <1>19, <1>20 DEF BenchNext

LEMMA LivingStays == BenchInd /\ [BenchNext]_benchVars => Living'
<1> SUFFICES ASSUME BenchInd, [BenchNext]_benchVars PROVE Living'
  OBVIOUS
<1>1. Living /\ scored \in Seq(Scores) /\ Len(scored) \in Nat
  BY DEF BenchInd, Trying
<1>2. Trials \in Nat \ {0}
  BY BenchAssumption DEF BenchAssumption
<1>3. CASE StartServices
  BY <1>1, <1>3 DEF StartServices, Living
<1>4. CASE StartContainer
  BY <1>1, <1>4 DEF StartContainer, Living
<1>5. CASE BeginRun
  BY <1>1, <1>5 DEF BeginRun, Living
<1>6. ASSUME UNCHANGED <<stage, services, container, written, scored>>
      PROVE  Living'
  BY <1>1, <1>6 DEF Living
<1>7. CASE OpenRound \/ Look \/ Call \/ Tool \/ Shell \/ JudgeLooks \/ JudgeSays \/ LastRequest
  BY <1>6, <1>7 DEF OpenRound, Look, Call, Tool, Shell, JudgeLooks, JudgeSays, LastRequest,
                    worldVars
<1>8. ASSUME InRound, stage' \in {"rounds", "trace"}, UNCHANGED <<services, container, written, scored>>
      PROVE  Living'
  BY <1>1, <1>8 DEF Living, InRound
<1>9. CASE NextRound \/ Raised
  <2>1. InRound /\ UNCHANGED <<services, container, written, scored>>
    BY <1>9 DEF NextRound, Raised, worldVars
  <2>2. stage' \in {"rounds", "trace"}
    BY <1>9 DEF NextRound, Raised, InRound
  <2> QED
    BY <1>8, <2>1, <2>2
<1>10. CASE WriteTrace
  BY <1>1, <1>10 DEF WriteTrace, Living
<1>11. CASE InjectGraders
  BY <1>1, <1>11 DEF InjectGraders, Living
<1>12. CASE StopContainer
  BY <1>1, <1>12 DEF StopContainer, Living
<1>13. CASE Grade
  <2>1. stage = "grade" /\ services /\ container = "none" /\ Len(scored) < Trials
        /\ UNCHANGED <<services, container, written>>
    BY <1>1, <1>13 DEF Grade, Living, worldVars
  <2>2. CASE stage' = "close"
    <3>1. PICK s \in Scores : scored' = Append(scored, s)
      BY <1>13, <2>2 DEF Grade
    <3>2. scored' # <<>> /\ Len(scored') = Len(scored) + 1
      BY <1>1, <3>1, AppendProperties
    <3> QED
      BY <1>1, <1>2, <2>1, <2>2, <3>2 DEF Living
  <2>3. CASE stage' = "abort" /\ UNCHANGED scored
    BY <1>1, <2>1, <2>3 DEF Living
  <2> QED
    BY <1>13, <2>2, <2>3 DEF Grade
<1>14. CASE Leave
  BY <1>1, <1>2, <1>14 DEF Leave, Living
<1>15. CASE NextTask
  <2>1. Len(scored') = 0
    BY <1>15 DEF NextTask
  <2> QED
    BY <1>1, <1>2, <1>15, <2>1 DEF NextTask, Living, worldVars
<1>16. CASE UNCHANGED benchVars
  BY <1>6, <1>16 DEF benchVars, worldVars
<1> QED
  BY <1>3, <1>4, <1>5, <1>7, <1>9, <1>10, <1>11, <1>12, <1>13, <1>14, <1>15, <1>16 DEF BenchNext

\* An answer, in any place, asks nothing.
LEMMA AskedStays ==
  ASSUME NEW t \in Seq(Utterances), NEW r \in 0..Rounds, Asked(t, r), NEW a \in Nat
  PROVE  Asked(Append(t, <<"assistant", a>>), r)
<1> DEFINE n == Len(t)
           x == <<"assistant", a>>
           s == Append(t, x)
<1>1. x \in Utterances /\ \A q \in Nat : x # <<"user", q>>
  BY DEF Utterances
<1>2. /\ n \in Nat /\ Len(s) = n + 1 /\ s[n + 1] = x
      /\ \A i \in 1..n : s[i] = t[i]
  BY <1>1, AppendProperties
<1>3. \A i \in 1..(n + 1) : i \in 1..n \/ i = n + 1
  BY <1>2
<1>4. \A i \in 1..n : i \in 1..(n + 1)
  BY <1>2
<1>5. \A q \in 0..Rounds : q \in Nat
  BY BenchAssumption DEF BenchAssumption
<1> HIDE DEF s, x, n
<1>6. ASSUME NEW q \in 0..Rounds
      PROVE  IF q <= r
             THEN \E i \in 1..(n + 1) : /\ s[i] = <<"user", q>>
                                        /\ \A j \in 1..(n + 1) : s[j] = <<"user", q>> => j = i
             ELSE \A i \in 1..(n + 1) : s[i] # <<"user", q>>
  <2>1. s[n + 1] # <<"user", q>>
    BY <1>1, <1>2, <1>5
  <2>2. CASE q <= r
    <3>1. PICK i \in 1..n : t[i] = <<"user", q>> /\ \A j \in 1..n : t[j] = <<"user", q>> => j = i
      BY <2>2 DEF Asked, n
    <3>2. i \in 1..(n + 1) /\ s[i] = <<"user", q>>
      BY <1>2, <1>4, <3>1
    <3>3. \A j \in 1..(n + 1) : s[j] = <<"user", q>> => j = i
      BY <1>2, <1>3, <2>1, <3>1
    <3> QED
      BY <2>2, <3>2, <3>3
  <2>3. CASE ~(q <= r)
    <3>1. \A i \in 1..n : t[i] # <<"user", q>>
      BY <2>3 DEF Asked, n
    <3> QED
      BY <1>2, <1>3, <2>1, <2>3, <3>1
  <2> QED
    BY <2>2, <2>3
<1>7. Len(s) = n + 1
  BY <1>2
<1>8. Asked(s, r)
  BY <1>6, <1>7 DEF Asked
<1> QED
  BY <1>8 DEF s, x

\* The text of the next round is asked once.
LEMMA AskedNext ==
  ASSUME NEW t \in Seq(Utterances), NEW r \in 0..Rounds, Asked(t, r), r < Rounds
  PROVE  Asked(Append(t, <<"user", r + 1>>), r + 1)
<1> DEFINE n == Len(t)
           x == <<"user", r + 1>>
           s == Append(t, x)
<1>1. x \in Utterances /\ r \in Nat /\ r + 1 \in 0..Rounds
  BY BenchAssumption DEF BenchAssumption, Utterances
<1>2. /\ n \in Nat /\ Len(s) = n + 1 /\ s[n + 1] = x
      /\ \A i \in 1..n : s[i] = t[i]
  BY <1>1, AppendProperties
<1>3. /\ \A i \in 1..(n + 1) : i \in 1..n \/ i = n + 1
      /\ \A i \in 1..n : i \in 1..(n + 1)
      /\ n + 1 \in 1..(n + 1)
  BY <1>2
<1>4. \A q : x = <<"user", q>> <=> q = r + 1
  OBVIOUS
<1>5. \A q \in 0..Rounds : (q <= r + 1 <=> q <= r \/ q = r + 1) /\ ~(q <= r /\ q = r + 1)
  BY <1>1, BenchAssumption DEF BenchAssumption
<1>6. ~(r + 1 <= r)
  BY <1>1
<1> HIDE DEF s, x, n
<1>7. ASSUME NEW q \in 0..Rounds
      PROVE  IF q <= r + 1
             THEN \E i \in 1..(n + 1) : /\ s[i] = <<"user", q>>
                                        /\ \A j \in 1..(n + 1) : s[j] = <<"user", q>> => j = i
             ELSE \A i \in 1..(n + 1) : s[i] # <<"user", q>>
  <2>1. CASE q <= r
    <3>1. PICK i \in 1..n : t[i] = <<"user", q>> /\ \A j \in 1..n : t[j] = <<"user", q>> => j = i
      BY <2>1 DEF Asked, n
    <3>2. i \in 1..(n + 1) /\ s[i] = <<"user", q>>
      BY <1>2, <1>3, <3>1
    <3>3. s[n + 1] # <<"user", q>>
      BY <1>2, <1>4, <1>5, <2>1
    <3>4. \A j \in 1..(n + 1) : s[j] = <<"user", q>> => j = i
      BY <1>2, <1>3, <3>1, <3>3
    <3> QED
      BY <1>5, <2>1, <3>2, <3>4
  <2>2. CASE q = r + 1
    <3>1. \A i \in 1..n : t[i] # <<"user", q>>
      BY <1>1, <1>6, <2>2 DEF Asked, n
    <3>2. s[n + 1] = <<"user", q>>
      BY <1>2, <1>4, <2>2
    <3>3. \A j \in 1..(n + 1) : s[j] = <<"user", q>> => j = n + 1
      BY <1>2, <1>3, <3>1
    <3> QED
      BY <1>3, <1>5, <2>2, <3>2, <3>3
  <2>3. CASE ~(q <= r) /\ q # r + 1
    <3>1. \A i \in 1..n : t[i] # <<"user", q>>
      BY <2>3 DEF Asked, n
    <3>2. s[n + 1] # <<"user", q>>
      BY <1>2, <1>4, <2>3
    <3> QED
      BY <1>2, <1>3, <1>5, <2>3, <3>1, <3>2
  <2> QED
    BY <2>1, <2>2, <2>3
<1>8. Asked(s, r + 1)
  BY <1>2, <1>7 DEF Asked
<1> QED
  BY <1>8 DEF s, x

\* What is appended is a text of the user, or the answer to the last one.
LEMMA RepliedGrows ==
  ASSUME NEW t \in Seq(Utterances), Replied(t), NEW x \in Utterances,
         x[1] = "assistant" =>
           Len(t) >= 1 /\ x[2] >= 1 /\ t[Len(t)] = <<"user", x[2] - 1>>
  PROVE  Replied(Append(t, x))
<1> DEFINE n == Len(t)
           s == Append(t, x)
<1>1. /\ n \in Nat /\ Len(s) = n + 1 /\ s[n + 1] = x
      /\ \A i \in 1..n : s[i] = t[i]
  BY AppendProperties
<1>2. x[1] = "assistant" => n >= 1 /\ x[2] >= 1 /\ t[n] = <<"user", x[2] - 1>>
  OBVIOUS
<1> HIDE DEF s, n
<1>3. ASSUME NEW i \in 1..(n + 1), s[i][1] = "assistant"
      PROVE  i > 1 /\ s[i][2] >= 1 /\ s[i - 1] = <<"user", s[i][2] - 1>>
  <2>1. CASE i \in 1..n
    <3>1. t[i][1] = "assistant" /\ s[i] = t[i]
      BY <1>1, <1>3, <2>1
    <3>2. i > 1 /\ t[i][2] >= 1 /\ t[i - 1] = <<"user", t[i][2] - 1>>
      BY <2>1, <3>1 DEF Replied, n
    <3>3. i - 1 \in 1..n
      BY <1>1, <2>1, <3>2
    <3> QED
      BY <1>1, <3>1, <3>2, <3>3
  <2>2. CASE i = n + 1
    <3>1. x[1] = "assistant" /\ s[i] = x
      BY <1>1, <1>3, <2>2
    <3>2. n >= 1 /\ i - 1 = n /\ n \in 1..n /\ i > 1
      BY <1>1, <1>2, <2>2, <3>1
    <3> QED
      BY <1>1, <1>2, <3>1, <3>2
  <2> QED
    BY <1>1, <2>1, <2>2
<1>4. Replied(s)
  BY <1>1, <1>3 DEF Replied
<1> QED
  BY <1>4 DEF s

LEMMA TellingStays == BenchInd /\ [BenchNext]_benchVars => Telling'
<1> SUFFICES ASSUME BenchInd, [BenchNext]_benchVars PROVE Telling'
  OBVIOUS
<1>1. /\ Telling /\ texts \in Seq(Utterances) /\ Len(texts) \in Nat
      /\ round \in 0..Rounds /\ answer \in 0..(round + 1) /\ round \in Nat /\ answer \in Nat
  <2>1. Telling /\ texts \in Seq(Utterances) /\ round \in 0..Rounds /\ answer \in 0..(round + 1)
    BY DEF BenchInd, Trying
  <2> QED
    BY <2>1, BenchAssumption DEF BenchAssumption
<1>2. ASSUME stage' # "rounds", UNCHANGED runVars
      PROVE  Telling'
  BY <1>1, <1>2 DEF Telling, InRound, runVars
<1>3. CASE StartServices \/ StartContainer
  BY <1>2, <1>3 DEF StartServices, StartContainer
<1>4. CASE BeginRun
  <2>1. texts' = <<<<"user", 0>>>> /\ round' = 0 /\ agent' = "open" /\ error' = FALSE
    BY <1>4 DEF BeginRun
  <2>2. /\ Len(texts') = 1 /\ texts'[1] = <<"user", 0>> /\ texts' # <<>>
    BY <2>1
  <2>3. Asked(texts', round')
    <3>1. \A q \in 0..Rounds : (q <= 0 <=> q = 0) /\ (<<"user", 0>> = <<"user", q>> <=> q = 0)
      BY BenchAssumption DEF BenchAssumption
    <3>2. \A i \in 1..1 : i = 1
      OBVIOUS
    <3>3. 1 \in 1..1
      OBVIOUS
    <3> QED
      BY <2>1, <2>2, <3>1, <3>2, <3>3 DEF Asked
  <2>4. Replied(texts')
    <3>1. \A i \in 1..1 : texts'[i][1] = "user"
      BY <2>2
    <3> QED
      BY <2>2, <3>1 DEF Replied
  <2> QED
    BY <2>1, <2>2, <2>3, <2>4 DEF Telling
<1>5. ASSUME InRound, stage' = "rounds", agent \notin {"idle", "raised"},
             UNCHANGED <<texts, round, error>>,
             agent' = "ended" => answer' \in {0, round + 1}
      PROVE  Telling'
  <2>1. agent # "ended" \/ answer' \in {0, round + 1} \/ agent' # "ended"
    BY <1>5
  <2> QED
    BY <1>1, <1>5, <2>1 DEF Telling, InRound
<1>6. CASE Tool \/ Shell \/ JudgeLooks
  <2>1. agent' # "ended" /\ InRound /\ agent \in {"tool", "judge"}
        /\ UNCHANGED <<stage, texts, round, error>>
    BY <1>6 DEF Tool, Shell, JudgeLooks, runVars
  <2> QED
    BY <1>5, <2>1 DEF InRound
<1>7. CASE OpenRound \/ Look \/ Call \/ JudgeSays \/ LastRequest
  <2>1. InRound /\ agent \in {"open", "first", "look", "call", "judge", "last"}
        /\ UNCHANGED <<stage, texts, round, error>>
        /\ (agent' = "ended" => answer' \in {0, round + 1})
    BY <1>7 DEF OpenRound, Look, Call, JudgeSays, LastRequest, GraphEnds
  <2> QED
    BY <1>5, <2>1 DEF InRound
<1>9. CASE NextRound
  <2> DEFINE told == IF answer # 0 THEN Saying("assistant", answer) ELSE texts
  <2>1. /\ ~error /\ texts # <<>> /\ Asked(texts, round) /\ Replied(texts)
        /\ texts[Len(texts)] = <<"user", round>> /\ answer \in {0, round + 1}
        /\ stage = "rounds" /\ UNCHANGED error
    BY <1>1, <1>9 DEF NextRound, Telling, InRound
  <2>2. told \in Seq(Utterances) /\ told # <<>> /\ Asked(told, round) /\ Replied(told)
    <3>1. CASE answer = 0
      BY <1>1, <2>1, <3>1
    <3>2. CASE answer # 0
      <4> DEFINE x == <<"assistant", answer>>
      <4>1. x \in Utterances /\ x[1] = "assistant" /\ x[2] = round + 1 /\ x[2] - 1 = round
            /\ x[2] >= 1
        BY <1>1, <2>1, <3>2 DEF Utterances
      <4>2. Len(texts) >= 1
        BY <1>1, <2>1, EmptySeq
      <4> HIDE DEF x
      <4>3. Replied(Append(texts, x))
        BY <1>1, <2>1, <4>1, <4>2, RepliedGrows
      <4>4. Asked(Append(texts, x), round)
        BY <1>1, <2>1, AskedStays DEF x
      <4>5. told = Append(texts, x)
        BY <3>2 DEF Saying, x
      <4>6. Append(texts, x) \in Seq(Utterances) /\ Append(texts, x) # <<>>
        BY <1>1, <4>1, AppendProperties
      <4> HIDE DEF told
      <4> QED
        BY <4>3, <4>4, <4>5, <4>6
    <3> QED
      BY <3>1, <3>2
  <2>3. CASE texts' = told /\ round' = round /\ stage' \in {"rounds", "trace"}
             /\ agent' \in {"idle", "raised"}
    <3> HIDE DEF told
    <3> QED
      BY <2>1, <2>2, <2>3 DEF Telling, InRound
  <2>4. CASE /\ texts' = Append(told, <<"user", round + 1>>) /\ round < Rounds
             /\ round' = round + 1 /\ agent' = "open" /\ stage' = stage
    <3> DEFINE x == <<"user", round + 1>>
    <3> HIDE DEF told
    <3>1. x \in Utterances /\ x[1] = "user"
      BY <1>1 DEF Utterances
    <3>2. Asked(Append(told, x), round + 1)
      BY <1>1, <2>2, <2>4, AskedNext
    <3> HIDE DEF x
    <3>3. Replied(Append(told, x))
      BY <2>2, <3>1, RepliedGrows
    <3>4. /\ Append(told, x) # <<>>
          /\ Append(told, x)[Len(Append(told, x))] = x
      BY <2>2, <3>1, AppendProperties
    <3>5. texts' = Append(told, x) /\ x = <<"user", round'>>
      BY <2>4 DEF x
    <3> QED
      BY <2>1, <2>4, <3>2, <3>3, <3>4, <3>5 DEF Telling, InRound
  <2> QED
    BY <1>9, <2>1, <2>3, <2>4 DEF NextRound
<1>10. CASE Raised
  <2>1. InRound /\ error' = TRUE /\ stage' = "trace" /\ UNCHANGED round
    BY <1>10 DEF Raised
  <2>2. texts # <<>> /\ Asked(texts, round)
    BY <1>1, <2>1 DEF Telling
  <2>3. Asked(texts', round)
    <3>1. Asked(Append(texts, <<"assistant", answer>>), round)
      BY <1>1, <2>2, AskedStays
    <3> QED
      BY <1>10, <2>2, <3>1 DEF Raised, Saying
  <2> QED
    BY <2>1, <2>3 DEF Telling, InRound
<1>11. CASE WriteTrace \/ InjectGraders \/ StopContainer \/ Grade
  BY <1>2, <1>11 DEF WriteTrace, InjectGraders, StopContainer, Grade
<1>12. CASE Leave
  <2>1. texts' = <<>> /\ stage' # "rounds" /\ Len(texts') = 0
    BY <1>12 DEF Leave
  <2> QED
    BY <2>1 DEF Telling, InRound, Replied
<1>13. CASE NextTask
  BY <1>2, <1>13 DEF NextTask
<1>14. CASE UNCHANGED benchVars
  BY <1>1, <1>14 DEF Telling, InRound, benchVars, runVars
<1> QED
  BY <1>3, <1>4, <1>6, <1>7, <1>9, <1>10, <1>11, <1>12, <1>13, <1>14 DEF BenchNext

\* A budget of time only is spent when its time is, and says so from its last
\* fifth on.
LEMMA PhaseIs ==
  ASSUME NEW b \in Budgets, NEW t \in Nat, b.max = 0, b.turnMax = 0, b.turnHard = 0,
         b.turnWrap = 0, b.wrap > 0, b.hard >= b.wrap
  PROVE  /\ IsSpent(b, t) <=> t >= b.hard
         /\ Phase(b, t) = "ok" => t < b.wrap
         /\ Phase(b, t) \in {"ok", "wrap_up", "spent"}
<1>1. b.hard \in Nat /\ b.wrap \in Nat /\ b.hard # 0 /\ b.wrap # 0
  BY DEF Budgets
<1>2. ~PastCalls(b) /\ ~PastTurn(b, t)
  BY DEF PastCalls, PastTurn
<1>3. Phase(b, t) = IF t >= b.hard THEN "spent" ELSE IF t >= b.wrap THEN "wrap_up" ELSE "ok"
  BY <1>1, <1>2 DEF Phase
<1> QED
  BY <1>1, <1>3 DEF IsSpent

LEMMA ClockedStays == TurnsFit /\ BenchInd /\ [BenchNext]_benchVars => Clocked'
<1> SUFFICES ASSUME TurnsFit, BenchInd, [BenchNext]_benchVars PROVE Clocked'
  OBVIOUS
<1> DEFINE Fifth == Span - (4 * Span) \div 5
           Paid == StepCosts \cup {0}
           Timed == /\ budget.hard <= deadline.hard /\ budget.wrap <= deadline.wrap
                    /\ budget.wrap > 0 /\ budget.hard = budget.wrap + Fifth
           Warned == ~budget.warned =>
                       /\ agent = "call" => time < budget.wrap
                       /\ agent = "tool" => \E d \in Paid : time < budget.wrap + 5 * d
                       /\ agent = "look" => time < budget.hard
           OnlyTime == budget.max = 0 /\ budget.turnMax = 0 /\ budget.turnHard = 0
                       /\ budget.turnWrap = 0
<1>1. /\ OnlyTime /\ (InRound => Timed /\ Warned)
      /\ budget \in Budgets /\ deadline \in [hard : Nat, wrap : Nat] /\ time \in Nat
      /\ budget.hard \in Nat /\ budget.wrap \in Nat
      /\ deadline.hard \in Nat /\ deadline.wrap \in Nat
  <2>1. /\ budget \in Budgets /\ deadline \in [hard : Nat, wrap : Nat] /\ time \in Nat
    BY DEF BenchInd, Trying
  <2>2. OnlyTime /\ (InRound => Timed /\ Warned)
    BY DEF BenchInd, Clocked
  <2> HIDE DEF OnlyTime, Timed, Warned
  <2> QED
    BY <2>1, <2>2 DEF Budgets
<1>2. ASSUME OnlyTime', InRound' => Timed' /\ Warned'
      PROVE  Clocked'
  BY <1>2 DEF Clocked
<1>3. Fifth \in Nat /\ \A d \in Paid : d \in Nat
  BY GivenIs, BenchAssumption DEF BenchAssumption
<1>4. \A d, e \in Paid : 5 * (d + e) <= Fifth
  BY DEF TurnsFit
<1> HIDE DEF Fifth, Paid
<1>6. ASSUME ~InRound', UNCHANGED budget
      PROVE  Clocked'
  BY <1>1, <1>2, <1>6
<1>7. CASE StartServices \/ StartContainer \/ InjectGraders \/ StopContainer \/ Grade \/ WriteTrace
           \/ NextTask
  <2>1. stage' # "rounds" \/ UNCHANGED stage
    BY <1>7 DEF StartServices, StartContainer, InjectGraders, StopContainer, Grade, WriteTrace, NextTask
  <2>2. stage # "rounds" /\ UNCHANGED budget
    BY <1>7 DEF StartServices, StartContainer, InjectGraders, StopContainer, Grade, WriteTrace,
                NextTask, runVars
  <2> QED
    BY <1>6, <2>1, <2>2 DEF InRound
<1>8. CASE BeginRun
  <2> DEFINE part == (4 * Span) \div 5
  <2>1. deadline' = [hard |-> time + 5 * Given, wrap |-> time + 4 * Given]
        /\ budget' = Until(time + 5 * Given, time) /\ agent' = "open"
    BY <1>8 DEF BeginRun, Given
  <2>2. Left(time + 5 * Given, time) = 5 * Given /\ Most(5 * Given, 5) = 5 * Given
    BY <1>1, GivenIs DEF Left, Most
  <2>3. budget' = [NoBudget EXCEPT !.hard = time + Span, !.wrap = time + part]
    BY <2>1, <2>2 DEF Until, Span
  <2>4. part \in Nat /\ part >= 4 /\ part <= 4 * Given /\ Span \in Nat /\ Span <= 5 * Given
        /\ Given \in Nat /\ Fifth = Span - part
    BY GivenIs DEF Fifth
  <2> HIDE DEF part
  <2>5. /\ budget'.hard = time + Span /\ budget'.wrap = time + part
        /\ budget'.max = 0 /\ budget'.turnMax = 0 /\ budget'.turnHard = 0 /\ budget'.turnWrap = 0
    BY <2>3 DEF NoBudget
  <2>6. Timed'
    BY <1>1, <2>1, <2>4, <2>5
  <2>7. Warned' /\ OnlyTime'
    BY <2>1, <2>5
  <2> QED
    BY <1>2, <2>6, <2>7
<1>9. ASSUME UNCHANGED <<budget, deadline>>, stage' = "rounds" => stage = "rounds",
             InRound /\ InRound' => Warned'
      PROVE  Clocked'
  BY <1>1, <1>2, <1>9 DEF InRound
<1>10. \A f \in {"max", "hard", "wrap", "turnMax", "turnHard", "turnWrap", "warned"} :
         Spent1(budget)[f] = budget[f]
  BY <1>1 DEF Spent1, Budgets
<1>10a. ASSUME InRound, UNCHANGED <<deadline, stage>>,
               budget' = Spent1(budget) \/ UNCHANGED budget,
               agent' \notin {"call", "tool", "look"}
        PROVE  Clocked'
  <2>1. OnlyTime' /\ Timed' /\ Warned'
    BY <1>1, <1>10, <1>10a
  <2> QED
    BY <1>2, <2>1
<1>11. CASE OpenRound \/ JudgeLooks \/ JudgeSays \/ LastRequest
  <2>1. /\ InRound /\ UNCHANGED <<deadline, stage>>
        /\ budget' = Spent1(budget) \/ UNCHANGED budget
    BY <1>11 DEF OpenRound, JudgeLooks, JudgeSays, LastRequest, Request
  <2>2. agent' \notin {"call", "tool", "look"}
    BY <1>11 DEF OpenRound, JudgeLooks, JudgeSays, LastRequest, GraphEnds
  <2> QED
    BY <1>10a, <2>1, <2>2
<1>12. CASE Look
  <2>1. InRound /\ UNCHANGED <<time, deadline, stage>>
    BY <1>12 DEF Look
  <2>2. /\ IsSpent(budget, time) <=> time >= budget.hard
        /\ Phase(budget, time) = "ok" => time < budget.wrap
        /\ Phase(budget, time) \in {"ok", "wrap_up", "spent"}
    BY <1>1, <1>3, <2>1, PhaseIs
  <2>3. CASE IsSpent(budget, time)
    <3>1. UNCHANGED budget /\ agent' \in {"ended", "raised", "last"}
      BY <1>12, <2>3 DEF Look, GraphEnds
    <3> QED
      BY <1>10a, <2>1, <3>1
  <2>4. CASE ~IsSpent(budget, time)
    <3>1. budget' = Looked(budget, time) /\ agent' = "call"
      BY <1>12, <2>4 DEF Look
    <3>2. /\ budget'.warned = (budget.warned \/ SaysWrapUp(budget, time))
          /\ budget'.max = budget.max /\ budget'.hard = budget.hard /\ budget'.wrap = budget.wrap
          /\ budget'.turnMax = budget.turnMax /\ budget'.turnHard = budget.turnHard
          /\ budget'.turnWrap = budget.turnWrap
      BY <1>1, <3>1 DEF Looked, Budgets
    <3>3. ~budget'.warned => time < budget.wrap
      BY <2>2, <2>4, <3>2 DEF SaysWrapUp, IsSpent
    <3>4. Warned'
      BY <2>1, <3>1, <3>2, <3>3
    <3>5. OnlyTime' /\ Timed'
      BY <1>1, <2>1, <3>1, <3>2
    <3> QED
      BY <1>2, <3>4, <3>5
  <2> QED
    BY <2>3, <2>4
<1>13. CASE Call
  <2>1. /\ InRound /\ agent = "call" /\ budget' = Spent1(budget)
        /\ UNCHANGED <<deadline, stage>> /\ agent' \in {"tool", "judge", "ended", "raised"}
    BY <1>13 DEF Call, Request, GraphEnds
  <2>2. PICK d \in StepCosts : time' = time + 5 * d
    BY <1>13 DEF Call, Request, Waits
  <2>3. d \in Paid /\ d \in Nat
    BY <1>3 DEF Paid
  <2>4. ~budget.warned => time + 5 * d < budget.wrap + 5 * d
    BY <1>1, <2>1, <2>3
  <2>5. Warned'
    BY <1>10, <2>1, <2>2, <2>3, <2>4
  <2>6. OnlyTime' /\ Timed'
    BY <1>1, <1>3, <1>10, <2>1
  <2> QED
    BY <1>2, <2>5, <2>6
<1>14. CASE Tool \/ Shell
  <2>1. /\ InRound /\ agent = "tool" /\ agent' = "look" /\ UNCHANGED <<budget, deadline, stage>>
    BY <1>14 DEF Tool, Shell, runVars
  <2>2. PICK d \in Paid : time' = time + 5 * d
    <3>1. 0 \in Paid /\ time = time + 5 * 0
      BY <1>1 DEF Paid
    <3>2. time' = time \/ \E d \in StepCosts \cup {0} : time' = time + 5 * d
      BY <1>14 DEF Tool, Shell
    <3> QED
      BY <3>1, <3>2 DEF Paid
  <2>3. ~budget.warned => time + 5 * d < budget.hard
    <3>1. SUFFICES ASSUME ~budget.warned PROVE time + 5 * d < budget.hard
      OBVIOUS
    <3>2. PICK e \in Paid : time < budget.wrap + 5 * e
      BY <1>1, <2>1, <3>1
    <3>3. 5 * (e + d) <= Fifth /\ e \in Nat /\ d \in Nat
      BY <1>3, <1>4
    <3> QED
      BY <1>1, <1>3, <2>1, <3>2, <3>3
  <2>4. Warned'
    BY <2>1, <2>2, <2>3
  <2> QED
    BY <1>9, <2>1, <2>4
<1>15. CASE NextRound
  <2>1. InRound /\ UNCHANGED <<budget, deadline>> /\ agent' \in {"idle", "raised", "open"}
    BY <1>15 DEF NextRound
  <2>2. Warned' /\ Timed' /\ OnlyTime'
    BY <1>1, <2>1
  <2> QED
    BY <1>2, <2>2
<1>16. CASE Raised
  <2>1. stage' = "trace" /\ agent' = "idle" /\ UNCHANGED budget
    BY <1>16 DEF Raised
  <2> QED
    BY <1>1, <1>2, <2>1 DEF InRound
<1>17. CASE Leave
  <2>1. stage' # "rounds" /\ budget' = NoBudget
    BY <1>17 DEF Leave
  <2>2. OnlyTime'
    BY <2>1 DEF NoBudget
  <2> QED
    BY <1>2, <2>1, <2>2 DEF InRound
<1>18. CASE UNCHANGED benchVars
  BY <1>1, <1>2, <1>18 DEF benchVars, runVars, InRound
<1> QED
  BY <1>7, <1>8, <1>11, <1>12, <1>13, <1>14, <1>15, <1>16, <1>17, <1>18 DEF BenchNext

-----------------------------------------------------------------------------
\* --- What the functions of the harness promise

\* A part of n, taken n times, is no more than the whole, and no less than what
\* fits in it n times.
LEMMA Shares ==
  ASSUME NEW a \in Nat, NEW n \in Nat \ {0}
  PROVE  /\ a \div n \in Nat /\ n * (a \div n) <= a
         /\ \A k \in Nat : n * k <= a => k <= a \div n
<1>1. a \div n \in Nat /\ n * (a \div n) <= a /\ a < n * (a \div n) + n
  OBVIOUS
<1>2. ASSUME NEW k \in Nat, n * k <= a
      PROVE  k <= a \div n
  <2> DEFINE q == a \div n
             e == k - (q + 1)
  <2>1. q \in Nat /\ a < n * q + n
    BY <1>1
  <2> HIDE DEF q
  <2>2. SUFFICES ASSUME ~(k <= q) PROVE FALSE
    BY DEF q
  <2>3. e \in Nat /\ k = q + 1 + e
    BY <2>1, <2>2
  <2> HIDE DEF e
  <2>4. n * e \in Nat /\ n * q \in Nat
    BY <2>1, <2>3, SMT
  <2>5. n * k = n * q + n + n * e
    BY <2>1, <2>3, SMT
  <2> QED
    BY <1>2, <2>1, <2>4, <2>5
<1> QED
  BY <1>1, <1>2

\* A product of naturals is larger in the larger factor.
LEMMA Grows ==
  ASSUME NEW a \in Nat, NEW k \in Nat, NEW m \in Nat, k <= m
  PROVE  a * k \in Nat /\ a * m \in Nat /\ a * k <= a * m
<1> DEFINE e == m - k
<1>1. e \in Nat /\ m = k + e
  OBVIOUS
<1> HIDE DEF e
<1>2. a * e \in Nat /\ a * k \in Nat /\ a * m = a * k + a * e
  BY <1>1, SMT
<1> QED
  BY <1>2

\* A phase is not left backwards by time or by a call.
LEMMA PhasesGoOn ==
  ASSUME NEW b \in Budgets
  PROVE  /\ Grades[Phase(b, 0)] <= Grades[Phase(b, 1)]
         /\ Grades[Phase(b, 0)] <= Grades[Phase(Spent1(b), 0)]
<1>1. /\ b.max \in Nat /\ b.hard \in Nat /\ b.wrap \in Nat /\ b.calls \in Nat /\ b.turnMax \in Nat
      /\ b.turnHard \in Nat /\ b.turnStart \in Nat /\ b.turnWrap \in Nat
  BY DEF Budgets
<1> DEFINE Spent(c, t) == PastCalls(c) \/ (c.hard # 0 /\ t >= c.hard) \/ PastTurn(c, t)
           Late(c, t) ==
             \/ /\ c.turnMax # 0
                /\ 5 * Left(c.calls, c.turnStart) >= 4 * (c.turnMax - c.turnStart)
             \/ c.max # 0 /\ 5 * c.calls >= 4 * c.max
             \/ c.turnWrap # 0 /\ t >= c.turnWrap
             \/ c.wrap # 0 /\ t >= c.wrap
<1>2. \A c, t : Phase(c, t) = IF Spent(c, t) THEN "spent" ELSE IF Late(c, t) THEN "wrap_up" ELSE "ok"
  BY DEF Phase
<1>3. Grades["ok"] = 0 /\ Grades["wrap_up"] = 1 /\ Grades["spent"] = 2
  BY DEF Grades
<1>4. (Spent(b, 0) => Spent(b, 1)) /\ (Late(b, 0) => Late(b, 1))
  BY <1>1 DEF PastCalls, PastTurn
<1> DEFINE c == Spent1(b)
<1>5. /\ c.calls = b.calls + 1 /\ c.max = b.max /\ c.hard = b.hard /\ c.wrap = b.wrap
      /\ c.turnMax = b.turnMax /\ c.turnHard = b.turnHard
      /\ c.turnStart = b.turnStart /\ c.turnWrap = b.turnWrap
  BY DEF Spent1, Budgets
<1> HIDE DEF c
<1>6. Spent(b, 0) => Spent(c, 0)
  BY <1>1, <1>5 DEF PastCalls, PastTurn
<1>7. Late(b, 0) => Late(c, 0)
  BY <1>1, <1>5 DEF Left
<1> HIDE DEF Spent, Late
<1>8. Grades[Phase(b, 0)] <= Grades[Phase(b, 1)]
  BY <1>2, <1>3, <1>4
<1>9. Grades[Phase(b, 0)] <= Grades[Phase(c, 0)]
  BY <1>2, <1>3, <1>6, <1>7
<1> QED
  BY <1>8, <1>9 DEF c

\* How many turns of a floor can be paid for.
LEMMA AffordableIs ==
  ASSUME NEW b \in Budgets, NEW turns \in Nat
  PROVE  LET n == Affordable(b, 0, turns)
         IN /\ n \in Nat /\ n >= 1
            /\ n > 1 /\ b.max # 0 => n * MinTurnCalls <= Left(b.max, b.calls)
            /\ n > 1 /\ b.hard # 0 => n * (5 * MinTurnUnits) <= b.hard
<1> DEFINE f == 5 * MinTurnUnits
           byTime == b.hard \div f
           left == Left(b.max, b.calls)
           byCall == left \div MinTurnCalls
           byClock == IF b.hard = 0 THEN turns ELSE Least(turns, Most(1, byTime))
           byCalls == IF b.max = 0 THEN byClock ELSE Least(byClock, Most(1, byCall))
           n == Most(1, byCalls)
<1>1. /\ MinTurnCalls \in Nat \ {0} /\ f \in Nat \ {0}
      /\ b.hard \in Nat /\ left \in Nat /\ Left(b.hard, 0) = b.hard
  BY BenchAssumption DEF BenchAssumption, Budgets, Left
<1>2. Affordable(b, 0, turns) = n
  BY <1>1 DEF Affordable
<1> HIDE DEF f, left
<1>3. byTime \in Nat /\ f * byTime <= b.hard
  BY <1>1, Shares
<1>4. byCall \in Nat /\ MinTurnCalls * byCall <= left
  BY <1>1, Shares
<1> HIDE DEF byTime, byCall
<1>5. byClock \in Nat /\ (b.hard # 0 => byClock <= 1 \/ byClock <= byTime)
  BY <1>3 DEF Least, Most
<1>6. /\ byCalls \in Nat /\ byCalls <= byClock
      /\ (b.max # 0 => byCalls <= 1 \/ byCalls <= byCall)
  <2> HIDE DEF byClock
  <2> QED BY <1>4, <1>5 DEF Least, Most
<1> HIDE DEF byClock, byCalls
<1>7. n \in Nat /\ n >= 1 /\ (n > 1 => n = byCalls)
  BY <1>6 DEF Most
<1> HIDE DEF n
<1>8. ASSUME n > 1, b.max # 0 PROVE n * MinTurnCalls <= left
  <2>1. n <= byCall
    BY <1>4, <1>6, <1>7, <1>8
  <2>2. MinTurnCalls * n <= MinTurnCalls * byCall /\ MinTurnCalls * n = n * MinTurnCalls
        /\ MinTurnCalls * n \in Nat /\ MinTurnCalls * byCall \in Nat
    <3>1. MinTurnCalls * n = n * MinTurnCalls
      BY <1>1, <1>7, SMT
    <3> QED BY <1>1, <1>4, <1>7, <2>1, <3>1, Grows
  <2> QED BY <1>1, <1>4, <2>2
<1>9. ASSUME n > 1, b.hard # 0 PROVE n * f <= b.hard
  <2>1. n <= byTime
    BY <1>3, <1>5, <1>6, <1>7, <1>9
  <2>2. f * n <= f * byTime /\ f * n = n * f /\ f * n \in Nat /\ f * byTime \in Nat
    <3>1. f * n = n * f
      BY <1>1, <1>7, SMT
    <3> QED BY <1>1, <1>3, <1>7, <2>1, <3>1, Grows
  <2> QED BY <1>1, <1>3, <2>2
<1> QED
  BY <1>2, <1>7, <1>8, <1>9 DEF f, left

\* The share of a turn is worth a floor, and the shares that can be paid for fit.
LEMMA ShareIs ==
  ASSUME NEW whole \in Nat, NEW floor \in Nat \ {0}, NEW n \in Nat \ {0}
  PROVE  LET share == Most(floor, whole \div n)
         IN /\ share \in Nat /\ share >= floor
            /\ n * floor <= whole => n * share <= whole
<1> DEFINE q == whole \div n
<1>1. q \in Nat /\ n * q <= whole /\ (n * floor <= whole => floor <= q)
  BY Shares
<1> HIDE DEF q
<1>2. Most(floor, q) \in Nat /\ Most(floor, q) >= floor
      /\ (floor <= q => Most(floor, q) = q)
  BY <1>1 DEF Most
<1> HIDE DEF Most
<1>3. n * floor <= whole => n * Most(floor, q) <= whole
  BY <1>1, <1>2
<1> QED
  BY <1>2, <1>3 DEF q

\* BudgetsAddUp
LEMMA BudgetsDoAddUp == BudgetsAddUp
<1> SUFFICES ASSUME NEW max \in 0..12, NEW units \in 0..6, NEW spent \in 0..6, NEW turns \in 0..4
             PROVE  LET b == [(IF units = 0 THEN NoBudget ELSE Of(units, 0))
                                EXCEPT !.max = max, !.calls = spent]
                        t == BeginTurn(b, 0, turns)
                        n == Affordable(b, 0, turns)
                    IN /\ \A c \in {b, t} : /\ Grades[Phase(c, 0)] <= Grades[Phase(c, 1)]
                                             /\ Grades[Phase(c, 0)] <= Grades[Phase(Spent1(c), 0)]
                       /\ max # 0 => /\ t.turnMax - spent >= MinTurnCalls
                                     /\ n > 1 => n * (t.turnMax - spent) <= max - spent
                       /\ units # 0 => /\ t.turnHard >= 5 * MinTurnUnits
                                       /\ n > 1 => n * t.turnHard <= b.hard
  BY DEF BudgetsAddUp
<1> DEFINE b == [(IF units = 0 THEN NoBudget ELSE Of(units, 0)) EXCEPT !.max = max, !.calls = spent]
           m == Affordable(b, 0, Most(1, turns))
           n == Affordable(b, 0, turns)
           t == BeginTurn(b, 0, turns)
           floor == 5 * MinTurnUnits
           left == Left(b.max, b.calls)
           byTime == Most(floor, b.hard \div m)
           byCall == Most(MinTurnCalls, left \div m)
<1>1. /\ MinTurnCalls \in Nat \ {0} /\ floor \in Nat \ {0} /\ Most(1, turns) \in Nat /\ Margin \in Nat
      /\ max \in Nat /\ spent \in Nat /\ turns \in Nat /\ units \in Nat
  BY BenchAssumption DEF BenchAssumption, Most
<1>2. /\ b \in Budgets /\ b.max = max /\ b.calls = spent /\ (units # 0 => b.hard # 0)
  <2>1. CASE units = 0
    BY <1>1, <2>1 DEF NoBudget, Budgets
  <2>2. CASE units # 0
    <3> DEFINE u == Most(Left(units, Margin), 1)
    <3>1. u \in Nat \ {0}
      BY <1>1 DEF Most, Left
    <3> DEFINE h == 0 + 5 * u
               w == 0 + 4 * u
    <3>2. Of(units, 0) = [NoBudget EXCEPT !.hard = h, !.wrap = w]
      BY DEF Of
    <3> HIDE DEF u
    <3>3. h \in Nat /\ w \in Nat /\ h # 0
      BY <3>1
    <3> HIDE DEF h, w
    <3>4. Of(units, 0) \in Budgets /\ Of(units, 0).hard # 0
      <4> DEFINE o == [NoBudget EXCEPT !.hard = h, !.wrap = w]
      <4>1. o \in Budgets /\ o.hard = h
        BY <3>3 DEF NoBudget, Budgets
      <4>2. Of(units, 0) = o
        BY <3>2
      <4> HIDE DEF o
      <4> QED BY <3>3, <4>1, <4>2
    <3>5. b = [Of(units, 0) EXCEPT !.max = max, !.calls = spent]
      BY <2>2
    <3> QED
      BY <1>1, <3>4, <3>5 DEF Budgets
  <2> QED
    BY <2>1, <2>2
<1> HIDE DEF b
<1>3. /\ b.hard \in Nat /\ left \in Nat /\ Left(b.hard, 0) = b.hard
      /\ (left # 0 => left = max - spent)
  BY <1>1, <1>2 DEF Budgets, Left
<1>4. m \in Nat \ {0}
  BY <1>1, <1>2, AffordableIs
<1>5. /\ n \in Nat
      /\ n > 1 /\ max # 0 => n * MinTurnCalls <= left
      /\ n > 1 /\ b.hard # 0 => n * floor <= b.hard
  BY <1>1, <1>2, AffordableIs
<1>6. n > 1 => n = m
  <2>1. CASE turns = 0
    <3> DEFINE inTime == Left(b.hard, 0) \div (5 * MinTurnUnits)
               inCalls == Left(b.max, b.calls) \div MinTurnCalls
    <3>1. inTime \in Nat /\ inCalls \in Nat
      BY <1>1, <1>2, <1>3, Shares DEF Budgets, Left
    <3>2. n = LET byClock == IF b.hard = 0 THEN turns ELSE Least(turns, Most(1, inTime))
                  byCalls == IF b.max = 0 THEN byClock ELSE Least(byClock, Most(1, inCalls))
              IN Most(1, byCalls)
      BY DEF Affordable
    <3> HIDE DEF inTime, inCalls
    <3>3. n = 1
      BY <2>1, <3>1, <3>2 DEF Least, Most
    <3> QED
      BY <3>3
  <2>2. CASE turns # 0
    <3>1. Most(1, turns) = turns
      BY <1>1, <2>2 DEF Most
    <3> QED
      BY <3>1
  <2> QED
    BY <2>1, <2>2
<1>7. t = [b EXCEPT !.warned = FALSE, !.turnStart = b.calls,
             !.turnMax = IF b.max = 0 THEN @ ELSE b.calls + byCall,
             !.turnHard = IF b.hard = 0 THEN @ ELSE 0 + byTime,
             !.turnWrap = IF b.hard = 0 THEN @ ELSE 0 + (4 * byTime) \div 5]
  BY <1>3 DEF BeginTurn
<1>8. byTime \in Nat /\ byTime >= floor /\ (m * floor <= b.hard => m * byTime <= b.hard)
  BY <1>1, <1>3, <1>4, ShareIs
<1>9. byCall \in Nat /\ byCall >= MinTurnCalls /\ (m * MinTurnCalls <= left => m * byCall <= left)
  BY <1>1, <1>3, <1>4, ShareIs
<1> HIDE DEF byTime, byCall, m, n, t, floor, left
<1>10. /\ t \in Budgets
       /\ max # 0 => t.turnMax = spent + byCall
       /\ units # 0 => t.turnHard = byTime
  <2> DEFINE tm == IF b.max = 0 THEN b.turnMax ELSE b.calls + byCall
             th == IF b.hard = 0 THEN b.turnHard ELSE 0 + byTime
             tw == IF b.hard = 0 THEN b.turnWrap ELSE 0 + (4 * byTime) \div 5
  <2>1. /\ b.calls \in Nat /\ b.turnMax \in Nat /\ b.turnHard \in Nat /\ b.turnWrap \in Nat
    BY <1>2 DEF Budgets
  <2>2. tm \in Nat /\ th \in Nat /\ tw \in Nat
    BY <1>8, <1>9, <2>1
  <2>3. (max # 0 => tm = spent + byCall) /\ (units # 0 => th = byTime)
    BY <1>2, <1>8
  <2>4. t = [b EXCEPT !.warned = FALSE, !.turnStart = b.calls, !.turnMax = tm,
                      !.turnHard = th, !.turnWrap = tw]
    BY <1>7
  <2> HIDE DEF tm, th, tw
  <2> QED
    BY <1>2, <2>1, <2>2, <2>3, <2>4 DEF Budgets
<1>11. \A c \in {b, t} : /\ Grades[Phase(c, 0)] <= Grades[Phase(c, 1)]
                         /\ Grades[Phase(c, 0)] <= Grades[Phase(Spent1(c), 0)]
  BY <1>2, <1>10, PhasesGoOn
<1>12. ASSUME max # 0
       PROVE  /\ t.turnMax - spent >= MinTurnCalls
              /\ n > 1 => n * (t.turnMax - spent) <= max - spent
  <2>1. t.turnMax - spent = byCall
    BY <1>1, <1>9, <1>10, <1>12
  <2>2. ASSUME n > 1 PROVE n * byCall <= max - spent
    <3>1. n * MinTurnCalls <= left /\ m = n /\ n * byCall <= left
      BY <1>5, <1>6, <1>9, <1>12, <2>2
    <3>2. left # 0
      <4>1. n * MinTurnCalls > 0
        BY <1>1, <2>2, <1>5, SMT
      <4> QED BY <1>1, <1>5, <3>1, <4>1, SMT
    <3> QED BY <1>3, <3>1, <3>2
  <2> QED BY <1>9, <2>1, <2>2
<1>13. ASSUME units # 0
       PROVE  t.turnHard >= floor /\ (n > 1 => n * t.turnHard <= b.hard)
  BY <1>2, <1>5, <1>6, <1>8, <1>10, <1>13
<1> QED
  BY <1>11, <1>12, <1>13 DEF b, t, n, floor

\* A schema of plain types takes what fits it.
LEMMA PlainBodiesFit == SchemaIsPlain => FitsIsSound
<1> SUFFICES ASSUME SchemaIsPlain, NEW b \in Bodies,
                    b.object, DOMAIN b.fields \subseteq DOMAIN Schema.properties
             PROVE  Fits(b.fields) <=> Takes(b.fields)
  BY DEF FitsIsSound
<1> DEFINE f == b.fields
           Typed(k) ==
             LET spec == Schema.properties[k]
             IN /\ spec.type = "boolean" <=> f[k].type = "boolean"
                /\ spec.type = "string" <=> f[k].type = "string"
                /\ spec.type = "integer" => f[k].type # "number"
<1>1. ASSUME NEW k \in DOMAIN f
      PROVE  HasType(f[k], Schema.properties[k].type) <=> Typed(k)
  <2>1. Schema.properties[k].type \in PlainTypes /\ f[k].type \in PlainTypes
    BY DEF SchemaIsPlain
  <2> QED
    BY <2>1 DEF PlainTypes, HasType
<1>2. DOMAIN f \cap DOMAIN Schema.properties = DOMAIN f
  OBVIOUS
<1>3. Fits(f) <=> /\ Schema.required \subseteq DOMAIN f
                  /\ \A k \in DOMAIN f :
                       LET spec == Schema.properties[k]
                       IN HasType(f[k], spec.type) /\ (spec.enum = {} \/ f[k].value \in spec.enum)
  BY DEF Fits
<1>4. Takes(f) <=> /\ \A k \in Schema.required : k \in DOMAIN f
                   /\ \A k \in DOMAIN f :
                        Typed(k) /\ (f[k].value \in Schema.properties[k].enum
                                     \/ Schema.properties[k].enum = {})
  BY <1>2 DEF Takes
<1> HIDE DEF Typed
<1> QED
  BY <1>1, <1>3, <1>4

\* A set of places smaller than n \div 2 + 1 leaves at least as many outside it.
LEMMA Halves ==
  ASSUME NEW n \in Nat, NEW k \in Nat
  PROVE  /\ n \div 2 < k => 2 * k >= n
         /\ k <= n \div 2 /\ k <= n => 2 * (n - k) >= n
OBVIOUS

\* Among the scores of some places there is a highest.
LEMMA HighestIs ==
  ASSUME NEW s \in Seq(Nat), NEW P \in SUBSET (1..Len(s)), P # {}
  PROVE  \E k \in P : \A j \in P : s[j] <= s[k]
<1> DEFINE T(i) == {j \in P : s[j] <= s[i]}
           K == {Cardinality(P \ T(i)) : i \in P}
<1>1. \A i \in 1..Len(s) : s[i] \in Nat
  OBVIOUS
<1>2. IsFiniteSet(P)
  <2>1. Len(s) \in Int /\ 1 \in Int
    OBVIOUS
  <2>2. IsFiniteSet(1..Len(s))
    BY <2>1, FS_Interval
  <2> QED BY <2>2, FS_Subset
<1>3. \A i \in P : IsFiniteSet(P \ T(i)) /\ Cardinality(P \ T(i)) \in Nat
  <2>1. ASSUME NEW i \in P PROVE IsFiniteSet(P \ T(i))
    <3>1. P \ T(i) \subseteq P
      OBVIOUS
    <3> QED BY <1>2, <3>1, FS_Subset
  <2> QED BY <2>1, FS_CardinalityType
<1>4. K \subseteq Nat /\ K # {}
  BY <1>3
<1>5. PICK m \in K : \A k \in K : m <= k
  <2> HIDE DEF K
  <2> QED BY <1>4, NatMin, Zenon
<1>6. PICK k \in P : m = Cardinality(P \ T(k))
  BY <1>5
<1>7. ASSUME NEW j \in P, ~(s[j] <= s[k])
      PROVE  FALSE
  <2>1. s[k] < s[j]
    BY <1>1, <1>7
  <2>2. P \ T(j) \subseteq P \ T(k) /\ j \in P \ T(k) /\ j \notin P \ T(j)
    <3>1. s[j] \in Nat /\ s[k] \in Nat /\ \A i \in P : s[i] \in Nat
      BY <1>1
    <3>2. \A i \in P : ~(s[i] <= s[j]) => ~(s[i] <= s[k])
      BY <2>1, <3>1
    <3>3. s[j] <= s[j]
      BY <3>1
    <3> QED BY <1>7, <3>2, <3>3
  <2>3. P \ T(j) # P \ T(k)
    BY <2>2
  <2>4. Cardinality(P \ T(j)) < Cardinality(P \ T(k))
    <3> DEFINE A == P \ T(j)
               B == P \ T(k)
    <3>1. IsFiniteSet(B) /\ A \in SUBSET B /\ A # B /\ Cardinality(A) \in Nat /\ Cardinality(B) \in Nat
      BY <1>3, <2>2, <2>3
    <3> HIDE DEF A, B
    <3>2. Cardinality(A) <= Cardinality(B) /\ (Cardinality(B) = Cardinality(A) => B = A)
      BY <3>1, FS_Subset
    <3>3. Cardinality(A) < Cardinality(B)
      BY <3>1, <3>2
    <3> QED BY <3>3 DEF A, B
  <2> DEFINE a == Cardinality(P \ T(j))
  <2>5. a \in K /\ a \in Nat /\ m \in Nat /\ a < m
    BY <1>3, <1>6, <2>4
  <2> HIDE DEF K, a
  <2>6. m <= a
    BY <1>5, <2>5
  <2> QED BY <2>5, <2>6
<1> QED BY <1>7

\* Scores in an odd or even number have one in the middle.
LEMMA MiddleIs ==
  ASSUME NEW s \in Seq(Scores), s # <<>>
  PROVE  LET m == Middle(s)
             n == Len(s)
         IN /\ m \in Scores
            /\ Cardinality({i \in 1..n : s[i] < m}) <= n \div 2
            /\ n \div 2 < Cardinality({i \in 1..n : s[i] <= m})
<1> DEFINE n == Len(s)
           Below(m) == {i \in 1..n : s[i] < m}
           UpTo(m) == {i \in 1..n : s[i] <= m}
           Mid(m) == Cardinality(Below(m)) <= n \div 2 /\ n \div 2 < Cardinality(UpTo(m))
           P == {i \in 1..n : n \div 2 < Cardinality(UpTo(s[i]))}
           K == {s[i] : i \in P}
<1>1. /\ n \in Nat /\ n >= 1 /\ n \div 2 \in Nat /\ n \div 2 < n
      /\ Scores \subseteq Nat /\ s \in Seq(Nat) /\ DOMAIN s = 1..n
      /\ \A i \in 1..n : s[i] \in Scores /\ s[i] \in Nat
  <2>1. Scores \subseteq Nat
    BY BenchAssumption DEF BenchAssumption
  <2>2. n \in Nat /\ n >= 1 /\ DOMAIN s = 1..n /\ \A i \in 1..n : s[i] \in Scores
    BY EmptySeq
  <2> HIDE DEF n
  <2>3. n \div 2 \in Nat /\ n \div 2 < n
    BY <2>2
  <2>4. s \in Seq(Nat)
    BY <2>1, SeqMonotonic
  <2> QED BY <2>1, <2>2, <2>3, <2>4
<1>2. \A Q \in SUBSET (1..n) : IsFiniteSet(Q) /\ Cardinality(Q) \in Nat
  <2>1. IsFiniteSet(1..n)
    BY <1>1, FS_Interval
  <2> QED BY <2>1, FS_Subset, FS_CardinalityType
<1> HIDE DEF n
<1>3. Cardinality(1..n) = n
  <2>1. n \in Nat /\ n >= 1
    BY <1>1
  <2>2. Cardinality(1..n) = IF 1 > n THEN 0 ELSE n - 1 + 1
    BY <2>1, FS_Interval
  <2> QED BY <2>1, <2>2
<1>4. P # {}
  <2>1. 1..n \in SUBSET (1..Len(s)) /\ 1..n # {}
    BY <1>1 DEF n
  <2>2. PICK k \in 1..n : \A j \in 1..n : s[j] <= s[k]
    BY <1>1, <2>1, HighestIs
  <2>3. UpTo(s[k]) = 1..n
    BY <2>2
  <2> QED BY <1>1, <1>3, <2>3
<1>5. K \subseteq Nat /\ K # {}
  BY <1>1, <1>4
<1>6. PICK m \in K : \A k \in K : m <= k
  <2> HIDE DEF K
  <2> QED BY <1>5, NatMin, Zenon
<1>7. m \in Scores /\ m \in Nat /\ n \div 2 < Cardinality(UpTo(m))
  BY <1>1, <1>6
<1>8. Cardinality(Below(m)) <= n \div 2
  <2>1. Cardinality(Below(m)) \in Nat
    BY <1>2
  <2>2. SUFFICES ASSUME n \div 2 < Cardinality(Below(m)) PROVE FALSE
    <3> HIDE DEF Below
    <3> QED BY <1>1, <2>1
  <2>3. Below(m) # {}
    <3>1. Cardinality({}) = 0
      BY FS_EmptySet
    <3>2. n \div 2 \in Nat
      BY <1>1
    <3> DEFINE half == n \div 2
    <3> DEFINE size == Cardinality(Below(m))
    <3>3. half \in Nat /\ size \in Nat /\ half < size
      BY <2>1, <2>2, <3>2
    <3>4. size # 0
      <4> HIDE DEF size, half
      <4> QED BY <3>3
    <3> HIDE DEF Below
    <3> QED BY <3>1, <3>4, Zenon
  <2>4. Below(m) \in SUBSET (1..Len(s))
    BY DEF n
  <2>5. PICK k \in Below(m) : \A j \in Below(m) : s[j] <= s[k]
    <3> HIDE DEF Below
    <3> QED BY <1>1, <2>3, <2>4, HighestIs
  <2>6. k \in 1..n /\ s[k] < m /\ s[k] \in Nat
    BY <1>1, <2>5
  <2>7. UpTo(s[k]) = Below(m)
    BY <1>1, <1>7, <2>5, <2>6
  <2>8. s[k] \in K
    BY <2>2, <2>6, <2>7
  <2> HIDE DEF K, Below
  <2> QED BY <1>6, <1>7, <2>6, <2>8
<1>9. m \in Scores /\ Mid(m)
  BY <1>7, <1>8
<1> DEFINE c == CHOOSE x \in Scores : Mid(x)
<1>10. c \in Scores /\ Mid(c)
  <2> HIDE DEF Mid
  <2> QED BY <1>9, Zenon
<1>11. Middle(s) = c
  <2>1. \A x : /\ {i \in DOMAIN s : s[i] < x} = Below(x)
               /\ {i \in DOMAIN s : s[i] <= x} = UpTo(x)
    BY <1>1
  <2> HIDE DEF Below, UpTo
  <2> QED BY <2>1 DEF Middle, n
<1> HIDE DEF c
<1> QED BY <1>10, <1>11 DEF n

\* --- What the harness promises in every state

LEMMA OwnTexts == BenchInd => TextsAreOwn
<1> SUFFICES ASSUME BenchInd PROVE TextsAreOwn
  OBVIOUS
<1> DEFINE mine(r) == {i \in DOMAIN texts : texts[i] = <<"assistant", r + 1>>}
           asks(r) == {i \in DOMAIN texts : texts[i] = <<"user", r>>}
<1>1. /\ texts \in Seq(Utterances) /\ DOMAIN texts = 1..Len(texts) /\ Len(texts) \in Nat
      /\ texts # <<>> => Asked(texts, round)
      /\ ~error => Replied(texts)
      /\ Rounds \in Nat /\ round \in 0..Rounds
  BY BenchAssumption DEF BenchAssumption, BenchInd, Trying, Telling
<1>2. Cardinality({}) = 0 /\ \A i : Cardinality({i}) = 1
  BY FS_EmptySet, FS_Singleton
<1>3. ASSUME NEW r \in 0..Rounds
      PROVE  Cardinality(asks(r)) = IF texts # <<>> /\ r <= round THEN 1 ELSE 0
  <2>1. CASE texts = <<>>
    <3>1. asks(r) = {}
      BY <2>1
    <3> QED BY <1>2, <2>1, <3>1
  <2>2. CASE texts # <<>> /\ r <= round
    <3>1. PICK i \in 1..Len(texts) :
            /\ texts[i] = <<"user", r>>
            /\ \A j \in 1..Len(texts) : texts[j] = <<"user", r>> => j = i
      BY <1>1, <2>2 DEF Asked
    <3>2. asks(r) = {i}
      BY <1>1, <3>1
    <3> QED BY <1>2, <2>2, <3>2
  <2>3. CASE texts # <<>> /\ ~(r <= round)
    <3>1. asks(r) = {}
      BY <1>1, <2>3 DEF Asked
    <3> QED BY <1>2, <2>3, <3>1
  <2> QED BY <2>1, <2>2, <2>3
<1>4. ASSUME ~error, NEW r \in 0..Rounds, NEW i \in mine(r)
      PROVE  texts[i - 1] = <<"user", r>> /\ Cardinality(mine(r)) = 1
  <2>1. ASSUME NEW j \in mine(r)
        PROVE  j \in 1..Len(texts) /\ j - 1 \in 1..Len(texts) /\ texts[j - 1] = <<"user", r>>
    <3>1. j \in 1..Len(texts) /\ texts[j] = <<"assistant", r + 1>>
      BY <1>1
    <3>2. texts[j][1] = "assistant" /\ texts[j][2] = r + 1
      BY <3>1
    <3>3. j > 1 /\ texts[j - 1] = <<"user", (r + 1) - 1>>
      BY <1>1, <1>4, <3>1, <3>2 DEF Replied
    <3>4. (r + 1) - 1 = r
      BY <1>1
    <3> QED BY <1>1, <3>1, <3>3, <3>4
  <2>2. texts # <<>>
    BY <1>1, <2>1
  <2>3. ASSUME NEW j \in mine(r) PROVE j = i
    <3>1. j - 1 = i - 1
      <4>1. CASE r <= round
        BY <1>1, <2>1, <2>2, <4>1 DEF Asked
      <4>2. CASE ~(r <= round)
        BY <1>1, <2>1, <2>2, <4>2 DEF Asked
      <4> QED BY <4>1, <4>2
    <3>2. i \in Int /\ j \in Int
      BY <1>1
    <3> QED BY <3>1, <3>2
  <2>4. mine(r) = {i}
    <3> HIDE DEF mine
    <3> QED BY <2>3
  <2> QED BY <1>2, <2>1, <2>4
<1> QED BY <1>3, <1>4 DEF TextsAreOwn

LEMMA MedianIs == BenchInd => MiddleIsAMedian
<1> SUFFICES ASSUME BenchInd, stage = "report"
             PROVE  LET m == Middle(scored)
                    IN /\ 2 * Cardinality({i \in 1..Trials : scored[i] <= m}) >= Trials
                       /\ 2 * Cardinality({i \in 1..Trials : scored[i] >= m}) >= Trials
  BY DEF MiddleIsAMedian
<1> DEFINE m == Middle(scored)
           Below == {i \in 1..Trials : scored[i] < m}
           UpTo == {i \in 1..Trials : scored[i] <= m}
           From == {i \in 1..Trials : scored[i] >= m}
<1>1. /\ scored \in Seq(Scores) /\ Len(scored) = Trials /\ Trials \in Nat /\ Trials >= 1
      /\ Scores \subseteq Nat
  BY BenchAssumption DEF BenchAssumption, BenchInd, Trying, Living
<1>2. scored # <<>>
  BY <1>1
<1>3. /\ m \in Scores /\ Cardinality(Below) <= Trials \div 2 /\ Trials \div 2 < Cardinality(UpTo)
  BY <1>1, <1>2, MiddleIs
<1> HIDE DEF m
<1>4. From = (1..Trials) \ Below
  <2>1. \A i \in 1..Trials : scored[i] \in Nat
    <3>1. \A i \in 1..Len(scored) : scored[i] \in Scores
      BY <1>1, ElementOfSeq
    <3> QED BY <1>1, <3>1
  <2>2. m \in Nat
    BY <1>1, <1>3
  <2> QED BY <2>1, <2>2
<1>5. IsFiniteSet(1..Trials) /\ Cardinality(1..Trials) = Trials
  <2>1. Cardinality(1..Trials) = IF 1 > Trials THEN 0 ELSE Trials - 1 + 1
    BY <1>1, FS_Interval
  <2> QED BY <1>1, <2>1, FS_Interval
<1>6. /\ Below \in SUBSET (1..Trials) /\ UpTo \in SUBSET (1..Trials)
  OBVIOUS
<1> HIDE DEF Below, UpTo, From
<1>7. Cardinality(From) = Trials - Cardinality(Below)
  <2>1. (1..Trials) \cap Below = Below
    BY <1>6
  <2>2. Cardinality((1..Trials) \ Below) = Cardinality(1..Trials) - Cardinality((1..Trials) \cap Below)
    BY <1>5, FS_Difference
  <2> QED BY <1>4, <1>5, <2>1, <2>2
<1>8. /\ Cardinality(Below) \in Nat /\ Cardinality(UpTo) \in Nat /\ Cardinality(Below) <= Trials
  BY <1>5, <1>6, FS_Subset, FS_CardinalityType
<1>9. 2 * Cardinality(UpTo) >= Trials
  BY <1>1, <1>3, <1>8, Halves
<1>10. 2 * Cardinality(From) >= Trials
  BY <1>1, <1>3, <1>7, <1>8, Halves
<1> QED BY <1>9, <1>10 DEF UpTo, From, m

LEMMA OwnPorts == PortsAreOwn
<1> SUFFICES ASSUME NEW i \in 1..Trials, NEW j \in 1..Trials, i < j
             PROVE  i * Stride + Services <= j * Stride
  BY DEF PortsAreOwn
<1>1. i \in Nat /\ j \in Nat /\ i + 1 <= j /\ Stride \in Nat /\ Services \in Nat /\ Services <= Stride
  BY BenchAssumption DEF BenchAssumption
<1>2. /\ Stride * (i + 1) \in Nat /\ Stride * j \in Nat /\ Stride * (i + 1) <= Stride * j
  BY <1>1, Grows
<1>3. Stride * (i + 1) = i * Stride + Stride /\ Stride * j = j * Stride /\ i * Stride \in Nat
  BY <1>1, SMT
<1> QED BY <1>1, <1>2, <1>3

LEMMA BenchFollows == TurnsFit /\ SchemaIsPlain /\ BenchInd => BenchInv
<1> SUFFICES ASSUME TurnsFit, SchemaIsPlain, BenchInd PROVE BenchInv
  OBVIOUS
<1> USE BenchAssumption DEF BenchAssumption
<1>1. BenchTypeOK
  <2>1. round \in 0..Rounds /\ answer \in 0..(round + 1) /\ Rounds \in Nat
    BY DEF BenchInd, Trying
  <2>2. answer \in 0..Rounds + 1
    BY <2>1
  <2> QED BY <2>1, <2>2 DEF BenchInd, Trying, BenchTypeOK
<1>2. LifecycleHolds
  BY DEF BenchInd, Living, LifecycleHolds, InRound
<1>3. ToldBeforeStopped
  <2> SUFFICES ASSUME InRound, agent = "look", IsSpent(budget, time) PROVE budget.warned
    BY DEF ToldBeforeStopped
  <2>1. budget \in Budgets /\ time \in Nat /\ Clocked
    BY DEF BenchInd, Trying
  <2>2. /\ budget.max = 0 /\ budget.turnMax = 0 /\ budget.turnHard = 0 /\ budget.turnWrap = 0
        /\ budget.wrap > 0 /\ budget.hard = budget.wrap + (Span - (4 * Span) \div 5)
        /\ ~budget.warned => time < budget.hard
    BY <2>1 DEF Clocked
  <2>3. 0 <= Span - (4 * Span) \div 5 /\ Span - (4 * Span) \div 5 \in Int
    BY GivenIs
  <2>4. budget.hard \in Nat /\ budget.wrap \in Nat
    BY <2>1 DEF Budgets
  <2>5. budget.hard >= budget.wrap
    BY <2>2, <2>3, <2>4
  <2>6. time >= budget.hard
    BY <2>1, <2>2, <2>5, PhaseIs
  <2> QED BY <2>1, <2>2, <2>4, <2>6
<1>4. WithinDeadline
  BY DEF BenchInd, Clocked, WithinDeadline, InRound
<1> QED
  BY <1>1, <1>2, <1>3, <1>4, OwnTexts, MedianIs, OwnPorts, BudgetsDoAddUp, PlainBodiesFit DEF BenchInv

\* If no call of the loop and its tool take together longer than the last fifth of
\* the budget, and the tools ask for plain types, then in every trial, whatever
\* fails in it and whenever, and however long the rubric, the judge and the user
\* take: a stretch of the loop the budget cuts short was told to finish before, in
\* it or in an earlier one; while the agent runs
\* the grader's files are not in its container, what is graded has a trace, nothing
\* is up between trials, the trace has each answer once and behind its question
\* unless a round raised, the budget is within the deadline, and the run reported
\* is a median of the scores.
THEOREM BenchHolds == TurnsFit /\ SchemaIsPlain /\ BenchSpec => []BenchInv
<1>1. TurnsFit /\ SchemaIsPlain /\ BenchInit /\ [][BenchNext]_benchVars => []BenchInv
  <2> SUFFICES ASSUME TurnsFit, SchemaIsPlain
               PROVE  BenchInit /\ [][BenchNext]_benchVars => []BenchInv
    OBVIOUS
  <2>1. BenchInit => BenchInd
    BY BenchStarts
  <2>2. BenchInd /\ [BenchNext]_benchVars => BenchInd'
    BY BenchTypesStay, LivingStays, TellingStays, ClockedStays DEF BenchInd
  <2>3. BenchInd => BenchInv
    BY BenchFollows
  <2> QED BY <2>1, <2>2, <2>3, PTL
<1> QED BY <1>1 DEF BenchSpec

=============================================================================
