---------------------------- MODULE Memory_proofs ----------------------------
(***************************************************************************)
(* Proofs about what an agent remembers: TieredQueue, for every set of     *)
(* messages, every budget and every reply of the summariser; LessonBank,   *)
(* for every number of runs, every task, every reply of the distiller,     *)
(* every similarity and every limit; and Transcript, for every result,     *)
(* every size of a conversation and every store.                           *)
(***************************************************************************)
EXTENDS TieredQueue, LessonBank, Transcript, FiniteSetTheorems, SequenceTheorems, TLAPS

-----------------------------------------------------------------------------
(* The operators the model is built from *)

\* Where the elements of AtPositions(s, T) come from.
RankIn(T, k) == Cardinality({j \in T : j <= k})

\* The rank numbers the positions of T from 1 to its size.
LEMMA RankIsOnto ==
  ASSUME NEW N \in Nat, NEW T \in SUBSET (1..N)
  PROVE  /\ Cardinality(T) \in Nat
         /\ \A k \in T : RankIn(T, k) \in 1..Cardinality(T)
         /\ \A n \in 1..Cardinality(T) : \E k \in T : RankIn(T, k) = n
         /\ \A j, k \in T : RankIn(T, j) = RankIn(T, k) => j = k
<1>1. IsFiniteSet(1..N)
  BY FS_Interval
<1>2. IsFiniteSet(T) /\ Cardinality(T) \in Nat
  BY <1>1, FS_Subset, FS_CardinalityType
<1>3. ASSUME NEW k \in T
      PROVE  RankIn(T, k) \in 1..Cardinality(T)
  <2> DEFINE U == {j \in T : j <= k}
  <2>1. U \in SUBSET T /\ k \in U
    BY <1>2
  <2>2. IsFiniteSet(U) /\ Cardinality(U) <= Cardinality(T)
    BY <1>2, <2>1, FS_Subset
  <2>3. Cardinality(U) \in Nat /\ Cardinality(U) # 0
    BY <2>1, <2>2, FS_CardinalityType, FS_EmptySet
  <2> QED
    BY <1>2, <2>2, <2>3 DEF RankIn
<1>4. ASSUME NEW j \in T, NEW k \in T, j < k
      PROVE  RankIn(T, j) # RankIn(T, k)
  <2> DEFINE U == {i \in T : i <= j}
             V == {i \in T : i <= k}
  <2>1. U \in SUBSET V /\ k \in V /\ k \notin U
    <3>1. j \in 1..N /\ k \in 1..N /\ \A i \in T : i \in 1..N
      OBVIOUS
    <3>2. \A i \in T : i <= j => i <= k
      BY <1>4, <3>1
    <3>3. ~(k <= j) /\ k <= k
      BY <1>4, <3>1
    <3> QED
      BY <3>2, <3>3
  <2>2. V \in SUBSET T
    OBVIOUS
  <2>3. IsFiniteSet(V)
    BY <1>2, <2>2, FS_Subset
  <2>4. Cardinality(U) # Cardinality(V)
    BY <2>1, <2>3, FS_Subset
  <2> QED
    BY <2>4 DEF RankIn
<1>5. \A j, k \in T : RankIn(T, j) = RankIn(T, k) => j = k
  <2> SUFFICES ASSUME NEW j \in T, NEW k \in T, j # k
               PROVE  RankIn(T, j) # RankIn(T, k)
    OBVIOUS
  <2>1. j < k \/ k < j
    OBVIOUS
  <2> QED
    BY <1>4, <2>1
<1>6. ASSUME NEW n \in 1..Cardinality(T)
      PROVE  \E k \in T : RankIn(T, k) = n
  <2> DEFINE f == [k \in T |-> RankIn(T, k)]
  <2>1. f \in Injection(T, 1..Cardinality(T))
    BY <1>3, <1>5 DEF Injection, IsInjective
  <2>2. IsFiniteSet(1..Cardinality(T)) /\ Cardinality(1..Cardinality(T)) = Cardinality(T)
    BY <1>2, FS_Interval
  <2>3. f \in Surjection(T, 1..Cardinality(T))
    BY <2>1, <2>2, FS_Injection
  <2> QED
    BY <2>3 DEF Surjection
<1> QED
  BY <1>2, <1>3, <1>5, <1>6

\* AtPositions selects exactly the elements at the given positions.
LEMMA AtPositionsSelects ==
  ASSUME NEW S, NEW s \in Seq(S), NEW T \in SUBSET DOMAIN s
  PROVE  /\ AtPositions(s, T) \in Seq(S)
         /\ ItemsOf(AtPositions(s, T)) = {s[k] : k \in T}
<1> DEFINE at(n) == CHOOSE k \in T : RankIn(T, k) = n
<1>1. DOMAIN s = 1..Len(s) /\ Len(s) \in Nat
  BY LenProperties
<1>2. /\ Cardinality(T) \in Nat
      /\ \A k \in T : RankIn(T, k) \in 1..Cardinality(T)
      /\ \A n \in 1..Cardinality(T) : \E k \in T : RankIn(T, k) = n
      /\ \A j, k \in T : RankIn(T, j) = RankIn(T, k) => j = k
  BY <1>1, RankIsOnto
<1>3. AtPositions(s, T) = [n \in 1..Cardinality(T) |-> s[at(n)]]
  BY DEF AtPositions, RankIn
<1>4. \A n \in 1..Cardinality(T) : at(n) \in T /\ RankIn(T, at(n)) = n
  BY <1>2
<1>5. \A k \in T : at(RankIn(T, k)) = k
  BY <1>2, <1>4
<1> HIDE DEF at
<1>6. \A k \in T : s[k] \in S
  BY <1>1, ElementOfSeq
<1>7. AtPositions(s, T) \in Seq(S)
  BY <1>2, <1>3, <1>4, <1>6, IsASeq
<1>8. DOMAIN AtPositions(s, T) = 1..Cardinality(T)
  BY <1>3
<1>9. ASSUME NEW n \in 1..Cardinality(T)
      PROVE  AtPositions(s, T)[n] \in {s[k] : k \in T}
  BY <1>3, <1>4
<1>10. ASSUME NEW k \in T
       PROVE  s[k] \in ItemsOf(AtPositions(s, T))
  BY <1>2, <1>3, <1>5, <1>8 DEF ItemsOf
<1> QED
  BY <1>7, <1>8, <1>9, <1>10 DEF ItemsOf

\* AtPositions takes each element from a place of its own.
LEMMA PlacesAre ==
  ASSUME NEW S, NEW s \in Seq(S), NEW T \in SUBSET (1..Len(s))
  PROVE  /\ AtPositions(s, T) \in Seq(S) /\ Len(AtPositions(s, T)) = Cardinality(T)
         /\ Cardinality(T) \in Nat
         /\ \E at \in [1..Cardinality(T) -> T] :
              /\ \A n \in 1..Cardinality(T) : AtPositions(s, T)[n] = s[at[n]]
              /\ \A m, n \in 1..Cardinality(T) : at[m] = at[n] => m = n
<1> DEFINE at(n) == CHOOSE k \in T : RankIn(T, k) = n
           c == Cardinality(T)
           f == [n \in 1..c |-> at(n)]
           r == AtPositions(s, T)
<1>1. Len(s) \in Nat /\ \A k \in 1..Len(s) : s[k] \in S
  BY LenProperties, ElementOfSeq
<1>2. /\ c \in Nat
      /\ \A n \in 1..c : \E k \in T : RankIn(T, k) = n
  BY <1>1, RankIsOnto
<1>3. r = [n \in 1..c |-> s[at(n)]]
  BY DEF AtPositions, RankIn
<1>4. \A n \in 1..c : at(n) \in T /\ RankIn(T, at(n)) = n
  BY <1>2
<1> HIDE DEF at, c
<1>5. f \in [1..c -> T] /\ \A m, n \in 1..c : f[m] = f[n] => m = n
  BY <1>4
<1>6. \A n \in 1..c : r[n] = s[f[n]]
  BY <1>3
<1>7. \A n \in 1..c : s[at(n)] \in S
  BY <1>1, <1>4
<1>8. r \in [1..c -> S]
  BY <1>3, <1>7
<1>9. r \in Seq(S) /\ DOMAIN r = 1..Len(r) /\ Len(r) \in Nat
  <2>1. \A U : Seq(U) = UNION {[1..n -> U] : n \in Nat}
    BY SeqDef
  <2>2. r \in Seq(S)
    BY <1>2, <1>8, <2>1
  <2> QED BY <2>2, LenProperties
<1>10. Len(r) = c
  <2>1. 1..c = 1..Len(r)
    BY <1>8, <1>9
  <2>2. \A n \in Nat : Cardinality(1..n) = n
    BY FS_Interval
  <2> QED BY <1>2, <1>9, <2>1, <2>2
<1> HIDE DEF f, r
<1>11. \E g \in [1..c -> T] : /\ \A n \in 1..c : r[n] = s[g[n]]
                             /\ \A m, n \in 1..c : g[m] = g[n] => m = n
  BY <1>5, <1>6
<1> QED BY <1>2, <1>9, <1>10, <1>11 DEF c, r

\* Each element it takes is from one of the places.
LEMMA PlacesOf ==
  ASSUME NEW S, NEW s \in Seq(S), NEW T \in SUBSET (1..Len(s))
  PROVE  /\ AtPositions(s, T) \in Seq(S) /\ Len(AtPositions(s, T)) = Cardinality(T)
         /\ \A n \in 1..Len(AtPositions(s, T)) : \E k \in T : AtPositions(s, T)[n] = s[k]
<1>1. /\ AtPositions(s, T) \in Seq(S) /\ Len(AtPositions(s, T)) = Cardinality(T)
      /\ \E at \in [1..Cardinality(T) -> T] :
              /\ \A n \in 1..Cardinality(T) : AtPositions(s, T)[n] = s[at[n]]
              /\ \A m, n \in 1..Cardinality(T) : at[m] = at[n] => m = n
  BY PlacesAre
<1>2. PICK at \in [1..Cardinality(T) -> T] : \A n \in 1..Cardinality(T) : AtPositions(s, T)[n] = s[at[n]]
  BY <1>1
<1>3. \A n \in 1..Cardinality(T) : at[n] \in T
  OBVIOUS
<1> QED BY <1>1, <1>2, <1>3

\* What is taken from places that all hold an element of U.
LEMMA PlacesKeep ==
  ASSUME NEW S, NEW s \in Seq(S), NEW T \in SUBSET (1..Len(s)), NEW U, \A k \in T : s[k] \in U
  PROVE  AtPositions(s, T) \in Seq(U)
<1> DEFINE r == AtPositions(s, T)
<1>1. /\ r \in Seq(S) /\ \A n \in 1..Len(r) : \E k \in T : r[n] = s[k]
  BY PlacesOf
<1> HIDE DEF r
<1>2. Len(r) \in Nat
  BY <1>1, LenProperties
<1>3. r \in [1..Len(r) -> S]
  BY <1>1, LenProperties
<1>4. \A n \in 1..Len(r) : r[n] \in U
  BY <1>1
<1>5. r \in [1..Len(r) -> U]
  BY <1>3, <1>4
<1>6. \A V : Seq(V) = UNION {[1..n -> V] : n \in Nat}
  BY SeqDef
<1>7. r \in Seq(U)
  BY <1>2, <1>5, <1>6
<1> QED BY <1>7 DEF r

\* The elements, and the citations, of a concatenation.
LEMMA ConcatElements ==
  ASSUME NEW S, NEW a \in Seq(S), NEW b \in Seq(S)
  PROVE  a \o b \in Seq(S) /\ ItemsOf(a \o b) = ItemsOf(a) \cup ItemsOf(b)
<1>1. \A s \in Seq(S) : ItemsOf(s) = Range(s)
  BY DEF ItemsOf, Range
<1>2. a \o b \in Seq(S)
  BY ConcatProperties
<1>3. Range(a \o b) = Range(a) \cup Range(b)
  BY RangeConcatenation
<1> QED
  BY <1>1, <1>2, <1>3

LEMMA RefsByElement ==
  ASSUME NEW bs
  PROVE  RefsOf(bs) = UNION {e.refs : e \in ItemsOf(bs)}
BY DEF RefsOf, ItemsOf

LEMMA ConcatRefs ==
  ASSUME NEW S, NEW a \in Seq(S), NEW b \in Seq(S)
  PROVE  RefsOf(a \o b) = RefsOf(a) \cup RefsOf(b)
BY ConcatElements, RefsByElement

-----------------------------------------------------------------------------
(* What a compaction keeps *)

LEMMA TextsType == Items \subseteq Texts /\ {Summary, Echo, Excerpt} \subseteq Texts
BY DEF Texts

\* Y as one sequence of bullets cites what the two tiers hold.
LEMMA YItemsType ==
  ASSUME TypeOK
  PROVE  /\ YItems \in Seq(Bullets)
         /\ RefsOf(YItems) = RefsOf(yBullets) \cup ItemsOf(yRaw)
<1> DEFINE raw == [k \in DOMAIN yRaw |-> Verbatim(yRaw[k])]
<1>1. yRaw \in Seq(Items) /\ yBullets \in Seq(Bullets)
  BY DEF TypeOK
<1>2. DOMAIN yRaw = 1..Len(yRaw) /\ Len(yRaw) \in Nat
  BY <1>1, LenProperties
<1>3. \A k \in DOMAIN yRaw : yRaw[k] \in Items
  BY <1>1, <1>2, ElementOfSeq
<1>4. \A k \in DOMAIN yRaw : Verbatim(yRaw[k]) \in Bullets
  BY <1>3, TextsType DEF Verbatim, Bullets
<1>5. raw \in Seq(Bullets)
  BY <1>2, <1>4, IsASeq
<1>6. RefsOf(raw) = ItemsOf(yRaw)
  BY DEF RefsOf, ItemsOf, Verbatim
<1>7. YItems = yBullets \o raw
  BY DEF YItems
<1> HIDE DEF raw
<1> QED
  BY <1>1, <1>5, <1>6, <1>7, ConcatElements, ConcatRefs

\* Every item of Y is either carried or in the prompt.
LEMMA CarriedOrPrompted ==
  ASSUME TypeOK
  PROVE  /\ Carried \in Seq(Bullets) /\ Prompt \in Seq(Bullets)
         /\ ItemsOf(Carried) = {YItems[k] : k \in CarriedAt}
         /\ RefsOf(Carried) \cup RefsOf(Prompt) = RefsOf(YItems)
         /\ \A p \in ItemsOf(Prompt) : ~Protected(p.text)
<1>1. YItems \in Seq(Bullets)
  BY YItemsType
<1>2. CarriedAt \in SUBSET DOMAIN YItems
  BY DEF CarriedAt
<1>3. /\ Carried \in Seq(Bullets)
      /\ ItemsOf(Carried) = {YItems[k] : k \in CarriedAt}
  BY <1>1, <1>2, AtPositionsSelects DEF Carried
<1>4. /\ Prompt \in Seq(Bullets)
      /\ ItemsOf(Prompt) = {YItems[k] : k \in DOMAIN YItems \ CarriedAt}
  BY <1>1, <1>2, AtPositionsSelects DEF Prompt
<1>5. ItemsOf(Carried) \cup ItemsOf(Prompt) = ItemsOf(YItems)
  BY <1>2, <1>3, <1>4 DEF ItemsOf
<1>6. \A p \in ItemsOf(Prompt) : ~Protected(p.text)
  BY <1>4 DEF CarriedAt
<1> QED
  BY <1>3, <1>4, <1>5, <1>6, RefsByElement

\* What the summariser's reply becomes once it has been parsed.
ParsedLine == [text : {Summary, Echo}, cites : SUBSET DOMAIN Prompt]

LEMMA ParsedType ==
  ASSUME NEW reply \in Replies
  PROVE  Parsed(reply) \in Seq(ParsedLine)
<1>1. CASE reply = <<>>
  <2>1. [text |-> Summary, cites |-> DOMAIN Prompt] \in ParsedLine
    BY DEF ParsedLine
  <2> QED
    BY <1>1, <2>1 DEF Parsed
<1>2. CASE reply # <<>>
  <2>1. PICK n \in 0..MaxBullets :
          reply \in [1..n -> [text : {Summary, Echo}, cites : (SUBSET DOMAIN Prompt) \ {{}}]]
    BY DEF Replies
  <2>2. \A k \in 1..n : reply[k] \in ParsedLine
    BY <2>1 DEF ParsedLine
  <2>3. n \in Nat
    BY BoundsAssumption
  <2>4. reply \in Seq(ParsedLine)
    BY <2>1, <2>2, <2>3, IsASeq
  <2> QED
    BY <1>2, <2>4 DEF Parsed
<1> QED
  BY <1>1, <1>2

\* The items a parsed reply covers, and what becomes of both kinds.
CoveredAt(parsed) == UNION {parsed[n].cites : n \in DOMAIN parsed}

LEMMA SummariesCite ==
  ASSUME TypeOK, NEW parsed \in Seq(ParsedLine)
  PROVE  /\ Summaries(parsed) \in Seq(Bullets)
         /\ RefsOf(Summaries(parsed)) = UNION {Prompt[k].refs : k \in CoveredAt(parsed)}
         /\ CoveredAt(parsed) \subseteq DOMAIN Prompt
<1>1. DOMAIN parsed = 1..Len(parsed) /\ Len(parsed) \in Nat
  BY LenProperties
<1>2. \A n \in DOMAIN parsed : parsed[n] \in ParsedLine
  BY <1>1, ElementOfSeq
<1>3. Prompt \in Seq(Bullets)
  BY CarriedOrPrompted
<1>4. \A k \in DOMAIN Prompt : Prompt[k] \in Bullets
  BY <1>3, LenProperties, ElementOfSeq
<1>5. ASSUME NEW n \in DOMAIN parsed
      PROVE  [text |-> parsed[n].text,
              refs |-> UNION {Prompt[k].refs : k \in parsed[n].cites}] \in Bullets
  <2>1. parsed[n].text \in Texts /\ parsed[n].cites \subseteq DOMAIN Prompt
    BY <1>2, TextsType DEF ParsedLine
  <2>2. \A k \in parsed[n].cites : Prompt[k].refs \subseteq Items
    BY <1>4, <2>1 DEF Bullets
  <2> QED
    BY <2>1, <2>2 DEF Bullets
<1>6. Summaries(parsed) \in Seq(Bullets)
  BY <1>1, <1>5, IsASeq DEF Summaries
<1>7. CoveredAt(parsed) \subseteq DOMAIN Prompt
  BY <1>2 DEF CoveredAt, ParsedLine
<1>8. DOMAIN Summaries(parsed) = DOMAIN parsed
  BY DEF Summaries
<1>9. \A n \in DOMAIN parsed :
         Summaries(parsed)[n].refs = UNION {Prompt[k].refs : k \in parsed[n].cites}
  BY DEF Summaries
<1>10. RefsOf(Summaries(parsed)) = UNION {Prompt[k].refs : k \in CoveredAt(parsed)}
  BY <1>8, <1>9 DEF RefsOf, CoveredAt
<1> QED
  BY <1>6, <1>7, <1>10

LEMMA UncitedCite ==
  ASSUME TypeOK, NEW parsed \in Seq(ParsedLine)
  PROVE  /\ Uncited(parsed) \in Seq(Bullets)
         /\ RefsOf(Uncited(parsed)) =
              UNION {Prompt[k].refs : k \in DOMAIN Prompt \ CoveredAt(parsed)}
         /\ \A b \in ItemsOf(Uncited(parsed)) :
              \/ b.text = Excerpt
              \/ \E p \in ItemsOf(Prompt) : b.text = p.text
<1> DEFINE items == [k \in DOMAIN Prompt |->
                       IF k <= PriorCount THEN Prompt[k] ELSE Excerpted(Prompt[k])]
           rest  == DOMAIN Prompt \ CoveredAt(parsed)
<1>1. Prompt \in Seq(Bullets)
  BY CarriedOrPrompted
<1>2. DOMAIN Prompt = 1..Len(Prompt) /\ Len(Prompt) \in Nat
  BY <1>1, LenProperties
<1>3. \A k \in DOMAIN Prompt : Prompt[k] \in Bullets
  BY <1>1, <1>2, ElementOfSeq
<1>4. ASSUME NEW b \in Bullets
      PROVE  /\ Excerpted(b) \in Bullets /\ Excerpted(b).refs = b.refs
             /\ Excerpted(b).text \in {b.text, Excerpt}
  BY TextsType DEF Excerpted, Bullets
<1>5. ASSUME NEW k \in DOMAIN Prompt
      PROVE  /\ items[k] \in Bullets /\ items[k].refs = Prompt[k].refs
             /\ items[k].text \in {Prompt[k].text, Excerpt}
  BY <1>3, <1>4
<1>6. items \in Seq(Bullets) /\ DOMAIN items = DOMAIN Prompt
  BY <1>2, <1>5, IsASeq
<1>7. Uncited(parsed) = AtPositions(items, rest)
  BY DEF Uncited, UncitedAt, CoveredAt
<1>8. rest \in SUBSET DOMAIN items
  BY <1>6
<1> HIDE DEF items
<1>9. /\ Uncited(parsed) \in Seq(Bullets)
      /\ ItemsOf(Uncited(parsed)) = {items[k] : k \in rest}
  BY <1>6, <1>7, <1>8, AtPositionsSelects
<1>10. RefsOf(Uncited(parsed)) = UNION {Prompt[k].refs : k \in rest}
  BY <1>5, <1>9, RefsByElement
<1>11. ASSUME NEW b \in ItemsOf(Uncited(parsed))
       PROVE  b.text = Excerpt \/ \E p \in ItemsOf(Prompt) : b.text = p.text
  BY <1>5, <1>9 DEF ItemsOf
<1> QED
  BY <1>9, <1>10, <1>11

\* Shedding drops texts and never a citation, and always keeps a bullet.
LEMMA ShedCountBound ==
  ASSUME NEW bs \in Seq(Bullets), bs # <<>>
  PROVE  ShedCount(bs) \in 0..(Len(bs) - 1)
<1> DEFINE T == {m \in 0..(Len(bs) - 2) :
                   BulletTokens(SubSeq(bs, m + 1, Len(bs))) > YBudget}
<1>1. Len(bs) \in Nat /\ Len(bs) # 0
  BY LenProperties, EmptySeq
<1>2. /\ IsFiniteSet(0..(Len(bs) - 2))
      /\ Cardinality(0..(Len(bs) - 2)) = IF 0 > Len(bs) - 2 THEN 0 ELSE Len(bs) - 1
  <2>1. 0 \in Int /\ Len(bs) - 2 \in Int /\ (Len(bs) - 2) - 0 + 1 = Len(bs) - 1
    BY <1>1
  <2> QED
    BY <2>1, FS_Interval
<1>3. T \in SUBSET (0..(Len(bs) - 2))
  OBVIOUS
<1>4. IsFiniteSet(T) /\ Cardinality(T) <= Cardinality(0..(Len(bs) - 2))
  BY <1>2, <1>3, FS_Subset
<1>5. Cardinality(T) \in Nat
  BY <1>4, FS_CardinalityType
<1>6. ShedCount(bs) = Cardinality(T)
  BY DEF ShedCount
<1> HIDE DEF T
<1> QED
  BY <1>1, <1>2, <1>4, <1>5, <1>6

LEMMA ShedOldestCites ==
  ASSUME NEW bs \in Seq(Bullets)
  PROVE  ShedOldest(bs) \in Seq(Bullets) /\ RefsOf(ShedOldest(bs)) = RefsOf(bs)
<1> DEFINE n == ShedCount(bs)
           head == [text |-> bs[n + 1].text, refs |-> RefsOf(SubSeq(bs, 1, n + 1))]
<1>1. bs \in [1..Len(bs) -> Bullets] /\ Len(bs) \in Nat /\ DOMAIN bs = 1..Len(bs)
  BY LenProperties
<1>2. CASE bs = <<>>
  <2>1. Len(bs) = 0 /\ DOMAIN bs = {}
    BY <1>1, <1>2
  <2>2. 0..(Len(bs) - 2) = {}
    BY <2>1
  <2>3. ShedCount(bs) = 0
    BY <2>2, FS_EmptySet DEF ShedCount
  <2>4. DOMAIN ShedOldest(bs) = {}
    BY <2>1, <2>3 DEF ShedOldest
  <2>5. ShedOldest(bs) = [k \in 1..0 |-> head]
    BY <2>1, <2>3 DEF ShedOldest
  <2>6. ShedOldest(bs) \in Seq(Bullets)
    BY <2>5, IsASeq
  <2> QED
    BY <2>1, <2>4, <2>6 DEF RefsOf
<1>3. CASE bs # <<>>
  <2>1. n \in 0..(Len(bs) - 1)
    BY <1>3, ShedCountBound
  <2> HIDE DEF n
  <2>2. \A k \in 1..(Len(bs) - n) : n + k \in 1..Len(bs)
    BY <1>1, <2>1
  <2>3. DOMAIN SubSeq(bs, 1, n + 1) = 1..(n + 1)
        /\ \A k \in 1..(n + 1) : k \in 1..Len(bs) /\ SubSeq(bs, 1, n + 1)[k] = bs[k]
    BY <1>1, <2>1, SubSeqProperties
  <2>4. head \in Bullets
    <3>1. n + 1 \in 1..Len(bs)
      BY <1>1, <2>1
    <3>2. bs[n + 1].text \in Texts
      BY <1>1, <3>1 DEF Bullets
    <3>3. \A k \in 1..Len(bs) : bs[k].refs \subseteq Items
      BY <1>1 DEF Bullets
    <3>4. RefsOf(SubSeq(bs, 1, n + 1)) \subseteq Items
      BY <2>3, <3>3 DEF RefsOf
    <3> QED
      BY <3>2, <3>4 DEF Bullets
  <2>5. ShedOldest(bs) = [k \in 1..(Len(bs) - n) |-> IF k = 1 THEN head ELSE bs[n + k]]
    BY DEF ShedOldest, n
  <2>6. head.refs = UNION {bs[k].refs : k \in 1..(n + 1)}
    BY <2>3 DEF RefsOf
  <2> HIDE DEF head
  <2>7. Len(bs) - n \in Nat
    BY <1>1, <2>1
  <2>8. ShedOldest(bs) \in Seq(Bullets)
    <3>1. \A k \in 1..(Len(bs) - n) : (IF k = 1 THEN head ELSE bs[n + k]) \in Bullets
      BY <1>1, <2>2, <2>4
    <3> QED
      BY <2>5, <2>7, <3>1, IsASeq
  <2>9. DOMAIN ShedOldest(bs) = 1..(Len(bs) - n)
    BY <2>5
  <2>10. ASSUME NEW i \in Items, i \in RefsOf(bs)
         PROVE  i \in RefsOf(ShedOldest(bs))
    <3>1. PICK k \in 1..Len(bs) : i \in bs[k].refs
      BY <1>1, <2>10 DEF RefsOf
    <3>2. CASE k <= n + 1
      <4>1. k \in 1..(n + 1)
        BY <2>1, <3>2
      <4>2. i \in head.refs
        BY <2>6, <3>1, <4>1
      <4>3. 1 \in 1..(Len(bs) - n) /\ ShedOldest(bs)[1] = head
        BY <1>1, <2>1, <2>5
      <4> QED
        BY <2>9, <4>2, <4>3 DEF RefsOf
    <3>3. CASE ~(k <= n + 1)
      <4>1. k - n \in 1..(Len(bs) - n) /\ k - n # 1 /\ n + (k - n) = k
        BY <1>1, <2>1, <3>3
      <4>2. ShedOldest(bs)[k - n] = bs[k]
        BY <2>5, <4>1
      <4> QED
        BY <2>9, <3>1, <4>1, <4>2 DEF RefsOf
    <3> QED
      BY <3>2, <3>3
  <2>11. RefsOf(ShedOldest(bs)) \subseteq RefsOf(bs)
    <3>1. \A k \in 1..(n + 1) : k \in 1..Len(bs)
      BY <1>1, <2>1
    <3>2. head.refs \subseteq RefsOf(bs)
      BY <1>1, <2>6, <3>1 DEF RefsOf
    <3>3. \A k \in 1..(Len(bs) - n) : bs[n + k].refs \subseteq RefsOf(bs)
      BY <1>1, <2>2 DEF RefsOf
    <3>4. \A k \in 1..(Len(bs) - n) : ShedOldest(bs)[k].refs \subseteq RefsOf(bs)
      BY <2>5, <3>2, <3>3
    <3> QED
      BY <2>9, <3>4 DEF RefsOf
  <2>12. RefsOf(bs) \subseteq Items
    BY <1>1 DEF RefsOf, Bullets
  <2> QED
    BY <2>8, <2>10, <2>11, <2>12
<1> QED
  BY <1>2, <1>3

\* A compaction cites all that Y cited, whatever the summariser answers: its
\* prior bullets and every message of the raw overflow.
LEMMA NewBulletsCover ==
  ASSUME TypeOK, NEW reply \in Replies
  PROVE  /\ NewBullets(reply) \in Seq(Bullets)
         /\ RefsOf(NewBullets(reply)) = RefsOf(yBullets) \cup ItemsOf(yRaw)
<1> DEFINE parsed == Parsed(reply)
           bs == Carried \o Summaries(parsed) \o Uncited(parsed)
<1>1. parsed \in Seq(ParsedLine)
  BY ParsedType
<1>2. Carried \in Seq(Bullets) /\ Prompt \in Seq(Bullets)
  BY CarriedOrPrompted
<1> HIDE DEF parsed
<1>3. Summaries(parsed) \in Seq(Bullets) /\ Uncited(parsed) \in Seq(Bullets)
  BY <1>1, SummariesCite, UncitedCite
<1>4. /\ bs \in Seq(Bullets)
      /\ RefsOf(bs) = RefsOf(Carried) \cup RefsOf(Summaries(parsed)) \cup RefsOf(Uncited(parsed))
  <2>1. /\ Carried \o Summaries(parsed) \in Seq(Bullets)
        /\ RefsOf(Carried \o Summaries(parsed)) =
             RefsOf(Carried) \cup RefsOf(Summaries(parsed))
    BY <1>2, <1>3, ConcatElements, ConcatRefs
  <2>2. ASSUME NEW a \in Seq(Bullets), NEW b \in Seq(Bullets)
        PROVE  a \o b \in Seq(Bullets) /\ RefsOf(a \o b) = RefsOf(a) \cup RefsOf(b)
    BY ConcatElements, ConcatRefs
  <2> QED
    BY <1>3, <2>1, <2>2
<1>5. RefsOf(Summaries(parsed)) \cup RefsOf(Uncited(parsed)) = RefsOf(Prompt)
  <2>1. CoveredAt(parsed) \subseteq DOMAIN Prompt
    BY <1>1, SummariesCite
  <2>2. RefsOf(Summaries(parsed)) = UNION {Prompt[k].refs : k \in CoveredAt(parsed)}
    BY <1>1, SummariesCite
  <2>3. RefsOf(Uncited(parsed)) =
          UNION {Prompt[k].refs : k \in DOMAIN Prompt \ CoveredAt(parsed)}
    BY <1>1, UncitedCite
  <2>4. RefsOf(Prompt) = UNION {Prompt[k].refs : k \in DOMAIN Prompt}
    BY DEF RefsOf
  <2> QED
    BY <2>1, <2>2, <2>3, <2>4
<1>6. RefsOf(bs) = RefsOf(YItems)
  BY <1>4, <1>5, CarriedOrPrompted
<1>7. RefsOf(bs) = RefsOf(yBullets) \cup ItemsOf(yRaw)
  BY <1>6, YItemsType
<1>8. NewBullets(reply) = IF Reabstract THEN bs ELSE ShedOldest(bs)
  BY DEF NewBullets, bs, parsed
<1> HIDE DEF bs
<1>9. ShedOldest(bs) \in Seq(Bullets) /\ RefsOf(ShedOldest(bs)) = RefsOf(bs)
  BY <1>4, ShedOldestCites
<1> QED
  BY <1>4, <1>7, <1>8, <1>9

\* The person's words in a list of bullets.
WordsIn(bs) == {bs[k].text : k \in DOMAIN bs} \cap Yours

LEMMA ConcatWords ==
  ASSUME NEW a \in Seq(Bullets), NEW b \in Seq(Bullets)
  PROVE  WordsIn(a \o b) = WordsIn(a) \cup WordsIn(b)
<1>1. ItemsOf(a \o b) = ItemsOf(a) \cup ItemsOf(b)
  BY ConcatElements
<1>2. \A s : WordsIn(s) = {e.text : e \in ItemsOf(s)} \cap Yours
  BY DEF WordsIn, ItemsOf
<1> QED
  BY <1>1, <1>2

\* The default compaction keeps what the person said, word for word: their
\* words go around the summariser and never through it.
LEMMA NewBulletsWords ==
  ASSUME TypeOK, NEW reply \in Replies, Reabstract
  PROVE  WordsIn(NewBullets(reply)) =
           WordsIn(yBullets) \cup (ItemsOf(yRaw) \cap Yours)
<1> DEFINE parsed == Parsed(reply)
           raw    == [k \in DOMAIN yRaw |-> Verbatim(yRaw[k])]
<1>1. parsed \in Seq(ParsedLine)
  BY ParsedType
<1> HIDE DEF parsed
<1>2. Carried \in Seq(Bullets)
  BY CarriedOrPrompted
<1>3. Summaries(parsed) \in Seq(Bullets) /\ Uncited(parsed) \in Seq(Bullets)
  BY <1>1, SummariesCite, UncitedCite
<1>4. \A s : WordsIn(s) = {e.text : e \in ItemsOf(s)} \cap Yours
  BY DEF WordsIn, ItemsOf
<1>5. WordsIn(Summaries(parsed)) = {}
  <2>1. \A n \in DOMAIN parsed : parsed[n] \in ParsedLine
    BY <1>1, LenProperties, ElementOfSeq
  <2>2. \A n \in DOMAIN parsed : parsed[n].text \notin Yours
    BY <2>1, TextsAssumption DEF ParsedLine, Items
  <2> QED
    BY <2>2 DEF WordsIn, Summaries
<1>6. WordsIn(Uncited(parsed)) = {}
  <2>1. \A b \in ItemsOf(Uncited(parsed)) :
          b.text = Excerpt \/ \E p \in ItemsOf(Prompt) : b.text = p.text
    BY <1>1, UncitedCite
  <2>2. \A p \in ItemsOf(Prompt) : p.text \notin Yours
    BY CarriedOrPrompted DEF Protected
  <2>3. Excerpt \notin Yours
    BY TextsAssumption DEF Items
  <2> QED
    BY <1>4, <2>1, <2>2, <2>3
<1>7. WordsIn(Carried) = WordsIn(YItems)
  <2>1. ItemsOf(Carried) = {YItems[k] : k \in CarriedAt}
    BY CarriedOrPrompted
  <2>2. CarriedAt \subseteq DOMAIN YItems
    BY DEF CarriedAt
  <2>3. \A k \in DOMAIN YItems : YItems[k].text \in Yours => k \in CarriedAt
    BY DEF CarriedAt, Protected
  <2>4. WordsIn(Carried) = {YItems[k].text : k \in CarriedAt} \cap Yours
    BY <1>4, <2>1
  <2>5. WordsIn(YItems) = {YItems[k].text : k \in DOMAIN YItems} \cap Yours
    BY DEF WordsIn
  <2> QED
    BY <2>2, <2>3, <2>4, <2>5
<1>8. WordsIn(YItems) = WordsIn(yBullets) \cup (ItemsOf(yRaw) \cap Yours)
  <2>1. yRaw \in Seq(Items) /\ yBullets \in Seq(Bullets)
    BY DEF TypeOK
  <2>2. \A k \in DOMAIN yRaw : yRaw[k] \in Items
    BY <2>1, LenProperties, ElementOfSeq
  <2>3. raw \in Seq(Bullets)
    <3>1. \A k \in DOMAIN yRaw : Verbatim(yRaw[k]) \in Bullets
      BY <2>2, TextsType DEF Verbatim, Bullets
    <3> QED
      BY <2>1, <3>1, LenProperties, IsASeq
  <2>4. WordsIn(raw) = ItemsOf(yRaw) \cap Yours
    BY DEF WordsIn, ItemsOf, Verbatim
  <2>5. YItems = yBullets \o raw
    BY DEF YItems
  <2> HIDE DEF raw
  <2> QED
    BY <2>1, <2>3, <2>4, <2>5, ConcatWords
<1>9. NewBullets(reply) = Carried \o Summaries(parsed) \o Uncited(parsed)
  BY DEF NewBullets, parsed
<1>10. Carried \o Summaries(parsed) \in Seq(Bullets)
  BY <1>2, <1>3, ConcatElements
<1>11. WordsIn(NewBullets(reply)) =
          WordsIn(Carried) \cup WordsIn(Summaries(parsed)) \cup WordsIn(Uncited(parsed))
  <2>1. WordsIn(Carried \o Summaries(parsed)) =
          WordsIn(Carried) \cup WordsIn(Summaries(parsed))
    BY <1>2, <1>3, ConcatWords
  <2> QED
    BY <1>3, <1>9, <1>10, <2>1, ConcatWords
<1> QED
  BY <1>5, <1>6, <1>7, <1>8, <1>11

-----------------------------------------------------------------------------
(* The inductive invariant *)

\* Generations only go up: no row is newer than latest, and the process that
\* is up has counted at least that far.
GenerationsOK ==
  /\ \A k \in DOMAIN live : live[k].gen <= latest
  /\ pc # "down" => latest <= generation
  /\ pc = "flush" => latest < generation

\* Inside record_turn there is a message being appended.
TurnOK == pc \notin {"idle", "down"} => turn # <<>>

\* How far the pending table lags behind the two tiers.
PendingOK ==
  /\ pc = "idle" => pending = [x |-> x, y |-> yRaw]
  /\ pc = "mirror" => x = Append(pending.x, Head(turn)) /\ pending.y = yRaw
  /\ pc = "demote" => x = <<>> /\ yRaw = pending.y \o pending.x
  /\ pc \in {"flush", "write", "clear"} =>
       x = <<>> /\ pending = [x |-> <<>>, y |-> yRaw]

\* How far the bullets table runs ahead of the queue's own bullets.
BulletsOK ==
  /\ pc \in {"idle", "mirror", "demote", "flush"} => yBullets = Plain(live)
  /\ pc = "clear" => Plain(live) = fresh

\* Chunks are stored before anything cites them.
ChunksOK ==
  /\ pc = "flush" =>
       /\ step <= Len(yRaw) + 1
       /\ \A k \in 1..Len(yRaw) : k < step => yRaw[k] \in chunks
  /\ pc \in {"write", "clear"} => ItemsOf(yRaw) \subseteq chunks

\* What the new generation covers.
FreshOK ==
  pc \in {"write", "clear"} =>
    /\ RefsOf(fresh) = RefsOf(yBullets) \cup ItemsOf(yRaw)
    /\ Reabstract =>
         WordsIn(fresh) = WordsIn(yBullets) \cup (ItemsOf(yRaw) \cap Yours)

\* While it is written, the table holds the old rows and then a prefix of it.
Old == Len(live) - (step - 1)
WritingOK ==
  pc = "write" =>
    /\ step <= Len(fresh) + 1 /\ step <= Len(live) + 1
    /\ \A k \in DOMAIN live :
         /\ k <= Old => live[k].gen < generation
         /\ k > Old => /\ live[k].gen = generation
                       /\ live[k].text = fresh[k - Old].text
                       /\ live[k].refs = fresh[k - Old].refs
    /\ RefsOf(yBullets) \subseteq RefsOf(live)
    /\ RefsOf(live) \subseteq RefsOf(fresh)
    /\ Reabstract =>
         /\ WordsIn(yBullets) \subseteq WordsIn(live)
         /\ WordsIn(live) \subseteq WordsIn(fresh)

Inv ==
  /\ TypeOK /\ RefsResolve
  /\ GenerationsOK /\ TurnOK /\ PendingOK /\ BulletsOK /\ ChunksOK
  /\ FreshOK /\ WritingOK

-----------------------------------------------------------------------------
(* Every action preserves it *)

LEMMA PlainRows ==
  ASSUME NEW rows \in Seq(Rows)
  PROVE  /\ Plain(rows) \in Seq(Bullets)
         /\ RefsOf(Plain(rows)) = RefsOf(rows)
         /\ WordsIn(Plain(rows)) = WordsIn(rows)
<1>1. DOMAIN rows = 1..Len(rows) /\ Len(rows) \in Nat
  BY LenProperties
<1>2. \A k \in DOMAIN rows : rows[k] \in Rows
  BY <1>1, ElementOfSeq
<1>3. \A k \in DOMAIN rows : [text |-> rows[k].text, refs |-> rows[k].refs] \in Bullets
  BY <1>2 DEF Rows, Bullets
<1>4. Plain(rows) \in Seq(Bullets)
  BY <1>1, <1>3, IsASeq DEF Plain
<1> QED
  BY <1>4 DEF Plain, RefsOf, WordsIn

LEMMA RowTypes ==
  ASSUME NEW rows \in Seq(Rows), NEW k \in DOMAIN rows
  PROVE  rows[k].gen \in Nat /\ rows[k].text \in Texts /\ rows[k].refs \subseteq Items
<1>1. rows[k] \in Rows
  BY LenProperties, ElementOfSeq
<1> QED
  BY <1>1 DEF Rows

LEMMA InitInv == Init => Inv
<1> SUFFICES ASSUME Init PROVE Inv
  OBVIOUS
<1>1. \A S : <<>> \in Seq(S)
  BY EmptySeq
<1>2. Len(<<>>) = 0 /\ DOMAIN <<>> = {}
  OBVIOUS
<1>3. TypeOK
  BY <1>1 DEF Init, TypeOK, Phases
<1>4. RefsResolve
  BY DEF Init, RefsResolve, RefsOf
<1>5. Plain(<<>>) = <<>>
  BY DEF Plain
<1> QED
  BY <1>3, <1>4, <1>5 DEF Init, Inv, GenerationsOK, TurnOK, PendingOK, BulletsOK,
       ChunksOK, FreshOK, WritingOK

LEMMA RecordTurnInv ==
  ASSUME Inv, NEW sides \in Turns, RecordTurn(sides)
  PROVE  Inv'
<1>1. sides \in Seq(Items)
  <2>1. \A h \in Yours : <<h>> \in Seq(Items)
    BY DEF Items
  <2>2. \A h \in Yours, a \in Ottos : <<h, a>> \in Seq(Items)
    BY DEF Items
  <2>3. \/ \E h \in Yours : sides = <<h>>
        \/ \E h \in Yours, a \in Ottos : sides = <<h, a>>
    BY SMTT(30) DEF Turns
  <2>4. ASSUME NEW h \in Yours, sides = <<h>> PROVE sides \in Seq(Items)
    BY <2>1, <2>4, Zenon
  <2>5. ASSUME NEW h \in Yours, NEW a \in Ottos, sides = <<h, a>> PROVE sides \in Seq(Items)
    BY <2>2, <2>5, Zenon
  <2> QED
    BY <2>3, <2>4, <2>5, Zenon
<1>2. TypeOK'
  BY <1>1 DEF Inv, TypeOK, RecordTurn, memory, disk
<1> QED
  BY <1>2 DEF Inv, RecordTurn, memory, disk, RefsResolve, GenerationsOK, TurnOK, PendingOK,
       BulletsOK, ChunksOK, FreshOK, WritingOK

LEMMA AppendInv ==
  ASSUME Inv, Append1
  PROVE  Inv'
<1>1. Head(turn) \in Items
  BY DEF Inv, TypeOK, Append1
<1>2. TypeOK'
  <2>1. Append(x, Head(turn)) \in Seq(Items)
    BY <1>1, AppendProperties DEF Inv, TypeOK
  <2> QED
    BY <2>1 DEF Inv, TypeOK, Append1, disk, Phases
<1> QED
  BY <1>2 DEF Inv, Append1, disk, RefsResolve, GenerationsOK, TurnOK, PendingOK,
       BulletsOK, ChunksOK, FreshOK, WritingOK

LEMMA MirrorInv ==
  ASSUME Inv, Mirror
  PROVE  Inv'
<1> USE DEF Inv
<1>1. turn # <<>> /\ turn \in Seq(Items)
  BY DEF Mirror, TurnOK, TypeOK
<1>2. Head(turn) \in Items /\ Tail(turn) \in Seq(Items)
  BY <1>1
<1>3. pending.x \in Seq(Items) /\ pending.y \in Seq(Items)
  BY DEF TypeOK
<1>4. pending' = [x |-> Append(pending.x, Head(turn)), y |-> pending.y]
  BY DEF Mirror, TypeOK
<1>5. Append(pending.x, Head(turn)) \in Seq(Items)
  BY <1>2, <1>3
<1>6. x = Append(pending.x, Head(turn)) /\ pending.y = yRaw
  BY DEF Mirror, PendingOK
<1>7. CASE TextTokens(x) > XBudget
  <2>1. /\ yRaw' = yRaw \o x /\ x' = <<>> /\ pc' = "demote" /\ turn' = turn
    BY <1>7 DEF Mirror
  <2>2. TypeOK'
    <3>1. yRaw' \in Seq(Items) /\ x' \in Seq(Items)
      BY <2>1, ConcatProperties, EmptySeq DEF TypeOK
    <3> QED
      BY <1>4, <1>5, <1>3, <2>1, <3>1 DEF TypeOK, Mirror, Phases
  <2>3. PendingOK'
    BY <1>4, <1>6, <2>1 DEF PendingOK
  <2> QED
    BY <2>1, <2>2, <2>3, <1>1 DEF Mirror, RefsResolve, GenerationsOK, TurnOK, BulletsOK,
         ChunksOK, FreshOK, WritingOK
<1>8. CASE ~(TextTokens(x) > XBudget)
  <2>1. pc' = "idle" /\ turn' = Tail(turn) /\ x' = x /\ yRaw' = yRaw
    BY <1>8 DEF Mirror, Return
  <2>2. TypeOK'
    BY <1>2, <1>3, <1>4, <1>5, <2>1 DEF TypeOK, Mirror, Phases
  <2>3. PendingOK'
    BY <1>4, <1>6, <2>1 DEF PendingOK
  <2> QED
    BY <2>1, <2>2, <2>3 DEF Mirror, RefsResolve, GenerationsOK, TurnOK, BulletsOK,
         ChunksOK, FreshOK, WritingOK
<1> QED
  BY <1>7, <1>8

LEMMA DemoteInv ==
  ASSUME Inv, Demote
  PROVE  Inv'
<1> USE DEF Inv
<1>1. turn # <<>> /\ turn \in Seq(Items) /\ Tail(turn) \in Seq(Items)
  BY DEF Demote, TurnOK, TypeOK
<1>2. /\ x = <<>> /\ yRaw = pending.y \o pending.x
      /\ pending' = [x |-> <<>>, y |-> yRaw]
      /\ x' = x /\ yRaw' = yRaw
  BY DEF Demote, PendingOK
<1>3. yRaw \in Seq(Items) /\ <<>> \in Seq(Items) /\ Len(yRaw) \in Nat
  BY DEF TypeOK
<1>4. CASE YTokens(yRaw, yBullets) > YBudget
  <2>1. generation' = generation + 1 /\ step' = 1 /\ pc' = "flush" /\ turn' = turn
    BY <1>4 DEF Demote
  <2>2. TypeOK'
    BY <1>2, <1>3, <2>1 DEF TypeOK, Demote, Phases
  <2>3. PendingOK'
    BY <1>2, <2>1 DEF PendingOK
  <2>4. GenerationsOK'
    BY <2>1 DEF GenerationsOK, Demote, TypeOK
  <2>5. ChunksOK'
    <3>1. 1 <= Len(yRaw) + 1 /\ \A k \in 1..Len(yRaw) : ~(k < 1)
      BY <1>3
    <3> QED
      BY <1>2, <2>1, <3>1 DEF ChunksOK
  <2> QED
    BY <1>1, <2>1, <2>2, <2>3, <2>4, <2>5 DEF Demote, RefsResolve, TurnOK, BulletsOK,
         FreshOK, WritingOK
<1>5. CASE ~(YTokens(yRaw, yBullets) > YBudget)
  <2>1. pc' = "idle" /\ turn' = Tail(turn) /\ generation' = generation /\ step' = step
    BY <1>5 DEF Demote, Return
  <2>2. TypeOK'
    BY <1>1, <1>2, <1>3, <2>1 DEF TypeOK, Demote, Phases
  <2>3. PendingOK'
    BY <1>2, <2>1 DEF PendingOK
  <2> QED
    BY <2>1, <2>2, <2>3 DEF Demote, RefsResolve, GenerationsOK, TurnOK, BulletsOK,
         ChunksOK, FreshOK, WritingOK
<1> QED
  BY <1>4, <1>5

LEMMA FlushChunkInv ==
  ASSUME Inv, FlushChunk
  PROVE  Inv'
<1> USE DEF Inv
<1>1. step \in Nat \ {0} /\ Len(yRaw) \in Nat /\ step <= Len(yRaw)
  BY DEF TypeOK, FlushChunk
<1>2. yRaw[step] \in Items
  BY <1>1 DEF TypeOK
<1>3. TypeOK'
  BY <1>1, <1>2 DEF TypeOK, FlushChunk, memory, Phases
<1>4. ChunksOK'
  <2>1. pc = "flush" /\ pc' = pc /\ yRaw' = yRaw /\ step' = step + 1
        /\ chunks' = chunks \cup {yRaw[step]}
    BY DEF FlushChunk, memory
  <2>2. \A k \in 1..Len(yRaw) : k < step + 1 => k < step \/ k = step
    BY <1>1
  <2> QED
    BY <1>1, <2>1, <2>2 DEF ChunksOK
<1>5. RefsResolve'
  BY DEF RefsResolve, FlushChunk
<1> QED
  BY <1>3, <1>4, <1>5 DEF FlushChunk, memory, GenerationsOK, TurnOK, PendingOK,
       BulletsOK, FreshOK, WritingOK

LEMMA SummarizeInv ==
  ASSUME Inv, NEW reply \in Replies, Summarize(reply)
  PROVE  Inv'
<1> USE DEF Inv
<1>1. pc = "flush" /\ step = Len(yRaw) + 1 /\ pc' = "write" /\ step' = 1
      /\ fresh' = NewBullets(reply)
  BY DEF Summarize
<1>2. UNCHANGED <<x, yRaw, yBullets, generation, pending, chunks, live, latest, turn, count>>
  BY DEF Summarize, memory, disk
<1>3. /\ NewBullets(reply) \in Seq(Bullets)
      /\ RefsOf(NewBullets(reply)) = RefsOf(yBullets) \cup ItemsOf(yRaw)
  BY NewBulletsCover
<1>4. Reabstract => WordsIn(NewBullets(reply)) =
                      WordsIn(yBullets) \cup (ItemsOf(yRaw) \cap Yours)
  BY NewBulletsWords
<1>5. TypeOK'
  BY <1>1, <1>2, <1>3 DEF TypeOK, Phases
<1>6. live \in Seq(Rows) /\ yBullets = Plain(live)
  BY <1>1 DEF TypeOK, BulletsOK
<1>7. RefsOf(yBullets) = RefsOf(live) /\ WordsIn(yBullets) = WordsIn(live)
  BY <1>6, PlainRows
<1>8. FreshOK'
  BY <1>1, <1>2, <1>3, <1>4 DEF FreshOK
<1>9. ChunksOK'
  <2>1. yRaw \in Seq(Items) /\ DOMAIN yRaw = 1..Len(yRaw) /\ Len(yRaw) \in Nat
    BY LenProperties DEF TypeOK
  <2>2. \A k \in 1..Len(yRaw) : k < Len(yRaw) + 1
    BY <2>1
  <2>3. ItemsOf(yRaw) \subseteq chunks
    BY <1>1, <2>1, <2>2 DEF ChunksOK, ItemsOf
  <2> QED
    BY <1>1, <1>2, <2>3 DEF ChunksOK
<1>10. WritingOK'
  <2>1. Len(live) \in Nat /\ Len(fresh') \in Nat /\ DOMAIN live = 1..Len(live)
    BY <1>1, <1>3, <1>6, LenProperties
  <2>2. latest < generation /\ \A k \in DOMAIN live : live[k].gen <= latest
    BY <1>1 DEF GenerationsOK
  <2>3. \A k \in DOMAIN live : live[k].gen < generation
    <3>1. \A k \in DOMAIN live : live[k].gen \in Nat
      BY <1>6, RowTypes
    <3> QED
      BY <2>2, <3>1 DEF TypeOK
  <2>4. Old' = Len(live)
    BY <1>1, <1>2, <2>1 DEF Old
  <2>5. \A k \in DOMAIN live : k <= Len(live) /\ ~(k > Len(live))
    BY <2>1
  <2>6. 1 <= Len(fresh') + 1 /\ 1 <= Len(live) + 1
    BY <2>1
  <2>7. RefsOf(live) \subseteq RefsOf(fresh')
    BY <1>1, <1>3, <1>7
  <2>8. Reabstract => WordsIn(live) \subseteq WordsIn(fresh')
    BY <1>1, <1>4, <1>7
  <2> QED
    BY <1>1, <1>2, <1>7, <2>3, <2>4, <2>5, <2>6, <2>7, <2>8 DEF WritingOK
<1> QED
  BY <1>1, <1>2, <1>5, <1>8, <1>9, <1>10 DEF RefsResolve, GenerationsOK, TurnOK,
       PendingOK, BulletsOK

LEMMA SummarizeRaisesInv ==
  ASSUME Inv, SummarizeRaises
  PROVE  Inv'
<1>1. TypeOK'
  BY EmptySeq DEF Inv, TypeOK, SummarizeRaises, memory, disk, Phases
<1>2. PendingOK'
  BY DEF Inv, PendingOK, SummarizeRaises, memory, disk
<1> QED
  BY <1>1, <1>2 DEF Inv, SummarizeRaises, memory, disk, RefsResolve, GenerationsOK, TurnOK,
       BulletsOK, ChunksOK, FreshOK, WritingOK

LEMMA WriteBulletInv ==
  ASSUME Inv, WriteBullet
  PROVE  Inv'
<1> USE DEF Inv
<1> DEFINE row == [text |-> fresh[step].text, refs |-> fresh[step].refs, gen |-> generation]
<1>1. /\ pc = "write" /\ pc' = "write" /\ step <= Len(fresh)
      /\ live' = Append(live, row) /\ latest' = generation /\ step' = step + 1
  BY DEF WriteBullet
<1>2. UNCHANGED <<x, yRaw, yBullets, generation, pending, chunks, turn, fresh, count>>
  BY DEF WriteBullet, memory
<1>3. /\ live \in Seq(Rows) /\ fresh \in Seq(Bullets) /\ step \in Nat \ {0}
      /\ Len(live) \in Nat /\ DOMAIN live = 1..Len(live)
      /\ Len(fresh) \in Nat /\ DOMAIN fresh = 1..Len(fresh) /\ generation \in Nat
  BY LenProperties DEF TypeOK
<1>4. step \in DOMAIN fresh
  BY <1>1, <1>3
<1>5. fresh[step] \in Bullets
  BY <1>3, <1>4, ElementOfSeq
<1>6. row \in Rows
  BY <1>3, <1>5 DEF Rows, Bullets
<1> HIDE DEF row
<1>7. /\ live' \in Seq(Rows) /\ Len(live') = Len(live) + 1
      /\ DOMAIN live' = 1..(Len(live) + 1)
      /\ \A k \in DOMAIN live : live'[k] = live[k]
      /\ live'[Len(live) + 1] = row
  BY <1>1, <1>3, <1>6, AppendProperties, LenProperties
<1>8. \A k \in DOMAIN live' : k \in DOMAIN live \/ k = Len(live) + 1
  BY <1>3, <1>7
<1>9. row.refs = fresh[step].refs /\ row.text = fresh[step].text /\ row.gen = generation
  BY DEF row
<1>10. RefsOf(live') = RefsOf(live) \cup fresh[step].refs
  <2>1. DOMAIN live' = DOMAIN live \cup {Len(live) + 1}
    BY <1>3, <1>7
  <2>2. RefsOf(live') = (UNION {live'[k].refs : k \in DOMAIN live})
                          \cup live'[Len(live) + 1].refs
    BY <2>1 DEF RefsOf
  <2>3. {live'[k].refs : k \in DOMAIN live} = {live[k].refs : k \in DOMAIN live}
    BY <1>7
  <2> QED
    BY <1>7, <1>9, <2>2, <2>3 DEF RefsOf
<1>11. WordsIn(live') = WordsIn(live) \cup ({fresh[step].text} \cap Yours)
  <2>1. DOMAIN live' = DOMAIN live \cup {Len(live) + 1}
    BY <1>3, <1>7
  <2> QED
    BY <1>7, <1>9, <2>1 DEF WordsIn
<1>12. fresh[step].refs \subseteq RefsOf(fresh) /\ {fresh[step].text} \cap Yours \subseteq WordsIn(fresh)
  BY <1>4 DEF RefsOf, WordsIn
<1>13. TypeOK'
  BY <1>1, <1>2, <1>3, <1>7 DEF TypeOK, Phases
<1>14. RefsResolve'
  <2>1. RefsOf(fresh) = RefsOf(yBullets) \cup ItemsOf(yRaw)
    BY <1>1 DEF FreshOK
  <2>2. ItemsOf(yRaw) \subseteq chunks /\ RefsOf(yBullets) \subseteq RefsOf(live)
    BY <1>1 DEF ChunksOK, WritingOK
  <2>3. RefsOf(live) \subseteq chunks
    BY DEF RefsResolve
  <2> QED
    BY <1>2, <1>10, <1>12, <2>1, <2>2, <2>3 DEF RefsResolve
<1>15. GenerationsOK'
  <2>1. latest <= generation /\ latest \in Nat
    BY <1>1 DEF GenerationsOK, TypeOK
  <2>2. \A k \in DOMAIN live : live[k].gen \in Nat /\ live[k].gen <= latest
    BY <1>3, RowTypes DEF GenerationsOK
  <2>3. \A k \in DOMAIN live' : live'[k].gen <= generation
    BY <1>3, <1>7, <1>8, <1>9, <2>1, <2>2
  <2> QED
    BY <1>1, <1>2, <1>3, <2>3 DEF GenerationsOK
<1>16. WritingOK'
  <2>1. step <= Len(fresh) + 1 /\ step <= Len(live) + 1
    BY <1>1 DEF WritingOK
  <2>2. Old' = Old /\ Old \in Nat /\ Len(live) + 1 - Old = step /\ Len(live) + 1 > Old
    BY <1>1, <1>3, <1>7, <2>1 DEF Old
  <2>3. \A k \in DOMAIN live :
         /\ k <= Old => live[k].gen < generation
         /\ k > Old => /\ live[k].gen = generation
                       /\ live[k].text = fresh[k - Old].text
                       /\ live[k].refs = fresh[k - Old].refs
    BY <1>1 DEF WritingOK
  <2>4. ASSUME NEW k \in DOMAIN live'
        PROVE  /\ k <= Old => live'[k].gen < generation
               /\ k > Old => /\ live'[k].gen = generation
                             /\ live'[k].text = fresh[k - Old].text
                             /\ live'[k].refs = fresh[k - Old].refs
    <3>1. CASE k \in DOMAIN live
      BY <1>7, <2>3, <3>1
    <3>2. CASE k = Len(live) + 1
      BY <1>3, <1>7, <1>9, <2>2, <3>2
    <3> QED
      BY <1>8, <3>1, <3>2
  <2>5. step + 1 <= Len(fresh) + 1 /\ step + 1 <= Len(live') + 1
    BY <1>1, <1>3, <1>7, <2>1
  <2>6. RefsOf(yBullets) \subseteq RefsOf(live') /\ RefsOf(live') \subseteq RefsOf(fresh)
    BY <1>1, <1>10, <1>12 DEF WritingOK
  <2>7. Reabstract => /\ WordsIn(yBullets) \subseteq WordsIn(live')
                      /\ WordsIn(live') \subseteq WordsIn(fresh)
    BY <1>1, <1>11, <1>12 DEF WritingOK
  <2> QED
    BY <1>1, <1>2, <2>2, <2>4, <2>5, <2>6, <2>7 DEF WritingOK
<1> QED
  BY <1>1, <1>2, <1>13, <1>14, <1>15, <1>16 DEF TurnOK, PendingOK, BulletsOK, ChunksOK, FreshOK

\* The rows supersede_bullets keeps are exactly the new generation.
LEMMA SupersedeKeeps ==
  ASSUME Inv, pc = "write", step = Len(fresh) + 1
  PROVE  LET n == CHOOSE m \in 0..Len(live) :
                    \A k \in DOMAIN live : k <= m <=> live[k].gen < generation
             kept == SubSeq(live, n + 1, Len(live))
         IN  /\ kept \in Seq(Rows) /\ Plain(kept) = fresh
             /\ \A k \in DOMAIN kept : kept[k].gen <= latest
<1> USE DEF Inv
<1> DEFINE IsOld(m) == \A k \in DOMAIN live : k <= m <=> live[k].gen < generation
           n == CHOOSE m \in 0..Len(live) : IsOld(m)
           kept == SubSeq(live, n + 1, Len(live))
<1>1. /\ live \in Seq(Rows) /\ fresh \in Seq(Bullets) /\ generation \in Nat
      /\ Len(live) \in Nat /\ DOMAIN live = 1..Len(live)
      /\ Len(fresh) \in Nat /\ DOMAIN fresh = 1..Len(fresh)
  BY LenProperties DEF TypeOK
<1>2. step <= Len(live) + 1 /\ Old = Len(live) - Len(fresh) /\ Old \in 0..Len(live)
  BY <1>1 DEF WritingOK, Old
<1>3. \A k \in DOMAIN live :
         /\ live[k].gen \in Nat
         /\ k <= Old => live[k].gen < generation
         /\ k > Old => /\ live[k].gen = generation
                       /\ live[k].text = fresh[k - Old].text
                       /\ live[k].refs = fresh[k - Old].refs
  BY <1>1, RowTypes DEF WritingOK
<1>4. IsOld(Old)
  <2>1. ASSUME NEW k \in DOMAIN live
        PROVE  k <= Old <=> live[k].gen < generation
    BY <1>1, <1>2, <1>3
  <2> QED
    BY <2>1
<1>5. n \in 0..Len(live) /\ IsOld(n)
  BY <1>2, <1>4
<1> HIDE DEF n
<1>6. n = Old
  <2> DEFINE o == Old
  <2>0. o \in 0..Len(live) /\ IsOld(o)
    BY <1>2, <1>4
  <2> HIDE DEF o
  <2>1. \A k \in 1..Len(live) : k <= n <=> k <= o
    BY <1>1, <1>5, <2>0
  <2>2. n <= o
    <3>1. n = 0 \/ n \in 1..Len(live)
      BY <1>1, <1>5
    <3> QED
      BY <1>5, <2>0, <2>1, <3>1
  <2>3. o <= n
    <3>1. o = 0 \/ o \in 1..Len(live)
      BY <1>1, <2>0
    <3> QED
      BY <1>5, <2>0, <2>1, <3>1
  <2>4. n = o
    BY <1>5, <2>0, <2>2, <2>3
  <2> QED
    BY <2>4 DEF o
<1>7. /\ kept \in Seq(Rows) /\ Len(kept) = Len(fresh) /\ DOMAIN kept = 1..Len(fresh)
      /\ \A k \in 1..Len(fresh) : /\ Old + k \in DOMAIN live
                                  /\ kept[k] = live[Old + k]
  <2>1. Old + 1 \in 1..(Len(live) + 1) /\ Len(live) \in Old..Len(live)
        /\ Len(live) - (Old + 1) + 1 = Len(fresh)
    BY <1>1, <1>2
  <2>2. kept \in Seq(Rows) /\ Len(kept) = Len(fresh)
        /\ \A k \in 1..Len(fresh) : kept[k] = live[Old + 1 + k - 1]
    BY <1>1, <1>2, <1>6, <2>1, SubSeqProperties
  <2>3. \A k \in 1..Len(fresh) : Old + 1 + k - 1 = Old + k /\ Old + k \in 1..Len(live)
    BY <1>1, <1>2
  <2> QED
    BY <1>1, <2>2, <2>3, LenProperties
<1> HIDE DEF kept
<1>8. \A k \in 1..Len(fresh) :
         /\ kept[k].gen <= latest
         /\ kept[k].text = fresh[k].text /\ kept[k].refs = fresh[k].refs
  <2>1. \A k \in 1..Len(fresh) : Old + k > Old /\ (Old + k) - Old = k
    BY <1>1, <1>2
  <2> QED
    BY <1>3, <1>7, <2>1 DEF GenerationsOK
<1>9. Plain(kept) = fresh
  <2>1. \A k \in 1..Len(fresh) : fresh[k] = [text |-> fresh[k].text, refs |-> fresh[k].refs]
    <3>1. \A k \in 1..Len(fresh) : fresh[k] \in Bullets
      BY <1>1, ElementOfSeq
    <3> QED
      BY <3>1 DEF Bullets
  <2>2. Plain(kept) = [k \in 1..Len(fresh) |-> fresh[k]]
    BY <1>7, <1>8, <2>1 DEF Plain
  <2> QED
    BY <1>1, <2>2
<1> QED
  BY <1>7, <1>8, <1>9 DEF kept, n

LEMMA SupersedeInv ==
  ASSUME Inv, Supersede
  PROVE  Inv'
<1> USE DEF Inv
<1>1. /\ pc = "write" /\ step = Len(fresh) + 1 /\ pc' = "clear"
      /\ UNCHANGED <<x, yRaw, yBullets, generation, pending, chunks, latest, turn, fresh, step, count>>
  BY DEF Supersede, memory
<1>2. /\ live' \in Seq(Rows) /\ Plain(live') = fresh
      /\ \A k \in DOMAIN live' : live'[k].gen <= latest
  BY <1>1, SupersedeKeeps DEF Supersede
<1>3. TypeOK'
  BY <1>1, <1>2 DEF TypeOK, Phases
<1>4. RefsResolve'
  <2>1. RefsOf(live') = RefsOf(fresh)
    BY <1>2, PlainRows
  <2>2. RefsOf(fresh) = RefsOf(yBullets) \cup ItemsOf(yRaw)
    BY <1>1 DEF FreshOK
  <2>3. ItemsOf(yRaw) \subseteq chunks /\ RefsOf(yBullets) \subseteq RefsOf(live)
    BY <1>1 DEF ChunksOK, WritingOK
  <2> QED
    BY <1>1, <2>1, <2>2, <2>3 DEF RefsResolve
<1> QED
  BY <1>1, <1>2, <1>3, <1>4 DEF GenerationsOK, TurnOK, PendingOK, BulletsOK, ChunksOK,
       FreshOK, WritingOK

LEMMA ClearPendingInv ==
  ASSUME Inv, ClearPending
  PROVE  Inv'
<1> USE DEF Inv
<1>1. /\ pc = "clear" /\ pc' = "idle" /\ yRaw' = <<>> /\ yBullets' = fresh
      /\ fresh' = <<>> /\ step' = 1 /\ turn' = Tail(turn)
      /\ UNCHANGED <<x, generation, chunks, live, latest, count>>
  BY DEF ClearPending, Return
<1>2. turn \in Seq(Items) /\ Tail(turn) \in Seq(Items)
  BY <1>1 DEF TypeOK, TurnOK
<1>3. x = <<>> /\ pending' = [x |-> <<>>, y |-> <<>>]
  BY <1>1 DEF ClearPending, PendingOK
<1>4. TypeOK'
  BY <1>1, <1>2, <1>3, EmptySeq DEF TypeOK, Phases
<1> QED
  BY <1>1, <1>3, <1>4 DEF RefsResolve, GenerationsOK, TurnOK, PendingOK, BulletsOK,
       ChunksOK, FreshOK, WritingOK

LEMMA CrashInv ==
  ASSUME Inv, Crash
  PROVE  Inv'
<1>1. TypeOK'
  BY EmptySeq DEF Inv, TypeOK, Crash, disk, Phases
<1> QED
  BY <1>1 DEF Inv, Crash, disk, RefsResolve, GenerationsOK, TurnOK, PendingOK, BulletsOK,
       ChunksOK, FreshOK, WritingOK

LEMMA RestoreInv ==
  ASSUME Inv, Restore
  PROVE  Inv'
<1>1. Plain(live) \in Seq(Bullets)
  BY PlainRows DEF Inv, TypeOK
<1>2. TypeOK'
  BY <1>1 DEF Inv, TypeOK, Restore, disk, Phases
<1>3. PendingOK'
  BY DEF Inv, TypeOK, PendingOK, Restore, disk
<1>4. GenerationsOK'
  BY DEF Inv, TypeOK, GenerationsOK, Restore, disk
<1> QED
  BY <1>2, <1>3, <1>4 DEF Inv, Restore, disk, RefsResolve, TurnOK, BulletsOK,
       ChunksOK, FreshOK, WritingOK

LEMMA StutterInv ==
  ASSUME Inv, UNCHANGED vars
  PROVE  Inv'
<1>1. TypeOK'
  BY DEF Inv, TypeOK, vars, memory, disk
<1>2. WritingOK'
  BY DEF Inv, WritingOK, Old, vars, memory, disk
<1> QED
  BY <1>1, <1>2 DEF Inv, vars, memory, disk, RefsResolve, GenerationsOK, TurnOK, PendingOK,
       BulletsOK, ChunksOK, FreshOK

\* The invariant is inductive.
THEOREM InvariantHolds == Spec => []Inv
<1>1. Inv /\ [Next]_vars => Inv'
  <2> SUFFICES ASSUME Inv, [Next]_vars PROVE Inv'
    OBVIOUS
  <2> QED
    BY RecordTurnInv, AppendInv, MirrorInv, DemoteInv, FlushChunkInv, SummarizeInv,
       SummarizeRaisesInv, WriteBulletInv, SupersedeInv, ClearPendingInv, CrashInv,
       RestoreInv, StutterInv DEF Next, Compact
<1> QED
  BY InitInv, <1>1, PTL DEF Spec

-----------------------------------------------------------------------------
(* What follows from it *)

\* Every variable keeps its type (the state of the queue object and of the
\* tables it writes).
THEOREM TypesHold == Spec => []TypeOK
BY InvariantHolds, PTL DEF Inv

\* A live bullet never cites a chunk that is not stored (store.py hash_refs).
THEOREM CitationsResolve == Spec => []RefsResolve
BY InvariantHolds, PTL DEF Inv

\* Between two calls the queue object and the file agree (queue.py _restore).
THEOREM QueueIsMirrored == Spec => []FileMirrorsQueue
<1>1. Inv => FileMirrorsQueue
  BY DEF Inv, PendingOK, BulletsOK, FileMirrorsQueue
<1> QED
  BY <1>1, InvariantHolds, PTL

\* current_view covers whatever the file can give back.
THEOREM ViewIsComplete == Spec => []ViewCoversFile
<1>1. Inv => ViewCoversFile
  <2> SUFFICES ASSUME Inv, pc # "down"
               PROVE  Recoverable \subseteq ItemsOf(x) \cup ItemsOf(yRaw) \cup RefsOf(yBullets)
    BY DEF ViewCoversFile
  <2> USE DEF Inv
  <2>1. /\ live \in Seq(Rows) /\ pending.x \in Seq(Items) /\ pending.y \in Seq(Items)
        /\ ItemsOf(<<>>) = {}
    BY DEF TypeOK, ItemsOf
  <2>2. CASE pc = "idle"
    <3>1. pending.x = x /\ pending.y = yRaw /\ yBullets = Plain(live)
      BY <2>2 DEF PendingOK, BulletsOK
    <3> QED
      BY <2>1, <3>1, PlainRows DEF Recoverable
  <2>3. CASE pc = "mirror"
    <3>1. turn \in Seq(Items) /\ turn # <<>>
      BY <2>3 DEF TypeOK, TurnOK
    <3>2. x = Append(pending.x, Head(turn)) /\ pending.y = yRaw /\ yBullets = Plain(live)
      BY <2>3 DEF PendingOK, BulletsOK
    <3>3. ItemsOf(pending.x) \subseteq ItemsOf(x)
      <4>1. Head(turn) \in Items
        BY <3>1
      <4>2. /\ DOMAIN pending.x = 1..Len(pending.x) /\ Len(pending.x) \in Nat
            /\ DOMAIN x = 1..(Len(pending.x) + 1)
            /\ \A k \in 1..Len(pending.x) : x[k] = pending.x[k]
        BY <2>1, <3>2, <4>1, AppendProperties, LenProperties
      <4>3. DOMAIN pending.x \subseteq DOMAIN x
        BY <4>2
      <4> QED
        BY <4>2, <4>3 DEF ItemsOf
    <3> QED
      BY <2>1, <3>2, <3>3, PlainRows DEF Recoverable
  <2>4. CASE pc = "demote"
    <3>1. yRaw = pending.y \o pending.x /\ yBullets = Plain(live)
      BY <2>4 DEF PendingOK, BulletsOK
    <3>2. ItemsOf(yRaw) = ItemsOf(pending.y) \cup ItemsOf(pending.x)
      BY <2>1, <3>1, ConcatElements
    <3> QED
      BY <2>1, <3>1, <3>2, PlainRows DEF Recoverable
  <2>5. CASE pc \in {"flush", "write", "clear"}
    <3>1. pending.x = <<>> /\ pending.y = yRaw
      BY <2>5 DEF PendingOK
    <3>2. RefsOf(live) \subseteq RefsOf(yBullets) \cup ItemsOf(yRaw)
      <4>1. CASE pc = "flush"
        BY <2>1, <4>1, PlainRows DEF BulletsOK
      <4>2. CASE pc = "write"
        BY <4>2 DEF WritingOK, FreshOK
      <4>3. CASE pc = "clear"
        BY <2>1, <4>3, PlainRows DEF BulletsOK, FreshOK
      <4> QED
        BY <2>5, <4>1, <4>2, <4>3
    <3> QED
      BY <2>1, <3>1, <3>2 DEF Recoverable
  <2> QED
    BY <2>2, <2>3, <2>4, <2>5 DEF TypeOK, Phases
<1> QED
  BY <1>1, InvariantHolds, PTL

\* Superseding a generation retires exactly the older bullets (store.py
\* latest_generation).
THEOREM GenerationsAreFresh == Spec => []NoGenerationReused
<1>1. Inv => NoGenerationReused
  <2> SUFFICES ASSUME Inv, pc = "write", NEW k \in DOMAIN live, live[k].gen >= generation
               PROVE  k > Len(live) - (step - 1)
    BY DEF NoGenerationReused
  <2>1. live \in Seq(Rows) /\ generation \in Nat /\ step \in Nat
    BY DEF Inv, TypeOK
  <2>2. live[k].gen \in Nat /\ k \in Nat /\ Len(live) \in Nat
    BY <2>1, RowTypes, LenProperties
  <2>3. ~(k <= Old)
    BY <2>1, <2>2 DEF Inv, WritingOK
  <2> QED
    BY <2>1, <2>2, <2>3 DEF Old
<1> QED
  BY <1>1, InvariantHolds, PTL

\* The queue object, the file and the view agree at every point of every
\* compaction: the four of them together (queue.py flush and _restore).
THEOREM QueueIsSound == Spec => []QueueInv
BY CitationsResolve, QueueIsMirrored, ViewIsComplete, GenerationsAreFresh, PTL DEF QueueInv

-----------------------------------------------------------------------------
(* The file remembers: refinement of Remembered *)

\* What a step does to the two sets a file promises to keep.
Verbatims == ItemsOf(pending.x) \cup ItemsOf(pending.y)
Adds(i)   == /\ Recoverable' = Recoverable \cup {i}
             /\ WordsHeld' = WordsHeld \cup ({i} \cap Yours)
SameWords == Reabstract => WordsHeld' = WordsHeld

LEMMA WordsHeldIs == WordsHeld = (Verbatims \cap Yours) \cup WordsIn(live)
BY DEF WordsHeld, Verbatims, WordsIn

LEMMA MirrorAdds ==
  ASSUME Inv, Mirror
  PROVE  \E i \in Items : Adds(i)
<1>1. turn \in Seq(Items) /\ turn # <<>>
  BY DEF Inv, TypeOK, TurnOK, Mirror
<1>2. Head(turn) \in Items
  BY <1>1
<1>3. /\ pending.x \in Seq(Items)
      /\ pending'.x = Append(pending.x, Head(turn)) /\ pending'.y = pending.y
      /\ live' = live /\ chunks' = chunks
  BY DEF Inv, TypeOK, Mirror
<1>4. ItemsOf(pending'.x) = ItemsOf(pending.x) \cup {Head(turn)}
  <2>1. /\ DOMAIN pending.x = 1..Len(pending.x) /\ Len(pending.x) \in Nat
        /\ DOMAIN pending'.x = 1..(Len(pending.x) + 1)
        /\ \A k \in 1..Len(pending.x) : pending'.x[k] = pending.x[k]
        /\ pending'.x[Len(pending.x) + 1] = Head(turn)
    BY <1>2, <1>3, AppendProperties, LenProperties
  <2>2. DOMAIN pending'.x = DOMAIN pending.x \cup {Len(pending.x) + 1}
    BY <2>1
  <2> QED
    BY <2>1, <2>2 DEF ItemsOf
<1>5. Verbatims' = Verbatims \cup {Head(turn)}
  BY <1>3, <1>4 DEF Verbatims
<1>6. Recoverable' = Recoverable \cup {Head(turn)}
  BY <1>3, <1>5 DEF Recoverable, Verbatims
<1>7. WordsHeld' = WordsHeld \cup ({Head(turn)} \cap Yours)
  <2>1. WordsHeld' = (Verbatims' \cap Yours) \cup WordsIn(live')
    BY DEF WordsHeld, Verbatims, WordsIn
  <2> QED
    BY <1>3, <1>5, <2>1, WordsHeldIs
<1> QED
  BY <1>2, <1>6, <1>7 DEF Adds

\* A step that leaves the file's rows alone.
LEMMA FileUnchanged ==
  ASSUME UNCHANGED <<pending, chunks, live>>
  PROVE  Recoverable' = Recoverable /\ SameWords
BY DEF Recoverable, WordsHeld, SameWords

LEMMA DemoteKeeps ==
  ASSUME Inv, Demote
  PROVE  Recoverable' = Recoverable /\ SameWords
<1>1. /\ pending.x \in Seq(Items) /\ pending.y \in Seq(Items)
      /\ pending' = [x |-> <<>>, y |-> pending.y \o pending.x]
      /\ live' = live /\ chunks' = chunks
  BY DEF Inv, TypeOK, Demote
<1>2. ItemsOf(pending'.x) = {} /\ ItemsOf(pending'.y) = Verbatims
  <2>1. ItemsOf(<<>>) = {}
    BY DEF ItemsOf
  <2> QED
    BY <1>1, <2>1, ConcatElements DEF Verbatims
<1>3. Verbatims' = Verbatims
  BY <1>2 DEF Verbatims
<1> QED
  BY <1>1, <1>3 DEF Recoverable, WordsHeld, Verbatims, SameWords

LEMMA FlushChunkKeeps ==
  ASSUME Inv, FlushChunk
  PROVE  Recoverable' = Recoverable /\ SameWords
<1>1. /\ pending' = pending /\ live' = live /\ chunks' = chunks \cup {yRaw[step]}
      /\ pending.y = yRaw
  BY DEF Inv, FlushChunk, PendingOK
<1>2. yRaw[step] \in ItemsOf(yRaw)
  BY LenProperties DEF Inv, TypeOK, FlushChunk, ItemsOf
<1> QED
  BY <1>1, <1>2 DEF Recoverable, WordsHeld, SameWords

\* Writing a bullet makes nothing new reachable and nothing unreachable: what
\* it cites is still in tier y or was cited by an older bullet already.
LEMMA WriteBulletKeeps ==
  ASSUME Inv, WriteBullet
  PROVE  Recoverable' = Recoverable /\ SameWords
<1> USE DEF Inv
<1>1. /\ pc = "write" /\ step \in 1..Len(fresh) /\ DOMAIN fresh = 1..Len(fresh)
      /\ pending' = pending /\ chunks' = chunks
      /\ pending.y = yRaw /\ live \in Seq(Rows) /\ fresh \in Seq(Bullets)
  BY LenProperties DEF TypeOK, WriteBullet, PendingOK
<1> DEFINE row == [text |-> fresh[step].text, refs |-> fresh[step].refs, gen |-> generation]
<1>2. live' = Append(live, row)
  BY DEF WriteBullet
<1>3. row \in Rows
  <2>1. fresh[step] \in Bullets
    BY <1>1, ElementOfSeq
  <2> QED
    BY <2>1 DEF Bullets, Rows, TypeOK
<1>4. row.refs = fresh[step].refs /\ row.text = fresh[step].text
  OBVIOUS
<1> HIDE DEF row
<1>5. ItemsOf(live') = ItemsOf(live) \cup {row}
  <2>1. /\ DOMAIN live = 1..Len(live) /\ Len(live) \in Nat
        /\ DOMAIN live' = 1..(Len(live) + 1)
        /\ \A k \in 1..Len(live) : live'[k] = live[k]
        /\ live'[Len(live) + 1] = row
    BY <1>1, <1>2, <1>3, AppendProperties, LenProperties
  <2>2. DOMAIN live' = DOMAIN live \cup {Len(live) + 1}
    BY <2>1
  <2> QED
    BY <2>1, <2>2 DEF ItemsOf
<1>6. RefsOf(live') = RefsOf(live) \cup fresh[step].refs
  BY <1>4, <1>5, RefsByElement
<1>7. fresh[step].refs \subseteq RefsOf(fresh)
  BY <1>1 DEF RefsOf
<1>8. RefsOf(fresh) \subseteq RefsOf(live) \cup ItemsOf(yRaw)
  BY <1>1 DEF FreshOK, WritingOK
<1>9. Recoverable' = Recoverable
  BY <1>1, <1>6, <1>7, <1>8 DEF Recoverable
<1>10. ASSUME Reabstract
       PROVE  WordsHeld' = WordsHeld
  <2>1. \A s : WordsIn(s) = {e.text : e \in ItemsOf(s)} \cap Yours
    BY DEF WordsIn, ItemsOf
  <2>2. WordsIn(live') = WordsIn(live) \cup ({fresh[step].text} \cap Yours)
    BY <1>4, <1>5, <2>1
  <2>3. {fresh[step].text} \cap Yours \subseteq WordsIn(fresh)
    BY <1>1 DEF WordsIn
  <2>4. WordsIn(fresh) \subseteq WordsIn(live) \cup (ItemsOf(yRaw) \cap Yours)
    BY <1>1, <1>10 DEF FreshOK, WritingOK
  <2>5. ItemsOf(yRaw) \subseteq Verbatims /\ Verbatims' = Verbatims
    BY <1>1 DEF Verbatims
  <2>6. WordsHeld' = (Verbatims' \cap Yours) \cup WordsIn(live')
    BY DEF WordsHeld, Verbatims, WordsIn
  <2> QED
    BY <2>2, <2>3, <2>4, <2>5, <2>6, WordsHeldIs
<1> QED
  BY <1>9, <1>10 DEF SameWords

\* Retiring the old generation loses nothing: the new one cites all of it.
LEMMA SupersedeKept ==
  ASSUME Inv, Supersede
  PROVE  Recoverable' = Recoverable /\ SameWords
<1> USE DEF Inv
<1>1. /\ pc = "write" /\ step = Len(fresh) + 1 /\ pending' = pending /\ chunks' = chunks
      /\ pending.y = yRaw
  BY DEF Supersede, PendingOK
<1>2. live' \in Seq(Rows) /\ Plain(live') = fresh
  BY <1>1, SupersedeKeeps DEF Supersede
<1>3. RefsOf(live') = RefsOf(fresh) /\ WordsIn(live') = WordsIn(fresh)
  BY <1>2, PlainRows
<1>4. RefsOf(live) \subseteq RefsOf(fresh) /\ RefsOf(fresh) \subseteq RefsOf(live) \cup ItemsOf(yRaw)
  BY <1>1 DEF FreshOK, WritingOK
<1>5. Recoverable' = Recoverable
  BY <1>1, <1>3, <1>4 DEF Recoverable
<1>6. ASSUME Reabstract
      PROVE  WordsHeld' = WordsHeld
  <2>1. /\ WordsIn(live) \subseteq WordsIn(fresh)
        /\ WordsIn(fresh) \subseteq WordsIn(live) \cup (ItemsOf(yRaw) \cap Yours)
    BY <1>1, <1>6 DEF FreshOK, WritingOK
  <2>2. ItemsOf(yRaw) \subseteq Verbatims /\ Verbatims' = Verbatims
    BY <1>1 DEF Verbatims
  <2>3. WordsHeld' = (Verbatims' \cap Yours) \cup WordsIn(live')
    BY DEF WordsHeld, Verbatims, WordsIn
  <2> QED
    BY <1>3, <2>1, <2>2, <2>3, WordsHeldIs
<1> QED
  BY <1>5, <1>6 DEF SameWords

\* Clearing tier y loses nothing: every row of it is a stored chunk that the
\* live bullets cite, and the person's own rows are bullets word for word.
LEMMA ClearPendingKeeps ==
  ASSUME Inv, ClearPending
  PROVE  Recoverable' = Recoverable /\ SameWords
<1> USE DEF Inv
<1>1. /\ pc = "clear" /\ pending = [x |-> <<>>, y |-> yRaw]
      /\ pending' = [x |-> <<>>, y |-> <<>>] /\ live' = live /\ chunks' = chunks
  BY DEF ClearPending, PendingOK
<1>2. live \in Seq(Rows) /\ Plain(live) = fresh /\ ItemsOf(<<>>) = {}
  BY <1>1 DEF TypeOK, BulletsOK, ItemsOf
<1>3. RefsOf(live) = RefsOf(fresh) /\ WordsIn(live) = WordsIn(fresh)
  BY <1>2, PlainRows
<1>4. ItemsOf(yRaw) \subseteq chunks /\ ItemsOf(yRaw) \subseteq RefsOf(live)
  BY <1>1, <1>3 DEF ChunksOK, FreshOK
<1>5. Recoverable' = Recoverable
  BY <1>1, <1>2, <1>4 DEF Recoverable
<1>6. ASSUME Reabstract
      PROVE  WordsHeld' = WordsHeld
  <2>1. ItemsOf(yRaw) \cap Yours \subseteq WordsIn(live)
    BY <1>1, <1>3, <1>6 DEF FreshOK
  <2>2. Verbatims = ItemsOf(yRaw) /\ Verbatims' = {}
    BY <1>1, <1>2 DEF Verbatims
  <2>3. WordsHeld' = (Verbatims' \cap Yours) \cup WordsIn(live')
    BY DEF WordsHeld, Verbatims, WordsIn
  <2> QED
    BY <1>1, <2>1, <2>2, <2>3, WordsHeldIs
<1> QED
  BY <1>5, <1>6 DEF SameWords

\* Only mirroring a message changes what the file holds, by that message.
LEMMA StepKeeps ==
  ASSUME Inv, [Next]_vars
  PROVE  \/ Recoverable' = Recoverable /\ SameWords
         \/ \E i \in Items : Adds(i)
<1>1. ASSUME NEW sides \in Turns, RecordTurn(sides)
      PROVE  Recoverable' = Recoverable /\ SameWords
  BY <1>1, FileUnchanged DEF RecordTurn, disk
<1>2. CASE Append1
  BY <1>2, FileUnchanged DEF Append1, disk
<1>3. ASSUME NEW reply \in Replies, Summarize(reply)
      PROVE  Recoverable' = Recoverable /\ SameWords
  BY <1>3, FileUnchanged DEF Summarize, disk
<1>4. CASE SummarizeRaises
  BY <1>4, FileUnchanged DEF SummarizeRaises, disk
<1>5. CASE Crash
  BY <1>5, FileUnchanged DEF Crash, disk
<1>6. CASE Restore
  BY <1>6, FileUnchanged DEF Restore, disk
<1>7. CASE UNCHANGED vars
  BY <1>7, FileUnchanged DEF vars, disk
<1> QED
  BY <1>1, <1>2, <1>3, <1>4, <1>5, <1>6, <1>7, MirrorAdds, DemoteKeeps, FlushChunkKeeps,
     WriteBulletKeeps, SupersedeKept, ClearPendingKeeps DEF Next, Compact

\* What the file can give back only ever grows, one message at a time,
\* whatever the summariser answers and wherever the process stops: the queue
\* over its file implements Remembered.
THEOREM FileRemembers == Spec => NothingForgotten
<1>1. Init => Memory!Init
  BY DEF Init, Memory!Init, Recoverable, ItemsOf, RefsOf
<1>2. Inv /\ [Next]_vars => [Memory!Next]_Recoverable
  BY StepKeeps DEF Adds, Memory!Next, Memory!Say
<1> QED
  BY <1>1, <1>2, InvariantHolds, PTL DEF Spec, NothingForgotten, Memory!Spec

\* With the default compaction, the same holds of the person's own words, word
\* for word (queue.py PROTECT_PREFIX).
THEOREM FileHoldsYourWords == Reabstract => (Spec => WordsNeverParaphrased)
<1> SUFFICES ASSUME Reabstract
             PROVE  Spec => WordsNeverParaphrased
  OBVIOUS
<1>1. Init => Words!Init
  BY DEF Init, Words!Init, WordsHeld, ItemsOf
<1>2. Inv /\ [Next]_vars => [Words!Next]_WordsHeld
  <2> SUFFICES ASSUME Inv, [Next]_vars
               PROVE  WordsHeld' = WordsHeld \/ \E i \in Yours : WordsHeld' = WordsHeld \cup {i}
    BY DEF Words!Next, Words!Say
  <2>1. ASSUME NEW i \in Items, Adds(i)
        PROVE  \/ WordsHeld' = WordsHeld
               \/ i \in Yours /\ WordsHeld' = WordsHeld \cup {i}
    BY <2>1 DEF Adds
  <2> QED
    BY <2>1, StepKeeps DEF SameWords
<1> QED
  BY <1>1, <1>2, InvariantHolds, PTL DEF Spec, WordsNeverParaphrased, Words!Spec

-----------------------------------------------------------------------------
(* The lesson bank: what holds of it whoever is learning *)

\* What a thread is in the middle of.
Learner ==
  [at : RunPhases, read : SUBSET LessonTexts, kind : Kinds, todo : Seq(LessonTexts),
   notes : Seq([kind : Apps, todo : Seq(LessonTexts \ Payment)]), offered : Nat,
   existing : SUBSET LessonTexts, kept : SUBSET (Kinds \X LessonTexts), stored : BOOLEAN,
   doomed : SUBSET (Kinds \X LessonTexts)]

\* Whose lessons a kind is for.
May(a, k) == IF k = KIND THEN Does[a] # "phone" ELSE Does[a] = "phone"

\* The rows: each under the hash of its kind and text, no text twice in a kind.
Shelved ==
  /\ bank \in [Kinds -> Seq(StoredRows)]
  /\ \A k \in Kinds : \A i \in 1..Len(bank[k]) :
       /\ bank[k][i].hash = <<k, bank[k][i].text>>
       /\ May(bank[k][i].by, k)
       /\ k \in Apps => bank[k][i].text \notin Payment
  /\ \A k \in Kinds : \A i, j \in 1..Len(bank[k]) : bank[k][i].text = bank[k][j].text => i = j

\* A thread has the kind of what it learns, no payment among notes, and has
\* read, while it records, what it banked under the kind itself.
Learns(a) ==
  /\ run[a].at = "out" => run[a] = Idle
  /\ run[a].at \in {"running", "distil"} =>
       run[a].kind = KIND /\ run[a].notes = <<>> /\ run[a].offered = 0 /\ Does[a] # "import"
  /\ run[a].notes # <<>> => Does[a] = "phone"
  /\ run[a].at \in {"read", "record", "prune", "pruning"} =>
       /\ May(a, run[a].kind)
       /\ run[a].kind \in Apps => run[a].todo \in Seq(LessonTexts \ Payment)
  /\ run[a].at \in {"prune", "pruning"} => run[a].stored /\ run[a].kind \in Apps
  /\ run[a].stored => run[a].at \in {"record", "prune", "pruning", "raised", "dead"}
  /\ run[a].at = "record" =>
       \A i \in 1..Len(bank[run[a].kind]) :
         bank[run[a].kind][i].by = a /\ bank[run[a].kind][i].embedded
           => bank[run[a].kind][i].text \in run[a].existing

\* The host knows every thread that learns, and what it waited for.
Ends == {"done", "raised", "dead"}
Awaited ==
  /\ learning \subseteq Actors /\ Background \subseteq learning
  /\ closing.at \in {"open", "waiting", "closed"}
  /\ DOMAIN closing = {"at", "waits", "owed", "landed"}
  /\ closing.at = "open" => closing.owed = {}
  /\ closing.at = "waiting" => closing.owed \subseteq closing.waits
  /\ \A a \in closing.owed : a \in Actors /\ (a \in Background \/ run[a].at \in Ends)
  /\ \A a \in Actors : run[a].at = "dead" => closing.at = "closed"
  /\ closing.at = "closed" => \A a \in closing.owed : a \in Background => ~closing.landed
  /\ LossIsTold

\* What stays of an app's notes when the threads of A have pruned it.
Pruning(p) == {a \in Actors : run[a].at = "pruning" /\ run[a].kind = p}
Hashes(p) == {bank[p][i].hash : i \in 1..Len(bank[p])}
Staying(p, A) == Hashes(p) \ UNION {run[a].doomed : a \in A}
Few ==
  \A p \in Apps : \A A \in SUBSET Pruning(p) :
    Cardinality(Staying(p, A)) > MAX_NOTES_PER_APP => \E c \in Actors \ A : Unpruned(c, p)

Bankers ==
  /\ run \in [Actors -> Learner] /\ Shelved /\ OneRunRepeatsNothing
  /\ \A a \in Actors : Learns(a)
  /\ Awaited /\ Few

\* What is left of a kind is in places of its own.
Part(k) ==
  \E at \in [1..Len(bank'[k]) -> 1..Len(bank[k])] :
    /\ \A n \in 1..Len(bank'[k]) : bank'[k][n] = bank[k][at[n]]
    /\ \A m, n \in 1..Len(bank'[k]) : at[m] = at[n] => m = n

\* Rows that are taken leave the others as they were.
LEMMA ShrinkKeeps ==
  ASSUME Shelved, OneRunRepeatsNothing, bank' \in [Kinds -> Seq(StoredRows)], \A k \in Kinds : Part(k)
  PROVE  /\ Shelved' /\ OneRunRepeatsNothing'
         /\ \A k \in Kinds : Hashes(k)' \subseteq Hashes(k)
         /\ \A k \in Kinds : \A i \in 1..Len(bank'[k]) : \E j \in 1..Len(bank[k]) : bank'[k][i] = bank[k][j]
<1> SUFFICES ASSUME NEW k \in Kinds
             PROVE  /\ \A i \in 1..Len(bank'[k]) :
                         /\ bank'[k][i].hash = <<k, bank'[k][i].text>>
                         /\ May(bank'[k][i].by, k)
                         /\ k \in Apps => bank'[k][i].text \notin Payment
                         /\ \E j \in 1..Len(bank[k]) : bank'[k][i] = bank[k][j]
                    /\ \A i, j \in 1..Len(bank'[k]) : bank'[k][i].text = bank'[k][j].text => i = j
                    /\ \A i, j \in 1..Len(bank'[k]) :
                         /\ i # j /\ bank'[k][i].by = bank'[k][j].by
                         /\ bank'[k][i].embedded /\ bank'[k][j].embedded
                         => ~Alike(bank'[k][i].text, bank'[k][j].text)
  <2>1. \A kk \in Kinds : DOMAIN bank'[kk] = 1..Len(bank'[kk])
    BY LenProperties
  <2>2. OneRunRepeatsNothing'
    BY <2>1 DEF OneRunRepeatsNothing
  <2>3. \A kk \in Kinds : Hashes(kk)' \subseteq Hashes(kk)
    BY DEF Hashes
  <2> QED BY <2>2, <2>3 DEF Shelved, May
<1>1. PICK at \in [1..Len(bank'[k]) -> 1..Len(bank[k])] :
        /\ \A n \in 1..Len(bank'[k]) : bank'[k][n] = bank[k][at[n]]
        /\ \A m, n \in 1..Len(bank'[k]) : at[m] = at[n] => m = n
  BY DEF Part
<1>2. \A n \in 1..Len(bank'[k]) : at[n] \in 1..Len(bank[k])
  OBVIOUS
<1>3. \A i \in 1..Len(bank'[k]) :
        /\ bank'[k][i].hash = <<k, bank'[k][i].text>>
        /\ May(bank'[k][i].by, k)
        /\ k \in Apps => bank'[k][i].text \notin Payment
        /\ \E j \in 1..Len(bank[k]) : bank'[k][i] = bank[k][j]
  BY <1>1, <1>2 DEF Shelved
<1>4. \A i, j \in 1..Len(bank'[k]) : bank'[k][i].text = bank'[k][j].text => i = j
  BY <1>1, <1>2 DEF Shelved
<1>5. DOMAIN bank[k] = 1..Len(bank[k])
  BY LenProperties DEF Shelved
<1>6. \A i, j \in 1..Len(bank'[k]) :
        /\ i # j /\ bank'[k][i].by = bank'[k][j].by
        /\ bank'[k][i].embedded /\ bank'[k][j].embedded
        => ~Alike(bank'[k][i].text, bank'[k][j].text)
  <2> SUFFICES ASSUME NEW i \in 1..Len(bank'[k]), NEW j \in 1..Len(bank'[k]), i # j,
                      bank'[k][i].by = bank'[k][j].by, bank'[k][i].embedded, bank'[k][j].embedded
               PROVE  ~Alike(bank'[k][i].text, bank'[k][j].text)
    OBVIOUS
  <2>1. /\ at[i] \in 1..Len(bank[k]) /\ at[j] \in 1..Len(bank[k]) /\ at[i] # at[j]
        /\ bank'[k][i] = bank[k][at[i]] /\ bank'[k][j] = bank[k][at[j]]
    BY <1>1
  <2> QED BY <1>5, <2>1 DEF OneRunRepeatsNothing
<1> QED BY <1>3, <1>4, <1>6

\* One kind that loses all rows but those of T.
Cut(k, T) == bank' = [bank EXCEPT ![k] = AtPositions(@, T)]

LEMMA PartsOf ==
  ASSUME Shelved, NEW k \in Kinds, NEW T \in SUBSET (1..Len(bank[k])),
         Cut(k, T)
  PROVE  /\ bank' \in [Kinds -> Seq(StoredRows)]
         /\ \A kk \in Kinds : Part(kk)
         /\ \A i \in 1..Len(bank'[k]) : \E j \in T : bank'[k][i] = bank[k][j]
<1>1. bank \in [Kinds -> Seq(StoredRows)]
  BY DEF Shelved
<1>2. /\ AtPositions(bank[k], T) \in Seq(StoredRows) /\ Len(AtPositions(bank[k], T)) = Cardinality(T)
      /\ \E at \in [1..Cardinality(T) -> T] :
           /\ \A n \in 1..Cardinality(T) : AtPositions(bank[k], T)[n] = bank[k][at[n]]
           /\ \A m, n \in 1..Cardinality(T) : at[m] = at[n] => m = n
  <2> DEFINE rows == bank[k]
  <2>1. rows \in Seq(StoredRows) /\ T \in SUBSET (1..Len(rows))
    BY <1>1
  <2> HIDE DEF StoredRows, rows
  <2>2. AtPositions(rows, T) \in Seq(StoredRows) /\ Len(AtPositions(rows, T)) = Cardinality(T)
    BY <2>1, PlacesAre
  <2>3. \E at \in [1..Cardinality(T) -> T] :
           /\ \A n \in 1..Cardinality(T) : AtPositions(rows, T)[n] = rows[at[n]]
           /\ \A m, n \in 1..Cardinality(T) : at[m] = at[n] => m = n
    BY <2>1, PlacesAre
  <2> QED BY <2>2, <2>3 DEF rows
<1> HIDE DEF StoredRows
<1>3. bank' \in [Kinds -> Seq(StoredRows)] /\ bank'[k] = AtPositions(bank[k], T)
      /\ \A kk \in Kinds : kk # k => bank'[kk] = bank[kk]
  BY <1>1, <1>2 DEF Cut
<1>4. PICK at \in [1..Cardinality(T) -> T] :
           /\ \A n \in 1..Cardinality(T) : AtPositions(bank[k], T)[n] = bank[k][at[n]]
           /\ \A m, n \in 1..Cardinality(T) : at[m] = at[n] => m = n
  BY <1>2
<1>5. Part(k)
  <2>0. Len(bank'[k]) = Cardinality(T)
    BY <1>2, <1>3
  <2>1. at \in [1..Len(bank'[k]) -> 1..Len(bank[k])]
    BY <2>0, <1>4
  <2>2. /\ \A n \in 1..Len(bank'[k]) : bank'[k][n] = bank[k][at[n]]
        /\ \A m, n \in 1..Len(bank'[k]) : at[m] = at[n] => m = n
    BY <2>0, <1>3, <1>4
  <2> QED BY <2>1, <2>2 DEF Part
<1>6. ASSUME NEW kk \in Kinds, kk # k PROVE Part(kk)
  <2> DEFINE g == [n \in 1..Len(bank[kk]) |-> n]
  <2>1. g \in [1..Len(bank'[kk]) -> 1..Len(bank[kk])] /\ \A n \in 1..Len(bank[kk]) : g[n] = n
    BY <1>3, <1>6
  <2> HIDE DEF g
  <2> QED BY <1>3, <1>6, <2>1 DEF Part
<1>7. \A i \in 1..Len(bank'[k]) : \E j \in T : bank'[k][i] = bank[k][j]
  <2> TAKE i \in 1..Len(bank'[k])
  <2>1. i \in 1..Cardinality(T)
    BY <1>2, <1>3
  <2>2. at[i] \in T
    BY <1>4, <2>1
  <2>3. bank'[k][i] = bank[k][at[i]]
    BY <1>3, <1>4, <2>1
  <2> QED BY <2>2, <2>3
<1> QED BY <1>3, <1>5, <1>6, <1>7

-----------------------------------------------------------------------------
(* Steps that leave the bank *)

\* A thread that is in the middle of nothing.
LEMMA IdleIs == Idle \in Learner
<1>1. <<>> \in Seq(LessonTexts) /\ <<>> \in Seq([kind : Apps, todo : Seq(LessonTexts \ Payment)])
  BY EmptySeq
<1>2. KIND \in Kinds /\ "out" \in RunPhases
  BY DEF Kinds, RunPhases
<1> QED BY <1>1, <1>2 DEF Idle, Learner

\* Only who banked a row must know of it.
LEMMA LearnsStays ==
  ASSUME run \in [Actors -> Learner], NEW b \in Actors, Learns(b), run'[b] = run[b],
         \A k \in Kinds : \A i \in 1..Len(bank'[k]) :
           bank'[k][i].by = b => \E j \in 1..Len(bank[k]) : bank'[k][i] = bank[k][j]
  PROVE  Learns(b)'
<1>1. run[b].kind \in Kinds
  BY DEF Learner
<1>2. run[b].at = "record" =>
       \A i \in 1..Len(bank'[run[b].kind]) :
         bank'[run[b].kind][i].by = b /\ bank'[run[b].kind][i].embedded
           => bank'[run[b].kind][i].text \in run[b].existing
  BY <1>1 DEF Learns
<1> QED BY <1>2 DEF Learns, May

\* A thread that moves on, and is known if it learns.
LEMMA AwaitedMoves ==
  ASSUME Awaited, run \in [Actors -> Learner], NEW a \in Actors, closing' = closing,
         \A b \in Actors \ {a} : run'[b] = run[b],
         run[a].at \notin Ends, run'[a].at # "dead",
         learning' \subseteq Actors, learning \ {a} \subseteq learning',
         a \in Background' => a \in learning',
         a \in Background => a \in Background' \/ run'[a].at \in Ends
  PROVE  Awaited'
<1>1. \A b \in Actors \ {a} : (b \in Background' <=> b \in Background)
  BY DEF Background
<1>2. Background' \subseteq learning'
  BY <1>1 DEF Awaited, Background
<1>3. \A b \in closing.owed : b \in Actors /\ (b \in Background' \/ run'[b].at \in Ends)
  BY <1>1 DEF Awaited
<1>4. \A b \in Actors : run'[b].at = "dead" => closing.at = "closed"
  BY DEF Awaited
<1>5. closing.at = "closed" => \A b \in closing.owed : b \in Background' => ~closing.landed
  BY <1>1 DEF Awaited
<1>6. LossIsTold'
  BY DEF Awaited, LossIsTold
<1> QED BY <1>2, <1>3, <1>4, <1>5, <1>6 DEF Awaited

\* What a kind is found again by is a finite set,
LEMMA HashesAreFinite ==
  ASSUME Shelved, NEW k \in Kinds
  PROVE  IsFiniteSet(Hashes(k)) /\ Cardinality(Hashes(k)) \in Nat
<1> DEFINE f == [i \in 1..Len(bank[k]) |-> bank[k][i].hash]
<1>1. Len(bank[k]) \in Nat
  BY LenProperties DEF Shelved
<1>2. f \in Surjection(1..Len(bank[k]), Hashes(k))
  BY DEF Hashes, Surjection
<1>3. IsFiniteSet(1..Len(bank[k]))
  BY <1>1, FS_Interval
<1> QED BY <1>2, <1>3, FS_Surjection, FS_CardinalityType

\* and so is any part of it.
LEMMA FewerStay ==
  ASSUME Shelved, NEW k \in Kinds, NEW X, X \subseteq Hashes(k), NEW Y, Y \subseteq X
  PROVE  /\ IsFiniteSet(X) /\ IsFiniteSet(Y) /\ Cardinality(X) \in Nat /\ Cardinality(Y) \in Nat
         /\ Cardinality(Y) <= Cardinality(X)
<1>1. IsFiniteSet(Hashes(k))
  BY HashesAreFinite
<1>2. IsFiniteSet(X)
  BY <1>1, FS_Subset
<1>3. IsFiniteSet(Y) /\ Cardinality(Y) <= Cardinality(X)
  BY <1>2, FS_Subset
<1> QED BY <1>2, <1>3, FS_CardinalityType

\* A thread that is pruning nothing after its step, and that owes a pruning
\* still if it owed one, or added one.
LEMMA FewMoves ==
  ASSUME Few, Shelved, BankAssumption, run \in [Actors -> Learner], NEW a \in Actors,
         \A b \in Actors \ {a} : run'[b] = run[b], run'[a].at # "pruning",
         \A p \in Apps : /\ Unpruned(a, p) => Unpruned(a, p)'
                         /\ Hashes(p)' \subseteq Hashes(p) \/ Unpruned(a, p)'
  PROVE  Few'
<1> SUFFICES ASSUME NEW p \in Apps, NEW A \in SUBSET Pruning(p)',
                    Cardinality(Staying(p, A)') > MAX_NOTES_PER_APP
             PROVE  \E c \in Actors \ A : Unpruned(c, p)'
  BY DEF Few
<1>1. a \notin A /\ A \subseteq Pruning(p) /\ A \subseteq Actors
  BY DEF Pruning
<1>2. CASE Unpruned(a, p)'
  BY <1>1, <1>2
<1>3. CASE ~Unpruned(a, p)'
  <2>1. ~Unpruned(a, p) /\ Hashes(p)' \subseteq Hashes(p)
    BY <1>3
  <2>2. Staying(p, A)' \subseteq Staying(p, A)
    <3>1. \A b \in A : run'[b] = run[b]
      BY <1>1
    <3> QED BY <2>1, <3>1 DEF Staying
  <2>3. Cardinality(Staying(p, A)') <= Cardinality(Staying(p, A))
        /\ Cardinality(Staying(p, A)) \in Nat /\ Cardinality(Staying(p, A)') \in Nat
    <3>1. p \in Kinds /\ Staying(p, A) \subseteq Hashes(p)
      BY DEF Kinds, Staying
    <3> QED BY <2>2, <3>1, FewerStay
  <2>4. MAX_NOTES_PER_APP \in Nat
    BY DEF BankAssumption
  <2>5. PICK c \in Actors \ A : Unpruned(c, p)
    BY <1>1, <2>3, <2>4 DEF Few
  <2>6. c # a /\ Unpruned(c, p)'
    BY <2>1, <2>5 DEF Unpruned
  <2> QED BY <2>5, <2>6
<1> QED BY <1>2, <1>3

\* Nothing of the bank changes and thread a moves on.
LEMMA BankStays ==
  ASSUME bank' = bank
  PROVE  /\ \A k \in Kinds : Hashes(k)' = Hashes(k)
         /\ Shelved => Shelved'
         /\ OneRunRepeatsNothing => OneRunRepeatsNothing'
         /\ \A k \in Kinds : \A i \in 1..Len(bank'[k]) : \E j \in 1..Len(bank[k]) : bank'[k][i] = bank[k][j]
<1>1. \A k \in Kinds : Hashes(k)' = Hashes(k)
  BY DEF Hashes
<1>2. Shelved => Shelved'
  BY DEF Shelved, May
<1>3. OneRunRepeatsNothing => OneRunRepeatsNothing'
  BY DEF OneRunRepeatsNothing
<1> QED BY <1>1, <1>2, <1>3

\* A step of thread a that leaves the bank and owes what it owed.
LEMMA MovesKeep ==
  ASSUME Bankers, BankAssumption, NEW a \in Actors, bank' = bank, closing' = closing,
         run' \in [Actors -> Learner], \A b \in Actors \ {a} : run'[b] = run[b],
         Learns(a)',
         run[a].at \notin Ends, run'[a].at \notin {"dead", "pruning"},
         learning' \subseteq Actors, learning \ {a} \subseteq learning',
         a \in Background' => a \in learning',
         a \in Background => a \in Background' \/ run'[a].at \in Ends,
         \A p \in Apps : Unpruned(a, p) => Unpruned(a, p)'
  PROVE  Bankers'
<1>1. Shelved' /\ OneRunRepeatsNothing'
  BY BankStays DEF Bankers
<1>2. Awaited'
  BY AwaitedMoves DEF Bankers
<1>3. Few'
  <2>1. \A p \in Apps : Hashes(p)' \subseteq Hashes(p)
    BY DEF Hashes
  <2> QED BY <2>1, FewMoves DEF Bankers
<1>4. \A b \in Actors \ {a} : Learns(b)'
  BY BankStays, LearnsStays DEF Bankers
<1> QED BY <1>1, <1>2, <1>3, <1>4 DEF Bankers

\* A thread that only changes what it is at.
LEMMA PhaseMoves ==
  ASSUME run \in [Actors -> Learner], NEW a \in Actors, NEW at,
         at \in {"distil", "prune", "done"}, run' = [run EXCEPT ![a].at = at]
  PROVE  /\ run' \in [Actors -> Learner] /\ \A b \in Actors \ {a} : run'[b] = run[b]
         /\ run'[a].at = at /\ run'[a].kind = run[a].kind /\ run'[a].notes = run[a].notes
         /\ run'[a].offered = run[a].offered /\ run'[a].stored = run[a].stored
         /\ run'[a].todo = run[a].todo
<1> DEFINE r == [run[a] EXCEPT !.at = at]
<1>1. run' = [run EXCEPT ![a] = r]
  OBVIOUS
<1>2. at \in RunPhases
  BY DEF RunPhases
<1>3. r \in Learner
  BY <1>2 DEF Learner
<1>4. r.at = at /\ r.kind = run[a].kind /\ r.notes = run[a].notes /\ r.todo = run[a].todo
      /\ r.offered = run[a].offered /\ r.stored = run[a].stored
  BY DEF Learner
<1> HIDE DEF r
<1> QED BY <1>1, <1>3, <1>4

\* work's `finally`, in all its fields.
LEMMA LeaveIs ==
  ASSUME run \in [Actors -> Learner], NEW a \in Actors, NEW at \in {"done", "raised"}, Leave(a, at)
  PROVE  /\ run' \in [Actors -> Learner] /\ \A b \in Actors \ {a} : run'[b] = run[b]
         /\ run'[a].at = at /\ run'[a].kind = run[a].kind /\ run'[a].notes = <<>>
         /\ run'[a].stored <=> at = "raised" /\ run[a].stored
         /\ learning' = learning \ {a}
<1> DEFINE r == [Idle EXCEPT !.at = at, !.kind = run[a].kind, !.stored = at = "raised" /\ run[a].stored]
<1>1. /\ Idle \in Learner /\ run[a] \in Learner
  BY IdleIs
<1>2. /\ r \in Learner /\ r.at = at /\ r.kind = run[a].kind /\ r.notes = Idle.notes
      /\ r.stored <=> at = "raised" /\ run[a].stored
  BY <1>1 DEF Learner, RunPhases
<1>3. Idle.notes = <<>>
  BY DEF Idle
<1> HIDE DEF r
<1>4. run' = [run EXCEPT ![a] = r] /\ learning' = learning \ {a}
  BY DEF Leave, r
<1> QED BY <1>2, <1>3, <1>4

\* It is in the middle of nothing any more.
LEMMA LeaveLearns ==
  ASSUME run \in [Actors -> Learner], NEW a \in Actors, NEW at \in {"done", "raised"}, Leave(a, at)
  PROVE  Learns(a)'
  BY LeaveIs DEF Learns

\* A run that leaves with nothing owed, or that keeps what it owes.
LEMMA LeavingKeeps ==
  ASSUME Bankers, BankAssumption, NEW a \in Actors, NEW at \in {"done", "raised"}, Leave(a, at),
         bank' = bank, closing' = closing, run[a].at \notin Ends,
         run[a].at = "pruning" => FALSE,
         at = "done" => ~run[a].stored \/ run[a].kind \notin Apps
  PROVE  Bankers'
<1>1. /\ run' \in [Actors -> Learner] /\ \A b \in Actors \ {a} : run'[b] = run[b]
      /\ run'[a].at = at /\ run'[a].kind = run[a].kind
      /\ run'[a].stored <=> at = "raised" /\ run[a].stored
      /\ learning' = learning \ {a}
  BY LeaveIs DEF Bankers
<1>2. Learns(a)'
  BY LeaveLearns DEF Bankers
<1>3. a \notin Background' /\ run'[a].at \in Ends /\ run'[a].at \notin {"dead", "pruning"}
  BY <1>1 DEF Background, Ends
<1>4. \A p \in Apps : Unpruned(a, p) => Unpruned(a, p)'
  BY <1>1 DEF Unpruned
<1>5. learning' \subseteq Actors /\ learning \ {a} \subseteq learning'
  BY <1>1 DEF Bankers, Awaited
<1> QED BY <1>1, <1>2, <1>3, <1>4, <1>5, MovesKeep

LEMMA StartKeeps ==
  ASSUME Bankers, BankAssumption, NEW a \in Actors, Start(a)
  PROVE  Bankers'
<1>1. PICK read \in SUBSET LessonTexts : run' = [run EXCEPT ![a].at = "running", ![a].read = read]
  <2>1. Relevant(a) \subseteq LessonTexts
    <3>1. LessonKind(a) \in Kinds
      BY DEF LessonKind, Kinds
    <3>2. bank[LessonKind(a)] \in Seq(StoredRows) /\ DOMAIN bank[LessonKind(a)] = 1..Len(bank[LessonKind(a)])
      BY <3>1, LenProperties DEF Bankers, Shelved
    <3>3. \A j \in DOMAIN bank[LessonKind(a)] : bank[LessonKind(a)][j].text \in LessonTexts
      <4> TAKE j \in DOMAIN bank[LessonKind(a)]
      <4>1. bank[LessonKind(a)][j] \in StoredRows
        BY <3>2, ElementOfSeq
      <4> QED BY <4>1 DEF StoredRows
    <3> QED BY <3>3 DEF Relevant
  <2>2. PICK read \in IF Relevant(a) = {} THEN {{}} ELSE {{t} : t \in Relevant(a)} :
          run' = [run EXCEPT ![a].at = "running", ![a].read = read]
    BY DEF Start
  <2>3. read \in SUBSET LessonTexts
    BY <2>1
  <2> QED BY <2>2, <2>3
<1>2. run \in [Actors -> Learner] /\ run[a] = Idle /\ run[a].at = "out" /\ Does[a] # "import"
      /\ UNCHANGED <<bank, learning, closing, edits>>
  BY DEF Bankers, Learns, Start
<1>3. /\ run' \in [Actors -> Learner] /\ \A b \in Actors \ {a} : run'[b] = run[b]
      /\ run'[a].at = "running" /\ run'[a].kind = KIND /\ run'[a].notes = <<>>
      /\ run'[a].offered = 0 /\ run'[a].stored = FALSE
  <2> DEFINE r == [run[a] EXCEPT !.at = "running", !.read = read]
  <2>1. run' = [run EXCEPT ![a] = r]
    BY <1>1, <1>2
  <2>2. r \in Learner
    <3>1. run[a] \in Learner /\ "running" \in RunPhases
      BY <1>2 DEF RunPhases
    <3> QED BY <3>1 DEF Learner
  <2>3. r.at = "running" /\ r.kind = Idle.kind /\ r.notes = Idle.notes
        /\ r.offered = Idle.offered /\ r.stored = Idle.stored
    BY <1>2 DEF Learner, RunPhases
  <2>4. Idle.kind = KIND /\ Idle.notes = <<>> /\ Idle.offered = 0 /\ Idle.stored = FALSE
    BY DEF Idle
  <2> HIDE DEF r
  <2> QED BY <1>2, <2>1, <2>2, <2>3, <2>4
<1>4. Learns(a)'
  BY <1>2, <1>3 DEF Learns
<1>5. a \notin Background' /\ a \notin Background /\ ~run[a].stored
  BY <1>2, <1>3 DEF Background, Idle
<1>6. learning' \subseteq Actors /\ run[a].at \notin Ends
  BY <1>2 DEF Bankers, Awaited, Ends
<1>7. \A p \in Apps : ~Unpruned(a, p)
  BY <1>5 DEF Unpruned
<1> QED BY <1>2, <1>3, <1>4, <1>5, <1>6, <1>7, MovesKeep

LEMMA EndRunKeeps ==
  ASSUME Bankers, BankAssumption, NEW a \in Actors, EndRun(a)
  PROVE  Bankers'
<1> DEFINE at == IF a \in Writers THEN "distil" ELSE "done"
<1>1. /\ run' = [run EXCEPT ![a].at = at]
      /\ learning' = IF a \in Writers /\ Does[a] = "phone" THEN learning \cup {a} ELSE learning
      /\ run[a].at = "running" /\ UNCHANGED <<bank, closing, edits>>
  BY DEF EndRun
<1>2. at \in {"distil", "done"} /\ (a \in Writers <=> at = "distil")
  OBVIOUS
<1> HIDE DEF at
<1>3. run \in [Actors -> Learner] /\ Learns(a)
  BY DEF Bankers
<1>4. /\ run' \in [Actors -> Learner] /\ \A b \in Actors \ {a} : run'[b] = run[b]
      /\ run'[a].at = at /\ run'[a].kind = run[a].kind /\ run'[a].notes = run[a].notes
      /\ run'[a].offered = run[a].offered /\ run'[a].stored = run[a].stored
  BY <1>1, <1>2, <1>3, PhaseMoves
<1>5. Learns(a)'
  BY <1>1, <1>2, <1>3, <1>4 DEF Learns
<1>6. a \notin Background /\ ~run[a].stored
  BY <1>1, <1>3 DEF Background, Learns
<1>7. a \in Background' => a \in learning'
  BY <1>1, <1>2, <1>4 DEF Background
<1>8. learning' \subseteq Actors /\ learning \ {a} \subseteq learning' /\ run[a].at \notin Ends
  BY <1>1 DEF Bankers, Awaited, Ends
<1>9. \A p \in Apps : ~Unpruned(a, p)
  BY <1>6 DEF Unpruned
<1> QED BY <1>1, <1>2, <1>4, <1>5, <1>6, <1>7, <1>8, <1>9, MovesKeep

\* The first few of a list.
LEMMA AtMostIs ==
  ASSUME NEW S, NEW s \in Seq(S), NEW n \in Nat
  PROVE  AtMost(n, s) \in Seq(S) /\ Len(AtMost(n, s)) \in Nat
<1>1. Len(s) \in Nat /\ \A i \in 1..Len(s) : s[i] \in S
  BY LenProperties, ElementOfSeq
<1>2. PICK m \in Nat : m <= Len(s) /\ AtMost(n, s) = SubSeq(s, 1, m)
  BY <1>1 DEF AtMost
<1>3. \A i \in 1..m : s[i] \in S
  BY <1>1, <1>2
<1>4. AtMost(n, s) \in Seq(S)
  BY <1>2, <1>3, SubSeqProperties
<1> QED BY <1>4, LenProperties

\* What a reply offers is of apps, and no payment.
LEMMA OffersAre ==
  ASSUME BankAssumption, NEW reply \in DistillerReplies
  PROVE  Offers(reply) \in Seq([kind : Apps, todo : Seq(LessonTexts \ Payment)])
<1> DEFINE fit(notes) == AtPositions(notes, {j \in DOMAIN notes : notes[j] \notin Payment})
           offers == [n \in DOMAIN reply.notes |->
                        [kind |-> reply.notes[n].app, todo |-> fit(reply.notes[n].notes)]]
           T == {n \in DOMAIN offers : offers[n].kind \in reply.seen /\ offers[n].todo # <<>>}
           Clean == Seq(LessonTexts \ Payment)
           Offer == [kind : Apps, todo : Clean]
           Some == [kind : {reply.notes[n].app : n \in 1..Len(reply.notes)}, todo : Clean]
<1>1. ASSUME NEW notes \in Seq(LessonTexts) PROVE fit(notes) \in Clean
  <2> DEFINE K == {j \in DOMAIN notes : notes[j] \notin Payment}
             V == LessonTexts \ Payment
  <2>1. DOMAIN notes = 1..Len(notes) /\ \A j \in 1..Len(notes) : notes[j] \in LessonTexts
    BY LenProperties, ElementOfSeq
  <2>2. K \in SUBSET (1..Len(notes)) /\ \A j \in K : notes[j] \in V
    BY <2>1
  <2> HIDE DEF K, V
  <2>3. AtPositions(notes, K) \in Seq(V)
    BY <2>2, PlacesKeep
  <2> QED BY <2>3 DEF K, V
<1>2. reply.notes \in Seq([app : STRING, notes : Seq(LessonTexts)]) /\ reply.seen \subseteq Apps
  BY DEF BankAssumption
<1>3. /\ DOMAIN reply.notes = 1..Len(reply.notes) /\ Len(reply.notes) \in Nat
      /\ \A n \in 1..Len(reply.notes) : reply.notes[n] \in [app : STRING, notes : Seq(LessonTexts)]
  <2> DEFINE Read == [app : STRING, notes : Seq(LessonTexts)]
  <2>1. reply.notes \in Seq(Read)
    BY <1>2
  <2> HIDE DEF Read
  <2>2. /\ DOMAIN reply.notes = 1..Len(reply.notes) /\ Len(reply.notes) \in Nat
        /\ \A n \in 1..Len(reply.notes) : reply.notes[n] \in Read
    BY <2>1, LenProperties, ElementOfSeq
  <2> QED BY <2>2 DEF Read
<1> HIDE DEF fit, Clean
<1>4. offers \in [1..Len(reply.notes) -> Some]
  BY <1>1, <1>3
<1>5. offers \in Seq(Some) /\ DOMAIN offers = 1..Len(offers)
  <2> DEFINE len == Len(reply.notes)
  <2>1. offers \in [1..len -> Some] /\ len \in Nat
    BY <1>3, <1>4
  <2> HIDE DEF offers, Some, len
  <2>2. Seq(Some) = UNION {[1..n -> Some] : n \in Nat}
    BY SeqDef
  <2>3. offers \in Seq(Some)
    BY <2>1, <2>2
  <2> QED BY <2>3, LenProperties
<1>6. \A n \in T : offers[n] \in Offer
  BY <1>2, <1>4, <1>5
<1>7. Offers(reply) = AtPositions(offers, T)
  BY DEF Offers, fit
<1>8. T \in SUBSET (1..Len(offers))
  BY <1>5
<1> HIDE DEF offers, Some, T, Offer
<1>9. AtPositions(offers, T) \in Seq(Offer)
  BY <1>5, <1>6, <1>8, PlacesKeep
<1> QED BY <1>7, <1>9 DEF Offer, Clean

-----------------------------------------------------------------------------
(* Distilling, importing and recording *)

\* The same of a step that takes rows from the bank.
LEMMA ShrinkMoves ==
  ASSUME Bankers, BankAssumption, NEW a \in Actors, closing' = closing,
         bank' \in [Kinds -> Seq(StoredRows)], \A k \in Kinds : Part(k),
         run' \in [Actors -> Learner], \A b \in Actors \ {a} : run'[b] = run[b],
         Learns(a)',
         run[a].at \notin Ends, run'[a].at \notin {"dead", "pruning"},
         learning' \subseteq Actors, learning \ {a} \subseteq learning',
         a \in Background' => a \in learning',
         a \in Background => a \in Background' \/ run'[a].at \in Ends,
         \A p \in Apps : Unpruned(a, p) => Unpruned(a, p)'
  PROVE  Bankers'
<1>1. /\ Shelved' /\ OneRunRepeatsNothing'
      /\ \A k \in Kinds : Hashes(k)' \subseteq Hashes(k)
      /\ \A k \in Kinds : \A i \in 1..Len(bank'[k]) : \E j \in 1..Len(bank[k]) : bank'[k][i] = bank[k][j]
  BY ShrinkKeeps DEF Bankers
<1>2. Awaited'
  BY AwaitedMoves DEF Bankers
<1>3. Few'
  <2>1. \A p \in Apps : Hashes(p)' \subseteq Hashes(p)
    BY <1>1 DEF Kinds
  <2> QED BY <2>1, FewMoves DEF Bankers
<1>4. \A b \in Actors \ {a} : Learns(b)'
  BY <1>1, LearnsStays DEF Bankers
<1> QED BY <1>1, <1>2, <1>3, <1>4 DEF Bankers

\* A kind that is emptied.
LEMMA EmptiedOf ==
  ASSUME Shelved, NEW k \in Kinds, bank' = [bank EXCEPT ![k] = <<>>]
  PROVE  bank' \in [Kinds -> Seq(StoredRows)] /\ \A kk \in Kinds : Part(kk)
<1>1. bank \in [Kinds -> Seq(StoredRows)]
  BY DEF Shelved
<1> HIDE DEF StoredRows
<1>2. <<>> \in Seq(StoredRows) /\ Len(<<>>) = 0
  BY EmptySeq
<1>3. bank' \in [Kinds -> Seq(StoredRows)] /\ bank'[k] = <<>> /\ \A kk \in Kinds : kk # k => bank'[kk] = bank[kk]
  BY <1>1, <1>2
<1>4. ASSUME NEW kk \in Kinds PROVE Part(kk)
  <2> DEFINE g == [n \in 1..Len(bank'[kk]) |-> n]
  <2>1. Len(bank'[kk]) = 0 \/ bank'[kk] = bank[kk]
    BY <1>2, <1>3
  <2>2. g \in [1..Len(bank'[kk]) -> 1..Len(bank[kk])] /\ \A n \in 1..Len(bank'[kk]) : g[n] = n
    BY <2>1
  <2>3. \A n \in 1..Len(bank'[kk]) : bank'[kk][n] = bank[kk][n]
    BY <2>1
  <2> HIDE DEF g
  <2> QED BY <2>2, <2>3 DEF Part
<1> QED BY <1>3, <1>4

LEMMA DistilKeeps ==
  ASSUME Bankers, BankAssumption, NEW a \in Actors, Distil(a)
  PROVE  Bankers'
<1>1. /\ run \in [Actors -> Learner] /\ run[a] \in Learner /\ Learns(a) /\ Awaited /\ run[a].at = "distil"
      /\ bank' = bank /\ closing' = closing /\ run[a].at \notin Ends
  BY DEF Bankers, Distil, Ends
<1>2. run[a].kind = KIND /\ run[a].notes = <<>> /\ Does[a] # "import" /\ ~run[a].stored
  BY <1>1 DEF Learns
<1>3. CASE Leave(a, "done")
  BY <1>1, <1>2, <1>3, LeavingKeeps
<1>4. CASE \E reply \in DistillerReplies :
          /\ run' = [run EXCEPT ![a].at = "read", ![a].kind = LessonKind(a),
               ![a].todo = AtMost(MAX_PER_RUN, reply.lessons),
               ![a].notes = IF Does[a] = "phone" THEN Offers(reply) ELSE <<>>]
          /\ UNCHANGED learning
  <2>1. PICK reply \in DistillerReplies :
          /\ run' = [run EXCEPT ![a].at = "read", ![a].kind = LessonKind(a),
               ![a].todo = AtMost(MAX_PER_RUN, reply.lessons),
               ![a].notes = IF Does[a] = "phone" THEN Offers(reply) ELSE <<>>]
          /\ UNCHANGED learning
    BY <1>4
  <2> DEFINE todo == AtMost(MAX_PER_RUN, reply.lessons)
             notes == IF Does[a] = "phone" THEN Offers(reply) ELSE <<>>
             kind == LessonKind(a)
             Offer == [kind : Apps, todo : Seq(LessonTexts \ Payment)]
             r == [run[a] EXCEPT !.at = "read", !.kind = kind, !.todo = todo, !.notes = notes]
  <2>2. todo \in Seq(LessonTexts)
    <3>1. MAX_PER_RUN \in Nat /\ reply.lessons \in Seq(LessonTexts)
      BY DEF BankAssumption
    <3> QED BY <3>1, AtMostIs
  <2>3. notes \in Seq(Offer) /\ (notes # <<>> => Does[a] = "phone")
    <3>1. Offers(reply) \in Seq(Offer)
      BY OffersAre
    <3> HIDE DEF Offer
    <3>2. <<>> \in Seq(Offer)
      BY EmptySeq
    <3> QED BY <3>1, <3>2
  <2>4. kind \in Kinds /\ kind \notin Apps /\ May(a, kind)
    BY DEF LessonKind, Kinds, May, KIND, PHONE_KIND, BankAssumption
  <2> HIDE DEF todo, notes, kind
  <2>5. run' = [run EXCEPT ![a] = r]
    BY <1>1, <2>1 DEF todo, notes, kind
  <2>6. r \in Learner
    <3>1. "read" \in RunPhases
      BY DEF RunPhases
    <3>2. notes \in Seq([kind : Apps, todo : Seq(LessonTexts \ Payment)])
      BY <2>3
    <3> QED BY <1>1, <2>2, <2>4, <3>1, <3>2 DEF Learner
  <2>7. r.at = "read" /\ r.kind = kind /\ r.notes = notes /\ r.stored = run[a].stored
    BY <1>1 DEF Learner
  <2> HIDE DEF r, Offer
  <2>8. /\ run' \in [Actors -> Learner] /\ run'[a] = r /\ \A b \in Actors \ {a} : run'[b] = run[b]
    BY <1>1, <2>5, <2>6
  <2>9. Learns(a)'
    <3>1. May(a, kind)'
      BY <2>4 DEF May
    <3>2. run'[a].at = "read" /\ run'[a].kind = kind /\ run'[a].notes = notes /\ ~run'[a].stored
      BY <1>2, <2>7, <2>8
    <3> QED BY <2>3, <2>4, <3>1, <3>2 DEF Learns, May
  <2>10. (a \in Background' <=> Does[a] = "phone") /\ (a \in Background <=> Does[a] = "phone")
    BY <1>1, <2>7, <2>8 DEF Background
  <2>11. learning' = learning /\ learning \subseteq Actors /\ (a \in Background => a \in learning)
    BY <1>1, <2>1 DEF Awaited
  <2>12. \A p \in Apps : ~Unpruned(a, p)
    BY <1>2 DEF Unpruned
  <2>13. run'[a].at \notin {"dead", "pruning"}
    BY <2>7, <2>8
  <2> QED BY <1>1, <2>8, <2>9, <2>10, <2>11, <2>12, <2>13, MovesKeep
<1> QED BY <1>3, <1>4 DEF Distil

LEMMA ImportKeeps ==
  ASSUME Bankers, BankAssumption, NEW a \in Actors, Import(a)
  PROVE  Bankers'
<1>1. /\ run \in [Actors -> Learner] /\ run[a] \in Learner /\ run[a] = Idle /\ Awaited /\ Shelved
      /\ learning' = learning /\ closing' = closing /\ Does[a] = "import"
  BY DEF Bankers, Learns, Import
<1>2. /\ Idle.at = "out" /\ Idle.kind = KIND /\ Idle.notes = <<>> /\ ~Idle.stored /\ Idle.offered = 0
  BY DEF Idle
<1>3. /\ run[a].at = "out" /\ run[a].kind = KIND /\ run[a].notes = <<>> /\ ~run[a].stored
  BY <1>1, <1>2
<1>4. run[a].at \notin Ends /\ learning' \subseteq Actors /\ learning \ {a} \subseteq learning'
      /\ a \notin Background
  BY <1>1, <1>3 DEF Ends, Awaited, Background
<1>5. a \notin Background'
  BY <1>1 DEF Background
<1>6. \A p \in Apps : ~Unpruned(a, p)
  BY <1>3 DEF Unpruned
<1>7. CASE a \notin Writers
  <2>1. run' = [run EXCEPT ![a].at = "done"] /\ bank' = bank
    BY <1>7 DEF Import
  <2>2. /\ run' \in [Actors -> Learner] /\ \A b \in Actors \ {a} : run'[b] = run[b]
        /\ run'[a].at = "done" /\ run'[a].notes = <<>> /\ ~run'[a].stored
    BY <1>1, <1>3, <2>1, PhaseMoves
  <2>3. Learns(a)'
    BY <2>2 DEF Learns
  <2>4. run'[a].at \notin {"dead", "pruning"}
    BY <2>2
  <2> QED BY <1>1, <1>4, <1>5, <1>6, <2>1, <2>2, <2>3, <2>4, MovesKeep
<1>8. CASE a \in Writers
  <2>1. PICK file \in Files, replace \in BOOLEAN :
          /\ run' = [run EXCEPT ![a].at = "read", ![a].todo = file]
          /\ bank' = IF replace THEN [bank EXCEPT ![KIND] = <<>>] ELSE bank
    BY <1>8 DEF Import
  <2> DEFINE r == [run[a] EXCEPT !.at = "read", !.todo = file]
  <2>2. run' = [run EXCEPT ![a] = r]
    BY <1>1, <2>1
  <2>3. r \in Learner
    <3>1. "read" \in RunPhases /\ file \in Seq(LessonTexts) /\ run[a] \in Learner
      BY <1>1 DEF RunPhases, BankAssumption
    <3> QED BY <3>1 DEF Learner
  <2>4. r.at = "read" /\ r.kind = KIND /\ r.notes = <<>> /\ ~r.stored
    <3>1. r.at = "read" /\ r.kind = run[a].kind /\ r.notes = run[a].notes /\ r.stored = run[a].stored
      BY <1>1 DEF Learner
    <3> HIDE DEF r
    <3> QED BY <1>3, <3>1
  <2> HIDE DEF r
  <2>5. /\ run' \in [Actors -> Learner] /\ run'[a] = r /\ \A b \in Actors \ {a} : run'[b] = run[b]
    BY <1>1, <2>2, <2>3
  <2>6. Learns(a)'
    <3>1. KIND \notin Apps
      BY DEF KIND, BankAssumption
    <3> QED BY <1>1, <2>4, <2>5, <3>1 DEF Learns, May
  <2>7. run'[a].at \notin {"dead", "pruning"}
    BY <2>4, <2>5
  <2>8. CASE bank' = bank
    BY <1>1, <1>4, <1>5, <1>6, <2>5, <2>6, <2>7, <2>8, MovesKeep
  <2>9. CASE bank' = [bank EXCEPT ![KIND] = <<>>]
    <3>1. bank' \in [Kinds -> Seq(StoredRows)] /\ \A k \in Kinds : Part(k)
      BY <1>1, <2>9, EmptiedOf DEF Kinds
    <3> QED BY <1>1, <1>4, <1>5, <1>6, <2>5, <2>6, <2>7, <3>1, ShrinkMoves
  <2> QED BY <2>1, <2>8, <2>9
<1> QED BY <1>7, <1>8

LEMMA ExistingKeeps ==
  ASSUME Bankers, BankAssumption, NEW a \in Actors, Existing(a)
  PROVE  Bankers'
<1> DEFINE kind == run[a].kind
           rows == bank[kind]
           read == {rows[i].text : i \in {j \in DOMAIN rows : rows[j].embedded}}
           r == [run[a] EXCEPT !.at = "record", !.stored = FALSE, !.existing = read]
<1>1. /\ run \in [Actors -> Learner] /\ run[a] \in Learner /\ Learns(a) /\ Awaited /\ Shelved
      /\ run[a].at = "read" /\ UNCHANGED <<bank, learning, closing, edits>>
  BY DEF Bankers, Existing
<1>2. kind \in Kinds /\ May(a, kind) /\ (kind \in Apps => run[a].todo \in Seq(LessonTexts \ Payment))
      /\ ~run[a].stored /\ (run[a].notes # <<>> => Does[a] = "phone")
  BY <1>1 DEF Learner, Learns
<1>3. rows \in Seq(StoredRows) /\ DOMAIN rows = 1..Len(rows)
  <2>1. rows \in Seq(StoredRows)
    BY <1>1, <1>2 DEF Shelved
  <2> HIDE DEF rows, StoredRows
  <2> QED BY <2>1, LenProperties
<1>4. read \in SUBSET LessonTexts
  <2>1. \A i \in DOMAIN rows : rows[i] \in StoredRows
    <3> HIDE DEF rows, StoredRows
    <3> QED BY <1>3, ElementOfSeq
  <2>2. \A i \in DOMAIN rows : rows[i].text \in LessonTexts
    BY <2>1 DEF StoredRows
  <2> QED BY <2>2
<1>5. \A i \in 1..Len(rows) : rows[i].embedded => rows[i].text \in read
  BY <1>3
<1> HIDE DEF read
<1>6. run' = [run EXCEPT ![a] = r]
  BY <1>1 DEF Existing, read
<1>7. r \in Learner
  <2>1. "record" \in RunPhases
    BY DEF RunPhases
  <2> QED BY <1>1, <1>4, <2>1 DEF Learner
<1>8. r.at = "record" /\ r.kind = run[a].kind /\ r.notes = run[a].notes /\ ~r.stored
      /\ r.todo = run[a].todo /\ r.existing = read
  BY <1>1 DEF Learner
<1> HIDE DEF r
<1>9. /\ run' \in [Actors -> Learner] /\ run'[a] = r /\ \A b \in Actors \ {a} : run'[b] = run[b]
  BY <1>1, <1>6, <1>7
<1>10. Learns(a)'
  <2>1. May(a, kind)'
    BY <1>2, <1>8, <1>9 DEF May
  <2>2. run'[a].at = "record" /\ run'[a].kind = kind /\ run'[a].notes = run[a].notes /\ ~run'[a].stored
        /\ run'[a].todo = run[a].todo /\ run'[a].existing = read
    BY <1>8, <1>9
  <2>3. \A i \in 1..Len(bank'[kind]) : bank'[kind][i].embedded => bank'[kind][i].text \in read
    BY <1>1, <1>5
  <2> HIDE DEF kind
  <2> QED BY <1>2, <2>1, <2>2, <2>3 DEF Learns, May
<1>11. (a \in Background' <=> a \in Background) /\ run[a].at \notin Ends /\ run'[a].at \notin {"dead", "pruning"}
  BY <1>1, <1>8, <1>9 DEF Background, Ends
<1>12. learning' = learning /\ learning \subseteq Actors /\ (a \in Background => a \in learning)
  BY <1>1 DEF Awaited
<1>13. \A p \in Apps : ~Unpruned(a, p)
  BY <1>2 DEF Unpruned
<1> QED BY <1>1, <1>9, <1>10, <1>11, <1>12, <1>13, MovesKeep

LEMMA RefusedKeeps ==
  ASSUME Bankers, BankAssumption, NEW a \in Actors, Refused(a)
  PROVE  Bankers'
<1>1. run[a].at = "record" /\ Leave(a, "raised") /\ bank' = bank /\ closing' = closing
      /\ run[a].at \notin Ends
  BY DEF Refused, Ends
<1> QED BY <1>1, LeavingKeeps

\* What the next batch leaves a thread at.
LEMMA NextIs ==
  ASSUME run \in [Actors -> Learner], BankAssumption, NEW a \in Actors, NextBatch(a), ~Leave(a, "done")
  PROVE  /\ run' \in [Actors -> Learner] /\ \A b \in Actors \ {a} : run'[b] = run[b]
         /\ run[a].notes # <<>> /\ run'[a].at = "read" /\ ~run'[a].stored
         /\ run'[a].kind \in Apps /\ run'[a].todo \in Seq(LessonTexts \ Payment)
         /\ learning' = learning
<1> DEFINE Clean == LessonTexts \ Payment
           Offer == [kind : Apps, todo : Seq(Clean)]
           notes == run[a].notes
           n == MAX_NOTES_PER_RUN - run[a].offered
           take == AtMost(n, Head(notes).todo)
           rest == Tail(notes)
           kind == Head(notes).kind
           offered == run[a].offered + Len(take)
           r == [Idle EXCEPT !.at = "read", !.notes = rest, !.kind = kind, !.todo = take, !.offered = offered]
<1>1. notes # <<>> /\ run[a].offered < MAX_NOTES_PER_RUN /\ run[a] \in Learner /\ Idle \in Learner
      /\ learning' = learning /\ run' = [run EXCEPT ![a] = r]
  <2>1. run[a] \in Learner /\ run[a].offered \in Nat
    BY DEF Learner
  <2>2. MAX_NOTES_PER_RUN \in Nat
    BY DEF BankAssumption
  <2>3. ~(run[a].notes = <<>> \/ run[a].offered >= MAX_NOTES_PER_RUN)
    BY DEF NextBatch
  <2> QED BY <2>1, <2>2, <2>3, IdleIs DEF NextBatch
<1>2. n \in Nat /\ run[a].offered \in Nat
  BY <1>1 DEF Learner, BankAssumption
<1>3. notes \in Seq(Offer)
  BY <1>1 DEF Learner
<1>4. Head(notes) \in Offer /\ rest \in Seq(Offer)
  <2> HIDE DEF Offer, notes
  <2>1. Head(notes) \in Offer /\ Tail(notes) \in Seq(Offer)
    BY <1>1, <1>3, HeadTailProperties
  <2> QED BY <2>1
<1>5. kind \in Apps /\ Head(notes).todo \in Seq(Clean)
  BY <1>4
<1>6. take \in Seq(Clean) /\ Len(take) \in Nat
  <2> HIDE DEF Clean, n, notes
  <2> QED BY <1>2, <1>5, AtMostIs
<1>7. take \in Seq(LessonTexts)
  <2>1. \A U : Seq(U) = UNION {[1..i -> U] : i \in Nat}
    BY SeqDef
  <2> HIDE DEF take
  <2>2. take \in [1..Len(take) -> Clean]
    BY <1>6, LenProperties
  <2>3. take \in [1..Len(take) -> LessonTexts]
    BY <2>2
  <2> QED BY <1>6, <2>1, <2>3
<1>8. offered \in Nat
  BY <1>2, <1>6
<1> HIDE DEF take, rest, kind, offered, notes, Clean
<1>9. r \in Learner
  <2>1. "read" \in RunPhases /\ kind \in Kinds
    BY <1>5 DEF RunPhases, Kinds
  <2>2. rest \in Seq([kind : Apps, todo : Seq(LessonTexts \ Payment)])
    BY <1>4 DEF Clean
  <2> QED BY <1>1, <1>7, <1>8, <2>1, <2>2 DEF Learner
<1>10. r.at = "read" /\ r.kind = kind /\ r.todo = take /\ r.stored = Idle.stored
  BY <1>1 DEF Learner
<1>11. ~Idle.stored
  BY DEF Idle
<1> HIDE DEF r
<1>12. /\ run' \in [Actors -> Learner] /\ \A b \in Actors \ {a} : run'[b] = run[b] /\ run'[a] = r
  BY <1>1, <1>9
<1>13. run'[a] = r
  BY <1>1, <1>9
<1> QED BY <1>1, <1>5, <1>6, <1>10, <1>11, <1>12, <1>13 DEF Clean, notes

\* The thread reads for an app it has notes of.
LEMMA NextLearns ==
  ASSUME run \in [Actors -> Learner], BankAssumption, NEW a \in Actors, Learns(a),
         run'[a].at = "read", ~run'[a].stored, run[a].notes # <<>>,
         run'[a].kind \in Apps, run'[a].todo \in Seq(LessonTexts \ Payment)
  PROVE  Learns(a)'
<1>1. Does[a] = "phone" /\ KIND \notin Apps
  BY DEF Learns, KIND, BankAssumption
<1> QED BY <1>1 DEF Learns, May

LEMMA RecordedKeeps ==
  ASSUME Bankers, BankAssumption, NEW a \in Actors, Recorded(a)
  PROVE  Bankers'
<1>1. /\ run \in [Actors -> Learner] /\ run[a] \in Learner /\ Learns(a) /\ Awaited
      /\ run[a].at = "record" /\ bank' = bank /\ closing' = closing /\ run[a].at \notin Ends
  BY DEF Bankers, Recorded, Ends
<1>2. CASE /\ run[a].kind \in Apps /\ run[a].stored
           /\ run' = [run EXCEPT ![a].at = "prune"] /\ learning' = learning
  <2>1. /\ run' \in [Actors -> Learner] /\ \A b \in Actors \ {a} : run'[b] = run[b]
        /\ run'[a].at = "prune" /\ run'[a].kind = run[a].kind /\ run'[a].notes = run[a].notes
        /\ run'[a].stored = run[a].stored /\ run'[a].todo = run[a].todo
    BY <1>1, <1>2, PhaseMoves
  <2>2. Learns(a)'
    BY <1>1, <1>2, <2>1 DEF Learns, May
  <2>3. (a \in Background' <=> a \in Background) /\ run'[a].at \notin {"dead", "pruning"}
    BY <1>1, <2>1 DEF Background
  <2>4. learning \subseteq Actors /\ (a \in Background => a \in learning)
    BY <1>1 DEF Awaited
  <2>5. \A p \in Apps : Unpruned(a, p) => Unpruned(a, p)'
    BY <2>1 DEF Unpruned
  <2> QED BY <1>1, <1>2, <2>1, <2>2, <2>3, <2>4, <2>5, MovesKeep
<1>3. CASE ~(run[a].kind \in Apps /\ run[a].stored) /\ NextBatch(a)
  <2>1. CASE Leave(a, "done")
    BY <1>1, <1>3, <2>1, LeavingKeeps
  <2>2. CASE ~Leave(a, "done")
    <3>1. /\ run' \in [Actors -> Learner] /\ \A b \in Actors \ {a} : run'[b] = run[b]
          /\ run[a].notes # <<>> /\ run'[a].at = "read" /\ ~run'[a].stored
          /\ run'[a].kind \in Apps /\ run'[a].todo \in Seq(LessonTexts \ Payment)
          /\ learning' = learning
      BY <1>1, <1>3, <2>2, NextIs
    <3>2. Learns(a)'
      BY <1>1, <3>1, NextLearns
    <3>3. (a \in Background' <=> a \in Background) /\ run'[a].at \notin {"dead", "pruning"}
      BY <1>1, <3>1 DEF Background
    <3>4. learning \subseteq Actors /\ (a \in Background => a \in learning)
      BY <1>1 DEF Awaited
    <3>5. \A p \in Apps : ~Unpruned(a, p)
      BY <1>3 DEF Unpruned
    <3> QED BY <1>1, <3>1, <3>2, <3>3, <3>4, <3>5, MovesKeep
  <2> QED BY <2>1, <2>2
<1> QED BY <1>2, <1>3 DEF Recorded

\* The head of what is to be recorded.
LEMMA HeadIs ==
  ASSUME NEW a \in Actors, run[a] \in Learner, Learns(a), run[a].at = "record", run[a].todo # <<>>
  PROVE  /\ Head(run[a].todo) \in LessonTexts /\ Tail(run[a].todo) \in Seq(LessonTexts)
         /\ run[a].kind \in Apps => /\ Head(run[a].todo) \notin Payment
                                    /\ Tail(run[a].todo) \in Seq(LessonTexts \ Payment)
<1>1. run[a].todo \in Seq(LessonTexts)
  BY DEF Learner
<1>2. Head(run[a].todo) \in LessonTexts /\ Tail(run[a].todo) \in Seq(LessonTexts)
  BY <1>1, HeadTailProperties
<1>3. ASSUME run[a].kind \in Apps
      PROVE  Head(run[a].todo) \notin Payment /\ Tail(run[a].todo) \in Seq(LessonTexts \ Payment)
  <2> DEFINE Clean == LessonTexts \ Payment
  <2>1. run[a].todo \in Seq(Clean)
    BY <1>3 DEF Learns
  <2> HIDE DEF Clean
  <2>2. Head(run[a].todo) \in Clean /\ Tail(run[a].todo) \in Seq(Clean)
    BY <2>1, HeadTailProperties
  <2> QED BY <2>2 DEF Clean
<1> QED BY <1>2, <1>3

\* A text is in the bank after the step.
Banked(k, t) == \E i \in 1..Len(bank'[k]) : bank'[k][i].text = t

\* add_chunk: the bank as it was, with the text in it, or the row at the end.
LEMMA AddedIs ==
  ASSUME Shelved, NEW a \in Actors, run[a].kind \in Kinds, NEW t \in LessonTexts, NEW embedded \in BOOLEAN,
         bank' = Added(a, t, embedded)
  PROVE  /\ bank' \in [Kinds -> Seq(StoredRows)]
         /\ \A k \in Kinds : k # run[a].kind => bank'[k] = bank[k]
         /\ Banked(run[a].kind, t)
         /\ \/ bank' = bank
            \/ /\ Len(bank'[run[a].kind]) = Len(bank[run[a].kind]) + 1
               /\ \A i \in 1..Len(bank[run[a].kind]) :
                    bank'[run[a].kind][i] = bank[run[a].kind][i] /\ bank[run[a].kind][i].text # t
               /\ bank'[run[a].kind][Len(bank[run[a].kind]) + 1] =
                    [text |-> t, hash |-> <<run[a].kind, t>>, embedded |-> embedded, by |-> a]
<1> DEFINE kind == run[a].kind
           row == [text |-> t, hash |-> <<kind, t>>, embedded |-> embedded, by |-> a]
<1>1. bank \in [Kinds -> Seq(StoredRows)] /\ bank[kind] \in Seq(StoredRows) /\ Len(bank[kind]) \in Nat
      /\ \A k \in Kinds : DOMAIN bank[k] = 1..Len(bank[k])
  <2>1. bank \in [Kinds -> Seq(StoredRows)] /\ bank[kind] \in Seq(StoredRows)
    BY DEF Shelved
  <2> HIDE DEF StoredRows
  <2> QED BY <2>1, LenProperties
<1>2. row \in StoredRows
  BY DEF StoredRows
<1>3. CASE <<kind, t>> \in Stored
  <2>1. bank' = bank
    BY <1>3 DEF Added, Hash
  <2>0. PICK k \in Kinds : <<kind, t>> \in {bank[k][i].hash : i \in DOMAIN bank[k]}
    BY <1>3 DEF Stored
  <2>2. PICK i \in DOMAIN bank[k] : bank[k][i].hash = <<kind, t>>
    BY <2>0
  <2>3. i \in 1..Len(bank[k]) /\ <<k, bank[k][i].text>> = <<kind, t>>
    BY <1>1, <2>2 DEF Shelved
  <2>4. k = kind /\ bank[kind][i].text = t
    BY <2>3
  <2> QED BY <1>1, <2>1, <2>3, <2>4 DEF Banked
<1>4. CASE <<kind, t>> \notin Stored
  <2>1. bank' = [bank EXCEPT ![kind] = Append(bank[kind], row)]
    BY <1>1, <1>4 DEF Added, Hash
  <2> DEFINE new == Append(bank[kind], row)
  <2>2. /\ new \in Seq(StoredRows) /\ Len(new) = Len(bank[kind]) + 1
        /\ \A i \in 1..Len(bank[kind]) : new[i] = bank[kind][i]
        /\ new[Len(bank[kind]) + 1] = row
    <3> HIDE DEF StoredRows, row, kind
    <3> QED BY <1>1, <1>2, AppendProperties
  <2>3. \A i \in 1..Len(bank[kind]) : bank[kind][i].text # t
    <3>1. \A i \in DOMAIN bank[kind] : bank[kind][i].hash # <<kind, t>>
      BY <1>4 DEF Stored
    <3> QED BY <1>1, <3>1 DEF Shelved
  <2> HIDE DEF new, row, StoredRows
  <2>4. /\ bank' \in [Kinds -> Seq(StoredRows)] /\ bank'[kind] = new
        /\ \A k \in Kinds : k # kind => bank'[k] = bank[k]
    BY <1>1, <2>1, <2>2 DEF new
  <2>5. row.text = t
    BY DEF row
  <2>6. Len(bank[kind]) + 1 \in 1..Len(new)
    BY <1>1, <2>2
  <2>7. Banked(kind, t)
    BY <2>2, <2>4, <2>5, <2>6 DEF Banked
  <2> QED BY <2>2, <2>3, <2>4, <2>7 DEF row
<1> QED BY <1>3, <1>4

LEMMA RecordKeeps ==
  ASSUME Bankers, BankAssumption, NEW a \in Actors, Record(a)
  PROVE  Bankers'
<1> DEFINE kind == run[a].kind
           t == Head(run[a].todo)
           rest == Tail(run[a].todo)
<1>1. /\ run \in [Actors -> Learner] /\ run[a] \in Learner /\ Learns(a) /\ Awaited /\ Shelved
      /\ run[a].at = "record" /\ run[a].todo # <<>>
      /\ learning' = learning /\ closing' = closing /\ run[a].at \notin Ends
  BY DEF Bankers, Record, Ends
<1>2. kind \in Kinds /\ May(a, kind) /\ (run[a].notes # <<>> => Does[a] = "phone")
      /\ \A i \in 1..Len(bank[kind]) :
           bank[kind][i].by = a /\ bank[kind][i].embedded => bank[kind][i].text \in run[a].existing
  BY <1>1 DEF Learner, Learns
<1>3. t \in LessonTexts /\ rest \in Seq(LessonTexts)
      /\ (kind \in Apps => t \notin Payment /\ rest \in Seq(LessonTexts \ Payment))
  BY <1>1, HeadIs
<1>4. learning \subseteq Actors /\ (a \in Background => a \in learning)
  BY <1>1 DEF Awaited
<1>5. PICK embedded \in BOOLEAN :
          IF embedded /\ \E u \in run[a].existing : Alike(t, u)
          THEN run' = [run EXCEPT ![a].todo = rest] /\ bank' = bank
          ELSE /\ bank' = Added(a, t, embedded)
               /\ run' = [run EXCEPT ![a].todo = rest,
                    ![a].existing = Known(a, t, embedded),
                    ![a].kept = run[a].kept \cup {<<kind, t>>}, ![a].stored = TRUE]
  BY <1>1 DEF Record
<1>6. CASE run' = [run EXCEPT ![a].todo = rest] /\ bank' = bank
  <2> DEFINE r == [run[a] EXCEPT !.todo = rest]
  <2>1. run' = [run EXCEPT ![a] = r]
    BY <1>1, <1>6
  <2>2. r \in Learner
    BY <1>1, <1>3 DEF Learner
  <2>3. r.at = "record" /\ r.kind = kind /\ r.notes = run[a].notes /\ r.stored = run[a].stored
        /\ r.todo = rest /\ r.existing = run[a].existing
    BY <1>1 DEF Learner
  <2> HIDE DEF r, kind, rest, t
  <2>4. /\ run' \in [Actors -> Learner] /\ run'[a] = r /\ \A b \in Actors \ {a} : run'[b] = run[b]
    BY <1>1, <2>1, <2>2
  <2>5. May(a, kind)'
    BY <1>2, <2>3, <2>4 DEF May, kind
  <2>6. Learns(a)'
    <3>1. run'[a].at = "record" /\ run'[a].kind = kind /\ run'[a].notes = run[a].notes
          /\ run'[a].todo = rest /\ run'[a].existing = run[a].existing
      BY <2>3, <2>4
    <3>2. \A i \in 1..Len(bank'[kind]) :
            bank'[kind][i].by = a /\ bank'[kind][i].embedded => bank'[kind][i].text \in run[a].existing
      BY <1>2, <1>6 DEF kind
    <3> QED BY <1>2, <1>3, <3>1, <3>2 DEF Learns, May
  <2>7. (a \in Background' <=> a \in Background) /\ run'[a].at \notin {"dead", "pruning"}
    BY <1>1, <2>3, <2>4 DEF Background
  <2>8. \A p \in Apps : Unpruned(a, p) => Unpruned(a, p)'
    BY <2>3, <2>4 DEF Unpruned, kind
  <2> QED BY <1>1, <1>4, <1>6, <2>4, <2>6, <2>7, <2>8, MovesKeep
<1>7. CASE /\ ~(embedded /\ \E u \in run[a].existing : Alike(t, u))
           /\ bank' = Added(a, t, embedded)
           /\ run' = [run EXCEPT ![a].todo = rest,
                ![a].existing = Known(a, t, embedded),
                ![a].kept = run[a].kept \cup {<<kind, t>>}, ![a].stored = TRUE]
  <2> DEFINE existing == Known(a, t, embedded)
             kept == run[a].kept \cup {<<kind, t>>}
             r == [run[a] EXCEPT !.todo = rest, !.existing = existing, !.kept = kept, !.stored = TRUE]
             len == Len(bank[kind])
  <2>1. run' = [run EXCEPT ![a] = r]
    <3> HIDE DEF existing, kept
    <3> QED BY <1>1, <1>7 DEF existing, kept
  <2>2. existing \in SUBSET LessonTexts /\ kept \in SUBSET (Kinds \X LessonTexts)
        /\ run[a].existing \subseteq existing /\ (embedded => t \in existing)
    BY <1>1, <1>2, <1>3 DEF Known, Learner
  <2> HIDE DEF existing, kept, kind, t, rest
  <2>3. r \in Learner
    BY <1>1, <1>3, <2>2 DEF Learner
  <2>4. r.at = "record" /\ r.kind = kind /\ r.notes = run[a].notes /\ r.stored
        /\ r.todo = rest /\ r.existing = existing
    BY <1>1 DEF Learner, kind
  <2> HIDE DEF r
  <2>5. /\ run' \in [Actors -> Learner] /\ run'[a] = r /\ \A b \in Actors \ {a} : run'[b] = run[b]
    BY <1>1, <2>1, <2>3
  <2>6. /\ bank' \in [Kinds -> Seq(StoredRows)]
        /\ \A k \in Kinds : k # kind => bank'[k] = bank[k]
        /\ \/ bank' = bank
           \/ /\ Len(bank'[kind]) = len + 1
              /\ \A i \in 1..len : bank'[kind][i] = bank[kind][i] /\ bank[kind][i].text # t
              /\ bank'[kind][len + 1] = [text |-> t, hash |-> <<kind, t>>, embedded |-> embedded, by |-> a]
    BY <1>1, <1>2, <1>3, <1>7, AddedIs DEF kind
  <2>7. May(a, kind)'
    BY <1>2, <2>4, <2>5 DEF May, kind
  <2>8. (a \in Background' <=> a \in Background) /\ run'[a].at \notin {"dead", "pruning"}
        /\ \A p \in Apps : p = kind \/ Unpruned(a, p) => Unpruned(a, p)'
    BY <1>1, <2>4, <2>5 DEF Background, Unpruned, kind
  <2>9. CASE bank' = bank
    <3>1. Learns(a)'
      BY <1>2, <1>3, <2>2, <2>4, <2>5, <2>7, <2>9 DEF Learns, May
    <3> QED BY <1>1, <1>4, <2>5, <2>8, <2>9, <3>1, MovesKeep
  <2>10. CASE /\ Len(bank'[kind]) = len + 1
              /\ \A i \in 1..len : bank'[kind][i] = bank[kind][i] /\ bank[kind][i].text # t
              /\ bank'[kind][len + 1] = [text |-> t, hash |-> <<kind, t>>, embedded |-> embedded, by |-> a]
    <3> DEFINE row == bank'[kind][len + 1]
    <3>1. row.text = t /\ row.hash = <<kind, t>> /\ row.embedded = embedded /\ row.by = a
      BY <2>10
    <3>2. len \in Nat /\ \A k \in Kinds : /\ DOMAIN bank[k] = 1..Len(bank[k])
                                          /\ DOMAIN bank'[k] = 1..Len(bank'[k])
      <4> HIDE DEF StoredRows
      <4> QED BY <1>1, <1>2, <2>6, LenProperties DEF Shelved, kind
    <3>3. \A i \in 1..(len + 1) : i = len + 1 \/ i \in 1..len
      BY <3>2
    <3> HIDE DEF row, len
    <3>4. Shelved'
      <4> SUFFICES ASSUME NEW k \in Kinds
                   PROVE  /\ \A i \in 1..Len(bank'[k]) :
                               /\ bank'[k][i].hash = <<k, bank'[k][i].text>>
                               /\ May(bank'[k][i].by, k)
                               /\ k \in Apps => bank'[k][i].text \notin Payment
                          /\ \A i, j \in 1..Len(bank'[k]) : bank'[k][i].text = bank'[k][j].text => i = j
        BY <2>6 DEF Shelved, May
      <4>1. CASE k # kind
        BY <1>1, <2>6, <4>1 DEF Shelved
      <4>2. CASE k = kind
        <5>1. \A i \in 1..len : bank'[kind][i] = bank[kind][i] /\ bank[kind][i].text # t
          BY <2>10 DEF len
        <5>2. bank'[kind][len + 1] = row /\ Len(bank'[kind]) = len + 1
          BY <2>10 DEF row, len
        <5>3. \A i \in 1..len :
                /\ bank[kind][i].hash = <<kind, bank[kind][i].text>>
                /\ May(bank[kind][i].by, kind)
                /\ kind \in Apps => bank[kind][i].text \notin Payment
          BY <1>1, <1>2 DEF Shelved, len
        <5>4. \A i, j \in 1..len : bank[kind][i].text = bank[kind][j].text => i = j
          BY <1>1, <1>2 DEF Shelved, len
        <5>5. \A i \in 1..(len + 1) :
                /\ bank'[kind][i].hash = <<kind, bank'[kind][i].text>>
                /\ May(bank'[kind][i].by, kind)
                /\ kind \in Apps => bank'[kind][i].text \notin Payment
          <6> TAKE i \in 1..(len + 1)
          <6>1. CASE i \in 1..len
            BY <5>1, <5>3, <6>1
          <6>2. CASE i = len + 1
            BY <1>2, <1>3, <3>1, <5>2, <6>2
          <6> QED BY <3>3, <6>1, <6>2
        <5>6. \A i, j \in 1..(len + 1) : bank'[kind][i].text = bank'[kind][j].text => i = j
          <6> TAKE i, j \in 1..(len + 1)
          <6>1. CASE i \in 1..len /\ j \in 1..len
            BY <5>1, <5>4, <6>1
          <6>2. CASE i \in 1..len /\ j = len + 1
            BY <3>1, <5>1, <5>2, <6>2
          <6>3. CASE i = len + 1 /\ j \in 1..len
            BY <3>1, <5>1, <5>2, <6>3
          <6> QED BY <3>3, <6>1, <6>2, <6>3
        <5> QED BY <4>2, <5>2, <5>5, <5>6
      <4> QED BY <4>1, <4>2
    <3>5. OneRunRepeatsNothing'
      <4> SUFFICES ASSUME NEW k \in Kinds, NEW i \in DOMAIN bank'[k], NEW j \in DOMAIN bank'[k],
                          i # j, bank'[k][i].by = bank'[k][j].by,
                          bank'[k][i].embedded, bank'[k][j].embedded
                   PROVE  ~Alike(bank'[k][i].text, bank'[k][j].text)
        BY DEF OneRunRepeatsNothing
      <4>1. CASE k # kind
        BY <2>6, <4>1 DEF Bankers, OneRunRepeatsNothing
      <4>2. CASE k = kind
        <5>1. \A n \in 1..len : bank'[kind][n] = bank[kind][n]
          BY <2>10 DEF len
        <5>2. bank'[kind][len + 1] = row /\ i \in 1..(len + 1) /\ j \in 1..(len + 1)
          BY <2>10, <3>2, <4>2 DEF row, len
        <5>3. ASSUME NEW n \in 1..len, bank[kind][n].by = a, bank[kind][n].embedded, row.embedded
              PROVE  ~Alike(t, bank[kind][n].text) /\ ~Alike(bank[kind][n].text, t)
          <6>1. bank[kind][n].text \in run[a].existing
            BY <1>2, <5>3 DEF len
          <6>2. ~Alike(t, bank[kind][n].text)
            BY <1>7, <3>1, <5>3, <6>1
          <6> QED BY <6>2 DEF Alike
        <5>4. CASE i \in 1..len /\ j \in 1..len
          <6>1. i \in DOMAIN bank[kind] /\ j \in DOMAIN bank[kind]
            BY <1>2, <3>2, <5>4 DEF len
          <6>2. bank'[k][i] = bank[kind][i] /\ bank'[k][j] = bank[kind][j]
            BY <4>2, <5>1, <5>4
          <6>3. OneRunRepeatsNothing
            BY DEF Bankers
          <6> QED BY <1>2, <6>1, <6>2, <6>3 DEF OneRunRepeatsNothing
        <5>5. CASE i \in 1..len /\ j = len + 1
          BY <3>1, <4>2, <5>1, <5>2, <5>3, <5>5
        <5>6. CASE i = len + 1 /\ j \in 1..len
          BY <3>1, <4>2, <5>1, <5>2, <5>3, <5>6
        <5> QED BY <3>3, <5>2, <5>4, <5>5, <5>6
      <4> QED BY <4>1, <4>2
    <3>6. \A i \in 1..Len(bank'[kind]) :
            bank'[kind][i].by = a /\ bank'[kind][i].embedded => bank'[kind][i].text \in existing
      <4>1. \A i \in 1..len : bank'[kind][i] = bank[kind][i]
        BY <2>10 DEF len
      <4>2. bank'[kind][len + 1] = row /\ Len(bank'[kind]) = len + 1
        BY <2>10 DEF row, len
      <4> TAKE i \in 1..Len(bank'[kind])
      <4>3. CASE i \in 1..len
        BY <1>2, <2>2, <4>1, <4>3 DEF len
      <4>4. CASE i = len + 1
        BY <2>2, <3>1, <4>2, <4>4
      <4> QED BY <3>3, <4>2, <4>3, <4>4
    <3>7. Learns(a)'
      BY <1>2, <1>3, <2>4, <2>5, <2>7, <3>6 DEF Learns, May
    <3>8. ASSUME NEW b \in Actors \ {a} PROVE Learns(b)'
      <4>1. \A k \in Kinds : \A i \in 1..Len(bank'[k]) :
              bank'[k][i].by = b => \E j \in 1..Len(bank[k]) : bank'[k][i] = bank[k][j]
        <5> TAKE k \in Kinds
        <5>1. CASE k # kind
          BY <2>6, <5>1
        <5>2. CASE k = kind
          BY <2>10, <3>1, <3>3, <5>2 DEF row, len
        <5> QED BY <5>1, <5>2
      <4>2. Learns(b) /\ run'[b] = run[b] /\ b \in Actors
        BY <2>5 DEF Bankers
      <4> QED BY <1>1, <4>1, <4>2, LearnsStays
    <3>9. Awaited'
      BY <1>1, <1>4, <2>5, <2>8, AwaitedMoves
    <3>10. Few'
      <4>1. \A p \in Apps : Hashes(p)' \subseteq Hashes(p) \/ Unpruned(a, p)'
        <5> TAKE p \in Apps
        <5>1. CASE p # kind
          <6>1. bank'[p] = bank[p]
            BY <2>6, <5>1 DEF Kinds
          <6> QED BY <6>1 DEF Hashes
        <5> QED BY <2>8, <5>1
      <4> QED BY <1>1, <2>5, <2>8, <4>1, FewMoves DEF Bankers
    <3> QED BY <2>5, <3>4, <3>5, <3>7, <3>8, <3>9, <3>10 DEF Bankers
  <2> QED BY <2>6, <2>9, <2>10
<1> QED BY <1>5, <1>6, <1>7

-----------------------------------------------------------------------------
(* Pruning, and what the person, the host and the process do *)

\* The rows that stay when the oldest are doomed are the newest few.
LEMMA NewestAreFew ==
  ASSUME Shelved, BankAssumption, NEW p \in Kinds, NEW X,
         X \subseteq Hashes(p) \ {bank[p][i].hash : i \in 1..(Len(bank[p]) - MAX_NOTES_PER_APP)}
  PROVE  Cardinality(X) \in Nat /\ Cardinality(X) <= MAX_NOTES_PER_APP
<1> DEFINE len == Len(bank[p])
           max == MAX_NOTES_PER_APP
           first == IF len > max THEN len - max + 1 ELSE 1
           newest == first..len
           f == [i \in newest |-> bank[p][i].hash]
           Y == {f[i] : i \in newest}
<1>1. len \in Nat /\ max \in Nat
  BY LenProperties DEF Shelved, BankAssumption
<1>2. IsFiniteSet(newest) /\ Cardinality(newest) \in Nat /\ Cardinality(newest) <= max
  <2>1. first \in Int /\ len \in Int
    BY <1>1
  <2>2. Cardinality(newest) = IF first > len THEN 0 ELSE len - first + 1
    BY <2>1, FS_Interval
  <2>3. IsFiniteSet(newest)
    BY <2>1, FS_Interval
  <2>4. (len > max => first = len - max + 1) /\ (len <= max => first = 1)
    BY <1>1
  <2> HIDE DEF first, len, max, newest
  <2>5. (IF first > len THEN 0 ELSE len - first + 1) \in Nat
        /\ (IF first > len THEN 0 ELSE len - first + 1) <= max
    BY <1>1, <2>4
  <2> QED BY <2>2, <2>3, <2>5
<1>3. f \in Surjection(newest, Y)
  BY DEF Surjection
<1>4. IsFiniteSet(Y) /\ Cardinality(Y) <= Cardinality(newest)
  BY <1>2, <1>3, FS_Surjection
<1>5. X \subseteq Y
  <2> SUFFICES ASSUME NEW h \in X PROVE h \in Y
    OBVIOUS
  <2>1. PICK i \in 1..len : h = bank[p][i].hash
    BY DEF Hashes
  <2>2. i \notin 1..(len - max)
    BY <2>1
  <2>3. i \in newest
    BY <1>1, <2>2
  <2>4. f[i] = h
    BY <2>1, <2>3
  <2> QED BY <2>3, <2>4
<1> HIDE DEF Y, newest, max
<1>6. IsFiniteSet(X) /\ Cardinality(X) <= Cardinality(Y) /\ Cardinality(X) \in Nat /\ Cardinality(Y) \in Nat
  BY <1>4, <1>5, FS_Subset, FS_CardinalityType
<1> QED BY <1>1, <1>2, <1>4, <1>6 DEF max

LEMMA DoomKeeps ==
  ASSUME Bankers, BankAssumption, NEW a \in Actors, Doom(a)
  PROVE  Bankers'
<1> DEFINE kind == run[a].kind
           doomed == {bank[kind][i].hash : i \in 1..(Len(bank[kind]) - MAX_NOTES_PER_APP)}
           r == [run[a] EXCEPT !.at = "pruning", !.doomed = doomed]
<1>1. /\ run \in [Actors -> Learner] /\ run[a] \in Learner /\ Learns(a) /\ Awaited /\ Shelved /\ Few
      /\ run[a].at = "prune" /\ bank' = bank /\ learning' = learning /\ closing' = closing
  BY DEF Bankers, Doom
<1>2. kind \in Kinds /\ kind \in Apps /\ May(a, kind) /\ run[a].todo \in Seq(LessonTexts \ Payment)
      /\ run[a].stored /\ (run[a].notes # <<>> => Does[a] = "phone")
  BY <1>1 DEF Learner, Learns
<1>3. doomed \in SUBSET (Kinds \X LessonTexts)
  <2>1. bank[kind] \in Seq(StoredRows) /\ Len(bank[kind]) \in Nat
        /\ \A i \in 1..Len(bank[kind]) : bank[kind][i] \in StoredRows
    <3>1. bank[kind] \in Seq(StoredRows)
      BY <1>1, <1>2 DEF Shelved
    <3> HIDE DEF StoredRows, kind
    <3> QED BY <3>1, LenProperties, ElementOfSeq
  <2>2. \A i \in 1..Len(bank[kind]) : bank[kind][i].hash \in Kinds \X LessonTexts
    BY <2>1 DEF StoredRows
  <2>3. MAX_NOTES_PER_APP \in Nat
    BY DEF BankAssumption
  <2>4. \A i \in 1..(Len(bank[kind]) - MAX_NOTES_PER_APP) : i \in 1..Len(bank[kind])
    BY <2>1, <2>3
  <2> QED BY <2>2, <2>4
<1> HIDE DEF doomed
<1>4. run' = [run EXCEPT ![a] = r]
  BY <1>1 DEF Doom, doomed
<1>5. r \in Learner
  <2>1. "pruning" \in RunPhases
    BY DEF RunPhases
  <2> QED BY <1>1, <1>3, <2>1 DEF Learner
<1>6. r.at = "pruning" /\ r.kind = kind /\ r.notes = run[a].notes /\ r.stored = run[a].stored
      /\ r.todo = run[a].todo /\ r.doomed = doomed
  BY <1>1 DEF Learner
<1> HIDE DEF r, kind
<1>7. /\ run' \in [Actors -> Learner] /\ run'[a] = r /\ \A b \in Actors \ {a} : run'[b] = run[b]
  BY <1>1, <1>4, <1>5
<1>8. Learns(a)'
  <2>1. May(a, kind)'
    BY <1>2, <1>6, <1>7 DEF May, kind
  <2>2. run'[a].at = "pruning" /\ run'[a].kind = kind /\ run'[a].notes = run[a].notes
        /\ run'[a].todo = run[a].todo /\ run'[a].stored
    BY <1>2, <1>6, <1>7
  <2> QED BY <1>2, <2>1, <2>2 DEF Learns, May
<1>9. Shelved' /\ OneRunRepeatsNothing'
  BY <1>1, BankStays DEF Bankers
<1>10. \A b \in Actors \ {a} : Learns(b)'
  BY <1>1, <1>7, BankStays, LearnsStays DEF Bankers
<1>11. Awaited'
  <2>1. (a \in Background' <=> a \in Background) /\ run'[a].at # "dead" /\ run[a].at \notin Ends
    BY <1>1, <1>6, <1>7 DEF Background, Ends
  <2>2. learning \subseteq Actors /\ (a \in Background => a \in learning)
    BY <1>1 DEF Awaited
  <2> QED BY <1>1, <1>7, <2>1, <2>2, AwaitedMoves
<1>12. Few'
  <2> SUFFICES ASSUME NEW p \in Apps, NEW A \in SUBSET Pruning(p)',
                      Cardinality(Staying(p, A)') > MAX_NOTES_PER_APP
               PROVE  \E c \in Actors \ A : Unpruned(c, p)'
    BY DEF Few
  <2>1. CASE a \in A
    <3>1. p = kind
      BY <1>6, <1>7, <2>1 DEF Pruning
    <3>2. Staying(p, A)' \subseteq Hashes(p) \ doomed
      <4>1. run'[a].doomed = doomed /\ Hashes(p)' = Hashes(p)
        BY <1>1, <1>6, <1>7 DEF Hashes
      <4> QED BY <2>1, <4>1 DEF Staying
    <3>3. Cardinality(Staying(p, A)') \in Nat /\ Cardinality(Staying(p, A)') <= MAX_NOTES_PER_APP
      BY <1>1, <1>2, <3>1, <3>2, NewestAreFew DEF doomed
    <3>4. MAX_NOTES_PER_APP \in Nat
      BY DEF BankAssumption
    <3> QED BY <3>3, <3>4
  <2>2. CASE a \notin A
    <3>1. A \in SUBSET Pruning(p)
      BY <1>7, <2>2 DEF Pruning
    <3>2. Staying(p, A)' = Staying(p, A)
      <4>1. \A b \in A : run'[b] = run[b]
        BY <1>7, <2>2, <3>1 DEF Pruning
      <4>2. Hashes(p)' = Hashes(p)
        BY <1>1 DEF Hashes
      <4> QED BY <4>1, <4>2 DEF Staying
    <3>3. PICK c \in Actors \ A : Unpruned(c, p)
      BY <1>1, <3>1, <3>2 DEF Few
    <3>4. Unpruned(c, p)'
      <4>1. CASE c = a
        BY <1>6, <1>7, <3>3, <4>1 DEF Unpruned, kind
      <4>2. CASE c # a
        BY <1>7, <3>3, <4>2 DEF Unpruned
      <4> QED BY <4>1, <4>2
    <3> QED BY <3>3, <3>4
  <2> QED BY <2>1, <2>2
<1> QED BY <1>7, <1>8, <1>9, <1>10, <1>11, <1>12 DEF Bankers

LEMMA PruneKeeps ==
  ASSUME Bankers, BankAssumption, NEW a \in Actors, Prune(a)
  PROVE  Bankers'
<1> DEFINE kind == run[a].kind
           doomed == run[a].doomed
           T == {i \in 1..Len(bank[kind]) : bank[kind][i].hash \notin doomed}
<1>1. /\ run \in [Actors -> Learner] /\ run[a] \in Learner /\ Learns(a) /\ Awaited /\ Shelved /\ Few
      /\ OneRunRepeatsNothing
      /\ run[a].at = "pruning" /\ run[a].at \notin Ends /\ NextBatch(a) /\ closing' = closing
  BY DEF Bankers, Prune, Ends
<1>2. kind \in Kinds /\ kind \in Apps /\ kind # KIND /\ May(a, kind)
  BY <1>1 DEF Learner, Learns, KIND, BankAssumption
<1>3. bank' = [bank EXCEPT ![kind] = AtPositions(@, T)]
  <2>1. DOMAIN bank[kind] = 1..Len(bank[kind]) /\ bank \in [Kinds -> Seq(StoredRows)]
    <3> HIDE DEF StoredRows, kind
    <3> QED BY <1>1, <1>2, LenProperties DEF Shelved
  <2>2. bank' = [bank EXCEPT ![kind] = AtPositions(bank[kind], {i \in DOMAIN bank[kind] : bank[kind][i].hash \notin doomed})]
    BY <2>1 DEF Prune
  <2>3. {i \in DOMAIN bank[kind] : bank[kind][i].hash \notin doomed} = T
    BY <2>1
  <2> QED BY <2>2, <2>3
<1>4. T \in SUBSET (1..Len(bank[kind]))
  OBVIOUS
<1> HIDE DEF T
<1>5. /\ bank' \in [Kinds -> Seq(StoredRows)] /\ \A kk \in Kinds : Part(kk)
      /\ \A i \in 1..Len(bank'[kind]) : \E j \in T : bank'[kind][i] = bank[kind][j]
  <2> HIDE DEF kind, StoredRows
  <2>1. ASSUME NEW k \in Kinds, k = kind
        PROVE  /\ bank' \in [Kinds -> Seq(StoredRows)] /\ \A kk \in Kinds : Part(kk)
               /\ \A i \in 1..Len(bank'[k]) : \E j \in T : bank'[k][i] = bank[k][j]
    <3>1. T \in SUBSET (1..Len(bank[k])) /\ Cut(k, T) /\ Shelved
      BY <1>1, <1>3, <1>4, <2>1 DEF Cut
    <3> QED BY <3>1, PartsOf
  <2> QED BY <1>2, <2>1
<1>6. /\ Shelved' /\ OneRunRepeatsNothing'
      /\ \A k \in Kinds : Hashes(k)' \subseteq Hashes(k)
      /\ \A k \in Kinds : \A i \in 1..Len(bank'[k]) : \E j \in 1..Len(bank[k]) : bank'[k][i] = bank[k][j]
  BY <1>1, <1>5, ShrinkKeeps
<1>7. \A p \in Apps : p = kind => Hashes(p)' \cap doomed = {}
  <2> SUFFICES ASSUME NEW p \in Apps, p = kind PROVE Hashes(p)' \cap doomed = {}
    OBVIOUS
  <2>1. \A i \in 1..Len(bank'[p]) : bank'[p][i].hash \notin doomed
    BY <1>5 DEF T
  <2> HIDE DEF kind, doomed
  <2> QED BY <2>1 DEF Hashes
<1>8. /\ run' \in [Actors -> Learner] /\ \A b \in Actors \ {a} : run'[b] = run[b]
      /\ run'[a].at \in {"done", "read"} /\ ~run'[a].stored
      /\ Learns(a)' /\ learning' \in {learning, learning \ {a}}
      /\ a \in Background' => learning' = learning
  <2>1. CASE Leave(a, "done")
    <3>1. /\ run' \in [Actors -> Learner] /\ \A b \in Actors \ {a} : run'[b] = run[b]
          /\ run'[a].at = "done" /\ ~run'[a].stored /\ learning' = learning \ {a}
      BY <1>1, <2>1, LeaveIs
    <3>2. Learns(a)' /\ a \notin Background'
      BY <1>1, <2>1, <3>1, LeaveLearns DEF Background
    <3> QED BY <3>1, <3>2
  <2>2. CASE ~Leave(a, "done")
    <3>1. /\ run' \in [Actors -> Learner] /\ \A b \in Actors \ {a} : run'[b] = run[b]
          /\ run[a].notes # <<>> /\ run'[a].at = "read" /\ ~run'[a].stored
          /\ run'[a].kind \in Apps /\ run'[a].todo \in Seq(LessonTexts \ Payment)
          /\ learning' = learning
      BY <1>1, <2>2, NextIs
    <3>2. Learns(a)'
      BY <1>1, <3>1, NextLearns
    <3> QED BY <3>1, <3>2
  <2> QED BY <2>1, <2>2
<1>9. \A b \in Actors \ {a} : Learns(b)'
  BY <1>1, <1>6, <1>8, LearnsStays DEF Bankers
<1>10. Awaited'
  <2>1. learning \subseteq Actors /\ (a \in Background => a \in learning)
    BY <1>1 DEF Awaited
  <2>2. Does[a] = "phone"
    BY <1>2 DEF May
  <2>3. a \in Background /\ (a \in Background' \/ run'[a].at \in Ends) /\ run'[a].at # "dead"
    BY <1>1, <1>8, <2>2 DEF Background, Ends
  <2> QED BY <1>1, <1>8, <2>1, <2>3, AwaitedMoves
<1>11. Few'
  <2> SUFFICES ASSUME NEW p \in Apps, NEW A \in SUBSET Pruning(p)',
                      Cardinality(Staying(p, A)') > MAX_NOTES_PER_APP
               PROVE  \E c \in Actors \ A : Unpruned(c, p)'
    BY DEF Few
  <2>1. a \notin A /\ A \in SUBSET Pruning(p) /\ \A b \in A : run'[b] = run[b]
    BY <1>8 DEF Pruning
  <2> DEFINE B == IF p = kind THEN A \cup {a} ELSE A
  <2>2. B \in SUBSET Pruning(p) /\ A \subseteq B
    BY <1>1, <2>1 DEF Pruning
  <2>3. p \in Kinds /\ Staying(p, A)' \subseteq Staying(p, B)
    <3>1. Hashes(p)' \subseteq Hashes(p) /\ p \in Kinds
      BY <1>6 DEF Kinds
    <3>2. Staying(p, A)' = Hashes(p)' \ UNION {run[b].doomed : b \in A}
      BY <2>1 DEF Staying
    <3>3. CASE p = kind
      <4>1. B = A \cup {a} /\ Hashes(p)' \cap doomed = {}
        BY <1>7, <3>3
      <4> HIDE DEF B, kind
      <4> SUFFICES ASSUME NEW h \in Staying(p, A)' PROVE h \in Staying(p, B)
        BY <3>1
      <4>0. h \in Hashes(p)' /\ \A b \in A : h \notin run[b].doomed
        BY <3>2
      <4>2. h \notin doomed /\ h \in Hashes(p)
        BY <3>1, <4>0, <4>1
      <4>3. \A b \in B : h \notin run[b].doomed
        BY <4>0, <4>1, <4>2
      <4> QED BY <4>2, <4>3 DEF Staying
    <3>4. CASE p # kind
      BY <3>1, <3>2, <3>4 DEF Staying
    <3> QED BY <3>1, <3>3, <3>4
  <2>4. Cardinality(Staying(p, A)') <= Cardinality(Staying(p, B))
        /\ Cardinality(Staying(p, B)) \in Nat /\ Cardinality(Staying(p, A)') \in Nat
    <3>1. Staying(p, B) \subseteq Hashes(p)
      BY DEF Staying
    <3> HIDE DEF B
    <3> QED BY <1>1, <2>3, <3>1, FewerStay
  <2>5. MAX_NOTES_PER_APP \in Nat
    BY DEF BankAssumption
  <2>6. PICK c \in Actors \ B : Unpruned(c, p)
    <3> HIDE DEF B
    <3> QED BY <1>1, <2>2, <2>4, <2>5 DEF Few
  <2>7. c # a
    BY <2>6 DEF Unpruned
  <2>8. Unpruned(c, p)' /\ c \in Actors \ A
    BY <1>8, <2>2, <2>6, <2>7 DEF Unpruned
  <2> QED BY <2>8
<1> QED BY <1>6, <1>8, <1>9, <1>10, <1>11 DEF Bankers

\* A person's edit: the threads stay as they are, and no kind gets a row.
LEMMA EditKeeps ==
  ASSUME Bankers, BankAssumption, bank' \in [Kinds -> Seq(StoredRows)], \A k \in Kinds : Part(k),
         UNCHANGED <<run, learning, closing>>
  PROVE  Bankers'
<1>1. /\ Shelved' /\ OneRunRepeatsNothing'
      /\ \A k \in Kinds : Hashes(k)' \subseteq Hashes(k)
      /\ \A k \in Kinds : \A i \in 1..Len(bank'[k]) : \E j \in 1..Len(bank[k]) : bank'[k][i] = bank[k][j]
  BY ShrinkKeeps DEF Bankers
<1>2. \A a \in Actors : Learns(a)'
  BY <1>1, LearnsStays DEF Bankers
<1>3. Awaited'
  BY DEF Bankers, Awaited, Background, LossIsTold
<1>4. Few'
  <2> SUFFICES ASSUME NEW p \in Apps, NEW A \in SUBSET Pruning(p)',
                      Cardinality(Staying(p, A)') > MAX_NOTES_PER_APP
               PROVE  \E c \in Actors \ A : Unpruned(c, p)'
    BY DEF Few
  <2>1. A \in SUBSET Pruning(p) /\ p \in Kinds
    BY DEF Pruning, Kinds
  <2>2. Staying(p, A)' \subseteq Staying(p, A)
    BY <1>1, <2>1 DEF Staying
  <2>3. Cardinality(Staying(p, A)') <= Cardinality(Staying(p, A))
        /\ Cardinality(Staying(p, A)) \in Nat /\ Cardinality(Staying(p, A)') \in Nat
    <3>1. Staying(p, A) \subseteq Hashes(p)
      BY DEF Staying
    <3> QED BY <2>1, <2>2, <3>1, FewerStay DEF Bankers
  <2>4. MAX_NOTES_PER_APP \in Nat
    BY DEF BankAssumption
  <2>5. PICK c \in Actors \ A : Unpruned(c, p)
    BY <2>1, <2>3, <2>4 DEF Few, Bankers
  <2> QED BY <2>5 DEF Unpruned
<1> QED BY <1>1, <1>2, <1>3, <1>4 DEF Bankers

LEMMA DeleteKeeps ==
  ASSUME Bankers, BankAssumption, NEW k \in Kinds, Delete(k)
  PROVE  Bankers'
<1>1. PICK i \in DOMAIN bank[k] : bank' = [bank EXCEPT ![k] = AtPositions(@, DOMAIN @ \ {i})]
  BY DEF Delete
<1>2. DOMAIN bank[k] = 1..Len(bank[k])
  <2> HIDE DEF StoredRows
  <2> QED BY LenProperties DEF Bankers, Shelved
<1> DEFINE T == DOMAIN bank[k] \ {i}
<1>3. Cut(k, T) /\ T \in SUBSET (1..Len(bank[k])) /\ Shelved
  BY <1>1, <1>2 DEF Cut, Bankers
<1> HIDE DEF T
<1>4. bank' \in [Kinds -> Seq(StoredRows)] /\ \A kk \in Kinds : Part(kk)
  BY <1>3, PartsOf
<1> QED BY <1>4, EditKeeps DEF Delete

LEMMA ClearKeeps ==
  ASSUME Bankers, BankAssumption, NEW k \in Kinds, Clear(k)
  PROVE  Bankers'
<1>1. Shelved /\ bank' = [bank EXCEPT ![k] = <<>>]
  BY DEF Clear, Bankers
<1>2. bank' \in [Kinds -> Seq(StoredRows)] /\ \A kk \in Kinds : Part(kk)
  BY <1>1, EmptiedOf
<1> QED BY <1>2, EditKeeps DEF Clear

\* What the host does leaves the bank and the threads.
LEMMA HostKeeps ==
  ASSUME Bankers, UNCHANGED <<bank, run>>, Awaited'
  PROVE  Bankers'
<1>1. Shelved' /\ OneRunRepeatsNothing'
  BY BankStays DEF Bankers
<1>2. \A a \in Actors : Learns(a)'
  BY DEF Bankers, Learns, May
<1>3. Few'
  <2> SUFFICES ASSUME NEW p \in Apps, NEW A \in SUBSET Pruning(p)',
                      Cardinality(Staying(p, A)') > MAX_NOTES_PER_APP
               PROVE  \E c \in Actors \ A : Unpruned(c, p)'
    BY DEF Few
  <2>1. A \in SUBSET Pruning(p) /\ Staying(p, A)' = Staying(p, A)
    BY DEF Pruning, Staying, Hashes
  <2>2. PICK c \in Actors \ A : Unpruned(c, p)
    BY <2>1 DEF Few, Bankers
  <2> QED BY <2>2 DEF Unpruned
<1> QED BY <1>1, <1>2, <1>3 DEF Bankers

LEMMA CloseKeeps ==
  ASSUME Bankers, Close
  PROVE  Bankers'
<1>1. /\ closing.at = "open" /\ Awaited /\ UNCHANGED <<bank, run, learning>>
      /\ closing' = [closing EXCEPT !.at = "waiting", !.waits = learning, !.owed = Background]
  BY DEF Bankers, Close
<1>2. DOMAIN closing = {"at", "waits", "owed", "landed"}
  BY <1>1 DEF Awaited
<1>3. /\ closing'.at = "waiting" /\ closing'.waits = learning /\ closing'.owed = Background
      /\ DOMAIN closing' = {"at", "waits", "owed", "landed"}
  BY <1>1, <1>2
<1>4. Background' = Background /\ \A a \in Actors : run'[a].at # "dead"
  BY <1>1 DEF Background, Awaited
<1>5. Awaited'
  BY <1>1, <1>3, <1>4 DEF Awaited, LossIsTold, Background
<1> QED BY <1>1, <1>5, HostKeeps

LEMMA WaitedKeeps ==
  ASSUME Bankers, Waited
  PROVE  Bankers'
<1>1. /\ closing.at = "waiting" /\ Awaited /\ UNCHANGED <<bank, run, learning>>
      /\ closing' = [closing EXCEPT !.at = "closed", !.landed = closing.waits \cap learning = {}]
  BY DEF Bankers, Waited
<1>2. DOMAIN closing = {"at", "waits", "owed", "landed"}
  BY <1>1 DEF Awaited
<1>3. /\ closing'.at = "closed" /\ closing'.owed = closing.owed
      /\ (closing'.landed <=> closing.waits \cap learning = {})
      /\ DOMAIN closing' = {"at", "waits", "owed", "landed"}
  <2> DEFINE landed == closing.waits \cap learning = {}
             c == [closing EXCEPT !.at = "closed", !.landed = landed]
  <2>1. closing' = c
    BY <1>1
  <2> HIDE DEF landed
  <2>2. c.at = "closed" /\ c.owed = closing.owed /\ c.landed = landed
        /\ DOMAIN c = {"at", "waits", "owed", "landed"}
    BY <1>2
  <2> HIDE DEF c
  <2> QED BY <2>1, <2>2 DEF landed
<1>4. Background' = Background /\ \A a \in Actors : run'[a].at # "dead"
  BY <1>1 DEF Background, Awaited
<1>5. \A a \in closing.owed : a \in Background => ~closing'.landed
  BY <1>1, <1>3 DEF Awaited
<1>6. Awaited'
  BY <1>1, <1>3, <1>4, <1>5 DEF Awaited, LossIsTold
<1> QED BY <1>1, <1>6, HostKeeps

LEMMA ExitKeeps ==
  ASSUME Bankers, BankAssumption, Exit
  PROVE  Bankers'
<1>1. /\ run \in [Actors -> Learner] /\ Awaited /\ Few /\ closing.at = "closed"
      /\ bank' = bank /\ closing' = closing /\ learning' = {}
      /\ run' = [a \in Actors |-> IF a \in Background THEN [run[a] EXCEPT !.at = "dead"] ELSE run[a]]
  BY DEF Bankers, Exit
<1>2. ASSUME NEW a \in Actors, a \in Background
      PROVE  /\ run'[a] \in Learner /\ run'[a].at = "dead"
             /\ run'[a].kind = run[a].kind /\ run'[a].stored = run[a].stored
             /\ run'[a].notes = run[a].notes
  <2> DEFINE r == [run[a] EXCEPT !.at = "dead"]
  <2>1. run'[a] = r
    BY <1>1, <1>2
  <2>2. run[a] \in Learner /\ "dead" \in RunPhases
    BY <1>1 DEF RunPhases
  <2>3. r \in Learner /\ r.at = "dead" /\ r.kind = run[a].kind /\ r.stored = run[a].stored
        /\ r.notes = run[a].notes
    BY <2>2 DEF Learner
  <2> HIDE DEF r
  <2> QED BY <2>1, <2>3
<1>3. ASSUME NEW a \in Actors, a \notin Background PROVE run'[a] = run[a]
  BY <1>1, <1>3
<1>4. run' \in [Actors -> Learner]
  <2>1. \A a \in Actors : run'[a] \in Learner
    BY <1>1, <1>2, <1>3
  <2>2. DOMAIN run' = Actors /\ run' = [a \in Actors |-> run'[a]]
    BY <1>1
  <2> HIDE DEF Learner
  <2> QED BY <2>1, <2>2
<1>5. Background' = {}
  <2> SUFFICES ASSUME NEW a \in Background' PROVE FALSE
    OBVIOUS
  <2>1. a \in Actors /\ Does[a] = "phone"
        /\ run'[a].at \in {"distil", "read", "record", "prune", "pruning"}
    BY DEF Background
  <2>2. CASE a \in Background
    BY <1>2, <2>1, <2>2
  <2>3. CASE a \notin Background
    BY <1>3, <2>1, <2>3 DEF Background
  <2> QED BY <2>2, <2>3
<1>6. Awaited'
  <2>1. \A a \in closing.owed : a \in Actors /\ run'[a].at \in Ends
    <3> SUFFICES ASSUME NEW a \in closing.owed PROVE a \in Actors /\ run'[a].at \in Ends
      OBVIOUS
    <3>1. a \in Actors /\ (a \in Background \/ run[a].at \in Ends)
      BY <1>1 DEF Awaited
    <3> QED BY <1>2, <1>3, <3>1 DEF Ends
  <2>2. LossIsTold'
    <3> SUFFICES ASSUME NEW a \in closing.owed, run'[a].at = "dead" PROVE ~closing.landed
      BY <1>1 DEF LossIsTold
    <3>1. a \in Actors
      BY <2>1
    <3>2. CASE a \in Background
      BY <1>1, <3>2 DEF Awaited
    <3>3. CASE a \notin Background
      BY <1>1, <1>3, <3>1, <3>3 DEF Awaited, LossIsTold
    <3> QED BY <3>2, <3>3
  <2> QED BY <1>1, <1>5, <2>1, <2>2 DEF Awaited
<1>7. \A a \in Actors : Learns(a)'
  <2> TAKE a \in Actors
  <2>1. Learns(a) /\ run[a] \in Learner
    BY <1>1 DEF Bankers
  <2>2. CASE a \in Background
    <3>1. run'[a].at = "dead" /\ run'[a].notes = run[a].notes
      BY <1>2, <2>2
    <3> QED BY <2>1, <3>1 DEF Learns
  <2>3. CASE a \notin Background
    <3>1. run'[a] = run[a]
      BY <1>3, <2>3
    <3> QED BY <1>1, <2>1, <3>1, BankStays, LearnsStays
  <2> QED BY <2>2, <2>3
<1>8. Shelved' /\ OneRunRepeatsNothing'
  BY <1>1, BankStays DEF Bankers
<1>9. Few'
  <2> SUFFICES ASSUME NEW p \in Apps, NEW A \in SUBSET Pruning(p)',
                      Cardinality(Staying(p, A)') > MAX_NOTES_PER_APP
               PROVE  \E c \in Actors \ A : Unpruned(c, p)'
    BY DEF Few
  <2>1. A = {}
    <3> SUFFICES ASSUME NEW a \in Pruning(p)' PROVE FALSE
      OBVIOUS
    <3>1. a \in Actors /\ run'[a].at = "pruning" /\ run'[a].kind = p
      BY DEF Pruning
    <3>2. a \notin Background /\ run'[a] = run[a]
      BY <1>2, <1>3, <3>1
    <3>3. p # KIND
      BY DEF KIND, BankAssumption
    <3>4. Does[a] = "phone"
      BY <3>1, <3>2, <3>3 DEF Bankers, Learns, May
    <3> QED BY <3>1, <3>2, <3>4 DEF Background
  <2>2. Staying(p, A)' = Staying(p, {})
    BY <1>1, <2>1 DEF Staying, Hashes
  <2>3. {} \in SUBSET Pruning(p)
    OBVIOUS
  <2>4. PICK c \in Actors : Unpruned(c, p)
    BY <1>1, <2>2, <2>3 DEF Few
  <2>5. Unpruned(c, p)'
    BY <1>2, <1>3, <2>4 DEF Unpruned
  <2> QED BY <2>1, <2>5
<1> QED BY <1>4, <1>6, <1>7, <1>8, <1>9 DEF Bankers

-----------------------------------------------------------------------------
(* The theorems of the lesson bank *)

\* The bank starts empty,
LEMMA BankersStart == ASSUME BankInit, BankAssumption PROVE Bankers
<1>1. /\ bank = [k \in Kinds |-> <<>>] /\ run = [a \in Actors |-> Idle] /\ learning = {}
      /\ closing = [at |-> "open", waits |-> {}, owed |-> {}, landed |-> FALSE]
  BY DEF BankInit
<1>2. Idle \in Learner /\ Idle.at = "out" /\ Idle.notes = <<>> /\ ~Idle.stored
  BY IdleIs DEF Idle
<1>3. run \in [Actors -> Learner] /\ \A a \in Actors : run[a] = Idle
  <2> HIDE DEF Learner
  <2> QED BY <1>1, <1>2
<1>4. bank \in [Kinds -> Seq(StoredRows)] /\ \A k \in Kinds : bank[k] = <<>> /\ Len(bank[k]) = 0 /\ DOMAIN bank[k] = {}
  <2>1. <<>> \in Seq(StoredRows) /\ Len(<<>>) = 0 /\ DOMAIN <<>> = {}
    BY EmptySeq
  <2> HIDE DEF StoredRows
  <2> QED BY <1>1, <2>1
<1>5. Shelved /\ OneRunRepeatsNothing
  BY <1>4 DEF Shelved, OneRunRepeatsNothing
<1>6. \A a \in Actors : Learns(a)
  BY <1>2, <1>3 DEF Learns
<1>7. Awaited
  BY <1>1, <1>2, <1>3 DEF Awaited, Background, LossIsTold
<1>8. Few
  <2>1. \A p \in Apps : Hashes(p) = {}
    BY <1>4 DEF Hashes, Kinds
  <2>2. \A p \in Apps : \A A \in SUBSET Pruning(p) : Staying(p, A) = {}
    BY <2>1 DEF Staying
  <2>3. Cardinality({}) = 0 /\ MAX_NOTES_PER_APP \in Nat
    BY FS_EmptySet DEF BankAssumption
  <2> SUFFICES ASSUME NEW p \in Apps, NEW A \in SUBSET Pruning(p),
                      Cardinality(Staying(p, A)) > MAX_NOTES_PER_APP
               PROVE  FALSE
    BY DEF Few
  <2>4. Cardinality(Staying(p, A)) = 0
    BY <2>2, <2>3
  <2> QED BY <2>3, <2>4
<1> QED BY <1>3, <1>5, <1>6, <1>7, <1>8 DEF Bankers

\* and every step keeps what holds of it.
LEMMA BankersStay == ASSUME Bankers, BankAssumption, [BankNext]_bankVars PROVE Bankers'
<1>1. ASSUME NEW a \in Actors, Start(a) PROVE Bankers'
  BY <1>1, StartKeeps
<1>2. ASSUME NEW a \in Actors, EndRun(a) PROVE Bankers'
  BY <1>2, EndRunKeeps
<1>3. ASSUME NEW a \in Actors, Distil(a) PROVE Bankers'
  BY <1>3, DistilKeeps
<1>4. ASSUME NEW a \in Actors, Import(a) PROVE Bankers'
  BY <1>4, ImportKeeps
<1>5. ASSUME NEW a \in Actors, Existing(a) PROVE Bankers'
  BY <1>5, ExistingKeeps
<1>6. ASSUME NEW a \in Actors, Record(a) PROVE Bankers'
  BY <1>6, RecordKeeps
<1>7. ASSUME NEW a \in Actors, Refused(a) PROVE Bankers'
  BY <1>7, RefusedKeeps
<1>8. ASSUME NEW a \in Actors, Recorded(a) PROVE Bankers'
  BY <1>8, RecordedKeeps
<1>9. ASSUME NEW a \in Actors, Doom(a) PROVE Bankers'
  BY <1>9, DoomKeeps
<1>10. ASSUME NEW a \in Actors, Prune(a) PROVE Bankers'
  BY <1>10, PruneKeeps
<1>11. ASSUME NEW k \in Kinds, Delete(k) PROVE Bankers'
  BY <1>11, DeleteKeeps
<1>12. ASSUME NEW k \in Kinds, Clear(k) PROVE Bankers'
  BY <1>12, ClearKeeps
<1>13. CASE Close
  BY <1>13, CloseKeeps
<1>14. CASE Waited
  BY <1>14, WaitedKeeps
<1>15. CASE Exit
  BY <1>15, ExitKeeps
<1>16. CASE UNCHANGED bankVars
  <2>1. Awaited'
    BY <1>16 DEF Bankers, Awaited, Background, LossIsTold, bankVars
  <2> QED BY <1>16, <2>1, HostKeeps DEF bankVars
<1> QED
  BY <1>1, <1>2, <1>3, <1>4, <1>5, <1>6, <1>7, <1>8, <1>9, <1>10, <1>11, <1>12, <1>13, <1>14, <1>15, <1>16
  DEF BankNext

\* What the runs check of the bank follows.
LEMMA BankersTell == ASSUME Bankers, BankAssumption PROVE BankInv
<1>1. \A k \in Kinds : DOMAIN bank[k] = 1..Len(bank[k]) /\ Len(bank[k]) \in Nat
                       /\ \A i \in 1..Len(bank[k]) : bank[k][i] \in StoredRows
  <2> TAKE k \in Kinds
  <2>1. bank[k] \in Seq(StoredRows)
    BY DEF Bankers, Shelved
  <2> HIDE DEF StoredRows
  <2> QED BY <2>1, LenProperties, ElementOfSeq
<1>2. BankTypeOK
  BY <1>1 DEF Bankers, BankTypeOK, Learner, Awaited
<1>3. KindsStayApart
  <2> SUFFICES ASSUME NEW k \in Kinds, NEW i \in DOMAIN bank[k]
               PROVE  CASE k = KIND -> Does[bank[k][i].by] # "phone"
                        [] k = PHONE_KIND -> Does[bank[k][i].by] = "phone"
                        [] OTHER -> Does[bank[k][i].by] = "phone" /\ bank[k][i].text \notin Payment
    BY DEF KindsStayApart
  <2>1. May(bank[k][i].by, k) /\ (k \in Apps => bank[k][i].text \notin Payment)
    BY <1>1 DEF Bankers, Shelved
  <2>2. k = KIND \/ k = PHONE_KIND \/ k \in Apps
    BY DEF Kinds
  <2>3. KIND # PHONE_KIND /\ KIND \notin Apps /\ PHONE_KIND \notin Apps
    BY DEF KIND, PHONE_KIND, BankAssumption
  <2>4. CASE k = KIND
    BY <2>1, <2>3, <2>4 DEF May
  <2>5. CASE k = PHONE_KIND
    BY <2>1, <2>3, <2>5 DEF May
  <2>6. CASE k \in Apps
    BY <2>1, <2>3, <2>6 DEF May
  <2> QED BY <2>2, <2>4, <2>5, <2>6
<1>4. AppsKeepFew
  <2> SUFFICES ASSUME NEW p \in Apps, Len(bank[p]) > MAX_NOTES_PER_APP
               PROVE  \E a \in Actors : Unpruned(a, p)
    BY DEF AppsKeepFew
  <2> DEFINE f == [i \in 1..Len(bank[p]) |-> bank[p][i].hash]
  <2>1. p \in Kinds /\ Len(bank[p]) \in Nat
    BY <1>1 DEF Kinds
  <2>2. \A i, j \in 1..Len(bank[p]) : bank[p][i].hash = bank[p][j].hash => i = j
    <3>1. \A i \in 1..Len(bank[p]) : bank[p][i].hash = <<p, bank[p][i].text>>
      BY <2>1 DEF Bankers, Shelved
    <3>2. \A i, j \in 1..Len(bank[p]) : bank[p][i].text = bank[p][j].text => i = j
      BY <2>1 DEF Bankers, Shelved
    <3> QED BY <3>1, <3>2
  <2>3. f \in Injection(1..Len(bank[p]), Hashes(p))
    BY <2>2 DEF Injection, IsInjective, Hashes
  <2>4. IsFiniteSet(1..Len(bank[p])) /\ Cardinality(1..Len(bank[p])) = Len(bank[p])
    <3>1. \A n \in Nat : Cardinality(1..n) = n
      BY FS_Interval
    <3>2. IsFiniteSet(1..Len(bank[p]))
      <4>1. Len(bank[p]) \in Int /\ 1 \in Int
        BY <2>1
      <4> HIDE DEF f
      <4> QED BY <4>1, FS_Interval
    <3> QED BY <2>1, <3>1, <3>2
  <2>5. IsFiniteSet(Hashes(p)) /\ Cardinality(Hashes(p)) \in Nat
    BY <2>1, HashesAreFinite DEF Bankers
  <2>6. Len(bank[p]) <= Cardinality(Hashes(p))
    BY <2>3, <2>4, <2>5, FS_Injection
  <2>7. Staying(p, {}) = Hashes(p) /\ {} \in SUBSET Pruning(p)
    BY DEF Staying
  <2>8. Cardinality(Staying(p, {})) > MAX_NOTES_PER_APP
    BY <2>1, <2>5, <2>6, <2>7 DEF BankAssumption
  <2> QED BY <2>7, <2>8 DEF Bankers, Few
<1> QED BY <1>2, <1>3, <1>4 DEF BankInv, Bankers, Awaited

\* Whoever learns, at whatever pace, and whenever a person edits or the process
\* ends, the inductive invariant holds.
THEOREM BankersAlways == BankSpec => []Bankers
<1>1. BankInit => Bankers
  BY BankAssumption, BankersStart
<1>2. Bankers /\ [BankNext]_bankVars => Bankers'
  BY BankAssumption, BankersStay
<1> QED BY <1>1, <1>2, PTL DEF BankSpec

\* What is in the bank is of its own kind, said once by a run, few per app, and
\* what did not reach it the host was told (lessons.py record_lessons,
\* prune_kind; nodes.py wait_for_learning).
THEOREM BankHolds == BankSpec => []BankInv
<1>1. Bankers => BankInv
  BY BankAssumption, BankersTell
<1> QED BY <1>1, BankersAlways, PTL

\* Only a thread that records reports more as kept.
LEMMA KeptGrows ==
  ASSUME run \in [Actors -> Learner], [BankNext]_bankVars, NEW a \in Actors, ~Record(a)
  PROVE  run'[a].kept \subseteq run[a].kept
<1> DEFINE Same == run'[a].kept \subseteq run[a].kept
<1>1. Idle \in Learner /\ Idle.kept = {}
  BY IdleIs DEF Idle
<1>2. ASSUME NEW c \in Actors, NEW at, Leave(c, at) PROVE Same
  <2> DEFINE r == [Idle EXCEPT !.at = at, !.kind = run[c].kind, !.stored = at = "raised" /\ run[c].stored]
  <2>1. r.kept = {}
    BY <1>1 DEF Learner
  <2> HIDE DEF r
  <2>2. run' = [run EXCEPT ![c] = r]
    BY <1>2 DEF Leave, r
  <2> QED BY <2>1, <2>2
<1>3. ASSUME NEW c \in Actors, NextBatch(c) PROVE Same
  <2>1. CASE Leave(c, "done")
    BY <1>2, <2>1
  <2>2. CASE ~Leave(c, "done")
    <3> DEFINE take == AtMost(MAX_NOTES_PER_RUN - run[c].offered, Head(run[c].notes).todo)
               rest == Tail(run[c].notes)
               kind == Head(run[c].notes).kind
               offered == run[c].offered + Len(take)
               r == [Idle EXCEPT !.at = "read", !.notes = rest, !.kind = kind, !.todo = take, !.offered = offered]
    <3>1. run' = [run EXCEPT ![c] = r]
      BY <1>3, <2>2 DEF NextBatch
    <3> HIDE DEF take, rest, kind, offered
    <3>2. r.kept = {}
      BY <1>1 DEF Learner
    <3> HIDE DEF r
    <3> QED BY <3>1, <3>2
  <2> QED BY <2>1, <2>2
<1>4. ASSUME NEW c \in Actors, Start(c) PROVE Same
  <2>1. PICK read : run' = [run EXCEPT ![c].at = "running", ![c].read = read]
    BY <1>4 DEF Start
  <2> QED BY <2>1 DEF Learner
<1>5. ASSUME NEW c \in Actors, NEW at, run' = [run EXCEPT ![c].at = at] PROVE Same
  BY <1>5 DEF Learner
<1>6. ASSUME NEW c \in Actors, EndRun(c) PROVE Same
  BY <1>5, <1>6 DEF EndRun
<1>7. ASSUME NEW c \in Actors, Distil(c) PROVE Same
  <2>1. CASE Leave(c, "done")
    BY <1>2, <2>1
  <2>2. CASE ~Leave(c, "done")
    <3>1. PICK todo, notes : run' = [run EXCEPT ![c].at = "read", ![c].kind = LessonKind(c),
                                       ![c].todo = todo, ![c].notes = notes]
      BY <1>7, <2>2 DEF Distil
    <3> QED BY <3>1 DEF Learner
  <2> QED BY <2>1, <2>2
<1>8. ASSUME NEW c \in Actors, Import(c) PROVE Same
  <2>1. CASE c \notin Writers
    BY <1>5, <1>8, <2>1 DEF Import
  <2>2. CASE c \in Writers
    <3>1. PICK file : run' = [run EXCEPT ![c].at = "read", ![c].todo = file]
      BY <1>8, <2>2 DEF Import
    <3> QED BY <3>1 DEF Learner
  <2> QED BY <2>1, <2>2
<1>9. ASSUME NEW c \in Actors, Existing(c) PROVE Same
  <2>1. PICK read : run' = [run EXCEPT ![c].at = "record", ![c].stored = FALSE, ![c].existing = read]
    BY <1>9 DEF Existing
  <2> QED BY <2>1 DEF Learner
<1>10. ASSUME NEW c \in Actors \ {a}, Record(c) PROVE Same
  <2>1. PICK embedded \in BOOLEAN :
          \/ run' = [run EXCEPT ![c].todo = Tail(@)]
          \/ run' = [run EXCEPT ![c].todo = Tail(@),
                        ![c].existing = Known(c, Head(run[c].todo), embedded),
                        ![c].kept = @ \cup {<<run[c].kind, Head(run[c].todo)>>}, ![c].stored = TRUE]
    BY <1>10 DEF Record
  <2>2. run'[a] = run[a]
    BY <2>1
  <2> QED BY <2>2
<1>11. ASSUME NEW c \in Actors, Refused(c) PROVE Same
  BY <1>2, <1>11 DEF Refused
<1>12. ASSUME NEW c \in Actors, Recorded(c) PROVE Same
  BY <1>3, <1>5, <1>12 DEF Recorded
<1>13. ASSUME NEW c \in Actors, Doom(c) PROVE Same
  <2>1. PICK doomed : run' = [run EXCEPT ![c].at = "pruning", ![c].doomed = doomed]
    BY <1>13 DEF Doom
  <2> QED BY <2>1 DEF Learner
<1>14. ASSUME NEW c \in Actors, Prune(c) PROVE Same
  BY <1>3, <1>14 DEF Prune
<1>15. ASSUME run' = run PROVE Same
  BY <1>15
<1>16. ASSUME NEW k \in Kinds, Delete(k) \/ Clear(k) PROVE Same
  BY <1>15, <1>16 DEF Delete, Clear
<1>17. ASSUME Close \/ Waited PROVE Same
  BY <1>15, <1>17 DEF Close, Waited
<1>18. ASSUME Exit PROVE Same
  <2>1. run'[a] = IF a \in Background THEN [run[a] EXCEPT !.at = "dead"] ELSE run[a]
    BY <1>18 DEF Exit
  <2>2. [run[a] EXCEPT !.at = "dead"].kept = run[a].kept
    BY DEF Learner
  <2> QED BY <2>1, <2>2
<1>19. ASSUME UNCHANGED bankVars PROVE Same
  BY <1>15, <1>19 DEF bankVars
<1> HIDE DEF Same
<1>20. Same
  BY <1>4, <1>6, <1>7, <1>8, <1>9, <1>10, <1>11, <1>12, <1>13, <1>14, <1>16, <1>17, <1>18, <1>19
  DEF BankNext
<1> QED BY <1>20 DEF Same

\* And what it records is banked under its kind.
LEMMA KeepsWhatIsBanked ==
  ASSUME Bankers, [BankNext]_bankVars, NEW a \in Actors, NEW kt \in run'[a].kept \ run[a].kept
  PROVE  \E i \in DOMAIN bank'[kt[1]] : bank'[kt[1]][i].text = kt[2]
<1> DEFINE kind == run[a].kind
           t == Head(run[a].todo)
<1>1. run \in [Actors -> Learner] /\ run[a] \in Learner /\ Learns(a) /\ Shelved
  BY DEF Bankers
<1>2. Record(a)
  BY <1>1, KeptGrows
<1>3. kind \in Kinds /\ t \in LessonTexts
  BY <1>1, <1>2, HeadIs DEF Record, Learner
<1>4. PICK embedded \in BOOLEAN :
          \/ run' = [run EXCEPT ![a].todo = Tail(@)]
          \/ /\ bank' = Added(a, t, embedded)
             /\ run' = [run EXCEPT ![a].todo = Tail(@), ![a].existing = Known(a, t, embedded),
                           ![a].kept = @ \cup {<<kind, t>>}, ![a].stored = TRUE]
  BY <1>2 DEF Record
<1>5. CASE run' = [run EXCEPT ![a].todo = Tail(@)]
  <2>1. run'[a].kept = run[a].kept
    BY <1>1, <1>5 DEF Learner
  <2> QED BY <2>1
<1>6. CASE /\ bank' = Added(a, t, embedded)
           /\ run' = [run EXCEPT ![a].todo = Tail(@), ![a].existing = Known(a, t, embedded),
                         ![a].kept = @ \cup {<<kind, t>>}, ![a].stored = TRUE]
  <2>1. run'[a].kept = run[a].kept \cup {<<kind, t>>}
    <3> DEFINE known == Known(a, t, embedded)
               rest == Tail(run[a].todo)
               kept == run[a].kept \cup {<<kind, t>>}
               r == [run[a] EXCEPT !.todo = rest, !.existing = known, !.kept = kept, !.stored = TRUE]
    <3> HIDE DEF known, rest, kept
    <3>1. run' = [run EXCEPT ![a] = r]
      BY <1>1, <1>6 DEF known, rest, kept
    <3>2. r.kept = kept
      BY <1>1 DEF Learner
    <3> HIDE DEF r
    <3> QED BY <1>1, <3>1, <3>2 DEF kept
  <2>2. kt = <<kind, t>>
    BY <2>1
  <2>3. \E i \in 1..Len(bank'[kind]) : bank'[kind][i].text = t
    <3> HIDE DEF kind, t
    <3>1. Shelved /\ run[a].kind \in Kinds /\ t \in LessonTexts /\ bank' = Added(a, t, embedded)
      BY <1>1, <1>3, <1>6 DEF kind
    <3>2. Banked(run[a].kind, t)
      BY <3>1, AddedIs
    <3> QED BY <3>2 DEF Banked, kind
  <2>4. DOMAIN bank'[kind] = 1..Len(bank'[kind])
    <3>1. bank' \in [Kinds -> Seq(StoredRows)]
      BY <1>1, <1>3, <1>6, AddedIs
    <3> HIDE DEF StoredRows, kind
    <3> QED BY <1>3, <3>1, LenProperties
  <2> QED BY <2>2, <2>3, <2>4
<1> QED BY <1>4, <1>5, <1>6

\* What a run reports as kept is in the bank, under the kind it was learned
\* under (lessons.py record_lessons, _hash).
THEOREM KeptAreBanked == BankSpec => KeptIsBanked
<1> DEFINE AllBanked == \A a \in Actors : \A kt \in run'[a].kept \ run[a].kept :
                       \E i \in DOMAIN bank'[kt[1]] : bank'[kt[1]][i].text = kt[2]
<1>1. Bankers /\ [BankNext]_bankVars => [AllBanked]_bankVars
  BY KeepsWhatIsBanked
<1>2. KeptIsBanked <=> [][AllBanked]_bankVars
  BY DEF KeptIsBanked
<1> HIDE DEF AllBanked
<1> QED BY <1>1, <1>2, BankersAlways, PTL DEF BankSpec

-----------------------------------------------------------------------------
(* The conversation of a run: what is taken from places of it *)

\* Places that are taken from a sequence and, with more behind them, from one
\* that continues it, begin with the same elements.
LEMMA PlacesBegin ==
  ASSUME NEW S, NEW s \in Seq(S), NEW r \in Seq(S), Len(s) <= Len(r),
         NEW T \in SUBSET (1..Len(s)), NEW U \in SUBSET (1..Len(r)),
         T \subseteq U, \A k \in U : k <= Len(s) => k \in T, \A k \in T : r[k] = s[k]
  PROVE  /\ Len(AtPositions(s, T)) <= Len(AtPositions(r, U))
         /\ SubSeq(AtPositions(r, U), 1, Len(AtPositions(s, T))) = AtPositions(s, T)
<1> DEFINE c == Cardinality(T)
           d == Cardinality(U)
<1>0. Len(s) \in Nat /\ Len(r) \in Nat
  BY LenProperties
<1>1. /\ c \in Nat
      /\ \A k \in T : RankIn(T, k) \in 1..c
      /\ \A n \in 1..c : \E k \in T : RankIn(T, k) = n
  <2> HIDE DEF c
  <2> DEFINE n0 == Len(s)
  <2>1. n0 \in Nat /\ T \in SUBSET (1..n0)
    BY <1>0
  <2> HIDE DEF n0
  <2> QED
    BY <2>1, RankIsOnto DEF c
<1>2. /\ d \in Nat
      /\ \A k \in U : RankIn(U, k) \in 1..d
      /\ \A j, k \in U : RankIn(U, j) = RankIn(U, k) => j = k
  <2> HIDE DEF d
  <2> DEFINE n0 == Len(r)
  <2>1. n0 \in Nat /\ U \in SUBSET (1..n0)
    BY <1>0
  <2> HIDE DEF n0
  <2> QED
    BY <2>1, RankIsOnto DEF d
<1>3. IsFiniteSet(U) /\ c <= d
  <2>1. IsFiniteSet(U)
    <3>1. IsFiniteSet(1..Len(r))
      BY <1>0, FS_Interval
    <3> QED
      BY <3>1, FS_Subset
  <2> QED
    BY <2>1, FS_Subset
<1>4. ASSUME NEW k \in T
      PROVE  RankIn(U, k) = RankIn(T, k)
  <2>1. {j \in U : j <= k} = {j \in T : j <= k}
    <3>1. k \in Nat /\ k <= Len(s)
      BY <1>0
    <3>2. \A j \in U : j \in Nat
      BY <1>0
    <3>3. \A j \in U : j <= k => j \in T
      BY <1>0, <3>1, <3>2
    <3> QED
      BY <3>3
  <2> QED
    BY <2>1 DEF RankIn
<1>5. ASSUME NEW n \in 1..c
      PROVE  AtPositions(r, U)[n] = AtPositions(s, T)[n]
  <2>1. PICK k \in T : RankIn(T, k) = n
    BY <1>1
  <2>2. k \in U /\ RankIn(U, k) = n
    BY <1>4, <2>1
  <2>3. (CHOOSE j \in T : RankIn(T, j) = n) = k
    <3>1. \A j \in T : RankIn(T, j) = n => j = k
      BY <1>2, <1>4, <2>1, <2>2
    <3> QED
      BY <2>1, <3>1
  <2>4. (CHOOSE j \in U : RankIn(U, j) = n) = k
    <3>1. \A j \in U : RankIn(U, j) = n => j = k
      BY <1>2, <2>2
    <3> QED
      BY <2>2, <3>1
  <2>5. AtPositions(s, T)[n] = s[k]
    BY <1>1, <2>3 DEF AtPositions, RankIn
  <2>6. AtPositions(r, U)[n] = r[k]
    <3>1. n \in 1..d
      BY <1>1, <1>2, <1>3
    <3> QED
      BY <2>4, <3>1 DEF AtPositions, RankIn
  <2> QED
    BY <2>1, <2>5, <2>6
<1>6. AtPositions(s, T) \in Seq(S) /\ Len(AtPositions(s, T)) = c
  <2>1. \A n \in 1..c : (CHOOSE k \in T : RankIn(T, k) = n) \in T
    BY <1>1
  <2>2. \A k \in T : s[k] \in S
    BY ElementOfSeq
  <2>3. AtPositions(s, T) = [n \in 1..c |-> s[CHOOSE k \in T : RankIn(T, k) = n]]
    BY DEF AtPositions, RankIn
  <2> HIDE DEF c
  <2>4. AtPositions(s, T) \in [1..c -> S]
    BY <2>1, <2>2, <2>3
  <2> QED
    BY <1>1, <2>4
<1>7. AtPositions(r, U) \in Seq(S) /\ Len(AtPositions(r, U)) = d
  <2>1. \A n \in 1..d : (CHOOSE k \in U : RankIn(U, k) = n) \in U
    BY <1>0, RankIsOnto
  <2>2. \A k \in U : r[k] \in S
    BY ElementOfSeq
  <2>3. AtPositions(r, U) = [n \in 1..d |-> r[CHOOSE k \in U : RankIn(U, k) = n]]
    BY DEF AtPositions, RankIn
  <2> HIDE DEF d
  <2>4. AtPositions(r, U) \in [1..d -> S]
    BY <2>1, <2>2, <2>3
  <2> QED
    BY <1>2, <2>4
<1> DEFINE a == AtPositions(s, T)
           b == AtPositions(r, U)
<1> HIDE DEF a, b, c, d
<1>8. a \in Seq(S) /\ Len(a) = c /\ b \in Seq(S) /\ Len(b) = d
  BY <1>6, <1>7 DEF a, b, c, d
<1>9. \A n \in 1..c : b[n] = a[n]
  BY <1>5 DEF a, b
<1>10. SubSeq(b, 1, c) = a
  <2>1. SubSeq(b, 1, c) \in Seq(S) /\ Len(SubSeq(b, 1, c)) = c
    BY <1>1, <1>2, <1>3, <1>8
  <2>2. \A n \in 1..c : SubSeq(b, 1, c)[n] = a[n]
    BY <1>1, <1>2, <1>3, <1>8, <1>9
  <2> QED
    BY <1>8, <2>1, <2>2, SeqEqual
<1> QED
  BY <1>3, <1>8, <1>10 DEF a, b

\* What is left of a sequence without its first element is its tail.
LEMMA PlacesOfTail ==
  ASSUME NEW S, NEW s \in Seq(S), s # <<>>
  PROVE  AtPositions(s, 2..Len(s)) = Tail(s)
<1> DEFINE T == 2..Len(s)
           c == Cardinality(T)
<1>1. Len(s) \in Nat /\ Len(s) >= 1
  BY LenProperties, EmptySeq
<1>2. c = Len(s) - 1
  BY <1>1, FS_Interval
<1>3. ASSUME NEW k \in T
      PROVE  RankIn(T, k) = k - 1
  <2>1. {j \in T : j <= k} = 2..k
    BY <1>1
  <2>2. Cardinality(2..k) = k - 1
    BY <1>1, FS_Interval
  <2> QED
    BY <2>1, <2>2 DEF RankIn
<1>4. ASSUME NEW n \in 1..(Len(s) - 1)
      PROVE  (CHOOSE k \in T : RankIn(T, k) = n) = n + 1
  <2>1. n + 1 \in T /\ RankIn(T, n + 1) = n
    BY <1>1, <1>3
  <2>2. \A k \in T : RankIn(T, k) = n => k = n + 1
    BY <1>1, <1>3
  <2> QED
    BY <2>1, <2>2
<1>5. AtPositions(s, T) = [n \in 1..c |-> s[CHOOSE k \in T : RankIn(T, k) = n]]
  BY DEF AtPositions, RankIn
<1> HIDE DEF c, T
<1>6. AtPositions(s, T) = [n \in 1..(Len(s) - 1) |-> s[n + 1]]
  BY <1>2, <1>4, <1>5
<1> QED
  BY <1>1, <1>6 DEF T


\* What is at all the places of a sequence is the sequence.
LEMMA PlacesOfAll ==
  ASSUME NEW S, NEW s \in Seq(S)
  PROVE  AtPositions(s, 1..Len(s)) = s
<1> DEFINE T == 1..Len(s)
           c == Cardinality(T)
<1>1. Len(s) \in Nat
  BY LenProperties
<1>2. c = Len(s)
  BY <1>1, FS_Interval
<1>3. ASSUME NEW k \in T
      PROVE  RankIn(T, k) = k
  <2>1. {j \in T : j <= k} = 1..k
    BY <1>1
  <2>2. Cardinality(1..k) = k
    BY <1>1, FS_Interval
  <2> QED
    BY <2>1, <2>2 DEF RankIn
<1>4. ASSUME NEW n \in 1..Len(s)
      PROVE  (CHOOSE k \in T : RankIn(T, k) = n) = n
  <2>1. n \in T /\ RankIn(T, n) = n
    BY <1>1, <1>3
  <2>2. \A k \in T : RankIn(T, k) = n => k = n
    BY <1>1, <1>3
  <2> QED
    BY <2>1, <2>2
<1>5. AtPositions(s, T) = [n \in 1..c |-> s[CHOOSE k \in T : RankIn(T, k) = n]]
  BY DEF AtPositions, RankIn
<1> HIDE DEF c, T
<1>6. AtPositions(s, T) = [n \in 1..Len(s) |-> s[n]]
  BY <1>2, <1>4, <1>5
<1> QED
  BY <1>1, <1>6 DEF T

-----------------------------------------------------------------------------
(* What holds of a conversation *)

Tools == {out.tool : out \in Outputs} \cup {"none", "delegate", "send", "switch"}
Given == [tool : Tools, long : BOOLEAN, marked : BOOLEAN]

Saying ==
  [by : {"human"}, what : {"task", "mode", "hold", "answer", "rejected", "refused", "fresh"}]
  \cup [by : {"human"}, what : {"produced"}, call : Nat]
Calling == [by : {"ai"}, call : Nat, tool : Tools]
Outcome == [by : {"result"}, call : Nat, tool : Tools, long : BOOLEAN,
            marked : BOOLEAN, left : {"full", "head", "line"},
            folded : BOOLEAN, line : Nat, hint : BOOLEAN]
Message == {System} \cup Saying \cup Calling \cup Outcome

OutcomesAt(ms) == {i \in DOMAIN ms : IsResult(ms[i])}
ScreensAt(ms) == {i \in OutcomesAt(ms) : ms[i].tool = "screen"}
After(T, i) == {j \in T : j > i}

\* The system messages are one, the first.
Shaped(ms) ==
  /\ ms \in Seq(Message) /\ ms # <<>> /\ ms[1] = System
  /\ \A i \in DOMAIN ms : ms[i].by = "system" => i = 1

\* Each result is behind its call, and the calls are in order.
Paired(ms, n) ==
  /\ \A i \in OutcomesAt(ms) : ms[i-1].by = "ai" /\ ms[i-1].call = ms[i].call
  /\ \A i \in OutcomesAt(ms) : ms[i].call <= n
  /\ \A i, j \in OutcomesAt(ms) : i < j => ms[i].call < ms[j].call

\* What folding and compaction leave of the results.
Spared(ms) ==
  /\ \A i \in OutcomesAt(ms) : i > Len(ms) - KEEP_VERBATIM => ms[i].left = "full"
  /\ \A i \in OutcomesAt(ms) : ms[i].marked => ms[i].left = "full"
  /\ \A i \in ScreensAt(ms) : ms[i].folded =>
       Cardinality(After(ScreensAt(ms), i)) >= SCREENS_KEPT

\* A stub that says searchable is of a call the store has something of.
Searchable(ms, kept) ==
  \A i \in OutcomesAt(ms) : ms[i].hint => \E k \in kept : k.call = ms[i].call

Sound(ms, kept, n) ==
  Shaped(ms) /\ Paired(ms, n) /\ Spared(ms) /\ Searchable(ms, kept)

\* The same results of the same calls in the same places, and all else as it was.
Reshaped(ms, t) ==
  /\ t \in Seq(Message) /\ Len(t) = Len(ms)
  /\ \A i \in DOMAIN ms : ~IsResult(ms[i]) => t[i] = ms[i]
  /\ \A i \in OutcomesAt(ms) :
       /\ IsResult(t[i])
       /\ t[i].call = ms[i].call /\ t[i].tool = ms[i].tool /\ t[i].marked = ms[i].marked

\* What an escalation would go on from.
Headed(ms) ==
  /\ Notes <= 1 => Len(ms) >= 2 /\ ms[2] = Say("task")
  /\ Notes = 0 => Len(ms) >= 3 /\ ms[3] = Say("mode")

Talking ==
  /\ Sound(messages, store, made) /\ Headed(messages)
  /\ made \in Nat /\ actions \in Seq(Nat)

-----------------------------------------------------------------------------
(* Folding and compacting *)

\* A message that is a result has what a result has.
LEMMA ResultIs ==
  ASSUME NEW m \in Message, IsResult(m)
  PROVE  m \in Outcome
BY DEF IsResult, Message, System, Saying, Calling, Outcome

\* The places of a conversation are numbers.
LEMMA IndicesAre ==
  ASSUME NEW ms \in Seq(Message)
  PROVE  /\ Len(ms) \in Nat /\ DOMAIN ms = 1..Len(ms)
         /\ \A i \in DOMAIN ms : i \in Nat /\ ms[i] \in Message
         /\ IsFiniteSet(OutcomesAt(ms)) /\ IsFiniteSet(ScreensAt(ms))
<1>1. Len(ms) \in Nat /\ DOMAIN ms = 1..Len(ms)
  BY LenProperties
<1>2. \A i \in DOMAIN ms : i \in Nat /\ ms[i] \in Message
  BY <1>1, ElementOfSeq
<1>3. IsFiniteSet(DOMAIN ms)
  BY <1>1, FS_Interval
<1>4. OutcomesAt(ms) \subseteq DOMAIN ms /\ ScreensAt(ms) \subseteq DOMAIN ms
  BY DEF OutcomesAt, ScreensAt
<1> QED
  BY <1>1, <1>2, <1>3, <1>4, FS_Subset

\* What results are like in a conversation that is reshaped.
LEMMA ReshapedIs ==
  ASSUME NEW ms \in Seq(Message), NEW t, Reshaped(ms, t)
  PROVE  /\ DOMAIN t = DOMAIN ms
         /\ OutcomesAt(t) = OutcomesAt(ms) /\ ScreensAt(t) = ScreensAt(ms)
         /\ \A i \in DOMAIN ms : t[i].by = ms[i].by
<1>1. t \in Seq(Message) /\ Len(t) = Len(ms)
  BY DEF Reshaped
<1>2. DOMAIN t = DOMAIN ms
  BY <1>1, IndicesAre
<1>3. \A i \in DOMAIN ms : IsResult(t[i]) <=> IsResult(ms[i])
  BY DEF Reshaped, OutcomesAt
<1>4. OutcomesAt(t) = OutcomesAt(ms)
  BY <1>2, <1>3 DEF OutcomesAt
<1>5. ScreensAt(t) = ScreensAt(ms)
  BY <1>4 DEF ScreensAt, Reshaped
<1>6. \A i \in DOMAIN ms : t[i].by = ms[i].by
  BY DEF Reshaped, OutcomesAt, IsResult
<1> QED
  BY <1>2, <1>4, <1>5, <1>6

\* A conversation that is reshaped is sound if what was taken from it may be.
LEMMA ReshapedHolds ==
  ASSUME NEW ms, NEW kept, NEW more, NEW n, Sound(ms, kept, n), NEW t, Reshaped(ms, t),
         \A i \in OutcomesAt(ms) : t[i].left # ms[i].left =>
           i <= Len(ms) - KEEP_VERBATIM /\ ~ms[i].marked,
         \A i \in ScreensAt(ms) : t[i].folded => ms[i].folded \/
           Cardinality(After(ScreensAt(ms), i)) >= SCREENS_KEPT,
         kept \subseteq more,
         \A i \in OutcomesAt(ms) : t[i].hint => ms[i].hint \/
           \E k \in more : k.call = ms[i].call
  PROVE  Sound(t, more, n)
<1>1. /\ ms \in Seq(Message) /\ ms # <<>> /\ ms[1] = System
      /\ \A i \in DOMAIN ms : ms[i].by = "system" => i = 1
  BY DEF Sound, Shaped
<1>2. /\ DOMAIN t = DOMAIN ms
      /\ OutcomesAt(t) = OutcomesAt(ms) /\ ScreensAt(t) = ScreensAt(ms)
      /\ \A i \in DOMAIN ms : t[i].by = ms[i].by
  BY <1>1, ReshapedIs
<1>3. t \in Seq(Message) /\ Len(t) = Len(ms)
  BY DEF Reshaped
<1>4. /\ Len(ms) \in Nat /\ DOMAIN ms = 1..Len(ms)
      /\ \A i \in DOMAIN ms : i \in Nat /\ ms[i] \in Message
  BY <1>1, IndicesAre
<1>5. Len(ms) # 0
  BY <1>1, EmptySeq
<1>6. Shaped(t)
  <2>1. 1 \in DOMAIN ms
    BY <1>4, <1>5
  <2>2. t[1] = System
    BY <1>1, <2>1 DEF Reshaped, IsResult, System
  <2>3. t # <<>>
    BY <1>3, <1>5
  <2> QED
    BY <1>1, <1>2, <1>3, <2>2, <2>3 DEF Shaped
<1>7. Paired(t, n)
  <2>1. ASSUME NEW i \in OutcomesAt(ms)
        PROVE  /\ t[i-1].by = "ai" /\ t[i-1].call = t[i].call
               /\ t[i].call = ms[i].call
    <3>1. ms[i-1].by = "ai" /\ ms[i-1].call = ms[i].call /\ t[i].call = ms[i].call
      BY DEF Sound, Paired, Reshaped
    <3>2. i \in DOMAIN ms /\ i # 1
      BY <1>1 DEF OutcomesAt, IsResult, System
    <3>3. i - 1 \in DOMAIN ms
      BY <1>4, <3>2
    <3>4. t[i-1] = ms[i-1]
      BY <3>1, <3>3 DEF Reshaped, IsResult
    <3> QED
      BY <3>1, <3>4
  <2> QED
    BY <1>2, <2>1 DEF Sound, Paired
<1>8. Spared(t)
  <2>1. ASSUME NEW i \in OutcomesAt(ms)
        PROVE  /\ i > Len(ms) - KEEP_VERBATIM => t[i].left = "full"
               /\ ms[i].marked => t[i].left = "full"
               /\ t[i].marked = ms[i].marked
    <3>1. i \in Nat /\ Len(ms) - KEEP_VERBATIM \in Int
      BY <1>4, TranscriptAssumption DEF OutcomesAt, TranscriptAssumption
    <3> QED
      BY <3>1 DEF Sound, Spared, Reshaped
  <2>2. \A i \in ScreensAt(ms) : t[i].folded =>
          Cardinality(After(ScreensAt(ms), i)) >= SCREENS_KEPT
    BY DEF Sound, Spared
  <2> QED
    BY <1>2, <1>3, <2>1, <2>2 DEF Spared
<1>9. Searchable(t, more)
  BY <1>2 DEF Sound, Searchable, Reshaped
<1> QED
  BY <1>6, <1>7, <1>8, <1>9 DEF Sound


\* Folding leaves a sound conversation sound.
LEMMA FoldKeeps ==
  ASSUME NEW ms, NEW kept, NEW n, Sound(ms, kept, n)
  PROVE  Sound(Folded(ms), kept, n) /\ Reshaped(ms, Folded(ms))
<1> DEFINE open == Unfolded(ms)
           old  == {i \in open : Cardinality({j \in open : j > i}) >= SCREENS_KEPT}
           t    == Folded(ms)
           change(i) == IF i \in old THEN [ms[i] EXCEPT !.folded = TRUE] ELSE ms[i]
<1>1. ms \in Seq(Message)
  BY DEF Sound, Shaped
<1>2. /\ Len(ms) \in Nat /\ DOMAIN ms = 1..Len(ms)
      /\ \A i \in DOMAIN ms : i \in Nat /\ ms[i] \in Message
      /\ IsFiniteSet(OutcomesAt(ms)) /\ IsFiniteSet(ScreensAt(ms))
  BY <1>1, IndicesAre
<1>3. open \subseteq ScreensAt(ms)
  BY <1>2 DEF Unfolded, Folds, ScreensAt, OutcomesAt
<1>4. CASE t = ms
  <2>1. Reshaped(ms, t)
    BY <1>1, <1>4 DEF Reshaped, OutcomesAt
  <2> QED
    BY <1>4, <2>1
<1>5. CASE t = [i \in DOMAIN ms |-> change(i)]
  <2>1. ASSUME NEW i \in old
        PROVE  /\ i \in ScreensAt(ms) /\ ms[i] \in Outcome /\ change(i) \in Outcome
               /\ change(i).call = ms[i].call /\ change(i).tool = ms[i].tool
               /\ change(i).marked = ms[i].marked /\ change(i).left = ms[i].left
               /\ change(i).hint = ms[i].hint
    <3>1. i \in ScreensAt(ms) /\ i \in DOMAIN ms /\ IsResult(ms[i])
      BY <1>3 DEF ScreensAt, OutcomesAt
    <3>2. ms[i] \in Outcome
      BY <1>2, <3>1, ResultIs
    <3> QED
      BY <3>1, <3>2 DEF Outcome
  <2>2. ASSUME NEW i \in old
        PROVE  Cardinality(After(ScreensAt(ms), i)) >= SCREENS_KEPT
    <3>1. {j \in open : j > i} \subseteq After(ScreensAt(ms), i)
      BY <1>3 DEF After
    <3>2. After(ScreensAt(ms), i) \subseteq ScreensAt(ms)
      BY DEF After
    <3>3. IsFiniteSet(After(ScreensAt(ms), i))
      BY <1>2, <3>2, FS_Subset
    <3>4. /\ Cardinality({j \in open : j > i}) <= Cardinality(After(ScreensAt(ms), i))
          /\ Cardinality({j \in open : j > i}) \in Nat
          /\ Cardinality(After(ScreensAt(ms), i)) \in Nat
      BY <3>1, <3>3, FS_Subset, FS_CardinalityType
    <3>5. Cardinality({j \in open : j > i}) >= SCREENS_KEPT
      OBVIOUS
    <3> QED
      BY <3>4, <3>5, TranscriptAssumption DEF TranscriptAssumption
  <2> HIDE DEF old, open, t
  <2>3. \A i \in DOMAIN ms : t[i] = IF i \in old THEN [ms[i] EXCEPT !.folded = TRUE] ELSE ms[i]
    BY <1>5
  <2>4. t \in Seq(Message) /\ Len(t) = Len(ms)
    <3>1. \A i \in DOMAIN ms : t[i] \in Message
      BY <1>2, <2>1, <2>3 DEF Message
    <3>2. t \in [1..Len(ms) -> Message]
      BY <1>2, <1>5, <3>1
    <3> QED
      BY <1>2, <3>2
  <2>5. ASSUME NEW i \in DOMAIN ms
        PROVE  /\ ~IsResult(ms[i]) => t[i] = ms[i]
               /\ IsResult(ms[i]) => /\ IsResult(t[i]) /\ t[i].call = ms[i].call
                                     /\ t[i].tool = ms[i].tool /\ t[i].marked = ms[i].marked
                                     /\ t[i].left = ms[i].left /\ t[i].hint = ms[i].hint
               /\ i \notin old => t[i] = ms[i]
    BY <2>1, <2>3 DEF ScreensAt, OutcomesAt, Outcome, IsResult
  <2>6. Reshaped(ms, t)
    BY <2>4, <2>5 DEF Reshaped, OutcomesAt
  <2>7. \A i \in OutcomesAt(ms) : t[i].left = ms[i].left /\ t[i].hint = ms[i].hint
    BY <2>5 DEF OutcomesAt
  <2>8. \A i \in ScreensAt(ms) : t[i].folded => ms[i].folded \/
           Cardinality(After(ScreensAt(ms), i)) >= SCREENS_KEPT
    BY <2>2, <2>5 DEF ScreensAt, OutcomesAt
  <2>9. Sound(t, kept, n)
    <3>1. kept \subseteq kept /\ \A i \in OutcomesAt(ms) : t[i].hint => ms[i].hint
      BY <2>7
    <3> QED
      BY <2>6, <2>7, <2>8, <3>1, ReshapedHolds
  <2> QED
    BY <2>6, <2>9 DEF t
<1>6. t = ms \/ t = [i \in DOMAIN ms |-> change(i)]
  BY DEF Folded
<1> QED
  BY <1>4, <1>5, <1>6

\* Compaction leaves a sound conversation sound, with what it put in the store.
LEMMA CompactKeeps ==
  ASSUME NEW ms, NEW kept, NEW n, Sound(ms, kept, n), NEW acts \in Seq(Nat), NEW up \in BOOLEAN
  PROVE  /\ Sound(Compacted(ms, acts, up), kept \cup Evictions(ms, up), n)
         /\ Reshaped(ms, Compacted(ms, acts, up))
<1> DEFINE t == Compacted(ms, acts, up)
           old == Evicted(ms)
           change(i) == Stub(ms[i], LineOf(ms, acts, i), Keeps(ms, i, up))
           more == kept \cup Evictions(ms, up)
<1>1. ms \in Seq(Message)
  BY DEF Sound, Shaped
<1>2. /\ Len(ms) \in Nat /\ DOMAIN ms = 1..Len(ms)
      /\ \A i \in DOMAIN ms : i \in Nat /\ ms[i] \in Message
      /\ IsFiniteSet(OutcomesAt(ms))
  BY <1>1, IndicesAre
<1>3. ASSUME NEW i \in old
      PROVE  /\ i \in OutcomesAt(ms) /\ i <= Len(ms) - KEEP_VERBATIM /\ ~ms[i].marked
             /\ ms[i] \in Outcome
  <2>1. i \in DOMAIN ms /\ IsResult(ms[i]) /\ i <= Len(ms) - KEEP_VERBATIM /\ ~ms[i].marked
    BY DEF Evicted, Evictable, Counted
  <2> QED
    BY <1>2, <2>1, ResultIs DEF OutcomesAt
<1>4. ASSUME NEW i \in old
      PROVE  LineOf(ms, acts, i) \in Nat
  <2> DEFINE before == {j \in Counted(ms) : j < i}
  <2>1. before \subseteq OutcomesAt(ms)
    BY DEF Counted, OutcomesAt
  <2>2. Cardinality(before) \in Nat
    BY <1>2, <2>1, FS_Subset, FS_CardinalityType
  <2> HIDE DEF before
  <2>3. Len(acts) \in Nat /\ \A k \in 1..Len(acts) : acts[k] \in Nat
    BY LenProperties, ElementOfSeq
  <2>4. LineOf(ms, acts, i) =
          IF Cardinality(before) + 1 <= Len(acts) THEN acts[Cardinality(before) + 1] ELSE 0
    BY DEF LineOf, before
  <2> QED
    BY <2>2, <2>3, <2>4
<1>5. ASSUME NEW i \in old
      PROVE  /\ change(i) \in Outcome /\ change(i).call = ms[i].call
             /\ change(i).tool = ms[i].tool /\ change(i).marked = ms[i].marked
             /\ change(i).folded = ms[i].folded /\ change(i).hint = Keeps(ms, i, up)
  <2> DEFINE line == LineOf(ms, acts, i)
             kp == Keeps(ms, i, up)
             m == ms[i]
  <2>1. line \in Nat /\ m \in Outcome
    BY <1>3, <1>4
  <2>2. kp \in BOOLEAN
    BY TranscriptAssumption DEF TranscriptAssumption, Keeps, Folds
  <2>3. change(i) = [m EXCEPT !.left = IF line # 0 THEN "line" ELSE "head", !.line = line, !.hint = kp]
    BY DEF Stub
  <2> HIDE DEF line, kp, m
  <2>4. [m EXCEPT !.left = IF line # 0 THEN "line" ELSE "head", !.line = line, !.hint = kp] \in Outcome
    BY <2>1, <2>2 DEF Outcome
  <2>5. LET s == [m EXCEPT !.left = IF line # 0 THEN "line" ELSE "head", !.line = line, !.hint = kp]
        IN s.call = m.call /\ s.tool = m.tool /\ s.marked = m.marked /\ s.folded = m.folded /\ s.hint = kp
    BY <2>1 DEF Outcome
  <2> HIDE DEF change
  <2> QED
    BY <2>3, <2>4, <2>5 DEF m, kp
<1>6. t = [i \in DOMAIN ms |-> IF i \in old THEN change(i) ELSE ms[i]]
  BY DEF Compacted
<1> HIDE DEF old, t, change
<1>7. t \in Seq(Message) /\ Len(t) = Len(ms)
  <2>1. \A i \in DOMAIN ms : t[i] \in Message
    BY <1>2, <1>5, <1>6 DEF Message
  <2>2. t \in [1..Len(ms) -> Message]
    BY <1>2, <1>6, <2>1
  <2> QED
    BY <1>2, <2>2
<1>8. ASSUME NEW i \in DOMAIN ms
      PROVE  /\ i \notin old => t[i] = ms[i]
             /\ i \in old => t[i] = change(i)
             /\ i \in old => IsResult(ms[i]) /\ IsResult(change(i))
  BY <1>3, <1>5, <1>6 DEF OutcomesAt, IsResult, Outcome
<1>9. Reshaped(ms, t)
  BY <1>5, <1>7, <1>8 DEF Reshaped, OutcomesAt
<1>10. \A i \in OutcomesAt(ms) : t[i].left # ms[i].left =>
         i <= Len(ms) - KEEP_VERBATIM /\ ~ms[i].marked
  BY <1>3, <1>8 DEF OutcomesAt
<1>11. \A i \in ScreensAt(ms) : t[i].folded => ms[i].folded
  BY <1>5, <1>8 DEF ScreensAt, OutcomesAt
<1>12. \A i \in OutcomesAt(ms) : t[i].hint => ms[i].hint \/ \E k \in more : k.call = ms[i].call
  <2>1. ASSUME NEW i \in old, Keeps(ms, i, up)
        PROVE  \E k \in more : k.call = ms[i].call
    <3> DEFINE k == [call |-> ms[i].call, text |-> ms[i].left]
    <3>1. k \in Evictions(ms, up)
      BY <2>1 DEF Evictions, old
    <3> QED
      BY <3>1
  <2> QED
    BY <1>5, <1>8, <2>1 DEF OutcomesAt
<1>13. Sound(t, more, n)
  <2>1. kept \subseteq more
    OBVIOUS
  <2> HIDE DEF more
  <2> QED
    BY <1>9, <1>10, <1>11, <1>12, <2>1, ReshapedHolds
<1> QED
  BY <1>9, <1>13 DEF t

-----------------------------------------------------------------------------
(* What a call adds *)

\* Something said, or a call, at the end of a sound conversation.
LEMMA SayKeeps ==
  ASSUME NEW ms, NEW kept, NEW n, Sound(ms, kept, n),
         NEW m \in Saying \cup Calling
  PROVE  Sound(Append(ms, m), kept, n)
<1> DEFINE r == Append(ms, m)
<1>1. ms \in Seq(Message) /\ ms # <<>>
  BY DEF Sound, Shaped
<1>2. /\ Len(ms) \in Nat /\ DOMAIN ms = 1..Len(ms)
      /\ \A i \in DOMAIN ms : i \in Nat /\ ms[i] \in Message
  BY <1>1, IndicesAre
<1>3. m \in Message /\ m.by # "system" /\ ~IsResult(m)
  BY DEF Message, Saying, Calling, IsResult
<1>4. /\ r \in Seq(Message) /\ r # <<>> /\ Len(r) = Len(ms) + 1
      /\ \A i \in 1..Len(ms) : r[i] = ms[i]
      /\ r[Len(ms) + 1] = m
  BY <1>1, <1>3, AppendProperties
<1>5. DOMAIN r = 1..(Len(ms) + 1)
  BY <1>4, IndicesAre
<1> HIDE DEF r
<1>6. Len(ms) # 0
  BY <1>1, EmptySeq
<1>7. OutcomesAt(r) = OutcomesAt(ms)
  BY <1>2, <1>3, <1>4, <1>5 DEF OutcomesAt
<1>8. ASSUME NEW i \in OutcomesAt(ms)
      PROVE  i \in 2..Len(ms) /\ r[i] = ms[i] /\ r[i-1] = ms[i-1]
  <2>1. i \in 1..Len(ms) /\ i # 1
    BY <1>2 DEF OutcomesAt, IsResult, Sound, Shaped, System
  <2> QED
    BY <1>2, <1>4, <2>1
<1>9. ScreensAt(r) = ScreensAt(ms)
  BY <1>7, <1>8 DEF ScreensAt
<1>10. Shaped(r)
  <2>1. r[1] = System
    BY <1>2, <1>4, <1>6 DEF Sound, Shaped
  <2>2. ASSUME NEW i \in DOMAIN r, r[i].by = "system"
        PROVE  i = 1
    <3>1. i \in 1..Len(ms)
      BY <1>2, <1>3, <1>4, <1>5, <2>2
    <3> QED
      BY <1>2, <1>4, <2>2, <3>1 DEF Sound, Shaped
  <2> QED
    BY <1>4, <2>1, <2>2 DEF Shaped
<1>11. Paired(r, n)
  BY <1>7, <1>8 DEF Sound, Paired
<1>12. Spared(r)
  <2>1. \A i \in OutcomesAt(ms) : i > Len(r) - KEEP_VERBATIM => i > Len(ms) - KEEP_VERBATIM
    BY <1>2, <1>4, <1>8, TranscriptAssumption DEF TranscriptAssumption
  <2> QED
    BY <1>7, <1>8, <1>9, <2>1 DEF Sound, Spared, ScreensAt
<1>13. Searchable(r, kept)
  BY <1>7, <1>8 DEF Sound, Searchable
<1> QED
  BY <1>10, <1>11, <1>12, <1>13 DEF Sound, r

\* The result of a call behind that call.
LEMMA ResultKeeps ==
  ASSUME NEW ms, NEW kept, NEW n \in Nat, Sound(ms, kept, n),
         ms[Len(ms)].by = "ai", ms[Len(ms)].call = n + 1,
         NEW out \in Given
  PROVE  Sound(Append(ms, Result(n + 1, out)), kept, n + 1)
<1> DEFINE m == Result(n + 1, out)
           r == Append(ms, m)
           e == Len(ms) + 1
<1>1. ms \in Seq(Message) /\ ms # <<>>
  BY DEF Sound, Shaped
<1>2. /\ Len(ms) \in Nat /\ DOMAIN ms = 1..Len(ms)
      /\ \A i \in DOMAIN ms : i \in Nat /\ ms[i] \in Message
  BY <1>1, IndicesAre
<1>3. /\ m \in Outcome /\ m \in Message /\ m.by = "result" /\ IsResult(m) /\ m.call = n + 1
      /\ m.left = "full" /\ ~m.folded /\ ~m.hint
  BY DEF Message, Outcome, IsResult, Result, Given
<1> HIDE DEF m
<1>4. /\ r \in Seq(Message) /\ r # <<>> /\ Len(r) = e
      /\ \A i \in 1..Len(ms) : r[i] = ms[i]
      /\ r[e] = m
  BY <1>1, <1>3, AppendProperties
<1>5. DOMAIN r = 1..e
  BY <1>4, IndicesAre
<1> HIDE DEF r
<1>6. Len(ms) # 0
  BY <1>1, EmptySeq
<1>7. OutcomesAt(r) = OutcomesAt(ms) \cup {e}
  BY <1>2, <1>3, <1>4, <1>5 DEF OutcomesAt
<1>8. ASSUME NEW i \in OutcomesAt(ms)
      PROVE  /\ i \in 2..Len(ms) /\ r[i] = ms[i] /\ r[i-1] = ms[i-1]
             /\ ms[i] \in Outcome
  <2>1. i \in 1..Len(ms) /\ i # 1 /\ IsResult(ms[i])
    BY <1>2 DEF OutcomesAt, IsResult, Sound, Shaped, System
  <2>2. ms[i] \in Outcome
    BY <1>2, <2>1, ResultIs
  <2> QED
    BY <1>2, <1>4, <2>1, <2>2
<1>9. /\ ScreensAt(ms) \subseteq ScreensAt(r)
      /\ \A i \in ScreensAt(r) : i # e => i \in ScreensAt(ms)
  BY <1>7, <1>8 DEF ScreensAt
<1>10. Shaped(r)
  <2>1. r[1] = System
    BY <1>2, <1>4, <1>6 DEF Sound, Shaped
  <2>2. ASSUME NEW i \in DOMAIN r, r[i].by = "system"
        PROVE  i = 1
    <3>1. i \in 1..Len(ms)
      BY <1>2, <1>3, <1>4, <1>5, <2>2
    <3> QED
      BY <1>2, <1>4, <2>2, <3>1 DEF Sound, Shaped
  <2> QED
    BY <1>4, <2>1, <2>2 DEF Shaped
<1>11. Paired(r, n + 1)
  <2>1. r[e - 1].by = "ai" /\ r[e - 1].call = r[e].call
    BY <1>2, <1>3, <1>4, <1>6
  <2>2. \A i \in OutcomesAt(ms) : ms[i].call <= n /\ ms[i].call \in Nat
    BY <1>8 DEF Sound, Paired, Outcome
  <2>3. \A i \in OutcomesAt(r) : r[i-1].by = "ai" /\ r[i-1].call = r[i].call
    BY <1>7, <1>8, <2>1 DEF Sound, Paired
  <2>4. \A i \in OutcomesAt(r) : r[i].call <= n + 1
    BY <1>3, <1>4, <1>7, <1>8, <2>2
  <2>5. ASSUME NEW i \in OutcomesAt(r), NEW j \in OutcomesAt(r), i < j
        PROVE  r[i].call < r[j].call
    <3>1. i # e
      BY <1>2, <1>7, <1>8, <2>5
    <3>2. CASE j = e
      BY <1>3, <1>4, <1>7, <1>8, <2>2, <3>1, <3>2
    <3>3. CASE j # e
      BY <1>7, <1>8, <2>5, <3>1, <3>3 DEF Sound, Paired
    <3> QED
      BY <3>2, <3>3
  <2> QED
    BY <2>3, <2>4, <2>5 DEF Paired
<1>12. Spared(r)
  <2>1. ASSUME NEW i \in OutcomesAt(ms), i > Len(r) - KEEP_VERBATIM
        PROVE  i > Len(ms) - KEEP_VERBATIM
    BY <1>2, <1>4, <1>8, <2>1, TranscriptAssumption DEF TranscriptAssumption
  <2>2. \A i \in OutcomesAt(r) : i > Len(r) - KEEP_VERBATIM => r[i].left = "full"
    BY <1>3, <1>4, <1>7, <1>8, <2>1 DEF Sound, Spared
  <2>3. \A i \in OutcomesAt(r) : r[i].marked => r[i].left = "full"
    BY <1>3, <1>4, <1>7, <1>8 DEF Sound, Spared
  <2>4. ASSUME NEW i \in ScreensAt(r), r[i].folded
        PROVE  Cardinality(After(ScreensAt(r), i)) >= SCREENS_KEPT
    <3>1. i # e /\ i \in ScreensAt(ms) /\ ms[i].folded
      BY <1>3, <1>4, <1>8, <1>9, <2>4 DEF ScreensAt
    <3>2. Cardinality(After(ScreensAt(ms), i)) >= SCREENS_KEPT
      BY <3>1 DEF Sound, Spared
    <3>3. IsFiniteSet(ScreensAt(r))
      BY <1>4, IndicesAre
    <3>4. /\ After(ScreensAt(ms), i) \subseteq After(ScreensAt(r), i)
          /\ After(ScreensAt(r), i) \subseteq ScreensAt(r)
      BY <1>9 DEF After
    <3>5. IsFiniteSet(After(ScreensAt(r), i))
      BY <3>3, <3>4, FS_Subset
    <3>6. /\ Cardinality(After(ScreensAt(ms), i)) <= Cardinality(After(ScreensAt(r), i))
          /\ Cardinality(After(ScreensAt(ms), i)) \in Nat
          /\ Cardinality(After(ScreensAt(r), i)) \in Nat
      BY <3>4, <3>5, FS_Subset, FS_CardinalityType
    <3> QED
      BY <3>2, <3>6, TranscriptAssumption DEF TranscriptAssumption
  <2> QED
    BY <2>2, <2>3, <2>4 DEF Spared
<1>13. Searchable(r, kept)
  BY <1>3, <1>4, <1>7, <1>8 DEF Sound, Searchable
<1> QED
  BY <1>10, <1>11, <1>12, <1>13 DEF Sound, r, m

\* What is sound stays so with more calls and more in the store.
LEMMA MoreKeeps ==
  ASSUME NEW ms, NEW kept, NEW more, kept \subseteq more, NEW n \in Nat, Sound(ms, kept, n)
  PROVE  Sound(ms, more, n + 1)
<1>1. Searchable(ms, more)
  BY DEF Sound, Searchable
<1>2. Paired(ms, n + 1)
  <2>1. ASSUME NEW i \in OutcomesAt(ms)
        PROVE  ms[i].call <= n + 1
    <3>1. ms \in Seq(Message)
      BY DEF Sound, Shaped
    <3>2. i \in DOMAIN ms /\ ms[i] \in Message /\ IsResult(ms[i])
      BY <3>1, IndicesAre DEF OutcomesAt
    <3>3. ms[i].call \in Nat
      BY <3>2, ResultIs DEF Outcome
    <3>4. ms[i].call <= n
      BY DEF Sound, Paired
    <3> QED
      BY <3>3, <3>4
  <2> QED
    BY <2>1 DEF Sound, Paired
<1> QED
  BY <1>1, <1>2 DEF Sound

-----------------------------------------------------------------------------
(* The steps *)

\* A conversation in which no more is told of than was, and that in its place.
Grown(ms, r) ==
  /\ r \in Seq(Message) /\ Len(ms) <= Len(r)
  /\ \A i \in DOMAIN ms : /\ IsResult(r[i]) <=> IsResult(ms[i])
                          /\ ~IsResult(ms[i]) => r[i] = ms[i]

\* What a conversation begins with stays there as it grows.
LEMMA HeadStays ==
  ASSUME NEW ms \in Seq(Message), NEW r, Grown(ms, r), Headed(ms)
  PROVE  Headed(r)
<1>1. /\ Len(ms) \in Nat /\ DOMAIN ms = 1..Len(ms) /\ Len(r) \in Nat
      /\ Len(ms) <= Len(r)
  BY IndicesAre DEF Grown
<1>2. /\ ~IsResult(Say("task")) /\ ~IsResult(Say("mode"))
  BY DEF IsResult, Say
<1>3. CASE Notes <= 1
  <2>1. r[2] = Say("task") /\ Len(r) >= 2
    BY <1>1, <1>2, <1>3 DEF Grown, Headed
  <2>2. Notes = 0 => r[3] = Say("mode") /\ Len(r) >= 3
    BY <1>1, <1>2 DEF Grown, Headed
  <2> QED
    BY <2>1, <2>2 DEF Headed
<1>4. CASE ~(Notes <= 1)
  BY <1>4, TranscriptAssumption DEF Headed, TranscriptAssumption
<1> QED
  BY <1>3, <1>4

\* The top of the loop leaves a sound conversation behind what it adds.
LEMMA TidyLeaves ==
  ASSUME Talking, NEW up \in BOOLEAN, NEW exchange, Tidy(up, exchange)
  PROVE  \E t : /\ Reshaped(messages, t) /\ Sound(t, store', made)
                /\ messages' = t \o exchange
<1> DEFINE folded == Folded(messages)
           full == Size(folded) > LOOP_COMPACT_AT
           packed == Compacted(folded, actions, up)
<1>1. Sound(folded, store, made) /\ Reshaped(messages, folded)
  BY FoldKeeps DEF Talking
<1>2. /\ Sound(packed, store \cup Evictions(folded, up), made)
      /\ Reshaped(folded, packed)
  <2>1. actions \in Seq(Nat)
    BY DEF Talking
  <2> HIDE DEF folded
  <2> QED
    BY <1>1, <2>1, CompactKeeps
<1>3. /\ messages' = (IF full THEN packed ELSE folded) \o exchange
      /\ store' = IF full THEN store \cup Evictions(folded, up) ELSE store
  BY DEF Tidy, StoreAfter
<1> HIDE DEF folded, full, packed
<1>4. CASE full
  <2>1. messages \in Seq(Message) /\ folded \in Seq(Message)
    BY <1>1 DEF Talking, Sound, Shaped
  <2>2. OutcomesAt(folded) = OutcomesAt(messages) /\ DOMAIN folded = DOMAIN messages
    BY <1>1, <2>1, ReshapedIs
  <2>3. ASSUME NEW i \in DOMAIN messages, ~IsResult(messages[i])
        PROVE  packed[i] = messages[i]
    <3>1. folded[i] = messages[i]
      BY <1>1, <2>3 DEF Reshaped
    <3> QED
      BY <1>2, <2>2, <2>3, <3>1 DEF Reshaped
  <2>4. Reshaped(messages, packed)
    BY <1>1, <1>2, <2>2, <2>3 DEF Reshaped
  <2> QED
    BY <1>2, <1>3, <1>4, <2>4
<1>5. CASE ~full
  BY <1>1, <1>3, <1>5
<1> QED
  BY <1>4, <1>5

\* A call of the loop, and what is said to it or comes back of it.
LEMMA CallKeeps ==
  ASSUME Talking, NEW up \in BOOLEAN, NEW tool \in Tools, NEW m,
         Tidy(up, <<Ai(made + 1, tool), m>>), made' = made + 1,
         \/ m \in Saying
         \/ \E out \in Given :
              m = Result(made + 1, out)
  PROVE  /\ Sound(messages', store', made') /\ Headed(messages')
         /\ Grown(messages, messages')
<1> DEFINE a == Ai(made + 1, tool)
<1>1. PICK t : /\ Reshaped(messages, t) /\ Sound(t, store', made)
               /\ messages' = t \o <<a, m>>
  BY TidyLeaves
<1>2. /\ messages \in Seq(Message) /\ t \in Seq(Message) /\ Len(t) = Len(messages)
      /\ made \in Nat /\ t # <<>>
  BY <1>1 DEF Talking, Sound, Shaped, Reshaped
<1>3. a \in Calling /\ a.by = "ai" /\ a.call = made + 1
  BY <1>2 DEF Calling, Ai
<1>4. m \in Message
  <2>1. CASE m \in Saying
    BY <2>1 DEF Message
  <2>2. ASSUME NEW out \in Given,
               m = Result(made + 1, out)
        PROVE  m \in Outcome
    BY <1>2, <2>2 DEF Outcome, Result, Given
  <2> QED
    BY <2>1, <2>2 DEF Message
<1> HIDE DEF a
<1>5. Len(t) \in Nat /\ DOMAIN messages = 1..Len(t)
  BY <1>2, IndicesAre
<1> DEFINE b == Append(t, a)
<1>6. /\ b \in Seq(Message) /\ Len(b) = Len(t) + 1 /\ b[Len(t) + 1] = a
      /\ \A i \in 1..Len(t) : b[i] = t[i]
  BY <1>2, <1>3, AppendProperties DEF Message
<1>7. Sound(b, store', made)
  BY <1>1, <1>3, SayKeeps
<1>8. messages' = Append(b, m)
  BY <1>1, <1>2, <1>3, <1>4 DEF Message
<1> HIDE DEF b
<1>9. /\ messages' \in Seq(Message) /\ Len(messages') = Len(t) + 2
      /\ \A i \in 1..Len(t) : messages'[i] = t[i]
  <2>1. /\ Append(b, m) \in Seq(Message) /\ Len(Append(b, m)) = Len(b) + 1
        /\ \A i \in 1..Len(b) : Append(b, m)[i] = b[i]
    BY <1>4, <1>6, AppendProperties
  <2> QED
    BY <1>5, <1>6, <1>8, <2>1
<1>10. Grown(messages, messages')
  BY <1>1, <1>2, <1>5, <1>9 DEF Grown, Reshaped, OutcomesAt
<1>11. Sound(messages', store', made')
  <2>1. CASE m \in Saying
    <3>1. Sound(messages', store', made)
      BY <1>7, <1>8, <2>1, SayKeeps
    <3> QED
      BY <1>2, <3>1, MoreKeeps
  <2>2. ASSUME NEW out \in Given,
               m = Result(made + 1, out)
        PROVE  Sound(messages', store', made')
    <3>1. b[Len(b)].by = "ai" /\ b[Len(b)].call = made + 1
      BY <1>3, <1>6
    <3> QED
      BY <1>2, <1>7, <1>8, <2>2, <3>1, ResultKeeps
  <2> QED
    BY <2>1, <2>2
<1> QED
  BY <1>2, <1>10, <1>11, HeadStays DEF Talking

\* Without its system message and with that again a conversation is what it was.
LEMMA RevivedIs ==
  ASSUME NEW ms, Shaped(ms)
  PROVE  Revive(Spoken(ms)) = ms
<1>1. /\ Len(ms) \in Nat /\ DOMAIN ms = 1..Len(ms)
      /\ \A i \in DOMAIN ms : i \in Nat /\ ms[i] \in Message
  BY IndicesAre DEF Shaped
<1>2. Len(ms) # 0
  BY EmptySeq DEF Shaped
<1>3. {i \in DOMAIN ms : ms[i].by # "system"} = 2..Len(ms)
  <2>1. \A i \in DOMAIN ms : ms[i].by = "system" <=> i = 1
    BY DEF Shaped, System
  <2> QED
    BY <1>1, <2>1
<1>4. Spoken(ms) = Tail(ms)
  BY <1>3, PlacesOfTail DEF Spoken, Shaped
<1>5. /\ Tail(ms) \in Seq(Message) /\ Len(Tail(ms)) = Len(ms) - 1
      /\ \A i \in 1..(Len(ms) - 1) : Tail(ms)[i] = ms[i + 1]
  BY HeadTailProperties DEF Shaped
<1> DEFINE u == Tail(ms)
           r == <<System>> \o u
<1>6. <<System>> \in Seq(Message) /\ Len(<<System>>) = 1 /\ <<System>>[1] = System
  BY DEF Message
<1>7. /\ r \in Seq(Message) /\ Len(r) = Len(ms)
      /\ \A i \in 1..Len(ms) : r[i] = IF i = 1 THEN System ELSE u[i - 1]
  <2> DEFINE z == <<System>>
  <2>1. u \in Seq(Message) /\ Len(u) = Len(ms) - 1
    BY <1>5
  <2>2. z \in Seq(Message) /\ Len(z) = 1 /\ z[1] = System
    BY <1>6
  <2> HIDE DEF u, z
  <2>3. /\ z \o u \in Seq(Message) /\ Len(z \o u) = Len(z) + Len(u)
        /\ \A i \in 1..(Len(z) + Len(u)) :
             (z \o u)[i] = IF i <= Len(z) THEN z[i] ELSE u[i - Len(z)]
    BY <2>1, <2>2, ConcatProperties
  <2>4. r = z \o u
    BY DEF z
  <2> HIDE DEF r
  <2> QED
    <3>1. r \in Seq(Message) /\ Len(r) = Len(ms)
      <4>1. Len(z) + Len(u) = Len(ms)
        BY <1>1, <2>1, <2>2
      <4> QED
        BY <2>3, <2>4, <4>1
    <3>2. ASSUME NEW i \in 1..Len(ms)
          PROVE  r[i] = IF i <= 1 THEN z[i] ELSE u[i - 1]
      <4>1. i \in 1..(Len(z) + Len(u))
        BY <1>1, <1>2, <2>1, <2>2
      <4>2. (z \o u)[i] = IF i <= Len(z) THEN z[i] ELSE u[i - Len(z)]
        BY <2>3, <4>1
      <4> QED
        BY <2>2, <2>4, <4>2
    <3>3. \A i \in 1..Len(ms) : r[i] = IF i = 1 THEN System ELSE u[i - 1]
      BY <1>1, <2>2, <3>2
    <3> QED
      BY <3>1, <3>3
<1>8. \A i \in 1..Len(ms) : r[i] = ms[i]
  <2> HIDE DEF r
  <2> QED
    BY <1>1, <1>5, <1>7 DEF Shaped
<1>9. r = ms
  <2> HIDE DEF r
  <2> QED
    BY <1>7, <1>8, SeqEqual DEF Shaped
<1> QED
  BY <1>4, <1>9 DEF Revive

\* A pause and what is said at its end.
LEMMA ResumeKeeps ==
  ASSUME Talking, NEW word \in {"answer", "rejected"}, NEW up, Resume(word, up)
  PROVE  Talking' /\ Grown(messages, messages')
<1>1. messages' = Append(messages, Say(word)) /\ store' = store /\ made' = made /\ actions' = <<>>
  BY RevivedIs DEF Resume, Talking, Sound
<1>2. Say(word) \in Saying
  BY DEF Say, Saying
<1>3. Sound(messages', store', made')
  BY <1>1, <1>2, SayKeeps DEF Talking
<1>4. /\ messages \in Seq(Message) /\ messages' \in Seq(Message)
      /\ Len(messages') = Len(messages) + 1
      /\ \A i \in 1..Len(messages) : messages'[i] = messages[i]
  BY <1>1, <1>2, AppendProperties DEF Message, Talking, Sound, Shaped
<1>5. Grown(messages, messages')
  BY <1>4, IndicesAre DEF Grown
<1>6. made' \in Nat /\ actions' \in Seq(Nat)
  BY <1>1 DEF Talking
<1>7. Headed(messages')
  BY <1>4, <1>5, HeadStays DEF Talking
<1> QED
  BY <1>3, <1>5, <1>6, <1>7 DEF Talking

\* What an escalation leaves of the conversation: what it began with, and three
\* things said.
Restarted ==
  /\ made' = made + 1 /\ stops' = stops
  /\ messages' = <<System>> \o (IF Notes <= 1 THEN <<Say("task")>> ELSE <<>>)
                   \o (IF Notes = 0 THEN <<Say("mode")>> ELSE <<>>)
                   \o <<LastOutput(made'), Say("fresh"), Say("mode")>>

\* A conversation of the prompts alone, and then of what is said, is sound.
LEMMA PromptsAreSound ==
  ASSUME NEW kept, NEW n \in Nat
  PROVE  Sound(<<System>>, kept, n)
<1> DEFINE ms == <<System>>
<1>1. ms \in Seq(Message) /\ Len(ms) = 1 /\ ms # <<>> /\ ms[1] = System /\ DOMAIN ms = 1..1
  BY DEF Message
<1> HIDE DEF ms
<1>2. OutcomesAt(ms) = {} /\ ScreensAt(ms) = {}
  BY <1>1 DEF OutcomesAt, ScreensAt, IsResult, System
<1>3. Shaped(ms)
  BY <1>1 DEF Shaped
<1>4. Paired(ms, n) /\ Spared(ms) /\ Searchable(ms, kept)
  BY <1>2 DEF Paired, Spared, Searchable
<1> QED
  BY <1>3, <1>4 DEF Sound, ms

\* An escalation.
LEMMA RestartKeeps ==
  ASSUME Talking, NEW up, Restart(up)
  PROVE  Talking' /\ Restarted
<1> DEFINE c == LastOutput(made + 1)
           t == Say("task")
           d == Say("mode")
           f == Say("fresh")
<1>1. /\ messages' = SeedKept \o <<c, f, d>> /\ made' = made + 1
      /\ UNCHANGED <<actions, stops>>
  BY DEF Restart, Makes
<1>2. /\ made \in Nat /\ made + 1 \in Nat /\ actions \in Seq(Nat)
      /\ messages \in Seq(Message) /\ messages # <<>> /\ messages[1] = System
  BY DEF Talking, Sound, Shaped
<1>3. Len(messages) \in Nat /\ Len(messages) # 0
  BY <1>2, EmptySeq, IndicesAre
<1>4. c \in Saying /\ t \in Saying /\ d \in Saying /\ f \in Saying
  BY <1>2 DEF LastOutput, Say, Saying
<1>5. Notes \in 0..3
  BY TranscriptAssumption DEF TranscriptAssumption
<1> HIDE DEF c, t, d, f
<1>6. Sound(<<System>>, store', made')
  BY <1>1, <1>2, PromptsAreSound
<1>7. ASSUME NEW ms, Sound(ms, store', made')
      PROVE  /\ Sound(ms \o <<c, f, d>>, store', made')
             /\ \A i \in 1..Len(ms) : (ms \o <<c, f, d>>)[i] = ms[i]
             /\ Len(ms \o <<c, f, d>>) = Len(ms) + 3
  <2>1. ms \in Seq(Message) /\ c \in Message /\ d \in Message /\ f \in Message
    BY <1>4, <1>7 DEF Sound, Shaped, Message
  <2>2. ms \o <<c, f, d>> = Append(Append(Append(ms, c), f), d)
    BY <2>1
  <2>3. Sound(Append(Append(Append(ms, c), f), d), store', made')
    <3>1. Sound(Append(ms, c), store', made')
      BY <1>4, <1>7, SayKeeps
    <3>2. Sound(Append(Append(ms, c), f), store', made')
      BY <1>4, <3>1, SayKeeps
    <3> QED
      BY <1>4, <3>2, SayKeeps
  <2>4. Len(ms) \in Nat /\ Len(ms \o <<c, f, d>>) = Len(ms) + 3
    BY <2>1
  <2>5. \A i \in 1..Len(ms) : (ms \o <<c, f, d>>)[i] = ms[i]
    BY <2>1, <2>4
  <2> QED
    BY <2>2, <2>3, <2>4, <2>5
<1>8. CASE Notes >= 2
  <2>1. SeedKept = <<System>>
    <3> DEFINE u == SubSeq(messages, 1, 1)
               v == <<System>>
    <3>1. SeedKept = u
      BY <1>5, <1>8 DEF SeedKept
    <3>2. /\ u \in Seq(Message) /\ Len(u) = 1
          /\ \A i \in 1..1 : u[i] = messages[i]
      BY <1>2, <1>3, SubSeqProperties
    <3>3. /\ v \in Seq(Message) /\ Len(v) = 1
          /\ \A i \in 1..1 : v[i] = messages[i]
      BY <1>2, <1>4 DEF Message
    <3> HIDE DEF u, v
    <3>4. u = v
      BY <3>2, <3>3, SeqEqual
    <3> QED
      BY <3>1, <3>4 DEF v
  <2>2. /\ Sound(messages', store', made')
        /\ messages' = <<System>> \o <<>> \o <<>> \o <<c, f, d>>
    BY <1>1, <1>6, <1>7, <2>1
  <2>3. Headed(messages')
    BY <1>5, <1>8 DEF Headed
  <2>8. Restarted
    <3>1. /\ (IF Notes <= 1 THEN <<Say("task")>> ELSE <<>>) = <<>>
          /\ (IF Notes = 0 THEN <<Say("mode")>> ELSE <<>>) = <<>>
      BY <1>5, <1>8 DEF t, d
    <3>2. <<LastOutput(made'), Say("fresh"), Say("mode")>> = <<c, f, d>>
      BY <1>1 DEF c, f, d
    <3> QED
      BY ONLY <1>1, <2>2, <3>1, <3>2 DEF Restarted
  <2>9. Talking'
    BY <1>1, <1>2, <2>2, <2>3 DEF Talking
  <2> QED
    BY <2>8, <2>9
<1>9. CASE Notes = 1
  <2>1. Len(messages) >= 2 /\ messages[2] = t
    BY <1>5, <1>9 DEF Talking, Headed, t
  <2>2. SeedKept = <<System, t>>
    <3> DEFINE u == SubSeq(messages, 1, 2)
               v == <<System, t>>
    <3>1. SeedKept = u
      BY <1>5, <1>9 DEF SeedKept
    <3>2. /\ u \in Seq(Message) /\ Len(u) = 2
          /\ \A i \in 1..2 : u[i] = messages[i]
      BY <1>2, <1>3, SubSeqProperties, <2>1
    <3>3. /\ v \in Seq(Message) /\ Len(v) = 2
          /\ \A i \in 1..2 : v[i] = messages[i]
      BY <1>2, <1>4, <2>1 DEF Message
    <3> HIDE DEF u, v
    <3>4. u = v
      BY <3>2, <3>3, SeqEqual
    <3> QED
      BY <3>1, <3>4 DEF v
  <2>3. <<System, t>> = Append(<<System>>, t) /\ Len(<<System, t>>) = 2
    OBVIOUS
  <2>4. Sound(<<System, t>>, store', made')
    BY <1>4, <1>6, <2>3, SayKeeps
  <2>5. /\ Sound(messages', store', made')
        /\ messages' = <<System>> \o <<t>> \o <<>> \o <<c, f, d>>
    BY <1>1, <1>7, <2>2, <2>4
  <2>6. messages'[2] = t /\ Len(messages') = 5
    BY <1>1, <1>7, <2>2, <2>3, <2>4
  <2>7. Headed(messages')
    BY <1>9, <2>6 DEF Headed, t
  <2>8. Restarted
    <3>1. /\ (IF Notes <= 1 THEN <<Say("task")>> ELSE <<>>) = <<t>>
          /\ (IF Notes = 0 THEN <<Say("mode")>> ELSE <<>>) = <<>>
      BY <1>5, <1>9 DEF t, d
    <3>2. <<LastOutput(made'), Say("fresh"), Say("mode")>> = <<c, f, d>>
      BY <1>1 DEF c, f, d
    <3> QED
      BY ONLY <1>1, <2>5, <3>1, <3>2 DEF Restarted
  <2>9. Talking'
    BY <1>1, <1>2, <2>5, <2>7 DEF Talking
  <2> QED
    BY <2>8, <2>9
<1>10. CASE Notes = 0
  <2>1. Len(messages) >= 3 /\ messages[2] = t /\ messages[3] = d
    BY <1>5, <1>10 DEF Talking, Headed, t, d
  <2>2. SeedKept = <<System, t, d>>
    <3> DEFINE u == SubSeq(messages, 1, 3)
               v == <<System, t, d>>
    <3>1. SeedKept = u
      BY <1>5, <1>10 DEF SeedKept
    <3>2. /\ u \in Seq(Message) /\ Len(u) = 3
          /\ \A i \in 1..3 : u[i] = messages[i]
      BY <1>2, <1>3, SubSeqProperties, <2>1
    <3>3. /\ v \in Seq(Message) /\ Len(v) = 3
          /\ \A i \in 1..3 : v[i] = messages[i]
      BY <1>2, <1>4, <2>1 DEF Message
    <3> HIDE DEF u, v
    <3>4. u = v
      BY <3>2, <3>3, SeqEqual
    <3> QED
      BY <3>1, <3>4 DEF v
  <2>3. /\ <<System, t>> = Append(<<System>>, t) /\ <<System, t, d>> = Append(<<System, t>>, d)
        /\ Len(<<System, t, d>>) = 3
    OBVIOUS
  <2>4. Sound(<<System, t, d>>, store', made')
    BY <1>4, <1>6, <2>3, SayKeeps
  <2>5. /\ Sound(messages', store', made')
        /\ messages' = <<System>> \o <<t>> \o <<d>> \o <<c, f, d>>
    BY <1>1, <1>7, <2>2, <2>4
  <2>6. messages'[2] = t /\ messages'[3] = d /\ Len(messages') = 6
    BY <1>1, <1>7, <2>2, <2>3, <2>4
  <2>7. Headed(messages')
    BY <1>10, <2>6 DEF Headed, t, d
  <2>8. Restarted
    <3>1. /\ (IF Notes <= 1 THEN <<Say("task")>> ELSE <<>>) = <<t>>
          /\ (IF Notes = 0 THEN <<Say("mode")>> ELSE <<>>) = <<d>>
      BY <1>5, <1>10 DEF t, d
    <3>2. <<LastOutput(made'), Say("fresh"), Say("mode")>> = <<c, f, d>>
      BY <1>1 DEF c, f, d
    <3> QED
      BY ONLY <1>1, <2>5, <3>1, <3>2 DEF Restarted
  <2>9. Talking'
    BY <1>1, <1>2, <2>5, <2>7 DEF Talking
  <2> QED
    BY <2>8, <2>9
<1> QED
  BY <1>5, <1>8, <1>9, <1>10

\* Whatever is called, held, delegated or paused for.
LEMMA TalkingStays ==
  Talking /\ [TalkNext]_talkVars => Talking' /\ (Grown(messages, messages') \/ Restarted)
<1> SUFFICES ASSUME Talking, [TalkNext]_talkVars
             PROVE  Talking' /\ (Grown(messages, messages') \/ Restarted)
  OBVIOUS
<1>1. made \in Nat /\ actions \in Seq(Nat) /\ messages \in Seq(Message)
  BY DEF Talking, Sound, Shaped
<1> DEFINE none == [tool |-> "none", long |-> FALSE, marked |-> FALSE]
           sub == [tool |-> "delegate", long |-> TRUE, marked |-> FALSE]
<1>2. ASSUME NEW up \in BOOLEAN, NEW out \in Outputs, Call(out, up)
      PROVE  Talking' /\ Grown(messages, messages')
  <2>1. out \in Given
    <3>1. out \in [tool : STRING, long : BOOLEAN, marked : BOOLEAN]
      BY TranscriptAssumption DEF TranscriptAssumption
    <3>2. out.tool \in Tools
      BY DEF Tools
    <3> QED
      BY <3>1, <3>2 DEF Given
  <2>2. made' = made + 1 /\ actions' = Append(actions, made + 1)
    BY <1>2 DEF Call, Makes
  <2>3. Tidy(up, <<Ai(made + 1, out.tool), Result(made + 1, out)>>)
    BY <1>2, <2>2 DEF Call
  <2>4. out.tool \in Tools
    BY DEF Tools
  <2>5. Sound(messages', store', made') /\ Headed(messages') /\ Grown(messages, messages')
    BY <2>1, <2>2, <2>3, <2>4, CallKeeps
  <2>6. made' \in Nat /\ actions' \in Seq(Nat)
    BY <1>1, <2>2
  <2> QED
    BY <2>5, <2>6 DEF Talking
<1>3. ASSUME NEW up \in BOOLEAN, NEW n \in Lines, Delegate(n, up)
      PROVE  Talking' /\ Grown(messages, messages')
  <2>1. sub \in Given /\ "delegate" \in Tools
    BY DEF Given, Tools
  <2>2. made' = made + 1 /\ actions' = actions \o [k \in 1..n |-> made + 1]
    BY <1>3 DEF Delegate, Makes
  <2>3. Tidy(up, <<Ai(made + 1, "delegate"), Result(made + 1, sub)>>)
    BY <1>3, <2>2 DEF Delegate
  <2>4. Sound(messages', store', made') /\ Headed(messages') /\ Grown(messages, messages')
    <3> HIDE DEF sub
    <3> QED
      BY <2>1, <2>2, <2>3, CallKeeps
  <2>5. made' \in Nat /\ actions' \in Seq(Nat)
    <3>1. n \in Nat
      BY TranscriptAssumption DEF TranscriptAssumption
    <3>2. [k \in 1..n |-> made + 1] \in Seq(Nat)
      BY <1>1, <3>1
    <3> QED
      BY <1>1, <2>2, <3>2
  <2> QED
    BY <2>4, <2>5 DEF Talking
<1>4. ASSUME NEW up \in BOOLEAN, Refuse(up)
      PROVE  Talking' /\ Grown(messages, messages')
  <2>1. none \in Given /\ "none" \in Tools
    BY DEF Given, Tools
  <2>2. made' = made + 1 /\ actions' = actions
    BY <1>4 DEF Refuse, Makes
  <2>3. Tidy(up, <<Ai(made + 1, "none"), Result(made + 1, none)>>)
    BY <1>4, <2>2 DEF Refuse
  <2>4. Sound(messages', store', made') /\ Headed(messages') /\ Grown(messages, messages')
    <3> HIDE DEF none
    <3> QED
      BY <2>1, <2>2, <2>3, CallKeeps
  <2> QED
    BY <1>1, <2>2, <2>4 DEF Talking
<1>5. ASSUME NEW up \in BOOLEAN, Hold(up)
      PROVE  Talking' /\ Grown(messages, messages')
  <2>1. Say("hold") \in Saying /\ "send" \in Tools
    BY DEF Say, Saying, Tools
  <2>2. made' = made + 1 /\ actions' = actions
    BY <1>5 DEF Hold, Makes
  <2>3. Tidy(up, <<Ai(made + 1, "send"), Say("hold")>>)
    BY <1>5, <2>2 DEF Hold
  <2>4. Sound(messages', store', made') /\ Headed(messages') /\ Grown(messages, messages')
    BY <2>1, <2>2, <2>3, CallKeeps
  <2> QED
    BY <1>1, <2>2, <2>4 DEF Talking
<1>6. ASSUME NEW up \in BOOLEAN, NEW word \in {"answer", "rejected"}, Resume(word, up)
      PROVE  Talking' /\ Grown(messages, messages')
  BY <1>6, ResumeKeeps
<1>8. ASSUME NEW up \in BOOLEAN, NEW word \in {"mode", "refused"}, Switch(word, up)
      PROVE  Talking' /\ Grown(messages, messages')
  <2>1. Say(word) \in Saying /\ "switch" \in Tools
    BY DEF Say, Saying, Tools
  <2>2. made' = made + 1 /\ actions' = actions
    BY <1>8 DEF Switch, Makes
  <2>3. Tidy(up, <<Ai(made + 1, "switch"), Say(word)>>)
    BY <1>8, <2>2 DEF Switch
  <2>4. Sound(messages', store', made') /\ Headed(messages') /\ Grown(messages, messages')
    BY <2>1, <2>2, <2>3, CallKeeps
  <2> QED
    BY <1>1, <2>2, <2>4 DEF Talking
<1>9. ASSUME NEW up \in BOOLEAN, Restart(up)
      PROVE  Talking' /\ Restarted
  BY <1>9, RestartKeeps
<1>7. CASE UNCHANGED talkVars
  <2>1. UNCHANGED <<messages, actions, store, made>>
    BY <1>7 DEF talkVars
  <2>2. Talking'
    BY <2>1 DEF Talking, Headed
  <2>3. Grown(messages, messages')
    BY <1>1, <2>1, IndicesAre DEF Grown
  <2> QED
    BY <2>2, <2>3
<1> QED
  BY <1>2, <1>3, <1>4, <1>5, <1>6, <1>7, <1>8, <1>9 DEF TalkNext

\* A conversation begins sound,
LEMMA TalkingStarts == TalkInit => Talking
<1> SUFFICES ASSUME TalkInit
             PROVE  Talking
  OBVIOUS
<1>1. messages = <<System, Say("task"), Say("mode")>> /\ made = 0 /\ actions = <<>> /\ store = {}
  BY DEF TalkInit, Seeded
<1>2. Say("task") \in Saying /\ Say("mode") \in Saying
  BY DEF Say, Saying
<1>3. messages \in Seq(Message) /\ Len(messages) = 3 /\ messages # <<>>
  BY <1>1, <1>2 DEF Message
<1>4. DOMAIN messages = 1..3 /\ messages[1] = System /\ messages[2] = Say("task") /\ messages[3] = Say("mode")
  BY <1>1
<1>5. \A i \in DOMAIN messages : ~IsResult(messages[i]) /\ (messages[i].by = "system" => i = 1)
  BY <1>4 DEF IsResult, System, Say
<1>6. OutcomesAt(messages) = {} /\ ScreensAt(messages) = {}
  BY <1>5 DEF OutcomesAt, ScreensAt
<1>7. Shaped(messages)
  BY <1>3, <1>4, <1>5 DEF Shaped
<1>8. Paired(messages, made) /\ Spared(messages) /\ Searchable(messages, store)
  BY <1>6 DEF Paired, Spared, Searchable
<1>9. made \in Nat /\ actions \in Seq(Nat)
  BY <1>1
<1>10. Headed(messages)
  BY <1>3, <1>4 DEF Headed
<1> QED
  BY <1>7, <1>8, <1>9, <1>10 DEF Talking, Sound

\* and is sound for ever,
LEMMA TalkingHolds == TalkSpec => []Talking
<1>1. Talking /\ [TalkNext]_talkVars => Talking'
  BY TalkingStays
<1> QED
  BY <1>1, TalkingStarts, PTL DEF TalkSpec

\* which is what there is to show.
LEMMA TalkingImplies == Talking => TranscriptInv
<1> SUFFICES ASSUME Talking
             PROVE  TranscriptInv
  OBVIOUS
<1> DEFINE at == {i \in DOMAIN messages : IsResult(messages[i])}
           screens == {i \in at : messages[i].tool = "screen"}
<1>1. at = OutcomesAt(messages) /\ screens = ScreensAt(messages)
  BY DEF OutcomesAt, ScreensAt
<1>2. \A i \in at : messages[i-1].by = "ai" /\ messages[i-1].call = messages[i].call
  BY <1>1 DEF Talking, Sound, Paired
<1>3. \A i, j \in at : i < j => messages[i].call < messages[j].call
  BY <1>1 DEF Talking, Sound, Paired
<1>4. /\ \A i \in at : i > Len(messages) - KEEP_VERBATIM => messages[i].left = "full"
      /\ \A i \in at : messages[i].marked => messages[i].left = "full"
  BY <1>1 DEF Talking, Sound, Spared
<1>5. \A i \in screens : messages[i].folded =>
        Cardinality({j \in screens : j > i}) >= SCREENS_KEPT
  BY <1>1 DEF Talking, Sound, Spared, After
<1>6. \A i \in at : messages[i].hint => \E kept \in store : kept.call = messages[i].call
  BY <1>1 DEF Talking, Sound, Searchable
<1> QED
  BY <1>2, <1>3, <1>4, <1>5, <1>6 DEF TranscriptInv

\* What is told in a conversation begins with what was told before it grew.
LEMMA ToldGrows ==
  ASSUME NEW ms \in Seq(Message), NEW r, Grown(ms, r)
  PROVE  Len(Told(ms)) <= Len(Told(r)) /\ SubSeq(Told(r), 1, Len(Told(ms))) = Told(ms)
<1> DEFINE T == {i \in DOMAIN ms : ~IsResult(ms[i])}
           U == {i \in DOMAIN r : ~IsResult(r[i])}
<1>1. r \in Seq(Message) /\ Len(ms) <= Len(r)
  BY DEF Grown
<1>2. /\ Len(ms) \in Nat /\ DOMAIN ms = 1..Len(ms)
      /\ Len(r) \in Nat /\ DOMAIN r = 1..Len(r)
  BY <1>1, IndicesAre
<1>3. T \in SUBSET (1..Len(ms)) /\ U \in SUBSET (1..Len(r))
  BY <1>2
<1>4. T \subseteq U /\ \A k \in T : r[k] = ms[k]
  BY <1>1, <1>2 DEF Grown
<1>5. \A k \in U : k <= Len(ms) => k \in T
  BY <1>2 DEF Grown
<1>6. Told(ms) = AtPositions(ms, T) /\ Told(r) = AtPositions(r, U)
  BY DEF Told
<1> HIDE DEF T, U
<1> QED
  BY <1>1, <1>3, <1>4, <1>5, <1>6, PlacesBegin

\* The conversation of a run keeps its calls and their results together and in
\* order, the recent and the marked ones whole, and says searchable only of what
\* the store has (nodes.py, _fold_old_results, _compact, _keep_evicted): for
\* every set of results, size and length of a run, and any number of pauses.
THEOREM ConversationHolds == TalkSpec => []TranscriptInv
BY TalkingHolds, TalkingImplies, PTL

\* A restarted conversation tells all there is in it.
LEMMA ToldAtRestart ==
  ASSUME Restarted, made \in Nat
  PROVE  Told(messages') = messages'
<1> DEFINE m == messages'
           said == {System, Say("task"), Say("mode"), Say("fresh"), LastOutput(made + 1)}
<1>1. m \in Seq(said)
  <2> DEFINE task == IF Notes <= 1 THEN <<Say("task")>> ELSE <<>>
             mode == IF Notes = 0 THEN <<Say("mode")>> ELSE <<>>
             rest == <<LastOutput(made'), Say("fresh"), Say("mode")>>
  <2>1. /\ <<System>> \in Seq(said) /\ task \in Seq(said) /\ mode \in Seq(said)
        /\ rest \in Seq(said)
    <3>1. /\ System \in said /\ Say("task") \in said /\ Say("mode") \in said
          /\ Say("fresh") \in said /\ LastOutput(made') \in said
      BY DEF Restarted
    <3> HIDE DEF said
    <3> QED
      BY <3>1
  <2>2. m = <<System>> \o task \o mode \o rest
    BY DEF Restarted
  <2> HIDE DEF m, task, mode, rest, said
  <2> QED
    BY <2>1, <2>2
<1>2. \A w \in said : ~IsResult(w)
  BY DEF IsResult, System, Say, LastOutput
<1> HIDE DEF m, said
<1>3. DOMAIN m = 1..Len(m) /\ \A i \in 1..Len(m) : m[i] \in said
  BY <1>1, LenProperties, ElementOfSeq
<1>4. {i \in DOMAIN m : ~IsResult(m[i])} = 1..Len(m)
  BY <1>2, <1>3
<1>5. Told(m) = m
  BY <1>1, <1>4, PlacesOfAll DEF Told
<1> QED
  BY <1>5 DEF m

\* What a run is for and what it was told is never rewritten, nothing is put
\* before it, and only an escalation drops any of it, which keeps the seed and
\* the reply that asked for it: however often results are folded and compacted
\* and the run pauses (nodes.py, _NEVER_COMPACT, _plain, _revive, _switch_mode).
THEOREM WordsStay == TalkSpec => WordsAreKept
<1> DEFINE told  == Told(messages)
           later == Told(messages')
           grows == Len(told) <= Len(later) /\ SubSeq(later, 1, Len(told)) = told
           restarts ==
             /\ made' = made + 1 /\ stops' = stops
             /\ later = <<System>> \o (IF Notes <= 1 THEN <<Say("task")>> ELSE <<>>)
                          \o (IF Notes = 0 THEN <<Say("mode")>> ELSE <<>>)
                          \o <<LastOutput(made'), Say("fresh"), Say("mode")>>
<1>1. Talking /\ [TalkNext]_talkVars => [grows \/ restarts]_talkVars
  <2> SUFFICES ASSUME Talking, [TalkNext]_talkVars
               PROVE  grows \/ restarts
    OBVIOUS
  <2>1. /\ messages \in Seq(Message) /\ made \in Nat
        /\ Grown(messages, messages') \/ Restarted
    BY TalkingStays DEF Talking, Sound, Shaped
  <2>2. CASE Grown(messages, messages')
    BY <2>1, <2>2, ToldGrows
  <2>3. CASE Restarted
    <3>1. later = messages'
      BY <2>1, <2>3, ToldAtRestart
    <3> QED
      BY <2>3, <3>1 DEF Restarted
  <2> QED
    BY <2>1, <2>2, <2>3
<1> QED
  BY <1>1, TalkingHolds, PTL DEF TalkSpec, WordsAreKept
==============================================================================
