--------------------------- MODULE Router_proofs ---------------------------
(***************************************************************************)
(* Proofs about Router, for every number of threads, any chain and any     *)
(* evidence about it; about Temperature, for any models, processes and     *)
(* threads; and about SeatOutcomes, for any chain and any records.         *)
(***************************************************************************)
EXTENDS Router, Temperature, SeatOutcomes, FiniteSetTheorems, SequenceTheorems, TLAPS

\* The fields of a caller; what they hold is not needed here.
IsCaller(r) ==
  r = [at |-> r.at, honour |-> r.honour, order |-> r.order, pos |-> r.pos,
       cooled |-> r.cooled, half |-> r.half, picked |-> r.picked, owes |-> r.owes,
       walk |-> r.walk, plan |-> r.plan, asked |-> r.asked]

Shape == caller = [c \in Callers |-> caller[c]] /\ \A c \in Callers : IsCaller(caller[c])

\* Candidates that have been on offer since a thread began still are.
StillOffered ==
  /\ steady = [c \in Callers |-> steady[c]]
  /\ catalogue = [p \in Providers |-> catalogue[p]]
  /\ \A c \in Callers : steady[c] \subseteq AllOffered

\* In its pass a thread has met no candidate that was on offer all along,
\* except, in the first, one that was unwell; and it remembers whether the
\* reason said so or was still to be written.
PassInv(c) ==
  /\ caller[c].at = "routing" =>
       /\ caller[c].order \in Orders
       /\ caller[c].pos \in Nat \ {0}
       /\ caller[c].honour \in BOOLEAN
       /\ caller[c].cooled \in BOOLEAN
       /\ caller[c].half \in BOOLEAN
       /\ \A k \in 1..(caller[c].pos - 1) :
            k <= Len(caller[c].order) /\ caller[c].order[k] \in steady[c]
              => caller[c].honour /\ (caller[c].cooled \/ caller[c].half)
  /\ caller[c].at = "noroute" => steady[c] = {} \/ caller[c].half

IInv == Shape /\ StillOffered /\ \A c \in Callers : PassInv(c)

LEMMA OrderCovers ==
  ASSUME NEW o \in Orders, NEW i \in Places
  PROVE  \E k \in 1..Len(o) : o[k] = i
BY RouterAssumption DEF Places

LEMMA OfferedIsAPlace == AllOffered \subseteq Places
BY DEF AllOffered, OnOffer

\* What three uses of Idle hold.
LEMMA Calling ==
  ASSUME NEW m, NEW r, r = [Idle EXCEPT !.at = "calling", !.picked = m]
  PROVE  r.at = "calling"
BY DEF Idle

LEMMA NoRoute ==
  ASSUME NEW h, NEW r, r = [Idle EXCEPT !.at = "noroute", !.half = h]
  PROVE  r.at = "noroute" /\ r.half = h
BY DEF Idle

LEMMA InitIInv == Init => IInv
<1> SUFFICES ASSUME Init PROVE IInv
  OBVIOUS
<1>1. Shape
  BY DEF Init, Shape, IsCaller, Idle
<1>2. StillOffered
  BY DEF Init, StillOffered
<1>3. ASSUME NEW c \in Callers PROVE PassInv(c)
  BY <1>3 DEF Init, PassInv, Idle
<1> QED BY <1>1, <1>2, <1>3 DEF IInv

\* A thread that is not touched keeps its part of the invariant.
LEMMA Untouched ==
  ASSUME NEW c \in Callers, PassInv(c), caller'[c] = caller[c],
         steady'[c] \subseteq steady[c]
  PROVE  PassInv(c)'
BY DEF PassInv

\* A thread that is outside resolve, or at its beginning, owes nothing.
LEMMA Outside ==
  ASSUME NEW c \in Callers, caller'[c].at \notin {"routing", "noroute"}
  PROVE  PassInv(c)'
BY DEF PassInv

\* A step that touches no offer keeps the candidates on offer.
LEMMA SameOffer ==
  ASSUME StillOffered, UNCHANGED offer, UNCHANGED steady
  PROVE  StillOffered'
<1>1. AllOffered' = AllOffered
  BY DEF AllOffered, OnOffer, Named, Pool, offer, Vendor, Places
<1> QED BY <1>1 DEF StillOffered, offer

\* At the beginning of a pass no candidate has been met.
LEMMA AtTheStart ==
  ASSUME NEW c \in Callers, caller'[c].at = "routing", caller'[c].pos = 1,
         caller'[c].order \in Orders,
         caller'[c].honour \in BOOLEAN, caller'[c].cooled \in BOOLEAN,
         caller'[c].half \in BOOLEAN
  PROVE  PassInv(c)'
<1>1. 1..(caller'[c].pos - 1) = {} /\ caller'[c].pos \in Nat \ {0}
  OBVIOUS
<1>2. caller'[c].at # "noroute"
  OBVIOUS
<1> QED BY <1>1, <1>2, Zenon DEF PassInv

\* A first pass that has met an unwell candidate owes nothing yet.
LEMMA HasCooled ==
  ASSUME NEW c \in Callers, caller'[c].at = "routing", caller'[c].pos \in Nat \ {0},
         caller'[c].order \in Orders, caller'[c].honour = TRUE,
         caller'[c].cooled \in BOOLEAN, caller'[c].half \in BOOLEAN,
         caller'[c].cooled \/ caller'[c].half
  PROVE  PassInv(c)'
<1>1. caller'[c].at # "noroute"
  OBVIOUS
<1> QED BY <1>1, Zenon DEF PassInv

LEMMA BeginKeeps ==
  ASSUME IInv, NEW t \in Callers, Begin(t)
  PROVE  IInv'
<1> PICK o \in Orders :
      caller' = [caller EXCEPT ![t] = [Idle EXCEPT !.at = "routing", !.order = o]]
  BY DEF Begin
<1>1. Shape'
  BY DEF IInv, Shape, IsCaller, Idle
<1>2. StillOffered'
  <2>1. AllOffered' = AllOffered
    BY DEF Begin, AllOffered, OnOffer, Named, Pool, offer, Vendor, Places
  <2>2. steady' = [steady EXCEPT ![t] = AllOffered] /\ catalogue' = catalogue
    BY DEF Begin, offer
  <2> QED BY <2>1, <2>2 DEF IInv, StillOffered
<1>3. ASSUME NEW c \in Callers PROVE PassInv(c)'
  <2>1. CASE c # t
    <3>1. caller'[c] = caller[c] /\ steady'[c] \subseteq steady[c] /\ PassInv(c)
      BY <2>1 DEF IInv, Shape, StillOffered, Begin
    <3> QED BY <3>1, Untouched
  <2>2. CASE c = t
    <3>1. caller'[t] = [Idle EXCEPT !.at = "routing", !.order = o]
      BY DEF IInv, Shape
    <3>2. caller'[t].at = "routing" /\ caller'[t].order = o /\ caller'[t].pos = 1
      BY ONLY <3>1 DEF Idle
    <3>3. caller'[t].honour = TRUE
      BY ONLY <3>1 DEF Idle
    <3>4. caller'[t].cooled = FALSE
      BY ONLY <3>1 DEF Idle
    <3>6. caller'[t].half = FALSE
      BY ONLY <3>1 DEF Idle
    <3>5. /\ caller'[t].honour \in BOOLEAN /\ caller'[t].cooled \in BOOLEAN
          /\ caller'[t].half \in BOOLEAN
      BY ONLY <3>3, <3>4, <3>6, Zenon
    <3>7. caller'[t].at = "routing" /\ caller'[t].order \in Orders /\ caller'[t].pos = 1
      BY ONLY <3>2, o \in Orders
    <3>8. PassInv(t)'
      BY ONLY <3>5, <3>7, AtTheStart
    <3> QED BY ONLY <2>2, <3>8
  <2> QED BY <2>1, <2>2
<1> QED BY <1>1, <1>2, <1>3 DEF IInv

LEMMA AskKeeps ==
  ASSUME IInv, NEW t \in Callers, Ask(t)
  PROVE  IInv'
<1> DEFINE i == Candidate(t)
<1>1. Shape'
  <2>1. caller = [c \in Callers |-> caller[c]] /\ \A c \in Callers : IsCaller(caller[c])
    BY DEF IInv, Shape
  <2>2. PICK r : /\ caller' = [caller EXCEPT ![t] = r]
                 /\ \/ r = [caller[t] EXCEPT !.pos = caller[t].pos + 1]
                    \/ r = [caller[t] EXCEPT !.pos = caller[t].pos + 1,
                               !.cooled = caller[t].cooled \/ SaysCooling(Selected(i)),
                               !.half = caller[t].half \/ ~SaysCooling(Selected(i))]
                    \/ r = [Idle EXCEPT !.at = "calling", !.picked = Selected(i)]
    BY <2>1 DEF Ask
  <2>3. IsCaller(r)
    BY <2>1, <2>2 DEF IsCaller, Idle
  <2> QED BY <2>1, <2>2, <2>3 DEF Shape, IsCaller
<1>2. StillOffered'
  BY SameOffer DEF IInv, Ask, health
<1>3. ASSUME NEW c \in Callers PROVE PassInv(c)'
  <2>1. CASE c # t
    <3>1. caller'[c] = caller[c] /\ steady'[c] \subseteq steady[c] /\ PassInv(c)
      BY <2>1 DEF IInv, Shape, StillOffered, Ask
    <3> QED BY <3>1, Untouched
  <2>2. CASE c = t
    <3>1. /\ caller[t].at = "routing" /\ PassInv(t) /\ steady' = steady
          /\ caller[t].pos <= Len(caller[t].order)
          /\ steady[t] \subseteq AllOffered
          /\ caller = [d \in Callers |-> caller[d]]
          /\ IsCaller(caller[t])
      BY DEF IInv, Ask, AtCandidate, StillOffered, Shape
    <3>2. /\ caller[t].pos \in Nat \ {0} /\ caller[t].order \in Orders
          /\ caller[t].honour \in BOOLEAN /\ caller[t].cooled \in BOOLEAN
          /\ caller[t].half \in BOOLEAN
      BY <3>1 DEF PassInv
    <3>3. CASE /\ ~Offered(i)
               /\ caller' = [caller EXCEPT ![t].pos = @ + 1]
      <4>1. i \notin steady[t]
        BY <3>1, <3>3 DEF Offered
      <4>2. caller'[t] = [caller[t] EXCEPT !.pos = caller[t].pos + 1]
        BY <3>1, <3>3
      <4>3. /\ caller'[t].at = "routing" /\ caller'[t].pos = caller[t].pos + 1
            /\ caller'[t].order = caller[t].order
            /\ caller'[t].honour = caller[t].honour
            /\ caller'[t].cooled = caller[t].cooled
            /\ caller'[t].half = caller[t].half
        BY <3>1, <4>2 DEF IsCaller
      <4>4. ASSUME NEW k \in 1..caller[t].pos, caller[t].order[k] \in steady[t],
                   k <= Len(caller[t].order)
            PROVE  caller[t].honour /\ (caller[t].cooled \/ caller[t].half)
        <5>1. k # caller[t].pos
          BY <4>1, <4>4 DEF Candidate
        <5>2. k \in 1..(caller[t].pos - 1)
          BY <3>2, <5>1
        <5> QED BY <3>1, <4>4, <5>2 DEF PassInv
      <4> QED BY <2>2, <3>1, <3>2, <4>3, <4>4 DEF PassInv
    <3>4. CASE /\ caller[t].honour
               /\ caller' = [caller EXCEPT ![t].pos = @ + 1,
                                           ![t].cooled = @ \/ SaysCooling(Selected(i)),
                                           ![t].half = @ \/ ~SaysCooling(Selected(i))]
      <4> DEFINE says == SaysCooling(Selected(i))
      <4>1. caller'[t] = [caller[t] EXCEPT !.pos = caller[t].pos + 1,
                                           !.cooled = caller[t].cooled \/ says,
                                           !.half = caller[t].half \/ ~says]
        BY <3>1, <3>4
      <4> HIDE DEF says
      <4>2. /\ caller'[t].at = "routing" /\ caller'[t].pos = caller[t].pos + 1
            /\ caller'[t].order = caller[t].order
            /\ caller'[t].honour = caller[t].honour
            /\ caller'[t].cooled = (caller[t].cooled \/ says)
            /\ caller'[t].half = (caller[t].half \/ ~says)
        BY <3>1, <4>1 DEF IsCaller
      <4>3. caller'[t].pos \in Nat \ {0} /\ caller'[t].order \in Orders
        BY <3>2, <4>2
      <4>4. caller'[t].honour = TRUE
        BY <3>2, <3>4, <4>2
      <4>5. /\ caller'[t].cooled \in BOOLEAN /\ caller'[t].half \in BOOLEAN
            /\ caller'[t].cooled \/ caller'[t].half
        BY ONLY <4>2, Zenon
      <4> QED BY <2>2, <4>2, <4>3, <4>4, <4>5, HasCooled
    <3>5. CASE caller' = [caller EXCEPT ![t] = [Idle EXCEPT !.at = "calling",
                                                          !.picked = Selected(i)]]
      <4>1. caller'[t].at = "calling"
        <5>1. caller'[t] = [Idle EXCEPT !.at = "calling", !.picked = Selected(i)]
          BY <3>1, <3>5
        <5> QED BY ONLY <5>1, Calling
      <4> QED BY ONLY <2>2, <4>1, Outside
    <3> QED BY <3>3, <3>4, <3>5 DEF Ask
  <2> QED BY <2>1, <2>2
<1> QED BY <1>1, <1>2, <1>3 DEF IInv

\* At the end of a pass every candidate has been met.
LEMMA PassEndsKeeps ==
  ASSUME IInv, NEW t \in Callers, PassEnds(t)
  PROVE  IInv'
<1>1. Shape'
  BY DEF IInv, Shape, IsCaller, PassEnds, Idle
<1>2. StillOffered'
  BY SameOffer DEF IInv, PassEnds
<1>3. ASSUME NEW c \in Callers PROVE PassInv(c)'
  <2>1. CASE c # t
    <3>1. caller'[c] = caller[c] /\ steady'[c] \subseteq steady[c] /\ PassInv(c)
      BY <2>1 DEF IInv, Shape, StillOffered, PassEnds
    <3> QED BY <3>1, Untouched
  <2>2. CASE c = t
    <3>1. /\ caller[t].at = "routing" /\ PassInv(t) /\ steady' = steady
          /\ ~(caller[t].pos <= Len(caller[t].order))
          /\ caller = [d \in Callers |-> caller[d]]
          /\ IsCaller(caller[t])
          /\ steady[t] \subseteq AllOffered
      BY DEF IInv, PassEnds, AtCandidate, Shape, StillOffered
    <3>2. /\ caller[t].pos \in Nat \ {0} /\ caller[t].order \in Orders
          /\ caller[t].honour \in BOOLEAN /\ caller[t].cooled \in BOOLEAN
          /\ caller[t].half \in BOOLEAN
      BY <3>1 DEF PassInv
    <3>3. Len(caller[t].order) \in Nat
      BY <3>2, RouterAssumption, LenProperties
    <3>4. ASSUME ~(caller[t].honour /\ caller[t].cooled), ~caller[t].half PROVE steady[t] = {}
      <4> SUFFICES ASSUME NEW j \in steady[t] PROVE FALSE
        OBVIOUS
      <4>1. PICK k \in 1..Len(caller[t].order) : caller[t].order[k] = j
        BY <3>1, <3>2, OfferedIsAPlace, OrderCovers
      <4>2. k \in 1..(caller[t].pos - 1) /\ k <= Len(caller[t].order)
        BY <3>1, <3>2, <3>3
      <4> QED BY <3>1, <3>4, <4>1, <4>2 DEF PassInv
    <3>5. CASE \E o \in Orders :
                 caller' = [caller EXCEPT ![t].honour = FALSE, ![t].pos = 1,
                                          ![t].order = o]
      <4>1. PICK o \in Orders :
                 caller' = [caller EXCEPT ![t].honour = FALSE, ![t].pos = 1,
                                          ![t].order = o]
        BY <3>5
      <4>2. caller'[t] = [caller[t] EXCEPT !.honour = FALSE, !.pos = 1, !.order = o]
        BY <3>1, <4>1
      <4>3. /\ caller'[t].at = "routing" /\ caller'[t].pos = 1 /\ caller'[t].order = o
            /\ caller'[t].honour = FALSE /\ caller'[t].cooled = caller[t].cooled
            /\ caller'[t].half = caller[t].half
        BY <3>1, <4>2 DEF IsCaller
      <4>4. /\ caller'[t].honour \in BOOLEAN /\ caller'[t].cooled \in BOOLEAN
            /\ caller'[t].half \in BOOLEAN
        BY <3>2, <4>3, Zenon
      <4> QED BY <2>2, <4>3, <4>4, AtTheStart
    <3>6. CASE /\ ~(caller[t].honour /\ caller[t].cooled)
               /\ caller' = [caller EXCEPT ![t] = [Idle EXCEPT !.at = "noroute",
                                                              !.half = caller[t].half]]
      <4>1. caller'[t] = [Idle EXCEPT !.at = "noroute", !.half = caller[t].half]
        BY <3>1, <3>6
      <4>2. caller'[t].at = "noroute" /\ caller'[t].half = caller[t].half
        BY ONLY <4>1, NoRoute
      <4>3. steady'[t] = {} \/ caller'[t].half
        BY <3>1, <3>4, <3>6, <4>2
      <4>4. PassInv(t)'
        BY ONLY <4>2, <4>3, SMT DEF PassInv
      <4> QED BY ONLY <2>2, <4>4
    <3> QED BY <3>5, <3>6 DEF PassEnds
  <2> QED BY <2>1, <2>2
<1> QED BY <1>1, <1>2, <1>3 DEF IInv

LEMMA VendorType == \A i \in Places : Vendor(i) \in Providers
<1> SUFFICES ASSUME NEW i \in Places PROVE Vendor(i) \in Providers
  OBVIOUS
<1>1. Chain[i] \in Seq(Models) /\ Len(Chain[i]) > 0
  BY RouterAssumption, ElementOfSeq DEF Places
<1>2. Chain[i][1] \in Models
  BY <1>1, ElementOfSeq
<1> QED BY <1>2, RouterAssumption DEF Vendor

\* A step of thread t that leaves resolve, or is none of it, and touches
\* neither the offer nor the candidates on offer.
LEMMA Elsewhere ==
  ASSUME IInv, NEW t \in Callers, NEW r,
         IsCaller(r), r.at \notin {"routing", "noroute"},
         caller' = [caller EXCEPT ![t] = r],
         UNCHANGED offer, UNCHANGED steady
  PROVE  IInv'
<1>1. caller = [d \in Callers |-> caller[d]] /\ \A d \in Callers : IsCaller(caller[d])
  BY DEF IInv, Shape
<1>2. caller'[t] = r /\ \A d \in Callers \ {t} : caller'[d] = caller[d]
  BY <1>1
<1>3. Shape'
  BY <1>1, <1>2 DEF Shape, IsCaller
<1>4. StillOffered'
  BY SameOffer DEF IInv
<1>5. ASSUME NEW c \in Callers PROVE PassInv(c)'
  <2>1. CASE c = t
    BY <2>1, <1>2, Outside
  <2>2. CASE c # t
    <3>1. caller'[c] = caller[c] /\ steady'[c] \subseteq steady[c] /\ PassInv(c)
      BY <1>2, <2>2 DEF IInv
    <3> QED BY <3>1, Untouched
  <2> QED BY <2>1, <2>2
<1> QED BY <1>3, <1>4, <1>5 DEF IInv

\* A step that leaves every thread where it is and at most narrows what was
\* on offer all along.
LEMMA Narrowed ==
  ASSUME IInv, StillOffered', caller' = caller,
         \A c \in Callers : steady'[c] \subseteq steady[c]
  PROVE  IInv'
<1>1. Shape'
  BY DEF IInv, Shape, IsCaller
<1>2. ASSUME NEW c \in Callers PROVE PassInv(c)'
  BY Untouched DEF IInv
<1> QED BY <1>1, <1>2 DEF IInv

\* A list that is fetched offers what it was counted on to offer.
LEMMA FetchKeeps ==
  ASSUME IInv, NEW t \in Callers, Fetch(t)
  PROVE  IInv'
<1>1. PICK p \in Needed(t) \cap configured :
        /\ \/ /\ p \notin listed
              /\ listed' = listed \cup {p}
              /\ catalogue' = [catalogue EXCEPT ![p] = Pool(p)]
              /\ caller' = caller
           \/ /\ caller' = [caller EXCEPT ![t] = [Idle EXCEPT !.at = "raised"]]
              /\ UNCHANGED <<listed, catalogue>>
        /\ UNCHANGED <<configured, learned, health, steady>>
  BY DEF Fetch
<1>2. CASE /\ p \notin listed
           /\ listed' = listed \cup {p}
           /\ catalogue' = [catalogue EXCEPT ![p] = Pool(p)]
           /\ caller' = caller
  <2>1. catalogue = [q \in Providers |-> catalogue[q]]
    BY DEF IInv, StillOffered
  <2>2. ASSUME NEW q \in Providers PROVE Pool(q)' = Pool(q)
    BY <1>1, <1>2, <2>1 DEF Pool
  <2>3. AllOffered' = AllOffered
    BY <1>1, <2>2 DEF AllOffered, OnOffer, Named, Vendor, Places
  <2>4. StillOffered'
    BY <1>1, <1>2, <2>1, <2>3 DEF IInv, StillOffered
  <2> QED BY <1>1, <1>2, <2>4, Narrowed
<1>3. CASE /\ caller' = [caller EXCEPT ![t] = [Idle EXCEPT !.at = "raised"]]
           /\ UNCHANGED <<listed, catalogue>>
  <2> DEFINE r == [Idle EXCEPT !.at = "raised"]
  <2>0. r = [Idle EXCEPT !.at = "raised"]
    OBVIOUS
  <2>2. UNCHANGED offer /\ UNCHANGED steady /\ caller' = [caller EXCEPT ![t] = r]
    BY <1>1, <1>3 DEF offer
  <2> HIDE DEF r
  <2>1. IsCaller(r) /\ r.at \notin {"routing", "noroute"}
    BY <2>0 DEF IsCaller, Idle
  <2> QED BY <2>1, <2>2, Elsewhere
<1> QED BY <1>1, <1>2, <1>3

LEMMA ReloadKeeps ==
  ASSUME IInv, Reload
  PROVE  IInv'
<1> DEFINE refetched == [p \in Providers |-> Advertised[p] \ learned]
<1>1. PICK keys \in SUBSET Providers :
        /\ configured' = keys
        /\ steady' = [c \in Callers |-> steady[c] \cap OnOffer(keys, refetched)]
  BY DEF Reload
<1>2. /\ listed' = {} /\ learned' = learned /\ caller' = caller
      /\ catalogue' = [p \in Providers |-> {}]
  BY DEF Reload
<1>3. \A p \in Providers : Pool(p)' = refetched[p]
  BY <1>2 DEF Pool
<1>7. [p \in Providers |-> Pool(p)'] = refetched
  BY ONLY <1>3
<1>4. AllOffered' = OnOffer(keys, refetched)
  <2> HIDE DEF refetched
  <2> QED BY ONLY <1>1, <1>7, Zenon DEF AllOffered, OnOffer, Named, Vendor, Places
<1>5. \A c \in Callers : steady'[c] \subseteq AllOffered' /\ steady'[c] \subseteq steady[c]
  BY <1>1, <1>4
<1>6. StillOffered'
  BY <1>1, <1>2, <1>5 DEF StillOffered
<1> QED BY <1>2, <1>5, <1>6, Narrowed

\* What a model's withdrawal leaves on offer, before the thread that heard
\* of it goes on.
LEMMA WithdrawnKeeps ==
  ASSUME IInv, NEW t \in Callers, Withdrawn(t)
  PROVE  IInv'
<1> DEFINE m == caller[t].picked
           left == [p \in Providers |-> IF p \in listed THEN Pool(p) ELSE Pool(p) \ {m}]
           r == IF caller[t].walk
                THEN [caller[t] EXCEPT !.at = "walking", !.picked = None, !.owes = None] ELSE Idle
<1>1. /\ learned' = learned \cup {m}
      /\ UNCHANGED <<configured, listed, catalogue>>
      /\ steady' = [c \in Callers |-> steady[c] \cap OnOffer(configured, left)]
  BY DEF Withdrawn
<1>2. \A p \in Providers : Pool(p)' = left[p]
  BY <1>1 DEF Pool
<1>2a. [p \in Providers |-> Pool(p)'] = left
  BY ONLY <1>2
<1>3. AllOffered' = OnOffer(configured, left)
  <2> HIDE DEF left, m, r
  <2> QED BY ONLY <1>1, <1>2a, Zenon DEF AllOffered, OnOffer, Named, Vendor, Places
<1>4. \A c \in Callers : steady'[c] \subseteq AllOffered' /\ steady'[c] \subseteq steady[c]
  BY <1>1, <1>3
<1>5. StillOffered'
  BY <1>1, <1>4 DEF IInv, StillOffered
<1>6. /\ caller = [d \in Callers |-> caller[d]] /\ \A d \in Callers : IsCaller(caller[d])
      /\ caller' = [caller EXCEPT ![t] = r] /\ IsCaller(caller[t])
  BY DEF IInv, Shape, Withdrawn, AfterFailure
<1>0. r = IF caller[t].walk
           THEN [caller[t] EXCEPT !.at = "walking", !.picked = None, !.owes = None] ELSE Idle
  OBVIOUS
<1> HIDE DEF r
<1>7. IsCaller(r) /\ r.at \notin {"routing", "noroute"}
  <2>1. IsCaller(Idle) /\ Idle.at = "idle"
    BY DEF IsCaller, Idle
  <2>2. CASE caller[t].walk
    <3>1. r = [caller[t] EXCEPT !.at = "walking", !.picked = None, !.owes = None]
      BY <1>0, <2>2
    <3> QED BY <1>6, <3>1 DEF IsCaller
  <2>3. CASE ~caller[t].walk
    BY <1>0, <2>1, <2>3
  <2> QED BY <2>2, <2>3
<1>8. caller'[t] = r /\ \A d \in Callers \ {t} : caller'[d] = caller[d]
  BY <1>6
<1>9. Shape'
  BY <1>6, <1>7, <1>8 DEF Shape, IsCaller
<1>10. ASSUME NEW c \in Callers PROVE PassInv(c)'
  <2>1. CASE c = t
    BY <2>1, <1>7, <1>8, Outside
  <2>2. CASE c # t
    <3>1. caller'[c] = caller[c] /\ steady'[c] \subseteq steady[c] /\ PassInv(c)
      BY <1>4, <1>8, <2>2 DEF IInv
    <3> QED BY <3>1, Untouched
  <2> QED BY <2>1, <2>2
<1> QED BY <1>5, <1>9, <1>10 DEF IInv

LEMMA BeginWalkKeeps ==
  ASSUME IInv, NEW t \in Callers, BeginWalk(t)
  PROVE  IInv'
<1> DEFINE r == [Idle EXCEPT !.at = "planning", !.walk = TRUE]
<1>1. /\ caller = [d \in Callers |-> caller[d]] /\ \A d \in Callers : IsCaller(caller[d])
      /\ caller' = [caller EXCEPT ![t] = r]
      /\ steady' = [steady EXCEPT ![t] = AllOffered]
  BY DEF IInv, Shape, BeginWalk
<1>0. r = [Idle EXCEPT !.at = "planning", !.walk = TRUE]
  OBVIOUS
<1> HIDE DEF r
<1>2. IsCaller(r) /\ r.at \notin {"routing", "noroute"}
  BY <1>0 DEF IsCaller, Idle
<1>3. caller'[t] = r /\ \A d \in Callers \ {t} : caller'[d] = caller[d]
  BY <1>1
<1>4. Shape'
  BY <1>1, <1>2, <1>3 DEF Shape, IsCaller
<1>5. StillOffered'
  <2>1. AllOffered' = AllOffered
    BY DEF BeginWalk, AllOffered, OnOffer, Named, Pool, offer, Vendor, Places
  <2>2. catalogue' = catalogue
    BY DEF BeginWalk, offer
  <2> QED BY <1>1, <2>1, <2>2 DEF IInv, StillOffered
<1>6. ASSUME NEW c \in Callers PROVE PassInv(c)'
  <2>1. CASE c = t
    BY <2>1, <1>2, <1>3, Outside
  <2>2. CASE c # t
    <3>1. caller'[c] = caller[c] /\ steady'[c] \subseteq steady[c] /\ PassInv(c)
      BY <1>1, <1>3, <2>2 DEF IInv, StillOffered
    <3> QED BY <3>1, Untouched
  <2> QED BY <2>1, <2>2
<1> QED BY <1>4, <1>5, <1>6 DEF IInv

LEMMA PlanKeeps ==
  ASSUME IInv, NEW t \in Callers, Plan(t)
  PROVE  IInv'
<1>1. PICK plan : caller' = [caller EXCEPT ![t].at = "walking", ![t].plan = plan]
  BY DEF Plan
<1> DEFINE r == [caller[t] EXCEPT !.at = "walking", !.plan = plan]
<1>2. caller = [d \in Callers |-> caller[d]] /\ IsCaller(caller[t])
  BY DEF IInv, Shape
<1>3. caller' = [caller EXCEPT ![t] = r]
  BY <1>1, <1>2
<1>0. r = [caller[t] EXCEPT !.at = "walking", !.plan = plan]
  OBVIOUS
<1> HIDE DEF r
<1>4. IsCaller(r) /\ r.at \notin {"routing", "noroute"}
  BY <1>0, <1>2 DEF IsCaller
<1>5. UNCHANGED offer /\ UNCHANGED steady
  BY DEF Plan
<1> QED BY <1>3, <1>4, <1>5, Elsewhere

LEMMA WalkKeeps ==
  ASSUME IInv, NEW t \in Callers, Walk(t)
  PROVE  IInv'
<1>1. caller = [d \in Callers |-> caller[d]] /\ IsCaller(caller[t])
      /\ UNCHANGED offer /\ UNCHANGED steady /\ caller[t].at = "walking"
  BY DEF IInv, Shape, Walk
<1>2. PICK r : /\ caller' = [caller EXCEPT ![t] = r]
               /\ \/ r = [caller[t] EXCEPT !.at = "unanswered"]
                  \/ r = [caller[t] EXCEPT !.plan = Tail(caller[t].plan)]
                  \/ r = [caller[t] EXCEPT !.plan = Tail(caller[t].plan),
                            !.at = "calling", !.picked = Head(caller[t].plan),
                            !.asked = TRUE]
  BY <1>1 DEF Walk
<1>3. IsCaller(r) /\ r.at \notin {"routing", "noroute"}
  BY <1>1, <1>2 DEF IsCaller
<1> QED BY <1>1, <1>2, <1>3, Elsewhere

\* A report leaves no thread in resolve and touches no offer.
LEMMA EndsKeeps ==
  ASSUME IInv, NEW t \in Callers,
         \/ RateLimited(t) \/ OutOfCredit(t) \/ TransportFails(t) \/ Explains(t)
         \/ Refused(t) \/ Reports(t)
  PROVE  IInv'
<1>1. caller = [d \in Callers |-> caller[d]] /\ IsCaller(caller[t])
  BY DEF IInv, Shape
<1>2. UNCHANGED offer /\ UNCHANGED steady
  BY DEF RateLimited, OutOfCredit, TransportFails, Explains, Refused, Reports
<1>3. IsCaller(Idle) /\ Idle.at = "idle"
  BY DEF IsCaller, Idle
<1>4. CASE caller' = [caller EXCEPT ![t] = Idle]
  BY <1>2, <1>3, <1>4, Elsewhere
<1>5. CASE AfterFailure(t)
  <2> DEFINE r == IF caller[t].walk
                  THEN [caller[t] EXCEPT !.at = "walking", !.picked = None, !.owes = None] ELSE Idle
  <2>1. caller' = [caller EXCEPT ![t] = r]
    BY <1>1, <1>5 DEF AfterFailure
  <2>0. r = IF caller[t].walk
            THEN [caller[t] EXCEPT !.at = "walking", !.picked = None, !.owes = None] ELSE Idle
    OBVIOUS
  <2> HIDE DEF r
  <2>2. IsCaller(r) /\ r.at \notin {"routing", "noroute"}
    BY <1>1, <1>3, <2>0 DEF IsCaller
  <2> QED BY <1>2, <2>1, <2>2, Elsewhere
<1>6. ASSUME NEW which, Owes(t, which) PROVE IInv'
  <2> DEFINE r == [caller[t] EXCEPT !.at = "noting", !.owes = which]
  <2>1. caller' = [caller EXCEPT ![t] = r]
    BY <1>1, <1>6 DEF Owes
  <2>0. r = [caller[t] EXCEPT !.at = "noting", !.owes = which]
    OBVIOUS
  <2> HIDE DEF r
  <2>2. IsCaller(r) /\ r.at \notin {"routing", "noroute"}
    BY <1>1, <2>0 DEF IsCaller
  <2> QED BY <1>2, <2>1, <2>2, Elsewhere
<1> QED BY <1>4, <1>5, <1>6 DEF RateLimited, OutOfCredit, TransportFails, Explains, Refused, Reports

\* An answer ends its thread's call and takes at most a debt off others.
LEMMA AnswersKeeps ==
  ASSUME IInv, NEW t \in Callers, Answers(t)
  PROVE  IInv'
<1>1. UNCHANGED offer /\ UNCHANGED steady
  BY DEF Answers
<1>2. caller'[t] = Idle /\ caller' = [d \in Callers |-> caller'[d]]
  BY DEF Answers
<1>3. ASSUME NEW c \in Callers, c # t
      PROVE  \/ caller'[c] = caller[c]
             \/ caller'[c] = [caller[c] EXCEPT !.owes = None]
  BY <1>3 DEF Answers
<1>4. \A c \in Callers : IsCaller(caller[c])
  BY DEF IInv, Shape
<1>5. IsCaller(Idle) /\ Idle.at = "idle"
  BY DEF IsCaller, Idle
<1>6. ASSUME NEW c \in Callers, c # t
      PROVE  /\ IsCaller(caller'[c])
             /\ caller'[c].at = caller[c].at /\ caller'[c].honour = caller[c].honour
             /\ caller'[c].order = caller[c].order /\ caller'[c].pos = caller[c].pos
             /\ caller'[c].cooled = caller[c].cooled /\ caller'[c].half = caller[c].half
  BY <1>3, <1>4, <1>6 DEF IsCaller
<1>7. Shape'
  BY <1>2, <1>5, <1>6 DEF Shape, IsCaller
<1>8. StillOffered'
  BY <1>1, SameOffer DEF IInv
<1>9. ASSUME NEW c \in Callers PROVE PassInv(c)'
  <2>1. CASE c = t
    BY <1>2, <1>5, <2>1, Outside
  <2>2. CASE c # t
    <3>1. PassInv(c) /\ steady' = steady
      BY <1>1 DEF IInv
    <3> QED BY <1>6, <2>2, <3>1 DEF PassInv
  <2> QED BY <2>1, <2>2
<1> QED BY <1>7, <1>8, <1>9 DEF IInv

LEMMA NextIInv == IInv /\ [Next]_vars => IInv'
<1> SUFFICES ASSUME IInv, [Next]_vars PROVE IInv'
  OBVIOUS
<1>1. CASE Tick
  <2>1. UNCHANGED offer /\ UNCHANGED steady /\ caller' = caller
    BY <1>1 DEF Tick
  <2>2. StillOffered'
    BY <2>1, SameOffer DEF IInv
  <2> QED BY <2>1, <2>2, Narrowed
<1>2. CASE Reload
  BY <1>2, ReloadKeeps
<1>3. CASE \E c \in Callers : Begin(c) \/ BeginWalk(c) \/ Routes(c) \/ Ends(c) \/ Reports(c)
  <2> PICK t \in Callers : Begin(t) \/ BeginWalk(t) \/ Routes(t) \/ Ends(t) \/ Reports(t)
    BY <1>3
  <2>1. CASE Routes(t)
    BY <2>1, FetchKeeps, AskKeeps, PassEndsKeeps, PlanKeeps, WalkKeeps DEF Routes
  <2>2. CASE Ends(t)
    BY <2>2, AnswersKeeps, EndsKeeps, WithdrawnKeeps DEF Ends
  <2> QED BY <2>1, <2>2, BeginKeeps, BeginWalkKeeps, EndsKeeps
<1>4. CASE UNCHANGED vars
  <2>1. UNCHANGED offer /\ UNCHANGED steady /\ caller' = caller
    BY <1>4 DEF vars, offer
  <2>2. StillOffered'
    BY <2>1, SameOffer DEF IInv
  <2> QED BY <2>1, <2>2, Narrowed
<1> QED BY <1>1, <1>2, <1>3, <1>4 DEF Next

\* A resolve that finds no route had no candidate that was on offer all the
\* time it looked, or it met a window whose reason was still to be written
\* (Router.resolve, health.py's reports): no other interleaving of other
\* threads' reports makes the cooldowns take the last route.
THEOREM CooldownsLeaveARoute == Spec => []NeverIntoNothing
<1>1. IInv => NeverIntoNothing
  BY DEF IInv, PassInv, NeverIntoNothing
<1> QED BY InitIInv, NextIInv, <1>1, PTL DEF Spec

(***************************************************************************)
(* Strikes.                                                                *)
(***************************************************************************)

Counted ==
  /\ model \in [Models -> Records]
  /\ provider \in [Providers -> Records]
  /\ Shape

LEMMA StruckMore ==
  ASSUME NEW r \in Records
  PROVE  Struck(r) \in 1..MaxStrikes /\ Struck(r) >= r.strikes
<1>1. r.strikes \in 0..MaxStrikes /\ MaxStrikes \in Nat \ {0}
  BY RouterAssumption DEF Records
<1> QED BY <1>1 DEF Struck, LeastOf

LEMMA CooledMore ==
  ASSUME NEW r \in Records, NEW w \in Nat
  PROVE  Cooled(r, w) \in Records /\ Cooled(r, w).strikes >= r.strikes
<1>1. Struck(r) \in 0..MaxStrikes /\ Struck(r) >= r.strikes
  BY StruckMore, RouterAssumption
<1> QED BY <1>1 DEF Records, Cooled

\* One record of many replaced by one with no fewer strikes.
LEMMA OneReplaced ==
  ASSUME NEW D, NEW f \in [D -> Records], NEW d, NEW r, NEW g,
         g = [f EXCEPT ![d] = r],
         d \in D => r \in Records /\ r.strikes >= f[d].strikes
  PROVE  g \in [D -> Records] /\ \A e \in D : g[e].strikes >= f[e].strikes
<1>1. ASSUME NEW e \in D PROVE g[e] \in Records /\ g[e].strikes >= f[e].strikes
  <2>1. CASE e = d
    <3>1. g[e] = r
      BY <2>1
    <3> QED BY <2>1, <3>1
  <2>2. CASE e # d
    <3>1. g[e] = f[e] /\ f[e] \in Records
      BY <2>2
    <3>2. f[e].strikes \in Nat
      BY <3>1, RouterAssumption DEF Records
    <3> QED BY <3>1, <3>2
  <2> QED BY <2>1, <2>2
<1>2. g = [e \in D |-> g[e]]
  OBVIOUS
<1> QED BY <1>1, <1>2

LEMMA WaitType ==
  ASSUME NEW r \in Records
  PROVE  ModelWait[Struck(r)] \in Nat /\ ProviderWait[Struck(r)] \in Nat
BY StruckMore, RouterAssumption

LEMMA FailedMore ==
  ASSUME NEW r \in Records
  PROVE  Failed(r) \in Records /\ Failed(r).strikes >= r.strikes
<1> DEFINE counted == LeastOf(r.failures + 1, BreakerThreshold)
           more == [r EXCEPT !.failures = counted]
           wait == ProviderWait[Struck(r)]
<1>1. r.failures \in 0..BreakerThreshold /\ BreakerThreshold \in Nat
  BY RouterAssumption DEF Records
<1>2. counted \in 0..BreakerThreshold
  BY <1>1 DEF LeastOf
<1>3. Failed(r) = IF counted < BreakerThreshold THEN more ELSE Cooled(more, wait)
  BY DEF Failed
<1>4. more \in Records /\ more.strikes = r.strikes
  <2> HIDE DEF counted
  <2> QED BY <1>2 DEF Records
<1>5. wait \in Nat
  BY WaitType
<1>6. r.strikes \in Nat
  BY RouterAssumption DEF Records
<1> HIDE DEF counted, more, wait
<1>7. Cooled(more, wait) \in Records /\ Cooled(more, wait).strikes >= more.strikes
  BY <1>4, <1>5, CooledMore
<1> QED BY <1>3, <1>4, <1>6, <1>7

LEMMA TickedSame ==
  ASSUME NEW r \in Records
  PROVE  Ticked(r) \in Records /\ Ticked(r).strikes = r.strikes
<1>1. r.left \in Nat
  BY DEF Records
<1>2. (IF r.left = 0 THEN 0 ELSE r.left - 1) \in Nat
  BY <1>1
<1> QED BY <1>2 DEF Ticked, Records

LEMMA FreshType == Fresh \in Records
BY RouterAssumption DEF Fresh, Records

\* A report that is not of an answer keeps the records and forgives nothing.
LEMMA ReportsForgiveNothing ==
  ASSUME Counted, NEW t \in Callers,
         \/ RateLimited(t) \/ OutOfCredit(t) \/ TransportFails(t) \/ Explains(t)
  PROVE  /\ model' \in [Models -> Records] /\ provider' \in [Providers -> Records]
         /\ \A m \in Models : model'[m].strikes >= model[m].strikes
         /\ \A p \in Providers : provider'[p].strikes >= provider[p].strikes
<1> DEFINE m == caller[t].picked
           v == Vendors(t)
<1>0. \A r \in Records : r.strikes \in Nat
  BY RouterAssumption DEF Records
<1>1. ASSUME NEW wait \in Nat, NoteRateLimit(m, wait)
      PROVE  /\ model' \in [Models -> Records] /\ provider' = provider
             /\ \A n \in Models : model'[n].strikes >= model[n].strikes
  <2>1. model' = [model EXCEPT ![m] = Cooled(model[m], wait)] /\ provider' = provider
    BY <1>1 DEF NoteRateLimit
  <2> HIDE DEF m
  <2>2. model \in [Models -> Records]
    BY DEF Counted
  <2>3. m \in Models => /\ Cooled(model[m], wait) \in Records
                        /\ Cooled(model[m], wait).strikes >= model[m].strikes
    BY <2>2, CooledMore
  <2> DEFINE r == Cooled(model[m], wait)
  <2>4. model' = [model EXCEPT ![m] = r] /\ (m \in Models => r \in Records /\ r.strikes >= model[m].strikes)
    BY <2>1, <2>3
  <2> HIDE DEF r
  <2>5. model' \in [Models -> Records] /\ \A n \in Models : model'[n].strikes >= model[n].strikes
    BY ONLY <2>2, <2>4, OneReplaced
  <2> QED BY <2>1, <2>5
<1>2. ASSUME NEW q, \A p \in Providers : q[p] \in Records /\ q[p].strikes >= provider[p].strikes,
             provider' = [provider EXCEPT ![v] = q[v]], model' = model
      PROVE  /\ provider' \in [Providers -> Records]
             /\ \A p \in Providers : provider'[p].strikes >= provider[p].strikes
  <2> HIDE DEF v
  <2>1. provider \in [Providers -> Records]
    BY DEF Counted
  <2>2. v \in Providers => q[v] \in Records /\ q[v].strikes >= provider[v].strikes
    BY <1>2
  <2>3. provider' = [provider EXCEPT ![v] = q[v]]
    BY <1>2
  <2> DEFINE r == q[v]
  <2>4. provider' = [provider EXCEPT ![v] = r]
        /\ (v \in Providers => r \in Records /\ r.strikes >= provider[v].strikes)
    BY <2>2, <2>3
  <2> HIDE DEF r
  <2> QED BY ONLY <2>1, <2>4, OneReplaced
<1>3. CASE UNCHANGED <<model, provider>>
  BY <1>0, <1>3 DEF Counted
<1>4. CASE RateLimited(t) /\ ~UNCHANGED <<model, provider>>
  <2>1. PICK wait \in RetryAfters \cup {ModelWait[Struck(model[m])]} : NoteRateLimit(m, wait)
    BY <1>4 DEF RateLimited
  <2>2. CASE m \in Models
    <3>1. wait \in Nat
      BY <2>2, WaitType, RouterAssumption DEF Counted
    <3> QED BY <1>0, <1>1, <2>1, <3>1 DEF Counted
  <2>3. CASE m \notin Models
    <3>1. model' = model /\ provider' = provider
      BY <2>1, <2>3 DEF NoteRateLimit, Counted
    <3> QED BY <1>3, <3>1
  <2> QED BY <2>2, <2>3
<1>5. CASE OutOfCredit(t) /\ ~UNCHANGED <<model, provider>>
  <2> DEFINE q == [p \in Providers |-> Cooled(provider[p], ExhaustedCooldown)]
  <2>1. provider' = [provider EXCEPT ![v] = Cooled(@, ExhaustedCooldown)] /\ model' = model
    BY <1>5 DEF OutOfCredit, NoteExhausted
  <2>2. \A p \in Providers : q[p] \in Records /\ q[p].strikes >= provider[p].strikes
    BY CooledMore, RouterAssumption DEF Counted
  <2>3. provider' = [provider EXCEPT ![v] = q[v]]
    BY <2>1 DEF Counted
  <2> HIDE DEF q, v
  <2>4. /\ provider' \in [Providers -> Records]
        /\ \A p \in Providers : provider'[p].strikes >= provider[p].strikes
    BY <1>2, <2>1, <2>2, <2>3
  <2>5. \A n \in Models : model'[n].strikes >= model[n].strikes
    BY <1>0, <2>1 DEF Counted
  <2> QED BY <2>1, <2>4, <2>5 DEF Counted
<1>6. CASE TransportFails(t) /\ ~UNCHANGED <<model, provider>>
  <2> DEFINE q == [p \in Providers |-> Failed(provider[p])]
  <2>1. provider' = [provider EXCEPT ![v] = Failed(@)] /\ model' = model
    BY <1>6 DEF TransportFails, NoteTransportFailure
  <2>2. \A p \in Providers : q[p] \in Records /\ q[p].strikes >= provider[p].strikes
    BY FailedMore DEF Counted
  <2>3. provider' = [provider EXCEPT ![v] = q[v]]
    BY <2>1 DEF Counted
  <2> HIDE DEF q, v
  <2>4. /\ provider' \in [Providers -> Records]
        /\ \A p \in Providers : provider'[p].strikes >= provider[p].strikes
    BY <1>2, <2>1, <2>2, <2>3
  <2>5. \A n \in Models : model'[n].strikes >= model[n].strikes
    BY <1>0, <2>1 DEF Counted
  <2> QED BY <2>1, <2>4, <2>5 DEF Counted
<1>7. CASE Explains(t)
  <2>1. ASSUME NEW r \in Records
        PROVE  /\ [r EXCEPT !.told = TRUE] \in Records
               /\ [r EXCEPT !.told = TRUE].strikes >= r.strikes
    <3>1. r.strikes \in Nat /\ [r EXCEPT !.told = TRUE].strikes = r.strikes
      BY <1>0 DEF Records
    <3>2. [r EXCEPT !.told = TRUE] \in Records
      BY DEF Records
    <3> QED BY <3>1, <3>2
  <2>2. \/ model' = model
        \/ model' = [model EXCEPT ![m] = [model[m] EXCEPT !.told = TRUE]]
    BY <1>7 DEF Explains, Counted
  <2>3. \/ provider' = provider
        \/ provider' = [provider EXCEPT ![v] = [provider[v] EXCEPT !.told = TRUE]]
    BY <1>7 DEF Explains, Counted
  <2>4. model' \in [Models -> Records] /\ \A n \in Models : model'[n].strikes >= model[n].strikes
    <3>1. CASE model' = model
      BY <1>0, <3>1 DEF Counted
    <3>2. CASE model' = [model EXCEPT ![m] = [model[m] EXCEPT !.told = TRUE]]
      <4> DEFINE r == [model[m] EXCEPT !.told = TRUE]
      <4>1. /\ model \in [Models -> Records] /\ model' = [model EXCEPT ![m] = r]
            /\ m \in Models => r \in Records /\ r.strikes >= model[m].strikes
        BY <2>1, <3>2 DEF Counted
      <4> HIDE DEF r, m
      <4> QED BY ONLY <4>1, OneReplaced
    <3> QED BY <2>2, <3>1, <3>2
  <2>5. /\ provider' \in [Providers -> Records]
        /\ \A p \in Providers : provider'[p].strikes >= provider[p].strikes
    <3>1. CASE provider' = provider
      BY <1>0, <3>1 DEF Counted
    <3>2. CASE provider' = [provider EXCEPT ![v] = [provider[v] EXCEPT !.told = TRUE]]
      <4> DEFINE r == [provider[v] EXCEPT !.told = TRUE]
      <4>1. /\ provider \in [Providers -> Records] /\ provider' = [provider EXCEPT ![v] = r]
            /\ v \in Providers => r \in Records /\ r.strikes >= provider[v].strikes
        BY <2>1, <3>2 DEF Counted
      <4> HIDE DEF r, v
      <4> QED BY ONLY <4>1, OneReplaced
    <3> QED BY <2>3, <3>1, <3>2
  <2> QED BY <2>4, <2>5
<1> QED BY <1>3, <1>4, <1>5, <1>6, <1>7

\* What a step does to the strikes.
Forgiven(m) ==
  \/ model'[m].strikes < model[m].strikes
  \/ provider'[ProviderOf[m]].strikes < provider[ProviderOf[m]].strikes

AnsweredBy(m) ==
  \E c \in Callers : /\ caller[c].at = "calling" /\ caller'[c].at = "idle"
                     /\ ProviderOf[caller[c].picked] = ProviderOf[m]

LEMMA AnswerForgives ==
  ASSUME Counted, NEW t \in Callers, Answers(t)
  PROVE  /\ model' \in [Models -> Records] /\ provider' \in [Providers -> Records]
         /\ \A m \in Models : Forgiven(m) => AnsweredBy(m)
<1>0. \A r \in Records : r.strikes \in Nat
  BY RouterAssumption DEF Records
<1>1. /\ model' = [model EXCEPT ![caller[t].picked] = Fresh]
      /\ provider' = [provider EXCEPT ![ProviderOf[caller[t].picked]] = Fresh]
      /\ caller'[t] = Idle
      /\ caller[t].at = "calling"
      /\ caller = [c \in Callers |-> caller[c]]
  BY DEF Answers, NoteSuccess, Counted, Shape
<1>2. caller'[t].at = "idle"
  <2>1. caller'[t] = Idle
    BY <1>1
  <2> QED BY <2>1 DEF Idle
<1>3. ASSUME NEW m \in Models, Forgiven(m) PROVE AnsweredBy(m)
  <2>1. ProviderOf[caller[t].picked] = ProviderOf[m]
    <3> SUFFICES ASSUME ProviderOf[caller[t].picked] # ProviderOf[m] PROVE FALSE
      OBVIOUS
    <3>1. m # caller[t].picked /\ ProviderOf[m] \in Providers
      BY RouterAssumption
    <3>2. model'[m] = model[m] /\ provider'[ProviderOf[m]] = provider[ProviderOf[m]]
      BY <1>1, <3>1 DEF Counted
    <3> QED BY <1>0, <1>3, <3>1, <3>2 DEF Forgiven, Counted
  <2> QED BY <1>1, <1>2, <2>1 DEF AnsweredBy
<1>4. model' \in [Models -> Records] /\ provider' \in [Providers -> Records]
  BY <1>1, FreshType DEF Counted
<1> QED BY <1>3, <1>4

LEMMA SameRecords ==
  ASSUME Counted, UNCHANGED <<model, provider>>
  PROVE  /\ model' \in [Models -> Records] /\ provider' \in [Providers -> Records]
         /\ \A m \in Models : Forgiven(m) => AnsweredBy(m)
<1>1. \A r \in Records : r.strikes \in Nat
  BY RouterAssumption DEF Records
<1> QED BY <1>1, RouterAssumption DEF Counted, Forgiven

LEMMA StepForgives ==
  ASSUME IInv, Counted, [Next]_vars
  PROVE  Counted' /\ \A m \in Models : Forgiven(m) => AnsweredBy(m)
<1>0. Shape'
  BY NextIInv DEF IInv
<1>1. \A r \in Records : r.strikes \in Nat
  BY RouterAssumption DEF Records
<1>2. CASE Tick
  <2>1. /\ model' = [m \in Models |-> Ticked(model[m])]
        /\ provider' = [p \in Providers |-> Ticked(provider[p])]
    BY <1>2 DEF Tick
  <2>2. /\ \A m \in Models : Ticked(model[m]) \in Records
                             /\ Ticked(model[m]).strikes = model[m].strikes
        /\ \A p \in Providers : Ticked(provider[p]) \in Records
                                /\ Ticked(provider[p]).strikes = provider[p].strikes
    BY TickedSame DEF Counted
  <2> QED BY <1>0, <1>1, <2>1, <2>2, RouterAssumption DEF Counted, Forgiven
<1>3. CASE \E t \in Callers : Answers(t)
  BY <1>0, <1>3, AnswerForgives DEF Counted
<1>4. CASE \E t \in Callers : \/ RateLimited(t) \/ OutOfCredit(t) \/ TransportFails(t)
                               \/ Explains(t)
  BY <1>0, <1>1, <1>4, ReportsForgiveNothing, RouterAssumption DEF Counted, Forgiven
<1>5. CASE UNCHANGED <<model, provider>>
  BY <1>0, <1>5, SameRecords DEF Counted
<1>6. \/ Tick \/ (\E t \in Callers : Answers(t))
      \/ (\E t \in Callers : \/ RateLimited(t) \/ OutOfCredit(t) \/ TransportFails(t)
                              \/ Explains(t))
      \/ UNCHANGED <<model, provider>>
  BY DEF Next, vars, health, Reload, Begin, BeginWalk, Routes, Fetch, Ask, PassEnds, Plan,
         Walk, Ends, Refused, Withdrawn, Reports
<1> QED BY <1>2, <1>3, <1>4, <1>5, <1>6

\* Strikes are forgotten only when the vendor answers a call (note_success),
\* in every interleaving of reports, ticks and reloads: a window that runs
\* out is a probe, and the next failure doubles it.
THEOREM OnlyAnswersForgive == Spec => OnlyAnAnswerForgives
<1>1. Init => Counted
  BY FreshType, InitIInv DEF Init, Counted, IInv
<1>2. IInv /\ Counted /\ [Next]_vars => Counted'
  BY StepForgives
<1>3. IInv /\ Counted /\ [Next]_vars =>
        [\A m \in Models :
           \/ model'[m].strikes < model[m].strikes
           \/ provider'[ProviderOf[m]].strikes < provider[ProviderOf[m]].strikes
           => \E c \in Callers : /\ caller[c].at = "calling" /\ caller'[c].at = "idle"
                                 /\ ProviderOf[caller[c].picked] = ProviderOf[m]]_vars
  BY StepForgives DEF Forgiven, AnsweredBy
<1> QED BY InitIInv, NextIInv, <1>1, <1>2, <1>3, PTL DEF Spec, OnlyAnAnswerForgives

-----------------------------------------------------------------------------
(***************************************************************************)
(* What is remembered of the temperatures models refuse.                   *)
(***************************************************************************)
Refusers == {m \in CalledModels : \E t \in Tenths : Refuses(m, t)}
Sent == Tenths \cup {Nothing}
CallPlaces == {"idle", "load", "keep", "apply", "send", "note", "open", "write", "replace",
           "raise", "unwind"}
Failures == [status : Nat, temperature : BOOLEAN, deprecated : BOOLEAN, bare : BOOLEAN]
CalledOrNone == CalledModels \cup {"none"}
FilesOrNone == Files \cup {0}
Tries == 0..Attempts
CallRecords ==
  [at : CallPlaces, model : CalledOrNone, want : Tenths, sends : Sent, attempt : Tries,
   late : BOOLEAN, error : Failures, read : SUBSET Refusers, fd : FilesOrNone]
Contents == [state : {"empty", "whole", "torn"}, models : SUBSET Refusers]

\* The types: what a process takes for refusing, and what a file says so,
\* refuses.
HeatTypes ==
  /\ home \in [CallThreads -> Processes] /\ loaded \subseteq Processes /\ gone \subseteq CalledModels
  /\ refusing \in [Processes -> SUBSET Refusers] /\ retired \in [Processes -> SUBSET CalledModels]
  /\ noted \in [Processes -> SUBSET CalledModels] /\ raced \subseteq Processes
  /\ crowded \in BOOLEAN
  /\ store \in FilesOrNone /\ tmp \in FilesOrNone /\ (store # 0 => store # tmp)
  /\ content \in [Files -> Contents] /\ call \in [CallThreads -> CallRecords]

\* What a process knows.
Knows(p) ==
  /\ p \notin loaded => noted[p] = {} /\ refusing[p] = {}
  /\ p \notin raced => noted[p] \subseteq refusing[p]
  /\ retired[p] \subseteq gone

\* A call r of the process p: what it waits for, and why.
Lateness(r, p) ==
  r.late => /\ r.at \in {"load", "keep", "apply"} => r.model \in noted[p]
            /\ r.at = "send" /\ p \notin raced => r.sends = Nothing
Noting(r, p) ==
  /\ r.at \in {"note", "open", "write", "replace"} =>
       r.model \in Refusers /\ LooksLikeRejection(r.error)
  /\ r.at \in {"open", "write", "replace"} /\ p \notin raced => r.model \in refusing[p]
Raising(r) ==
  r.at = "raise" => IF LooksLikeRejection(r.error) THEN r.attempt = Attempts
                    ELSE LooksRetired(r.error) => r.model \in gone
Loading(r, p) ==
  /\ r.at # "idle" => r.model \in CalledModels
  /\ r.at \notin {"idle", "load", "keep"} => p \in loaded
InOrder(r, p) == Lateness(r, p) /\ Noting(r, p) /\ Raising(r) /\ Loading(r, p)

\* One save at a time: its text is in the one .tmp, whole or not begun.
Alone ==
  /\ \A c, d \in Saving : c = d
  /\ \A c \in CallThreads :
       /\ At(c, "write") => call[c].fd = tmp /\ tmp # 0 /\ content[tmp].state = "empty"
       /\ At(c, "replace") => tmp # 0 /\ content[tmp].state = "whole"
  /\ store # 0 => content[store].state = "whole"

Heats ==
  /\ HeatTypes
  /\ \A p \in Processes : Knows(p)
  /\ \A c \in CallThreads : InOrder(call[c], Of(c))
  /\ ~crowded => Alone

-----------------------------------------------------------------------------
(* The records *)

LEMMA MovesOn ==
  ASSUME NEW r \in CallRecords, NEW a \in CallPlaces
  PROVE  LET n == [r EXCEPT !.at = a]
         IN n \in CallRecords /\ n.at = a /\ n.model = r.model /\ n.error = r.error /\ n.sends = r.sends
            /\ n.attempt = r.attempt /\ n.late = r.late /\ n.fd = r.fd /\ n.read = r.read
BY DEF CallRecords

ReadBy(n, r, a, models) == n = [r EXCEPT !.at = a, !.read = models]
LEMMA Reads ==
  ASSUME NEW r \in CallRecords, NEW a \in CallPlaces, NEW models \in SUBSET Refusers,
         NEW n, ReadBy(n, r, a, models)
  PROVE  n \in CallRecords /\ n.at = a /\ n.model = r.model /\ n.sends = r.sends
            /\ n.late = r.late /\ n.read = models
BY DEF CallRecords, ReadBy

OpenedBy(n, r, a, fd) == n = [r EXCEPT !.at = a, !.fd = fd]
LEMMA Opens ==
  ASSUME NEW r \in CallRecords, NEW a \in CallPlaces, NEW fd \in FilesOrNone,
         NEW n, OpenedBy(n, r, a, fd)
  PROVE  n \in CallRecords /\ n.at = a /\ n.model = r.model /\ n.sends = r.sends /\ n.error = r.error
            /\ n.late = r.late /\ n.fd = fd /\ n.attempt = r.attempt
BY DEF CallRecords, OpenedBy

LEMMA Applies ==
  ASSUME NEW r \in CallRecords, NEW t \in Sent
  PROVE  LET n == [r EXCEPT !.at = "send", !.attempt = 1, !.want = 0, !.sends = t]
         IN n \in CallRecords /\ n.at = "send" /\ n.model = r.model /\ n.sends = t /\ n.late = r.late
<1>1. 1 \in Tries /\ 0 \in Tenths /\ "send" \in CallPlaces BY TempAssumption DEF Tries, Tenths, CallPlaces
<1> QED BY <1>1 DEF CallRecords

LEMMA Repeats ==
  ASSUME NEW r \in CallRecords, NEW k \in Tries
  PROVE  LET n == [r EXCEPT !.attempt = k]
         IN n \in CallRecords /\ n.at = r.at /\ n.model = r.model /\ n.sends = r.sends
            /\ n.late = r.late
BY DEF CallRecords

FailedWith(n, r, e, a) == n = [r EXCEPT !.error = e, !.late = FALSE, !.at = a]
LEMMA FailsWith ==
  ASSUME NEW r \in CallRecords, NEW e \in Failures, NEW a \in CallPlaces, NEW n, FailedWith(n, r, e, a)
  PROVE  n \in CallRecords /\ n.at = a /\ n.model = r.model /\ n.error = e /\ ~n.late
         /\ n.attempt = r.attempt
BY DEF CallRecords, FailedWith

LEMMA Retries ==
  ASSUME NEW r \in CallRecords, NEW k \in Tries
  PROVE  LET n == [r EXCEPT !.at = "send", !.sends = Nothing, !.attempt = k, !.error = NoError,
                            !.fd = 0]
         IN n \in CallRecords /\ n.at = "send" /\ n.model = r.model /\ n.sends = Nothing
<1>1. Nothing \in Sent /\ NoError \in Failures /\ 0 \in FilesOrNone /\ "send" \in CallPlaces
  BY DEF Sent, NoError, Error, Failures, FilesOrNone, CallPlaces
<1> HIDE DEF Nothing, NoError
<1> QED BY <1>1 DEF CallRecords

LEMMA RestingIsTyped ==
  Resting \in CallRecords /\ Resting.at = "idle" /\ ~Resting.late /\ Resting.model = "none"
<1>1. /\ Nothing \in Sent /\ NoError \in Failures /\ 0 \in FilesOrNone /\ "idle" \in CallPlaces
      /\ 0 \in Tries /\ 0 \in Tenths /\ "none" \in CalledOrNone /\ {} \in SUBSET Refusers
  BY TempAssumption
  DEF Sent, NoError, Error, Failures, FilesOrNone, CallPlaces, Tries, Tenths, CalledOrNone
<1> HIDE DEF Nothing, NoError
<1> QED BY <1>1 DEF CallRecords, Resting

Begun(n, a, m, t, l) == n = [Resting EXCEPT !.at = a, !.model = m, !.want = t, !.late = l]
LEMMA Begins ==
  ASSUME NEW a \in CallPlaces, NEW m \in CalledModels, NEW t \in Tenths, NEW l \in BOOLEAN,
         NEW n, Begun(n, a, m, t, l)
  PROVE  n \in CallRecords /\ n.at = a /\ n.model = m /\ n.late = l
<1>1. /\ Nothing \in Sent /\ NoError \in Failures /\ 0 \in FilesOrNone
      /\ 0 \in Tries /\ m \in CalledOrNone /\ {} \in SUBSET Refusers
  BY TempAssumption DEF Sent, NoError, Error, Failures, FilesOrNone, Tries, CalledOrNone
<1> HIDE DEF Nothing, NoError
<1> QED BY <1>1 DEF CallRecords, Resting, Begun

-----------------------------------------------------------------------------
(* What is sent, and what comes back *)

LEMMA SendsIsTyped ==
  ASSUME NEW m \in CalledModels, NEW known, NEW t \in Tenths
  PROVE  Sends(m, known, t) \in Sent /\ (m \in known => Sends(m, known, t) = Nothing)
<1> DEFINE p == PolicyFor(m, known)
<1>1. Facts[m].low \in Tenths /\ Facts[m].high \in Tenths /\ Ceiling(m) \in Tenths /\ 0 \in Tenths
  BY TempAssumption DEF Ceiling, Tenths
<1>2. p.low \in Tenths /\ p.high \in Tenths
  BY <1>1 DEF PolicyFor, Policy, Fixed, Unmeasured, Default
<1>3. m \in known => p.known /\ p.fixed BY DEF PolicyFor, Fixed
<1>4. Clamped(p, t) \in Tenths BY <1>2 DEF Clamped
<1> HIDE DEF p
<1> QED BY <1>3, <1>4 DEF Sends, Sent, p

LEMMA ErrorsAreTyped ==
  ASSUME NEW m, NEW t, NEW e \in Errors(m, t)
  PROVE  /\ e \in Failures
         /\ LooksLikeRejection(e) => Refuses(m, t)
         /\ LooksRetired(e) => LooksLikeRejection(e) \/ m \in gone
<1>1. CASE Refuses(m, t)
  <2>1. e = BareError \/ e = Error(400, TRUE, TRUE) BY <1>1 DEF Errors
  <2>2. BareError \in Failures /\ ~BareError.deprecated BY DEF BareError, NoError, Error, Failures
  <2>3. /\ Error(400, TRUE, TRUE) \in Failures /\ LooksLikeRejection(Error(400, TRUE, TRUE))
    BY DEF Error, Failures, LooksLikeRejection
  <2> QED BY <1>1, <2>1, <2>2, <2>3 DEF LooksRetired
<1>2. CASE ~Refuses(m, t)
  <2>1. e = Error(429, TRUE, FALSE) \/ (m \in gone /\ e = Error(404, FALSE, TRUE))
    BY <1>2 DEF Errors
  <2>2. /\ Error(429, TRUE, FALSE) \in Failures /\ ~LooksLikeRejection(Error(429, TRUE, FALSE))
        /\ ~LooksRetired(Error(429, TRUE, FALSE))
    BY DEF Error, Failures, LooksLikeRejection, LooksRetired
  <2>3. Error(404, FALSE, TRUE) \in Failures /\ ~LooksLikeRejection(Error(404, FALSE, TRUE))
    BY DEF Error, Failures, LooksLikeRejection
  <2> QED BY <2>1, <2>2, <2>3
<1> QED BY <1>1, <1>2

-----------------------------------------------------------------------------
(* A step of one thread *)

Moves(c, n) == call' = [call EXCEPT ![c] = n]
Savers == {"write", "replace"}

LEMMA CallMoves ==
  ASSUME HeatTypes, NEW c \in CallThreads, NEW n \in CallRecords, Moves(c, n)
  PROVE  /\ call' \in [CallThreads -> CallRecords] /\ call'[c] = n
         /\ \A d \in CallThreads \ {c} : call'[d] = call[d]
BY DEF HeatTypes, Moves

\* What a process knows only grows, but for its table in a race.
Grows(p) ==
  /\ noted[p] \subseteq noted'[p] /\ (p \in loaded => p \in loaded')
  /\ p \notin raced' => p \notin raced /\ refusing[p] \subseteq refusing'[p]
GrowsOn == (\A p \in Processes : Grows(p)) /\ gone \subseteq gone' /\ UNCHANGED home

LEMMA StaysInOrder ==
  ASSUME HeatTypes, NEW d \in CallThreads, Grows(Of(d)), gone \subseteq gone', UNCHANGED home,
         call'[d] = call[d], InOrder(call[d], Of(d))
  PROVE  InOrder(call[d], Of(d))'
<1> DEFINE p == home[d]
           r == call[d]
<1>1. p \in Processes /\ home'[d] = p /\ call'[d] = r BY DEF HeatTypes
<1>2. /\ noted[p] \subseteq noted'[p] /\ (p \in loaded => p \in loaded') /\ gone \subseteq gone'
      /\ p \notin raced' => p \notin raced /\ refusing[p] \subseteq refusing'[p]
  BY <1>1 DEF Grows, Of
<1>3. InOrder(r, p) BY DEF Of
<1> HIDE DEF p, r
<1>4. Lateness(call[d], Of(d))' BY <1>1, <1>2, <1>3 DEF InOrder, Lateness, Of
<1>5. Noting(call[d], Of(d))' BY <1>1, <1>2, <1>3 DEF InOrder, Noting, Of
<1>6. Raising(call[d])' BY <1>1, <1>2, <1>3 DEF InOrder, Raising
<1>7. Loading(call[d], Of(d))' BY <1>1, <1>2, <1>3 DEF InOrder, Loading, Of
<1> QED BY <1>4, <1>5, <1>6, <1>7 DEF InOrder

LEMMA OthersInOrder ==
  ASSUME HeatTypes, GrowsOn, NEW d \in CallThreads, call'[d] = call[d], InOrder(call[d], Of(d))
  PROVE  InOrder(call[d], Of(d))'
<1>1. Grows(Of(d)) BY DEF HeatTypes, GrowsOn, Of
<1> QED BY <1>1, StaysInOrder DEF GrowsOn

\* Where nobody begins a save, and who saves goes on.
LEMMA AloneStays ==
  ASSUME Alone, UNCHANGED disk,
         \A d \in CallThreads : call'[d].at \in Savers => call'[d] = call[d]
  PROVE  Alone'
<1>1. Saving' \subseteq Saving BY DEF Saving, Savers
<1>2. \A d \in CallThreads : call'[d].at \in Savers => call'[d] = call[d] OBVIOUS
<1> QED BY <1>1, <1>2 DEF Alone, At, Savers, disk

\* A step that only moves a call.
CallOnly(c, n) ==
  /\ Moves(c, n) /\ n.at \notin Savers
  /\ UNCHANGED <<home, loaded, refusing, retired, gone, disk, history>>

LEMMA CallOnlyHolds ==
  ASSUME Heats, NEW c \in CallThreads, NEW n \in CallRecords, CallOnly(c, n), InOrder(n, Of(c))
  PROVE  Heats'
<1>0. HeatTypes /\ Moves(c, n) /\ UNCHANGED <<home, loaded, refusing, retired, gone, disk, history>>
  BY DEF CallOnly, Heats
<1>1. /\ call' \in [CallThreads -> CallRecords] /\ call'[c] = n
      /\ \A d \in CallThreads \ {c} : call'[d] = call[d]
  BY <1>0, CallMoves
<1>2. HeatTypes' BY <1>0, <1>1 DEF HeatTypes, disk, history
<1>3. \A p \in Processes : Knows(p)' BY <1>0 DEF Heats, Knows, history
<1>4. GrowsOn BY <1>0 DEF GrowsOn, Grows, history
<1>5. ASSUME NEW d \in CallThreads PROVE InOrder(call[d], Of(d))'
  <2>1. CASE d # c BY <1>0, <1>1, <1>4, <2>1, OthersInOrder DEF Heats
  <2>2. CASE d = c
    <3>1. Of(c)' = Of(c) BY <1>0 DEF Of
    <3>2. InOrder(n, Of(c)) OBVIOUS
    <3> QED BY <1>0, <1>1, <2>2, <3>1, <3>2
            DEF InOrder, Lateness, Noting, Raising, Loading, history
  <2> QED BY <2>1, <2>2
<1>6. ~crowded' => Alone'
  <2> SUFFICES ASSUME ~crowded' PROVE Alone' OBVIOUS
  <2>1. Alone BY <1>0 DEF Heats, history
  <2>2. \A d \in CallThreads : call'[d].at \in Savers => call'[d] = call[d] BY <1>1 DEF CallOnly
  <2> QED BY <1>0, <2>1, <2>2, AloneStays
<1> QED BY <1>2, <1>3, <1>5, <1>6 DEF Heats

\* What is known of a call of c.
LEMMA CallIsTyped ==
  ASSUME Heats, NEW c \in CallThreads
  PROVE  /\ call[c] \in CallRecords /\ Of(c) \in Processes /\ InOrder(call[c], Of(c)) /\ Knows(Of(c))
         /\ refusing[Of(c)] \subseteq Refusers /\ noted[Of(c)] \subseteq CalledModels
BY DEF Heats, HeatTypes, Of

LEMMA BuildHolds == ASSUME Heats, NEW c \in CallThreads, Build(c) PROVE Heats'
<1>1. PICK m \in Catalogue[Of(c)] \ retired[Of(c)], t \in Wanted :
        call' = [call EXCEPT ![c] = [Resting EXCEPT
          !.at = IF Of(c) \in loaded THEN "apply" ELSE "load", !.model = m, !.want = t,
          !.late = m \in noted[Of(c)]]]
  BY DEF Build
<1> DEFINE a == IF Of(c) \in loaded THEN "apply" ELSE "load"
           l == m \in noted[Of(c)]
           n == [Resting EXCEPT !.at = a, !.model = m, !.want = t, !.late = l]
<1>2. m \in CalledModels /\ t \in Tenths BY TempAssumption, CallIsTyped
<1>3. a \in CallPlaces /\ a \in {"apply", "load"} /\ (a = "apply" => Of(c) \in loaded) /\ l \in BOOLEAN
  BY DEF CallPlaces
<1>4. Moves(c, n) BY <1>1 DEF Moves
<1> HIDE DEF a
<1> HIDE DEF l
<1>b. Begun(n, a, m, t, l) BY DEF Begun
<1> HIDE DEF n
<1>5. n \in CallRecords /\ n.at = a /\ n.model = m /\ n.late = l BY <1>2, <1>3, <1>b, Begins
<1>6. InOrder(n, Of(c)) BY <1>2, <1>3, <1>5 DEF l, InOrder, Lateness, Noting, Raising, Loading
<1>7. CallOnly(c, n) BY <1>3, <1>4, <1>5 DEF CallOnly, Build, Savers
<1> QED BY <1>5, <1>6, <1>7, CallOnlyHolds

LEMMA LoadFileHolds == ASSUME Heats, NEW c \in CallThreads, LoadFile(c) PROVE Heats'
<1> DEFINE models == IF store = 0 \/ content[store].state # "whole" THEN {}
                     ELSE content[store].models
           n == [call[c] EXCEPT !.at = "keep", !.read = models]
<1>1. models \in SUBSET Refusers
  <2>1. store # 0 => content[store] \in Contents BY DEF Heats, HeatTypes, FilesOrNone
  <2> QED BY <2>1 DEF Contents
<1>2. Moves(c, n) BY DEF LoadFile, Moves
<1>3. call[c] \in CallRecords /\ InOrder(call[c], Of(c)) /\ call[c].at = "load" /\ "keep" \in CallPlaces
  BY CallIsTyped DEF LoadFile, At, CallPlaces
<1> HIDE DEF models
<1>b. ReadBy(n, call[c], "keep", models) BY DEF ReadBy
<1> HIDE DEF n
<1>4. n \in CallRecords /\ n.at = "keep" /\ n.model = call[c].model /\ n.late = call[c].late
  BY <1>1, <1>3, <1>b, Reads
<1>5. InOrder(n, Of(c)) BY <1>3, <1>4 DEF InOrder, Lateness, Noting, Raising, Loading
<1>6. CallOnly(c, n) BY <1>2, <1>4 DEF CallOnly, LoadFile, Savers
<1> QED BY <1>4, <1>5, <1>6, CallOnlyHolds

LEMMA ApplyHolds == ASSUME Heats, NEW c \in CallThreads, Apply(c) PROVE Heats'
<1> DEFINE t == Sends(call[c].model, refusing[Of(c)], call[c].want)
           n == [call[c] EXCEPT !.at = "send", !.attempt = 1, !.want = 0, !.sends = t]
<1>1. /\ call[c] \in CallRecords /\ InOrder(call[c], Of(c)) /\ call[c].at = "apply" /\ Knows(Of(c))
  BY CallIsTyped DEF Apply, At
<1>2. call[c].model \in CalledModels /\ call[c].want \in Tenths
  BY <1>1 DEF InOrder, Loading, CallRecords
<1>3. t \in Sent /\ (call[c].model \in refusing[Of(c)] => t = Nothing) BY <1>2, SendsIsTyped
<1>4. Moves(c, n) BY DEF Apply, Moves
<1> HIDE DEF t
<1>5. n \in CallRecords /\ n.at = "send" /\ n.model = call[c].model /\ n.sends = t /\ n.late = call[c].late
  BY <1>1, <1>3, Applies
<1> HIDE DEF n
<1>6. Lateness(n, Of(c)) BY <1>1, <1>3, <1>5 DEF InOrder, Lateness, Knows
<1>7. InOrder(n, Of(c)) BY <1>1, <1>2, <1>5, <1>6 DEF InOrder, Noting, Raising, Loading
<1>8. CallOnly(c, n) BY <1>4, <1>5 DEF CallOnly, Apply, Savers
<1> QED BY <1>5, <1>7, <1>8, CallOnlyHolds

\* A call that is over.
Rests(c) ==
  /\ call' = [call EXCEPT ![c] = Resting]
  /\ UNCHANGED <<home, loaded, refusing, retired, gone, disk, history>>
LEMMA RestsHolds == ASSUME Heats, NEW c \in CallThreads, Rests(c) PROVE Heats'
<1>1. InOrder(Resting, Of(c))
  BY RestingIsTyped DEF InOrder, Lateness, Noting, Raising, Loading
<1>2. CallOnly(c, Resting) BY RestingIsTyped DEF CallOnly, Rests, Moves, Savers
<1> QED BY <1>1, <1>2, RestingIsTyped, CallOnlyHolds

LEMMA AnsweredNothingHolds == ASSUME Heats, NEW c \in CallThreads, AnsweredNothing(c) PROVE Heats'
<1>1. CASE call[c].attempt < Attempts /\ call' = [call EXCEPT ![c].attempt = @ + 1]
  <2> DEFINE k == call[c].attempt + 1
             n == [call[c] EXCEPT !.attempt = k]
  <2>1. call[c] \in CallRecords /\ InOrder(call[c], Of(c)) /\ call[c].at = "send"
    BY CallIsTyped DEF AnsweredNothing, At
  <2>2. k \in Tries BY <1>1, <2>1, TempAssumption DEF Tries, CallRecords
  <2>3. Moves(c, n) BY <1>1 DEF Moves
  <2> HIDE DEF k
  <2>4. /\ n \in CallRecords /\ n.at = "send" /\ n.model = call[c].model /\ n.sends = call[c].sends
        /\ n.late = call[c].late
    BY <2>1, <2>2, Repeats
  <2> HIDE DEF n
  <2>5. InOrder(n, Of(c)) BY <2>1, <2>4 DEF InOrder, Lateness, Noting, Raising, Loading
  <2>6. CallOnly(c, n) BY <2>3, <2>4 DEF CallOnly, AnsweredNothing, Savers
  <2> QED BY <2>4, <2>5, <2>6, CallOnlyHolds
<1>2. CASE call' = [call EXCEPT ![c] = Resting]
  BY <1>2, RestsHolds DEF AnsweredNothing, Rests
<1> QED BY <1>1, <1>2 DEF AnsweredNothing

LEMMA RequestFailsHolds == ASSUME Heats, NEW c \in CallThreads, RequestFails(c) PROVE Heats'
<1>1. PICK e \in Errors(call[c].model, call[c].sends) :
       call' = [call EXCEPT ![c] = [@ EXCEPT !.error = e, !.late = FALSE,
         !.at = IF e.bare THEN "unwind"
                ELSE IF call[c].sends # Nothing /\ LooksLikeRejection(e) THEN "note"
                ELSE "raise"]]
  BY DEF RequestFails
<1> DEFINE a == IF e.bare THEN "unwind"
                ELSE IF call[c].sends # Nothing /\ LooksLikeRejection(e) THEN "note"
                ELSE "raise"
           n == [call[c] EXCEPT !.error = e, !.late = FALSE, !.at = a]
           m == call[c].model
           t == call[c].sends
<1>2. call[c] \in CallRecords /\ InOrder(call[c], Of(c)) /\ call[c].at = "send"
  BY CallIsTyped DEF RequestFails, At
<1>3. /\ e \in Failures /\ (LooksLikeRejection(e) => Refuses(m, t))
      /\ (LooksRetired(e) => LooksLikeRejection(e) \/ m \in gone)
  BY ErrorsAreTyped
<1>4. m \in CalledModels /\ t \in Sent /\ Of(c) \in loaded BY <1>2 DEF InOrder, Loading, CallRecords
<1>5. Refuses(m, t) => t # Nothing BY DEF Refuses
<1>6. LooksLikeRejection(e) => m \in Refusers BY <1>3, <1>4, <1>5 DEF Refusers, Sent
<1>7. /\ a \in {"unwind", "note", "raise"} /\ (a = "note" => LooksLikeRejection(e))
      /\ (a = "raise" => ~LooksLikeRejection(e))
  BY <1>3, <1>5
<1>8. Moves(c, n) BY <1>1 DEF Moves
<1> HIDE DEF a
<1>b. FailedWith(n, call[c], e, a) BY DEF FailedWith
<1> HIDE DEF n
<1>9. n \in CallRecords /\ n.at = a /\ n.model = m /\ n.error = e /\ ~n.late
  BY <1>2, <1>3, <1>7, <1>b, FailsWith DEF CallPlaces
<1> HIDE DEF m, t
<1>10. InOrder(n, Of(c))
  BY <1>3, <1>4, <1>6, <1>7, <1>9 DEF InOrder, Lateness, Noting, Raising, Loading
<1>11. CallOnly(c, n) BY <1>7, <1>8, <1>9 DEF CallOnly, RequestFails, Savers
<1> QED BY <1>9, <1>10, <1>11, CallOnlyHolds

-----------------------------------------------------------------------------
(* A step that learns or writes *)

\* What a step of c that moves its call to n leaves to show.
LEMMA StepHolds ==
  ASSUME Heats, NEW c \in CallThreads, NEW n \in CallRecords, Moves(c, n), GrowsOn,
         HeatTypes', \A p \in Processes : Knows(p)', InOrder(call[c], Of(c))', ~crowded' => Alone'
  PROVE  Heats'
<1>1. \A d \in CallThreads \ {c} : call'[d] = call[d] BY CallMoves DEF Heats
<1>2. ASSUME NEW d \in CallThreads, d # c PROVE InOrder(call[d], Of(d))'
  BY <1>1, <1>2, OthersInOrder DEF Heats
<1> QED BY <1>2 DEF Heats

\* The disk is as it was and c does not save.
LEMMA StillAlone ==
  ASSUME Heats, NEW c \in CallThreads, NEW n \in CallRecords, Moves(c, n), n.at \notin Savers,
         UNCHANGED <<disk, crowded>>
  PROVE  ~crowded' => Alone'
<1> SUFFICES ASSUME ~crowded' PROVE Alone' OBVIOUS
<1>1. Alone BY DEF Heats
<1>2. \A d \in CallThreads : call'[d].at \in Savers => call'[d] = call[d] BY CallMoves DEF Heats
<1> QED BY <1>1, <1>2, AloneStays

LEMMA KeepTableHolds == ASSUME Heats, NEW c \in CallThreads, KeepTable(c) PROVE Heats'
<1> DEFINE n == [call[c] EXCEPT !.at = "apply", !.read = {}]
           p == Of(c)
           read == call[c].read
<1>1. call[c] \in CallRecords /\ InOrder(call[c], p) /\ p \in Processes /\ Knows(p)
  BY CallIsTyped
<1>2. /\ call[c].at = "keep" /\ refusing' = [refusing EXCEPT ![p] = read]
      /\ loaded' = loaded \cup {p} /\ raced' = IF p \in loaded THEN raced \cup {p} ELSE raced
      /\ UNCHANGED <<home, retired, gone, disk, noted, crowded>> /\ Of(c)' = p
  BY DEF KeepTable, At, Of
<1>3. Moves(c, n) BY DEF KeepTable, Moves
<1>b. ReadBy(n, call[c], "apply", {}) BY DEF ReadBy
<1> HIDE DEF n
<1>4. n \in CallRecords /\ n.at = "apply" /\ n.model = call[c].model /\ n.late = call[c].late
  BY <1>1, <1>b, Reads DEF CallPlaces
<1>5. call' \in [CallThreads -> CallRecords] /\ call'[c] = n BY <1>3, <1>4, CallMoves DEF Heats
<1>6. read \in SUBSET Refusers BY <1>1 DEF CallRecords
<1> HIDE DEF p, read
<1>7. /\ refusing' \in [Processes -> SUBSET Refusers] /\ refusing'[p] = read
      /\ \A q \in Processes \ {p} : refusing'[q] = refusing[q]
  BY <1>1, <1>2, <1>6 DEF Heats, HeatTypes
<1>8. HeatTypes' BY <1>1, <1>2, <1>5, <1>7 DEF Heats, HeatTypes, disk
<1>9. ASSUME NEW q \in Processes PROVE Knows(q)'
  <2>1. CASE q # p BY <1>2, <1>7, <2>1 DEF Heats, Knows
  <2>2. CASE q = p BY <1>1, <1>2, <1>7, <2>2 DEF Heats, Knows
  <2> QED BY <2>1, <2>2
<1>10. GrowsOn
  <2>1. p \notin raced' => p \notin raced /\ refusing[p] = {} BY <1>1, <1>2 DEF Knows
  <2>2. ASSUME NEW q \in Processes, q # p
        PROVE /\ q \in loaded => q \in loaded'
              /\ q \notin raced' => q \notin raced /\ refusing[q] \subseteq refusing'[q]
    BY <1>2, <1>7, <2>2
  <2> QED BY <1>1, <1>2, <2>1, <2>2 DEF GrowsOn, Grows
<1>11. InOrder(call[c], Of(c))'
  BY <1>1, <1>2, <1>4, <1>5 DEF InOrder, Lateness, Noting, Raising, Loading
<1>12. ~crowded' => Alone' BY <1>2, <1>3, <1>4, StillAlone DEF Savers
<1> QED BY <1>3, <1>4, <1>8, <1>9, <1>10, <1>11, <1>12, StepHolds

\* What is noted, with the next request or the error.
LEMMA NotedMoves ==
  ASSUME Heats, NEW c \in CallThreads, Moves(c, Noted(call[c]))
  PROVE  /\ Noted(call[c]) \in CallRecords /\ Noted(call[c]).at \in {"send", "raise"}
         /\ Noted(call[c]).model = call[c].model
         /\ Noted(call[c]).at = "send" => Noted(call[c]).sends = Nothing
         /\ Noted(call[c]).at = "raise" =>
              Noted(call[c]).attempt = Attempts /\ Noted(call[c]).error = call[c].error
<1> DEFINE r == call[c]
           k == r.attempt + 1
           s == [r EXCEPT !.at = "send", !.sends = Nothing, !.attempt = k, !.error = NoError, !.fd = 0]
           t == [r EXCEPT !.at = "raise", !.fd = 0]
<1>1. r \in CallRecords BY CallIsTyped
<1>2. r.attempt \in 0..Attempts /\ Attempts \in Nat BY <1>1, TempAssumption DEF CallRecords, Tries
<1>3. "raise" \in CallPlaces /\ 0 \in FilesOrNone BY DEF CallPlaces, FilesOrNone
<1>4. CASE r.attempt < Attempts
  <2>1. Noted(r) = s BY <1>4 DEF Noted
  <2>2. k \in Tries BY <1>2, <1>4 DEF Tries
  <2> HIDE DEF r, k
  <2>3. s \in CallRecords /\ s.at = "send" /\ s.model = r.model /\ s.sends = Nothing
    BY <1>1, <2>2, Retries
  <2> HIDE DEF s
  <2> QED BY <2>1, <2>3 DEF r
<1>5. CASE ~(r.attempt < Attempts)
  <2>1. Noted(r) = t /\ r.attempt = Attempts BY <1>2, <1>5 DEF Noted
  <2>b. OpenedBy(t, r, "raise", 0) BY DEF OpenedBy
  <2> HIDE DEF r, t
  <2>2. t \in CallRecords /\ t.at = "raise" /\ t.model = r.model /\ t.error = r.error
        /\ t.attempt = r.attempt
    BY <1>1, <1>3, <2>b, Opens
  <2> QED BY <2>1, <2>2 DEF r
<1> QED BY <1>4, <1>5

\* The end of a note: Replace, SaveFails, or Note of what was known.
Notes(c) ==
  /\ Moves(c, Noted(call[c])) /\ noted' = [noted EXCEPT ![Of(c)] = @ \cup {call[c].model}]
  /\ UNCHANGED <<home, loaded, retired, gone, raced, crowded>>
  /\ refusing' = refusing /\ (Of(c) \notin raced => call[c].model \in refusing[Of(c)])
  /\ LooksLikeRejection(call[c].error) /\ Of(c) \in loaded /\ call[c].model \in CalledModels

LEMMA NotesHold ==
  ASSUME Heats, NEW c \in CallThreads, Notes(c),
         store' \in FilesOrNone, tmp' \in FilesOrNone, store' # 0 => store' # tmp',
         content' \in [Files -> Contents], ~crowded' => Alone'
  PROVE  Heats'
<1> DEFINE n == Noted(call[c])
           p == Of(c)
           m == call[c].model
<1>1. /\ n \in CallRecords /\ n.at \in {"send", "raise"} /\ n.model = m
      /\ (n.at = "send" => n.sends = Nothing)
      /\ (n.at = "raise" => n.attempt = Attempts /\ n.error = call[c].error)
      /\ Moves(c, n)
  BY NotedMoves DEF Notes
<1>2. /\ noted' = [noted EXCEPT ![p] = @ \cup {m}] /\ p \in Processes /\ m \in CalledModels
      /\ UNCHANGED <<home, loaded, refusing, retired, gone, raced, crowded>> /\ p \in loaded
      /\ (p \notin raced => m \in refusing[p]) /\ Of(c)' = p /\ LooksLikeRejection(call[c].error)
  BY CallIsTyped DEF Notes, Of
<1> HIDE DEF n, p, m
<1>3. call' \in [CallThreads -> CallRecords] /\ call'[c] = n BY <1>1, CallMoves DEF Heats
<1>4. /\ noted' \in [Processes -> SUBSET CalledModels] /\ noted'[p] = noted[p] \cup {m}
      /\ \A q \in Processes \ {p} : noted'[q] = noted[q]
  BY <1>2 DEF Heats, HeatTypes
<1>5. HeatTypes' BY <1>2, <1>3, <1>4 DEF Heats, HeatTypes
<1>6. \A q \in Processes : Knows(q)' BY <1>2, <1>4 DEF Heats, Knows
<1>7. GrowsOn BY <1>2, <1>4 DEF GrowsOn, Grows
<1>8. InOrder(call[c], Of(c))'
  <2>1. (call'[c].at = "send" => call'[c].sends = Nothing) /\ call'[c].at \in {"send", "raise"}
    BY <1>1, <1>3
  <2>2. Lateness(call[c], Of(c))' BY <2>1 DEF Lateness
  <2>3. Raising(call[c])' BY <1>1, <1>2, <1>3 DEF Raising
  <2>4. Noting(call[c], Of(c))' /\ Loading(call[c], Of(c))'
    BY <1>1, <1>2, <1>3, <2>1 DEF Noting, Loading
  <2> QED BY <2>2, <2>3, <2>4 DEF InOrder
<1> QED BY <1>1, <1>5, <1>6, <1>7, <1>8, StepHolds

LEMMA NoteHolds == ASSUME Heats, NEW c \in CallThreads, Note(c) PROVE Heats'
<1> DEFINE p == Of(c)
           m == call[c].model
<1>1. /\ call[c] \in CallRecords /\ InOrder(call[c], p) /\ p \in Processes /\ Knows(p)
      /\ call[c].at = "note"
  BY CallIsTyped DEF Note, At
<1>2. /\ m \in Refusers /\ m \in CalledModels /\ LooksLikeRejection(call[c].error) /\ p \in loaded
  BY <1>1 DEF InOrder, Noting, Loading
<1>3. CASE m \in refusing[p]
  <2>1. refusing' = refusing
    <3>1. refusing' = [refusing EXCEPT ![p] = @ \cup {m}] BY DEF Note
    <3>2. refusing[p] \cup {m} = refusing[p] BY <1>3
    <3> HIDE DEF p, m
    <3> QED BY <1>1, <3>1, <3>2 DEF Heats, HeatTypes
  <2>2. Notes(c) BY <1>2, <1>3, <2>1 DEF Note, Notes, Moves
  <2>3. Noted(call[c]) \in CallRecords /\ Noted(call[c]).at \notin Savers /\ Moves(c, Noted(call[c]))
    BY <2>2, NotedMoves DEF Notes, Savers
  <2>4. ~crowded' => Alone' BY <2>3, StillAlone DEF Note
  <2>5. UNCHANGED disk BY DEF Note
  <2> QED BY <2>2, <2>4, <2>5, NotesHold DEF Heats, HeatTypes, disk
<1>4. CASE m \notin refusing[p]
  <2> DEFINE n == [call[c] EXCEPT !.at = "open"]
  <2>1. /\ refusing' = [refusing EXCEPT ![p] = @ \cup {m}] /\ Of(c)' = p
        /\ UNCHANGED <<home, loaded, retired, gone, disk, noted, raced, crowded>> /\ Moves(c, n)
    BY <1>4 DEF Note, Moves, Of
  <2>2. n \in CallRecords /\ n.at = "open" /\ n.model = m /\ n.error = call[c].error /\ n.late = call[c].late
    BY <1>1, MovesOn DEF CallPlaces
  <2> HIDE DEF n, p, m
  <2>3. call' \in [CallThreads -> CallRecords] /\ call'[c] = n BY <2>1, <2>2, CallMoves DEF Heats
  <2>4. /\ refusing' \in [Processes -> SUBSET Refusers] /\ refusing'[p] = refusing[p] \cup {m}
        /\ \A q \in Processes \ {p} : refusing'[q] = refusing[q]
    BY <1>1, <1>2, <2>1 DEF Heats, HeatTypes
  <2>5. HeatTypes' BY <2>1, <2>3, <2>4 DEF Heats, HeatTypes, disk
  <2>6. \A q \in Processes : Knows(q)' BY <1>2, <2>1, <2>4 DEF Heats, Knows
  <2>7. GrowsOn BY <2>1, <2>4 DEF GrowsOn, Grows
  <2>8. InOrder(call[c], Of(c))'
    BY <1>1, <1>2, <2>1, <2>2, <2>3, <2>4 DEF InOrder, Lateness, Noting, Raising, Loading
  <2>9. ~crowded' => Alone' BY <2>1, <2>2, StillAlone DEF Savers
  <2> QED BY <2>1, <2>2, <2>5, <2>6, <2>7, <2>8, <2>9, StepHolds
<1> QED BY <1>3, <1>4

LEMMA SaveFailsHolds == ASSUME Heats, NEW c \in CallThreads, SaveFails(c) PROVE Heats'
<1>1. /\ call[c] \in CallRecords /\ InOrder(call[c], Of(c)) /\ call[c].at = "open"
  BY CallIsTyped DEF SaveFails, At
<1>2. call' = [call EXCEPT ![c] = Noted(call[c])] BY DEF SaveFails
<1>3. Notes(c) BY <1>1, <1>2 DEF SaveFails, Notes, Moves, InOrder, Noting, Loading
<1>4. Noted(call[c]) \in CallRecords /\ Noted(call[c]).at \notin Savers /\ Moves(c, Noted(call[c]))
  BY <1>3, NotedMoves DEF Notes, Savers
<1>5. ~crowded' => Alone' BY <1>4, StillAlone DEF SaveFails
<1>6. UNCHANGED disk BY DEF SaveFails
<1> QED BY <1>3, <1>5, <1>6, NotesHold DEF Heats, HeatTypes, disk

LEMMA RaiseHolds == ASSUME Heats, NEW c \in CallThreads, Raise(c) PROVE Heats'
<1> DEFINE p == Of(c)
           r == call[c]
           new == IF ~LooksLikeRejection(r.error) /\ LooksRetired(r.error)
                  THEN retired[p] \cup {r.model} ELSE retired[p]
<1>1. /\ r \in CallRecords /\ InOrder(r, p) /\ p \in Processes /\ Knows(p) /\ r.at = "raise"
  BY CallIsTyped DEF Raise, At
<1>2. /\ retired' = [retired EXCEPT ![p] = new] /\ Moves(c, Resting)
      /\ UNCHANGED <<home, loaded, refusing, gone, disk, noted, raced, crowded>>
  BY DEF Raise, Moves, history
<1>3. new \subseteq gone BY <1>1 DEF InOrder, Raising, Knows
<1> HIDE DEF p, r, new
<1>4. gone \subseteq CalledModels BY DEF Heats, HeatTypes
<1>5. retired' \in [Processes -> SUBSET CalledModels] /\ (\A q \in Processes : retired'[q] \subseteq gone)
  BY <1>1, <1>2, <1>3, <1>4 DEF Heats, HeatTypes, Knows
<1>6. call' \in [CallThreads -> CallRecords] /\ call'[c] = Resting
  BY <1>2, RestingIsTyped, CallMoves DEF Heats
<1>7. HeatTypes' BY <1>2, <1>5, <1>6 DEF Heats, HeatTypes, disk
<1>8. \A q \in Processes : Knows(q)' BY <1>2, <1>5 DEF Heats, Knows
<1>9. GrowsOn BY <1>2 DEF GrowsOn, Grows
<1>10. InOrder(call[c], Of(c))'
  BY <1>6, RestingIsTyped DEF InOrder, Lateness, Noting, Raising, Loading
<1>11. ~crowded' => Alone' BY <1>2, RestingIsTyped, StillAlone DEF Savers
<1> QED BY <1>2, <1>7, <1>8, <1>9, <1>10, <1>11, RestingIsTyped, StepHolds

-----------------------------------------------------------------------------
(* The file *)

\* There is an inode that nothing names and nobody has open.
LEMMA FileLeft ==
  ASSUME HeatTypes
  PROVE  \E f \in Files : f # store /\ \A d \in CallThreads : call[d].fd # f
<1> DEFINE opened == {call[d].fd : d \in CallThreads}
           names == opened \cup {store}
<1>1. IsFiniteSet(CallThreads) /\ IsFiniteSet(Files) /\ Cardinality(Files) >= Cardinality(CallThreads) + 2
  BY TempAssumption
<1>2. IsFiniteSet(opened) /\ Cardinality(opened) <= Cardinality(CallThreads)
  <2> DEFINE g == [d \in CallThreads |-> call[d].fd]
  <2>1. opened = {g[d] : d \in CallThreads} OBVIOUS
  <2>2. g \in Surjection(CallThreads, opened) BY DEF Surjection
  <2> HIDE DEF g, opened
  <2> QED BY <1>1, <2>2, FS_Surjection
<1>3. IsFiniteSet(names) /\ Cardinality(names) <= Cardinality(opened) + 1
  <2> HIDE DEF opened
  <2>1. /\ IsFiniteSet(names)
        /\ Cardinality(names) = IF store \in opened THEN Cardinality(opened) ELSE Cardinality(opened) + 1
    BY <1>2, FS_AddElement
  <2>2. Cardinality(opened) \in Nat BY <1>2, FS_CardinalityType
  <2> HIDE DEF names
  <2> QED BY <2>1, <2>2
<1>4. /\ Cardinality(names) \in Nat /\ Cardinality(Files) \in Nat /\ Cardinality(CallThreads) \in Nat
      /\ Cardinality(opened) \in Nat
  BY <1>1, <1>2, <1>3, FS_CardinalityType
<1>5. Cardinality(names) < Cardinality(Files)
  <2> HIDE DEF names, opened
  <2> QED BY <1>1, <1>2, <1>3, <1>4
<1>6. PICK f \in Files : f \notin names
  <2> HIDE DEF names
  <2>1. Files \subseteq names => Cardinality(Files) <= Cardinality(names) BY <1>3, FS_Subset
  <2> QED BY <1>4, <1>5, <2>1
<1> QED BY <1>6

LEMMA OpenTmpHolds == ASSUME Heats, NEW c \in CallThreads, OpenTmp(c) PROVE Heats'
<1> DEFINE i == IF tmp # 0 THEN tmp
                ELSE CHOOSE f \in Files : f # store /\ \A d \in CallThreads : call[d].fd # f
           n == [call[c] EXCEPT !.at = "write", !.fd = i]
<1>1. /\ call[c] \in CallRecords /\ InOrder(call[c], Of(c)) /\ call[c].at = "open"
  BY CallIsTyped DEF OpenTmp, At
<1>2. i \in Files /\ i # 0 /\ i # store
  <2>1. CASE tmp # 0 BY <2>1, TempAssumption DEF Heats, HeatTypes, FilesOrNone
  <2>2. CASE tmp = 0 BY <2>2, FileLeft, TempAssumption DEF Heats
  <2> QED BY <2>1, <2>2
<1>3. /\ tmp' = i /\ content' = [content EXCEPT ![i] = Blank] /\ Moves(c, n) /\ Of(c)' = Of(c)
      /\ crowded' = (crowded \/ Saving # {})
      /\ UNCHANGED <<home, loaded, refusing, retired, gone, store, noted, raced>>
  BY DEF OpenTmp, Moves, Of
<1> HIDE DEF i
<1>b. OpenedBy(n, call[c], "write", i) BY DEF OpenedBy
<1> HIDE DEF n
<1>4. /\ n \in CallRecords /\ n.at = "write" /\ n.model = call[c].model /\ n.error = call[c].error
      /\ n.late = call[c].late /\ n.fd = i
  BY <1>1, <1>2, <1>b, Opens DEF CallPlaces, FilesOrNone
<1>5. /\ call' \in [CallThreads -> CallRecords] /\ call'[c] = n
      /\ \A d \in CallThreads \ {c} : call'[d] = call[d]
  BY <1>3, <1>4, CallMoves DEF Heats
<1>6. Blank \in Contents /\ Blank.state = "empty" BY DEF Blank, Contents
<1>7. /\ content' \in [Files -> Contents] /\ content'[i] = Blank
      /\ \A f \in Files \ {i} : content'[f] = content[f]
  BY <1>2, <1>3, <1>6 DEF Heats, HeatTypes
<1>8. crowded' \in BOOLEAN BY <1>3
<1>9. HeatTypes' BY <1>2, <1>3, <1>5, <1>7, <1>8 DEF Heats, HeatTypes, FilesOrNone
<1>10. \A q \in Processes : Knows(q)' BY <1>3 DEF Heats, Knows
<1>11. GrowsOn BY <1>3 DEF GrowsOn, Grows
<1>12. InOrder(call[c], Of(c))'
  BY <1>1, <1>3, <1>4, <1>5 DEF InOrder, Lateness, Noting, Raising, Loading
<1>13. ~crowded' => Alone'
  <2> SUFFICES ASSUME ~crowded' PROVE Alone' OBVIOUS
  <2>1. ~crowded /\ Saving = {} BY <1>3
  <2>2. Alone BY <2>1 DEF Heats
  <2>3. \A d \in CallThreads : d # c => call'[d].at \notin Savers BY <1>5, <2>1 DEF Saving, Savers
  <2>4. \A d, e \in Saving' : d = e BY <2>3 DEF Saving, Savers
  <2>5. ASSUME store' # 0 PROVE content'[store'].state = "whole"
    <3>1. store \in Files \ {i} BY <1>2, <1>3, <2>5 DEF Heats, HeatTypes, FilesOrNone
    <3> QED BY <1>3, <1>7, <2>2, <2>5, <3>1 DEF Alone
  <2>6. ASSUME NEW d \in CallThreads
        PROVE /\ call'[d].at = "write" => call'[d].fd = tmp' /\ tmp' # 0 /\ content'[tmp'].state = "empty"
              /\ call'[d].at # "replace"
    BY <1>2, <1>3, <1>4, <1>5, <1>6, <1>7, <2>3 DEF Savers
  <2> QED BY <2>4, <2>5, <2>6 DEF Alone, At
<1> QED BY <1>3, <1>4, <1>9, <1>10, <1>11, <1>12, <1>13, StepHolds

LEMMA WriteTmpHolds == ASSUME Heats, NEW c \in CallThreads, WriteTmp(c) PROVE Heats'
<1> DEFINE p == Of(c)
           fd == call[c].fd
           n == [call[c] EXCEPT !.at = "replace", !.fd = 0]
<1>1. /\ call[c] \in CallRecords /\ InOrder(call[c], p) /\ call[c].at = "write"
      /\ refusing[p] \subseteq Refusers
  BY CallIsTyped DEF WriteTmp, At
<1>2. PICK state \in IF content[fd].state = "empty" THEN {"whole"} ELSE {"whole", "torn"} :
        content' = [content EXCEPT ![fd] =
          [state |-> state, models |-> IF state = "whole" THEN refusing[p] ELSE {}]]
  BY DEF WriteTmp
<1> DEFINE text == [state |-> state, models |-> IF state = "whole" THEN refusing[p] ELSE {}]
<1>3. text \in Contents /\ text.state = state /\ (content[fd].state = "empty" => state = "whole")
  BY <1>1 DEF Contents
<1>4. /\ Moves(c, n) /\ Of(c)' = p
      /\ UNCHANGED <<home, loaded, refusing, retired, gone, store, tmp, noted, raced, crowded>>
  BY DEF WriteTmp, Moves, Of, history
<1>b. OpenedBy(n, call[c], "replace", 0) BY DEF OpenedBy
<1>5. content' = [content EXCEPT ![fd] = text] BY <1>2
<1> HIDE DEF n, text, p, fd
<1>6. /\ n \in CallRecords /\ n.at = "replace" /\ n.model = call[c].model /\ n.error = call[c].error
      /\ n.late = call[c].late
  BY <1>1, <1>b, Opens DEF CallPlaces, FilesOrNone
<1>7. /\ call' \in [CallThreads -> CallRecords] /\ call'[c] = n
      /\ \A d \in CallThreads \ {c} : call'[d] = call[d]
  BY <1>4, <1>6, CallMoves DEF Heats
<1>8. /\ content' \in [Files -> Contents] /\ (fd \in Files => content'[fd] = text)
      /\ \A f \in Files \ {fd} : content'[f] = content[f]
  BY <1>3, <1>5 DEF Heats, HeatTypes
<1>9. HeatTypes' BY <1>4, <1>7, <1>8 DEF Heats, HeatTypes
<1>10. \A q \in Processes : Knows(q)' BY <1>4 DEF Heats, Knows
<1>11. GrowsOn BY <1>4 DEF GrowsOn, Grows
<1>12. InOrder(call[c], Of(c))'
  BY <1>1, <1>4, <1>6, <1>7 DEF InOrder, Lateness, Noting, Raising, Loading
<1>13. ~crowded' => Alone'
  <2> SUFFICES ASSUME ~crowded' PROVE Alone' OBVIOUS
  <2>1. Alone BY <1>4 DEF Heats
  <2>2. fd = tmp /\ tmp # 0 /\ content[tmp].state = "empty" BY <1>1, <2>1 DEF Alone, At, fd
  <2>3. tmp \in Files /\ (store # 0 => store \in Files \ {tmp})
    BY <2>2 DEF Heats, HeatTypes, FilesOrNone
  <2>4. content'[tmp].state = "whole" BY <1>3, <1>8, <2>2, <2>3
  <2>5. c \in Saving BY <1>1 DEF Saving
  <2>6. \A d \in CallThreads : d # c => call'[d].at \notin Savers
    BY <1>7, <2>1, <2>5 DEF Alone, Saving, Savers
  <2>7. \A d, e \in Saving' : d = e BY <2>6 DEF Saving, Savers
  <2>8. store' # 0 => content'[store'].state = "whole" BY <1>4, <1>8, <2>1, <2>2, <2>3 DEF Alone
  <2>9. ASSUME NEW d \in CallThreads
        PROVE call'[d].at # "write" /\ (call'[d].at = "replace" => tmp' # 0 /\ content'[tmp'].state = "whole")
    BY <1>4, <1>6, <1>7, <2>2, <2>4, <2>6 DEF Savers
  <2> QED BY <2>7, <2>8, <2>9 DEF Alone, At
<1> QED BY <1>4, <1>6, <1>9, <1>10, <1>11, <1>12, <1>13, StepHolds

LEMMA ReplaceHolds == ASSUME Heats, NEW c \in CallThreads, Replace(c) PROVE Heats'
<1>1. /\ call[c] \in CallRecords /\ InOrder(call[c], Of(c)) /\ call[c].at = "replace"
  BY CallIsTyped DEF Replace, At
<1>2. call' = [call EXCEPT ![c] = Noted(call[c])] BY DEF Replace
<1>3. Notes(c) BY <1>1, <1>2 DEF Replace, Notes, Moves, InOrder, Noting, Loading
<1>4. Noted(call[c]) \in CallRecords /\ Noted(call[c]).at \notin Savers /\ Moves(c, Noted(call[c]))
  BY <1>3, NotedMoves DEF Notes, Savers
<1>5. /\ call'[c] = Noted(call[c]) /\ \A d \in CallThreads \ {c} : call'[d] = call[d]
  BY <1>4, CallMoves DEF Heats
<1>6. Blank \in Contents BY DEF Blank, Contents
<1>7. CASE tmp = 0
  <2>1. UNCHANGED <<disk, crowded>> BY <1>7 DEF Replace
  <2>2. ~crowded' => Alone' BY <1>4, <2>1, StillAlone
  <2> QED BY <1>3, <2>1, <2>2, NotesHold DEF Heats, HeatTypes, disk
<1>8. CASE tmp # 0
  <2>1. /\ store' = tmp /\ tmp' = 0 /\ crowded' = crowded
        /\ content' = [f \in Files |-> IF f = store THEN Blank ELSE content[f]]
    BY <1>8 DEF Replace
  <2>2. tmp \in Files /\ tmp # store BY <1>8 DEF Heats, HeatTypes, FilesOrNone
  <2>3. content' \in [Files -> Contents] /\ content'[tmp] = content[tmp]
    BY <1>6, <2>1, <2>2 DEF Heats, HeatTypes
  <2>4. ~crowded' => Alone'
    <3> SUFFICES ASSUME ~crowded' PROVE Alone' OBVIOUS
    <3>1. Alone BY <2>1 DEF Heats
    <3>2. c \in Saving /\ content[tmp].state = "whole" BY <1>1, <3>1 DEF Saving, Alone, At
    <3>3. \A d \in CallThreads : call'[d].at \notin Savers
      BY <1>4, <1>5, <3>1, <3>2 DEF Alone, Saving, Savers
    <3> QED BY <2>1, <2>3, <3>2, <3>3 DEF Alone, At, Saving, Savers
  <2>5. store' \in FilesOrNone /\ tmp' \in FilesOrNone /\ (store' # 0 => store' # tmp')
    BY <2>1, <2>2 DEF FilesOrNone
  <2> QED BY <1>3, <2>3, <2>4, <2>5, NotesHold
<1> QED BY <1>7, <1>8

-----------------------------------------------------------------------------
(* The world *)

LEMMA WithdrawHolds == ASSUME Heats, Withdraw PROVE Heats'
<1>1. /\ gone \subseteq gone' /\ gone' \subseteq CalledModels
      /\ UNCHANGED <<home, loaded, refusing, retired, disk, call, history>>
  BY TempAssumption DEF Withdraw, Heats, HeatTypes
<1>2. HeatTypes' BY <1>1 DEF Heats, HeatTypes, disk, history
<1>3. \A q \in Processes : Knows(q)' BY <1>1 DEF Heats, Knows, history
<1>4. GrowsOn BY <1>1 DEF GrowsOn, Grows, history
<1>5. ASSUME NEW d \in CallThreads PROVE InOrder(call[d], Of(d))'
  BY <1>1, <1>4, OthersInOrder DEF Heats
<1>6. ~crowded' => Alone' BY <1>1, AloneStays DEF Heats, history
<1> QED BY <1>2, <1>3, <1>5, <1>6 DEF Heats

\* What stops forgets what it knew, and what it was doing.
LEMMA StopProcessHolds == ASSUME Heats, NEW p \in MayStop, StopProcess(p) PROVE Heats'
<1>1. /\ p \in Processes /\ UNCHANGED <<home, gone, disk, crowded>> /\ loaded' = loaded \ {p}
      /\ raced' = raced \ {p}
  BY TempAssumption DEF StopProcess
<1>2. /\ refusing' = [refusing EXCEPT ![p] = {}] /\ retired' = [retired EXCEPT ![p] = {}]
      /\ noted' = [noted EXCEPT ![p] = {}]
      /\ call' = [c \in CallThreads |-> IF Of(c) = p THEN Resting ELSE call[c]]
  BY DEF StopProcess
<1>3. /\ refusing' \in [Processes -> SUBSET Refusers] /\ refusing'[p] = {}
      /\ \A q \in Processes \ {p} : refusing'[q] = refusing[q]
  BY <1>1, <1>2 DEF Heats, HeatTypes
<1>4. /\ retired' \in [Processes -> SUBSET CalledModels] /\ retired'[p] = {}
      /\ \A q \in Processes \ {p} : retired'[q] = retired[q]
  BY <1>1, <1>2 DEF Heats, HeatTypes
<1>5. /\ noted' \in [Processes -> SUBSET CalledModels] /\ noted'[p] = {}
      /\ \A q \in Processes \ {p} : noted'[q] = noted[q]
  BY <1>1, <1>2 DEF Heats, HeatTypes
<1>6. /\ call' \in [CallThreads -> CallRecords]
      /\ \A c \in CallThreads : call'[c] = IF Of(c) = p THEN Resting ELSE call[c]
  BY <1>2, RestingIsTyped DEF Heats, HeatTypes
<1>7. HeatTypes' BY <1>1, <1>3, <1>4, <1>5, <1>6 DEF Heats, HeatTypes, disk
<1>8. ASSUME NEW q \in Processes PROVE Knows(q)'
  <2>1. CASE q = p BY <1>3, <1>4, <1>5, <2>1 DEF Knows
  <2>2. CASE q # p BY <1>1, <1>3, <1>4, <1>5, <2>2 DEF Heats, Knows
  <2> QED BY <2>1, <2>2
<1>9. ASSUME NEW d \in CallThreads PROVE InOrder(call[d], Of(d))'
  <2>1. CASE Of(d) = p
    <3>1. call'[d] = Resting BY <1>6, <2>1
    <3> QED BY <3>1, RestingIsTyped DEF InOrder, Lateness, Noting, Raising, Loading
  <2>2. CASE Of(d) # p
    <3>1. call'[d] = call[d] /\ Of(d) \in Processes BY <1>6, <2>2 DEF Heats, HeatTypes, Of
    <3>2. Grows(Of(d)) BY <1>1, <1>3, <1>5, <2>2, <3>1 DEF Grows
    <3> QED BY <1>1, <3>1, <3>2, StaysInOrder DEF Heats
  <2> QED BY <2>1, <2>2
<1>10. ~crowded' => Alone'
  <2> SUFFICES ASSUME ~crowded' PROVE Alone' OBVIOUS
  <2>1. \A d \in CallThreads : call'[d].at \in Savers => call'[d] = call[d]
    BY <1>6, RestingIsTyped DEF Savers
  <2> QED BY <1>1, <2>1, AloneStays DEF Heats
<1> QED BY <1>7, <1>8, <1>9, <1>10 DEF Heats

LEMMA HeatsAtFirst == TempInit => Heats
<1> SUFFICES ASSUME TempInit PROVE Heats OBVIOUS
<1>1. Blank \in Contents BY DEF Blank, Contents
<1>2. HeatTypes BY <1>1, RestingIsTyped DEF TempInit, HeatTypes, FilesOrNone
<1>3. \A p \in Processes : Knows(p) BY DEF TempInit, Knows
<1>4. \A c \in CallThreads : call[c] = Resting BY DEF TempInit
<1>5. \A c \in CallThreads : InOrder(call[c], Of(c))
  BY <1>4, RestingIsTyped DEF InOrder, Lateness, Noting, Raising, Loading
<1>6. Alone BY <1>4, RestingIsTyped DEF Alone, Saving, At, TempInit
<1> QED BY <1>2, <1>3, <1>5, <1>6 DEF Heats

LEMMA HeatsKept == Heats /\ [TempNext]_tempVars => Heats'
<1> SUFFICES ASSUME Heats, [TempNext]_tempVars PROVE Heats' OBVIOUS
<1>1. CASE UNCHANGED tempVars
  <2>1. HeatTypes' BY <1>1 DEF Heats, HeatTypes, tempVars, disk, history
  <2>2. \A q \in Processes : Knows(q)' BY <1>1 DEF Heats, Knows, tempVars, history
  <2>3. GrowsOn BY <1>1 DEF GrowsOn, Grows, tempVars, history
  <2>4. ASSUME NEW d \in CallThreads PROVE InOrder(call[d], Of(d))'
    BY <1>1, <2>3, OthersInOrder DEF Heats, tempVars
  <2>5. ~crowded' => Alone' BY <1>1, AloneStays DEF Heats, tempVars, history
  <2> QED BY <2>1, <2>2, <2>4, <2>5 DEF Heats
<1>2. ASSUME NEW c \in CallThreads, Build(c) PROVE Heats' BY <1>2, BuildHolds
<1>3. ASSUME NEW c \in CallThreads, LoadFile(c) PROVE Heats' BY <1>3, LoadFileHolds
<1>4. ASSUME NEW c \in CallThreads, KeepTable(c) PROVE Heats' BY <1>4, KeepTableHolds
<1>5. ASSUME NEW c \in CallThreads, Apply(c) PROVE Heats' BY <1>5, ApplyHolds
<1>6. ASSUME NEW c \in CallThreads, Answered(c) \/ Unwind(c) PROVE Heats'
  BY <1>6, RestsHolds DEF Answered, Unwind, Rests
<1>7. ASSUME NEW c \in CallThreads, AnsweredNothing(c) PROVE Heats' BY <1>7, AnsweredNothingHolds
<1>8. ASSUME NEW c \in CallThreads, RequestFails(c) PROVE Heats' BY <1>8, RequestFailsHolds
<1>9. ASSUME NEW c \in CallThreads, Note(c) PROVE Heats' BY <1>9, NoteHolds
<1>10. ASSUME NEW c \in CallThreads, OpenTmp(c) PROVE Heats' BY <1>10, OpenTmpHolds
<1>11. ASSUME NEW c \in CallThreads, WriteTmp(c) PROVE Heats' BY <1>11, WriteTmpHolds
<1>12. ASSUME NEW c \in CallThreads, Replace(c) PROVE Heats' BY <1>12, ReplaceHolds
<1>13. ASSUME NEW c \in CallThreads, SaveFails(c) PROVE Heats' BY <1>13, SaveFailsHolds
<1>14. ASSUME NEW c \in CallThreads, Raise(c) PROVE Heats' BY <1>14, RaiseHolds
<1>15. CASE Withdraw BY <1>15, WithdrawHolds
<1>16. ASSUME NEW p \in MayStop, StopProcess(p) PROVE Heats' BY <1>16, StopProcessHolds
<1> QED BY <1>1, <1>2, <1>3, <1>4, <1>5, <1>6, <1>7, <1>8, <1>9, <1>10, <1>11, <1>12, <1>13,
           <1>14, <1>15, <1>16 DEF TempNext

-----------------------------------------------------------------------------
(* The theorems *)

\* The tables are right of the models they tell of: what they and the catalogue
\* say takes none takes none, and the vendor of another honours what its
\* published ceiling, or else the tables, give.
TablesAreRight ==
  \A m \in DOMAIN Facts : Measured(m) =>
    /\ TakesNone(m) <=> Truth[m].does = "fixed"
    /\ ~TakesNone(m) =>
         LET low == IF Facts[m].measured THEN Facts[m].low ELSE 0
             high == IF Ceiling(m) > 0 THEN Ceiling(m) ELSE Facts[m].high
         IN /\ Facts[m].measured \/ Ceiling(m) > 0
            /\ low \in Tenths /\ high \in Tenths /\ low <= high
            /\ Truth[m].range = low..high

\* If the tables are right of the models they tell of, none of these is sent a
\* temperature that its vendor refuses or resets, and each is sent the honoured
\* one nearest to what the route wanted.
THEOREM NearestIsSent == TablesAreRight => SentIsHonoured
<1> SUFFICES ASSUME TablesAreRight, NEW m \in DOMAIN Facts, NEW want \in Tenths, Measured(m)
    PROVE  LET t == Sends(m, {}, want)
           IN /\ ~Refuses(m, t) /\ ~Resets(m, t) /\ Nearest(m, t, want)
              /\ t = Nothing => Truth[m].does = "fixed"
  BY DEF SentIsHonoured
<1>1. CASE TakesNone(m)
  <2>1. PolicyFor(m, {}) = Fixed BY <1>1 DEF PolicyFor
  <2>2. Sends(m, {}, want) = Nothing BY <2>1 DEF Sends, Fixed
  <2>3. Truth[m].does = "fixed" BY <1>1 DEF TablesAreRight
  <2> QED BY <2>2, <2>3 DEF Refuses, Resets, Nearest
<1>2. CASE ~TakesNone(m)
  <2> DEFINE low == IF Facts[m].measured THEN Facts[m].low ELSE 0
             high == IF Ceiling(m) > 0 THEN Ceiling(m) ELSE Facts[m].high
             t == Clamped(Policy(low, high), want)
  <2>1. /\ Facts[m].measured \/ Ceiling(m) > 0
        /\ low \in Tenths /\ high \in Tenths /\ low <= high
        /\ Truth[m].range = low..high /\ Truth[m].does # "fixed"
    BY <1>2 DEF TablesAreRight
  <2>2. PolicyFor(m, {}) = Policy(low, high) BY <1>2, <2>1 DEF PolicyFor, Default
  <2> HIDE DEF low, high
  <2>3. Sends(m, {}, want) = t
    <3>1. Policy(low, high).known /\ ~Policy(low, high).fixed BY DEF Policy
    <3> QED BY <2>2, <3>1 DEF Sends
  <2>4. /\ t \in low..high /\ (want < low => t = low) /\ (want > high => t = high)
        /\ (want \in low..high => t = want)
    <3> DEFINE up == IF want < low THEN low ELSE want
    <3>1. low \in Int /\ high \in Int /\ want \in Int /\ low <= high BY <2>1 DEF Tenths
    <3>2. t = IF up > high THEN high ELSE up BY DEF Clamped, Policy
    <3> HIDE DEF t
    <3> QED BY <3>1, <3>2
  <2> HIDE DEF t
  <2>5. Nearest(m, t, want)
    <3>1. ASSUME NEW u \in low..high
          PROVE (t < want => u <= t \/ u > want) /\ (t > want => u >= t \/ u < want)
      <4>1. low \in Int /\ high \in Int /\ low <= high /\ want \in Int /\ t \in Int
        BY <2>1, <2>4 DEF Tenths
      <4>2. u \in Int /\ low <= u /\ u <= high BY <3>1, <4>1
      <4>3. CASE want < low BY <2>4, <4>1, <4>2, <4>3
      <4>4. CASE want > high BY <2>4, <4>1, <4>2, <4>4
      <4>5. CASE want \in low..high BY <2>4, <4>1, <4>2, <4>5
      <4> QED BY <4>1, <4>3, <4>4, <4>5
    <3> QED BY <2>1, <3>1 DEF Nearest
  <2>6. t # Nothing BY <2>1, <2>4 DEF Tenths, Nothing
  <2> QED BY <2>1, <2>3, <2>4, <2>5, <2>6 DEF Refuses, Resets
<1> QED BY <1>1, <1>2

LEMMA HeatsSay == Heats => (TablesAreRight => TempInv)
<1> SUFFICES ASSUME Heats, TablesAreRight PROVE TempInv OBVIOUS
<1>1. TempTypeOK
  <2>1. \A c \in CallThreads : call[c].attempt \in 0..Attempts
    BY DEF Heats, HeatTypes, CallRecords, Tries
  <2>2. \A p \in Processes : refusing[p] \cup retired[p] \cup noted[p] \subseteq CalledModels
    BY DEF Heats, HeatTypes, Refusers
  <2> QED BY <2>1, <2>2 DEF TempTypeOK, Heats, HeatTypes, FilesOrNone
<1>2. RefusedOnce BY DEF RefusedOnce, Heats, InOrder, Lateness, At
<1>3. LearnedIsTrue
  <2>1. \A p \in Processes : refusing[p] \subseteq Refusers BY DEF Heats, HeatTypes
  <2>2. \A f \in Files : content[f].models \subseteq Refusers BY DEF Heats, HeatTypes, Contents
  <2> QED BY <2>1, <2>2 DEF LearnedIsTrue, Refusers
<1>4. AliveStaysListed BY DEF AliveStaysListed, Heats, Knows
<1>5. RefusalIsRetried BY DEF RefusalIsRetried, Heats, InOrder, Raising, At
<1>6. StoreIsWhole BY DEF StoreIsWhole, Heats, Alone
<1> QED BY <1>1, <1>2, <1>3, <1>4, <1>5, <1>6, NearestIsSent DEF TempInv

\* Whatever the models and the processes: if the tables are right of what they
\* tell of, a refused temperature is not sent to a model again by a later call
\* of its process (but after a race for the first load), what is remembered is
\* true of the model, a model that is only particular about it is not hidden as
\* withdrawn, a refusal is retried, and the file is whole but for two saves at
\* once.
THEOREM TemperaturesHold == TablesAreRight /\ TempSpec => []TempInv
<1>1. TablesAreRight /\ TempInit /\ [][TempNext]_tempVars => []TempInv
  <2> SUFFICES ASSUME TablesAreRight PROVE TempInit /\ [][TempNext]_tempVars => []TempInv
    OBVIOUS
  <2>1. Heats => TempInv BY HeatsSay
  <2> QED BY <2>1, HeatsAtFirst, HeatsKept, PTL
<1> QED BY <1>1 DEF TempSpec

-----------------------------------------------------------------------------
(* SeatOutcomes: the order the records put a chain in *)

\* Every set of naturals but the empty one has a least member.
LEMMA NatMin ==
  ASSUME NEW K, K \subseteq Nat, K # {}
  PROVE  \E m \in K : \A k \in K : m <= k
<1> DEFINE R == StrictSubsetOrdering(Nat)
           T == {1..k : k \in K}
<1>1. IsWellFoundedOn(R, FiniteSubsetsOf(Nat))
  BY FS_StrictSubsetOrderingWellFounded
<1>2. T \subseteq FiniteSubsetsOf(Nat)
  BY FS_Interval DEF FiniteSubsetsOf
<1>3. T # {}
  OBVIOUS
<1>4. PICK x \in T : \A y \in T : ~(<<y, x>> \in R)
  <2> HIDE DEF R, T
  <2> QED BY <1>1, <1>2, <1>3, WFMin
<1>5. PICK m \in K : x = 1..m
  OBVIOUS
<1>6. ASSUME NEW k \in K, k < m PROVE FALSE
  <2>1. 1..k \in T /\ 1..k \subseteq 1..m /\ m \in 1..m /\ m \notin 1..k
    BY <1>6
  <2>2. <<1..k, 1..m>> \in R
    BY <2>1 DEF StrictSubsetOrdering
  <2> QED BY <1>4, <1>5, <2>1, <2>2
<1> QED BY <1>6

\* A set with 0 and with each successor of its members has every natural: what is
\* needed here of the induction the library states over an operator.
LEMMA NatInd ==
  ASSUME NEW S, 0 \in S, \A n \in Nat : n \in S => n + 1 \in S
  PROVE  Nat \subseteq S
<1>1. SUFFICES ASSUME Nat \ S # {} PROVE FALSE
  OBVIOUS
<1>2. PICK m \in Nat \ S : \A k \in Nat \ S : m <= k
  BY <1>1, NatMin, Zenon
<1> QED BY <1>2

\* f holds what n steps of g make of x, each from the one before.
Computes(f, x, g, n) == f[0] = x /\ \A i \in 1..n : f[i] = g[<<i, f[i - 1]>>]

\* What is computed in steps is computed to the end.
LEMMA StepsExist ==
  ASSUME NEW X, NEW x \in X, NEW g \in [Nat \X X -> X], NEW n \in Nat
  PROVE  \E f \in [0..n -> X] : Computes(f, x, g, n)
<1> DEFINE S == {m \in Nat : \E f \in [0..m -> X] : Computes(f, x, g, m)}
<1>1. 0 \in S
  <2> DEFINE f == [i \in 0..0 |-> x]
  <2>1. f \in [0..0 -> X] /\ Computes(f, x, g, 0)
    BY DEF Computes
  <2> QED
    BY <2>1
<1>2. ASSUME NEW m \in Nat, m \in S
      PROVE  m + 1 \in S
  <2>1. PICK f \in [0..m -> X] : Computes(f, x, g, m)
    BY <1>2
  <2> DEFINE h == [i \in 0..(m + 1) |-> IF i = m + 1 THEN g[<<i, f[m]>>] ELSE f[i]]
  <2>2. h \in [0..(m + 1) -> X]
    <3>1. f[m] \in X
      OBVIOUS
    <3> QED
      BY <3>1
  <2>3. h[0] = x
    BY <2>1 DEF Computes
  <2>4. ASSUME NEW i \in 1..(m + 1)
        PROVE  h[i] = g[<<i, h[i - 1]>>]
    <3>1. CASE i = m + 1
      BY <3>1
    <3>2. CASE i # m + 1
      BY <2>1, <3>2 DEF Computes
    <3> QED
      BY <3>1, <3>2
  <2> HIDE DEF h
  <2>5. Computes(h, x, g, m + 1)
    BY <2>3, <2>4 DEF Computes
  <2> QED
    BY <2>2, <2>5
<1> HIDE DEF S
<1>3. Nat \subseteq S
  BY <1>1, <1>2, NatInd
<1>4. n \in S
  BY <1>3
<1> QED
  BY <1>4 DEF S

-----------------------------------------------------------------------------
(* The rows of the log *)

Row == [runs : Nat, approved : Nat, calls : Nat]
Logged == log \in [Candidates -> Row]

\* Of two rates of which each is the other and more neither is.
LEMMA AheadOfEachOther ==
  ASSUME NEW x \in Int, NEW r \in Nat \ {0}, NEW s \in Nat \ {0},
         NEW p \in Nat \ {0}, NEW q \in Nat \ {0},
         x * q >= p * r * s, (0 - x) * q >= p * s * r
  PROVE  FALSE
<1>1. p * r \in Nat /\ p * r > 0 /\ p * s \in Nat /\ p * s > 0
  BY SMT
<1>2. (p * r) * s > 0 /\ (p * s) * r > 0
  BY <1>1, SMT
<1>3. x * q > 0 /\ (0 - x) * q > 0
  BY <1>2, SMT
<1>4. x > 0
  BY <1>3, SMT
<1>5. (0 - x) > 0
  BY <1>3, SMT
<1> QED
  BY <1>4, <1>5

\* No two candidates overtake each other.
LEMMA NoneOvertakesBack ==
  ASSUME Logged, NEW c \in Candidates, NEW d \in Candidates, Overtakes(c, d)
  PROVE  ~Overtakes(d, c)
<1> DEFINE r == log[c].runs
           s == log[d].runs
           a == log[c].approved
           b == log[d].approved
           p == MinMargin[1]
           q == MinMargin[2]
<1>1. /\ r \in Nat \ {0} /\ s \in Nat \ {0} /\ a \in Nat /\ b \in Nat
      /\ log[c].calls \in Nat /\ log[d].calls \in Nat
      /\ p \in Nat \ {0} /\ q \in Nat \ {0}
  <2>1. log[c] \in Row /\ log[d] \in Row
    BY DEF Logged
  <2>2. r >= MinSamples /\ s >= MinSamples
    BY DEF Overtakes, Trusted
  <2> QED
    BY <2>1, <2>2, OutcomesAssumption DEF Row, OutcomesAssumption
<1>2. ~(AheadByMargin(c, d) /\ AheadByMargin(d, c))
  <2> DEFINE x == a * s - b * r
  <2>1. a * s \in Int /\ b * r \in Int /\ x \in Int /\ b * r - a * s = 0 - x
    BY <1>1, SMT
  <2>2. AheadByMargin(c, d) <=> (a * s - b * r) * q >= p * r * s
    BY DEF AheadByMargin
  <2>3. AheadByMargin(d, c) <=> (b * r - a * s) * q >= p * s * r
    BY DEF AheadByMargin
  <2> HIDE DEF r, s, a, b, p, q
  <2>4. SUFFICES ASSUME AheadByMargin(c, d), AheadByMargin(d, c)
                 PROVE  FALSE
    OBVIOUS
  <2>5. x * q >= p * r * s /\ (0 - x) * q >= p * s * r
    BY <2>1, <2>2, <2>3, <2>4
  <2> HIDE DEF x
  <2> QED
    BY <1>1, <2>1, <2>5, AheadOfEachOther
<1>3. ~(Cheaper(c, d) /\ Cheaper(d, c))
  <2> DEFINE v == log[c].calls * s
             w == log[d].calls * r
  <2>1. v \in Nat /\ w \in Nat
    BY <1>1, SMT
  <2>2. 5 * log[c].calls * s = 5 * v /\ 4 * log[c].calls * s = 4 * v
    BY <1>1, SMT
  <2>3. 5 * log[d].calls * r = 5 * w /\ 4 * log[d].calls * r = 4 * w
    BY <1>1, SMT
  <2>4. (Cheaper(c, d) <=> 5 * v < 4 * w) /\ (Cheaper(d, c) <=> 5 * w < 4 * v)
    BY <2>2, <2>3 DEF Cheaper
  <2> HIDE DEF v, w
  <2> QED
    BY <2>1, <2>4
<1> QED
  BY <1>2, <1>3 DEF Overtakes

-----------------------------------------------------------------------------
(* The passes over a chain *)

\* Every candidate once, and who has no record where it was declared.
Chains ==
  {o \in [Candidates -> Candidates] :
     /\ \A i, j \in Candidates : o[i] = o[j] => i = j
     /\ \A c \in Candidates : \E i \in Candidates : o[i] = c
     /\ \A c \in Candidates : ~Trusted(c) => o[c] = c}

\* From place p on nobody is right behind one it overtakes.
SettledFrom(o, p) == \A j \in 1..(N - 1) : j >= p => ~Overtakes(o[j + 1], o[j])

LEMMA CandidatesAre ==
  /\ N \in Nat /\ N >= 1 /\ Candidates = 1..N
  /\ \A i \in 1..(N - 1) : i \in Candidates /\ i + 1 \in Candidates
BY OutcomesAssumption DEF OutcomesAssumption, Candidates

\* Two that have a record change places.
LEMMA SwapIs ==
  ASSUME NEW o \in Chains, NEW i \in 1..(N - 1), Trusted(o[i]), Trusted(o[i + 1])
  PROVE  /\ Swapped(o, i) \in Chains
         /\ Swapped(o, i)[i] = o[i + 1] /\ Swapped(o, i)[i + 1] = o[i]
         /\ \A j \in Candidates : j # i /\ j # i + 1 => Swapped(o, i)[j] = o[j]
<1> DEFINE r == Swapped(o, i)
<1>1. i \in Candidates /\ i + 1 \in Candidates /\ i # i + 1
  BY CandidatesAre
<1>2. /\ o \in [Candidates -> Candidates]
      /\ \A j, k \in Candidates : o[j] = o[k] => j = k
      /\ \A c \in Candidates : \E j \in Candidates : o[j] = c
      /\ \A c \in Candidates : ~Trusted(c) => o[c] = c
  BY DEF Chains
<1>3. /\ r \in [Candidates -> Candidates]
      /\ r[i] = o[i + 1] /\ r[i + 1] = o[i]
      /\ \A j \in Candidates : j # i /\ j # i + 1 => r[j] = o[j]
  BY <1>1, <1>2 DEF Swapped
<1> HIDE DEF r
<1>4. \A j, k \in Candidates : r[j] = r[k] => j = k
  BY <1>1, <1>2, <1>3
<1>5. ASSUME NEW c \in Candidates
      PROVE  \E j \in Candidates : r[j] = c
  <2>1. PICK j \in Candidates : o[j] = c
    BY <1>2
  <2>2. CASE j = i
    BY <1>1, <1>3, <2>1, <2>2
  <2>3. CASE j = i + 1
    BY <1>1, <1>3, <2>1, <2>3
  <2>4. CASE j # i /\ j # i + 1
    BY <1>3, <2>1, <2>4
  <2> QED
    BY <2>2, <2>3, <2>4
<1>6. ASSUME NEW c \in Candidates, ~Trusted(c)
      PROVE  r[c] = c
  <2>1. o[c] = c
    BY <1>2, <1>6
  <2>2. c # i /\ c # i + 1
    BY <1>6, <2>1
  <2> QED
    BY <1>3, <2>1, <2>2
<1> QED
  BY <1>3, <1>4, <1>5, <1>6 DEF Chains, r

\* A pass, place by place.
LEMMA PassSteps ==
  ASSUME NEW s \in Chains
  PROVE  \E a \in [0..(N - 1) -> Chains] :
           /\ a[0] = s /\ Pass(s) = a[N - 1]
           /\ \A i \in 1..(N - 1) :
                a[i] = IF Overtakes(a[i - 1][i + 1], a[i - 1][i])
                       THEN Swapped(a[i - 1], i) ELSE a[i - 1]
<1> DEFINE Then(i, t) == IF i \in 1..(N - 1) /\ Overtakes(t[i + 1], t[i])
                         THEN Swapped(t, i) ELSE t
           g == [q \in Nat \X Chains |-> Then(q[1], q[2])]
           Goes(b) == b = [i \in 0..(N - 1) |->
                             IF i = 0 THEN s
                             ELSE IF Overtakes(b[i - 1][i + 1], b[i - 1][i])
                                  THEN Swapped(b[i - 1], i) ELSE b[i - 1]]
           a == CHOOSE b : Goes(b)
<1>1. ASSUME NEW i \in Nat, NEW t \in Chains
      PROVE  Then(i, t) \in Chains
  BY SwapIs DEF Overtakes
<1>2. \A i \in Nat, t \in Chains : Then(i, t) \in Chains
  BY <1>1
<1>3. N - 1 \in Nat
  BY CandidatesAre
<1>4. PICK f \in [0..(N - 1) -> Chains] :
        f[0] = s /\ \A i \in 1..(N - 1) : f[i] = Then(i, f[i - 1])
  <2> HIDE DEF Then
  <2>1. g \in [Nat \X Chains -> Chains]
    BY <1>2
  <2>2. \A i \in Nat, t \in Chains : g[<<i, t>>] = Then(i, t)
    OBVIOUS
  <2> HIDE DEF g
  <2> DEFINE n == N - 1
  <2>3. PICK f \in [0..n -> Chains] : Computes(f, s, g, n)
    <3>1. n \in Nat
      BY <1>3
    <3> HIDE DEF n
    <3> QED
      BY <2>1, <3>1, StepsExist, Zenon
  <2>4. \A i \in 1..(N - 1) : i \in Nat /\ f[i - 1] \in Chains
    BY <1>3
  <2> QED
    BY <2>2, <2>3, <2>4 DEF Computes
<1>5. Goes(f)
  <2>1. ASSUME NEW i \in 0..(N - 1)
        PROVE  f[i] = IF i = 0 THEN s
                      ELSE IF Overtakes(f[i - 1][i + 1], f[i - 1][i])
                           THEN Swapped(f[i - 1], i) ELSE f[i - 1]
    BY <1>3, <1>4
  <2> QED
    BY <2>1
<1>6. Goes(a)
  <2> HIDE DEF Goes
  <2> QED
    BY <1>5, Zenon
<1>7. Pass(s) = a[N - 1]
  BY DEF Pass
<1> HIDE DEF a
<1>8. a[0] = s
  BY <1>3, <1>6
<1>9. \A i \in 1..(N - 1) : a[i] = Then(i, a[i - 1])
  BY <1>3, <1>6
<1>10. DOMAIN a = 0..(N - 1) /\ a = [i \in 0..(N - 1) |-> a[i]]
  BY <1>6
<1> DEFINE S == {i \in Nat : i <= N - 1 => a[i] \in Chains}
<1>11. 0 \in S
  BY <1>8
<1>12. ASSUME NEW i \in Nat, i \in S
       PROVE  i + 1 \in S
  <2>1. CASE i + 1 <= N - 1
    <3>1. a[i] \in Chains
      BY <1>3, <1>12, <2>1
    <3>2. a[i + 1] = Then(i + 1, a[i])
      <4>1. i + 1 \in 1..(N - 1) /\ (i + 1) - 1 = i
        BY <1>3, <2>1
      <4> HIDE DEF Then
      <4> QED
        BY <1>9, <4>1
    <3> HIDE DEF Then
    <3> QED
      BY <1>2, <3>1, <3>2
  <2>2. CASE ~(i + 1 <= N - 1)
    BY <2>2
  <2> QED
    BY <2>1, <2>2
<1> HIDE DEF S
<1>13. Nat \subseteq S
  BY <1>11, <1>12, NatInd
<1>14. a \in [0..(N - 1) -> Chains]
  <2>1. \A i \in 0..(N - 1) : a[i] \in Chains
    BY <1>3, <1>13 DEF S
  <2> QED
    BY <1>10, <2>1
<1>15. \A i \in 1..(N - 1) : a[i] = IF Overtakes(a[i - 1][i + 1], a[i - 1][i])
                                   THEN Swapped(a[i - 1], i) ELSE a[i - 1]
  BY <1>9
<1> QED
  BY <1>7, <1>8, <1>14, <1>15

\* A pass settles one place more, from the end.
LEMMA PassSettles ==
  ASSUME Logged, NEW s \in Chains, NEW p \in Int, SettledFrom(s, p)
  PROVE  Pass(s) \in Chains /\ SettledFrom(Pass(s), p - 1)
<1>1. PICK a \in [0..(N - 1) -> Chains] :
        /\ a[0] = s /\ Pass(s) = a[N - 1]
        /\ \A i \in 1..(N - 1) :
             a[i] = IF Overtakes(a[i - 1][i + 1], a[i - 1][i])
                    THEN Swapped(a[i - 1], i) ELSE a[i - 1]
  BY PassSteps
<1> DEFINE Ahead(o, i) == \A j \in (i + 2)..N : o[j] = s[j]
           Behind(o, i) == i >= 1 => o[i] = s[i + 1] \/ o[i + 1] = s[i + 1]
           Done(o, i) == \A j \in 1..i : j >= p - 1 => ~Overtakes(o[j + 1], o[j])
           Passed(o, i) == Ahead(o, i) /\ Behind(o, i) /\ Done(o, i)
           S == {i \in Nat : i <= N - 1 => Passed(a[i], i)}
<1>2. N - 1 \in Nat
  BY CandidatesAre
<1>3. 0 \in S
  BY <1>1, <1>2
<1>4. ASSUME NEW k \in Nat, k \in S
      PROVE  k + 1 \in S
  <2>1. SUFFICES ASSUME k + 1 <= N - 1
                 PROVE  Passed(a[k + 1], k + 1)
    OBVIOUS
  <2> DEFINE o == a[k]
             r == a[k + 1]
             i == k + 1
  <2>2. i \in 1..(N - 1) /\ i - 1 = k /\ k \in 0..(N - 1) /\ i \in Candidates /\ i + 1 \in Candidates
    BY <1>2, <2>1, CandidatesAre
  <2>3. o \in Chains /\ r \in Chains
    BY <2>2
  <2>4. r = IF Overtakes(o[i + 1], o[i]) THEN Swapped(o, i) ELSE o
    BY <1>1, <2>2
  <2>5. Ahead(o, k) /\ Behind(o, k) /\ Done(o, k)
    BY <1>4, <2>1, <2>2
  <2> HIDE DEF o, r
  <2>6. o[i + 1] = s[i + 1]
    <3>1. i + 1 \in (k + 2)..N
      BY <2>2, CandidatesAre
    <3> QED
      BY <2>5, <3>1
  <2>7. CASE Overtakes(o[i + 1], o[i])
    <3>1. Trusted(o[i]) /\ Trusted(o[i + 1])
      BY <2>7 DEF Overtakes
    <3>2. /\ r[i] = o[i + 1] /\ r[i + 1] = o[i]
          /\ \A j \in Candidates : j # i /\ j # i + 1 => r[j] = o[j]
      BY <2>2, <2>3, <2>4, <2>7, <3>1, SwapIs
    <3>3. Ahead(r, i)
      <4>1. ASSUME NEW j \in (i + 2)..N
            PROVE  r[j] = s[j]
        <5>1. j \in Candidates /\ j # i /\ j # i + 1 /\ j \in (k + 2)..N
          BY <2>2, CandidatesAre
        <5> QED
          BY <2>5, <3>2, <5>1
      <4> QED
        BY <4>1
    <3>4. Behind(r, i)
      BY <2>6, <3>2
    <3>5. ~Overtakes(o[i], o[i + 1])
      <4>1. o[i] \in Candidates /\ o[i + 1] \in Candidates
        BY <2>2, <2>3 DEF Chains
      <4> QED
        BY <2>7, <4>1, NoneOvertakesBack
    <3>6. ASSUME NEW j \in 1..i, j >= p - 1
          PROVE  ~Overtakes(r[j + 1], r[j])
      <4>1. CASE j = i
        BY <3>2, <3>5, <4>1
      <4>2. CASE j = k
        <5>1. k \in 1..(N - 1) /\ k >= 1 /\ i >= p /\ r[k] = o[k] /\ r[k + 1] = o[i + 1]
          BY <2>2, <3>2, <3>6, <4>2, CandidatesAre
        <5>2. ~Overtakes(s[i + 1], s[i])
          BY <2>2, <5>1 DEF SettledFrom
        <5>3. o[i] # s[i]
          BY <2>6, <2>7, <5>2
        <5>4. o[k] = s[i]
          BY <2>5, <5>1, <5>3
        <5> QED
          BY <2>6, <4>2, <5>1, <5>2, <5>4
      <4>3. CASE j # i /\ j # k
        <5>1. /\ j \in 1..k /\ j \in Candidates /\ j + 1 \in Candidates
              /\ j # i + 1 /\ j + 1 # i /\ j + 1 # i + 1
          BY <2>2, <4>3, CandidatesAre
        <5>2. r[j] = o[j] /\ r[j + 1] = o[j + 1]
          BY <3>2, <4>3, <5>1
        <5> QED
          BY <2>5, <3>6, <5>1, <5>2
      <4> QED
        BY <4>1, <4>2, <4>3
    <3>7. Done(r, i)
      BY <3>6
    <3> QED
      BY <3>3, <3>4, <3>7 DEF r
  <2>8. CASE ~Overtakes(o[i + 1], o[i])
    <3>1. r = o
      BY <2>4, <2>8
    <3>2. Ahead(o, i)
      <4>1. \A j \in (i + 2)..N : j \in (k + 2)..N
        BY <2>2
      <4> QED
        BY <2>5, <4>1
    <3>3. Behind(o, i)
      BY <2>6
    <3>4. Done(o, i)
      <4>1. \A j \in 1..i : j = i \/ j \in 1..k
        BY <2>2
      <4> QED
        BY <2>5, <2>8, <4>1
    <3> QED
      BY <3>1, <3>2, <3>3, <3>4 DEF r
  <2> QED
    BY <2>7, <2>8
<1> HIDE DEF S
<1>5. Nat \subseteq S
  BY <1>3, <1>4, NatInd
<1>6. Passed(a[N - 1], N - 1)
  BY <1>2, <1>5 DEF S
<1>7. a[N - 1] \in Chains
  BY <1>2
<1> QED
  BY <1>1, <1>6, <1>7 DEF SettledFrom

LEMMA DeclaredIs == Declared \in Chains
BY DEF Chains, Declared

\* The passes together settle the chain from its first place.
LEMMA ReorderedIs ==
  ASSUME Logged
  PROVE  Reordered \in Chains /\ SettledFrom(Reordered, 0)
<1> DEFINE g == [q \in Nat \X Chains |-> Pass(q[2])]
           Goes(b) == b = [k \in 0..N |-> IF k = 0 THEN Declared ELSE Pass(b[k - 1])]
           a == CHOOSE b : Goes(b)
<1>1. N \in Nat
  BY CandidatesAre
<1>2. ASSUME NEW t \in Chains
      PROVE  Pass(t) \in Chains
  <2>1. N \in Int /\ SettledFrom(t, N)
    BY <1>1 DEF SettledFrom
  <2> QED
    BY <1>2, <2>1, PassSettles
<1>3. PICK f \in [0..N -> Chains] : Computes(f, Declared, g, N)
  <2>1. g \in [Nat \X Chains -> Chains]
    BY <1>2
  <2> HIDE DEF g
  <2> QED
    BY <1>1, <2>1, DeclaredIs, StepsExist, Zenon
<1>4. f[0] = Declared /\ \A k \in 1..N : f[k] = Pass(f[k - 1])
  <2>1. ASSUME NEW k \in 1..N
        PROVE  f[k] = Pass(f[k - 1])
    <3>1. k \in Nat /\ f[k - 1] \in Chains
      BY <1>1
    <3>2. f[k] = g[<<k, f[k - 1]>>]
      BY <1>3 DEF Computes
    <3> QED
      BY <3>1, <3>2
  <2> QED
    BY <1>3, <2>1 DEF Computes
<1>5. Goes(f)
  <2>1. ASSUME NEW k \in 0..N
        PROVE  f[k] = IF k = 0 THEN Declared ELSE Pass(f[k - 1])
    BY <1>1, <1>4
  <2> QED
    BY <2>1
<1>6. Goes(a)
  <2> HIDE DEF Goes
  <2> QED
    BY <1>5, Zenon
<1>7. Reordered = a[N]
  BY DEF Reordered
<1> HIDE DEF a
<1>8. a[0] = Declared /\ \A k \in 1..N : a[k] = Pass(a[k - 1])
  <2>1. \A k \in 0..N : a[k] = IF k = 0 THEN Declared ELSE Pass(a[k - 1])
    <3> HIDE DEF Goes
    <3>1. Goes(a)
      BY <1>6
    <3> QED
      BY <3>1, Zenon DEF Goes
  <2>2. 0 \in 0..N /\ \A k \in 1..N : k \in 0..N /\ k # 0
    BY <1>1
  <2> QED
    BY <2>1, <2>2
<1> DEFINE S == {k \in Nat : k <= N => a[k] \in Chains /\ SettledFrom(a[k], N - k)}
<1>9. 0 \in S
  <2>1. SettledFrom(a[0], N - 0)
    BY <1>1 DEF SettledFrom
  <2> QED
    BY <1>8, <2>1, DeclaredIs
<1>10. ASSUME NEW k \in Nat, k \in S
       PROVE  k + 1 \in S
  <2>1. SUFFICES ASSUME k + 1 <= N
                 PROVE  a[k + 1] \in Chains /\ SettledFrom(a[k + 1], N - (k + 1))
    OBVIOUS
  <2>2. a[k] \in Chains /\ SettledFrom(a[k], N - k)
    BY <1>1, <1>10, <2>1
  <2>3. a[k + 1] = Pass(a[k])
    <3>1. k + 1 \in 1..N /\ (k + 1) - 1 = k
      BY <1>1, <2>1
    <3> QED
      BY <1>8, <3>1
  <2>4. N - k \in Int /\ (N - k) - 1 = N - (k + 1)
    BY <1>1
  <2>5. Pass(a[k]) \in Chains /\ SettledFrom(Pass(a[k]), (N - k) - 1)
    BY <2>2, <2>4, PassSettles
  <2> QED
    BY <2>3, <2>4, <2>5
<1> HIDE DEF S
<1>11. Nat \subseteq S
  BY <1>9, <1>10, NatInd
<1>12. a[N] \in Chains /\ SettledFrom(a[N], N - N)
  BY <1>1, <1>11 DEF S
<1>13. N - N = 0
  BY <1>1
<1> QED
  BY <1>7, <1>12, <1>13

\* Who explores goes first, and everyone is still in the order once.
LEMMA LeadingIs ==
  ASSUME NEW c \in Candidates
  PROVE  /\ Leading(c) \in [Candidates -> Candidates]
         /\ \A i, j \in Candidates : Leading(c)[i] = Leading(c)[j] => i = j
         /\ \A d \in Candidates : \E i \in Candidates : Leading(c)[i] = d
<1>1. c \in 1..N /\ N \in Nat /\ Candidates = 1..N
  BY CandidatesAre
<1>2. \A i \in 1..N : (IF i = 1 THEN c ELSE IF i <= c THEN i - 1 ELSE i) \in 1..N
  BY <1>1
<1>3. /\ Leading(c) \in [1..N -> 1..N]
      /\ \A i \in 1..N : Leading(c)[i] = IF i = 1 THEN c ELSE IF i <= c THEN i - 1 ELSE i
  BY <1>1, <1>2 DEF Leading
<1>4. ASSUME NEW i \in 1..N, NEW j \in 1..N, Leading(c)[i] = Leading(c)[j]
      PROVE  i = j
  <2>1. /\ Leading(c)[i] = IF i = 1 THEN c ELSE IF i <= c THEN i - 1 ELSE i
        /\ Leading(c)[j] = IF j = 1 THEN c ELSE IF j <= c THEN j - 1 ELSE j
    BY <1>3
  <2>2. (IF i = 1 THEN c ELSE IF i <= c THEN i - 1 ELSE i)
        = (IF j = 1 THEN c ELSE IF j <= c THEN j - 1 ELSE j)
    BY <1>4, <2>1, Zenon
  <2>3. CASE i = 1
    BY <1>1, <2>2, <2>3
  <2>4. CASE i # 1 /\ j = 1
    BY <1>1, <2>2, <2>4
  <2>5. CASE i # 1 /\ j # 1
    BY <1>1, <2>2, <2>5
  <2> QED
    BY <2>3, <2>4, <2>5
<1>5. ASSUME NEW d \in 1..N
      PROVE  \E i \in 1..N : Leading(c)[i] = d
  <2> DEFINE i == IF d = c THEN 1 ELSE IF d < c THEN d + 1 ELSE d
  <2>1. i \in 1..N
    BY <1>1
  <2>2. Leading(c)[i] = d
    BY <1>1, <1>3, <2>1
  <2> QED
    BY <2>1, <2>2
<1> QED
  BY <1>1, <1>3, <1>4, <1>5

LEMMA ExplorerIs == Explorer \subseteq Candidates
BY DEF Explorer

\* Every order a resolve may try has every candidate once.
LEMMA OrdersAre ==
  ASSUME Logged, NEW o \in SeatOrders \cup {Reordered} \cup ExploringOrders
  PROVE  /\ o \in [Candidates -> Candidates]
         /\ \A i, j \in Candidates : o[i] = o[j] => i = j
         /\ \A d \in Candidates : \E i \in Candidates : o[i] = d
<1>1. CASE o = Reordered
  BY <1>1, ReorderedIs DEF Chains
<1>2. CASE o \in ExploringOrders
  <2>1. PICK c \in Explorer : o = Leading(c)
    BY <1>2 DEF ExploringOrders
  <2> QED
    BY <2>1, ExplorerIs, LeadingIs
<1> QED
  BY <1>1, <1>2 DEF SeatOrders

\* A resolve finds someone when there is someone.
LEMMA FirstUsableIs ==
  ASSUME Logged, NEW o \in SeatOrders \cup {Reordered} \cup ExploringOrders,
         usable \subseteq Candidates, usable # {}
  PROVE  FirstUsable(o) \in Candidates
<1> DEFINE K == {k \in Candidates : o[k] \in usable}
           First(k) == o[k] \in usable /\ \A j \in 1..(k - 1) : o[j] \notin usable
<1>1. Candidates = 1..N /\ N \in Nat
  BY CandidatesAre
<1>2. /\ o \in [Candidates -> Candidates]
      /\ \A d \in Candidates : \E i \in Candidates : o[i] = d
  BY OrdersAre
<1>3. K \subseteq Nat /\ K # {}
  <2>1. PICK d \in usable : d \in Candidates
    OBVIOUS
  <2>2. PICK k \in Candidates : o[k] = d
    BY <1>2, <2>1
  <2> QED
    BY <1>1, <2>1, <2>2
<1>4. PICK m \in K : \A k \in K : m <= k
  <2> HIDE DEF K
  <2> QED
    BY <1>3, NatMin, Zenon
<1>5. m \in Candidates /\ First(m)
  <2>1. ASSUME NEW j \in 1..(m - 1), o[j] \in usable
        PROVE  FALSE
    BY <1>1, <1>4, <2>1
  <2> QED
    BY <1>4, <2>1
<1> DEFINE i == CHOOSE k \in Candidates : First(k)
<1>6. i \in Candidates
  <2> HIDE DEF First
  <2> QED
    BY <1>5, Zenon
<1>7. FirstUsable(o) = o[i]
  BY DEF FirstUsable
<1> HIDE DEF i
<1> QED
  BY <1>2, <1>6, <1>7

-----------------------------------------------------------------------------
(* The invariant *)

\* Every row counts its runs up to the bound and no more approvals than runs, and
\* a run about to be recorded has a row to go to.
SeatsInd ==
  /\ log \in [Candidates -> Row]
  /\ \A c \in Candidates : log[c].runs <= MaxRuns /\ log[c].approved <= log[c].runs
  /\ usable \subseteq Candidates
  /\ run \in [at : {"idle", "judge", "record"}, by : 0..N, to : 0..N,
              reworks : 0..MaxReworks, modes : 1..2]
  /\ run.at = "record" => run.to \in Candidates

LEMMA SeatsInitially == SeatsInit => SeatsInd
BY CandidatesAre, OutcomesAssumption
   DEF SeatsInit, SeatsInd, NoRun, Row, Candidates, OutcomesAssumption

LEMMA SeatsStay == SeatsInd /\ [SeatsNext]_seatVars => SeatsInd'
<1> SUFFICES ASSUME SeatsInd, [SeatsNext]_seatVars
             PROVE  SeatsInd'
  OBVIOUS
<1> USE OutcomesAssumption DEF OutcomesAssumption
<1> DEFINE Runs == [at : {"idle", "judge", "record"}, by : 0..N, to : 0..N,
                    reworks : 0..MaxReworks, modes : 1..2]
<1>1. /\ Logged /\ N \in Nat /\ Candidates = 1..N
      /\ usable \subseteq Candidates /\ run \in Runs
  BY CandidatesAre DEF SeatsInd, Logged
<1>2. NoRun \in Runs /\ NoRun.at # "record"
  BY <1>1 DEF NoRun
<1>3. ASSUME UNCHANGED log, usable' \subseteq Candidates, run' \in Runs,
             run'.at = "record" => run'.to \in Candidates
      PROVE  SeatsInd'
  BY <1>3 DEF SeatsInd, Candidates
<1>4. CASE Start
  <2>1. PICK o \in SeatOrders : run' = [NoRun EXCEPT !.at = "judge", !.by = FirstUsable(o)]
    BY <1>4 DEF Start
  <2>2. FirstUsable(o) \in 0..N
    BY <1>1, <1>4, FirstUsableIs DEF Start
  <2>3. run' \in Runs /\ run'.at # "record"
    BY <1>2, <2>1, <2>2 DEF NoRun
  <2> QED
    BY <1>1, <1>3, <1>4, <2>3 DEF Start
<1>5. CASE ChangesMode
  <2>1. run' \in Runs /\ run'.at # "record"
    BY <1>1, <1>5 DEF ChangesMode
  <2> QED
    BY <1>1, <1>3, <1>5, <2>1 DEF ChangesMode
<1>6. CASE Rework
  <2>1. PICK o \in SeatOrders :
          run' = [run EXCEPT !.reworks = @ + 1, !.by = FirstUsable(o)]
    BY <1>6 DEF Rework
  <2>2. FirstUsable(o) \in 0..N /\ run.reworks + 1 \in 0..MaxReworks
    BY <1>1, <1>6, FirstUsableIs DEF Rework
  <2>3. run' \in Runs /\ run'.at # "record"
    BY <1>1, <1>6, <2>1, <2>2 DEF Rework
  <2> QED
    BY <1>1, <1>3, <1>6, <2>3 DEF Rework
<1>7. ASSUME NEW o \in SeatOrders \cup {Reordered} \cup ExploringOrders, Resolve(o)
      PROVE  SeatsInd'
  <2>1. CASE run.modes > 1 \/ usable = {}
    <3>1. run' = NoRun
      BY <1>7, <2>1 DEF Resolve
    <3> QED
      BY <1>1, <1>2, <1>3, <1>7, <3>1 DEF Resolve
  <2>2. CASE ~(run.modes > 1 \/ usable = {})
    <3>1. run' = [run EXCEPT !.at = "record", !.to = FirstUsable(o)]
      BY <1>7, <2>2 DEF Resolve
    <3>2. FirstUsable(o) \in Candidates
      BY <1>1, <2>2, FirstUsableIs
    <3>3. run' \in Runs /\ run'.to \in Candidates
      <4>1. FirstUsable(o) \in 0..N
        BY <1>1, <3>2
      <4> QED
        BY <1>1, <3>1, <3>2, <4>1
    <3> QED
      BY <1>1, <1>3, <1>7, <3>3 DEF Resolve
  <2> QED
    BY <2>1, <2>2
<1>8. CASE ResolveBest
  BY <1>7, <1>8 DEF ResolveBest
<1>9. CASE ResolveExploring
  <2>1. PICK c \in Explorer : Resolve(Leading(c))
    BY <1>9 DEF ResolveExploring
  <2>2. Leading(c) \in ExploringOrders
    BY DEF ExploringOrders
  <2> QED
    BY <1>7, <2>1, <2>2
<1>10. CASE Record
  <2>1. PICK approved \in BOOLEAN, calls \in Costs :
          log' = [log EXCEPT ![run.to] = Recorded(@, approved, calls)]
    BY <1>10 DEF Record
  <2>2. run.to \in Candidates /\ calls \in Nat
    BY <1>10 DEF Record, SeatsInd
  <2> DEFINE row == log[run.to]
             new == Recorded(row, approved, calls)
  <2>3. /\ row \in Row /\ row.runs <= MaxRuns /\ row.approved <= row.runs
    BY <2>2 DEF SeatsInd
  <2> HIDE DEF row
  <2>4. new \in Row /\ new.runs <= MaxRuns /\ new.approved <= new.runs
    <3>1. CASE row.runs >= MaxRuns
      BY <2>3, <3>1 DEF Recorded
    <3>2. CASE ~(row.runs >= MaxRuns)
      <4> DEFINE one == IF approved THEN 1 ELSE 0
      <4>1. one \in 0..1
        OBVIOUS
      <4>2. new = [runs |-> row.runs + 1, approved |-> row.approved + one,
                   calls |-> row.calls + calls]
        BY <3>2 DEF Recorded
      <4> HIDE DEF one, new
      <4> QED
        BY <2>2, <2>3, <3>2, <4>1, <4>2 DEF Row
    <3> QED
      BY <3>1, <3>2
  <2>5. log' = [log EXCEPT ![run.to] = new]
    BY <2>1 DEF row
  <2> HIDE DEF new
  <2>6. /\ log' \in [Candidates -> Row]
        /\ \A c \in Candidates : log'[c].runs <= MaxRuns /\ log'[c].approved <= log'[c].runs
    BY <2>2, <2>4, <2>5 DEF SeatsInd
  <2>7. run' = NoRun /\ UNCHANGED usable
    BY <1>10 DEF Record
  <2> QED
    BY <1>1, <1>2, <2>6, <2>7 DEF SeatsInd, Candidates
<1>11. CASE Fail
  BY <1>1, <1>3, <1>11 DEF Fail, SeatsInd
<1>12. CASE Recover
  BY <1>1, <1>3, <1>12 DEF Recover, SeatsInd
<1>13. CASE UNCHANGED seatVars
  BY <1>1, <1>3, <1>13 DEF seatVars, SeatsInd
<1> QED
  BY <1>4, <1>5, <1>6, <1>8, <1>9, <1>10, <1>11, <1>12, <1>13 DEF SeatsNext

\* The rows being well formed, the passes settle and leave the unmeasured alone.
LEMMA SeatsFollow == SeatsInd => SeatsInv
<1> SUFFICES ASSUME SeatsInd
             PROVE  SeatsInv
  OBVIOUS
<1>1. Logged
  BY DEF SeatsInd, Logged
<1>2. SeatsTypeOK
  <2>1. ASSUME NEW c \in Candidates
        PROVE  /\ log[c].runs \in 0..MaxRuns
               /\ log[c].approved \in 0..log[c].runs
               /\ log[c].calls \in Nat
    <3>1. log[c] \in Row /\ log[c].runs <= MaxRuns /\ log[c].approved <= log[c].runs
      BY DEF SeatsInd
    <3>2. MaxRuns \in Nat
      BY OutcomesAssumption DEF OutcomesAssumption
    <3> QED
      BY <3>1, <3>2 DEF Row
  <2>2. \A o \in SeatOrders : /\ o \in [Candidates -> Candidates]
                             /\ \A i, j \in Candidates : o[i] = o[j] => i = j
    BY <1>1, OrdersAre
  <2> QED
    BY <2>1, <2>2 DEF SeatsTypeOK, SeatsInd
<1>3. UnmeasuredStay
  BY <1>1, ReorderedIs DEF UnmeasuredStay, Chains
<1>4. Settled
  BY <1>1, ReorderedIs DEF Settled, SettledFrom
<1> QED
  BY <1>2, <1>3, <1>4 DEF SeatsInv

\* Whatever the records say of each other, circles included, the passes settle,
\* move no candidate without a record, and keep every candidate in the order
\* once.
THEOREM SeatsHold == SeatsSpec => []SeatsInv
<1>1. SeatsInit => SeatsInd
  BY SeatsInitially
<1>2. SeatsInd /\ [SeatsNext]_seatVars => SeatsInd'
  BY SeatsStay
<1>3. SeatsInd => SeatsInv
  BY SeatsFollow
<1> QED
  BY <1>1, <1>2, <1>3, PTL DEF SeatsSpec

=============================================================================
