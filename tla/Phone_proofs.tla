---------------------------- MODULE Phone_proofs ----------------------------
(***************************************************************************)
(* Proofs about the phone.  PhoneGuard: for every set of screens a phone   *)
(* may show, of any content, and any number of windows, captures and       *)
(* steps.  SocketPhone: for every set of threads and every number of calls.*)
(***************************************************************************)
EXTENDS SocketPhone, PhoneGuard, SequenceTheorems, TLAPS

-----------------------------------------------------------------------------
(* What the tools do to the phone *)

Packages == {""} \cup {s.app.package : s \in Screens}
Sent == [what : {"tap_node", "blind", "tap", "swipe", "scroll", "type", "exit", "enter"},
         at : Nat, app : Packages]

\* What is in front is a screen of the window opened last.
ScreenInv ==
  /\ screen.win = windows /\ screen.floor \in Kinds
  /\ screen.app.package \in Packages \ {""}

\* What is held is a capture of an app, judged.
SnapInv ==
  /\ snap.id # 0 => snap.s.app.package \in Packages \ {""}
  /\ memory.kind \in {"none", "cart", "checkout", "payment"}

\* A window that showed itself to be a payment page is remembered as one as
\* long as it is in front, and a capture of one was judged as one.
PaidInv ==
  /\ \A k \in paid : k[2] \in 1..windows
  /\ page_key(screen) \in paid => memory = [key |-> page_key(screen), kind |-> "payment"]
  /\ snap.id # 0 /\ page_key(snap.s) \in paid => page = "payment"

\* What has been sent was allowed on what is held.
OpInv ==
  /\ tool = Idle => op = NoOp /\ ran = <<>>
  /\ op.touches =>
       /\ snap.id # 0 /\ page # "payment" /\ ~Refused(snap.s)
       /\ op.what = "blind" => op.fresh /\ look.id = snap.id /\ ~look.pays

\* A step is due on a later capture than every step before it was sent on, of
\* the app they were sent to; while one is out, that app is in `before`.
RanInv ==
  /\ ran \in Seq(Sent)
  /\ \A i \in DOMAIN ran : ran[i].at <= captures
  /\ op = NoOp => \A i \in DOMAIN ran :
       ran[i].at < snap.id /\ (ran[i].what # "enter" => ran[i].app = Package(snap))
  /\ op # NoOp => \A i \in DOMAIN ran :
       ran[i].what # "enter" /\ before # "" => ran[i].app = before

GuardInv ==
  /\ GuardTypes /\ ScreenInv /\ SnapInv /\ PaidInv /\ OpInv /\ RanInv
  /\ StepsStayOnTheirScreen

-----------------------------------------------------------------------------
(* What the guard's verdicts do *)

LEMMA KindsAre == Kinds = {"none", "cart", "checkout", "payment", "secure"}
<1>1. 1..5 = {1, 2, 3, 4, 5}
  OBVIOUS
<1>2. /\ KINDS[1] = "none" /\ KINDS[2] = "cart" /\ KINDS[3] = "checkout"
      /\ KINDS[4] = "payment" /\ KINDS[5] = "secure"
  BY DEF KINDS
<1> QED BY <1>1, <1>2 DEF Kinds

LEMMA Ranks ==
  /\ Rank("none") = 1 /\ Rank("cart") = 2 /\ Rank("checkout") = 3
  /\ Rank("payment") = 4 /\ Rank("secure") = 5
<1>1. /\ KINDS[1] = "none" /\ KINDS[2] = "cart" /\ KINDS[3] = "checkout"
      /\ KINDS[4] = "payment" /\ KINDS[5] = "secure"
  BY DEF KINDS
<1>2. \A i \in 1..5 : i \in {1, 2, 3, 4, 5}
  OBVIOUS
<1>3. ASSUME NEW k, NEW r \in 1..5, KINDS[r] = k, \A i \in 1..5 : KINDS[i] = k => i = r
      PROVE  Rank(k) = r
  BY <1>3 DEF Rank
<1>4. Rank("none") = 1
  BY <1>1, <1>2, <1>3
<1>5. Rank("cart") = 2
  BY <1>1, <1>2, <1>3
<1>6. Rank("checkout") = 3
  BY <1>1, <1>2, <1>3
<1>7. Rank("payment") = 4
  BY <1>1, <1>2, <1>3
<1>8. Rank("secure") = 5
  BY <1>1, <1>2, <1>3
<1> QED BY <1>4, <1>5, <1>6, <1>7, <1>8

\* Only a screen that may not be touched at all outranks a payment page.
LEMMA PaymentOutranks ==
  ASSUME NEW k \in {"none", "cart", "checkout", "payment"}
  PROVE  stricter("payment", k) = "payment" /\ stricter(k, "payment") = "payment"
<1>1. Rank(k) \in 1..4 /\ (Rank(k) = 4 => k = "payment")
  BY Ranks
<1>2. Rank("payment") = 4
  BY Ranks
<1> QED BY <1>1, <1>2 DEF stricter

LEMMA StricterIsOne ==
  ASSUME NEW a, NEW b
  PROVE  stricter(a, b) \in {a, b}
BY DEF stricter

LEMMA NowIsPlain ==
  ASSUME NEW on
  PROVE  KindNow(on) \in {"none", "cart", "checkout", "payment"}
BY DEF KindNow

Remembered == {"none", "cart", "checkout", "payment"}

\* A page is of a kind, and what is remembered of its window is never that it
\* may not be touched.
LEMMA VerdictType ==
  ASSUME NEW s, s.floor \in Kinds, NEW m, m.kind \in Remembered
  PROVE  /\ classify_page(s, m).kind \in Kinds
         /\ classify_page(s, m).memory.kind \in Remembered
<1> DEFINE v == classify_page(s, m)
<1>1. CASE secure_reason(s) \/ s.floor = "secure"
  BY <1>1, KindsAre DEF classify_page, NoMemory, Remembered
<1>2. CASE ~(secure_reason(s) \/ s.floor = "secure")
  <2>1. PICK k : v = Verdict(s, k) /\ k \in Remembered
    <3>1. s.floor \in Remembered
      BY <1>2, KindsAre DEF Remembered
    <3>2. \A on : KindNow(on) \in Remembered
      BY NowIsPlain DEF Remembered
    <3> DEFINE on == page_features(s)
               now == KindNow(on)
               same == page_key(s) # <<>> /\ m.key = page_key(s)
               other == \/ "listing" \in on
                        \/ "product_page" \in on /\ "final_pay_control" \notin on
                        \/ m.kind = "payment" /\ now = "cart" /\ payment_score(on) <= Line - 2
               kind == stricter(IF same /\ ~other THEN stricter(now, m.kind) ELSE now, s.floor)
    <3>3. v = Verdict(s, kind)
      BY <1>2 DEF classify_page
    <3>4. now \in Remembered /\ stricter(now, m.kind) \in Remembered
      BY <3>2, StricterIsOne
    <3>5. kind \in Remembered
      <4> HIDE DEF now, same, other
      <4> QED BY <3>1, <3>4, StricterIsOne
    <3> QED BY <3>3, <3>5
  <2> QED BY <2>1, KindsAre DEF Verdict, NoMemory, Remembered
<1> QED BY <1>1, <1>2

\* A capture that leaves its window among the payment pages is judged to be of
\* one, and the window is remembered as one.
LEMMA PaymentIsJudged ==
  ASSUME NEW s, s.floor \in Kinds, s.win # 0, NEW m, m.kind \in Remembered,
         page_key(s) \in paid => m = [key |-> page_key(s), kind |-> "payment"],
         page_key(s) \in Telling(s)
  PROVE  /\ classify_page(s, m).kind = "payment"
         /\ classify_page(s, m).memory = [key |-> page_key(s), kind |-> "payment"]
<1> DEFINE on == page_features(s)
           now == KindNow(on)
           same == page_key(s) # <<>> /\ m.key = page_key(s)
           other == \/ "listing" \in on
                    \/ "product_page" \in on /\ "final_pay_control" \notin on
                    \/ m.kind = "payment" /\ now = "cart" /\ payment_score(on) <= Line - 2
           kept == IF same /\ ~other THEN stricter(now, m.kind) ELSE now
<1>1. ~(secure_reason(s) \/ s.floor = "secure")
  BY DEF Telling, Refused
<1>2. classify_page(s, m) = Verdict(s, stricter(kept, s.floor))
  BY <1>1 DEF classify_page
<1>3. page_key(s) # <<>>
  BY DEF page_key
<1>4. now \in Remembered /\ s.floor \in Remembered
  BY <1>1, KindsAre, NowIsPlain DEF Remembered
<1>5. kept = "payment"
  <2>1. CASE now = "payment"
    <3> HIDE DEF now, same, other
    <3> QED BY <2>1, PaymentOutranks DEF Remembered
  <2>2. CASE now # "payment"
    <3>1. page_key(s) \in paid /\ now # "cart" /\ on \cap {"listing", "product_page"} = {}
      BY <1>1, <2>2 DEF Telling, Refused
    <3>2. same /\ m.kind = "payment"
      BY <1>3, <3>1
    <3>3. ~other
      BY <3>1
    <3> HIDE DEF now, same, other
    <3> QED BY <1>4, <3>2, <3>3, PaymentOutranks DEF Remembered
  <2> QED BY <2>1, <2>2
<1> HIDE DEF kept
<1>6. stricter(kept, s.floor) = "payment"
  BY <1>4, <1>5, PaymentOutranks DEF Remembered
<1> QED BY <1>2, <1>3, <1>6 DEF Verdict

-----------------------------------------------------------------------------
(* What is held of the screen *)

Seeing ==
  /\ windows \in 1..MaxWindows /\ captures \in 0..MaxCaptures
  /\ snap.id \in 0..captures /\ page \in Kinds /\ memory.kind \in Kinds
  /\ ScreenInv /\ SnapInv /\ PaidInv

LEMMA Bounds ==
  ASSUME GuardAssumption, Seeing
  PROVE  /\ MaxWindows \in Nat /\ MaxCaptures \in Nat
         /\ windows \in Nat /\ windows # 0 /\ windows <= MaxWindows
         /\ captures \in Nat /\ captures <= MaxCaptures
<1>1. MaxWindows \in Nat /\ MaxCaptures \in Nat
  BY DEF GuardAssumption
<1>2. windows \in 1..MaxWindows /\ captures \in 0..MaxCaptures
  BY DEF Seeing
<1> QED BY <1>1, <1>2

LEMMA ShownIs ==
  ASSUME GuardAssumption, NEW s \in Screens, NEW w \in Nat
  PROVE  /\ Shows(s, w).win = w /\ Shows(s, w).app = s.app /\ Shows(s, w).floor \in Kinds
         /\ s.app.package \in Packages \ {""}
<1>1. {"app", "win", "floor"} \subseteq DOMAIN s /\ s.floor \in Kinds /\ s.app.package # ""
  BY DEF GuardAssumption
<1>2. s.app.package \in Packages
  BY DEF Packages
<1> QED BY <1>1, <1>2 DEF Shows

\* A new window is of no page that was paid on.
LEMMA NewWindow ==
  ASSUME GuardAssumption, Seeing, windows < MaxWindows, windows' = windows + 1,
         NEW s \in Screens, screen' = Shows(s, windows + 1),
         UNCHANGED <<captures, seen, paid>>
  PROVE  Seeing'
<1>1. windows' \in 1..MaxWindows /\ windows' = windows + 1 /\ windows + 1 \in Nat
  BY Bounds
<1>2. ScreenInv'
  BY <1>1, ShownIs DEF ScreenInv
<1>3. PaidInv'
  <2>1. \A k \in paid : k[2] \in 1..windows'
    BY DEF Seeing, PaidInv
  <2>2. page_key(screen')[2] = windows + 1
    <3>1. windows + 1 # 0
      BY Bounds
    <3>2. screen'.win = windows + 1
      BY <1>1, <1>2 DEF ScreenInv
    <3> QED BY <3>1, <3>2 DEF page_key
  <2>3. page_key(screen') \notin paid
    BY <2>2, Bounds DEF Seeing, PaidInv
  <2> QED BY <2>1, <2>3 DEF Seeing, PaidInv, seen
<1> QED BY <1>1, <1>2, <1>3 DEF Seeing, SnapInv, seen

LEMMA SameWindow ==
  ASSUME GuardAssumption, Seeing, NEW s \in Screens, s.app = screen.app,
         screen' = Shows(s, windows), UNCHANGED <<windows, captures, seen, paid>>
  PROVE  Seeing'
<1>1. windows \in Nat \ {0}
  BY Bounds
<1>2. ScreenInv'
  BY <1>1, ShownIs DEF ScreenInv
<1>3. page_key(screen') = page_key(screen)
  BY <1>1, <1>2, ShownIs DEF page_key, Seeing, ScreenInv
<1>4. PaidInv'
  BY <1>3 DEF Seeing, PaidInv, seen
<1> QED BY <1>2, <1>4 DEF Seeing, SnapInv, seen

\* A capture is judged, and leaves its window among the payment pages only when
\* it was judged to be one.
LEMMA Kept ==
  ASSUME GuardAssumption, Seeing, keep, UNCHANGED real
  PROVE  /\ Seeing'
         /\ captures' = captures + 1 /\ snap' = [id |-> captures', s |-> screen]
         /\ Package(snap') # ""
<1>1. /\ captures' = captures + 1 /\ captures' \in 0..MaxCaptures
      /\ snap' = [id |-> captures', s |-> screen] /\ snap'.id # 0 /\ snap'.id \in 0..captures'
  BY Bounds DEF keep
<1>2. /\ page' = classify_page(screen, memory).kind
      /\ memory' = classify_page(screen, memory).memory
  BY DEF keep, judge
<1>3. screen.floor \in Kinds /\ screen.win # 0 /\ memory.kind \in Remembered
  BY Bounds DEF Seeing, ScreenInv, SnapInv, Remembered
<1>4. page' \in Kinds /\ memory'.kind \in Remembered
  BY <1>2, <1>3, VerdictType
<1>5. SnapInv'
  BY <1>1, <1>4 DEF SnapInv, Remembered, Seeing, ScreenInv
<1>6. ScreenInv'
  BY DEF Seeing, ScreenInv, real
<1>7. PaidInv'
  <2>1. page_key(screen)[2] = windows
    BY <1>3 DEF page_key, Seeing, ScreenInv
  <2>2. paid' = Telling(screen) /\ paid' \subseteq paid \cup {page_key(screen)}
    BY DEF keep, Telling
  <2>3. \A k \in paid' : k[2] \in 1..windows'
    BY <2>1, <2>2 DEF Seeing, PaidInv, real
  <2>4. ASSUME page_key(screen) \in paid'
        PROVE  page' = "payment" /\ memory' = [key |-> page_key(screen), kind |-> "payment"]
    <3>1. page_key(screen) \in paid => memory = [key |-> page_key(screen), kind |-> "payment"]
      BY DEF Seeing, PaidInv
    <3> QED BY <1>2, <1>3, <2>2, <2>4, <3>1, PaymentIsJudged
  <2> QED BY <1>1, <2>3, <2>4 DEF PaidInv, real
<1>8. Package(snap') # ""
  BY <1>1 DEF Package, Seeing, ScreenInv
<1>9. memory'.kind \in Kinds
  BY <1>4, KindsAre DEF Remembered
<1> QED BY <1>1, <1>4, <1>5, <1>6, <1>7, <1>8, <1>9 DEF Seeing, real

LEMMA NotKept ==
  ASSUME GuardAssumption, Seeing, keep_none, UNCHANGED real
  PROVE  Seeing' /\ captures' = captures + 1 /\ snap'.id = 0
<1>1. captures' = captures + 1 /\ captures' \in 0..MaxCaptures /\ snap'.id = 0 /\ page' = "none"
  BY Bounds DEF keep_none, NoSnap
<1>2. SnapInv'
  BY <1>1 DEF Seeing, SnapInv, keep_none
<1>3. PaidInv'
  BY <1>1 DEF Seeing, PaidInv, keep_none, real
<1>4. ScreenInv'
  BY DEF Seeing, ScreenInv, real
<1>5. memory' = memory /\ page' \in Kinds /\ snap'.id \in 0..captures'
  BY <1>1, KindsAre, Bounds DEF keep_none
<1> QED BY <1>1, <1>2, <1>3, <1>4, <1>5 DEF Seeing, real

LEMMA AsHeld ==
  ASSUME Seeing, UNCHANGED <<real, captures, snap, page, memory, paid>>
  PROVE  Seeing'
BY DEF Seeing, ScreenInv, SnapInv, PaidInv, real

LEMMA SeeingIsPart == ASSUME GuardInv PROVE Seeing
BY DEF GuardInv, GuardTypes, Seeing

LEMMA TypeFromSeeing ==
  ASSUME Seeing', look'.id \in 0..captures', left' \in 0..MAX_STEPS,
         tool' \in {Idle, "phone_act", "phone_do", "phone_commit", "phone_open"}
  PROVE  GuardTypes' /\ ScreenInv' /\ SnapInv' /\ PaidInv'
BY DEF GuardTypes, Seeing

-----------------------------------------------------------------------------
(* What is sent *)

\* One thing more is sent, on the screen held, on the first screen read at all,
\* or, of Enter, on the screen as it is by then.
LEMMA SendStep ==
  ASSUME GuardAssumption, GuardInv, op = NoOp, tool # Idle,
         NEW what \in {"tap_node", "blind", "tap", "swipe", "scroll", "type", "exit", "enter"},
         NEW touches \in BOOLEAN,
         SendOp(what, touches),
         Held \/ (snap.id = 0 /\ keep) \/ (what = "enter" /\ keep),
         touches => snap'.id # 0 /\ page' # "payment" /\ ~Refused(snap'.s),
         what = "blind" => look.id = snap'.id /\ ~look.pays
  PROVE  GuardInv'
<1> DEFINE new == [what |-> what, at |-> snap'.id, app |-> Package(snap')]
<1>1. Seeing /\ UNCHANGED real
  BY SeeingIsPart DEF SendOp
<1>2. Seeing'
  BY <1>1, AsHeld, Kept DEF Held, seen
<1>3. captures \in Nat /\ captures' \in Nat /\ captures <= captures'
  <2>1. captures' = captures \/ captures' = captures + 1
    BY DEF Held, keep
  <2> QED BY <1>1, <2>1, Bounds
<1>4. snap'.id \in Nat /\ snap'.id <= captures'
  <2>1. snap'.id \in 0..captures'
    BY <1>2 DEF Seeing
  <2> QED BY <2>1, <1>3
<1>5. look'.id \in 0..captures'
  <2>1. look.id \in 0..captures /\ look' = look
    BY DEF GuardInv, GuardTypes, SendOp
  <2> QED BY <2>1, <1>3
<1>6. GuardTypes' /\ ScreenInv' /\ SnapInv' /\ PaidInv'
  BY <1>2, <1>5, TypeFromSeeing DEF GuardInv, GuardTypes, SendOp
<1>7. OpInv'
  <2>1. /\ op'.what = what /\ op'.touches = touches /\ op'.fresh = (look.id = snap'.id)
        /\ tool' = tool /\ look' = look
    BY DEF SendOp
  <2> QED BY <2>1 DEF OpInv
<1>8. ran \in Seq(Sent) /\ ran' = Append(ran, new) /\ new \in Sent /\ op' # NoOp
  <2>1. Package(snap') \in Packages
    BY <1>2 DEF Package, Packages, Seeing, SnapInv
  <2>2. new \in Sent
    BY <1>4, <2>1 DEF Sent
  <2>3. op'.what = what
    BY DEF SendOp
  <2>4. op' # NoOp
    BY <2>3 DEF NoOp
  <2> QED BY <2>2, <2>4 DEF SendOp, GuardInv, RanInv
<1>9. /\ ran' \in Seq(Sent) /\ Len(ran') = Len(ran) + 1 /\ Len(ran) \in Nat
      /\ DOMAIN ran = 1..Len(ran) /\ DOMAIN ran' = 1..Len(ran')
      /\ \A i \in DOMAIN ran : ran'[i] = ran[i]
      /\ ran'[Len(ran) + 1] = new
  <2> HIDE DEF new
  <2> QED BY <1>8
<1>10. ASSUME NEW i \in DOMAIN ran
       PROVE  /\ ran[i].at \in Nat /\ ran[i].at <= captures /\ ran[i].at < snap.id
              /\ ran[i].what # "enter" => ran[i].app = Package(snap)
  <2>1. ran[i] \in Sent
    BY <1>8, ElementOfSeq, <1>9
  <2>2. ran[i].at \in Nat
    BY <2>1 DEF Sent
  <2> QED BY <2>2 DEF GuardInv, RanInv
\* Of the steps before, those on a screen left stay where they were.
<1>11. before' = Package(snap)
  BY DEF SendOp
<1>12. what # "enter" => Package(snap') = Package(snap) \/ snap.id = 0
  BY DEF Held, seen
<1>13. snap.id = 0 => DOMAIN ran = {} /\ Package(snap) = ""
  <2>1. ASSUME snap.id = 0, NEW i \in DOMAIN ran PROVE FALSE
    BY <2>1, <1>10
  <2> QED BY <2>1 DEF Package
<1>14. RanInv'
  <2>1. \A i \in DOMAIN ran' : ran'[i].at <= captures'
    BY <1>3, <1>4, <1>9, <1>10
  <2>2. ASSUME NEW i \in DOMAIN ran', ran'[i].what # "enter", before' # ""
        PROVE  ran'[i].app = before'
    <3>1. CASE i \in DOMAIN ran
      BY <3>1, <2>2, <1>9, <1>10, <1>11
    <3>2. CASE i = Len(ran) + 1
      <4>1. ran'[i] = new
        BY <3>2, <1>9
      <4>2. ran'[i].what = what /\ ran'[i].app = Package(snap')
        BY <4>1
      <4>3. Package(snap') = Package(snap) \/ snap.id = 0
        BY <2>2, <4>2, <1>12
      <4> QED BY <2>2, <4>2, <4>3, <1>11, <1>13
    <3> QED BY <3>1, <3>2, <1>9
  <2> QED BY <2>1, <2>2, <1>8, <1>9 DEF RanInv
<1>15. StepsStayOnTheirScreen'
  <2>1. ASSUME NEW i \in DOMAIN ran', NEW j \in DOMAIN ran', i < j,
               ran'[i].what # "enter", ran'[j].what # "enter"
        PROVE  ran'[i].at # ran'[j].at /\ ran'[i].app = ran'[j].app
    <3>1. i \in DOMAIN ran
      BY <2>1, <1>9
    <3>2. CASE j \in DOMAIN ran
      BY <2>1, <3>1, <3>2, <1>9 DEF GuardInv, StepsStayOnTheirScreen
    <3>3. CASE j = Len(ran) + 1
      <4>1. ran'[j].what = what
        BY <3>3, <1>9
      <4>2. what # "enter" /\ snap.id # 0
        BY <2>1, <3>1, <4>1, <1>13
      <4>3. snap' = snap
        BY <4>2 DEF Held, seen
      <4>4. ran'[i].at < snap.id /\ ran'[i].app = Package(snap) /\ ran'[i].at \in Nat
        BY <2>1, <3>1, <1>9, <1>10
      <4>5. ran'[j].at = snap.id /\ ran'[j].app = Package(snap)
        BY <3>3, <1>9, <4>3
      <4>6. snap.id \in Nat
        BY <1>4, <4>3
      <4> QED BY <4>4, <4>5, <4>6
    <3> QED BY <3>2, <3>3, <1>9
  <2> QED BY <2>1 DEF StepsStayOnTheirScreen
<1> QED BY <1>6, <1>7, <1>14, <1>15 DEF GuardInv

\* A call that is over leaves nothing of itself.
LEMMA OverStep ==
  ASSUME Seeing', look'.id \in 0..captures', Over, MAX_STEPS \in Nat
  PROVE  GuardInv'
<1>1. tool' = Idle /\ left' = 0 /\ op' = NoOp /\ ran' = << >>
  BY DEF Over
<1>2. GuardTypes' /\ ScreenInv' /\ SnapInv' /\ PaidInv'
  <2>1. left' \in 0..MAX_STEPS
    BY <1>1
  <2> QED BY <1>1, <2>1, TypeFromSeeing
<1>3. OpInv' /\ StepsStayOnTheirScreen' /\ RanInv'
  BY <1>1 DEF OpInv, NoOp, StepsStayOnTheirScreen, RanInv
<1> QED BY <1>2, <1>3 DEF GuardInv

\* Between two calls, nothing has been sent.
LEMMA IdleStep ==
  ASSUME GuardInv, tool = Idle, Seeing', look'.id \in 0..captures',
         UNCHANGED <<op, ran>>, left' \in 0..MAX_STEPS,
         tool' \in {Idle, "phone_act", "phone_do", "phone_commit"}
  PROVE  GuardInv'
<1>1. op' = NoOp /\ ran' = << >>
  BY DEF GuardInv, OpInv
<1>2. GuardTypes' /\ ScreenInv' /\ SnapInv' /\ PaidInv'
  BY TypeFromSeeing
<1>3. OpInv' /\ StepsStayOnTheirScreen' /\ RanInv'
  BY <1>1 DEF OpInv, NoOp, StepsStayOnTheirScreen, RanInv
<1> QED BY <1>2, <1>3 DEF GuardInv

-----------------------------------------------------------------------------
(* Every step *)

LEMMA NothingRan == ran = << >> => RanInv /\ StepsStayOnTheirScreen
<1> SUFFICES ASSUME ran = << >> PROVE RanInv /\ StepsStayOnTheirScreen
  OBVIOUS
<1>1. ran \in Seq(Sent) /\ DOMAIN ran = {}
  OBVIOUS
<1>2. RanInv
  BY <1>1 DEF RanInv
<1>3. StepsStayOnTheirScreen
  BY <1>1 DEF StepsStayOnTheirScreen
<1> QED BY <1>2, <1>3

LEMMA NothingRanNext == ran' = << >> => RanInv' /\ StepsStayOnTheirScreen'
<1> SUFFICES ASSUME ran' = << >> PROVE RanInv' /\ StepsStayOnTheirScreen'
  OBVIOUS
<1>1. ran' \in Seq(Sent) /\ DOMAIN ran' = {}
  OBVIOUS
<1>2. RanInv'
  BY <1>1 DEF RanInv
<1>3. StepsStayOnTheirScreen'
  BY <1>1 DEF StepsStayOnTheirScreen
<1> QED BY <1>2, <1>3

LEMMA InitInd == GuardAssumption /\ GuardInit => GuardInv
<1> SUFFICES ASSUME GuardAssumption, GuardInit PROVE GuardInv
  OBVIOUS
<1>1. /\ screen.win = 1 /\ screen.floor \in Kinds /\ screen.app.package \in Packages \ {""}
      /\ windows = 1 /\ captures = 0 /\ page = "none" /\ memory = NoMemory /\ paid = {}
      /\ snap.id = 0 /\ look.id = 0 /\ left = 0 /\ tool = Idle /\ op = NoOp /\ ran = << >>
  BY ShownIs DEF GuardInit, NoSnap, GuardAssumption, Packages
<1>2. MaxWindows \in Nat \ {0} /\ MaxCaptures \in Nat /\ MAX_STEPS \in Nat \ {0}
  BY DEF GuardAssumption
<1>3. GuardTypes
  <2>1. 1 \in 1..MaxWindows /\ 0 \in 0..MaxCaptures /\ 0 \in 0..MAX_STEPS /\ 0 \in 0..0
    BY <1>2
  <2>2. page \in Kinds /\ memory.kind \in Kinds
    BY <1>1, KindsAre DEF NoMemory
  <2> QED BY <1>1, <2>1, <2>2 DEF GuardTypes
<1>4. ScreenInv /\ SnapInv /\ PaidInv
  BY <1>1 DEF ScreenInv, SnapInv, PaidInv, NoMemory
<1>5. OpInv
  BY <1>1 DEF OpInv, NoOp
<1>6. RanInv /\ StepsStayOnTheirScreen
  BY <1>1, NothingRan
<1> QED BY <1>3, <1>4, <1>5, <1>6 DEF GuardInv

\* The screen moves on under whatever runs; nothing else does.
LEMMA DriftStep == ASSUME GuardAssumption, GuardInv, Drift PROVE GuardInv'
<1>1. Seeing /\ UNCHANGED <<captures, seen, look, noted, work, paid>>
  BY SeeingIsPart DEF Drift
<1>2. Seeing'
  BY <1>1, SameWindow, NewWindow DEF Drift, Moves
<1>3. /\ UNCHANGED <<captures, snap, unread, page, memory, look, tool, left, before, op, ran>>
  BY <1>1 DEF seen, work
<1>4. GuardTypes' /\ ScreenInv' /\ SnapInv' /\ PaidInv'
  <2>1. look'.id \in 0..captures' /\ left' \in 0..MAX_STEPS
    BY <1>3 DEF GuardInv, GuardTypes
  <2>2. tool' \in {Idle, "phone_act", "phone_do", "phone_commit", "phone_open"}
    BY <1>3 DEF GuardInv, GuardTypes
  <2> QED BY <1>2, <2>1, <2>2, TypeFromSeeing
<1>5. OpInv'
  BY <1>3 DEF GuardInv, OpInv
<1>6. RanInv'
  BY <1>3 DEF GuardInv, RanInv, Package
<1>7. StepsStayOnTheirScreen'
  BY <1>3 DEF GuardInv, StepsStayOnTheirScreen
<1> QED BY <1>4, <1>5, <1>6, <1>7 DEF GuardInv

\* The screen read, refused or lost: what is held of it stays in order.
LEMMA ReadStep ==
  ASSUME GuardAssumption, GuardInv, UNCHANGED real,
         ScreenRead \/ ScreenRefused \/ ScreenLost
  PROVE  /\ Seeing' /\ captures \in Nat /\ captures' \in Nat /\ captures <= captures'
         /\ look.id \in 0..captures' /\ (ScreenRead => snap'.id = captures')
<1>1. Seeing /\ captures \in Nat
  BY SeeingIsPart, Bounds
<1>2. Seeing' /\ (captures' = captures \/ captures' = captures + 1)
  <2>1. CASE ScreenRead
    BY <1>1, <2>1, Kept DEF ScreenRead
  <2>2. CASE ScreenRefused
    BY <1>1, <2>2, NotKept DEF ScreenRefused
  <2>3. CASE ScreenLost
    BY <1>1, <2>3, AsHeld DEF ScreenLost, seen
  <2> QED BY <2>1, <2>2, <2>3
<1>3. captures' \in Nat /\ captures <= captures'
  BY <1>1, <1>2
<1>4. look.id \in 0..captures'
  <2>1. look.id \in 0..captures
    BY DEF GuardInv, GuardTypes
  <2> QED BY <1>1, <1>3, <2>1
<1>5. ScreenRead => snap'.id = captures'
  BY DEF ScreenRead, keep
<1> QED BY <1>1, <1>2, <1>3, <1>4, <1>5

LEMMA LookStep == ASSUME GuardAssumption, GuardInv, phone_screen \/ phone_look PROVE GuardInv'
<1>1. /\ tool = Idle /\ UNCHANGED real /\ UNCHANGED work
      /\ ScreenRead \/ ScreenRefused \/ ScreenLost
  BY DEF phone_screen, phone_look
<1>2. /\ Seeing' /\ captures' \in Nat /\ look.id \in 0..captures'
      /\ ScreenRead => snap'.id = captures'
  BY <1>1, ReadStep
<1>3. look' = look \/ (ScreenRead /\ look'.id = snap'.id)
  BY DEF phone_screen, phone_look
<1>4. look'.id \in 0..captures'
  BY <1>2, <1>3
<1>5. UNCHANGED <<op, ran, tool, left>> /\ left \in 0..MAX_STEPS
  BY <1>1 DEF work, GuardInv, GuardTypes
<1> QED BY <1>1, <1>2, <1>4, <1>5, IdleStep

LEMMA BeginStep ==
  ASSUME GuardAssumption, GuardInv, NEW t \in {"phone_act", "phone_do", "phone_commit"}, Begin(t)
  PROVE  GuardInv'
<1>1. /\ tool = Idle /\ UNCHANGED real /\ UNCHANGED <<captures, seen, look, op, ran, paid>>
      /\ tool' = t
  BY DEF Begin
<1>2. Seeing'
  BY <1>1, SeeingIsPart, AsHeld DEF seen
<1>3. look'.id \in 0..captures'
  BY <1>1 DEF GuardInv, GuardTypes
<1>4. left' \in 0..MAX_STEPS
  <2>1. MAX_STEPS \in Nat \ {0}
    BY DEF GuardAssumption
  <2>2. left' \in 1..MAX_STEPS \/ left' = 1
    BY DEF Begin
  <2> QED BY <2>1, <2>2
<1> QED BY <1>1, <1>2, <1>3, <1>4, IdleStep

LEMMA OpenStep == ASSUME GuardAssumption, GuardInv, phone_open PROVE GuardInv'
<1>1. tool = Idle /\ UNCHANGED <<captures, seen, look, noted, paid>> /\ Seeing
  BY SeeingIsPart DEF phone_open
<1>2. look'.id \in 0..captures'
  BY <1>1 DEF GuardInv, GuardTypes
<1>3. CASE UNCHANGED <<real, work>>
  <2>1. Seeing'
    BY <1>1, <1>3, AsHeld DEF seen
  <2> QED BY <1>1, <1>2, <1>3, <2>1, IdleStep DEF work, GuardInv, GuardTypes
<1>4. CASE /\ windows < MaxWindows /\ windows' = windows + 1
           /\ \E s \in Screens : ~package_verdict(s.app) /\ screen' = Shows(s, windows + 1)
           /\ tool' = "phone_open" /\ left' = 1 /\ before' = ""
           /\ op' = [what |-> "launch", at |-> 0, touches |-> FALSE, fresh |-> FALSE]
           /\ UNCHANGED ran
  <2>1. Seeing'
    BY <1>1, <1>4, NewWindow
  <2>2. ran' = << >> /\ before' = "" /\ op'.touches = FALSE /\ op' # NoOp /\ tool' # Idle
    BY <1>1, <1>4 DEF GuardInv, OpInv, NoOp, Idle
  <2>3. left' \in 0..MAX_STEPS
    <3>1. MAX_STEPS \in Nat \ {0}
      BY DEF GuardAssumption
    <3>2. left' = 1
      BY <1>4
    <3> QED BY <3>1, <3>2
  <2>4. GuardTypes' /\ ScreenInv' /\ SnapInv' /\ PaidInv'
    BY <1>2, <1>4, <2>1, <2>3, TypeFromSeeing
  <2>5. OpInv'
    BY <2>2 DEF OpInv
  <2>6. RanInv' /\ StepsStayOnTheirScreen'
    BY <2>2, NothingRanNext
  <2> QED BY <2>4, <2>5, <2>6 DEF GuardInv
<1> QED BY <1>3, <1>4 DEF phone_open

\* A target, and what may be done without one, is of a screen the guard allows.
LEMMA OfTheScreen ==
  ASSUME GuardAssumption, GuardInv, UNCHANGED real
  PROVE  /\ \A i : Target(i) => Held /\ snap'.id # 0 /\ ~Refused(snap'.s)
         /\ Allowed => /\ Held \/ (snap.id = 0 /\ keep)
                       /\ snap'.id # 0 /\ ~Refused(snap'.s)
<1>1. ASSUME NEW i, Target(i) PROVE Held /\ snap'.id # 0 /\ ~Refused(snap'.s)
  BY <1>1 DEF Target, Held, seen
<1>2. ASSUME snap.id # 0, ~Refused(snap.s), Held PROVE snap'.id # 0 /\ ~Refused(snap'.s)
  BY <1>2 DEF Held, seen
<1>3. ASSUME keep, ~Refused(screen) PROVE snap'.id # 0 /\ ~Refused(snap'.s)
  <2>1. captures \in Nat
    BY SeeingIsPart, Bounds
  <2>2. snap' = [id |-> captures + 1, s |-> screen]
    BY <1>3 DEF keep
  <2> QED BY <1>3, <2>1, <2>2
<1> QED BY <1>1, <1>2, <1>3 DEF Allowed, ScreenRead

LEMMA TapStep ==
  ASSUME GuardAssumption, GuardInv, NEW i, TapNode(i) \/ TapPoint(i)
  PROVE  GuardInv'
<1>1. /\ op = NoOp /\ tool # Idle /\ UNCHANGED real /\ page' # "payment"
      /\ \/ Target(i) /\ SendOp("tap_node", TRUE)
         \/ Allowed /\ (SendOp("tap", TRUE) \/ (SendOp("blind", TRUE) /\ look.id = snap'.id /\ ~look.pays))
  BY DEF TapNode, TapPoint, Stepping, Idle, SendOp, page_refused
<1> QED BY <1>1, OfTheScreen, SendStep

LEMMA SwipeStep ==
  ASSUME GuardAssumption, GuardInv, NEW i, Swipe(i)
  PROVE  GuardInv'
<1>1. /\ op = NoOp /\ tool # Idle /\ UNCHANGED real /\ Allowed
      /\ SendOp("swipe", i # 0) /\ (i # 0 => page' # "payment")
  BY DEF Swipe, Stepping, Idle, SendOp, page_refused
<1> QED BY <1>1, OfTheScreen, SendStep

LEMMA TypeStep ==
  ASSUME GuardAssumption, GuardInv, NEW i, Type(i)
  PROVE  GuardInv'
<1>1. /\ op = NoOp /\ tool # Idle /\ UNCHANGED real /\ page' # "payment"
      /\ Target(i) \/ Allowed
      /\ SendOp("type", TRUE)
  BY DEF Type, Stepping, Idle, SendOp, page_refused
<1> QED BY <1>1, OfTheScreen, SendStep

LEMMA PlainStep ==
  ASSUME GuardAssumption, GuardInv, Scroll \/ Leave
  PROVE  GuardInv'
<1>1. /\ op = NoOp /\ tool # Idle /\ UNCHANGED real
      /\ \/ Allowed /\ SendOp("scroll", FALSE)
         \/ Held /\ SendOp("exit", FALSE)
  BY DEF Scroll, Leave, Stepping, Idle, SendOp
<1> QED BY <1>1, OfTheScreen, SendStep

LEMMA EnterStep == ASSUME GuardAssumption, GuardInv, Enter PROVE GuardInv'
<1>1. /\ op = NoOp /\ tool # Idle /\ UNCHANGED real /\ keep /\ ~Refused(screen)
      /\ SendOp("enter", TRUE) /\ page' # "payment"
  BY DEF Enter, Stepping, Idle, SendOp, ScreenRead, enter_verdict
<1>2. snap'.id # 0 /\ snap'.s = screen
  <2>1. captures \in Nat /\ snap' = [id |-> captures + 1, s |-> screen]
    BY <1>1, SeeingIsPart, Bounds DEF keep
  <2> QED BY <2>1
<1> QED BY <1>1, <1>2, SendStep

LEMMA DeclinedStep == ASSUME GuardAssumption, GuardInv, Declined \/ Failed PROVE GuardInv'
<1>1. /\ Over /\ UNCHANGED real /\ look' = look
      /\ ScreenRead \/ ScreenRefused \/ ScreenLost
  BY DEF Declined, Failed, Held, ScreenLost
<1>2. Seeing' /\ look'.id \in 0..captures'
  BY <1>1, ReadStep
<1>3. MAX_STEPS \in Nat
  BY DEF GuardAssumption
<1> QED BY <1>1, <1>2, <1>3, OverStep

\* The next step of a phone_do is due on a capture of its own, of the same app.
LEMMA DoneStep == ASSUME GuardAssumption, GuardInv, Done PROVE GuardInv'
<1>1. Seeing /\ UNCHANGED real /\ look' = look /\ op # NoOp /\ captures \in Nat
  BY SeeingIsPart, Bounds DEF Done
<1>2. Seeing' /\ captures' \in Nat /\ captures <= captures'
  <2>1. CASE keep
    <3>1. Seeing' /\ captures' = captures + 1
      BY <1>1, <2>1, Kept
    <3> QED BY <1>1, <3>1
  <2>2. CASE CannotRead
    <3>1. UNCHANGED <<captures, snap, page, memory, paid>>
      BY <2>2 DEF CannotRead
    <3> QED BY <1>1, <3>1, AsHeld
  <2> QED BY <2>1, <2>2 DEF Done
<1>3. look'.id \in 0..captures'
  BY <1>1, <1>2 DEF GuardInv, GuardTypes
<1>4. CASE Over
  BY <1>2, <1>3, <1>4, OverStep DEF GuardAssumption
<1>5. CASE /\ tool = "phone_do" /\ left > 1 /\ ~unread' /\ Package(snap') = before
           /\ left' = left - 1 /\ op' = NoOp /\ UNCHANGED <<tool, before, ran, noted>>
  <2>1. keep
    BY <1>5 DEF Done, CannotRead
  <2>2. captures' = captures + 1 /\ snap'.id = captures' /\ before # ""
    <3>1. captures' = captures + 1 /\ snap' = [id |-> captures', s |-> screen] /\ Package(snap') # ""
      BY <1>1, <2>1, Kept
    <3> QED BY <1>5, <3>1
  <2>3. left' \in 0..MAX_STEPS
    <3>1. left \in 0..MAX_STEPS /\ MAX_STEPS \in Nat
      BY DEF GuardInv, GuardTypes, GuardAssumption
    <3> QED BY <3>1, <1>5
  <2>4. GuardTypes' /\ ScreenInv' /\ SnapInv' /\ PaidInv'
    BY <1>2, <1>3, <1>5, <2>3, TypeFromSeeing
  <2>5. OpInv'
    BY <1>5 DEF OpInv, NoOp, Idle
  <2>6. RanInv'
    <3>1. ran' = ran /\ ran \in Seq(Sent)
      BY <1>5 DEF GuardInv, RanInv
    <3>2. ASSUME NEW i \in DOMAIN ran
          PROVE  /\ ran[i].at <= captures' /\ ran[i].at < snap'.id
                 /\ ran[i].what # "enter" => ran[i].app = Package(snap')
      <4>1. ran[i].at <= captures
        BY DEF GuardInv, RanInv
      <4>4. ran[i].what # "enter" => ran[i].app = before
        BY <1>1, <2>2 DEF GuardInv, RanInv
      <4>2. ran[i] \in Sent
        BY <3>1, ElementOfSeq
      <4>3. ran[i].at \in Nat
        BY <4>2 DEF Sent
      <4>5. captures \in Nat /\ captures' = captures + 1 /\ snap'.id = captures + 1
        BY <1>1, <2>2
      <4>6. ran[i].at <= captures' /\ ran[i].at < snap'.id
        BY <4>1, <4>3, <4>5
      <4> QED BY <4>4, <4>6, <1>5
    <3> QED BY <3>1, <3>2, <1>5 DEF RanInv
  <2>7. StepsStayOnTheirScreen'
    BY <1>5 DEF GuardInv, StepsStayOnTheirScreen
  <2> QED BY <2>4, <2>5, <2>6, <2>7 DEF GuardInv
<1> QED BY <1>4, <1>5 DEF Done

LEMMA Stutter == ASSUME GuardInv, UNCHANGED guardVars PROVE GuardInv'
<1>1. /\ UNCHANGED <<screen, windows, captures, snap, unread, page, memory, look>>
      /\ UNCHANGED <<tool, left, before, op, ran, paid>>
  BY DEF guardVars, real, seen, work
<1>2. GuardTypes'
  BY <1>1 DEF GuardInv, GuardTypes
<1>3. ScreenInv' /\ SnapInv' /\ PaidInv'
  BY <1>1 DEF GuardInv, ScreenInv, SnapInv, PaidInv
<1>4. OpInv'
  BY <1>1 DEF GuardInv, OpInv
<1>5. RanInv'
  BY <1>1 DEF GuardInv, RanInv, Package
<1>6. StepsStayOnTheirScreen'
  BY <1>1 DEF GuardInv, StepsStayOnTheirScreen
<1> QED BY <1>2, <1>3, <1>4, <1>5, <1>6 DEF GuardInv

LEMMA StepInd == GuardAssumption /\ GuardInv /\ [GuardNext]_guardVars => GuardInv'
<1> SUFFICES ASSUME GuardAssumption, GuardInv, [GuardNext]_guardVars PROVE GuardInv'
  OBVIOUS
<1>1. CASE Drift
  BY <1>1, DriftStep
<1>2. CASE phone_screen \/ phone_look
  BY <1>2, LookStep
<1>3. CASE phone_open
  BY <1>3, OpenStep
<1>4. CASE \E t \in {"phone_act", "phone_do", "phone_commit"} : Begin(t)
  BY <1>4, BeginStep
<1>5. CASE \E i \in Points : On(i) /\ (TapNode(i) \/ TapPoint(i) \/ Swipe(i) \/ Type(i))
  BY <1>5, TapStep, SwipeStep, TypeStep
<1>6. CASE Scroll \/ Leave
  BY <1>6, PlainStep
<1>7. CASE Enter
  BY <1>7, EnterStep
<1>8. CASE Declined \/ Failed
  BY <1>8, DeclinedStep
<1>9. CASE Done
  BY <1>9, DoneStep
<1>10. CASE UNCHANGED guardVars
  BY <1>10, Stutter
<1> QED BY <1>1, <1>2, <1>3, <1>4, <1>5, <1>6, <1>7, <1>8, <1>9, <1>10 DEF GuardNext

-----------------------------------------------------------------------------
\* What holds at every step of a call of a phone tool (agent/phone/tools.py): the
\* screen is one there is, the capture held is of a screen that was, its page and
\* its memory of a payment page say what has been seen of its window since, and
\* the step that is next was judged on it.
THEOREM GuardIsInductive == ASSUME GuardAssumption PROVE GuardSpec => []GuardInv
<1>1. GuardInit => GuardInv
  BY InitInd
<1>2. GuardInv /\ [GuardNext]_guardVars => GuardInv'
  BY StepInd
<1> QED BY <1>1, <1>2, PTL DEF GuardSpec

\* The money guard (agent/phone/guard.py) with the tools that ask it
\* (agent/phone/tools.py): whatever screens there are and however the phone
\* moves between two readings of them, nothing that touches an element is sent
\* on a window that showed itself to be a payment page and has not shown since
\* that it is something else, nor on a screen the guard refuses; a tap on no
\* element rests on a look at the capture held.
THEOREM PaymentIsNotTouched == ASSUME GuardAssumption PROVE GuardSpec => []PaymentIsLeftAlone
<1>1. GuardInv => PaymentIsLeftAlone
  BY DEF GuardInv, OpInv, PaidInv, PaymentIsLeftAlone
<1> QED BY <1>1, GuardIsInductive, PTL

\* phone_do (agent/phone/tools.py): every step of it is judged on a capture of
\* its own, and goes to the app the steps before it were sent to.
THEOREM StepsStay == ASSUME GuardAssumption PROVE GuardSpec => []StepsStayOnTheirScreen
<1>1. GuardInv => StepsStayOnTheirScreen
  BY DEF GuardInv
<1> QED BY <1>1, GuardIsInductive, PTL

-----------------------------------------------------------------------------
(* Calls over the socket *)

Issued == 1..calls

\* What is anywhere carries an id that _ids has handed out.
IdsAreIssued ==
  /\ pending \subseteq Issued /\ held \subseteq Issued /\ outbox \subseteq Issued
  /\ sent \subseteq Issued /\ lost \subseteq Issued /\ device \subseteq Issued
  /\ inbox \subseteq Issued /\ refused \subseteq Issued
  /\ \A w \in Turns : call[w] \in 0..calls /\ (pc[w] # "idle" => call[w] # 0)

\* No two threads have had the same call.
CallsAreOwn == \A v, w \in Turns : call[v] = call[w] /\ call[w] # 0 => v = w

\* A call in the table has no result yet, nor one on its way; none has one
\* before it is made.
EntriesAreOpen ==
  /\ \A c \in pending : future[c] = NoReply /\ c \notin held
  /\ \A c \in Ids : future[c] # NoReply => c \in Issued

\* The loop sets a future to its own result or to the failure of all.
WordsAreDue == \A c \in held : word \in {c, Gone}

\* A call that is waited for is in the table, or out of it with its result.
Awaited(w) ==
  pc[w] \in {"sending", "waiting"} =>
    call[w] \in pending \cup held \/ future[call[w]] # NoReply

TableInd ==
  /\ TableInv
  /\ IdsAreIssued /\ CallsAreOwn /\ EntriesAreOpen /\ WordsAreDue
  /\ \A w \in Turns : Awaited(w)

-----------------------------------------------------------------------------
(* The inductive invariant *)

USE CallsAssumption

LEMMA TableInit == Init => TableInd
<1> SUFFICES ASSUME Init PROVE TableInd OBVIOUS
<1>1. TypeOK
  <2>1. up \in BOOLEAN /\ closed \in BOOLEAN
    BY DEF Init
  <2>2. calls \in 0..MaxCalls /\ word \in 0..Gone /\ future \in [Ids -> 0..Gone]
    BY DEF Init, Ids, Gone, NoReply
  <2>3. call \in [Turns -> 0..MaxCalls]
    BY DEF Init
  <2> QED BY <2>1, <2>2, <2>3 DEF Init, TypeOK
<1>2. ReplyIsMine /\ NothingAwaitedIsRefused /\ NoEntryOutlivesItsCall
  BY DEF Init, ReplyIsMine, NothingAwaitedIsRefused, NoEntryOutlivesItsCall
<1>3. /\ IdsAreIssued /\ CallsAreOwn /\ EntriesAreOpen /\ WordsAreDue
      /\ \A w \in Turns : Awaited(w)
  BY DEF Init, IdsAreIssued, Issued, CallsAreOwn, EntriesAreOpen, WordsAreDue, Awaited
<1> QED BY <1>1, <1>2, <1>3 DEF TableInd, TableInv

\* Every step keeps the types.
LEMMA TypeInd == TypeOK /\ [Next]_vars => TypeOK'
<1> SUFFICES ASSUME TypeOK, [Next]_vars PROVE TypeOK' OBVIOUS
<1> USE DEF Next, OfThread, OfLoop, vars, table, thread, loop, client, Goto, Call, Send, SendOk,
            SendFails, Return, TimeOut, GiveUp, Resolve, SetResult, FailAll, Reply, Disconnect
<1>1. up' \in BOOLEAN /\ closed' \in BOOLEAN
  BY Zenon DEF TypeOK
<1>2. calls' \in 0..MaxCalls /\ word' \in 0..Gone
  BY DEF TypeOK, Ids, Gone, NoReply
<1>3. future' \in [Ids -> 0..Gone]
  BY DEF TypeOK, Ids, Gone, NoReply
<1>4. pc' \in [Turns -> {"idle", "sending", "waiting", "late"}]
  BY DEF TypeOK
<1>5. call' \in [Turns -> 0..MaxCalls]
  BY DEF TypeOK
<1>6. calls < MaxCalls => calls + 1 \in Ids
  BY DEF TypeOK, Ids
<1>7. pending' \subseteq Ids /\ outbox' \subseteq Ids
  BY <1>6 DEF TypeOK
<1>8. held' \subseteq Ids /\ refused' \subseteq Ids
  BY DEF TypeOK
<1>9. sent' \subseteq Ids /\ lost' \subseteq Ids
  BY DEF TypeOK
<1>10. device' \subseteq Ids /\ inbox' \subseteq Ids
  BY DEF TypeOK
<1> QED BY <1>1, <1>2, <1>3, <1>4, <1>5, <1>7, <1>8, <1>9, <1>10 DEF TypeOK

\* Ids are handed out one after the other, and nothing carries one before.
LEMMA IdsInd ==
  ASSUME TableInd, [Next]_vars
  PROVE  IdsAreIssued' /\ CallsAreOwn'
<1> USE DEF TableInd, TableInv, TypeOK, IdsAreIssued, CallsAreOwn, Issued, Ids
<1>1. ASSUME NEW w \in Turns, Call(w)
      PROVE  IdsAreIssued' /\ CallsAreOwn'
  <2>1. call' = [call EXCEPT ![w] = calls + 1] /\ calls' = calls + 1
    BY <1>1 DEF Call
  <2>2. CallsAreOwn'
    BY <2>1
  <2>3. \A v \in Turns : call'[v] \in 0..calls' /\ (pc'[v] # "idle" => call'[v] # 0)
    BY <1>1, <2>1 DEF Call, Goto
  <2>4. Issued \cup {calls + 1} \subseteq 1..calls'
    BY <2>1
  <2> QED BY <1>1, <2>2, <2>3, <2>4 DEF Call, client
<1>2. ASSUME NEW w \in Turns, OfThread(w), ~Call(w)
      PROVE  IdsAreIssued' /\ CallsAreOwn'
  BY <1>2 DEF OfThread, SendOk, SendFails, Return, TimeOut, GiveUp, Goto, table, loop, client
<1>3. ASSUME NEW c \in Ids, Send(c)
      PROVE  IdsAreIssued' /\ CallsAreOwn'
  BY <1>3 DEF Send, table, thread
<1>4. ASSUME NEW c \in Ids, Resolve(c)
      PROVE  IdsAreIssued' /\ CallsAreOwn'
  <2>1. /\ pending' \subseteq pending /\ held' \subseteq held \cup {c}
        /\ refused' \subseteq refused \cup {c}
        /\ c \in inbox /\ inbox' \subseteq inbox
    BY <1>4 DEF Resolve
  <2>2. UNCHANGED <<calls, pc, call, outbox, sent, lost, device>>
    BY <1>4 DEF Resolve, thread
  <2> QED BY <2>1, <2>2
<1>5. ASSUME NEW c \in Ids, SetResult(c)
      PROVE  IdsAreIssued' /\ CallsAreOwn'
  BY <1>5 DEF SetResult, thread, client
<1>6. CASE FailAll
  BY <1>6 DEF FailAll, thread, client
<1>7. ASSUME NEW c \in Ids, Reply(c)
      PROVE  IdsAreIssued' /\ CallsAreOwn'
  BY <1>7 DEF Reply, table, thread, loop
<1>8. CASE Disconnect \/ UNCHANGED vars
  BY <1>8 DEF Disconnect, table, thread, loop, client, vars
<1> QED BY <1>1, <1>2, <1>3, <1>4, <1>5, <1>6, <1>7, <1>8 DEF Next, OfLoop

\* A future is set to its own result, or to the failure that all get.
LEMMA RepliesInd ==
  ASSUME TableInd, [Next]_vars
  PROVE  ReplyIsMine' /\ WordsAreDue'
<1> USE DEF TableInd, TableInv, ReplyIsMine, WordsAreDue
<1>1. ASSUME NEW c \in Ids, Resolve(c) \/ Send(c) \/ Reply(c)
      PROVE  ReplyIsMine' /\ WordsAreDue'
  BY <1>1 DEF Resolve, Send, Reply, table, loop
<1>2. ASSUME NEW c \in Ids, SetResult(c)
      PROVE  ReplyIsMine' /\ WordsAreDue'
  BY <1>2 DEF SetResult, TypeOK
<1>3. ASSUME NEW w \in Turns, OfThread(w)
      PROVE  ReplyIsMine' /\ WordsAreDue'
  BY <1>3 DEF OfThread, Call, SendOk, SendFails, Return, TimeOut, GiveUp, table, loop
<1>4. CASE FailAll \/ Disconnect \/ UNCHANGED vars
  BY <1>4 DEF FailAll, Disconnect, vars, table, loop
<1> QED BY <1>1, <1>2, <1>3, <1>4 DEF Next, OfLoop

\* An entry leaves the table before its result is set.
LEMMA OpenInd ==
  ASSUME TableInd, [Next]_vars
  PROVE  EntriesAreOpen'
<1> USE DEF TableInd, TableInv, TypeOK, EntriesAreOpen, IdsAreIssued, Issued, Ids
<1>1. ASSUME NEW w \in Turns, Call(w)
      PROVE  EntriesAreOpen'
  BY <1>1 DEF Call
<1>2. ASSUME NEW w \in Turns, OfThread(w), ~Call(w)
      PROVE  EntriesAreOpen'
  BY <1>2 DEF OfThread, SendOk, SendFails, Return, TimeOut, GiveUp, table, loop
<1>3. ASSUME NEW c \in Ids, Resolve(c)
      PROVE  EntriesAreOpen'
  BY <1>3 DEF Resolve
<1>4. ASSUME NEW c \in Ids, SetResult(c)
      PROVE  EntriesAreOpen'
  BY <1>4 DEF SetResult
<1>5. ASSUME NEW c \in Ids, Send(c) \/ Reply(c)
      PROVE  EntriesAreOpen'
  BY <1>5 DEF Send, Reply, table, loop
<1>6. CASE FailAll \/ Disconnect \/ UNCHANGED vars
  BY <1>6 DEF FailAll, Disconnect, vars, table, loop
<1> QED BY <1>1, <1>2, <1>3, <1>4, <1>5, <1>6 DEF Next, OfLoop

\* The table holds the calls in progress and no others.
LEMMA EntriesInd ==
  ASSUME TableInd, [Next]_vars
  PROVE  NoEntryOutlivesItsCall'
<1> USE DEF TableInd, TableInv, TypeOK, NoEntryOutlivesItsCall
<1>1. ASSUME NEW w \in Turns, Call(w)
      PROVE  NoEntryOutlivesItsCall'
  BY <1>1 DEF Call, Goto, Ids
<1>2. ASSUME NEW w \in Turns, SendFails(w) \/ GiveUp(w)
      PROVE  NoEntryOutlivesItsCall'
  BY <1>2 DEF SendFails, GiveUp, Goto
<1>3. ASSUME NEW w \in Turns, SendOk(w) \/ TimeOut(w)
      PROVE  NoEntryOutlivesItsCall'
  BY <1>3 DEF SendOk, TimeOut, Goto, table
<1>4. ASSUME NEW w \in Turns, Return(w)
      PROVE  NoEntryOutlivesItsCall'
  BY <1>4 DEF Return, Goto, table, EntriesAreOpen
<1>5. CASE OfLoop
  BY <1>5 DEF OfLoop, Send, Resolve, SetResult, FailAll, table, thread
<1>6. ASSUME NEW c \in Ids, Reply(c)
      PROVE  NoEntryOutlivesItsCall'
  BY <1>6 DEF Reply, table, thread
<1>7. CASE Disconnect \/ UNCHANGED vars
  BY <1>7 DEF Disconnect, vars, table, thread
<1> QED BY <1>1, <1>2, <1>3, <1>4, <1>5, <1>6, <1>7 DEF Next, OfThread

\* What is waited for is in the table until its result is on its way.
LEMMA AwaitedInd ==
  ASSUME TableInd, [Next]_vars
  PROVE  NothingAwaitedIsRefused' /\ \A w \in Turns : Awaited(w)'
<1> USE DEF TableInd, TableInv, TypeOK, NothingAwaitedIsRefused, Awaited
<1>1. ASSUME NEW w \in Turns, Call(w)
      PROVE  NothingAwaitedIsRefused' /\ \A v \in Turns : Awaited(v)'
  BY <1>1 DEF Call, Goto, Ids, IdsAreIssued, Issued, client
<1>2. ASSUME NEW w \in Turns, SendFails(w) \/ GiveUp(w)
      PROVE  NothingAwaitedIsRefused' /\ \A v \in Turns : Awaited(v)'
  BY <1>2 DEF SendFails, GiveUp, Goto, loop, IdsAreIssued, CallsAreOwn
<1>3. ASSUME NEW w \in Turns, SendOk(w) \/ TimeOut(w) \/ Return(w)
      PROVE  NothingAwaitedIsRefused' /\ \A v \in Turns : Awaited(v)'
  BY <1>3 DEF SendOk, TimeOut, Return, Goto, table, loop
<1>4. ASSUME NEW m \in Ids, Resolve(m)
      PROVE  NothingAwaitedIsRefused' /\ \A v \in Turns : Awaited(v)'
  BY <1>4 DEF Resolve, thread
<1>5. ASSUME NEW c \in Ids, SetResult(c)
      PROVE  NothingAwaitedIsRefused' /\ \A v \in Turns : Awaited(v)'
  BY <1>5 DEF SetResult, thread, WordsAreDue, NoReply, Gone, Ids
<1>6. ASSUME NEW c \in Ids, Send(c) \/ Reply(c)
      PROVE  NothingAwaitedIsRefused' /\ \A v \in Turns : Awaited(v)'
  BY <1>6 DEF Send, Reply, table, thread, loop
<1>7. CASE FailAll \/ Disconnect \/ UNCHANGED vars
  BY <1>7 DEF FailAll, Disconnect, vars, table, thread, loop, client
<1> QED BY <1>1, <1>2, <1>3, <1>4, <1>5, <1>6, <1>7 DEF Next, OfThread, OfLoop

LEMMA TableStep == TableInd /\ [Next]_vars => TableInd'
BY TypeInd, IdsInd, OpenInd, RepliesInd, EntriesInd, AwaitedInd DEF TableInd, TableInv

LEMMA TableIndHolds == Spec => []TableInd
BY TableInit, TableStep, PTL DEF Spec

-----------------------------------------------------------------------------
(* Theorem *)

(***************************************************************************)
(* However calls, results, timeouts and a disconnect interleave: a result  *)
(* reaches the call it is for and no other, what is waited for is never    *)
(* refused as unknown, and the table keeps no call that is over (proxy.py  *)
(* SocketPhone._call, resolve, fail_all).                                  *)
(***************************************************************************)
THEOREM TableIsExact == Spec => []TableInv
<1>1. TableInd => TableInv
  BY DEF TableInd
<1> QED BY <1>1, TableIndHolds, PTL

=============================================================================
