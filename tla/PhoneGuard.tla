----------------------------- MODULE PhoneGuard -----------------------------
(***************************************************************************)
(* The phone's tools (agent/phone/tools.py) over a phone whose screen goes *)
(* on by itself: a page loads, a dialog opens, another app comes to front. *)
(*                                                                         *)
(* A tool call judges the snapshot Otto holds, sends one thing to the      *)
(* phone and takes in the screen that comes back; phone_do repeats it.     *)
(* `screen` is what is really in front, `snap` what Otto holds of it, and  *)
(* the two differ whenever the phone moved in between.  Wording, the       *)
(* digest's layout and the log lines are left out.                         *)
(***************************************************************************)
EXTENDS GuardRules

CONSTANTS
  Screens,      \* snapshots the phone can show, their window left at 1
  Names,        \* texts a target may be named by
  MaxWindows,   \* bound: windows opened in one behaviour
  MaxCaptures,  \* bound: snapshots taken in one behaviour
  MAX_STEPS     \* phone_act bodies one phone_do carries

\* A snapshot names the app in front (digest.py), and a page class the phone sent.
GuardAssumption ==
  /\ MaxWindows \in Nat \ {0} /\ MaxCaptures \in Nat /\ MAX_STEPS \in Nat \ {0}
  /\ \A s \in Screens : /\ {"app", "win", "floor"} \subseteq DOMAIN s
                        /\ s.win = 1 /\ s.floor \in Kinds /\ s.app.package # ""

VARIABLES
  screen,     \* what the phone shows
  windows,    \* windows it has opened
  captures,   \* snapshot ids handed out
  snap,       \* state["snapshot"]: [id, s], or NoSnap
  unread,     \* state["unread"]
  page,       \* state["page"].kind
  memory,     \* state["page_memory"]
  look,       \* state["last_look"]: [id, pays]
  noted,      \* state["noted"]
  tool, left, \* the tool running, and the steps it has left
  before,     \* phone_do: the app in front before the step
  op,         \* what has been sent to the phone, on which held snapshot
  ran,        \* history: what the running call has sent
  paid        \* history: windows whose last telling capture was a payment page

seen == <<snap, unread, page, memory>>
work == <<tool, left, before, op, ran>>
real == <<screen, windows>>
guardVars == <<real, captures, seen, look, noted, work, paid>>

NoSnap == [id |-> 0, s |-> CHOOSE s \in Screens : TRUE]
Idle   == "idle"
NoOp   == [what |-> "none", at |-> 0, touches |-> FALSE, fresh |-> FALSE]
Refused(s) == secure_reason(s)

GuardInit ==
  /\ screen \in {s \in Screens : s.evidence = {"product_page"}} /\ windows = 1 /\ captures = 0
  /\ snap = NoSnap /\ unread = FALSE /\ page = "none" /\ memory = NoMemory
  /\ look = [id |-> 0, pays |-> FALSE] /\ noted = {}
  /\ tool = Idle /\ left = 0 /\ before = "" /\ op = NoOp /\ ran = <<>>
  /\ paid = {}

-----------------------------------------------------------------------------
\* The screen moves: the same window shows another part or state of itself, or
\* a new window opens.
Shows(s, win) == [s EXCEPT !.win = win]
Moves ==
  \/ \E s \in Screens : s.app = screen.app /\ screen' = Shows(s, windows) /\ UNCHANGED windows
  \/ /\ windows < MaxWindows
     /\ windows' = windows + 1
     /\ \E s \in Screens : screen' = Shows(s, windows + 1)
Drift == Moves /\ UNCHANGED <<captures, seen, look, noted, work, paid>>

\* History: what the windows seen have told of themselves.  Only a grid of
\* products, a product page or the evidence of a cart takes a payment page back;
\* a capture of a secret makes the guard forget the window.
Telling(s) ==
  LET now == KindNow(page_features(s))
  IN  IF Refused(s) \/ s.floor = "secure" THEN paid \ {page_key(s)}
      ELSE IF now = "payment" THEN paid \cup {page_key(s)}
      ELSE IF now # "cart" /\ page_features(s) \cap {"listing", "product_page"} = {} THEN paid
      ELSE paid \ {page_key(s)}

\* Mutant of judge: what the window was judged before is not handed on.
JudgeAfresh(s) ==
  LET v == classify_page(s, NoMemory)
  IN  page' = v.kind /\ memory' = v.memory

\* The page as a whole, from what the same window was judged before.
judge(s) ==
  LET v == classify_page(s, memory)
  IN  page' = v.kind /\ memory' = v.memory

\* A capture of what is in front now, held from here on.
keep ==
  /\ captures < MaxCaptures
  /\ captures' = captures + 1
  /\ snap' = [id |-> captures + 1, s |-> screen]
  /\ unread' = FALSE
  /\ judge(screen)
  /\ paid' = Telling(screen)

\* keep(None): a screen the guard refuses is not held.
keep_none ==
  /\ captures < MaxCaptures
  /\ captures' = captures + 1
  /\ snap' = NoSnap /\ unread' = FALSE /\ page' = "none" /\ UNCHANGED memory
  /\ UNCHANGED paid

\* screen_now: a fresh capture, or what the guard refuses, or no reading at all.
ScreenRead    == keep /\ ~Refused(screen)
ScreenRefused == keep_none /\ Refused(screen)
ScreenLost    == UNCHANGED <<captures, seen, paid>>

Over == tool' = Idle /\ left' = 0 /\ before' = "" /\ op' = NoOp /\ ran' = <<>>

\* What is rendered carries the app's notes the first time it is in front.
Rendered ==
  noted' = IF snap'.id = 0 \/ unread' \/ Refused(snap'.s) THEN noted ELSE noted \cup {snap'.s.app.package}

-----------------------------------------------------------------------------
\* phone_screen.
phone_screen ==
  /\ tool = Idle
  /\ \/ ScreenRead /\ Rendered
     \/ (ScreenRefused \/ ScreenLost) /\ UNCHANGED noted
  /\ UNCHANGED <<real, look, work>>

\* phone_look reads the screen, and captures it unless it is a payment page or
\* shows a secret, or nobody can look; the answer is kept under the snapshot's id.
phone_look ==
  /\ tool = Idle
  /\ \/ /\ ScreenRead
        /\ \/ UNCHANGED look
           \/ /\ page' # "payment" /\ \A i \in DOMAIN screen.nodes : ~screen.nodes[i].asks
              /\ \E pays \in BOOLEAN : look' = [id |-> snap'.id, pays |-> pays]
     \/ (ScreenRefused \/ ScreenLost) /\ UNCHANGED look
  /\ UNCHANGED <<real, noted, work>>

\* phone_act, phone_do and phone_commit begin; phone_do has checked its steps.
Begin(t) ==
  /\ tool = Idle
  /\ tool' = t
  /\ left' \in (IF t = "phone_do" THEN 1..MAX_STEPS ELSE {1})
  /\ before' = ""
  /\ UNCHANGED <<real, captures, seen, look, noted, op, ran, paid>>

Stepping == tool \in {"phone_act", "phone_do"} /\ op = NoOp
Package(held) == IF held.id = 0 THEN "" ELSE held.s.app.package

SendOp(what, touches) ==
  /\ op' = [what |-> what, at |-> snap'.id, touches |-> touches, fresh |-> look.id = snap'.id]
  /\ ran' = Append(ran, [what |-> what, at |-> snap'.id, app |-> Package(snap')])
  /\ before' = Package(snap)
  /\ UNCHANGED <<real, look, noted, tool, left>>

Held == UNCHANGED <<captures, seen, paid>>

\* resolve_target: what the last capture has under that name or number.
Target(i) ==
  /\ snap.id # 0 /\ ~Refused(snap.s)
  /\ i \in {find_node(snap.s, w) : w \in Names} \cup {j \in DOMAIN snap.s.nodes : ~snap.s.nodes[j].p}
  /\ i # 0
  /\ Held

\* current_allowed: without a target the screen is read first when none is held.
Allowed ==
  \/ snap.id # 0 /\ ~Refused(snap.s) /\ Held
  \/ snap.id = 0 /\ ScreenRead

page_refused == page' = "payment"

control_refused(node) ==
  LET says == control_verdict(node)
  IN  \/ says = "pay"
      \/ tool # "phone_commit" /\ (says \in {"entry", "commit"} \/ (says = "forward" /\ page' = "checkout"))

\* tap, tap_text, long_press by name, and phone_commit.
TapNode(i) ==
  /\ Stepping \/ (tool = "phone_commit" /\ op = NoOp)
  /\ Target(i) /\ ~page_refused /\ ~control_refused(snap.s.nodes[i])
  /\ SendOp("tap_node", TRUE)

\* tap by x and y, on an element or on none: a blind tap needs a look taken on
\* this very capture that described nothing like a payment.
TapPoint(i) ==
  /\ Stepping /\ Allowed /\ ~page_refused
  /\ IF i # 0
       THEN ~control_refused(snap'.s.nodes[i]) /\ ~snap'.s.nodes[i].p
       ELSE /\ \A j \in DOMAIN snap'.s.nodes : ~snap'.s.nodes[j].c
            /\ look.id = snap'.id /\ ~look.pays
  /\ SendOp(IF i = 0 THEN "blind" ELSE "tap", TRUE)

\* A swipe from a point is judged like a tap on what is under it.
Swipe(i) ==
  /\ Stepping /\ Allowed
  /\ i # 0 => ~page_refused /\ ~control_refused(snap'.s.nodes[i])
  /\ SendOp("swipe", i # 0)

Scroll ==
  /\ Stepping /\ Allowed
  /\ SendOp("scroll", FALSE)

\* type into a named field, or into what has the focus.
Type(i) ==
  /\ Stepping
  /\ \/ i # 0 /\ Target(i)
     \/ /\ i = 0 /\ Allowed
        /\ LET nodes   == snap'.s.nodes
               focused == {j \in DOMAIN nodes : nodes[j].f}
           IN  /\ \A j \in focused : ~nodes[j].p
               /\ focused = {} => \A j \in DOMAIN nodes : ~nodes[j].p
  /\ ~page_refused
  /\ SendOp("type", TRUE)

\* back, home and recents are always allowed.
Leave ==
  /\ Stepping /\ Held
  /\ SendOp("exit", FALSE)

\* Enter has no label: the screen is read again, and judged as it is now.
Enter ==
  /\ Stepping
  /\ ScreenRead /\ enter_verdict(screen, page') = "press"
  /\ SendOp("enter", TRUE)

\* Anything refused, or a screen not read, ends the call: nothing is sent.
Declined ==
  /\ tool # Idle /\ op = NoOp
  /\ \/ Held
     \/ Stepping /\ (ScreenRefused \/ ScreenRead)
  /\ Over
  /\ UNCHANGED <<real, look, noted>>

-----------------------------------------------------------------------------
\* phone_open and phone_settings: a money app is not launched, and the screen
\* that comes up is taken in whatever it is.
phone_open ==
  /\ tool = Idle
  /\ \/ /\ windows < MaxWindows /\ windows' = windows + 1
        /\ \E s \in Screens : ~package_verdict(s.app) /\ screen' = Shows(s, windows + 1)
        /\ tool' = "phone_open" /\ left' = 1 /\ before' = ""
        /\ op' = [what |-> "launch", at |-> 0, touches |-> FALSE, fresh |-> FALSE]
        /\ UNCHANGED ran
     \/ UNCHANGED <<real, work>>
  /\ UNCHANGED <<captures, seen, look, noted, paid>>

\* The screen an action left could not be read: the one before stays held.
CannotRead == unread' = TRUE /\ UNCHANGED <<snap, page, memory, captures, paid>>

\* Mutant of Done: phone_do goes on whatever the step before it led to.
DoneBlindly ==
  /\ op # NoOp
  /\ keep \/ CannotRead
  /\ IF tool = "phone_do" /\ left > 1
       THEN left' = left - 1 /\ op' = NoOp /\ UNCHANGED <<tool, before, ran, noted>>
       ELSE Over /\ Rendered
  /\ UNCHANGED <<real, look>>

\* absorb the screen that came back, or a fresh one.  phone_do goes on only on
\* a screen it could read, that the guard lets it act on, and of the same app.
Done ==
  /\ op # NoOp
  /\ keep \/ CannotRead
  /\ IF /\ tool = "phone_do" /\ left > 1
        /\ ~unread' /\ ~Refused(snap'.s) /\ page' # "payment"
        /\ Package(snap') = before
       THEN left' = left - 1 /\ op' = NoOp /\ UNCHANGED <<tool, before, ran, noted>>
       ELSE Over /\ Rendered
  /\ UNCHANGED <<real, look>>

\* The phone refuses (its own guard, a stale id) or cannot: the call is over.
Failed ==
  /\ op # NoOp
  /\ Over
  /\ UNCHANGED <<real, captures, seen, look, noted, paid>>

-----------------------------------------------------------------------------
On(i) == \/ i \in {0} \cup DOMAIN snap.s.nodes /\ snap.id # 0
         \/ i \in {0} \cup DOMAIN screen.nodes /\ snap.id = 0

Points == {0} \cup UNION {DOMAIN s.nodes : s \in Screens}

GuardNext ==
  \/ Drift
  \/ phone_screen \/ phone_look \/ phone_open
  \/ \E t \in {"phone_act", "phone_do", "phone_commit"} : Begin(t)
  \/ \E i \in Points : On(i) /\ (TapNode(i) \/ TapPoint(i) \/ Swipe(i) \/ Type(i))
  \/ Scroll \/ Leave \/ Enter \/ Declined
  \/ Done \/ Failed

GuardSpec == GuardInit /\ [][GuardNext]_guardVars

-----------------------------------------------------------------------------
GuardTypes ==
  /\ windows \in 1..MaxWindows /\ captures \in 0..MaxCaptures
  /\ snap.id \in 0..captures /\ look.id \in 0..captures
  /\ page \in Kinds /\ memory.kind \in Kinds /\ left \in 0..MAX_STEPS
  /\ tool \in {Idle, "phone_act", "phone_do", "phone_commit", "phone_open"}

\* Nothing that touches an element is sent on a window that has shown itself to
\* be a payment page and has not shown since that it is something else, however
\* it was scrolled; nor on a screen the guard refuses; nor on a pay control.  A
\* tap on no element rests on a look at the very capture held.
PaymentIsLeftAlone ==
  /\ GuardTypes
  /\ op.touches =>
       /\ page_key(snap.s) \notin paid
       /\ ~Refused(snap.s)
       /\ op.what = "blind" => op.fresh /\ look.id = snap.id /\ ~look.pays

\* The steps of one phone_do were written for one screen: each is judged on a
\* capture of its own, of the app the steps before were sent to.  (Enter reads
\* the screen again by itself, and goes to the app that has come to front.)
StepsStayOnTheirScreen ==
  \A i, j \in DOMAIN ran :
    (i < j /\ "enter" \notin {ran[i].what, ran[j].what})
      => ran[i].at # ran[j].at /\ ran[i].app = ran[j].app
=============================================================================
