----------------------------- MODULE GuardRules -----------------------------
(***************************************************************************)
(* The money guard's verdicts (agent/phone/guard.py) over one snapshot of  *)
(* the phone's screen, and how a target text is resolved on it             *)
(* (agent/phone/digest.py).  They are pure: all state is in PhoneGuard.    *)
(*                                                                         *)
(* What the regular expressions and the geometry find is data here: an     *)
(* app carries how its name matched the money words, an element what its   *)
(* label and its id say by themselves, a snapshot the evidence that its    *)
(* texts and rows give.  What is drawn from these is the code's.           *)
(*                                                                         *)
(*   app      [package, denied, named, tokens: set of [list, part]]        *)
(*   node     [label, id, says, idsays, c, e, f, p, search, asks, digit]   *)
(*   snapshot [app, payclass, win, secure, floor, evidence, nodes, hidden] *)
(***************************************************************************)
EXTENDS Integers, Sequences, FiniteSets

\* Page classes, least strict first.
KINDS == <<"none", "cart", "checkout", "payment", "secure">>
Kinds == {KINDS[i] : i \in 1..5}
Rank(k) == CHOOSE i \in 1..5 : KINDS[i] = k
stricter(a, b) == IF Rank(a) >= Rank(b) THEN a ELSE b

\* The rules' weights and lines (assets/guard_rules.json, version 3).
Line == 5
PaymentWeight ==
  [final_pay_control |-> 5, bare_pay_control |-> 3, payment_method_list |-> 4,
   masked_card |-> 2, payment_title |-> 3, total_with_amount |-> 2, primary_after_total |-> 1]
AgainstPayment == [listing |-> -3, product_page |-> -2]
CheckoutWeight ==
  [checkout_title |-> 3, address_choice |-> 3, total_with_amount |-> 1, listing |-> -3]
CartWeight ==
  [entry_control |-> 3, total_with_amount |-> 2, cart_structure |-> 2, cart_title |-> 2,
   no_clickable_amounts |-> 1, listing |-> -3]

-----------------------------------------------------------------------------
\* A money word decides as a word of the package or the label; an affix word
\* also when it begins or ends one, never from the middle ("gemini").
package_verdict(app) ==
  \/ app.denied
  \/ app.named
  \/ \E t \in app.tokens :
       \/ t.list = "whole" /\ t.part = "is"
       \/ t.list = "affix" /\ t.part \in {"is", "edge"}

\* A field asks for a secret by its flag, its own words, or the short caption
\* over it (one of the two elements before, itself no field).
sensitive_field(nodes, i) ==
  /\ nodes[i].e
  /\ \/ nodes[i].p
     \/ nodes[i].asks
     \/ \E j \in {i - 2, i - 1} \cap DOMAIN nodes :
          nodes[j].asks /\ ~nodes[j].e /\ ~nodes[j].p

OTP_BOXES == 4
otp_boxes(nodes) ==
  \E i \in DOMAIN nodes :
    /\ i + OTP_BOXES - 1 \in DOMAIN nodes
    /\ \A j \in i..(i + OTP_BOXES - 1) : nodes[j].e /\ nodes[j].digit

\* Nothing on this screen is described or touched.
secure_reason(s) ==
  \/ package_verdict(s.app)
  \/ s.payclass
  \/ s.secure
  \/ \E i \in DOMAIN s.nodes : sensitive_field(s.nodes, i)
  \/ otp_boxes(s.nodes)

-----------------------------------------------------------------------------
CONTROL_ORDER == <<"pay", "entry", "commit", "forward", "">>

\* The stricter of what the label says and what the id says.
control_verdict(node) ==
  CONTROL_ORDER[CHOOSE i \in 1..5 :
    /\ CONTROL_ORDER[i] \in {node.says, node.idsays, ""}
    /\ \A j \in 1..(i - 1) : CONTROL_ORDER[j] \notin {node.says, node.idsays}]

\* The verdicts of every control: what can be tapped and what is off screen.
controls(s) == {control_verdict(s.nodes[i]) : i \in {j \in DOMAIN s.nodes : s.nodes[j].c}} \cup s.hidden

page_features(s) == s.evidence \cup (IF "entry" \in controls(s) THEN {"entry_control"} ELSE {})

Weigh(weights, on) ==
  LET Pick[names \in SUBSET DOMAIN weights] ==
        IF names = {} THEN 0
        ELSE LET n == CHOOSE n \in names : TRUE IN weights[n] + Pick[names \ {n}]
  IN  Pick[DOMAIN weights \cap on]

\* The evidence against a payment page speaks only without a final pay control.
payment_score(on) ==
  Weigh(PaymentWeight, on)
  + (IF "final_pay_control" \in on THEN 0 ELSE Weigh(AgainstPayment, on))
checkout_score(on) == Weigh(CheckoutWeight, on)
cart_score(on)     == Weigh(CartWeight, on)

KindNow(on) ==
  IF payment_score(on) >= Line THEN "payment"
  ELSE IF checkout_score(on) >= Line THEN "checkout"
  ELSE IF cart_score(on) >= Line THEN "cart" ELSE "none"

NoMemory == [key |-> <<>>, kind |-> "none"]

\* Which window a snapshot is of; 0 from a phone that does not number them.
page_key(s) == IF s.win = 0 THEN <<>> ELSE <<s.app.package, s.win>>

\* A page stays as strict as it was judged on the same window until it shows it
\* is something else: a grid of products, a product page, or a plain cart.
\* The phone's own judgement (floor) is never lowered.
Verdict(s, kind) ==
  [kind |-> kind,
   memory |-> IF page_key(s) # <<>> /\ kind \in {"cart", "checkout", "payment"}
              THEN [key |-> page_key(s), kind |-> kind] ELSE NoMemory]

classify_page(s, memory) ==
  LET on   == page_features(s)
      now  == KindNow(on)
      same == page_key(s) # <<>> /\ memory.key = page_key(s)
      other == \/ "listing" \in on
               \/ "product_page" \in on /\ "final_pay_control" \notin on
               \/ memory.kind = "payment" /\ now = "cart" /\ payment_score(on) <= Line - 2
      kind == stricter(IF same /\ ~other THEN stricter(now, memory.kind) ELSE now, s.floor)
  IN  IF secure_reason(s) \/ s.floor = "secure" THEN [kind |-> "secure", memory |-> NoMemory]
      ELSE Verdict(s, kind)

search_focused(s) ==
  \E i \in DOMAIN s.nodes : s.nodes[i].e /\ s.nodes[i].f /\ ~s.nodes[i].p /\ s.nodes[i].search

\* What Enter may do: press it, decline, or leave the page to the person.
enter_verdict(s, kind) ==
  IF kind \in {"secure", "payment"} THEN "handover"
  ELSE IF search_focused(s) THEN "press"
  ELSE IF kind \in {"cart", "checkout"} \/ controls(s) \cap {"pay", "entry"} # {} THEN "decline"
  ELSE "press"

-----------------------------------------------------------------------------
\* A label outranks an id, and within a tier one element wins and several are
\* ambiguous (0).  A password field is never found.  (The two looser tiers, a
\* part of a label and a part of an id, follow in the same way.)
find_node(s, want) ==
  LET Open  == {i \in DOMAIN s.nodes : ~s.nodes[i].p}
      exact == {i \in Open : s.nodes[i].label = want}
      ident == {i \in Open \ exact : s.nodes[i].id = want}
      first == IF exact # {} THEN exact ELSE ident
  IN  IF Cardinality(first) = 1 THEN CHOOSE i \in first : TRUE ELSE 0
=============================================================================
