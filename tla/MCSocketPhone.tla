--------------------------- MODULE MCSocketPhone ---------------------------
(***************************************************************************)
(* Small instances of SocketPhone and of PhoneGuard.  The two share no     *)
(* state (a phone tool sees a device call as one step that answers or      *)
(* fails), so one run checks the one or the other, as `part` says.         *)
(***************************************************************************)
EXTENDS SocketPhone, PhoneGuard

CONSTANTS t1, t2

TwoTurns == {t1, t2}

VARIABLE part

\* The screens of a shop, and of a bank.
Node(label, says) ==
  [label |-> label, id |-> "", says |-> says, idsays |-> "", c |-> TRUE, e |-> FALSE, f |-> FALSE,
   p |-> FALSE, search |-> FALSE, asks |-> FALSE, digit |-> FALSE]
Field(label) == [Node(label, "") EXCEPT !.c = FALSE, !.e = TRUE, !.f = TRUE]
Secret       == [Field("pin") EXCEPT !.p = TRUE]
SearchBox    == [Field("find") EXCEPT !.search = TRUE]
BuyNow       == [Node("submit", "") EXCEPT !.idsays = "pay"]

Shop == [package |-> "shop", denied |-> FALSE, named |-> FALSE, tokens |-> {[list |-> "affix", part |-> "middle"]}]
Bank == [package |-> "bank", denied |-> FALSE, named |-> FALSE, tokens |-> {[list |-> "affix", part |-> "edge"]}]

Shown(app, evidence, nodes) ==
  [app |-> app, payclass |-> FALSE, win |-> 1, secure |-> FALSE, floor |-> "none",
   evidence |-> evidence, nodes |-> nodes, hidden |-> {}]

ShopScreens ==
  { Shown(Shop, {"product_page"}, <<Node("add", "commit"), BuyNow, SearchBox>>),
    Shown(Shop, {"cart_structure", "total_with_amount"}, <<Node("proceed", "entry"), Node("next", "forward")>>),
    Shown(Shop, {"payment_title", "total_with_amount"}, <<Node("next", "forward")>>),
    Shown(Shop, {}, <<Node("next", "forward")>>),
    Shown(Shop, {}, <<>>),
    Shown(Shop, {}, <<Secret>>),
    Shown(Bank, {}, <<Node("send", "commit")>>) }

ShopNames == {"add", "submit", "proceed", "next", "find", "pin", "send"}

ASSUME GuardAssumption

BothInit == part \in {"socket", "tools"} /\ Init /\ GuardInit

BothNext ==
  \/ part = "socket" /\ Next /\ UNCHANGED <<part, guardVars>>
  \/ part = "tools" /\ GuardNext /\ UNCHANGED <<part, vars>>

BothSpec == BothInit /\ [][BothNext]_<<part, vars, guardVars>> /\ Scheduled
=============================================================================
