----------------------------- MODULE Remembered -----------------------------
(***************************************************************************)
(* What a session's memory promises the conversation above it: the set of  *)
(* things that can still be recalled from disk only ever grows, by one     *)
(* message at a time, whatever compaction does underneath and wherever the *)
(* process stops.                                                          *)
(***************************************************************************)
CONSTANT Items    \* every message that can be said

VARIABLE kept     \* the messages the store can still give back

Init == kept = {}

\* One more message has become durable.
Say(i) == kept' = kept \cup {i}

Next == \E i \in Items : Say(i)

Spec == Init /\ [][Next]_kept
=============================================================================
