----------------------------- MODULE MCTerminal -----------------------------
(* A Terminal alone: two turns of one session, and the dialog that rates.  *)
EXTENDS Terminal

TwoIds  == {"a", "f"}
Here    == {"here"}
Ratings == {"score"}
=============================================================================
