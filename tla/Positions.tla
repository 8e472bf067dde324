----------------------------- MODULE Positions -----------------------------
(***************************************************************************)
(* The part of a sequence that is at some of its positions: what is left   *)
(* of a list the code filters or deletes from.  SelectSeq, of a test of    *)
(* the positions, in a form that can be reasoned about.                    *)
(***************************************************************************)
EXTENDS Naturals, Sequences, FiniteSets

\* The elements of s at the positions in T, in order.
AtPositions(s, T) ==
  [n \in 1..Cardinality(T) |->
     s[CHOOSE k \in T : Cardinality({j \in T : j <= k}) = n]]

=============================================================================
