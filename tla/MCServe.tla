------------------------------ MODULE MCServe ------------------------------
(* Small instances of Serve. *)
EXTENDS Serve, TLC

CONSTANTS c1, c2, s1, s2, s3

OneConn     == {c1}
TwoConns    == {c1, c2}
OneSession  == {s1}
TwoSessions == {s1, s2}
ThreeSessions == {s1, s2, s3}

Symmetry == Permutations(ThreeSessions)
=============================================================================
