--------------------------- MODULE MCSessionServer ---------------------------
(* Small instances of SessionServer for TLC.                               *)
EXTENDS SessionServer, TLC

CONSTANTS c1, c2, c3, s1, s2

MCConns == {c1, c2, c3}
MCOneConn == {c1}
MCSessions == {s1, s2}
MCOneSession == {s1}
MCSymmetry == Permutations(MCConns) \cup Permutations(MCSessions)
=============================================================================
