--------------------------- MODULE MCSessionState ---------------------------
(* Small instances of SessionState for TLC.                                 *)
EXTENDS SessionState, TLC

Symmetry == Permutations(Creators)
=============================================================================
