--------------------------- MODULE MCConvoControl ----------------------------
(* ConvoControl for TLC: tokens, models and handlers are interchangeable. *)
EXTENDS ConvoControl, TLC

Symmetry == Permutations(Tokens) \cup Permutations(Models) \cup Permutations(Handlers)
=============================================================================
