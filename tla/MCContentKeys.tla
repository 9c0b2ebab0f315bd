---------------------------- MODULE MCContentKeys ----------------------------
(***************************************************************************)
(* Instances of ContentKeys for TLC.                                       *)
(***************************************************************************)
EXTENDS ContentKeys, TLC

CONSTANTS p1, p2

OneHandler == {p1}
TwoHandlers == {p1, p2}

\* Handlers are alike.
Symmetry == Permutations(TwoHandlers)
=============================================================================
