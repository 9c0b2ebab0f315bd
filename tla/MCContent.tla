------------------------------ MODULE MCContent ------------------------------
(***************************************************************************)
(* Instances of ContentPipeline for TLC.                                   *)
(***************************************************************************)
EXTENDS ContentPipeline, TLC

CONSTANTS p1, p2

TwoHandlers == {p1, p2}

\* Handlers are alike.
Symmetry == Permutations(TwoHandlers)
=============================================================================
