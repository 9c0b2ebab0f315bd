----------------------------- MODULE MCSessions ------------------------------
(***************************************************************************)
(* Instances of Sessions for TLC.                                          *)
(***************************************************************************)
EXTENDS Sessions, TLC

CONSTANTS p1, p2, w1, w2

OneHandler == {p1}
TwoHandlers == {p1, p2}
OnePassword == {w1}
TwoPasswords == {w1, w2}

\* Handlers are alike, and so are passwords.
Symmetry == Permutations({p1, p2}) \cup Permutations({w1, w2})
=============================================================================
