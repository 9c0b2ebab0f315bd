----------------------------- MODULE MCLicensing -----------------------------
(***************************************************************************)
(* Instances of Licensing for TLC.                                         *)
(***************************************************************************)
EXTENDS Licensing, TLC

CONSTANTS l1, d1, d2, d3, p1, p2

OneLicense == {l1}
TwoDevices == {d1, d2}
ThreeDevices == {d1, d2, d3}
TwoHandlers == {p1, p2}

\* Handlers are alike, and so are devices.
Symmetry == Permutations({p1, p2}) \cup Permutations({d1, d2, d3})
=============================================================================
