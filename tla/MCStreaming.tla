----------------------------- MODULE MCStreaming -----------------------------
(***************************************************************************)
(* Instances of Streaming, with its licenses, for TLC.                     *)
(***************************************************************************)
EXTENDS Streaming, TLC

CONSTANTS l1, d1, d2, p1, v1

OneLicense == {l1}
TwoDevices == {d1, d2}
OneHandler == {p1}
OneViewer == {v1}
=============================================================================
