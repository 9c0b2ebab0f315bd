----------------------------- MODULE MCTokens -----------------------------
(* Two tabs of one browser. *)
EXTENDS TokenClient, TLC

MCSymmetry == Permutations(Tab) \cup Permutations(Call)

=============================================================================
