---------------------------- MODULE MCProbeRuns ----------------------------
(***************************************************************************)
(* Two tabs and the sweep, two mirrors, pools of two.                      *)
(***************************************************************************)
EXTENDS ProbeRuns, TLC

Symmetry == Permutations(Tabs) \cup Permutations(Sources) \cup Permutations(Workers)
=============================================================================
