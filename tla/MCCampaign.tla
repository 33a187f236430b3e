----------------------------- MODULE MCCampaign -----------------------------
(* Campaign for TLC: tasks as model values. *)
EXTENDS Campaign, TLC

Symmetry == Permutations(Tasks)
=============================================================================
