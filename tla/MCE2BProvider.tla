---------------------------- MODULE MCE2BProvider ----------------------------
(* E2BProvider for TLC: sandboxes as model values. *)
EXTENDS E2BProvider, TLC

Symmetry == Permutations(Sandboxes)
=============================================================================
