--------------------------- MODULE MCGuestManager ---------------------------
(* GuestManager for TLC: small sets of model values. *)
EXTENDS GuestManager, TLC

Symmetry == Permutations(Sandboxes) \cup Permutations(Requests)
=============================================================================
