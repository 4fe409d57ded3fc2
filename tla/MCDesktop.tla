----------------------------- MODULE MCDesktop -----------------------------
(* A small instance of Desktop. *)
EXTENDS Desktop, TLC

Symmetry == Permutations(Programs)
=============================================================================
