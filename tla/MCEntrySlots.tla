---------------------------- MODULE MCEntrySlots ----------------------------
(* EntrySlots for TLC: pairs and callers are interchangeable. *)
EXTENDS EntrySlots, TLC

Symmetry == Permutations(Pairs) \cup Permutations(Callers)
=============================================================================
