------------------------------ MODULE MCLWWMap ------------------------------
(* Small instances of LWWMap for TLC. Keys are interchangeable. *)
EXTENDS LWWMap, TLC

KeySymmetry == Permutations(Key)
=============================================================================
