---------------------------- MODULE MCObjectStore ----------------------------
(* ObjectStore on a small instance, modulo permutations of the keys.  *)
EXTENDS ObjectStore, TLC

KeySymmetry == Permutations(Keys)
=============================================================================
