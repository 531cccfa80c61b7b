---------------------------- MODULE MCClassCache ----------------------------
(* Instances of ClassCache for TLC. *)
EXTENDS ClassCache, TLC

Symmetry ==
  Permutations(Thread) \cup Permutations(Class) \cup Permutations(Loader \ {Boot})
=============================================================================
