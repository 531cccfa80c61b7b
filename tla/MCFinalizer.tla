---------------------------- MODULE MCFinalizer ----------------------------
(* Small instances of Finalizer. *)
EXTENDS Finalizer

CONSTANTS o1, o2, o3

\* o1 refers to o2, and o2 to o3.
RefChain == {<<o1, o2>>, <<o2, o3>>}
=============================================================================
