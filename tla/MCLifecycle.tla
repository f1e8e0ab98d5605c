---------------------------- MODULE MCLifecycle ----------------------------
(* Instances of Lifecycle for TLC. *)
EXTENDS Lifecycle, TLC

\* Players, handler goroutines and teardown goroutines are interchangeable.
Symmetry == Permutations(Session) \cup Permutations(Request) \cup Permutations(Teardown)
=============================================================================
