---------------------------- MODULE MCThreadPool ----------------------------
(* ThreadPool on small instances.  Workers, callers and tasks are told     *)
(* apart by nothing but their identity.                                    *)
EXTENDS ThreadPool, TLC

Symmetry ==
  Permutations(Workers) \cup Permutations(Callers) \cup Permutations(Tasks)
=============================================================================
