------------------------------- MODULE MCCpp --------------------------------
(* CppServer on small instances. *)
EXTENDS CppServer, TLC

\* Threads are interchangeable: sound for the runs that check safety.
Symmetry == Permutations(Threads)
=============================================================================
