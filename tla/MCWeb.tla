------------------------------- MODULE MCWeb --------------------------------
(* WebClient on a small instance. *)
EXTENDS WebClient

\* One of them negative, one left out.
MCStamps == {-3, Undefined, 2}

\* Sockets are interchangeable.
Symmetry == Permutations(Sockets)
=============================================================================
