------------------------------- MODULE MCRust -------------------------------
(* RustServer on small instances. *)
EXTENDS RustServer
=============================================================================
