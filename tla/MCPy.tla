-------------------------------- MODULE MCPy --------------------------------
(* PyServer on small instances. *)
EXTENDS PyServer
=============================================================================
