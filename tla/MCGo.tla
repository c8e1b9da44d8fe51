-------------------------------- MODULE MCGo --------------------------------
(* GoServer on small instances. *)
EXTENDS GoServer
=============================================================================
