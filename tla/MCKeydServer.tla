---------------------------- MODULE MCKeydServer ----------------------------
(* The poll loop with the sizes of KeydServer.cfg. *)
EXTENDS KeydServer
=============================================================================
