------------------------------- MODULE MCBoot -------------------------------
(* The process, its restarts, and the requests to its health server.       *)
EXTENDS Boot
=============================================================================
