---------------------------- MODULE MCSSHSession ----------------------------
(* SSHSession on a small instance.                                         *)
EXTENDS SSHSession
=============================================================================
