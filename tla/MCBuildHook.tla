---------------------------- MODULE MCBuildHook ----------------------------
(* BuildHook on small instances.                                           *)
EXTENDS BuildHook
=============================================================================
