----------------------------- MODULE MCPushLock -----------------------------
(* PushLock on a small instance: two calls, for an abandoned worker and    *)
(* the call that comes after it, and two repositories.                     *)
EXTENDS PushLock
=============================================================================
