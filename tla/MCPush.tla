------------------------------- MODULE MCPush -------------------------------
(* Two pushes to one application, up to an overrun beside another push:    *)
(* that is for ever, and MixedOnlyAfterOverrun asks nothing of what        *)
(* follows.                                                                *)
EXTENDS Push, TLC

Symmetry == Permutations(Hook) \cup Permutations(Sha)

NoneOverlapped == ~Overlapped
=============================================================================
