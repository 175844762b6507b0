---------------------------- MODULE MCGitReceive ----------------------------
(* GitReceive on small instances: two calls are enough for an abandoned    *)
(* worker to meet the push that comes after it, and for two workers to     *)
(* meet at the mutex.                                                      *)
EXTENDS GitReceive, TLC

CONSTANTS c1, c2, r1, r2

AnyRequest == Call \X Repo \X Operation

(* Each call pushes to a repository of its own. *)
OwnRequest ==
    {<<c1, r1, "git-receive-pack">>, <<c2, r2, "git-receive-pack">>}

Symmetry == Permutations(Call)
=============================================================================
