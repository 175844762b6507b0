----------------------------- MODULE RepoMutex -----------------------------
(***************************************************************************)
(* What the push lock of pkg/sshd promises, without timers, goroutines or  *)
(* channels: per repository, at most one git operation holds the lock, and *)
(* an operation that holds it gives it back.                               *)
(***************************************************************************)
CONSTANTS Call,   \* the git operations the SSH server runs
          Repo    \* the repository names they lock

VARIABLE held     \* the pairs <<call, repository>> of the locks held now

Init == held = {}

(* Lock succeeds: nobody holds r, and c holds nothing. *)
Acquire(c, r) ==
    /\ \A d \in Call : <<d, r>> \notin held
    /\ \A q \in Repo : <<c, q>> \notin held
    /\ held' = held \cup {<<c, r>>}

(* Unlock by the holder. *)
Release(c, r) ==
    /\ <<c, r>> \in held
    /\ held' = held \ {<<c, r>>}

Next == \E c \in Call, r \in Repo : Acquire(c, r) \/ Release(c, r)

Spec == Init /\ [][Next]_held

(* A lock that is held is eventually given back. *)
FairSpec == Spec /\ \A c \in Call, r \in Repo : WF_held(Release(c, r))
=============================================================================
