\* One push of up to three refs.
SPECIFICATION Spec
CONSTANTS
    Hook = {h1}
    Sha = {s1, s2}
    MaxLines = 3
INVARIANTS
    TypeOK
    NoReleaseOfFailedContainer
    ReleaseMatchesCommit
    AcceptedMeansReleased
PROPERTY HookEnds
