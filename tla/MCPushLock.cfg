\* No symmetry: liveness is checked.
SPECIFICATION Spec
CONSTANTS
    Call = {c1, c2}
    Repo = {r1, r2}
    NoRepo = NoRepo
INVARIANTS
    TypeOK
    LockExact
    OverlapOnlyAfterTimeout
PROPERTIES
    LockReleased
    WorkerNotStranded
    ImplementsRepoMutex
