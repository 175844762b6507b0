\* Two calls on one repository, and timeouts.  A worker whose client left
\* early may hang for ever and keep its call's name, so the instance can run
\* out of names.
SPECIFICATION SafetySpec
CONSTANTS
    c1 = c1
    c2 = c2
    r1 = r1
    r2 = r2
    Call = {c1, c2}
    Repo = {r1}
    Request <- AnyRequest
    NoRepo = NoRepo
    NoCall = NoCall
    MayTimeout = TRUE
INVARIANTS
    TypeOK
    NoOrphanRepoDir
    UnbuiltOnlyAfterTimeout
PROPERTY NobodyJoinsHalfMadeRepo
SYMMETRY Symmetry
CHECK_DEADLOCK FALSE
