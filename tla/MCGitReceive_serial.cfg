\* Two calls, two repositories, and no operation outlasts the lock; clients
\* may leave, so a call's name may be lost to a hanging worker.
SPECIFICATION Spec
CONSTANTS
    c1 = c1
    c2 = c2
    r1 = r1
    r2 = r2
    Call = {c1, c2}
    Repo = {r1, r2}
    Request <- OwnRequest
    NoRepo = NoRepo
    NoCall = NoCall
    MayTimeout = FALSE
PROPERTY PushAnswered
CHECK_DEADLOCK FALSE
