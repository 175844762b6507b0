\* One push after another on one repository.
SPECIFICATION SafetySpec
CONSTANTS
    c1 = c1
    c2 = c2
    r1 = r1
    r2 = r2
    Call = {c1}
    Repo = {r1}
    Request <- AnyRequest
    NoRepo = NoRepo
    NoCall = NoCall
    MayTimeout = FALSE
PROPERTY FoundMeansRepository
CHECK_DEADLOCK FALSE
