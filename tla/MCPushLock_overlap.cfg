\* The lock's stated purpose, read without the timeout's exception.
SPECIFICATION Spec
CONSTANTS
    Call = {c1, c2}
    Repo = {r1}
    NoRepo = NoRepo
INVARIANT NoSimultaneousGitOps
