\* A pod that never ends.
SPECIFICATION HookSpec
CONSTANTS
    Hook = {h1}
    Sha = {s1}
    MaxLines = 1
PROPERTY HookEnds
