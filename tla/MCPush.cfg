\* Two pushes of one ref each.
SPECIFICATION PushSpec
CONSTANTS
    Hook = {h1, h2}
    Sha = {s1, s2}
    MaxLines = 1
    App = app
    NoApp = noApp
CONSTRAINT NoneOverlapped
SYMMETRY Symmetry
INVARIANT MixedOnlyAfterOverrun
