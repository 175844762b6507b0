\* The settings of each part of a build, at their limits.
SPECIFICATION Spec
CONSTANTS
    String <- MCString
    Millisecond = 1000
    MaxDuration <- MCMaxDuration
    Inputs <- MCInputs
INVARIANTS
    TypeOK
    TicksFit
    StackOfBestRank
    BuilderValuesWin
    ImageInItsRegistry
    PanicsOnlyFor
