\* Two applications and a directory whose name differs from one in case only.
SPECIFICATION Spec
CONSTANTS
    Name <- MCName
    Lower <- MCLower
    Sha = {"s1"}
INVARIANT TypeOK
PROPERTIES
    SparesSettledApps
    DeadDirsGoAway
