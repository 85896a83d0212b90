CONSTANTS
    Bases <- MCBases
    AliasNames <- MCAliasNames
    MaxDepth = 3
    Null = Null

SPECIFICATION Spec

INVARIANT TypeOK
