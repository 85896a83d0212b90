CONSTANTS
    kNames <- HlslKNames
    Inputs <- MCInputs
    NoName = NoName

SPECIFICATION Spec

INVARIANT TypeOK
INVARIANT UniqueNames
INVARIANT NoReservedOutput

PROPERTY SanitizerRefinement
