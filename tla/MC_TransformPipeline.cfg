CONSTANTS
    Funcs <- MCFuncs
    Uses <- MCUses
    Helper <- MCHelper
    Passes <- MCPasses
SPECIFICATION Spec
INVARIANT TypeOK
INVARIANT SwitchesWellFormed
INVARIANT NoCodeAfterReturn
\* the host returns once every pass ran or one failed
CHECK_DEADLOCK FALSE
