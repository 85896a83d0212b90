CONSTANTS
    Stmts <- MCStmts
    Prologue = Prologue
    Block = Block
SPECIFICATION Spec
INVARIANT BodyReplacementHonoured
\* The transform's Run returns once the function is cloned.
CHECK_DEADLOCK FALSE
