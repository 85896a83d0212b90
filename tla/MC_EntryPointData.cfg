CONSTANTS
    Idents <- MCIdents
    Decl <- MCDecl
    Stages <- MCStages
    MaxStmts = 3
SPECIFICATION Spec
INVARIANTS TypeOK EntryPointStructsMatchBody
\* The test returns once EmitEntryPointData has written its structs.
CHECK_DEADLOCK FALSE
