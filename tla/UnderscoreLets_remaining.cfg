CONSTANTS
    Names <- MCNames
    MaxStmts <- MCMaxStmts
    MaxPasses <- MCMaxPasses
    Scripts <- MCRemaining
SPECIFICATION Spec
INVARIANT RenameCorrect
CHECK_DEADLOCK FALSE
