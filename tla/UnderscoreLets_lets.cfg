CONSTANTS
    Names <- MCNames
    MaxStmts <- MCMaxStmts
    MaxPasses <- MCMaxPasses
    Scripts <- MCBoth
SPECIFICATION Spec
INVARIANT FinalRenameCorrect
INVARIANT SingleRenameCorrect
CHECK_DEADLOCK FALSE
