CONSTANTS
    Names <- MCNames
    MaxFns <- MCMaxFns
    MaxPasses <- MCMaxPasses
    Scripts <- MCBoth
SPECIFICATION Spec
INVARIANT NoNeedNoChange
INVARIANT RemainingWellFormed
CHECK_DEADLOCK FALSE
