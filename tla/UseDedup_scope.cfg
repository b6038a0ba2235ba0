CONSTANTS
    Paths <- MCPaths
    Items <- MCItems
    Aliases = {}
    NoAlias = NoAlias
    MaxLines <- MCMaxLinesScoped
    MaxPasses <- MCMaxPasses
SPECIFICATION Spec
INVARIANT ImportsResolve
CHECK_DEADLOCK FALSE
