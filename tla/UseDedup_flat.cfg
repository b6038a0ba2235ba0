CONSTANTS
    Paths <- MCPaths
    Items <- MCItems
    Aliases <- MCAliases
    NoAlias = NoAlias
    MaxLines <- MCMaxLines
    MaxPasses <- MCMaxPasses
SPECIFICATION Spec
INVARIANT FlatPreserved
CHECK_DEADLOCK FALSE
