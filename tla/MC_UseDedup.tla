---------------------------- MODULE MC_UseDedup ----------------------------
(* Files of up to four lines over two paths and two items with an alias, *)
(* or of five without one (a module with its own imports needs five), the *)
(* script run twice.                                                       *)
EXTENDS UseDedup

MCPaths == {"p", "q"}
MCItems == {"X", "Y"}
MCAliases == {"Z"}
MCMaxLines == 4
MCMaxLinesScoped == 5
MCMaxPasses == 2
=============================================================================
