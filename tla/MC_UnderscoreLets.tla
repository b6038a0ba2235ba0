------------------------- MODULE MC_UnderscoreLets -------------------------
(* Files of up to three statements over two names, two runs of the scripts in any order. *)
EXTENDS UnderscoreLets

MCNames == {"a", "b"}
MCMaxStmts == 3
MCMaxPasses == 2
MCFinal == {"final"}
MCRemaining == {"remaining"}
MCBoth == {"final", "remaining"}
=============================================================================
