-------------------------- MODULE MC_ParamRenames --------------------------
(* Files of up to two functions of one or two parameters over two names,  *)
(* two runs of the scripts in any order.                                          *)
EXTENDS ParamRenames

MCNames == {"a", "b"}
MCMaxFns == 2
MCMaxPasses == 2
MCBoth == {"final", "remaining"}
=============================================================================
