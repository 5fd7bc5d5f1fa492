----------------------------- MODULE MCModuleCache -----------------------------
(***************************************************************************)
(* Two processes that resolve two modules over one cache, each module      *)
(* required at one of two versions or not at all.                          *)
(***************************************************************************)
EXTENDS ModuleCache, TLC

CONSTANTS p1, p2, v1, v2

MCProcesses == {p1, p2}
MCVersions == {v1, v2}
===============================================================================
