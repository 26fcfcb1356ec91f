----------------------------- MODULE MCCallGraph -----------------------------
(* Every call graph over one import and three defined functions.            *)
EXTENDS CallGraph

MCGraphs == {g \in [Funcs -> SUBSET Funcs] : \A f \in Funcs : f < NImpF => g[f] = {}}
=============================================================================
