----------------------------- MODULE MCConsoleTabs -----------------------------
(* Small instances of ConsoleTabs. *)
EXTENDS ConsoleTabs, TLC

Symmetry == Permutations(Tabs)
===============================================================================
