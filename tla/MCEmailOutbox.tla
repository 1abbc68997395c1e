---------------------------- MODULE MCEmailOutbox ----------------------------
(* Small instances of EmailOutbox. *)
EXTENDS EmailOutbox, TLC

Symmetry == Permutations(Jobs) \cup Permutations(Tokens) \cup Permutations(Addresses)
                \cup Permutations(Users) \cup Permutations(Keys)
=============================================================================
