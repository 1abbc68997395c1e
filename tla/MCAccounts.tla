------------------------------ MODULE MCAccounts ------------------------------
(* Small instances of Accounts. *)
EXTENDS Accounts, TLC

Symmetry == Permutations(Challenges)
                \cup Permutations(Resets) \cup Permutations(RecoveryCodes)
=============================================================================
