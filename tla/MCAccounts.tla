----------------------------- MODULE MCAccounts -----------------------------
(* Symmetry for the run of Accounts.                                       *)
EXTENDS Accounts, TLC

Symmetry ==
    Permutations(Threads) \cup Permutations(Gens) \cup Permutations(Rows)
        \cup Permutations(Cookies)
=============================================================================
