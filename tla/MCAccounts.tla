----------------------------- MODULE MCAccounts -----------------------------
(* Small instance of Accounts.                                             *)
EXTENDS Accounts, TLC

MCLimit == [k \in Keys |-> 1]
MCSymmetry == Permutations(Requests) \union Permutations(Names)
                \union Permutations(Passwords)
=============================================================================
