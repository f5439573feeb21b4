----------------------------- MODULE MCAccounts -----------------------------
(* Instances of Accounts for TLC.                                          *)
EXTENDS Accounts, TLC

\* Shorter and longer lives than the time between two ticks and the bound.
MCLifetime == "verify-user" :> 2 @@ "reset-password" :> 1 @@ "refresh" :> 1

Symmetry == Permutations(Accounts) \cup Permutations(Tokens) \cup Permutations(Requests)
=============================================================================
