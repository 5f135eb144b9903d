----------------------------- MODULE MCAccounts -----------------------------
(* The instance of Accounts that TLC checks: which changes are asked for. *)
EXTENDS Accounts, TLC

None == [name |-> NoOne, role |-> NoOne, enabled |-> NoOne, password |-> FALSE]

\* Disable, enable, demote, promote and rename an account, change its password.
MCChanges ==
  {[None EXCEPT !.enabled = FALSE], [None EXCEPT !.enabled = TRUE],
   [None EXCEPT !.role = "viewer"], [None EXCEPT !.role = "admin"],
   [None EXCEPT !.password = TRUE]}
    \cup {[None EXCEPT !.name = n] : n \in Names}


Symmetry == Permutations(Requests) \cup Permutations(Names)
=============================================================================
