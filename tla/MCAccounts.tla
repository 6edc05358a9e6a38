----------------------------- MODULE MCAccounts -----------------------------
(* Instances of Accounts for TLC.                                          *)
EXTENDS Accounts, TLC

(* Users, requests, secrets and codes are interchangeable.                 *)
Symmetry == Permutations(User) \cup Permutations(Handler)
                \cup Permutations(Secret) \cup Permutations(Code)

(* Bound: a history in which an administrator went in a race and a code    *)
(* was opened again besides is not followed; the first says nothing about  *)
(* codes, the second nothing about administrators.                         *)
OneExcuse == ~(raced /\ reopened # {})
=============================================================================
