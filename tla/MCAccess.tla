------------------------------ MODULE MCAccess ------------------------------
(* Access on a small instance.  Users, sessions, tokens and requests are   *)
(* interchangeable.                                                        *)
EXTENDS Access, TLC
Symmetry == Permutations(User) \cup Permutations(Session)
                \cup Permutations(Handler)

(* Bound: once a token is there, no session and no account is made.  What  *)
(* requests with a token do and what the others do act on nothing of each  *)
(* other but the handlers that are free.                                   *)
Apart == minted # {} => spent = {} /\ created = 1
=============================================================================
