---------------------------- MODULE UserAccounts -----------------------------
(***************************************************************************)
(* What the users table is to its administrators and users (README.md and  *)
(* docs/API.md): a request changes one account, in one step, as the        *)
(* account is at that moment, and changes of it only what the request is   *)
(* about; a recovery code is accepted in the step that takes it away.      *)
(* Nothing is promised of an account one of whose writes was lost.         *)
(***************************************************************************)
CONSTANTS User, Secret, Code, None

VARIABLES
    account,     \* User -> the account
    spent,       \* User -> the recovery codes accepted for it
    unknown      \* accounts of which nothing is promised any more

accountVars == <<account, spent, unknown>>

Nobody == [exists |-> FALSE, role |-> "viewer", enabled |-> FALSE,
           secret |-> None, codes |-> {}]
Somebody(role) == [Nobody EXCEPT !.exists = TRUE, !.role = role]

Init ==
    /\ \E u \in User : account = [v \in User |-> IF v = u THEN Somebody("admin")
                                                          ELSE Nobody]
    /\ spent = [u \in User |-> {}]
    /\ unknown = {}

Becomes(u, row) ==
    /\ u \notin unknown
    /\ account' = [account EXCEPT ![u] = row]
    /\ UNCHANGED unknown

Create(u, role) ==
    /\ ~account[u].exists
    /\ Becomes(u, Somebody(role))
    /\ UNCHANGED spent

ChangeRole(u, role) ==
    /\ account[u].exists
    /\ Becomes(u, [account[u] EXCEPT !.role = role])
    /\ UNCHANGED spent

Delete(u) == Becomes(u, Nobody) /\ UNCHANGED spent

(* A secret is offered to somebody who has none.                           *)
Setup(u, s) ==
    /\ account[u].exists /\ ~account[u].enabled /\ account[u].secret = None
    /\ Becomes(u, [account[u] EXCEPT !.secret = s])
    /\ UNCHANGED spent

(* New codes are none that was ever accepted for this account.             *)
Enable(u, codes) ==
    /\ account[u].exists /\ account[u].secret # None
    /\ codes \cap spent[u] = {}
    /\ Becomes(u, [account[u] EXCEPT !.enabled = TRUE, !.codes = codes])
    /\ UNCHANGED spent

Accept(u, c) ==
    /\ c \in account[u].codes \ spent[u]
    /\ spent' = [spent EXCEPT ![u] = @ \cup {c}]

SignIn(u, c) ==
    /\ account[u].enabled
    /\ Accept(u, c)
    /\ Becomes(u, [account[u] EXCEPT !.codes = @ \ {c}])

Disable(u) ==
    /\ account[u].exists
    /\ UNCHANGED spent \/ \E c \in Code : Accept(u, c)
    /\ Becomes(u, [account[u] EXCEPT !.enabled = FALSE, !.secret = None,
                                     !.codes = {}])

Lose(u) ==
    /\ account' = [account EXCEPT ![u] = Nobody]
    /\ spent'   = [spent EXCEPT ![u] = {}]
    /\ unknown' = unknown \cup {u}

Next == \E u \in User :
    \/ \E role \in {"admin", "viewer"} : Create(u, role) \/ ChangeRole(u, role)
    \/ Delete(u)
    \/ \E s \in Secret : Setup(u, s)
    \/ \E codes \in SUBSET Code : Enable(u, codes)
    \/ \E c \in Code : SignIn(u, c)
    \/ Disable(u)
    \/ Lose(u)

Spec == Init /\ [][Next]_accountVars
=============================================================================
