------------------------------- MODULE Accounts -------------------------------
(***************************************************************************)
(* The users table: roles, deletion, passwords, two-factor authentication  *)
(* and recovery codes (internal/auth/auth.go; internal/api/server.go:      *)
(* login, usersAPI, changePassword and the 2fa handlers;                   *)
(* internal/storage/store.go: PutUser, GetUser, DeleteUser; cmd/sb-web:    *)
(* reset-admin-password).                                                  *)
(*                                                                         *)
(* A row is one JSON value.  Every operation but DeleteUser reads the      *)
(* whole row in one statement and writes the whole row in another; whether *)
(* somebody is the last administrator is asked in one statement for each   *)
(* user.  Requests of other users run between any two statements.          *)
(* Password hashes are not kept: a new password matters here because the   *)
(* row it was read in is written.                                          *)
(***************************************************************************)
EXTENDS Integers

CONSTANTS
    User,          \* user names
    Handler,       \* requests, and commands of the operator, at work at once
    Secret,        \* TOTP secrets that are generated
    Code,          \* recovery codes that are generated
    None           \* no user, secret or code

ASSUME AccountsAssumption ==
    None \notin User \cup Secret \cup Code /\ Secret \cap Code = {}

VARIABLES
    users,       \* the users table
    work,        \* handler -> what it is about to do
    issued,      \* secrets and codes that were generated
    confirmed,   \* history: secrets a user has given a code for
    uses,        \* history: Code -> how often it was accepted, up to MaxUses
    owner,       \* history: Code -> the user it was generated for
    deleted,     \* history: users that were deleted and not created since
    tainted,     \* history: users of whom a write was lost, because another
                 \* one that had not seen it followed, or it failed unnoticed
    raced,       \* history: an administrator went while others were counted
    reopened     \* history: codes two requests took at once, or a write that
                 \* was lost left good

vars == <<users, work, issued, confirmed, uses, owner, deleted, tainted,
          raced, reopened>>
historyVars == <<confirmed, uses, owner, deleted, tainted, raced, reopened>>

MaxUses == 2     \* bound: more often is not told apart

(* types.User.  Every role but "admin" is "viewer" here.                   *)
Role  == {"admin", "viewer"}
Row   == [exists : BOOLEAN, role : Role, enabled : BOOLEAN,
          secret : Secret \cup {None}, codes : SUBSET Code]
NoRow == [exists |-> FALSE, role |-> "viewer", enabled |-> FALSE,
          secret |-> None, codes |-> {}]
NewRow(role) == [NoRow EXCEPT !.exists = TRUE, !.role = role]

(* What a handler is about to do.  Those Managing have a user to delete or *)
(* a role to give, which is "row"; in a count "left" are the users to ask  *)
(* about and "found" the administrators so far, up to Enough.  Those       *)
(* Writing have the row they will write, and "stale" is set when somebody  *)
(* else writes it meanwhile; "code" is the recovery code that will be      *)
(* accepted.                                                               *)
Enough   == 2     \* bound: more administrators are not told apart
Managing == {"get", "ask", "list", "count", "role", "delete"}
Writing  == {"setrole", "create", "write", "login"}
Work == [op : {"idle"} \cup Managing \cup Writing, user : User \cup {None},
         row : Row, code : Code \cup {None}, stale : BOOLEAN,
         left : SUBSET User, found : 0 .. Enough]
About(op, u, row, code) ==
    [op |-> op, user |-> u, row |-> row, code |-> code, stale |-> FALSE,
     left |-> {}, found |-> 0]
Checked(op, u, row) == About(op, u, row, None)
Counting(w, left, n) == [w EXCEPT !.op = "count", !.left = left, !.found = n]
Idle == Checked("idle", None, NoRow)

Init ==
    /\ \E u \in User :
          users = [v \in User |-> IF v = u THEN NewRow("admin") ELSE NoRow]
    /\ work      = [h \in Handler |-> Idle]
    /\ issued    = {}
    /\ confirmed = {}
    /\ uses      = [c \in Code |-> 0]
    /\ owner     = [c \in Code |-> None]
    /\ deleted = {} /\ tainted = {} /\ raced = FALSE
    /\ reopened = {}

---------------------------------------------------------------------------
Exists(u) == users[u].exists

(* Manager.Role, which takes a user that is not there for an admin too.    *)
RoleOf(u) == IF Exists(u) THEN users[u].role ELSE "admin"

Admins == {u \in User : Exists(u) /\ users[u].role = "admin"}

(* Requests of an administrator, whose account may be deleted while they   *)
(* are under way.                                                          *)
Acting == {a \in User : RoleOf(a) = "admin" /\ (Exists(a) \/ a \in deleted)}

Becomes(h, w) == work' = [work EXCEPT ![h] = w]
Begin(h, w)   == work[h] = Idle /\ Becomes(h, w)

(* h has done its write to the row of u, or deleted it.                    *)
Done(h, u) == work' = [g \in Handler |->
    IF g = h THEN Idle
    ELSE IF work[g].user = u /\ work[g].op \in Writing
         THEN [work[g] EXCEPT !.stale = TRUE] ELSE work[g]]

---------------------------------------------------------------------------
(* Mutated forms of the actions, used only to test the properties.         *)

LastAdminMayGo(n) == n >= 1
CodesAreKept(row, c) == row
SetRoleInserts(h) ==
    /\ work[h].op = "role"
    /\ work' = [work EXCEPT ![h] =
         Checked("setrole", work[h].user, [users[work[h].user] EXCEPT
                    !.exists = TRUE, !.role = work[h].row.role])]
    /\ UNCHANGED <<users, issued, historyVars>>
SetRoleForgets(h) ==
    /\ work[h].op = "role"
    /\ work' = [work EXCEPT ![h] = IF Exists(work[h].user)
         THEN Checked("setrole", work[h].user, NewRow(work[h].row.role)) ELSE Idle]
    /\ UNCHANGED <<users, issued, historyVars>>
DisableKeepsCodes(h, u, c) ==
    /\ Exists(u)
    /\ c \in users[u].codes \/ c = None
    /\ Begin(h, About("write", u,
                      [users[u] EXCEPT !.enabled = FALSE, !.secret = None], c))
    /\ UNCHANGED <<users, issued, historyVars>>

---------------------------------------------------------------------------
(* usersAPI: requests of an administrator                                  *)

(* The role of the one who asks is looked up; users cannot delete          *)
(* themselves.                                                             *)
Patch(h, u, role) ==
    /\ Acting # {}
    /\ Begin(h, Checked("ask", u, NewRow(role)))
    /\ UNCHANGED <<users, issued, historyVars>>
Delete(h, u) ==
    /\ Acting \ {u} # {}
    /\ Begin(h, Checked("get", u, NoRow))
    /\ UNCHANGED <<users, issued, historyVars>>

(* GetUser of the user to delete.                                          *)
GetTarget(h) ==
    /\ work[h].op = "get"
    /\ Becomes(h, IF Exists(work[h].user) THEN [work[h] EXCEPT !.op = "ask"]
                                          ELSE Idle)
    /\ UNCHANGED <<users, issued, historyVars>>

(* What follows the checks; NoRow stands for a deletion.                   *)
Granted(w) == [w EXCEPT !.op = IF w.row.exists THEN "role" ELSE "delete",
                        !.left = {}, !.found = 0]

(* Role of the user to change or delete: an administrator is not lowered   *)
(* before the administrators are counted.                                  *)
TargetRole(h) ==
    /\ work[h].op = "ask"
    /\ Becomes(h, IF work[h].row.role # "admin" /\ RoleOf(work[h].user) = "admin"
                  THEN [work[h] EXCEPT !.op = "list"] ELSE Granted(work[h]))
    /\ UNCHANGED <<users, issued, historyVars>>

ListUsers(h) ==
    /\ work[h].op = "list"
    /\ LET listed == {u \in User : Exists(u)} IN
       Becomes(h, IF listed = {} THEN Idle ELSE Counting(work[h], listed, 0))
    /\ UNCHANGED <<users, issued, historyVars>>

(* LAST_ADMIN_REQUIRED.                                                    *)
Sufficient(n) == n >= Enough

(* One Role of the loop, in any order, of which that of the names is one;  *)
(* the last one decides.                                                   *)
CountRole(h, u) ==
    /\ work[h].op = "count" /\ u \in work[h].left
    /\ LET n == IF RoleOf(u) = "admin" /\ work[h].found < Enough
                THEN work[h].found + 1 ELSE work[h].found
           left == work[h].left \ {u}
       IN Becomes(h, IF left # {} THEN Counting(work[h], left, n)
                     ELSE IF Sufficient(n) THEN Granted(work[h]) ELSE Idle)
    /\ UNCHANGED <<users, issued, historyVars>>

(* Those who count administrators, or will leave one less.                 *)
Lowers(w) == \/ w.op \in {"count", "delete"}
             \/ w.op \in {"role", "setrole"} /\ w.row.role # "admin"
OthersLower(h) == \E g \in Handler \ {h} : Lowers(work[g])

(* SetRole reads the row after the check; it fails if there is none.       *)
SetRole(h) ==
    /\ work[h].op = "role"
    /\ work' = [work EXCEPT ![h] =
         IF Exists(work[h].user)
         THEN Checked("setrole", work[h].user,
                      [users[work[h].user] EXCEPT !.role = work[h].row.role])
         ELSE Idle]
    /\ UNCHANGED <<users, issued, historyVars>>

(* DeleteUser.                                                             *)
DeleteUser(h) ==
    /\ work[h].op = "delete"
    /\ users' = [users EXCEPT ![work[h].user] = NoRow]
    /\ Done(h, work[h].user)
    /\ deleted' = deleted \cup {work[h].user}
    /\ raced' = \/ raced
                \/ work[h].user \in Admins /\ OthersLower(h)
                \/ \E g \in Handler \ {h} : work[h].user \in work[g].left
    /\ UNCHANGED <<issued, confirmed, uses, owner, tainted, reopened>>

(* CreateUser up to the lookup of the name.                                *)
CreateUser(h, u, role) ==
    /\ Acting # {} /\ ~Exists(u)
    /\ Begin(h, Checked("create", u, NewRow(role)))
    /\ UNCHANGED <<users, issued, historyVars>>

---------------------------------------------------------------------------
(* Requests about one's own account, and reset-admin-password              *)

SetPassword(h, u) ==
    /\ Exists(u)
    /\ Begin(h, Checked("write", u, users[u]))
    /\ UNCHANGED <<users, issued, historyVars>>

(* SetupTOTP, unless it answers with the secret that is there already.     *)
SetupTOTP(h, u) ==
    /\ Exists(u) /\ ~users[u].enabled /\ users[u].secret = None
    /\ \E s \in Secret \ issued :
         /\ Begin(h, Checked("write", u, [users[u] EXCEPT !.secret = s]))
         /\ issued' = issued \cup {s}
    /\ UNCHANGED <<users, historyVars>>

(* EnableTOTP with the right code for the secret; it does not ask whether  *)
(* TOTP is enabled already.                                                *)
EnableTOTP(h, u) ==
    /\ Exists(u) /\ users[u].secret # None
    /\ confirmed' = confirmed \cup {users[u].secret}
    /\ \E codes \in SUBSET (Code \ issued) :
         /\ codes # {}
         /\ Begin(h, Checked("write", u, [users[u] EXCEPT !.enabled = TRUE,
                                                          !.codes = codes]))
         /\ issued' = issued \cup codes
         /\ owner' = [c \in Code |-> IF c \in codes THEN u ELSE owner[c]]
    /\ UNCHANGED <<users, uses, deleted, tainted, raced, reopened>>

(* ConsumeRecoveryCode.                                                    *)
Consumed(row, c) == [row EXCEPT !.codes = @ \ {c}]
Takes(c) == reopened' = IF \E g \in Handler : work[g].code = c /\ c # None
                        THEN reopened \cup {c} ELSE reopened

(* DisableTOTP with a code of the authenticator (None) or a recovery code. *)
DisableTOTP(h, u, c) ==
    /\ Exists(u)
    /\ c \in users[u].codes \/ c = None
    /\ Begin(h, About("write", u, [users[u] EXCEPT
                      !.enabled = FALSE, !.secret = None, !.codes = {}], c))
    /\ Takes(c)
    /\ UNCHANGED <<users, issued, confirmed, uses, owner, deleted, tainted,
                   raced>>

(* login with a recovery code.                                             *)
Login(h, u, c) ==
    /\ Exists(u) /\ users[u].enabled /\ c \in users[u].codes
    /\ Begin(h, About("login", u, Consumed(users[u], c), c))
    /\ Takes(c)
    /\ UNCHANGED <<users, issued, confirmed, uses, owner, deleted, tainted,
                   raced>>

---------------------------------------------------------------------------
(* The second half of all these.                                           *)

Accepted(c) == uses' = [d \in Code |-> IF d = c /\ uses[d] < MaxUses
                                       THEN uses[d] + 1 ELSE uses[d]]

(* PutUser: an INSERT if the row is gone.                                  *)
PutUser(h) ==
    /\ work[h].op \in Writing
    /\ users' = [users EXCEPT ![work[h].user] = work[h].row]
    /\ Done(h, work[h].user)
    /\ Accepted(work[h].code)
    /\ deleted' = IF work[h].op = "create" THEN deleted \ {work[h].user}
                                        ELSE deleted
    /\ tainted' = IF work[h].stale THEN tainted \cup {work[h].user} ELSE tainted
    /\ raced' = \/ raced
                \/ /\ work[h].user \in Admins /\ work[h].row.role # "admin"
                   /\ work[h].stale \/ OthersLower(h)
    /\ reopened' = IF work[h].stale
                   THEN reopened \cup {c \in work[h].row.codes : uses[c] > 0}
                   ELSE reopened
    /\ UNCHANGED <<issued, confirmed, owner>>

(* PutUser fails.  login ignores that: the user is signed in.              *)
PutUserFails(h) ==
    /\ work[h].op \in Writing
    /\ work' = [work EXCEPT ![h] = Idle]
    /\ IF work[h].op = "login"
       THEN /\ Accepted(work[h].code)
            /\ tainted' = tainted \cup {work[h].user}
            /\ reopened' = reopened \cup ({work[h].code} \ {None})
       ELSE UNCHANGED <<uses, tainted, reopened>>
    /\ UNCHANGED <<users, issued, confirmed, owner, deleted, raced>>

(* The controller crashes and starts again: EnsureOwner makes a new owner  *)
(* if the table is empty.                                                  *)
Restart ==
    /\ work' = [h \in Handler |-> Idle]
    /\ IF \E u \in User : Exists(u) THEN UNCHANGED <<users, deleted>>
       ELSE \E u \in User :
              /\ users' = [users EXCEPT ![u] = NewRow("admin")]
              /\ deleted' = deleted \ {u}
    /\ UNCHANGED <<issued, confirmed, uses, owner, tainted, raced, reopened>>

---------------------------------------------------------------------------
HandlerStep(h) ==
    \/ \E u \in User :
         \/ \E role \in Role : Patch(h, u, role) \/ CreateUser(h, u, role)
         \/ Delete(h, u) \/ CountRole(h, u)
         \/ SetPassword(h, u)
         \/ SetupTOTP(h, u)
         \/ EnableTOTP(h, u)
         \/ \E c \in Code \cup {None} : DisableTOTP(h, u, c)
         \/ \E c \in Code : Login(h, u, c)
    \/ GetTarget(h) \/ TargetRole(h) \/ ListUsers(h)
    \/ SetRole(h)
    \/ DeleteUser(h)
    \/ PutUser(h)
    \/ PutUserFails(h)

Next == (\E h \in Handler : HandlerStep(h)) \/ Restart

Spec == Init /\ [][Next]_vars

---------------------------------------------------------------------------
(* Properties                                                              *)

(* The variables hold the values the code can give them.                   *)
TypeOK ==
    /\ users \in [User -> Row]
    /\ work \in [Handler -> Work]
    /\ \A h \in Handler : work[h].op = "idle" <=> work[h].user = None
    /\ issued \subseteq Secret \cup Code
    /\ confirmed \subseteq Secret
    /\ uses \in [Code -> 0 .. MaxUses]
    /\ owner \in [Code -> User \cup {None}]
    /\ deleted \subseteq User /\ tainted \subseteq User
    /\ raced \in BOOLEAN /\ reopened \subseteq Code

(* LAST_ADMIN_REQUIRED, "at least one administrator must be kept"          *)
(* (usersAPI), although the administrators are counted in many statements  *)
(* and taken away in a later one.  No request and no crash, at any point   *)
(* of the count, leaves the panel without one, but for three things: an    *)
(* administrator is demoted or deleted while another request counts or is  *)
(* about to do the same; a user is deleted before a count comes to ask for *)
(* the role; a write that had not seen a promotion takes it back.          *)
AdminRemains == ~raced => Admins # {}

(* A deleted user does not come back through a request that was checked    *)
(* before, unless that request had read the row already.                   *)
DeletedStaysDeleted == \A u \in deleted \ tainted : ~Exists(u)

(* README.md: "one-time recovery codes".  No login, change of the account  *)
(* or crash makes a code good for a second time, but for three things: two *)
(* requests that are at work at once are given the same code, and both are *)
(* accepted; another request writes back a row it read before the code was *)
(* used; login cannot store that it was.                                   *)
RecoveryCodeOnce == \A c \in Code \ reopened : uses[c] <= 1

(* Two-factor authentication is never enabled with a secret its user has   *)
(* not shown a code for, and no recovery code outlives it, whichever of    *)
(* several concurrent writes of the row comes last.                        *)
SecondFactorConfirmed == \A u \in User :
    IF users[u].enabled THEN users[u].secret \in confirmed
                        ELSE users[u].codes = {}

(* Every request reads a row and writes it in two statements with others   *)
(* in between, and yet it is one change of one account, made where it is   *)
(* written: no lookup was out of date there, nothing but what the request  *)
(* is about has changed, and a code that is accepted is gone in the same   *)
(* step.  Except are accounts a write of which was lost.                   *)
Account(u) == IF u \in tainted THEN NoRow ELSE users[u]
Spent(u)   == {c \in Code : u \notin tainted /\ owner[c] = u /\ uses[c] > 0}
Table == INSTANCE UserAccounts WITH
    account <- [u \in User |-> Account(u)],
    spent   <- [u \in User |-> Spent(u)],
    unknown <- tainted
ImplementsAccounts == Table!Spec
=============================================================================
