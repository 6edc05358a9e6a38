------------------------------- MODULE Access -------------------------------
(***************************************************************************)
(* Sessions, API tokens and the limiter of logins (internal/api/server.go: *)
(* login, loginAllowed, recordLoginFailure, clearLoginFailures, logout,    *)
(* changePassword, usersAPI, tokensAPI; internal/auth/auth.go: CreateUser, *)
(* NewSession, AuthenticateAPIToken; internal/storage/store.go: sessions,  *)
(* api_tokens, PutUser, DeleteUser).                                       *)
(*                                                                         *)
(* A login passes the limiter, compares the password with the user's row,  *)
(* reads the row again, clears the limiter and inserts a session: separate *)
(* steps, between which accounts are deleted and created, other logins     *)
(* fail and minutes pass.  A password change, a login with a recovery code *)
(* and the use of a token write back the row they have read; a creation    *)
(* looks the name up and writes its row later, whatever is there by then.  *)
(*                                                                         *)
(* One client address: the limiter keeps an entry for each, and they do    *)
(* not act on each other.  What the rows of the users hold is in Accounts; *)
(* here a row is the number of the account's creation.                     *)
(***************************************************************************)
EXTENDS Integers, FiniteSets

CONSTANTS
    User, Session, Token,
    Handler,       \* requests at work at once
    None,          \* no user, session or token
    Limit,         \* the failure that blocks the address (5)
    Cap,           \* the longest block, in minutes (15)
    SessionLife,   \* of a session, in minutes (12 hours)
    MaxTime,       \* bound of the model on the clock
    MaxCreated,    \* bound: accounts that are created
    MaxFaults      \* bound: restarts of the panel, failed statements

ASSUME AccessBounds ==
    /\ None \notin User \cup Session \cup Token
    /\ IsFiniteSet(Handler) /\ Handler # {}
    /\ Limit \in Nat \ {0} /\ Cap \in Nat \ {0} /\ SessionLife \in Nat
    /\ MaxTime \in Nat /\ MaxCreated \in Nat \ {0} /\ MaxFaults \in Nat

Time    == 0 .. MaxTime
Account == 1 .. MaxCreated
Gone    == 0       \* no row
MaxCount == Limit + Cap   \* bound: more failures are not told apart

(* The account the password was compared with, and the end of the session. *)
SessionRow == [user : User, account : Account, until : Nat]
NoSession  == [user |-> None, account |-> Gone, until |-> 0]

(* What a handler is about to do: compare a password, look the user up     *)
(* again, store that a recovery code is used, clear the limiter, insert    *)
(* the session; write the row with the new password, delete the session;   *)
(* write the row of a new user; write the token's row.  "account" is the   *)
(* one the password was compared with, "row" what it will write.           *)
Writing == {"recovery", "password", "create"}
Op == {"idle", "allowed", "authenticated", "verified", "cleared", "logout",
       "token"} \cup Writing
Work == [op : Op, user : User \cup {None}, account : Account \cup {Gone},
         row : Account \cup {Gone}, session : Session \cup {None},
         token : Token \cup {None}]
Idle == [op |-> "idle", user |-> None, account |-> Gone, row |-> Gone,
         session |-> None, token |-> None]

VARIABLES
    now,        \* the clock, in minutes
    rows,       \* users: [User -> Account \cup {Gone}]
    created,    \* creations begun so far
    sessions,   \* [Session -> SessionRow \cup {NoSession}]
    spent,      \* session IDs that were generated
    tokens,     \* api_tokens: the IDs in the table
    minted,     \* token IDs that were generated
    count,      \* logins: Count of the address
    blocked,    \* logins: its BlockedUntil
    work,       \* [Handler -> Work]
    stray,      \* history: sessions inserted for an account that was gone, or
                \* of a user whose row was written over by a request that
                \* had not seen it
    removed,    \* history: tokens that were deleted
    revived,    \* history: tokens deleted while a use of them was under way
    guesses,    \* history: passwords compared since the address is blocked
    faults

vars == <<now, rows, created, sessions, spent, tokens, minted, count, blocked,
          work, stray, removed, revived, guesses, faults>>
userVars    == <<rows, created>>
sessionVars == <<sessions, spent, stray>>
tokenVars   == <<tokens, minted, removed, revived>>
limiterVars == <<count, blocked, guesses>>

Exists(u) == rows[u] # Gone
Live(s)   == sessions[s] # NoSession
Blocked   == blocked > now

TypeOK ==
    /\ now \in Time
    /\ rows \in [User -> Account \cup {Gone}] /\ created \in 0 .. MaxCreated
    /\ sessions \in [Session -> SessionRow \cup {NoSession}]
    /\ spent \subseteq Session /\ \A s \in Session : Live(s) => s \in spent
    /\ tokens \subseteq minted /\ minted \subseteq Token
    /\ count \in 0 .. MaxCount /\ blocked \in Nat
    /\ work \in [Handler -> Work]
    /\ stray \subseteq spent
    /\ removed \subseteq minted /\ revived \subseteq removed
    /\ guesses \in 0 .. Cardinality(Handler)
    /\ faults \in 0 .. MaxFaults

(* EnsureOwner has made the first account.                                 *)
Init ==
    /\ now = 0
    /\ \E u \in User : rows = [v \in User |-> IF v = u THEN 1 ELSE Gone]
    /\ created = 1
    /\ sessions = [s \in Session |-> NoSession] /\ spent = {}
    /\ tokens = {} /\ minted = {}
    /\ count = 0 /\ blocked = 0
    /\ work = [h \in Handler |-> Idle]
    /\ stray = {} /\ removed = {} /\ revived = {}
    /\ guesses = 0
    /\ faults = 0

Tick ==
    /\ now < MaxTime
    /\ now' = now + 1
    /\ guesses' = IF blocked > now + 1 THEN guesses ELSE 0
    /\ UNCHANGED <<userVars, sessionVars, tokenVars, count, blocked, work,
                   faults>>

Becomes(h, w) == work' = [work EXCEPT ![h] = w]
Goes(h, op)   == Becomes(h, [work[h] EXCEPT !.op = op])

---------------------------------------------------------------------------
(* Mutated forms, used only to test the properties.                        *)
SweepsNone(u) == sessions
LoginUnchecked(h, u) ==
    /\ work[h] = Idle
    /\ Becomes(h, [Idle EXCEPT !.op = "allowed", !.user = u])
    /\ UNCHANGED <<now, userVars, sessionVars, tokenVars, limiterVars, faults>>
WithAll(t) == tokens

---------------------------------------------------------------------------
(* login: loginAllowed.                                                    *)
Login(h, u) ==
    /\ work[h] = Idle
    /\ ~Blocked
    /\ Becomes(h, [Idle EXCEPT !.op = "allowed", !.user = u])
    /\ UNCHANGED <<now, userVars, sessionVars, tokenVars, limiterVars, faults>>

(* recordLoginFailure.                                                     *)
Minutes(n) == IF n - Limit + 1 > Cap THEN Cap ELSE n - Limit + 1
RecordFailure ==
    LET n == IF count < MaxCount THEN count + 1 ELSE count IN
    /\ count' = n
    /\ blocked' = IF n >= Limit THEN now + Minutes(n) ELSE blocked
Compared == guesses' = IF Blocked THEN guesses + 1 ELSE 0

(* Manager.Authenticate: the wrong password, no such user or an error.     *)
WrongPassword(h) ==
    /\ work[h].op = "allowed"
    /\ RecordFailure /\ Compared
    /\ Becomes(h, Idle)
    /\ UNCHANGED <<now, userVars, sessionVars, tokenVars, faults>>
RightPassword(h) ==
    /\ work[h].op = "allowed" /\ Exists(work[h].user)
    /\ Becomes(h, [work[h] EXCEPT !.op = "authenticated",
                                  !.account = rows[work[h].user]])
    /\ Compared
    /\ UNCHANGED <<now, userVars, sessionVars, tokenVars, count, blocked,
                   faults>>

(* GetUser, and the second factor if there is one: a code of the           *)
(* authenticator, or a recovery code, which PutUser will store.            *)
SecondFactor(h) ==
    /\ work[h].op = "authenticated" /\ Exists(work[h].user)
    /\ Goes(h, "verified")
    /\ UNCHANGED <<now, userVars, sessionVars, tokenVars, limiterVars, faults>>
ConsumeRecoveryCode(h) ==
    /\ work[h].op = "authenticated" /\ Exists(work[h].user)
    /\ Becomes(h, [work[h] EXCEPT !.op = "recovery",
                                  !.row = rows[work[h].user]])
    /\ UNCHANGED <<now, userVars, sessionVars, tokenVars, limiterVars, faults>>
SecondFactorFails(h) ==
    /\ work[h].op = "authenticated"
    /\ RecordFailure
    /\ Becomes(h, Idle)
    /\ UNCHANGED <<now, userVars, sessionVars, tokenVars, guesses, faults>>

(* PutUser: the row is written whatever is there by now.  A creation has   *)
(* seen no row, the others the one they write.                             *)
Saw(w) == IF w.op = "create" THEN Gone ELSE w.row
PutUser(w) ==
    /\ rows' = [rows EXCEPT ![w.user] = w.row]
    /\ stray' = IF rows[w.user] = Saw(w) THEN stray
                ELSE stray \cup {s \in Session : sessions[s].user = w.user}
StoreRecovery(h) ==
    /\ work[h].op = "recovery"
    /\ PutUser(work[h])
    /\ Becomes(h, [work[h] EXCEPT !.op = "verified", !.row = Gone])
    /\ UNCHANGED <<now, created, sessions, spent, tokenVars, limiterVars, faults>>
(* login ignores that the row could not be written.                        *)
StoreRecoveryFails(h) ==
    /\ work[h].op = "recovery" /\ faults < MaxFaults
    /\ faults' = faults + 1
    /\ Becomes(h, [work[h] EXCEPT !.op = "verified", !.row = Gone])
    /\ UNCHANGED <<now, userVars, sessionVars, tokenVars, limiterVars>>

(* clearLoginFailures.                                                     *)
ClearFailures(h) ==
    /\ work[h].op = "verified"
    /\ count' = 0 /\ blocked' = 0 /\ guesses' = 0
    /\ Goes(h, "cleared")
    /\ UNCHANGED <<now, userVars, sessionVars, tokenVars, faults>>

(* NewSession.                                                             *)
PutSession(h, s) ==
    /\ work[h].op = "cleared" /\ s \notin spent
    /\ sessions' = [sessions EXCEPT ![s] =
          [user |-> work[h].user, account |-> work[h].account,
           until |-> now + SessionLife]]
    /\ spent' = spent \cup {s}
    /\ stray' = IF rows[work[h].user] = work[h].account THEN stray
                                                        ELSE stray \cup {s}
    /\ Becomes(h, Idle)
    /\ UNCHANGED <<now, userVars, tokenVars, limiterVars, faults>>

---------------------------------------------------------------------------
(* requireAuth, with ValidateSession.                                      *)
Valid(s) == Live(s) /\ now <= sessions[s].until

(* changePassword: the current password is right, SetPassword has read the *)
(* row; it writes it; the session is deleted.                              *)
ReadRow(h, s) ==
    /\ work[h] = Idle
    /\ Valid(s) /\ Exists(sessions[s].user)
    /\ Becomes(h, [Idle EXCEPT !.op = "password", !.session = s,
                   !.user = sessions[s].user, !.row = rows[sessions[s].user]])
    /\ UNCHANGED <<now, userVars, sessionVars, tokenVars, limiterVars, faults>>
WriteRow(h) ==
    /\ work[h].op = "password"
    /\ PutUser(work[h])
    /\ Becomes(h, [Idle EXCEPT !.op = "logout", !.session = work[h].session])
    /\ UNCHANGED <<now, created, sessions, spent, tokenVars, limiterVars, faults>>
(* logout begins here.                                                     *)
Logout(h, s) ==
    /\ work[h] = Idle /\ Valid(s)
    /\ Becomes(h, [Idle EXCEPT !.op = "logout", !.session = s])
    /\ UNCHANGED <<now, userVars, sessionVars, tokenVars, limiterVars, faults>>
DeleteSession(h) ==
    /\ work[h].op = "logout"
    /\ sessions' = [sessions EXCEPT ![work[h].session] = NoSession]
    /\ Becomes(h, Idle)
    /\ UNCHANGED <<now, userVars, spent, stray, tokenVars, limiterVars, faults>>

(* usersAPI of an administrator.  DeleteUser deletes the row and its       *)
(* sessions in one transaction.                                            *)
Swept(u) == [s \in Session |->
               IF sessions[s].user = u THEN NoSession ELSE sessions[s]]
DeleteUser(u) ==
    /\ Exists(u)
    /\ rows' = [rows EXCEPT ![u] = Gone]
    /\ sessions' = Swept(u)
    /\ UNCHANGED <<now, created, spent, stray, tokenVars, limiterVars, work,
                   faults>>

(* CreateUser looks the name up and hashes the password; PutUser follows.  *)
CreateUser(h, u) ==
    /\ work[h] = Idle
    /\ ~Exists(u) /\ created < MaxCreated
    /\ created' = created + 1
    /\ Becomes(h, [Idle EXCEPT !.op = "create", !.user = u, !.row = created + 1])
    /\ UNCHANGED <<now, rows, sessionVars, tokenVars, limiterVars, faults>>
PutNew(h) ==
    /\ work[h].op = "create"
    /\ PutUser(work[h])
    /\ Becomes(h, Idle)
    /\ UNCHANGED <<now, created, sessions, spent, tokenVars, limiterVars, faults>>

---------------------------------------------------------------------------
(* tokensAPI of an administrator.                                          *)
CreateToken(t) ==
    /\ t \notin minted
    /\ tokens' = tokens \cup {t} /\ minted' = minted \cup {t}
    /\ UNCHANGED <<now, userVars, sessionVars, removed, revived, limiterVars,
                   work, faults>>
Without(t) == tokens \ {t}
DeleteToken(t) ==
    /\ t \in minted
    /\ tokens' = Without(t)
    /\ removed' = removed \cup {t}
    /\ revived' = IF \E h \in Handler : work[h].token = t
                  THEN revived \cup {t} ELSE revived
    /\ UNCHANGED <<now, userVars, sessionVars, minted, limiterVars, work,
                   faults>>

(* AuthenticateAPIToken: the row with this hash, and the row with the time *)
(* of its use.                                                             *)
FindToken(h, t) ==
    /\ work[h] = Idle /\ t \in tokens
    /\ Becomes(h, [Idle EXCEPT !.op = "token", !.token = t])
    /\ UNCHANGED <<now, userVars, sessionVars, tokenVars, limiterVars, faults>>
PutLastUsed(h) ==
    /\ work[h].op = "token"
    /\ tokens' = tokens \cup {work[h].token}
    /\ Becomes(h, Idle)
    /\ UNCHANGED <<now, userVars, sessionVars, minted, removed, revived,
                   limiterVars, faults>>

---------------------------------------------------------------------------
(* The statement a handler is about to make fails, and nothing follows.    *)
Fails(h) ==
    /\ work[h].op \in {"cleared", "password", "create", "logout", "token"}
    /\ faults < MaxFaults /\ faults' = faults + 1
    /\ Becomes(h, Idle)
    /\ UNCHANGED <<now, userVars, sessionVars, tokenVars, limiterVars>>

(* The panel ends and starts again: the map logins is empty.               *)
Restart ==
    /\ faults < MaxFaults /\ faults' = faults + 1
    /\ work' = [h \in Handler |-> Idle]
    /\ count' = 0 /\ blocked' = 0 /\ guesses' = 0
    /\ UNCHANGED <<now, userVars, sessionVars, tokenVars>>

HandlerStep(h) ==
    \/ \E u \in User : Login(h, u) \/ CreateUser(h, u)
    \/ WrongPassword(h) \/ RightPassword(h)
    \/ SecondFactor(h) \/ SecondFactorFails(h) \/ ConsumeRecoveryCode(h)
    \/ StoreRecovery(h) \/ StoreRecoveryFails(h) \/ ClearFailures(h)
    \/ \E s \in Session : PutSession(h, s) \/ ReadRow(h, s) \/ Logout(h, s)
    \/ WriteRow(h) \/ DeleteSession(h) \/ PutNew(h)
    \/ \E t \in Token : FindToken(h, t)
    \/ PutLastUsed(h)
    \/ Fails(h)

Next ==
    \/ Tick \/ Restart
    \/ \E h \in Handler : HandlerStep(h)
    \/ \E u \in User : DeleteUser(u)
    \/ \E t \in Token : CreateToken(t) \/ DeleteToken(t)

Spec == Init /\ [][Next]_vars

---------------------------------------------------------------------------
(* A session is of the account whose password was compared: it does not    *)
(* outlive a deleted account, nor open one created later under its name,   *)
(* whichever logins, creations, password changes and deletions overlap.    *)
(* Left out are sessions inserted when the account of their password was   *)
(* gone already, and sessions of a user whose row was written over by a    *)
(* request that had not seen it: a password change or a login with a       *)
(* recovery code that writes back an older row, or the second of two       *)
(* overlapping creations of one name, which replaces the account of the    *)
(* first.                                                                  *)
SessionOfItsAccount ==
    \A s \in Session \ stray : Live(s) =>
        rows[sessions[s].user] = sessions[s].account

(* However logins from an address overlap, no more passwords are compared  *)
(* in a time in which it is blocked than there were other logins at work   *)
(* when it was blocked; and it is never blocked for longer than Cap.       *)
BlockHolds ==
    /\ guesses < Cardinality(Handler)
    /\ blocked <= now + Cap

(* A deleted API token stays deleted, unless it was deleted while a use of *)
(* it was being recorded.                                                  *)
TokenStaysDeleted == \A t \in removed \ revived : t \notin tokens
=============================================================================
