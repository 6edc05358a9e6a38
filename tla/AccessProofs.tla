---------------------------- MODULE AccessProofs ----------------------------
(***************************************************************************)
(* Theorems about sessions, API tokens and the limiter of logins, for any  *)
(* number of users, sessions, tokens and requests at once, any limit, and  *)
(* any number of restarts and failed statements.                           *)
(***************************************************************************)
EXTENDS Access, FiniteSetTheorems, TLAPS

(* What a handler carries at each of its stages.                           *)
Fits(w) ==
    /\ w \in Work
    /\ w.op \in {"allowed", "authenticated", "verified", "cleared"} \cup Writing =>
           w.user \in User
    /\ w.op \in {"authenticated", "verified", "cleared", "recovery"} =>
           w.account \in Account
    /\ w.op \in Writing => w.row \in Account
    /\ w.op \in {"password", "logout"} => w.session \in Session
    /\ w.op = "token" => w.token # None

WorkTyped ==
    /\ work \in [Handler -> Work]
    /\ \A h \in Handler : Fits(work[h]) /\ work[h].token \in minted \cup {None}
UsersTyped ==
    /\ rows \in [User -> Account \cup {Gone}] /\ created \in 0 .. MaxCreated
SessionsTyped ==
    /\ sessions \in [Session -> SessionRow \cup {NoSession}]
    /\ spent \subseteq Session /\ \A s \in Session : Live(s) => s \in spent
    /\ stray \subseteq spent
TokensTyped ==
    /\ tokens \subseteq minted /\ minted \subseteq Token
    /\ removed \subseteq minted /\ revived \subseteq removed

(* Each password that is compared while the address is blocked takes one   *)
(* from the logins that were let through before; the one that blocked the  *)
(* address is none of them.                                                *)
Comparing == {h \in Handler : work[h].op = "allowed"}
LimiterTyped ==
    /\ count \in 0 .. MaxCount /\ blocked \in Nat /\ guesses \in Nat
    /\ blocked <= now + Cap
    /\ ~Blocked => guesses = 0
    /\ Blocked => guesses + Cardinality(Comparing) < Cardinality(Handler)

Typed ==
    /\ now \in Time /\ faults \in 0 .. MaxFaults
    /\ UsersTyped /\ SessionsTyped /\ TokensTyped /\ LimiterTyped /\ WorkTyped

LEMMA IdleFits ==
    /\ Idle \in Work /\ Fits(Idle) /\ Idle.token = None /\ Idle.op = "idle"
    /\ Idle.account = Gone
BY DEF Idle, Fits, Work, Op, Writing

LEMMA Sessions ==
    /\ NoSession \notin SessionRow /\ NoSession.user = None
    /\ \A r \in SessionRow : r.user \in User /\ r.account \in Account
                             /\ r.account # Gone
    /\ \A u \in User, a \in Account, n \in Nat :
          [user |-> u, account |-> a, until |-> n] \in SessionRow
    /\ \A t \in Token : t # None
    /\ \A u \in User : u # None
BY AccessBounds DEF SessionRow, NoSession, Account, Gone

LEMMA Bounds ==
    /\ Account \subseteq Nat /\ Gone \notin Account
    /\ MaxCount \in Nat /\ Time \subseteq Nat /\ 0 \in Time
BY AccessBounds DEF Account, Gone, MaxCount, Time

(* Every step of a handler replaces what it carries by something that fits. *)
LEMMA WorkStep ==
    ASSUME Typed, NEW h \in Handler, HandlerStep(h)
    PROVE  /\ minted' = minted
           /\ \E w : /\ Fits(w) /\ w.token \in {work[h].token, None} \cup tokens
                     /\ w.op = "allowed" => ~Blocked
                     /\ work' = [work EXCEPT ![h] = w]
<1>. USE DEF Typed, WorkTyped, Becomes, Goes, tokenVars
<1>0. Fits(work[h]) /\ work[h] \in Work /\ work[h].token \in {None} \cup minted
  OBVIOUS
<1>1. CASE \E u \in User : Login(h, u)
  <2>1. PICK u \in User : Login(h, u)
    BY <1>1
  <2>2. Fits([Idle EXCEPT !.op = "allowed", !.user = u])
    BY DEF Fits, Idle, Work, Op, Writing
  <2>. QED BY <2>1, <2>2 DEF Login, Idle
<1>2. CASE \/ WrongPassword(h) \/ SecondFactorFails(h) \/ DeleteSession(h)
           \/ PutNew(h) \/ PutLastUsed(h) \/ Fails(h) \/ \E s \in Session : PutSession(h, s)
  <2>1. work' = [work EXCEPT ![h] = Idle] /\ minted' = minted
    BY <1>2 DEF WrongPassword, SecondFactorFails, DeleteSession, PutNew,
                PutLastUsed, Fails, PutSession
  <2>. QED BY <2>1, IdleFits
<1>3. CASE RightPassword(h)
  <2>1. rows[work[h].user] \in Account /\ work[h].user \in User
    BY <1>0, <1>3 DEF RightPassword, Fits, Exists, UsersTyped
  <2>. DEFINE w == [work[h] EXCEPT !.op = "authenticated",
                                   !.account = rows[work[h].user]]
  <2>2. Fits(w) /\ w.token = work[h].token /\ w.op # "allowed"
    BY <1>0, <2>1 DEF Fits, Work, Op, Writing
  <2>3. work' = [work EXCEPT ![h] = w] /\ minted' = minted
    BY <1>3 DEF RightPassword
  <2>. QED BY <1>0, <2>2, <2>3
<1>4. CASE SecondFactor(h) \/ ClearFailures(h)
  <2>. DEFINE w == [work[h] EXCEPT !.op = IF ClearFailures(h) THEN "cleared"
                                                              ELSE "verified"]
  <2>1. Fits(w) /\ w.token = work[h].token /\ w.op # "allowed"
    BY <1>0, <1>4 DEF SecondFactor, ClearFailures, Fits, Work, Op, Writing
  <2>2. work' = [work EXCEPT ![h] = w] /\ minted' = minted
    BY <1>4 DEF SecondFactor, ClearFailures
  <2>. QED BY <1>0, <2>1, <2>2
<1>8. CASE ConsumeRecoveryCode(h)
  <2>. DEFINE a == rows[work[h].user]
              w == [work[h] EXCEPT !.op = "recovery", !.row = a]
  <2>1. a \in Account
    BY <1>0, <1>8 DEF ConsumeRecoveryCode, Fits, Exists, UsersTyped
  <2>2. work' = [work EXCEPT ![h] = w] /\ minted' = minted
    BY <1>8 DEF ConsumeRecoveryCode
  <2>. HIDE DEF a
  <2>3. Fits(w) /\ w.token = work[h].token /\ w.op # "allowed"
    BY <1>0, <1>8, <2>1 DEF ConsumeRecoveryCode, Fits, Work, Op, Writing
  <2>. QED BY <1>0, <2>2, <2>3
<1>9. CASE StoreRecovery(h) \/ StoreRecoveryFails(h)
  <2>. DEFINE w == [work[h] EXCEPT !.op = "verified", !.row = Gone]
  <2>1. Fits(w) /\ w.token = work[h].token /\ w.op # "allowed"
    BY <1>0, <1>9 DEF StoreRecovery, StoreRecoveryFails, Fits, Work, Op, Writing
  <2>2. work' = [work EXCEPT ![h] = w] /\ minted' = minted
    BY <1>9 DEF StoreRecovery, StoreRecoveryFails
  <2>. QED BY <1>0, <2>1, <2>2
<1>10. CASE \E u \in User : CreateUser(h, u)
  <2>1. PICK u \in User : CreateUser(h, u)
    BY <1>10
  <2>. DEFINE n == created + 1
              w == [Idle EXCEPT !.op = "create", !.user = u, !.row = n]
  <2>2. n \in Account
    BY <2>1, AccessBounds DEF CreateUser, UsersTyped, Account
  <2>3. work' = [work EXCEPT ![h] = w] /\ minted' = minted
    BY <2>1 DEF CreateUser
  <2>. HIDE DEF n
  <2>4. Fits(w) /\ w.token = None /\ w.op # "allowed"
    BY <2>2 DEF Fits, Work, Op, Writing, Idle
  <2>. QED BY <2>3, <2>4
<1>5. CASE WriteRow(h)
  <2>. DEFINE s == work[h].session
              w == [Idle EXCEPT !.op = "logout", !.session = s]
  <2>1. s \in Session
    BY <1>0, <1>5 DEF WriteRow, Fits, Writing
  <2>2. work' = [work EXCEPT ![h] = w] /\ minted' = minted
    BY <1>5 DEF WriteRow
  <2>. HIDE DEF s
  <2>3. Fits(w) /\ w.token = None /\ w.op # "allowed"
    BY <2>1 DEF Fits, Work, Op, Writing, Idle
  <2>. QED BY <2>2, <2>3
<1>6. CASE \E s \in Session : ReadRow(h, s) \/ Logout(h, s)
  <2>1. PICK s \in Session : ReadRow(h, s) \/ Logout(h, s)
    BY <1>6
  <2>2. CASE ReadRow(h, s)
    <3>. DEFINE u == sessions[s].user
    <3>1. u \in User /\ rows[u] \in Account
      BY <2>2, Sessions DEF ReadRow, Valid, Live, Exists, SessionsTyped,
                            UsersTyped
    <3>. DEFINE w == [Idle EXCEPT !.op = "password", !.session = s,
                                  !.user = u, !.row = rows[u]]
    <3>2. Fits(w) /\ w.token = None /\ w.op # "allowed"
      BY <3>1 DEF Fits, Work, Op, Writing, Idle
    <3>3. work' = [work EXCEPT ![h] = w] /\ minted' = minted
      BY <2>2 DEF ReadRow
    <3>. QED BY <3>2, <3>3
  <2>3. CASE Logout(h, s)
    <3>. DEFINE w == [Idle EXCEPT !.op = "logout", !.session = s]
    <3>1. Fits(w) /\ w.token = None /\ w.op # "allowed"
      BY DEF Fits, Work, Op, Writing, Idle
    <3>2. work' = [work EXCEPT ![h] = w] /\ minted' = minted
      BY <2>3 DEF Logout
    <3>. QED BY <3>1, <3>2
  <2>. QED BY <2>1, <2>2, <2>3
<1>7. CASE \E t \in Token : FindToken(h, t)
  <2>1. PICK t \in Token : FindToken(h, t)
    BY <1>7
  <2>. DEFINE w == [Idle EXCEPT !.op = "token", !.token = t]
  <2>2. Fits(w) /\ w.token = t /\ w.op # "allowed" /\ t \in tokens
    BY <2>1, Sessions DEF FindToken, TokensTyped, Fits, Work, Op, Writing, Idle
  <2>3. work' = [work EXCEPT ![h] = w] /\ minted' = minted
    BY <2>1 DEF FindToken
  <2>. QED BY <2>2, <2>3
<1>. QED BY <1>1, <1>2, <1>3, <1>4, <1>5, <1>6, <1>7, <1>8, <1>9, <1>10
         DEF HandlerStep

---------------------------------------------------------------------------
(* How many handlers are between the check of the limiter and the          *)
(* comparison, before and after a step of one of them.                     *)
LEMMA ComparingFinite ==
    /\ IsFiniteSet(Comparing) /\ Cardinality(Comparing) \in Nat
    /\ IsFiniteSet(Handler) /\ Cardinality(Handler) \in Nat \ {0}
<1>1. IsFiniteSet(Comparing)
  BY AccessBounds, FS_Subset DEF Comparing
<1>2. Cardinality(Handler) # 0
  BY AccessBounds, FS_EmptySet
<1>. QED BY <1>1, <1>2, AccessBounds, FS_CardinalityType

LEMMA OneComparesLess ==
    ASSUME NEW h \in Handler, work[h].op = "allowed", WorkTyped,
           NEW w, w.op # "allowed", work' = [work EXCEPT ![h] = w]
    PROVE  /\ Cardinality(Comparing)' = Cardinality(Comparing) - 1
           /\ Cardinality(Comparing)' < Cardinality(Handler)
<1>1. Comparing' = Comparing \ {h} /\ h \in Comparing
  BY DEF Comparing, WorkTyped
<1>2. Cardinality(Comparing \ {h}) = Cardinality(Comparing) - 1
  BY <1>1, ComparingFinite, FS_RemoveElement
<1>3. Cardinality(Comparing) <= Cardinality(Handler)
  BY AccessBounds, FS_Subset DEF Comparing
<1>. QED BY <1>1, <1>2, <1>3, ComparingFinite

LEMMA OneMissing ==
    ASSUME NEW h \in Handler, WorkTyped,
           NEW w, w.op # "allowed", work' = [work EXCEPT ![h] = w]
    PROVE  /\ Cardinality(Comparing)' <= Cardinality(Comparing)
           /\ Cardinality(Comparing)' < Cardinality(Handler)
           /\ Cardinality(Comparing)' \in Nat
<1>1. Comparing' \subseteq Comparing /\ Comparing' \subseteq Handler \ {h}
  BY DEF Comparing, WorkTyped
<1>2. Cardinality(Handler \ {h}) = Cardinality(Handler) - 1
      /\ IsFiniteSet(Handler \ {h})
  BY AccessBounds, FS_RemoveElement
<1>3. Cardinality(Comparing') <= Cardinality(Handler \ {h})
  BY <1>1, <1>2, FS_Subset
<1>4. Cardinality(Comparing') <= Cardinality(Comparing) /\ IsFiniteSet(Comparing')
  BY <1>1, ComparingFinite, FS_Subset
<1>5. Cardinality(Comparing') \in Nat
  BY <1>4, FS_CardinalityType
<1>. QED BY <1>2, <1>3, <1>4, <1>5, ComparingFinite

(* The length of a block and the counter.                                  *)
LEMMA FailureRecorded ==
    ASSUME Typed, RecordFailure
    PROVE  /\ count' \in 0 .. MaxCount /\ blocked' \in Nat
           /\ blocked' <= now + Cap
<1>. DEFINE n == IF count < MaxCount THEN count + 1 ELSE count
<1>1. n \in 0 .. MaxCount
  BY Bounds DEF Typed, LimiterTyped
<1>2. n >= Limit => Minutes(n) \in 1 .. Cap
  BY <1>1, AccessBounds, Bounds DEF Minutes
<1>3. now \in Nat /\ blocked \in Nat /\ blocked <= now + Cap
  BY Bounds DEF Typed, LimiterTyped
<1>4. count' = n /\ blocked' = IF n >= Limit THEN now + Minutes(n) ELSE blocked
  BY DEF RecordFailure
<1>5. CASE n >= Limit
  BY <1>1, <1>2, <1>3, <1>4, <1>5, AccessBounds
<1>6. CASE ~(n >= Limit)
  BY <1>1, <1>3, <1>4, <1>6
<1>. QED BY <1>5, <1>6

LEMMA LimiterStep ==
    ASSUME Typed, NEW h \in Handler, HandlerStep(h)
    PROVE  LimiterTyped'
<1>. USE ComparingFinite DEF Typed, LimiterTyped
<1>0. PICK w : /\ Fits(w) /\ (w.op = "allowed" => ~Blocked)
               /\ work' = [work EXCEPT ![h] = w]
  BY WorkStep
<1>1. now' = now
  BY DEF HandlerStep, Login, WrongPassword, RightPassword, SecondFactor,
         ConsumeRecoveryCode, StoreRecovery, StoreRecoveryFails,
         ClearFailures, CreateUser, PutNew,
         SecondFactorFails, PutSession, ReadRow, WriteRow, Logout,
         DeleteSession, FindToken, PutLastUsed, Fails
<1>2. CASE WrongPassword(h) \/ RightPassword(h)
  <2>1. work[h].op = "allowed" /\ w.op # "allowed"
    <3>1. work[h] \in Work /\ w = work'[h]
      BY <1>0 DEF WorkTyped
    <3>2. CASE WrongPassword(h)
      BY <1>0, <3>1, <3>2, IdleFits DEF WrongPassword, Becomes, WorkTyped
    <3>3. CASE RightPassword(h)
      <4>1. w = [work[h] EXCEPT !.op = "authenticated",
                                !.account = rows[work[h].user]]
        BY <3>1, <3>3 DEF RightPassword, Becomes, WorkTyped
      <4>2. w.op = "authenticated"
        BY <3>1, <4>1 DEF Work
      <4>. QED BY <3>3, <4>2 DEF RightPassword
    <3>. QED BY <1>2, <3>2, <3>3
  <2>2. /\ Cardinality(Comparing)' = Cardinality(Comparing) - 1
        /\ Cardinality(Comparing)' < Cardinality(Handler)
    BY <1>0, <2>1, OneComparesLess
  <2>3. /\ count' \in 0 .. MaxCount /\ blocked' \in Nat
        /\ blocked' <= now + Cap
    BY <1>2, FailureRecorded DEF WrongPassword, RightPassword
  <2>4. guesses' = IF Blocked THEN guesses + 1 ELSE 0
    BY <1>2 DEF WrongPassword, RightPassword, Compared
  <2>5. Blocked => Blocked'
    BY <1>1, <1>2, Bounds, AccessBounds
       DEF Blocked, WrongPassword, RightPassword, RecordFailure, Minutes
  <2>. QED BY <1>1, <2>2, <2>3, <2>4, <2>5 DEF Blocked
<1>3. CASE ClearFailures(h)
  BY <1>1, <1>3, Bounds, AccessBounds DEF ClearFailures, Blocked
<1>4. CASE SecondFactorFails(h)
  <2>1. w.op # "allowed"
    BY <1>0, <1>4, IdleFits DEF SecondFactorFails, Becomes, WorkTyped
  <2>2. /\ Cardinality(Comparing)' <= Cardinality(Comparing)
        /\ Cardinality(Comparing)' < Cardinality(Handler)
        /\ Cardinality(Comparing)' \in Nat
    BY <1>0, <2>1, OneMissing
  <2>3. /\ count' \in 0 .. MaxCount /\ blocked' \in Nat
        /\ blocked' <= now + Cap
    BY <1>4, FailureRecorded DEF SecondFactorFails
  <2>4. guesses' = guesses
    BY <1>4 DEF SecondFactorFails
  <2>5. Blocked => Blocked'
    BY <1>1, <1>4, Bounds, AccessBounds
       DEF Blocked, SecondFactorFails, RecordFailure, Minutes
  <2>. QED BY <1>1, <2>2, <2>3, <2>4, <2>5 DEF Blocked
<1>5. CASE UNCHANGED limiterVars
  <2>1. Blocked' = Blocked
    BY <1>1, <1>5 DEF Blocked, limiterVars
  <2>2. CASE w.op = "allowed"
    BY <1>0, <1>1, <1>5, <2>1, <2>2 DEF limiterVars
  <2>3. CASE w.op # "allowed"
    <3>1. /\ Cardinality(Comparing)' <= Cardinality(Comparing)
          /\ Cardinality(Comparing)' \in Nat
      BY <1>0, <2>3, OneMissing
    <3>. QED BY <1>1, <1>5, <2>1, <3>1 DEF limiterVars
  <2>. QED BY <2>2, <2>3
<1>. QED BY <1>2, <1>3, <1>4, <1>5
         DEF HandlerStep, Login, SecondFactor, ConsumeRecoveryCode,
             StoreRecovery, StoreRecoveryFails, CreateUser, PutNew,
             PutSession, ReadRow, WriteRow, Logout, DeleteSession, FindToken,
             PutLastUsed, Fails

---------------------------------------------------------------------------
(* A row that is written is of an account, and the sessions that it        *)
(* strays were inserted.                                                   *)
LEMMA WritesTyped ==
    ASSUME Typed, NEW h \in Handler, StoreRecovery(h) \/ WriteRow(h) \/ PutNew(h)
    PROVE  /\ work[h].user \in User /\ PutUser(work[h])
           /\ UNCHANGED <<created, sessions, spent>>
           /\ UsersTyped' /\ SessionsTyped'
<1>. USE DEF Typed
<1>1. /\ work[h].op \in Writing /\ PutUser(work[h])
      /\ UNCHANGED <<created, sessions, spent>>
  BY DEF StoreRecovery, WriteRow, PutNew, Writing
<1>2. work[h].user \in User /\ work[h].row \in Account
  BY <1>1 DEF WorkTyped, Fits
<1>3. UsersTyped'
  BY <1>1, <1>2 DEF PutUser, UsersTyped
<1>4. {s \in Session : sessions[s].user = work[h].user} \subseteq spent
  BY <1>2, Sessions DEF SessionsTyped, Live
<1>5. SessionsTyped'
  BY <1>1, <1>4 DEF PutUser, SessionsTyped, Live
<1>. QED BY <1>1, <1>2, <1>3, <1>5

LEMMA TypedStep ==
    ASSUME Typed, NEW h \in Handler, HandlerStep(h)
    PROVE  Typed'
<1>. USE DEF Typed
<1>0. PICK w : /\ Fits(w) /\ w.token \in {work[h].token, None} \cup tokens
               /\ work' = [work EXCEPT ![h] = w]
  BY WorkStep
<1>1. minted' = minted
  BY WorkStep
<1>2. WorkTyped'
  <2>1. \A g \in Handler : work'[g] = IF g = h THEN w ELSE work[g]
    BY <1>0 DEF WorkTyped
  <2>2. w \in Work
    BY <1>0 DEF Fits
  <2>3. work' \in [Handler -> Work]
    BY <1>0, <2>2 DEF WorkTyped
  <2>4. ASSUME NEW g \in Handler
        PROVE  Fits(work'[g]) /\ work'[g].token \in minted \cup {None}
    BY <1>0, <2>1 DEF WorkTyped, TokensTyped
  <2>. QED BY <1>1, <2>3, <2>4 DEF WorkTyped, Fits
<1>3. now' \in Time /\ faults' \in 0 .. MaxFaults
  <2>1. CASE Fails(h) \/ StoreRecoveryFails(h)
    BY <2>1, AccessBounds DEF Fails, StoreRecoveryFails
  <2>2. CASE UNCHANGED <<now, faults>>
    BY <2>2
  <2>. QED BY <2>1, <2>2
           DEF HandlerStep, Login, WrongPassword, RightPassword,
               SecondFactor, ConsumeRecoveryCode, StoreRecovery,
               ClearFailures, CreateUser, PutNew, SecondFactorFails,
               PutSession, ReadRow, WriteRow, Logout, DeleteSession,
               FindToken, PutLastUsed
<1>4. UsersTyped'
  <2>1. CASE StoreRecovery(h) \/ WriteRow(h) \/ PutNew(h)
    BY <2>1, WritesTyped
  <2>2. CASE UNCHANGED userVars
    BY <2>2 DEF userVars, UsersTyped
  <2>3. CASE \E u \in User : CreateUser(h, u)
    BY <2>3, AccessBounds DEF CreateUser, UsersTyped
  <2>. QED BY <2>1, <2>2, <2>3
           DEF HandlerStep, Login, WrongPassword, RightPassword,
               SecondFactor, ConsumeRecoveryCode, StoreRecoveryFails,
               ClearFailures, SecondFactorFails, PutSession, ReadRow, Logout,
               DeleteSession, FindToken, PutLastUsed, Fails
<1>5. SessionsTyped'
  <2>1. CASE \E s \in Session : PutSession(h, s)
    <3>1. PICK s \in Session : PutSession(h, s)
      BY <2>1
    <3>2. work[h].user \in User /\ work[h].account \in Account
      BY <3>1 DEF PutSession, WorkTyped, Fits
    <3>3. now + SessionLife \in Nat
      BY AccessBounds, Bounds
    <3>. DEFINE r == [user |-> work[h].user, account |-> work[h].account,
                      until |-> now + SessionLife]
    <3>4. r \in SessionRow
      BY <3>2, <3>3, Sessions
    <3>5. sessions' = [sessions EXCEPT ![s] = r] /\ spent' = spent \cup {s}
          /\ stray' \subseteq stray \cup {s}
      BY <3>1 DEF PutSession
    <3>. HIDE DEF r
    <3>. QED BY <3>4, <3>5 DEF SessionsTyped, Live
  <2>2. CASE DeleteSession(h)
    <3>1. work[h].session \in Session
      BY <2>2 DEF DeleteSession, WorkTyped, Fits
    <3>. QED BY <2>2, <3>1 DEF DeleteSession, SessionsTyped, Live
  <2>3. CASE UNCHANGED sessionVars
    BY <2>3 DEF sessionVars, SessionsTyped, Live
  <2>4. CASE StoreRecovery(h) \/ WriteRow(h) \/ PutNew(h)
    BY <2>4, WritesTyped
  <2>. QED BY <2>1, <2>2, <2>3, <2>4
           DEF HandlerStep, Login, WrongPassword, RightPassword,
               SecondFactor, ConsumeRecoveryCode, StoreRecoveryFails,
               ClearFailures, CreateUser, SecondFactorFails, ReadRow, Logout,
               FindToken, PutLastUsed, Fails
<1>6. TokensTyped'
  <2>1. CASE PutLastUsed(h)
    <3>1. work[h].token \in minted
      BY <2>1 DEF PutLastUsed, WorkTyped, Fits
    <3>. QED BY <2>1, <3>1 DEF PutLastUsed, TokensTyped
  <2>2. CASE UNCHANGED tokenVars
    BY <2>2 DEF tokenVars, TokensTyped
  <2>. QED BY <2>1, <2>2
           DEF HandlerStep, Login, WrongPassword, RightPassword,
               SecondFactor, ConsumeRecoveryCode, StoreRecovery,
               StoreRecoveryFails, ClearFailures, CreateUser, PutNew,
               SecondFactorFails, PutSession, ReadRow, WriteRow, Logout,
               DeleteSession, FindToken, Fails
<1>. QED BY <1>2, <1>3, <1>4, <1>5, <1>6, LimiterStep

LEMMA TypedInvariant == Spec => []Typed
<1>1. Init => Typed
  <2> SUFFICES ASSUME Init PROVE Typed
    OBVIOUS
  <2>1. UsersTyped
    <3>1. PICK u \in User : rows = [v \in User |-> IF v = u THEN 1 ELSE Gone]
      BY DEF Init
    <3>. QED BY <3>1, AccessBounds
             DEF Init, UsersTyped, Account, Gone
  <2>2. SessionsTyped /\ TokensTyped
    BY DEF Init, SessionsTyped, TokensTyped, Live
  <2>3. WorkTyped
    BY IdleFits DEF Init, WorkTyped
  <2>4. LimiterTyped
    BY Bounds, AccessBounds DEF Init, LimiterTyped, Blocked
  <2>. QED BY <2>1, <2>2, <2>3, <2>4, AccessBounds, Bounds DEF Init, Typed
<1>2. Typed /\ [Next]_vars => Typed'
  <2> SUFFICES ASSUME Typed, [Next]_vars PROVE Typed'
    OBVIOUS
  <2>. USE DEF Typed, userVars, sessionVars, tokenVars
  <2>1. CASE UNCHANGED vars
    BY <2>1 DEF vars, UsersTyped, SessionsTyped, TokensTyped, LimiterTyped,
                WorkTyped, Live, Blocked, Comparing, Fits
  <2>2. CASE Tick
    <3>1. UsersTyped' /\ SessionsTyped' /\ TokensTyped' /\ WorkTyped'
      BY <2>2 DEF Tick, UsersTyped, SessionsTyped, TokensTyped, WorkTyped,
                  Live, Fits
    <3>2. now' \in Time /\ faults' \in 0 .. MaxFaults /\ now' = now + 1
          /\ now \in Nat
      BY <2>2, AccessBounds DEF Tick, Time
    <3>3. Comparing' = Comparing
      BY <2>2 DEF Tick, Comparing
    <3>4. LimiterTyped'
      BY <2>2, <3>2, <3>3, AccessBounds DEF Tick, LimiterTyped, Blocked
    <3>. QED BY <3>1, <3>2, <3>4
  <2>3. CASE Restart
    <3>1. UsersTyped' /\ SessionsTyped' /\ TokensTyped'
      BY <2>3 DEF Restart, UsersTyped, SessionsTyped, TokensTyped, Live
    <3>2. WorkTyped'
      BY <2>3, IdleFits DEF Restart, WorkTyped, Fits
    <3>3. LimiterTyped'
      BY <2>3, Bounds, AccessBounds DEF Restart, LimiterTyped, Blocked
    <3>. QED BY <2>3, <3>1, <3>2, <3>3, AccessBounds DEF Restart
  <2>4. ASSUME NEW h \in Handler, HandlerStep(h) PROVE Typed'
    BY <2>4, TypedStep
  <2>5. ASSUME NEW u \in User, DeleteUser(u) PROVE Typed'
    <3>1. UsersTyped'
      BY <2>5, AccessBounds DEF DeleteUser, UsersTyped, Account, Gone
    <3>2. SessionsTyped'
      BY <2>5 DEF DeleteUser, Swept, SessionsTyped, Live
    <3>3. TokensTyped' /\ WorkTyped' /\ LimiterTyped'
      BY <2>5 DEF DeleteUser, TokensTyped, WorkTyped, Fits,
                  LimiterTyped, limiterVars, Blocked, Comparing
    <3>. QED BY <2>5, <3>1, <3>2, <3>3 DEF DeleteUser
  <2>6. ASSUME NEW t \in Token, CreateToken(t) \/ DeleteToken(t) PROVE Typed'
    <3>1. TokensTyped'
      BY <2>6 DEF CreateToken, DeleteToken, Without, TokensTyped
    <3>2. WorkTyped'
      BY <2>6 DEF CreateToken, DeleteToken, WorkTyped, Fits
    <3>3. UsersTyped' /\ SessionsTyped' /\ LimiterTyped'
      BY <2>6 DEF CreateToken, DeleteToken, UsersTyped, SessionsTyped, Live,
                  LimiterTyped, limiterVars, Blocked, Comparing
    <3>. QED BY <2>6, <3>1, <3>2, <3>3 DEF CreateToken, DeleteToken
  <2>. QED BY <2>1, <2>2, <2>3, <2>4, <2>5, <2>6 DEF Next
<1>. QED BY <1>1, <1>2, PTL DEF Spec

(* The type invariant.                                                     *)
THEOREM TypeCorrect == Spec => []TypeOK
<1>1. Typed => TypeOK
  <2> SUFFICES ASSUME Typed PROVE TypeOK
    OBVIOUS
  <2>1. guesses \in 0 .. Cardinality(Handler)
    BY ComparingFinite DEF Typed, LimiterTyped
  <2>. QED BY <2>1 DEF Typed, TypeOK, UsersTyped, SessionsTyped, TokensTyped,
                       LimiterTyped, WorkTyped
<1>. QED BY <1>1, TypedInvariant, PTL

(* The limiter holds however logins overlap: a block admits no more than   *)
(* the logins that passed the limiter before, and is never too long.       *)
THEOREM BlocksHold == Spec => []BlockHolds
<1>1. Typed => BlockHolds
  BY ComparingFinite DEF Typed, LimiterTyped, BlockHolds
<1>. QED BY <1>1, TypedInvariant, PTL

---------------------------------------------------------------------------
(* A session is of the account whose password opened it, however logins,   *)
(* creations in two statements, whole-row writes and deletions overlap: a  *)
(* deletion takes the sessions with the row, and a write that follows what *)
(* its request saw either finds no row, and then no session, or leaves the *)
(* account as it is.                                                       *)
THEOREM SessionsOfTheirAccounts == Spec => []SessionOfItsAccount
<1>1. Init => SessionOfItsAccount
  BY DEF Init, SessionOfItsAccount, Live
<1>2. SessionOfItsAccount /\ Typed /\ [Next]_vars => SessionOfItsAccount'
  <2> SUFFICES ASSUME SessionOfItsAccount, Typed, [Next]_vars
               PROVE  SessionOfItsAccount'
    OBVIOUS
  <2>. USE DEF userVars, sessionVars, SessionOfItsAccount, Live
  <2>1. CASE UNCHANGED <<rows, sessionVars>>
    BY <2>1
  <2>2. ASSUME NEW h \in Handler, NEW s \in Session, PutSession(h, s)
        PROVE  SessionOfItsAccount'
    BY <2>2 DEF PutSession, Typed, SessionsTyped
  <2>3. ASSUME NEW h \in Handler, StoreRecovery(h) \/ WriteRow(h) \/ PutNew(h)
        PROVE  SessionOfItsAccount'
    <3>. DEFINE w == work[h]
    <3>1. /\ w.user \in User /\ PutUser(w) /\ UNCHANGED sessions
          /\ Saw(w) = Gone \/ Saw(w) = w.row
      BY <2>3, WritesTyped DEF Saw
    <3>. HIDE DEF w
    <3>2. ASSUME NEW s \in Session \ stray', sessions[s] # NoSession
          PROVE  rows'[sessions[s].user] = sessions[s].account
      <4>1. /\ s \notin stray /\ sessions[s].user \in User
            /\ rows[sessions[s].user] = sessions[s].account
            /\ sessions[s].account # Gone
        BY <3>1, <3>2, Sessions DEF PutUser, Typed, SessionsTyped
      <4>2. CASE sessions[s].user # w.user
        BY <3>1, <4>1, <4>2 DEF PutUser, Typed, UsersTyped
      <4>3. CASE sessions[s].user = w.user
        <5>1. rows[w.user] = Saw(w)
          BY <3>1, <3>2, <4>3 DEF PutUser
        <5>. QED BY <3>1, <4>1, <4>3, <5>1 DEF PutUser, Typed, UsersTyped
      <4>. QED BY <4>2, <4>3
    <3>. QED BY <3>1, <3>2
  <2>4. ASSUME NEW h \in Handler, DeleteSession(h) PROVE SessionOfItsAccount'
    BY <2>4 DEF DeleteSession, Typed, SessionsTyped
  <2>5. ASSUME NEW u \in User, DeleteUser(u) PROVE SessionOfItsAccount'
    BY <2>5 DEF DeleteUser, Swept, Typed, UsersTyped
  <2>. QED BY <2>1, <2>2, <2>3, <2>4, <2>5
           DEF Next, HandlerStep, vars, Tick, Restart, Login, WrongPassword,
               RightPassword, SecondFactor, ConsumeRecoveryCode,
               StoreRecoveryFails, ClearFailures, CreateUser,
               SecondFactorFails, ReadRow, Logout, FindToken, PutLastUsed,
               Fails, CreateToken, DeleteToken
<1>. QED BY <1>1, <1>2, TypedInvariant, PTL DEF Spec

(* Nobody holds the row of a token deleted in quiet, and nobody can find   *)
(* it again.                                                               *)
Deleted ==
    \A t \in removed \ revived :
        t \notin tokens /\ \A h \in Handler : work[h].token # t

THEOREM TokensStayDeleted == Spec => []TokenStaysDeleted
<1>1. Init => Deleted
  BY DEF Init, Deleted
<1>2. Deleted /\ Typed /\ [Next]_vars => Deleted'
  <2> SUFFICES ASSUME Deleted, Typed, [Next]_vars PROVE Deleted'
    OBVIOUS
  <2>. USE DEF tokenVars, Deleted
  <2>1. CASE UNCHANGED vars \/ Tick
    BY <2>1 DEF vars, Tick
  <2>2. CASE Restart
    BY <2>2, IdleFits, Sessions DEF Restart, Typed, TokensTyped
  <2>3. ASSUME NEW u \in User, DeleteUser(u) PROVE Deleted'
    BY <2>3 DEF DeleteUser
  <2>4. ASSUME NEW t \in Token, CreateToken(t) \/ DeleteToken(t) PROVE Deleted'
    BY <2>4 DEF CreateToken, DeleteToken, Without, Typed, TokensTyped
  <2>5. ASSUME NEW h \in Handler, HandlerStep(h) PROVE Deleted'
    <3>1. PICK w : /\ w.token \in {work[h].token, None} \cup tokens
                   /\ work' = [work EXCEPT ![h] = w]
      BY <2>5, WorkStep
    <3>2. tokens' \subseteq tokens \cup {work[h].token}
      BY <2>5 DEF HandlerStep, Login, WrongPassword, RightPassword,
         SecondFactor, ConsumeRecoveryCode, StoreRecovery,
         StoreRecoveryFails, ClearFailures, CreateUser, PutNew,
         SecondFactorFails, PutSession, ReadRow, WriteRow,
         Logout, DeleteSession, FindToken, PutLastUsed, Fails
    <3>3. UNCHANGED <<removed, revived>>
      BY <2>5 DEF HandlerStep, Login, WrongPassword, RightPassword,
         SecondFactor, ConsumeRecoveryCode, StoreRecovery,
         StoreRecoveryFails, ClearFailures, CreateUser, PutNew,
         SecondFactorFails, PutSession, ReadRow, WriteRow,
         Logout, DeleteSession, FindToken, PutLastUsed, Fails
    <3>. QED BY <3>1, <3>2, <3>3, Sessions
             DEF Typed, TokensTyped, WorkTyped
  <2>. QED BY <2>1, <2>2, <2>3, <2>4, <2>5 DEF Next
<1>3. Deleted => TokenStaysDeleted
  BY DEF Deleted, TokenStaysDeleted
<1>. QED BY <1>1, <1>2, <1>3, TypedInvariant, PTL DEF Spec
=============================================================================
