---------------------------- MODULE AccountsProofs ----------------------------
(***************************************************************************)
(* What whole-row writes of the users table keep, for any number of users, *)
(* requests at once, secrets, recovery codes, failed writes and crashes.   *)
(***************************************************************************)
EXTENDS Accounts, TLAPS

(* Each step of Next that handles a request, as the proofs split it: a     *)
(* handler that begins something, one on its way to a change of role or a  *)
(* deletion, one that reads for SetRole, and the rest.                     *)
Begins(h) ==
    \/ \E u \in User, role \in Role : Patch(h, u, role) \/ CreateUser(h, u, role)
    \/ \E u \in User : Delete(h, u)
    \/ \E u \in User : SetPassword(h, u) \/ SetupTOTP(h, u) \/ EnableTOTP(h, u)
    \/ \E u \in User, c \in Code \cup {None} : DisableTOTP(h, u, c)
    \/ \E u \in User, c \in Code : Login(h, u, c)
Asks(h) == \/ GetTarget(h) \/ TargetRole(h) \/ ListUsers(h)
           \/ \E u \in User : CountRole(h, u)

LEMMA StepsOfNext ==
    [Next]_vars => \/ \E h \in Handler : Begins(h)
                   \/ \E h \in Handler : Asks(h)
                   \/ \E h \in Handler : SetRole(h)
                   \/ \E h \in Handler : DeleteUser(h)
                   \/ \E h \in Handler : PutUser(h)
                   \/ \E h \in Handler : PutUserFails(h)
                   \/ Restart
                   \/ UNCHANGED vars
BY DEF Next, HandlerStep, Begins, Asks

---------------------------------------------------------------------------
(* The rows that requests write, field by field.                           *)
LEMMA NewRows ==
    /\ NoRow \in Row /\ ~NoRow.exists /\ ~NoRow.enabled /\ NoRow.codes = {}
    /\ \A role \in Role :
         /\ NewRow(role) \in Row
         /\ NewRow(role).exists /\ NewRow(role).role = role
         /\ ~NewRow(role).enabled /\ NewRow(role).codes = {}
BY DEF NoRow, NewRow, Row, Role

LEMMA RowWithRole ==
    ASSUME NEW r \in Row, NEW role \in Role
    PROVE  LET q == [r EXCEPT !.role = role] IN
           /\ q \in Row /\ (q.exists <=> r.exists) /\ q.role = role
           /\ (q.enabled <=> r.enabled)
           /\ q.secret = r.secret /\ q.codes = r.codes
BY DEF Row

LEMMA RowWithSecret ==
    ASSUME NEW r \in Row, NEW s \in Secret
    PROVE  LET q == [r EXCEPT !.secret = s] IN
           /\ q \in Row /\ (q.exists <=> r.exists) /\ q.role = r.role
           /\ (q.enabled <=> r.enabled)
           /\ q.secret = s /\ q.codes = r.codes
BY DEF Row

LEMMA RowWithCodes ==
    ASSUME NEW r \in Row, NEW cs \in SUBSET Code
    PROVE  LET q == [r EXCEPT !.enabled = TRUE, !.codes = cs] IN
           /\ q \in Row /\ (q.exists <=> r.exists) /\ q.role = r.role
           /\ q.enabled /\ q.secret = r.secret /\ q.codes = cs
BY DEF Row

LEMMA RowDisabled ==
    ASSUME NEW r \in Row
    PROVE  LET q == [r EXCEPT !.enabled = FALSE, !.secret = None, !.codes = {}] IN
           /\ q \in Row /\ (q.exists <=> r.exists) /\ q.role = r.role
           /\ ~q.enabled /\ q.codes = {}
BY DEF Row

LEMMA RowConsumed ==
    ASSUME NEW r \in Row, NEW c \in Code
    PROVE  LET q == Consumed(r, c) IN
           /\ q \in Row /\ (q.exists <=> r.exists) /\ q.role = r.role
           /\ (q.enabled <=> r.enabled)
           /\ q.secret = r.secret /\ q.codes = r.codes \ {c}
BY DEF Row, Consumed

(* A request that begins, or reads its row, is one; nobody has written the *)
(* row since.                                                              *)
LEMMA AboutTypes ==
    ASSUME NEW op \in {"idle"} \cup Managing \cup Writing,
           NEW u \in User \cup {None}, NEW r \in Row, NEW c \in Code \cup {None}
    PROVE  /\ About(op, u, r, c) \in Work
           /\ About(op, u, r, c).op = op /\ About(op, u, r, c).user = u
           /\ About(op, u, r, c).row = r /\ About(op, u, r, c).code = c
           /\ ~About(op, u, r, c).stale
<1>. DEFINE no == FALSE
            w == [op |-> op, user |-> u, row |-> r, code |-> c, stale |-> no,
                  left |-> {}, found |-> 0]
<1>1. no \in BOOLEAN /\ ~no
  OBVIOUS
<1>2. /\ w \in Work /\ w.op = op /\ w.user = u /\ w.row = r /\ w.code = c
      /\ w.stale = no
  <2>. HIDE DEF no
  <2>. QED BY <1>1 DEF Work, Enough
<1>3. About(op, u, r, c) = w
  BY DEF About
<1>. HIDE DEF w, no
<1>. QED BY <1>1, <1>2, <1>3

---------------------------------------------------------------------------
(* Enabled only with a confirmed secret, and codes only when enabled.      *)
Sound(r, secrets) == IF r.enabled THEN r.secret \in secrets ELSE r.codes = {}

(* What a request may make of the row q: one change, and to accept the     *)
(* code c only if it takes it away.                                        *)
OneChange(q, op, r, c) ==
    \/ /\ op = "create" /\ ~q.exists /\ c = None
       /\ \E role \in Role : r = NewRow(role)
    \/ /\ op = "setrole" /\ q.exists /\ c = None
       /\ \E role \in Role : r = [q EXCEPT !.role = role]
    \/ op = "write" /\ q.exists /\ c = None /\ r = q
    \/ /\ op = "write" /\ q.exists /\ ~q.enabled /\ q.secret = None /\ c = None
       /\ \E s \in Secret : r = [q EXCEPT !.secret = s]
    \/ /\ op = "write" /\ q.exists /\ q.secret # None /\ c = None
       /\ \E codes \in SUBSET Code :
             r = [q EXCEPT !.enabled = TRUE, !.codes = codes]
    \/ /\ op = "write" /\ q.exists /\ c \in q.codes \cup {None}
       /\ r = [q EXCEPT !.enabled = FALSE, !.secret = None, !.codes = {}]
    \/ op = "login" /\ q.enabled /\ c \in q.codes /\ r = Consumed(q, c)

(* What all the requests have in common when they begin: h is about to do  *)
(* op about u with the row r, and will accept c.                           *)
BeginsAs(h, op, u, r, c) ==
    /\ work[h] = Idle /\ work' = [work EXCEPT ![h] = About(op, u, r, c)]
    /\ UNCHANGED <<users, uses, deleted, tainted, raced>>
    /\ issued \subseteq issued' /\ issued' \subseteq Secret \cup Code
    /\ confirmed \subseteq confirmed' /\ confirmed' \subseteq Secret
    /\ reopened \subseteq reopened' /\ reopened' \subseteq Code
    /\ c # None /\ c \notin reopened' => \A g \in Handler : work[g].code # c
    /\ owner' = [d \in Code |-> IF d \in issued' \ issued THEN u ELSE owner[d]]
    /\ r.codes \subseteq users[u].codes \cup (issued' \ issued)
    /\ Sound(users[u], confirmed) => Sound(r, confirmed')
    /\ c # None => op \in {"write", "login"} /\ c \in users[u].codes \ r.codes
    /\ op \in {"write", "login"} => Exists(u) /\ r.role = users[u].role
    /\ IF op = "get" THEN r = NoRow ELSE r.exists
    /\ op \in {"get", "ask", "create"} => r.codes = {} /\ ~r.enabled
    /\ op = "create" => ~Exists(u)
    /\ op \in Writing => OneChange(users[u], op, r, c)

Starting == {"get", "ask", "create", "write", "login"}

LEMMA RequestsBegin ==
    ASSUME TypeOK, NEW h \in Handler, Begins(h)
    PROVE  \E op \in Starting, u \in User, r \in Row,
              c \in Code \cup {None} : BeginsAs(h, op, u, r, c)
<1>0. /\ \A u \in User : users[u] \in Row
      /\ issued \subseteq Secret \cup Code /\ confirmed \subseteq Secret
      /\ reopened \subseteq Code /\ owner \in [Code -> User \cup {None}]
      /\ \A u \in User : users[u].secret \in Secret \cup {None}
      /\ \A u \in User : users[u].codes \subseteq Code
  BY DEF TypeOK, Row
<1>1. /\ owner = [d \in Code |-> owner[d]]
      /\ "get" \notin Writing /\ "ask" \notin Writing
  BY <1>0 DEF Writing
<1>2. /\ "get" \in Starting /\ "ask" \in Starting /\ "create" \in Starting
      /\ "write" \in Starting /\ "login" \in Starting
  BY DEF Starting
<1>3. ASSUME NEW u \in User, NEW role \in Role, Patch(h, u, role)
      PROVE  BeginsAs(h, "ask", u, NewRow(role), None)
  BY <1>0, <1>1, <1>3, NewRows
  DEF Patch, BeginsAs, Begin, Becomes, Checked, Sound, historyVars
<1>4. ASSUME NEW u \in User, NEW role \in Role, CreateUser(h, u, role)
      PROVE  BeginsAs(h, "create", u, NewRow(role), None)
  <2>1. OneChange(users[u], "create", NewRow(role), None)
    BY <1>4 DEF CreateUser, OneChange, Exists
  <2>. QED BY <1>0, <1>1, <1>4, <2>1, NewRows
           DEF CreateUser, BeginsAs, Begin, Becomes, Checked, Sound, historyVars
<1>5. ASSUME NEW u \in User, Delete(h, u)
      PROVE  BeginsAs(h, "get", u, NoRow, None)
  BY <1>0, <1>1, <1>5, NewRows
  DEF Delete, BeginsAs, Begin, Becomes, Checked, Sound, historyVars
<1>6. ASSUME NEW u \in User, SetPassword(h, u)
      PROVE  BeginsAs(h, "write", u, users[u], None)
  <2>1. OneChange(users[u], "write", users[u], None)
    BY <1>6 DEF SetPassword, OneChange, Exists
  <2>. QED BY <1>0, <1>1, <1>6, <2>1
           DEF SetPassword, BeginsAs, Begin, Becomes, Checked, Sound, Exists, historyVars
<1>7. ASSUME NEW u \in User, SetupTOTP(h, u)
      PROVE  \E r \in Row : BeginsAs(h, "write", u, r, None)
  <2>1. PICK s \in Secret \ issued :
             /\ Begin(h, Checked("write", u, [users[u] EXCEPT !.secret = s]))
             /\ issued' = issued \cup {s}
    BY <1>7 DEF SetupTOTP
  <2>. DEFINE r == [users[u] EXCEPT !.secret = s]
  <2>2. /\ r \in Row /\ (r.exists <=> users[u].exists) /\ r.role = users[u].role
        /\ (r.enabled <=> users[u].enabled) /\ r.codes = users[u].codes
    BY <1>0, RowWithSecret
  <2>3. \A d \in Code : d \notin issued' \ issued
    BY <2>1, AccountsAssumption
  <2>4. /\ work[h] = Idle
        /\ work' = [work EXCEPT ![h] = About("write", u, r, None)]
    BY <2>1 DEF Begin, Becomes, Checked
  <2>5. OneChange(users[u], "write", r, None)
    BY <1>7, <2>1 DEF SetupTOTP, OneChange, Exists
  <2>. HIDE DEF r
  <2>6. BeginsAs(h, "write", u, r, None)
    BY <1>0, <1>1, <1>7, <2>1, <2>2, <2>3, <2>4, <2>5
    DEF SetupTOTP, BeginsAs, Sound, Exists, historyVars
  <2>. QED BY <2>2, <2>6
<1>8. ASSUME NEW u \in User, EnableTOTP(h, u)
      PROVE  \E r \in Row : BeginsAs(h, "write", u, r, None)
  <2>1. PICK codes \in SUBSET (Code \ issued) :
             /\ Begin(h, Checked("write", u, [users[u] EXCEPT !.enabled = TRUE,
                                                              !.codes = codes]))
             /\ issued' = issued \cup codes
             /\ owner' = [c \in Code |-> IF c \in codes THEN u ELSE owner[c]]
    BY <1>8 DEF EnableTOTP
  <2>. DEFINE r == [users[u] EXCEPT !.enabled = TRUE, !.codes = codes]
  <2>2. /\ r \in Row /\ (r.exists <=> users[u].exists) /\ r.role = users[u].role
        /\ r.enabled /\ r.secret = users[u].secret /\ r.codes = codes
    BY <1>0, RowWithCodes
  <2>3. issued' \ issued = codes
    BY <2>1
  <2>4. /\ work[h] = Idle
        /\ work' = [work EXCEPT ![h] = About("write", u, r, None)]
    BY <2>1 DEF Begin, Becomes, Checked
  <2>5. OneChange(users[u], "write", r, None)
    BY <1>8 DEF EnableTOTP, OneChange, Exists
  <2>. HIDE DEF r
  <2>6. BeginsAs(h, "write", u, r, None)
    BY <1>0, <1>8, <2>1, <2>2, <2>3, <2>4, <2>5
    DEF EnableTOTP, BeginsAs, Sound, Exists, historyVars
  <2>. QED BY <2>2, <2>6
<1>9. ASSUME NEW u \in User, NEW c \in Code \cup {None}, DisableTOTP(h, u, c)
      PROVE  \E r \in Row : BeginsAs(h, "write", u, r, c)
  <2>. DEFINE r == [users[u] EXCEPT !.enabled = FALSE, !.secret = None, !.codes = {}]
  <2>2. /\ r \in Row /\ (r.exists <=> users[u].exists) /\ r.role = users[u].role
        /\ ~r.enabled /\ r.codes = {}
    BY <1>0, RowDisabled
  <2>4. /\ work[h] = Idle
        /\ work' = [work EXCEPT ![h] = About("write", u, r, c)]
    BY <1>9 DEF DisableTOTP, Begin, Becomes
  <2>5. OneChange(users[u], "write", r, c)
    BY <1>9 DEF DisableTOTP, OneChange, Exists
  <2>. HIDE DEF r
  <2>6. BeginsAs(h, "write", u, r, c)
    BY <1>0, <1>1, <1>9, <2>2, <2>4, <2>5
    DEF DisableTOTP, Takes, BeginsAs, Sound, Exists, historyVars
  <2>. QED BY <2>2, <2>6
<1>10. ASSUME NEW u \in User, NEW c \in Code, Login(h, u, c)
       PROVE  \E r \in Row : BeginsAs(h, "login", u, r, c)
  <2>. DEFINE r == Consumed(users[u], c)
  <2>2. /\ r \in Row /\ (r.exists <=> users[u].exists) /\ r.role = users[u].role
        /\ (r.enabled <=> users[u].enabled)
        /\ r.secret = users[u].secret /\ r.codes = users[u].codes \ {c}
    BY <1>0, RowConsumed
  <2>4. /\ work[h] = Idle
        /\ work' = [work EXCEPT ![h] = About("login", u, r, c)]
    BY <1>10 DEF Login, Begin, Becomes
  <2>5. OneChange(users[u], "login", r, c)
    BY <1>10 DEF Login, OneChange
  <2>. HIDE DEF r
  <2>6. BeginsAs(h, "login", u, r, c)
    BY <1>0, <1>1, <1>10, <2>2, <2>4, <2>5
    DEF Login, Takes, BeginsAs, Sound, Exists, historyVars
  <2>. QED BY <2>2, <2>6
<1>11. \A role \in Role : NewRow(role) \in Row
  BY NewRows
<1>12. NoRow \in Row
  BY NewRows
<1>. QED BY <1>0, <1>2, <1>3, <1>4, <1>5, <1>6, <1>7, <1>8, <1>9, <1>10, <1>11,
            <1>12 DEF Begins

LEMMA IdleTypes ==
    /\ Idle \in Work /\ Idle.op = "idle" /\ Idle.user = None
    /\ Idle.row = NoRow /\ Idle.code = None
BY AboutTypes, NewRows DEF Idle, Checked

(* Who is at work has a user.                                              *)
LEMMA AtWork ==
    ASSUME TypeOK, NEW h \in Handler
    PROVE  /\ work[h] \in Work /\ work[h].row \in Row
           /\ work[h].op \in {"idle"} \cup Managing \cup Writing
           /\ work[h].code \in Code \cup {None}
           /\ work[h].op # "idle" => work[h].user \in User
BY DEF TypeOK, Work

(* After h has written the row of u, or deleted it, all the others that    *)
(* were about to write it are stale.                                       *)
LEMMA OthersStale ==
    ASSUME TypeOK, NEW h \in Handler, NEW u \in User, Done(h, u)
    PROVE  /\ work' \in [Handler -> Work] /\ work'[h] = Idle
           /\ \A g \in Handler \ {h} :
                /\ work'[g].op = work[g].op /\ work'[g].user = work[g].user
                /\ work'[g].row = work[g].row /\ work'[g].code = work[g].code
                /\ work'[g].left = work[g].left /\ work'[g].found = work[g].found
                /\ work'[g].stale <=> \/ work[g].stale
                                      \/ work[g].user = u /\ work[g].op \in Writing
<1>1. ASSUME NEW g \in Handler
      PROVE  LET w == [work[g] EXCEPT !.stale = TRUE] IN
             /\ w \in Work /\ w.op = work[g].op /\ w.user = work[g].user
             /\ w.row = work[g].row /\ w.code = work[g].code /\ w.stale
             /\ w.left = work[g].left /\ w.found = work[g].found
  BY AtWork DEF Work
<1>2. \A g \in Handler : work[g] \in Work
  BY AtWork
<1>3. work' = [g \in Handler |->
         IF g = h THEN Idle
         ELSE IF work[g].user = u /\ work[g].op \in Writing
              THEN [work[g] EXCEPT !.stale = TRUE] ELSE work[g]]
  BY DEF Done
<1>. QED BY <1>1, <1>2, <1>3, IdleTypes

(* A request that begins changes nothing about the others.                 *)
LEMMA OthersGoOn ==
    ASSUME TypeOK, NEW h \in Handler, NEW op \in Managing \cup Writing,
           NEW u \in User, NEW r \in Row, NEW c \in Code \cup {None},
           work' = [work EXCEPT ![h] = About(op, u, r, c)]
    PROVE  /\ work' \in [Handler -> Work]
           /\ \A g \in Handler \ {h} : work'[g] = work[g]
           /\ work'[h].op = op /\ work'[h].user = u /\ work'[h].row = r
           /\ work'[h].code = c /\ ~work'[h].stale
<1>1. /\ About(op, u, r, c) \in Work
      /\ About(op, u, r, c).op = op /\ About(op, u, r, c).user = u
      /\ About(op, u, r, c).row = r /\ About(op, u, r, c).code = c
      /\ ~About(op, u, r, c).stale
  BY AboutTypes
<1>. QED BY <1>1 DEF TypeOK

LEMMA Begun ==
    ASSUME TypeOK, NEW h \in Handler,
           NEW op \in Starting, NEW u \in User,
           NEW r \in Row, NEW c \in Code \cup {None}, BeginsAs(h, op, u, r, c)
    PROVE  /\ work' \in [Handler -> Work]
           /\ \A g \in Handler \ {h} : work'[g] = work[g]
           /\ work'[h].op = op /\ work'[h].user = u /\ work'[h].row = r
           /\ work'[h].code = c /\ ~work'[h].stale
<1>1. work' = [work EXCEPT ![h] = About(op, u, r, c)]
  BY DEF BeginsAs
<1>2. op \in Managing \cup Writing
  BY DEF Starting, Managing, Writing
<1>. QED BY <1>1, <1>2, OthersGoOn

(* A request on its way to a change of role or a deletion asks about the   *)
(* table: it goes on with its user and its row, or gives up.               *)
LEMMA AsksGoOn ==
    ASSUME TypeOK, NEW h \in Handler, Asks(h)
    PROVE  /\ UNCHANGED <<users, issued, historyVars>>
           /\ work' \in [Handler -> Work]
           /\ \A g \in Handler \ {h} : work'[g] = work[g]
           /\ work[h].op \in {"get", "ask", "list", "count"}
           /\ \/ work'[h] = Idle
              \/ /\ work'[h].op \in Managing /\ work'[h].user = work[h].user
                 /\ work'[h].row = work[h].row /\ work'[h].code = work[h].code
<1>. DEFINE w == work[h]
            Onward(v) == \/ v = Idle
                         \/ /\ v \in Work /\ v.op \in Managing /\ v.user = w.user
                            /\ v.row = w.row /\ v.code = w.code
<1>0. w \in Work /\ w.found \in 0 .. 2
  BY AtWork DEF Work, Enough
<1>. HIDE DEF w
<1>1. /\ Onward([w EXCEPT !.op = "ask"]) /\ Onward([w EXCEPT !.op = "list"])
      /\ Onward(Granted(w))
  <2>1. /\ \A op \in {"ask", "list", "role", "delete"} : op \in Managing
        /\ {} \in SUBSET User /\ 0 \in 0 .. Enough
    BY DEF Managing, Enough
  <2>2. ASSUME NEW op \in Managing, NEW v,
               \/ v = [w EXCEPT !.op = op]
               \/ v = [w EXCEPT !.op = op, !.left = {}, !.found = 0]
        PROVE  Onward(v)
    <3>1. /\ v \in Work /\ v.op = op /\ v.user = w.user /\ v.row = w.row
          /\ v.code = w.code
      BY <1>0, <2>1, <2>2 DEF Work, Enough
    <3>. QED BY <3>1
  <2>3. Granted(w) = [w EXCEPT !.op = IF w.row.exists THEN "role" ELSE "delete",
                               !.left = {}, !.found = 0]
    BY DEF Granted
  <2>. HIDE DEF Onward
  <2>. QED BY <2>1, <2>2, <2>3
<1>2. ASSUME NEW left \in SUBSET User, NEW n \in 0 .. 2
      PROVE  Onward(Counting(w, left, n))
  <2>1. "count" \in Managing /\ n \in 0 .. Enough
    BY DEF Managing, Enough
  <2>2. Counting(w, left, n) = [w EXCEPT !.op = "count", !.left = left, !.found = n]
    BY DEF Counting
  <2>. DEFINE v == Counting(w, left, n)
  <2>. HIDE DEF v
  <2>3. /\ v \in Work /\ v.op = "count" /\ v.user = w.user /\ v.row = w.row
        /\ v.code = w.code
    BY <1>0, <2>1, <2>2 DEF v, Work, Enough
  <2>4. Onward(v)
    BY <2>1, <2>3
  <2>. QED BY <2>4 DEF v
<1>3. Onward(Idle)
  OBVIOUS
<1>. USE DEF w
<1>. HIDE DEF Onward
<1>4. /\ UNCHANGED <<users, issued, historyVars>>
      /\ w.op \in {"get", "ask", "list", "count"}
      /\ \E v : Becomes(h, v) /\ Onward(v)
  <2>1. CASE GetTarget(h)
    BY <1>1, <1>3, <2>1 DEF GetTarget
  <2>2. CASE TargetRole(h)
    BY <1>1, <2>2 DEF TargetRole
  <2>3. CASE ListUsers(h)
    <3>. DEFINE listed == {u \in User : Exists(u)}
    <3>1. listed \in SUBSET User /\ 0 \in 0 .. 2
      OBVIOUS
    <3>2. Onward(Counting(w, listed, 0))
      BY <1>2, <3>1
    <3>. QED BY <1>3, <2>3, <3>2 DEF ListUsers
  <2>4. ASSUME NEW u \in User, CountRole(h, u)
        PROVE  /\ UNCHANGED <<users, issued, historyVars>>
               /\ w.op \in {"get", "ask", "list", "count"}
               /\ \E v : Becomes(h, v) /\ Onward(v)
    <3>. DEFINE n == IF RoleOf(u) = "admin" /\ w.found < Enough
                     THEN w.found + 1 ELSE w.found
                left == w.left \ {u}
    <3>1. left \in SUBSET User /\ n \in 0 .. 2
      BY <1>0 DEF Work, Enough
    <3>2. Onward(Counting(w, left, n))
      BY <1>2, <3>1
    <3>. QED BY <1>1, <1>3, <2>4, <3>2 DEF CountRole
  <2>. QED BY <2>1, <2>2, <2>3, <2>4 DEF Asks
<1>5. PICK v : Becomes(h, v) /\ Onward(v)
  BY <1>4
<1>6. v \in Work
  BY <1>5, IdleTypes DEF Onward
<1>7. /\ work' \in [Handler -> Work] /\ work'[h] = v
      /\ \A g \in Handler \ {h} : work'[g] = work[g]
  BY <1>5, <1>6 DEF Becomes, TypeOK
<1>. QED BY <1>4, <1>5, <1>7 DEF Onward

---------------------------------------------------------------------------
(* The variables hold the values the code can give them.                   *)
THEOREM TypeCorrect == Spec => []TypeOK
<1>1. Init => TypeOK
  <2> SUFFICES ASSUME Init PROVE TypeOK
    OBVIOUS
  <2>1. \A v \in User : users[v] \in Row
    BY NewRows DEF Init, Role
  <2>2. users \in [User -> Row]
    BY <2>1 DEF Init
  <2>3. uses \in [Code -> 0 .. MaxUses]
    BY DEF Init, MaxUses
  <2>. QED BY <2>2, <2>3, IdleTypes DEF Init, TypeOK
<1>2. TypeOK /\ [Next]_vars => TypeOK'
  <2> SUFFICES ASSUME TypeOK, [Next]_vars PROVE TypeOK'
    OBVIOUS
  <2>. USE AccountsAssumption
  <2>0. "idle" \notin Managing \cup Writing
    BY DEF Managing, Writing
  <2>00. ASSUME NEW c \in Code \cup {None}, Accepted(c)
         PROVE  uses' \in [Code -> 0 .. MaxUses]
    BY <2>00 DEF Accepted, TypeOK, MaxUses
  <2>1. ASSUME NEW h \in Handler, Begins(h) PROVE TypeOK'
    <3>1. PICK op \in Starting, u \in User, r \in Row,
               c \in Code \cup {None} : BeginsAs(h, op, u, r, c)
      BY <2>1, RequestsBegin
    <3>2. /\ work' \in [Handler -> Work]
          /\ \A g \in Handler \ {h} : work'[g] = work[g]
          /\ work'[h].op = op /\ work'[h].user = u
      BY <3>1, Begun
    <3>3. op # "idle" /\ u # None
      BY DEF Starting
    <3>4. \A g \in Handler : work'[g].op = "idle" <=> work'[g].user = None
      BY <3>2, <3>3 DEF TypeOK
    <3>5. owner' \in [Code -> User \cup {None}]
      BY <3>1 DEF BeginsAs, TypeOK
    <3>. QED BY <3>1, <3>2, <3>4, <3>5 DEF BeginsAs, TypeOK
  <2>8. ASSUME NEW h \in Handler, Asks(h) PROVE TypeOK'
    <3>1. /\ work' \in [Handler -> Work]
          /\ \A g \in Handler \ {h} : work'[g] = work[g]
          /\ \/ work'[h] = Idle
             \/ work'[h].op \in Managing /\ work'[h].user = work[h].user
          /\ work[h].op # "idle" /\ UNCHANGED <<users, issued, historyVars>>
      BY <2>8, AsksGoOn
    <3>2. \A g \in Handler : work'[g].op = "idle" <=> work'[g].user = None
      BY <2>0, <3>1, IdleTypes DEF TypeOK
    <3>. QED BY <3>1, <3>2 DEF TypeOK, historyVars
  <2>2. ASSUME NEW h \in Handler, SetRole(h) PROVE TypeOK'
    <3>1. /\ work[h].op = "role" /\ work[h].user \in User
          /\ users[work[h].user] \in Row /\ work[h].row.role \in Role
      BY <2>2, AtWork DEF SetRole, TypeOK, Row
    <3>. DEFINE u == work[h].user
                r == [users[u] EXCEPT !.role = work[h].row.role]
    <3>2. r \in Row
      BY <3>1, RowWithRole
    <3>3. CASE Exists(u)
      <4>. HIDE DEF u, r
      <4>0. u \in User
        BY <3>1 DEF u
      <4>1. work' = [work EXCEPT ![h] = About("setrole", u, r, None)]
        BY <2>2, <3>3 DEF SetRole, Checked, u, r
      <4>2. /\ work' \in [Handler -> Work]
            /\ \A g \in Handler \ {h} : work'[g] = work[g]
            /\ work'[h].op = "setrole" /\ work'[h].user = u
        BY <3>2, <4>0, <4>1, OthersGoOn DEF Writing
      <4>3. \A g \in Handler : work'[g].op = "idle" <=> work'[g].user = None
        BY <4>0, <4>2 DEF TypeOK
      <4>. QED BY <2>2, <4>2, <4>3 DEF SetRole, historyVars, TypeOK
    <3>4. CASE ~Exists(u)
      <4>1. work' = [work EXCEPT ![h] = Idle]
        BY <2>2, <3>4 DEF SetRole
      <4>. QED BY <2>2, <4>1, IdleTypes DEF SetRole, historyVars, TypeOK
    <3>. QED BY <3>3, <3>4
  <2>3. ASSUME NEW h \in Handler, DeleteUser(h) PROVE TypeOK'
    <3>1. work[h].user \in User /\ Done(h, work[h].user)
      BY <2>3, AtWork DEF DeleteUser
    <3>2. /\ work' \in [Handler -> Work] /\ work'[h] = Idle
          /\ \A g \in Handler \ {h} :
               work'[g].op = work[g].op /\ work'[g].user = work[g].user
      BY <3>1, OthersStale
    <3>3. \A g \in Handler : work'[g].op = "idle" <=> work'[g].user = None
      BY <3>2, IdleTypes DEF TypeOK
    <3>4. users' \in [User -> Row] /\ deleted' \subseteq User
      BY <2>3, <3>1, NewRows DEF DeleteUser, TypeOK
    <3>. QED BY <2>3, <3>2, <3>3, <3>4 DEF DeleteUser, TypeOK
  <2>4. ASSUME NEW h \in Handler, PutUser(h) PROVE TypeOK'
    <3>1. /\ work[h].user \in User /\ Done(h, work[h].user)
          /\ work[h].row \in Row /\ work[h].code \in Code \cup {None}
      BY <2>0, <2>4, AtWork DEF PutUser
    <3>2. /\ work' \in [Handler -> Work] /\ work'[h] = Idle
          /\ \A g \in Handler \ {h} :
               work'[g].op = work[g].op /\ work'[g].user = work[g].user
      BY <3>1, OthersStale
    <3>3. \A g \in Handler : work'[g].op = "idle" <=> work'[g].user = None
      BY <3>2, IdleTypes DEF TypeOK
    <3>4. users' \in [User -> Row] /\ deleted' \subseteq User /\ tainted' \subseteq User
      BY <2>4, <3>1 DEF PutUser, TypeOK
    <3>5. uses' \in [Code -> 0 .. MaxUses]
      BY <2>00, <2>4, <3>1 DEF PutUser
    <3>6. reopened' \subseteq Code
      <4>1. /\ reopened \subseteq Code
            /\ {c \in work[h].row.codes : uses[c] > 0} \subseteq Code
        BY <3>1 DEF TypeOK, Row
      <4>. QED BY <2>4, <4>1 DEF PutUser
    <3>. QED BY <2>4, <3>2, <3>3, <3>4, <3>5, <3>6 DEF PutUser, TypeOK
  <2>5. ASSUME NEW h \in Handler, PutUserFails(h) PROVE TypeOK'
    <3>1. /\ work[h].user \in User /\ work[h].code \in Code \cup {None}
          /\ work' = [work EXCEPT ![h] = Idle]
      BY <2>0, <2>5, AtWork DEF PutUserFails
    <3>2. /\ work' \in [Handler -> Work]
          /\ \A g \in Handler : work'[g].op = "idle" <=> work'[g].user = None
      BY <3>1, IdleTypes DEF TypeOK
    <3>3. uses' \in [Code -> 0 .. MaxUses] /\ tainted' \subseteq User
      BY <2>00, <2>5, <3>1 DEF PutUserFails, TypeOK
    <3>4. reopened' \subseteq Code
      BY <2>5, <3>1 DEF PutUserFails, TypeOK
    <3>. QED BY <2>5, <3>2, <3>3, <3>4 DEF PutUserFails, TypeOK
  <2>6. ASSUME Restart PROVE TypeOK'
    <3>1. users' \in [User -> Row] /\ deleted' \subseteq User
      BY <2>6, NewRows DEF Restart, TypeOK, Role
    <3>2. /\ work' \in [Handler -> Work]
          /\ \A g \in Handler : work'[g].op = "idle" <=> work'[g].user = None
      BY <2>6, IdleTypes DEF Restart
    <3>. QED BY <2>6, <3>1, <3>2 DEF Restart, TypeOK
  <2>7. CASE UNCHANGED vars
    BY <2>7 DEF vars, TypeOK
  <2>. QED BY <2>1, <2>8, <2>2, <2>3, <2>4, <2>5, <2>6, <2>7, StepsOfNext
<1>. QED BY <1>1, <1>2, PTL DEF Spec

---------------------------------------------------------------------------
(* The rows in the table and the rows that requests are about to write.    *)
SecretsConfirmed ==
    /\ \A u \in User : Sound(users[u], confirmed)
    /\ \A h \in Handler : Sound(work[h].row, confirmed)

(* Whichever of several concurrent writes of a row comes last, two-factor  *)
(* authentication is enabled only with a secret its user has shown a code  *)
(* for, and codes are there only while it is enabled.                      *)
THEOREM SecondFactorIsConfirmed == Spec => []SecondFactorConfirmed
<1>1. Init => SecretsConfirmed
  BY NewRows, IdleTypes DEF Init, SecretsConfirmed, Sound, Role
<1>2. SecretsConfirmed /\ TypeOK /\ [Next]_vars => SecretsConfirmed'
  <2> SUFFICES ASSUME SecretsConfirmed, TypeOK, [Next]_vars PROVE SecretsConfirmed'
    OBVIOUS
  <2>0. Sound(NoRow, confirmed) /\ \A role \in Role : Sound(NewRow(role), confirmed)
    BY NewRows DEF Sound
  <2>1. ASSUME NEW h \in Handler, Begins(h) PROVE SecretsConfirmed'
    <3>1. PICK op \in Starting, u \in User, r \in Row,
               c \in Code \cup {None} : BeginsAs(h, op, u, r, c)
      BY <2>1, RequestsBegin
    <3>2. /\ \A g \in Handler \ {h} : work'[g] = work[g]
          /\ work'[h].row = r
      BY <3>1, Begun
    <3>. QED BY <3>1, <3>2 DEF BeginsAs, SecretsConfirmed, Sound
  <2>8. ASSUME NEW h \in Handler, Asks(h) PROVE SecretsConfirmed'
    <3>1. /\ \A g \in Handler \ {h} : work'[g] = work[g]
          /\ work'[h].row = NoRow \/ work'[h].row = work[h].row
          /\ UNCHANGED <<users, issued, historyVars>>
      BY <2>8, AsksGoOn, IdleTypes
    <3>. QED BY <2>0, <3>1 DEF SecretsConfirmed, Sound, historyVars
  <2>2. ASSUME NEW h \in Handler, SetRole(h) PROVE SecretsConfirmed'
    <3>1. /\ work[h].op = "role" /\ work[h].user \in User
          /\ users[work[h].user] \in Row /\ work[h].row.role \in Role
      BY <2>2, AtWork DEF SetRole, TypeOK, Row
    <3>. DEFINE u == work[h].user
                r == [users[u] EXCEPT !.role = work[h].row.role]
    <3>2. /\ r \in Row /\ (r.enabled <=> users[u].enabled)
          /\ r.secret = users[u].secret /\ r.codes = users[u].codes
      BY <3>1, RowWithRole
    <3>3. /\ \A g \in Handler \ {h} : work'[g] = work[g]
          /\ work'[h] = About("setrole", u, r, None) \/ work'[h] = Idle
      BY <2>2 DEF SetRole, Checked, TypeOK
    <3>. HIDE DEF r
    <3>4. work'[h].row = r \/ work'[h].row = NoRow
      BY <3>1, <3>2, <3>3, AboutTypes, IdleTypes DEF Managing, Writing
    <3>. QED BY <2>0, <2>2, <3>1, <3>2, <3>3, <3>4
             DEF SetRole, historyVars, SecretsConfirmed, Sound
  <2>3. ASSUME NEW h \in Handler, DeleteUser(h) \/ PutUser(h) PROVE SecretsConfirmed'
    <3>1. work[h].user \in User /\ Done(h, work[h].user)
      BY <2>3, AtWork DEF DeleteUser, PutUser, Writing
    <3>2. /\ work'[h].row = NoRow
          /\ \A g \in Handler \ {h} : work'[g].row = work[g].row
      BY <3>1, OthersStale, IdleTypes
    <3>3. /\ \/ users' = [users EXCEPT ![work[h].user] = NoRow]
             \/ users' = [users EXCEPT ![work[h].user] = work[h].row]
          /\ UNCHANGED confirmed
      BY <2>3 DEF DeleteUser, PutUser
    <3>. QED BY <2>0, <3>1, <3>2, <3>3 DEF SecretsConfirmed, TypeOK
  <2>4. ASSUME NEW h \in Handler, PutUserFails(h) PROVE SecretsConfirmed'
    <3>1. /\ work' = [work EXCEPT ![h] = Idle] /\ UNCHANGED <<users, confirmed>>
      BY <2>4 DEF PutUserFails
    <3>. QED BY <2>0, <3>1, IdleTypes DEF SecretsConfirmed, TypeOK
  <2>5. ASSUME Restart PROVE SecretsConfirmed'
    <3>1. work' = [h \in Handler |-> Idle] /\ UNCHANGED confirmed
      BY <2>5 DEF Restart
    <3>2. \A u \in User : users'[u] = users[u] \/ users'[u] = NewRow("admin")
      BY <2>5 DEF Restart, TypeOK
    <3>. QED BY <2>0, <3>1, <3>2, IdleTypes DEF SecretsConfirmed, Role
  <2>6. CASE UNCHANGED vars
    BY <2>6 DEF vars, SecretsConfirmed
  <2>. QED BY <2>1, <2>8, <2>2, <2>3, <2>4, <2>5, <2>6, StepsOfNext
<1>3. SecretsConfirmed => SecondFactorConfirmed
  BY DEF SecretsConfirmed, SecondFactorConfirmed, Sound
<1>. QED BY <1>1, <1>2, <1>3, TypeCorrect, PTL DEF Spec

---------------------------------------------------------------------------
(* A deleted user has no row, and whoever had read it before is stale.     *)
GoneForGood == \A u \in deleted \ tainted :
    /\ ~Exists(u)
    /\ \A h \in Handler : work[h].user = u /\ work[h].op \in Writing \ {"create"} =>
            work[h].stale

(* A deleted user comes back only through a request to create it, or a     *)
(* write of a request that had read the row before it was deleted.         *)
THEOREM DeletedUsersStayDeleted == Spec => []DeletedStaysDeleted
<1>1. Init => GoneForGood
  BY DEF Init, GoneForGood
<1>2. GoneForGood /\ TypeOK /\ [Next]_vars => GoneForGood'
  <2> SUFFICES ASSUME GoneForGood, TypeOK, [Next]_vars PROVE GoneForGood'
    OBVIOUS
  <2>0. "idle" \notin Writing /\ "role" \notin Writing /\ "delete" \notin Writing
    BY DEF Writing
  <2>1. ASSUME NEW h \in Handler, Begins(h) PROVE GoneForGood'
    <3>1. PICK op \in Starting, u \in User, r \in Row,
               c \in Code \cup {None} : BeginsAs(h, op, u, r, c)
      BY <2>1, RequestsBegin
    <3>2. /\ UNCHANGED <<users, deleted, tainted>>
          /\ op \in {"write", "login"} => Exists(u)
      BY <3>1 DEF BeginsAs
    <3>3. /\ \A g \in Handler \ {h} : work'[g] = work[g]
          /\ work'[h].op = op /\ work'[h].user = u
      BY <3>1, Begun
    <3>4. op \in Writing \ {"create"} => op \in {"write", "login"}
      BY DEF Starting, Writing
    <3>. QED BY <3>2, <3>3, <3>4 DEF GoneForGood, Exists
  <2>8. ASSUME NEW h \in Handler, Asks(h) PROVE GoneForGood'
    <3>1. /\ \A g \in Handler \ {h} : work'[g] = work[g]
          /\ work'[h].op \notin Writing \ {"create"}
          /\ UNCHANGED <<users, issued, historyVars>>
      BY <2>0, <2>8, AsksGoOn, IdleTypes DEF Managing, Writing
    <3>. QED BY <3>1 DEF GoneForGood, Exists, historyVars
  <2>2. ASSUME NEW h \in Handler, SetRole(h) PROVE GoneForGood'
    <3>1. /\ \A g \in Handler \ {h} : work'[g] = work[g]
          /\ UNCHANGED <<users, deleted, tainted>>
      BY <2>2 DEF SetRole, historyVars, TypeOK
    <3>2. work[h].user \in User /\ work[h].row.role \in Role
      BY <2>2, AtWork DEF SetRole, Row
    <3>3. CASE ~Exists(work[h].user)
      <4>1. work'[h] = Idle
        BY <2>2, <3>3 DEF SetRole, TypeOK
      <4>. QED BY <2>0, <3>1, <4>1, IdleTypes DEF GoneForGood, Exists
    <3>4. CASE Exists(work[h].user)
      <4>. DEFINE u == work[h].user
                  r == [users[u] EXCEPT !.role = work[h].row.role]
      <4>1. work'[h] = About("setrole", u, r, None) /\ r \in Row
        BY <2>2, <3>2, <3>4, RowWithRole DEF SetRole, Checked, TypeOK
      <4>. HIDE DEF r
      <4>2. work'[h].user = u
        BY <3>2, <4>1, AboutTypes DEF Writing
      <4>. QED BY <3>1, <3>4, <4>2 DEF GoneForGood, Exists
    <3>. QED BY <3>3, <3>4
  <2>3. ASSUME NEW h \in Handler, DeleteUser(h) \/ PutUser(h) PROVE GoneForGood'
    <3>. DEFINE u == work[h].user
    <3>1. u \in User /\ Done(h, u)
      BY <2>3, AtWork DEF DeleteUser, PutUser, Writing
    <3>. HIDE DEF u
    <3>2. /\ work'[h].op = "idle"
          /\ \A g \in Handler \ {h} :
               /\ work'[g].op = work[g].op /\ work'[g].user = work[g].user
               /\ work'[g].stale <=> \/ work[g].stale
                                     \/ work[g].user = u /\ work[g].op \in Writing
      BY <3>1, OthersStale, IdleTypes
    <3>3. \A v \in User \ {u} : users'[v] = users[v]
      BY <2>3 DEF DeleteUser, PutUser, TypeOK, u
    <3>4. CASE DeleteUser(h)
      <4>1. /\ users'[u] = NoRow /\ UNCHANGED tainted
            /\ deleted' = deleted \cup {u} /\ deleted \subseteq User
        BY <3>1, <3>4 DEF DeleteUser, TypeOK, u
      <4>. QED BY <2>0, <3>2, <3>3, <4>1, NewRows DEF GoneForGood, Exists
    <3>5. CASE PutUser(h)
      <4>1. /\ tainted' = IF work[h].stale THEN tainted \cup {u} ELSE tainted
            /\ deleted' = IF work[h].op = "create" THEN deleted \ {u} ELSE deleted
            /\ work[h].op \in Writing /\ deleted \subseteq User
        BY <3>5 DEF PutUser, TypeOK, u
      <4>2. u \notin deleted' \ tainted'
        BY <4>1 DEF GoneForGood, u
      <4>. QED BY <2>0, <3>2, <3>3, <4>1, <4>2 DEF GoneForGood, Exists
    <3>. QED BY <2>3, <3>4, <3>5
  <2>4. ASSUME NEW h \in Handler, PutUserFails(h) PROVE GoneForGood'
    <3>1. /\ work' = [work EXCEPT ![h] = Idle] /\ UNCHANGED <<users, deleted>>
          /\ tainted \subseteq tainted'
      BY <2>4 DEF PutUserFails
    <3>. QED BY <2>0, <3>1, IdleTypes DEF GoneForGood, TypeOK, Exists
  <2>5. ASSUME Restart PROVE GoneForGood'
    <3>1. work' = [h \in Handler |-> Idle] /\ UNCHANGED tainted
      BY <2>5 DEF Restart
    <3>2. \A v \in deleted' \ tainted : ~users'[v].exists
      BY <2>5 DEF Restart, TypeOK, GoneForGood, Exists
    <3>. QED BY <2>0, <3>1, <3>2, IdleTypes DEF GoneForGood, Exists
  <2>6. CASE UNCHANGED vars
    BY <2>6 DEF vars, GoneForGood, Exists
  <2>. QED BY <2>1, <2>8, <2>2, <2>3, <2>4, <2>5, <2>6, StepsOfNext
<1>3. GoneForGood => DeletedStaysDeleted
  BY DEF GoneForGood, DeletedStaysDeleted
<1>. QED BY <1>1, <1>2, <1>3, TypeCorrect, PTL DEF Spec

---------------------------------------------------------------------------
(* A code in a row is of the row's user.                                   *)
CodesOwned ==
    /\ \A u \in User, c \in Code : c \in users[u].codes =>
         c \in issued /\ owner[c] = u
    /\ \A h \in Handler, c \in Code : c \in work[h].row.codes =>
         c \in issued /\ owner[c] = work[h].user
    /\ \A h \in Handler : work[h].code # None =>
         /\ work[h].code \in issued /\ owner[work[h].code] = work[h].user
         /\ work[h].code \notin work[h].row.codes
    /\ \A c \in Code : uses[c] > 0 => c \in issued

(* A code that was accepted is in no row any more, and in none that will   *)
(* be written, except by requests that are stale.                          *)
CodesSpent == \A c \in Code : owner[c] \notin tainted =>
    /\ uses[c] <= 1
    /\ uses[c] = 1 => \A u \in User : c \notin users[u].codes
    /\ uses[c] = 1 => \A h \in Handler :
         work[h].op \in Writing /\ ~work[h].stale =>
            c \notin work[h].row.codes /\ c # work[h].code

LEMMA CodesInvariant == Spec => [](CodesOwned /\ CodesSpent)
<1>1. Init => CodesOwned /\ CodesSpent
  BY NewRows, IdleTypes DEF Init, CodesOwned, CodesSpent, Role
<1>2. CodesOwned /\ CodesSpent /\ TypeOK /\ [Next]_vars
        => CodesOwned' /\ CodesSpent'
  <2> SUFFICES ASSUME CodesOwned, CodesSpent, TypeOK, [Next]_vars
               PROVE  CodesOwned' /\ CodesSpent'
    OBVIOUS
  <2>0. /\ "idle" \notin Writing /\ "role" \notin Writing
        /\ uses \in [Code -> 0 .. 2] /\ None \notin Code
    BY AccountsAssumption DEF Writing, TypeOK, MaxUses
  <2>1. ASSUME NEW h \in Handler, Begins(h) PROVE CodesOwned' /\ CodesSpent'
    <3>1. PICK op \in Starting, u \in User, r \in Row,
               c \in Code \cup {None} : BeginsAs(h, op, u, r, c)
      BY <2>1, RequestsBegin
    <3>2. /\ \A g \in Handler \ {h} : work'[g] = work[g]
          /\ work'[h].user = u /\ work'[h].row = r /\ work'[h].code = c
      BY <3>1, Begun
    <3>3. /\ UNCHANGED <<users, uses, tainted>> /\ issued \subseteq issued'
          /\ \A d \in Code : owner'[d] = IF d \in issued' \ issued
                                        THEN u ELSE owner[d]
          /\ r.codes \subseteq users[u].codes \cup (issued' \ issued)
          /\ c # None => c \in users[u].codes \ r.codes
      BY <3>1 DEF BeginsAs
    <3>4. \A d \in Code : d \in r.codes => d \in issued' /\ owner'[d] = u
      BY <3>3 DEF CodesOwned
    <3>5. c # None => c \in issued' /\ owner'[c] = u /\ c \notin r.codes
      BY <3>3 DEF CodesOwned
    <3>6. CodesOwned'
      <4>1. \A d \in Code : d \in issued => d \in issued' /\ owner'[d] = owner[d]
        BY <3>3
      <4>2. \A g \in Handler : work[g].code \in Code \cup {None}
        BY AtWork
      <4>. QED BY <3>2, <3>3, <3>4, <3>5, <4>1, <4>2 DEF CodesOwned
    <3>7. ASSUME NEW d \in Code, owner'[d] \notin tainted', uses'[d] = 1
          PROVE  /\ owner[d] \notin tainted /\ uses[d] = 1
                 /\ d \notin r.codes /\ d # c
      <4>1. d \in issued /\ owner[d] \notin tainted /\ uses[d] = 1
        BY <3>3, <3>7 DEF CodesOwned
      <4>2. d \notin users[u].codes
        BY <4>1 DEF CodesSpent
      <4>. QED BY <2>0, <3>3, <4>1, <4>2
    <3>8. \A d \in Code : owner'[d] \notin tainted' => uses'[d] <= 1
      BY <2>0, <3>3 DEF CodesOwned, CodesSpent
    <3>. QED BY <3>2, <3>3, <3>6, <3>7, <3>8 DEF CodesSpent
  <2>8. ASSUME NEW h \in Handler, Asks(h) PROVE CodesOwned' /\ CodesSpent'
    <3>1. /\ \A g \in Handler \ {h} : work'[g] = work[g]
          /\ work'[h].op \notin Writing
          /\ \/ work'[h] = Idle
             \/ /\ work'[h].user = work[h].user
                /\ work'[h].row = work[h].row /\ work'[h].code = work[h].code
          /\ UNCHANGED <<users, issued, historyVars>>
      BY <2>0, <2>8, AsksGoOn, IdleTypes DEF Managing, Writing
    <3>2. CodesOwned'
      BY <2>0, <3>1, IdleTypes, NewRows DEF CodesOwned, historyVars
    <3>3. CodesSpent'
      BY <3>1 DEF CodesSpent, historyVars
    <3>. QED BY <3>2, <3>3
  <2>2. ASSUME NEW h \in Handler, SetRole(h) PROVE CodesOwned' /\ CodesSpent'
    <3>1. /\ \A g \in Handler \ {h} : work'[g] = work[g]
          /\ UNCHANGED <<users, issued, owner, uses, tainted>>
      BY <2>2 DEF SetRole, historyVars, TypeOK
    <3>2. work[h].user \in User /\ work[h].row.role \in Role
      BY <2>2, AtWork DEF SetRole, Row
    <3>3. CASE ~Exists(work[h].user)
      <4>1. work'[h] = Idle
        BY <2>2, <3>3 DEF SetRole, TypeOK
      <4>. QED BY <2>0, <3>1, <4>1, IdleTypes, NewRows DEF CodesOwned, CodesSpent
    <3>4. CASE Exists(work[h].user)
      <4>. DEFINE u == work[h].user
                  r == [users[u] EXCEPT !.role = work[h].row.role]
      <4>1. /\ work'[h] = About("setrole", u, r, None) /\ r \in Row
            /\ r.codes = users[u].codes
        BY <2>2, <3>2, <3>4, RowWithRole DEF SetRole, Checked, TypeOK
      <4>. HIDE DEF r
      <4>0. "setrole" \in Writing /\ u \in User /\ None \in Code \cup {None}
        BY <3>2 DEF Writing
      <4>2. /\ work'[h].user = u /\ work'[h].row = r /\ work'[h].code = None
        BY <4>0, <4>1, AboutTypes
      <4>. HIDE DEF u
      <4>3. u \in User
        BY <3>2 DEF u
      <4>. QED BY <2>0, <3>1, <4>1, <4>2, <4>3 DEF CodesOwned, CodesSpent
    <3>. QED BY <3>3, <3>4
  <2>3. ASSUME NEW h \in Handler, DeleteUser(h) PROVE CodesOwned' /\ CodesSpent'
    <3>. DEFINE u == work[h].user
    <3>1. u \in User /\ Done(h, u)
      BY <2>3, AtWork DEF DeleteUser
    <3>. HIDE DEF u
    <3>2. /\ work'[h] = Idle
          /\ \A g \in Handler \ {h} :
               /\ work'[g].op = work[g].op /\ work'[g].user = work[g].user
               /\ work'[g].row = work[g].row /\ work'[g].code = work[g].code
               /\ work[g].stale => work'[g].stale
      BY <3>1, OthersStale
    <3>3. /\ users'[u] = NoRow /\ \A v \in User \ {u} : users'[v] = users[v]
          /\ UNCHANGED <<issued, owner, uses, tainted>>
      BY <2>3, <3>1 DEF DeleteUser, TypeOK, u
    <3>. QED BY <2>0, <3>2, <3>3, IdleTypes, NewRows DEF CodesOwned, CodesSpent
  <2>4. ASSUME NEW h \in Handler, PutUser(h) PROVE CodesOwned' /\ CodesSpent'
    <3>. DEFINE u == work[h].user
                r == work[h].row
                c == work[h].code
    <3>1. /\ u \in User /\ r \in Row /\ c \in Code \cup {None} /\ Done(h, u)
      BY <2>0, <2>4, AtWork DEF PutUser
    <3>2. /\ work'[h] = Idle
          /\ \A g \in Handler \ {h} :
               /\ work'[g].op = work[g].op /\ work'[g].user = work[g].user
               /\ work'[g].row = work[g].row /\ work'[g].code = work[g].code
               /\ work'[g].stale <=> \/ work[g].stale
                                     \/ work[g].user = u /\ work[g].op \in Writing
      BY <3>1, OthersStale
    <3>3. /\ users'[u] = r /\ \A v \in User \ {u} : users'[v] = users[v]
          /\ UNCHANGED <<issued, owner>>
          /\ tainted' = IF work[h].stale THEN tainted \cup {u} ELSE tainted
          /\ work[h].op \in Writing
      BY <2>4, <3>1 DEF PutUser, TypeOK
    <3>4. \A d \in Code : uses'[d] = IF d = c /\ uses[d] < 2
                                   THEN uses[d] + 1 ELSE uses[d]
      BY <2>4 DEF PutUser, Accepted, MaxUses
    <3>5. /\ \A d \in Code : d \in r.codes => d \in issued /\ owner[d] = u
          /\ c # None => c \in issued /\ owner[c] = u /\ c \notin r.codes
      BY DEF CodesOwned
    <3>6. \A d \in Code : owner[d] \notin tainted /\ uses[d] = 1 /\ ~work[h].stale =>
            d \notin r.codes /\ d # c
      BY <3>3 DEF CodesSpent
    <3>. HIDE DEF u, r, c
    <3>7. CodesOwned'
      BY <2>0, <3>1, <3>2, <3>3, <3>4, <3>5, IdleTypes, NewRows DEF CodesOwned
    <3>8. ASSUME NEW d \in Code, owner'[d] \notin tainted'
          PROVE  /\ uses'[d] <= 1
                 /\ uses'[d] = 1 => \A v \in User : d \notin users'[v].codes
                 /\ uses'[d] = 1 => \A g \in Handler :
                      work'[g].op \in Writing /\ ~work'[g].stale =>
                        d \notin work'[g].row.codes /\ d # work'[g].code
      <4>0. /\ owner[d] \notin tainted /\ uses[d] \in 0 .. 2
            /\ owner[d] = u => ~work[h].stale
        BY <2>0, <3>3, <3>8
      <4>1. CASE d = c
        <5>1. owner[d] = u /\ uses[d] = 0 /\ uses'[d] = 1
          BY <2>0, <3>4, <3>5, <3>6, <4>0, <4>1 DEF CodesSpent
        <5>2. \A v \in User : d \notin users'[v].codes
          BY <2>0, <3>3, <3>5, <4>1, <5>1 DEF CodesOwned
        <5>3. ASSUME NEW g \in Handler, work'[g].op \in Writing, ~work'[g].stale
              PROVE  d \notin work'[g].row.codes /\ d # work'[g].code
          <6>1. g # h /\ work[g].user # u
            BY <2>0, <3>2, <5>3, IdleTypes
          <6>. QED BY <2>0, <3>2, <5>1, <6>1 DEF CodesOwned
        <5>. QED BY <5>1, <5>2, <5>3
      <4>2. CASE d # c
        <5>1. uses'[d] = uses[d]
          BY <3>4, <4>2
        <5>2. uses[d] = 1 => \A v \in User : d \notin users'[v].codes
          BY <3>3, <3>5, <3>6, <4>0 DEF CodesSpent
        <5>3. uses[d] = 1 => \A g \in Handler :
                 work'[g].op \in Writing /\ ~work'[g].stale =>
                   d \notin work'[g].row.codes /\ d # work'[g].code
          BY <2>0, <3>2, <4>0, IdleTypes DEF CodesSpent
        <5>. QED BY <4>0, <5>1, <5>2, <5>3 DEF CodesSpent
      <4>. QED BY <4>1, <4>2
    <3>. QED BY <3>7, <3>8 DEF CodesSpent
  <2>5. ASSUME NEW h \in Handler, PutUserFails(h) PROVE CodesOwned' /\ CodesSpent'
    <3>. DEFINE u == work[h].user
                c == work[h].code
    <3>1. /\ work' = [work EXCEPT ![h] = Idle]
          /\ UNCHANGED <<users, issued, owner>> /\ tainted \subseteq tainted'
      BY <2>5 DEF PutUserFails
    <3>2. /\ work'[h] = Idle /\ \A g \in Handler \ {h} : work'[g] = work[g]
      BY <3>1 DEF TypeOK
    <3>3. \A d \in Code : uses'[d] # uses[d] => d = c /\ u \in tainted'
      BY <2>5 DEF PutUserFails, Accepted, TypeOK
    <3>4. c # None => c \in issued /\ owner[c] = u
      BY DEF CodesOwned
    <3>. HIDE DEF u, c
    <3>5. \A d \in Code : owner'[d] \notin tainted' => uses'[d] = uses[d]
      BY <2>0, <3>1, <3>3, <3>4
    <3>6. \A d \in Code : uses'[d] > 0 => d \in issued
      BY <2>0, <3>3, <3>4 DEF CodesOwned
    <3>7. CodesOwned'
      BY <2>0, <3>1, <3>2, <3>6, IdleTypes, NewRows DEF CodesOwned
    <3>. QED BY <2>0, <3>1, <3>2, <3>5, <3>7, IdleTypes DEF CodesSpent
  <2>6. ASSUME Restart PROVE CodesOwned' /\ CodesSpent'
    <3>1. /\ \A h \in Handler : work'[h] = Idle
          /\ UNCHANGED <<issued, owner, uses, tainted>>
      BY <2>6 DEF Restart
    <3>2. \A u \in User : users'[u].codes = users[u].codes \/ users'[u].codes = {}
      BY <2>6, NewRows DEF Restart, TypeOK, Role
    <3>. QED BY <2>0, <3>1, <3>2, IdleTypes, NewRows DEF CodesOwned, CodesSpent
  <2>7. CASE UNCHANGED vars
    BY <2>7 DEF vars, CodesOwned, CodesSpent
  <2>. QED BY <2>1, <2>8, <2>2, <2>3, <2>4, <2>5, <2>6, <2>7, StepsOfNext
<1>. QED BY <1>1, <1>2, TypeCorrect, PTL DEF Spec

---------------------------------------------------------------------------
(* A code that cannot be opened again is taken by one request at a time,   *)
(* and once it was accepted it is in no row, and in none that will be      *)
(* written but by a request whose write opens it again.                    *)
TakenOnce == \A c \in Code \ reopened :
    /\ uses[c] <= 1
    /\ \A g, h \in Handler : work[g].code = c /\ work[h].code = c => g = h
    /\ uses[c] = 1 =>
         /\ \A u \in User : c \notin users[u].codes
         /\ \A h \in Handler :
              /\ work[h].code # c
              /\ work[h].op \in Writing /\ c \in work[h].row.codes => work[h].stale

(* A recovery code is accepted at most once, whatever logins, changes of   *)
(* accounts, failures and crashes there are, unless two requests at work   *)
(* at once took it, a row read before its use was written back after it,   *)
(* or login could not store that it was used.                              *)
THEOREM RecoveryCodesOnce == Spec => []RecoveryCodeOnce
<1>1. Init => TakenOnce
  BY IdleTypes, AccountsAssumption DEF Init, TakenOnce
<1>2. TakenOnce /\ CodesOwned /\ TypeOK /\ [Next]_vars => TakenOnce'
  <2> SUFFICES ASSUME TakenOnce, CodesOwned, TypeOK, [Next]_vars PROVE TakenOnce'
    OBVIOUS
  <2>0. /\ "idle" \notin Writing /\ "role" \notin Writing
        /\ uses \in [Code -> 0 .. 2] /\ None \notin Code
    BY AccountsAssumption DEF Writing, TypeOK, MaxUses
  <2>1. ASSUME NEW h \in Handler, Begins(h) PROVE TakenOnce'
    <3>1. PICK op \in Starting, u \in User, r \in Row,
               c \in Code \cup {None} : BeginsAs(h, op, u, r, c)
      BY <2>1, RequestsBegin
    <3>2. /\ \A g \in Handler \ {h} : work'[g] = work[g]
          /\ work'[h].user = u /\ work'[h].row = r /\ work'[h].code = c
      BY <3>1, Begun
    <3>3. /\ UNCHANGED <<users, uses>> /\ reopened \subseteq reopened'
          /\ r.codes \subseteq users[u].codes \cup (issued' \ issued)
          /\ c # None => c \in users[u].codes \ r.codes
          /\ c # None /\ c \notin reopened' => \A g \in Handler : work[g].code # c
      BY <3>1 DEF BeginsAs
    <3>4. ASSUME NEW d \in Code \ reopened', uses'[d] = 1
          PROVE  d \notin r.codes /\ d # c
      <4>1. d \in issued /\ d \notin users[u].codes
        BY <3>3, <3>4 DEF CodesOwned, TakenOnce
      <4>. QED BY <2>0, <3>3, <4>1
    <3>. QED BY <2>0, <3>2, <3>3, <3>4 DEF TakenOnce
  <2>2. ASSUME NEW h \in Handler, Asks(h) PROVE TakenOnce'
    <3>1. /\ \A g \in Handler \ {h} : work'[g] = work[g]
          /\ work'[h].op \notin Writing
          /\ work'[h].code = None \/ work'[h].code = work[h].code
          /\ UNCHANGED <<users, uses, reopened>>
      BY <2>0, <2>2, AsksGoOn, IdleTypes DEF Managing, Writing, historyVars
    <3>. QED BY <2>0, <3>1 DEF TakenOnce
  <2>3. ASSUME NEW h \in Handler, SetRole(h) PROVE TakenOnce'
    <3>1. /\ \A g \in Handler \ {h} : work'[g] = work[g]
          /\ UNCHANGED <<users, uses, reopened>>
      BY <2>3 DEF SetRole, historyVars, TypeOK
    <3>2. work[h].user \in User /\ work[h].row.role \in Role
      BY <2>3, AtWork DEF SetRole, Row
    <3>3. CASE ~Exists(work[h].user)
      <4>1. work'[h] = Idle
        BY <2>3, <3>3 DEF SetRole, TypeOK
      <4>. QED BY <2>0, <3>1, <4>1, IdleTypes DEF TakenOnce
    <3>4. CASE Exists(work[h].user)
      <4>. DEFINE u == work[h].user
                  r == [users[u] EXCEPT !.role = work[h].row.role]
      <4>1. /\ work'[h] = About("setrole", u, r, None) /\ r \in Row
            /\ r.codes = users[u].codes
        BY <2>3, <3>2, <3>4, RowWithRole DEF SetRole, Checked, TypeOK
      <4>. HIDE DEF r
      <4>2. "setrole" \in Writing /\ u \in User /\ None \in Code \cup {None}
        BY <3>2 DEF Writing
      <4>3. work'[h].row = r /\ work'[h].code = None
        BY <4>1, <4>2, AboutTypes
      <4>. HIDE DEF u
      <4>. QED BY <2>0, <3>1, <4>1, <4>2, <4>3 DEF TakenOnce
    <3>. QED BY <3>3, <3>4
  <2>4. ASSUME NEW h \in Handler, DeleteUser(h) PROVE TakenOnce'
    <3>. DEFINE u == work[h].user
    <3>1. u \in User /\ Done(h, u)
      BY <2>4, AtWork DEF DeleteUser
    <3>. HIDE DEF u
    <3>2. /\ work'[h] = Idle
          /\ \A g \in Handler \ {h} :
               /\ work'[g].op = work[g].op
               /\ work'[g].row = work[g].row /\ work'[g].code = work[g].code
               /\ work[g].stale => work'[g].stale
      BY <3>1, OthersStale
    <3>3. /\ users'[u] = NoRow /\ \A v \in User \ {u} : users'[v] = users[v]
          /\ UNCHANGED <<uses, reopened>>
      BY <2>4, <3>1 DEF DeleteUser, TypeOK, u
    <3>. QED BY <2>0, <3>2, <3>3, IdleTypes, NewRows DEF TakenOnce
  <2>5. ASSUME NEW h \in Handler, PutUser(h) PROVE TakenOnce'
    <3>. DEFINE u == work[h].user
                r == work[h].row
                c == work[h].code
    <3>1. /\ u \in User /\ r \in Row /\ c \in Code \cup {None} /\ Done(h, u)
      BY <2>0, <2>5, AtWork DEF PutUser
    <3>2. /\ work'[h] = Idle
          /\ \A g \in Handler \ {h} :
               /\ work'[g].op = work[g].op /\ work'[g].user = work[g].user
               /\ work'[g].row = work[g].row /\ work'[g].code = work[g].code
               /\ work'[g].stale <=> \/ work[g].stale
                                     \/ work[g].user = u /\ work[g].op \in Writing
      BY <3>1, OthersStale
    <3>3. /\ users'[u] = r /\ \A v \in User \ {u} : users'[v] = users[v]
          /\ work[h].op \in Writing
          /\ reopened' = IF work[h].stale
                         THEN reopened \cup {d \in r.codes : uses[d] > 0}
                         ELSE reopened
      BY <2>5, <3>1 DEF PutUser, TypeOK
    <3>4. \A d \in Code : uses'[d] = IF d = c /\ uses[d] < 2
                                   THEN uses[d] + 1 ELSE uses[d]
      BY <2>5 DEF PutUser, Accepted, MaxUses
    <3>5. c # None => owner[c] = u /\ c \notin r.codes
      BY DEF CodesOwned
    <3>6. \A d \in Code \ reopened' : d \notin reopened /\ (uses[d] = 1 => d \notin r.codes)
      BY <3>3 DEF TakenOnce
    <3>7. \A d \in Code \ reopened' : d = c => uses[d] = 0
      BY <2>0, <3>6 DEF TakenOnce
    <3>. HIDE DEF u, r
    <3>8. ASSUME NEW d \in Code \ reopened'
          PROVE  /\ uses'[d] <= 1
                 /\ uses'[d] = 1 => \A v \in User : d \notin users'[v].codes
                 /\ uses'[d] = 1 => \A g \in Handler :
                      /\ work'[g].code # d
                      /\ work'[g].op \in Writing /\ d \in work'[g].row.codes =>
                           work'[g].stale
      <4>1. CASE d = c
        <5>1. owner[d] = u /\ uses'[d] = 1 /\ d \notin r.codes
          BY <2>0, <3>4, <3>5, <3>7, <4>1
        <5>2. \A v \in User : d \notin users'[v].codes
          BY <3>3, <5>1 DEF CodesOwned
        <5>3. \A g \in Handler : work'[g].code # d
          BY <2>0, <3>2, <3>6, <4>1, IdleTypes DEF TakenOnce
        <5>4. ASSUME NEW g \in Handler, work'[g].op \in Writing, d \in work'[g].row.codes
              PROVE  work'[g].stale
          BY <2>0, <3>2, <5>1, <5>4, IdleTypes DEF CodesOwned
        <5>. QED BY <5>1, <5>2, <5>3, <5>4
      <4>2. CASE d # c
        <5>1. uses'[d] = uses[d] /\ d \notin reopened
          BY <3>4, <3>6, <4>2
        <5>. HIDE DEF c
        <5>2. uses[d] = 1 => \A v \in User : d \notin users'[v].codes
          BY <3>3, <3>6, <5>1 DEF TakenOnce
        <5>3. uses[d] = 1 => \A g \in Handler :
                /\ work'[g].code # d
                /\ work'[g].op \in Writing /\ d \in work'[g].row.codes =>
                     work'[g].stale
          BY <2>0, <3>2, <5>1, IdleTypes DEF TakenOnce
        <5>. QED BY <5>1, <5>2, <5>3 DEF TakenOnce
      <4>. QED BY <4>1, <4>2
    <3>9. \A d \in Code \ reopened', f, g \in Handler :
            work'[f].code = d /\ work'[g].code = d => f = g
      BY <2>0, <3>2, <3>6, IdleTypes DEF TakenOnce
    <3>. QED BY <3>8, <3>9 DEF TakenOnce
  <2>6. ASSUME NEW h \in Handler, PutUserFails(h) PROVE TakenOnce'
    <3>. DEFINE c == work[h].code
    <3>1. /\ work' = [work EXCEPT ![h] = Idle]
          /\ UNCHANGED users /\ reopened \subseteq reopened'
      BY <2>6 DEF PutUserFails
    <3>2. /\ work'[h] = Idle /\ \A g \in Handler \ {h} : work'[g] = work[g]
      BY <3>1 DEF TypeOK
    <3>3. \A d \in Code \ reopened' : uses'[d] = uses[d]
      BY <2>0, <2>6 DEF PutUserFails, Accepted
    <3>. QED BY <2>0, <3>1, <3>2, <3>3, IdleTypes DEF TakenOnce
  <2>7. ASSUME Restart PROVE TakenOnce'
    <3>1. (\A h \in Handler : work'[h] = Idle) /\ UNCHANGED <<uses, reopened>>
      BY <2>7 DEF Restart
    <3>2. \A u \in User : users'[u].codes = users[u].codes \/ users'[u].codes = {}
      BY <2>7, NewRows DEF Restart, TypeOK, Role
    <3>. QED BY <2>0, <3>1, <3>2, IdleTypes DEF TakenOnce
  <2>8. CASE UNCHANGED vars
    BY <2>8 DEF vars, TakenOnce
  <2>. QED BY <2>1, <2>2, <2>3, <2>4, <2>5, <2>6, <2>7, <2>8, StepsOfNext
<1>3. TakenOnce => RecoveryCodeOnce
  BY DEF TakenOnce, RecoveryCodeOnce
<1>. QED BY <1>1, <1>2, <1>3, TypeCorrect, CodesInvariant, PTL DEF Spec

---------------------------------------------------------------------------
(* Writes keep the role they read, and nobody is created twice.            *)
AsRead(w) ==
    /\ w.op \in {"write", "login"} => Exists(w.user) /\ w.row.role = users[w.user].role
    /\ w.op = "create" => ~Exists(w.user)

(* What a count has found so far is there, among those it asked about.     *)
Found(w) ==
    /\ \A u \in w.left : Exists(u)
    /\ w.found >= 1 => Admins \ w.left # {}
    /\ w.found >= 2 => \A u \in User : (Admins \ w.left) \ {u} # {}

(* The requests that will leave one administrator less.                    *)
Removes(w) == w.op \in {"delete", "role", "setrole"} /\ Lowers(w)

(* There is an administrator, and one besides each whom a request removes. *)
AdminsLeft ==
    /\ Admins # {}
    /\ \A h \in Handler : Removes(work[h]) => Admins \ {work[h].user} # {}
    /\ \A h \in Handler : work[h].op = "count" => Found(work[h])
    /\ \A h \in Handler : ~work[h].stale => AsRead(work[h])

(* The rows that will be written exist, and the row of a deletion, which   *)
(* stands for none, is not an administrator's.                             *)
RowsExist == \A h \in Handler :
    /\ work[h].op \in Writing => work[h].row.exists
    /\ work[h].row.exists \/ work[h].row.role # "admin"

(* Every step of the count keeps what it has found, and the last one lets  *)
(* the request go on only if somebody is left.                             *)
LEMMA CountKeepsAdmins ==
    ASSUME TypeOK, AdminsLeft, NEW h \in Handler, NEW u \in User, CountRole(h, u)
    PROVE  /\ work'[h].op = "count" => Found(work'[h])
           /\ Removes(work'[h]) => Admins \ {work'[h].user} # {}
<1>. DEFINE w == work[h]
            n == IF RoleOf(u) = "admin" /\ w.found < 2 THEN w.found + 1 ELSE w.found
            left == w.left \ {u}
<1>1. /\ w \in Work /\ w.user \in User /\ w.found \in 0 .. 2 /\ u \in w.left
      /\ w.op = "count" /\ w.left \subseteq User
  BY AtWork DEF CountRole, Work, Enough
<1>2. Found(w)
  BY <1>1 DEF AdminsLeft
<1>3. RoleOf(u) = "admin" => u \in Admins
  BY <1>1, <1>2 DEF Found, RoleOf, Admins
<1>4. work'[h] = IF left # {} THEN Counting(w, left, n)
                 ELSE IF Sufficient(n) THEN Granted(w) ELSE Idle
  BY DEF CountRole, Becomes, Enough, TypeOK
<1>5. n \in 0 .. 2 /\ left \in SUBSET User
  BY <1>1
<1>6. /\ n >= 1 => Admins \ left # {}
      /\ n >= 2 => \A v \in User : (Admins \ left) \ {v} # {}
  <2>1. CASE RoleOf(u) = "admin" /\ w.found < 2
    <3>1. u \in Admins \ left /\ u \notin Admins \ w.left
      BY <1>1, <1>3, <2>1
    <3>2. n = w.found + 1
      BY <2>1
    <3>3. n >= 2 => Admins \ w.left # {}
      BY <1>1, <1>2, <3>2 DEF Found
    <3>. HIDE DEF n
    <3>. QED BY <3>1, <3>3
  <2>2. CASE ~(RoleOf(u) = "admin" /\ w.found < 2)
    <3>1. n = w.found
      BY <2>2
    <3>. HIDE DEF n
    <3>. QED BY <1>2, <3>1 DEF Found
  <2>. QED BY <2>1, <2>2
<1>7. CASE left # {}
  <2>1. work'[h] = [w EXCEPT !.op = "count", !.left = left, !.found = n]
    BY <1>4, <1>7 DEF Counting
  <2>. HIDE DEF left, n, w
  <2>2. work'[h].op = "count" /\ work'[h].left = left /\ work'[h].found = n
    BY <1>1, <2>1 DEF Work
  <2>3. \A v \in left : Exists(v)
    BY <1>2 DEF Found, left
  <2>. QED BY <1>6, <2>2, <2>3 DEF Found, Removes
<1>8. CASE left = {} /\ Sufficient(n)
  <2>1. work'[h] = [w EXCEPT !.op = IF w.row.exists THEN "role" ELSE "delete",
                             !.left = {}, !.found = 0]
    BY <1>4, <1>8 DEF Granted
  <2>2. \A v \in User : Admins \ {v} # {}
    <3>1. n >= 2
      BY <1>8 DEF Sufficient, Enough
    <3>. QED BY <1>6, <1>8, <3>1
  <2>. HIDE DEF left, n, w
  <2>3. work'[h].op \in {"role", "delete"} /\ work'[h].user = w.user
    BY <1>1, <2>1 DEF Work
  <2>. QED BY <1>1, <2>2, <2>3
<1>9. CASE left = {} /\ ~Sufficient(n)
  <2>1. work'[h] = Idle
    BY <1>4, <1>9
  <2>. QED BY <2>1, IdleTypes DEF Removes
<1>. QED BY <1>7, <1>8, <1>9

LEMMA AskingKeepsAdmins ==
    ASSUME TypeOK, AdminsLeft, RowsExist, NEW h \in Handler, Asks(h)
    PROVE  /\ work'[h].op = "count" => Found(work'[h])
           /\ Removes(work'[h]) => Admins \ {work'[h].user} # {}
<1>. DEFINE w == work[h]
<1>0. w \in Work /\ w.found \in 0 .. 2 /\ (w.op # "idle" => w.user \in User)
  BY AtWork DEF Work, Enough
<1>1. CASE GetTarget(h)
  <2>1. work'[h] = Idle \/ work'[h] = [w EXCEPT !.op = "ask"]
    BY <1>1 DEF GetTarget, Becomes, TypeOK
  <2>. HIDE DEF w
  <2>2. work'[h].op \in {"idle", "ask"}
    BY <1>0, <2>1, IdleTypes DEF Work
  <2>. QED BY <2>2 DEF Removes
<1>2. CASE TargetRole(h)
  <2>1. CASE w.row.role # "admin" /\ RoleOf(w.user) = "admin"
    <3>1. work'[h] = [w EXCEPT !.op = "list"]
      BY <1>2, <2>1 DEF TargetRole, Becomes, TypeOK
    <3>. HIDE DEF w
    <3>2. work'[h].op = "list"
      BY <1>0, <3>1 DEF Work
    <3>. QED BY <3>2 DEF Removes
  <2>2. CASE ~(w.row.role # "admin" /\ RoleOf(w.user) = "admin")
    <3>1. /\ work'[h] = [w EXCEPT !.op = IF w.row.exists THEN "role" ELSE "delete",
                                  !.left = {}, !.found = 0]
          /\ w.op = "ask"
      BY <1>2, <2>2 DEF TargetRole, Becomes, Granted, TypeOK
    <3>2. w.user \notin Admins \/ (w.row.role = "admin" /\ w.row.exists)
      BY <2>2 DEF Admins, RoleOf, RowsExist
    <3>. HIDE DEF w
    <3>3. /\ work'[h].op = IF w.row.exists THEN "role" ELSE "delete"
          /\ work'[h].user = w.user /\ work'[h].row = w.row
      BY <1>0, <3>1 DEF Work
    <3>4. CASE w.user \notin Admins
      BY <3>3, <3>4 DEF AdminsLeft
    <3>5. CASE w.row.role = "admin" /\ w.row.exists
      BY <3>3, <3>5 DEF Removes, Lowers
    <3>. QED BY <3>2, <3>4, <3>5
  <2>. QED BY <2>1, <2>2
<1>3. CASE ListUsers(h)
  <2>. DEFINE listed == {u \in User : Exists(u)}
  <2>1. \/ work'[h] = Idle
        \/ work'[h] = [w EXCEPT !.op = "count", !.left = listed, !.found = 0]
    BY <1>3 DEF ListUsers, Becomes, Counting, TypeOK
  <2>2. \A u \in listed : Exists(u)
    OBVIOUS
  <2>. HIDE DEF w, listed
  <2>3. \/ work'[h].op = "idle"
        \/ work'[h].op = "count" /\ work'[h].left = listed /\ work'[h].found = 0
    BY <1>0, <2>1, IdleTypes DEF Work
  <2>. QED BY <2>2, <2>3 DEF Found, Removes
<1>. QED BY <1>1, <1>2, <1>3, CountKeepsAdmins DEF Asks

(* No request, crash or failed write, between whichever of the statements  *)
(* of the others, leaves the panel without an administrator, unless one is *)
(* demoted or deleted while others count or are about to do the same, a    *)
(* user is deleted before a count asks for the role, or a promotion is     *)
(* written over.                                                           *)
THEOREM AdministratorRemains == Spec => []AdminRemains
<1>. DEFINE Safe == RowsExist /\ (~raced => AdminsLeft)
<1>1. Init => Safe
  <2> SUFFICES ASSUME Init PROVE RowsExist /\ AdminsLeft
    OBVIOUS
  <2>1. \A h \in Handler : work[h].op = "idle" /\ work[h].row = NoRow
    BY IdleTypes DEF Init
  <2>2. Admins # {}
    BY NewRows DEF Init, Admins, Exists, Role
  <2>3. RowsExist
    BY <2>1, IdleTypes DEF RowsExist, Writing, NoRow
  <2>. QED BY <2>1, <2>2, <2>3 DEF AdminsLeft, AsRead, Removes
<1>2. Safe /\ TypeOK /\ [Next]_vars => Safe'
  <2> SUFFICES ASSUME RowsExist, ~raced => AdminsLeft, TypeOK, [Next]_vars
               PROVE  RowsExist' /\ (~raced' => AdminsLeft')
    OBVIOUS
  <2>0. /\ Writing = {"setrole", "create", "write", "login"}
        /\ NoRow.role = "viewer"
    BY DEF Writing, NoRow
  <2>1. ASSUME NEW h \in Handler, Begins(h)
        PROVE  RowsExist' /\ (~raced' => AdminsLeft')
    <3>1. PICK op \in Starting, u \in User, r \in Row,
               c \in Code \cup {None} : BeginsAs(h, op, u, r, c)
      BY <2>1, RequestsBegin
    <3>2. /\ \A g \in Handler \ {h} : work'[g] = work[g]
          /\ work'[h].op = op /\ work'[h].user = u /\ work'[h].row = r
      BY <3>1, Begun
    <3>3. /\ UNCHANGED <<users, raced>>
          /\ op \in {"write", "login"} => Exists(u) /\ r.role = users[u].role
          /\ op = "create" => ~Exists(u)
          /\ op = "get" => r = NoRow
          /\ op # "get" => r.exists
          /\ op \in {"get", "ask", "create", "write", "login"}
      BY <3>1 DEF BeginsAs, Starting
    <3>4. RowsExist'
      BY <2>0, <3>2, <3>3 DEF RowsExist
    <3>5. ASSUME ~raced' PROVE AdminsLeft'
      <4>1. AdminsLeft
        BY <3>3, <3>5
      <4>2. Admins' = Admins
        BY <3>3 DEF Admins, Exists
      <4>3. ~Removes(work'[h]) /\ work'[h].op # "count"
        BY <3>2, <3>3 DEF Removes
      <4>. QED BY <3>2, <3>3, <4>1, <4>2, <4>3
               DEF AdminsLeft, AsRead, Found, Exists
    <3>. QED BY <3>4, <3>5
  <2>2. ASSUME NEW h \in Handler, Asks(h)
        PROVE  RowsExist' /\ (~raced' => AdminsLeft')
    <3>1. /\ \A g \in Handler \ {h} : work'[g] = work[g]
          /\ work'[h].row = NoRow \/ work'[h].row = work[h].row
          /\ work'[h].op \notin Writing
          /\ UNCHANGED <<users, raced>>
      BY <2>0, <2>2, AsksGoOn, IdleTypes DEF Managing, historyVars
    <3>2. RowsExist'
      BY <2>0, <3>1 DEF RowsExist
    <3>3. ASSUME ~raced' PROVE AdminsLeft'
      <4>1. AdminsLeft
        BY <3>1, <3>3
      <4>2. Admins' = Admins
        BY <3>1 DEF Admins, Exists
      <4>3. /\ work'[h].op = "count" => Found(work'[h])
            /\ Removes(work'[h]) => Admins \ {work'[h].user} # {}
        BY <2>2, <4>1, AskingKeepsAdmins DEF RowsExist
      <4>. QED BY <2>0, <3>1, <4>1, <4>2, <4>3 DEF AdminsLeft, AsRead, Found, Exists
    <3>. QED BY <3>2, <3>3
  <2>3. ASSUME NEW h \in Handler, SetRole(h)
        PROVE  RowsExist' /\ (~raced' => AdminsLeft')
    <3>1. /\ \A g \in Handler \ {h} : work'[g] = work[g]
          /\ UNCHANGED <<users, raced>> /\ work[h].op = "role"
      BY <2>3 DEF SetRole, historyVars, TypeOK
    <3>2. work[h].user \in User /\ work[h].row.role \in Role
      BY <2>3, AtWork DEF SetRole, Row
    <3>3. Admins' = Admins
      BY <3>1 DEF Admins, Exists
    <3>4. CASE ~Exists(work[h].user)
      <4>1. work'[h].op = "idle" /\ work'[h].row = NoRow
        BY <2>3, <3>4, IdleTypes DEF SetRole, TypeOK
      <4>2. RowsExist'
        BY <2>0, <3>1, <4>1 DEF RowsExist
      <4>. QED BY <2>0, <3>1, <3>3, <4>1, <4>2
               DEF AdminsLeft, AsRead, Found, Removes, Exists
    <3>5. CASE Exists(work[h].user)
      <4>. DEFINE u == work[h].user
                  r == [users[u] EXCEPT !.role = work[h].row.role]
      <4>1. /\ work'[h] = About("setrole", u, r, None) /\ r \in Row
            /\ r.role = work[h].row.role /\ r.exists
        BY <2>3, <3>2, <3>5, RowWithRole DEF SetRole, Checked, TypeOK, Exists
      <4>. HIDE DEF r
      <4>2. /\ work'[h].op = "setrole" /\ work'[h].user = u /\ work'[h].row = r
        BY <3>2, <4>1, AboutTypes DEF Writing
      <4>3. RowsExist'
        BY <2>0, <3>1, <4>1, <4>2 DEF RowsExist
      <4>4. Removes(work'[h]) => Removes(work[h])
        BY <3>1, <4>1, <4>2 DEF Removes, Lowers
      <4>. QED BY <2>0, <3>1, <3>3, <4>1, <4>2, <4>3, <4>4
               DEF AdminsLeft, AsRead, Found, Exists
    <3>. QED BY <3>4, <3>5
  <2>4. ASSUME NEW h \in Handler, DeleteUser(h) \/ PutUser(h)
        PROVE  RowsExist' /\ (~raced' => AdminsLeft')
    <3>. DEFINE u == work[h].user
                r == work[h].row
    <3>1. u \in User /\ r \in Row /\ Done(h, u)
      BY <2>4, AtWork DEF DeleteUser, PutUser, Writing
    <3>2. /\ work'[h].op = "idle" /\ work'[h].row = NoRow
          /\ \A g \in Handler \ {h} :
               /\ work'[g].op = work[g].op /\ work'[g].user = work[g].user
               /\ work'[g].row = work[g].row
               /\ work'[g].left = work[g].left /\ work'[g].found = work[g].found
               /\ work'[g].stale <=> \/ work[g].stale
                                     \/ work[g].user = u /\ work[g].op \in Writing
      BY <3>1, OthersStale, IdleTypes
    <3>3. RowsExist'
      BY <2>0, <3>2 DEF RowsExist
    <3>4. ASSUME ~raced' PROVE AdminsLeft'
      <4>1. AdminsLeft
        BY <2>4, <3>4 DEF DeleteUser, PutUser
      <4>2. \A v \in User \ {u} : users'[v] = users[v]
        BY <2>4 DEF DeleteUser, PutUser, TypeOK
      <4>3. \/ users'[u] = NoRow /\ DeleteUser(h)
            \/ users'[u] = r /\ PutUser(h) /\ r.exists
        BY <2>4, <3>1 DEF DeleteUser, PutUser, TypeOK, RowsExist
      <4>4. ASSUME NEW g \in Handler, work'[g].op = "count",
                   DeleteUser(h) => u \notin work[g].left
            PROVE  \A v \in work'[g].left : Exists(v)'
        <5>1. g # h /\ work[g].op = "count" /\ work'[g].left = work[g].left
          BY <3>2, <4>4
        <5>2. \A v \in work[g].left : v \in User /\ users[v].exists
          BY <4>1, <5>1, AtWork DEF AdminsLeft, Found, Exists, Work
        <5>. QED BY <4>2, <4>3, <4>4, <5>1, <5>2 DEF Exists
      <4>5. ASSUME NEW g \in Handler, ~work'[g].stale PROVE AsRead(work[g])'
        <5>1. CASE work'[g].op \notin Writing
          BY <2>0, <5>1 DEF AsRead
        <5>2. CASE work'[g].op \in Writing
          <6>1. /\ g # h /\ ~work[g].stale /\ work[g].user # u
                /\ work[g].op = work'[g].op
            BY <2>0, <3>2, <4>5, <5>2
          <6>2. users'[work[g].user] = users[work[g].user]
            BY <2>0, <4>2, <5>2, <6>1, AtWork
          <6>3. AsRead(work[g])
            BY <4>1, <6>1 DEF AdminsLeft
          <6>. QED BY <3>2, <6>1, <6>2, <6>3 DEF AsRead, Exists
        <5>. QED BY <5>1, <5>2
      <4>6. Admins \ {u} \subseteq Admins'
        BY <4>2 DEF Admins, Exists
      <4>7. CASE u \in Admins /\ ~(users'[u].exists /\ users'[u].role = "admin")
        <5>1. Lowers(work[h]) /\ work[h].op # "count" /\ ~OthersLower(h)
          <6>1. CASE DeleteUser(h)
            BY <3>4, <4>7, <6>1 DEF DeleteUser, Lowers
          <6>2. CASE PutUser(h)
            <7>1. r.role # "admin" /\ work[h].op \in Writing
              BY <2>0, <4>3, <4>7, <6>2 DEF PutUser, DeleteUser
            <7>2. ~work[h].stale /\ ~OthersLower(h)
              BY <3>4, <4>7, <6>2, <7>1 DEF PutUser
            <7>3. AsRead(work[h]) /\ Exists(u) /\ users[u].role = "admin"
              BY <4>1, <4>7, <7>2 DEF AdminsLeft, Admins
            <7>. QED BY <2>0, <7>1, <7>2, <7>3 DEF AsRead, Lowers
          <6>. QED BY <2>4, <6>1, <6>2
        <5>2. Admins' # {}
          <6>1. Removes(work[h])
            BY <5>1 DEF Removes, Lowers
          <6>. QED BY <4>1, <4>6, <6>1 DEF AdminsLeft
        <5>3. \A g \in Handler : ~Lowers(work'[g])
          BY <3>2, <5>1 DEF OthersLower, Lowers
        <5>. QED BY <4>5, <5>2, <5>3 DEF AdminsLeft, Removes, Lowers
      <4>8. CASE ~(u \in Admins /\ ~(users'[u].exists /\ users'[u].role = "admin"))
        <5>1. Admins \subseteq Admins'
          BY <4>6, <4>8 DEF Admins, Exists
        <5>2. ASSUME NEW g \in Handler, work'[g].op = "count" PROVE Found(work[g])'
          <6>1. /\ g # h /\ work[g].op = "count" /\ work'[g].left = work[g].left
                /\ work'[g].found = work[g].found
            BY <3>2, <5>2
          <6>2. DeleteUser(h) => u \notin work[g].left
            BY <3>4, <6>1 DEF DeleteUser
          <6>3. Found(work[g])
            BY <4>1, <6>1 DEF AdminsLeft
          <6>4. \A v \in work'[g].left : Exists(v)'
            BY <4>4, <5>2, <6>2
          <6>. QED BY <5>1, <6>1, <6>3, <6>4 DEF Found
        <5>3. \A g \in Handler : Removes(work'[g]) => Admins' \ {work'[g].user} # {}
          BY <3>2, <4>1, <5>1 DEF AdminsLeft, Removes, Lowers
        <5>. QED BY <4>1, <4>5, <5>1, <5>2, <5>3 DEF AdminsLeft
      <4>. QED BY <4>7, <4>8
    <3>. QED BY <3>3, <3>4
  <2>5. ASSUME NEW h \in Handler, PutUserFails(h)
        PROVE  RowsExist' /\ (~raced' => AdminsLeft')
    <3>1. work' = [work EXCEPT ![h] = Idle] /\ UNCHANGED <<users, raced>>
      BY <2>5 DEF PutUserFails
    <3>2. /\ work'[h].op = "idle" /\ work'[h].row = NoRow
          /\ \A g \in Handler \ {h} : work'[g] = work[g]
      BY <3>1, IdleTypes DEF TypeOK
    <3>3. Admins' = Admins
      BY <3>1 DEF Admins, Exists
    <3>4. RowsExist'
      BY <2>0, <3>2 DEF RowsExist
    <3>. QED BY <2>0, <3>1, <3>2, <3>3, <3>4
             DEF AdminsLeft, AsRead, Found, Removes, Exists
  <2>6. ASSUME Restart PROVE RowsExist' /\ (~raced' => AdminsLeft')
    <3>1. /\ \A h \in Handler : work'[h].op = "idle" /\ work'[h].row = NoRow
          /\ UNCHANGED raced
      BY <2>6, IdleTypes DEF Restart
    <3>2. ASSUME ~raced' PROVE Admins' # {}
      <4>1. Admins # {}
        BY <3>1, <3>2 DEF AdminsLeft
      <4>2. UNCHANGED users
        BY <2>6, <4>1 DEF Restart, Admins
      <4>. QED BY <4>1, <4>2 DEF Admins, Exists
    <3>3. RowsExist'
      BY <2>0, <3>1 DEF RowsExist
    <3>. QED BY <3>1, <3>2, <3>3 DEF AdminsLeft, AsRead, Removes
  <2>7. CASE UNCHANGED vars
    BY <2>7 DEF vars, RowsExist, AdminsLeft, AsRead, Found, Removes, Admins, Exists
  <2>. QED BY <2>1, <2>2, <2>3, <2>4, <2>5, <2>6, <2>7, StepsOfNext
<1>3. Safe => AdminRemains
  BY DEF AdminsLeft, AdminRemains
<1>. QED BY <1>1, <1>2, <1>3, TypeCorrect, PTL DEF Spec

---------------------------------------------------------------------------
(* Whoever has the row as it is now will make one change of it.            *)
ReadJustNow == \A h \in Handler :
    work[h].op \in Writing /\ ~work[h].stale =>
       OneChange(users[work[h].user], work[h].op, work[h].row, work[h].code)

LEMMA ReadJustNowInvariant == Spec => []ReadJustNow
<1>1. Init => ReadJustNow
  BY IdleTypes DEF Init, ReadJustNow, Writing
<1>2. ReadJustNow /\ TypeOK /\ [Next]_vars => ReadJustNow'
  <2> SUFFICES ASSUME ReadJustNow, TypeOK, [Next]_vars PROVE ReadJustNow'
    OBVIOUS
  <2>0. "idle" \notin Writing /\ "role" \notin Writing
    BY DEF Writing
  <2>1. ASSUME NEW h \in Handler, Begins(h) PROVE ReadJustNow'
    <3>1. PICK op \in Starting, u \in User, r \in Row,
               c \in Code \cup {None} : BeginsAs(h, op, u, r, c)
      BY <2>1, RequestsBegin
    <3>2. /\ \A g \in Handler \ {h} : work'[g] = work[g]
          /\ work'[h].op = op /\ work'[h].user = u /\ work'[h].row = r
          /\ work'[h].code = c
      BY <3>1, Begun
    <3>3. UNCHANGED users /\ (op \in Writing => OneChange(users[u], op, r, c))
      BY <3>1 DEF BeginsAs
    <3>4. ASSUME NEW g \in Handler, work'[g].op \in Writing, ~work'[g].stale
          PROVE  OneChange(users'[work'[g].user], work'[g].op, work'[g].row,
                           work'[g].code)
      BY <3>2, <3>3, <3>4 DEF ReadJustNow
    <3>. QED BY <3>4 DEF ReadJustNow, OneChange
  <2>8. ASSUME NEW h \in Handler, Asks(h) PROVE ReadJustNow'
    <3>1. /\ \A g \in Handler \ {h} : work'[g] = work[g]
          /\ work'[h].op \notin Writing /\ UNCHANGED users
      BY <2>0, <2>8, AsksGoOn, IdleTypes DEF Managing, Writing
    <3>2. ASSUME NEW g \in Handler, work'[g].op \in Writing, ~work'[g].stale
          PROVE  OneChange(users'[work'[g].user], work'[g].op, work'[g].row,
                           work'[g].code)
      BY <3>1, <3>2 DEF ReadJustNow
    <3>. QED BY <3>2 DEF ReadJustNow, OneChange
  <2>2. ASSUME NEW h \in Handler, SetRole(h) PROVE ReadJustNow'
    <3>1. /\ \A g \in Handler \ {h} : work'[g] = work[g]
          /\ UNCHANGED users
      BY <2>2 DEF SetRole, TypeOK
    <3>2. work[h].user \in User /\ work[h].row.role \in Role
      BY <2>2, AtWork DEF SetRole, Row
    <3>3. CASE ~Exists(work[h].user)
      <4>1. work'[h].op = "idle"
        BY <2>2, <3>3, IdleTypes DEF SetRole, TypeOK
      <4>2. ASSUME NEW g \in Handler, work'[g].op \in Writing, ~work'[g].stale
            PROVE  OneChange(users'[work'[g].user], work'[g].op, work'[g].row,
                             work'[g].code)
        BY <2>0, <3>1, <4>1, <4>2 DEF ReadJustNow
      <4>. QED BY <4>2 DEF ReadJustNow, OneChange
    <3>4. CASE Exists(work[h].user)
      <4>. DEFINE u == work[h].user
                  r == [users[u] EXCEPT !.role = work[h].row.role]
      <4>1. work'[h] = About("setrole", u, r, None) /\ r \in Row
        BY <2>2, <3>2, <3>4, RowWithRole DEF SetRole, Checked, TypeOK
      <4>2. OneChange(users[u], "setrole", r, None)
        BY <3>2, <3>4 DEF OneChange, Exists
      <4>. HIDE DEF r
      <4>3. /\ work'[h].op = "setrole" /\ work'[h].user = u /\ work'[h].row = r
            /\ work'[h].code = None
        BY <3>2, <4>1, AboutTypes DEF Writing
      <4>. HIDE DEF u
      <4>4. ASSUME NEW g \in Handler, work'[g].op \in Writing, ~work'[g].stale
            PROVE  OneChange(users'[work'[g].user], work'[g].op, work'[g].row,
                             work'[g].code)
        BY <3>1, <4>2, <4>3, <4>4 DEF ReadJustNow
      <4>. QED BY <4>4 DEF ReadJustNow, OneChange
    <3>. QED BY <3>3, <3>4
  <2>3. ASSUME NEW h \in Handler, DeleteUser(h) \/ PutUser(h) PROVE ReadJustNow'
    <3>. DEFINE u == work[h].user
    <3>1. u \in User /\ Done(h, u)
      BY <2>3, AtWork DEF DeleteUser, PutUser, Writing
    <3>2. \A v \in User \ {u} : users'[v] = users[v]
      BY <2>3 DEF DeleteUser, PutUser, TypeOK
    <3>. HIDE DEF u
    <3>3. /\ work'[h].op = "idle"
          /\ \A g \in Handler \ {h} :
               /\ work'[g].op = work[g].op /\ work'[g].user = work[g].user
               /\ work'[g].row = work[g].row /\ work'[g].code = work[g].code
               /\ work'[g].stale <=> \/ work[g].stale
                                     \/ work[g].user = u /\ work[g].op \in Writing
      BY <3>1, OthersStale, IdleTypes
    <3>4. ASSUME NEW g \in Handler, work'[g].op \in Writing, ~work'[g].stale
          PROVE  OneChange(users'[work'[g].user], work'[g].op, work'[g].row,
                           work'[g].code)
      <4>1. /\ g # h /\ work[g].op \in Writing /\ ~work[g].stale
            /\ work[g].user # u
        BY <2>0, <3>3, <3>4
      <4>2. users'[work[g].user] = users[work[g].user]
        BY <2>0, <3>2, <4>1, AtWork
      <4>. QED BY <3>3, <4>1, <4>2 DEF ReadJustNow
    <3>. QED BY <3>4 DEF ReadJustNow, OneChange
  <2>4. ASSUME NEW h \in Handler, PutUserFails(h) PROVE ReadJustNow'
    <3>1. /\ work'[h].op = "idle" /\ UNCHANGED users
          /\ \A g \in Handler \ {h} : work'[g] = work[g]
      BY <2>4, IdleTypes DEF PutUserFails, TypeOK
    <3>2. ASSUME NEW g \in Handler, work'[g].op \in Writing, ~work'[g].stale
          PROVE  OneChange(users'[work'[g].user], work'[g].op, work'[g].row,
                           work'[g].code)
      BY <2>0, <3>1, <3>2 DEF ReadJustNow
    <3>. QED BY <3>2 DEF ReadJustNow, OneChange
  <2>5. ASSUME Restart PROVE ReadJustNow'
    <3>1. \A h \in Handler : work'[h].op = "idle"
      BY <2>5, IdleTypes DEF Restart
    <3>. QED BY <2>0, <3>1 DEF ReadJustNow
  <2>6. CASE UNCHANGED vars
    <3>1. UNCHANGED <<users, work>>
      BY <2>6 DEF vars
    <3>2. ASSUME NEW g \in Handler, work'[g].op \in Writing, ~work'[g].stale
          PROVE  OneChange(users'[work'[g].user], work'[g].op, work'[g].row,
                           work'[g].code)
      BY <3>1, <3>2 DEF ReadJustNow
    <3>. QED BY <3>2 DEF ReadJustNow, OneChange
  <2>. QED BY <2>1, <2>8, <2>2, <2>3, <2>4, <2>5, <2>6, StepsOfNext
<1>. QED BY <1>1, <1>2, TypeCorrect, PTL DEF Spec
---------------------------------------------------------------------------
(* The table of users as UserAccounts sees it, before and after a step.    *)
LEMMA OneAccountWritten ==
    ASSUME NEW u \in User, u \notin tainted, UNCHANGED tainted, NEW row,
           users'[u] = row, \A v \in User \ {u} : users'[v] = users[v]
    PROVE  Table!Becomes(u, row)
<1>1. \A v \in User : Account(v)' = IF v = u THEN row ELSE Account(v)
  BY DEF Account
<1>2. [v \in User |-> Account(v)]'
         = [[v \in User |-> Account(v)] EXCEPT ![u] = row]
  BY <1>1
<1>. QED BY <1>2 DEF Table!Becomes

LEMMA NoAccountWritten ==
    ASSUME UNCHANGED tainted,
           \A v \in User : v \in tainted \/ users'[v] = users[v]
    PROVE  UNCHANGED <<[v \in User |-> Account(v)], tainted>>
<1>1. \A v \in User : Account(v)' = Account(v)
  BY DEF Account
<1>. QED BY <1>1

LEMMA NothingSpent ==
    ASSUME UNCHANGED tainted,
           \A d \in Code, v \in User \ tainted :
              owner'[d] = v /\ uses'[d] > 0 <=> owner[d] = v /\ uses[d] > 0
    PROVE  UNCHANGED [v \in User |-> Spent(v)]
<1>1. \A v \in User : Spent(v)' = Spent(v)
  BY DEF Spent
<1>. QED BY <1>1

LEMMA CodeSpent ==
    ASSUME NEW u \in User, NEW c \in Code, c \in users[u].codes, u \notin tainted,
           owner[c] = u, uses[c] = 0, uses'[c] > 0, UNCHANGED <<owner, tainted>>,
           \A d \in Code \ {c} : uses'[d] = uses[d]
    PROVE  Table!Accept(u, c)
<1>1. \A v \in User : Spent(v)' = IF v = u THEN Spent(v) \cup {c} ELSE Spent(v)
  BY DEF Spent
<1>2. [v \in User |-> Spent(v)]'
         = [[v \in User |-> Spent(v)] EXCEPT ![u] = @ \cup {c}]
  BY <1>1
<1>3. Account(u) = users[u] /\ c \notin Spent(u)
  BY DEF Account, Spent
<1>. QED BY <1>2, <1>3 DEF Table!Accept

LEMMA AccountLost ==
    ASSUME NEW u \in User, tainted' = tainted \cup {u}, UNCHANGED owner,
           \A v \in User \ {u} : users'[v] = users[v],
           \A d \in Code : owner[d] # u => uses'[d] = uses[d]
    PROVE  Table!Lose(u)
<1>1. \A v \in User : Account(v)' = IF v = u THEN NoRow ELSE Account(v)
  BY DEF Account
<1>2. \A v \in User : Spent(v)' = IF v = u THEN {} ELSE Spent(v)
  BY DEF Spent
<1>3. /\ [v \in User |-> Account(v)]'
            = [[v \in User |-> Account(v)] EXCEPT ![u] = NoRow]
      /\ [v \in User |-> Spent(v)]' = [[v \in User |-> Spent(v)] EXCEPT ![u] = {}]
  BY <1>1, <1>2
<1>. QED BY <1>3 DEF Table!Lose, Table!Nobody, NoRow

(* A row that is written as it was read is one change of the account.      *)
LEMMA FreshWrite ==
    ASSUME TypeOK, CodesOwned, CodesSpent, ReadJustNow, NEW h \in Handler,
           PutUser(h), ~work[h].stale, work[h].user \notin tainted
    PROVE  Table!Next \/ UNCHANGED Table!accountVars
<1>. DEFINE u == work[h].user
            r == work[h].row
            c == work[h].code
            op == work[h].op
            q == users[u]
<1>1. /\ u \in User /\ r \in Row /\ c \in Code \cup {None} /\ q \in Row
      /\ None \notin Code /\ q.codes \subseteq Code
  BY AtWork, AccountsAssumption DEF PutUser, Writing, TypeOK, Row
<1>2. OneChange(q, op, r, c)
  BY DEF PutUser, ReadJustNow
<1>3. /\ users'[u] = r /\ \A v \in User \ {u} : users'[v] = users[v]
      /\ UNCHANGED <<owner, tainted>>
      /\ \A d \in Code : uses'[d] = IF d = c /\ uses[d] < 2
                                    THEN uses[d] + 1 ELSE uses[d]
  BY <1>1 DEF PutUser, Accepted, MaxUses, TypeOK
<1>4. /\ uses \in [Code -> 0 .. 2]
      /\ c # None => owner[c] = u /\ c \in Code
      /\ \A d \in Code : d \in r.codes \cup {c} /\ owner[d] = u => uses[d] = 0
      /\ \A d \in Code : d \in r.codes => owner[d] = u
  <2>1. uses \in [Code -> 0 .. 2]
    BY DEF TypeOK, MaxUses
  <2>2. \A d \in Code : d \in r.codes \cup {c} /\ owner[d] = u => uses[d] # 1
    BY DEF CodesSpent, PutUser
  <2>3. \A d \in Code : owner[d] = u => uses[d] <= 1
    BY DEF CodesSpent
  <2>. QED BY <1>1, <2>1, <2>2, <2>3 DEF CodesOwned
<1>. HIDE DEF u, r, c, op
<1>5. Table!Becomes(u, r)
  BY <1>1, <1>3, OneAccountWritten DEF u
<1>6. c = None => UNCHANGED [v \in User |-> Spent(v)]
  BY <1>1, <1>3, NothingSpent
<1>7. c \in q.codes => c \in Code /\ Table!Accept(u, c)
  BY <1>1, <1>3, <1>4, CodeSpent DEF u
<1>8. [v \in User |-> Account(v)][u] = q /\ [v \in User |-> Spent(v)][u] = Spent(u)
  BY <1>1 DEF Account, u
<1>. USE <1>1 DEF Table!Next
<1>9. CASE op = "create" /\ ~q.exists /\ c = None /\ \E role \in Role : r = NewRow(role)
  <2>1. PICK role \in Role : r = NewRow(role)
    BY <1>9
  <2>2. Table!Create(u, role)
    BY <1>5, <1>6, <1>8, <1>9, <2>1
    DEF Table!Create, Table!Somebody, Table!Nobody, NewRow, NoRow
  <2>. QED BY <2>2 DEF Role
<1>10. CASE /\ op = "setrole" /\ q.exists /\ c = None
            /\ \E role \in Role : r = [q EXCEPT !.role = role]
  <2>1. PICK role \in Role : r = [q EXCEPT !.role = role]
    BY <1>10
  <2>2. Table!ChangeRole(u, role)
    BY <1>5, <1>6, <1>8, <1>10, <2>1 DEF Table!ChangeRole
  <2>. QED BY <2>2 DEF Role
<1>11. CASE op = "write" /\ q.exists /\ c = None /\ r = q
  <2>1. UNCHANGED <<[v \in User |-> Account(v)], tainted>>
    BY <1>3, <1>11, NoAccountWritten
  <2>. QED BY <1>6, <1>11, <2>1 DEF Table!accountVars
<1>12. CASE /\ op = "write" /\ q.exists /\ ~q.enabled /\ q.secret = None /\ c = None
            /\ \E s \in Secret : r = [q EXCEPT !.secret = s]
  <2>1. PICK s \in Secret : r = [q EXCEPT !.secret = s]
    BY <1>12
  <2>2. Table!Setup(u, s)
    BY <1>5, <1>6, <1>8, <1>12, <2>1 DEF Table!Setup
  <2>. QED BY <2>2
<1>13. CASE /\ op = "write" /\ q.exists /\ q.secret # None /\ c = None
            /\ \E codes \in SUBSET Code :
                  r = [q EXCEPT !.enabled = TRUE, !.codes = codes]
  <2>1. PICK codes \in SUBSET Code :
             r = [q EXCEPT !.enabled = TRUE, !.codes = codes]
    BY <1>13
  <2>2. r.codes = codes
    BY <2>1, RowWithCodes
  <2>3. codes \cap Spent(u) = {}
    BY <1>4, <2>2 DEF Spent
  <2>4. Table!Enable(u, codes)
    BY <1>5, <1>6, <1>8, <1>13, <2>1, <2>3 DEF Table!Enable
  <2>. QED BY <2>4
<1>14. CASE /\ op = "write" /\ q.exists /\ c \in q.codes \cup {None}
            /\ r = [q EXCEPT !.enabled = FALSE, !.secret = None, !.codes = {}]
  <2>1. Table!Disable(u)
    BY <1>5, <1>6, <1>7, <1>8, <1>14 DEF Table!Disable
  <2>. QED BY <2>1
<1>15. CASE op = "login" /\ q.enabled /\ c \in q.codes /\ r = Consumed(q, c)
  <2>1. Table!SignIn(u, c)
    BY <1>5, <1>7, <1>8, <1>15 DEF Table!SignIn, Consumed
  <2>. QED BY <1>7, <1>15, <2>1
<1>. HIDE DEF q
<1>. QED BY <1>2, <1>9, <1>10, <1>11, <1>12, <1>13, <1>14, <1>15 DEF OneChange

LEMMA StepImplementsTable ==
    ASSUME TypeOK, CodesOwned, CodesSpent, ReadJustNow, [Next]_vars
    PROVE  Table!Next \/ UNCHANGED Table!accountVars
<1>0. /\ users \in [User -> Row] /\ tainted \subseteq User
      /\ owner \in [Code -> User \cup {None}] /\ uses \in [Code -> 0 .. 2]
  BY DEF TypeOK, MaxUses
<1>. USE DEF Table!accountVars
<1>1. ASSUME NEW h \in Handler, Begins(h) PROVE UNCHANGED Table!accountVars
  <2>1. PICK op \in Starting, u \in User, r \in Row,
             c \in Code \cup {None} : BeginsAs(h, op, u, r, c)
    BY <1>1, RequestsBegin
  <2>2. /\ UNCHANGED <<users, uses, tainted>>
        /\ \A d \in Code : d \in issued => owner'[d] = owner[d]
        /\ \A d \in Code : uses[d] > 0 => d \in issued
    BY <2>1 DEF BeginsAs, CodesOwned
  <2>3. UNCHANGED [v \in User |-> Spent(v)]
    BY <2>2, NothingSpent
  <2>. QED BY <2>2, <2>3, NoAccountWritten
<1>8. ASSUME NEW h \in Handler, Asks(h) PROVE UNCHANGED Table!accountVars
  <2>1. UNCHANGED <<users, owner, uses, tainted>>
    BY <1>8, AsksGoOn DEF historyVars
  <2>. QED BY <2>1, NoAccountWritten, NothingSpent
<1>2. ASSUME NEW h \in Handler, SetRole(h) PROVE UNCHANGED Table!accountVars
  <2>1. UNCHANGED <<users, owner, uses, tainted>>
    BY <1>2 DEF SetRole, historyVars
  <2>. QED BY <2>1, NoAccountWritten, NothingSpent
<1>3. ASSUME NEW h \in Handler, DeleteUser(h)
      PROVE  Table!Next \/ UNCHANGED Table!accountVars
  <2>. DEFINE u == work[h].user
  <2>1. /\ u \in User /\ UNCHANGED <<owner, uses, tainted>>
        /\ users'[u] = NoRow /\ \A v \in User \ {u} : users'[v] = users[v]
    BY <1>0, <1>3, AtWork DEF DeleteUser
  <2>. HIDE DEF u
  <2>2. UNCHANGED [v \in User |-> Spent(v)]
    BY <2>1, NothingSpent
  <2>3. CASE u \in tainted
    BY <2>1, <2>2, <2>3, NoAccountWritten
  <2>4. CASE u \notin tainted
    <3>1. Table!Delete(u)
      BY <2>1, <2>2, <2>4, OneAccountWritten DEF Table!Delete, Table!Nobody, NoRow
    <3>. QED BY <2>1, <3>1 DEF Table!Next
  <2>. QED BY <2>3, <2>4
<1>4. ASSUME NEW h \in Handler, PutUser(h)
      PROVE  Table!Next \/ UNCHANGED Table!accountVars
  <2>. DEFINE u == work[h].user
  <2>1. /\ u \in User /\ UNCHANGED owner
        /\ tainted' = IF work[h].stale THEN tainted \cup {u} ELSE tainted
        /\ \A v \in User \ {u} : users'[v] = users[v]
    BY <1>0, <1>4, AtWork DEF PutUser, Writing
  <2>2. \A d \in Code : owner[d] # u => uses'[d] = uses[d]
    <3>1. work[h].code \in Code => owner[work[h].code] = u
      BY AccountsAssumption DEF CodesOwned
    <3>. QED BY <1>0, <1>4, <3>1 DEF PutUser, Accepted
  <2>3. CASE work[h].stale
    <3>1. Table!Lose(u)
      BY <2>1, <2>2, <2>3, AccountLost
    <3>. QED BY <2>1, <3>1 DEF Table!Next
  <2>4. CASE ~work[h].stale /\ u \in tainted
    BY <2>1, <2>2, <2>4, NoAccountWritten, NothingSpent
  <2>5. CASE ~work[h].stale /\ u \notin tainted
    BY <1>4, <2>5, FreshWrite
  <2>. QED BY <2>3, <2>4, <2>5
<1>5. ASSUME NEW h \in Handler, PutUserFails(h)
      PROVE  Table!Next \/ UNCHANGED Table!accountVars
  <2>. DEFINE u == work[h].user
  <2>1. u \in User /\ UNCHANGED <<users, owner>>
    BY <1>5, AtWork DEF PutUserFails, Writing
  <2>2. CASE work[h].op = "login"
    <3>1. work[h].code \in Code => owner[work[h].code] = u
      BY AccountsAssumption DEF CodesOwned
    <3>2. \A d \in Code : owner[d] # u => uses'[d] = uses[d]
      BY <1>0, <1>5, <2>2, <3>1 DEF PutUserFails, Accepted
    <3>3. tainted' = tainted \cup {u}
      BY <1>5, <2>2 DEF PutUserFails
    <3>. HIDE DEF u
    <3>4. Table!Lose(u)
      BY <2>1, <3>2, <3>3, AccountLost
    <3>. QED BY <2>1, <3>4 DEF Table!Next
  <2>3. CASE work[h].op # "login"
    <3>1. UNCHANGED <<uses, tainted>>
      BY <1>5, <2>3 DEF PutUserFails
    <3>. QED BY <2>1, <3>1, NoAccountWritten, NothingSpent
  <2>. QED BY <2>2, <2>3
<1>6. ASSUME Restart PROVE Table!Next \/ UNCHANGED Table!accountVars
  <2>1. UNCHANGED <<owner, uses, tainted>>
    BY <1>6 DEF Restart
  <2>2. UNCHANGED [v \in User |-> Spent(v)]
    BY <2>1, NothingSpent
  <2>3. CASE \E u \in User : Exists(u)
    BY <1>6, <2>1, <2>2, <2>3, NoAccountWritten DEF Restart
  <2>4. CASE ~\E u \in User : Exists(u)
    <3>1. PICK u \in User : users' = [users EXCEPT ![u] = NewRow("admin")]
      BY <1>6, <2>4 DEF Restart
    <3>2. /\ users'[u] = NewRow("admin") /\ ~users[u].exists
          /\ \A v \in User \ {u} : users'[v] = users[v]
      BY <1>0, <2>4, <3>1 DEF Exists
    <3>3. CASE u \in tainted
      BY <2>1, <2>2, <3>2, <3>3, NoAccountWritten
    <3>4. CASE u \notin tainted
      <4>1. Table!Becomes(u, NewRow("admin"))
        BY <2>1, <3>2, <3>4, OneAccountWritten
      <4>2. [v \in User |-> Account(v)][u] = users[u]
        BY <3>4 DEF Account
      <4>3. Table!Create(u, "admin")
        BY <2>2, <3>2, <4>1, <4>2
        DEF Table!Create, Table!Somebody, Table!Nobody, NewRow, NoRow
      <4>. QED BY <4>3 DEF Table!Next
    <3>. QED BY <3>3, <3>4
  <2>. QED BY <2>3, <2>4
<1>7. CASE UNCHANGED vars
  <2>1. UNCHANGED <<users, owner, uses, tainted>>
    BY <1>7 DEF vars
  <2>. QED BY <2>1, NoAccountWritten, NothingSpent
<1>. QED BY <1>1, <1>8, <1>2, <1>3, <1>4, <1>5, <1>6, <1>7, StepsOfNext

(* Requests read a row in one statement and write it in another.  To the   *)
(* users, each is one change of one account, made in the step that writes, *)
(* of the account as it is there; except for accounts a write of which was *)
(* lost.                                                                   *)
THEOREM AccountsImplementTable == Spec => ImplementsAccounts
<1>1. Init => Table!Init
  <2>. SUFFICES ASSUME Init PROVE Table!Init
    OBVIOUS
  <2>1. /\ \A v \in User : Account(v) = users[v]
        /\ \A v \in User : Spent(v) = {}
    BY DEF Init, Account, Spent
  <2>2. PICK u \in User :
          users = [v \in User |-> IF v = u THEN NewRow("admin") ELSE NoRow]
    BY DEF Init
  <2>3. /\ [v \in User |-> Account(v)]
              = [v \in User |-> IF v = u THEN NewRow("admin") ELSE NoRow]
        /\ [v \in User |-> Spent(v)] = [v \in User |-> {}]
    BY <2>1, <2>2
  <2>. QED BY <2>3 DEF Init, Table!Init, Table!Somebody, Table!Nobody, NewRow, NoRow
<1>2. TypeOK /\ CodesOwned /\ CodesSpent /\ ReadJustNow /\ [Next]_vars
        => [Table!Next]_(Table!accountVars)
  BY StepImplementsTable
<1>. QED BY <1>1, <1>2, TypeCorrect, CodesInvariant, ReadJustNowInvariant, PTL
         DEF Spec, ImplementsAccounts, Table!Spec
=============================================================================
