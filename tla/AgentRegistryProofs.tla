------------------------- MODULE AgentRegistryProofs -------------------------
(***************************************************************************)
(* Theorems about enrollment and revocation, for any number of machines,   *)
(* tokens, records, lost answers and crashes.                              *)
(***************************************************************************)
EXTENDS AgentRegistry, TLAPS

Registering == {"check", "consume", "answer"}

(* What a handler has in hand at each stage, and where the machine is that *)
(* waits for it.                                                           *)
HandlerShape == \A h \in handlers :
    /\ h.stage \in {"check", "consume"} => h.token \in Token
    /\ h.stage \in {"answer", "verify", "store"} => h.id \in ServerId
    /\ Awaits(h) => pc[h.agent] =
            IF h.stage \in Registering THEN "register" ELSE "beat"

(* Each machine that waits does so for one handler, and no other does.     *)
Served ==
    /\ \A h \in handlers : h \in Handler
    /\ \A a \in Agent : pc[a] \in {"register", "beat"} <=>
            \E h \in handlers : h.agent = a /\ Awaits(h)
    /\ \A g, h \in handlers :
         Awaits(g) /\ Awaits(h) /\ g.agent = h.agent => g = h
    /\ HandlerShape

---------------------------------------------------------------------------
(* The four things a step does with the handlers and their machines.       *)

(* A handler goes on.                                                      *)
LEMMA HandlerMoves ==
    ASSUME TypeOK, HandlerShape,
           NEW h \in handlers, NEW g \in Handler, Moved(h, g),
           g.agent = h.agent, g.late = h.late,
           g.stage \in Registering <=> h.stage \in Registering,
           g.stage \in {"check", "consume"} => g.token \in Token,
           g.stage \in {"answer", "verify", "store"} => g.id \in ServerId,
           UNCHANGED pc
    PROVE  Served'
BY DEF TypeOK, Served, HandlerShape, Moved, Awaits

(* A handler ends, and the machine that waits for it goes to "place".      *)
LEMMA HandlerEnds ==
    ASSUME TypeOK, HandlerShape,
           NEW h \in handlers, Ended(h),
           NEW place \in {"down", "run", "save"},
           pc' = IF Awaits(h) THEN [pc EXCEPT ![h.agent] = place] ELSE pc
    PROVE  Served'
BY DEF TypeOK, Served, HandlerShape, Ended, Awaits, Handler

(* A machine sends a request.                                              *)
LEMMA MachineAsks ==
    ASSUME TypeOK, HandlerShape,
           NEW a \in Agent, pc[a] \notin {"register", "beat"},
           NEW stage \in {"check", "verify"}, NEW k \in Token \cup {None},
           NEW s \in ServerId \cup {NoServer}, Asks(a, stage, k, s),
           stage = "check" => k \in Token,
           stage = "verify" => s \in ServerId,
           pc' = [pc EXCEPT ![a] =
                    IF stage = "check" THEN "register" ELSE "beat"]
    PROVE  Served'
<1> DEFINE new == [agent |-> a, late |-> 0, stage |-> stage,
                   token |-> k, id |-> s]
<1>1. new \in Handler /\ Awaits(new)
  BY RegistryBounds DEF Handler, Stage, Awaits
<1>2. /\ new.agent = a /\ new.stage = stage /\ new.token = k /\ new.id = s
      /\ handlers' = handlers \cup {new}
  BY DEF Asks
<1> HIDE DEF new
<1>3. \A h \in handlers : Awaits(h) => h.agent # a
  BY DEF TypeOK, Handler
<1>4. \A b \in Agent : pc'[b] = IF b = a
            THEN IF stage = "check" THEN "register" ELSE "beat" ELSE pc[b]
  BY DEF TypeOK
<1>5. HandlerShape'
  BY <1>1, <1>2, <1>3, <1>4
  DEF TypeOK, HandlerShape, Awaits, Registering, Handler
<1>. QED BY <1>1, <1>2, <1>3, <1>4, <1>5 DEF TypeOK, Served, Handler, Awaits

(* A machine does not wait any more.                                       *)
LEMMA MachineAbandons ==
    ASSUME TypeOK, HandlerShape,
           NEW a \in Agent, Abandons(a), faults < MaxFaults,
           NEW place \in {"down", "run"}, pc' = [pc EXCEPT ![a] = place]
    PROVE  Served'
<1> DEFINE Late(h) == IF h.agent = a /\ Awaits(h)
                      THEN [h EXCEPT !.late = faults + 1] ELSE h
<1>0. /\ faults + 1 \in 0 .. MaxFaults /\ faults + 1 # 0
      /\ \A h \in handlers : h \in Handler
  BY RegistryBounds DEF TypeOK
<1>1. handlers' = {Late(h) : h \in handlers}
  BY DEF Abandons
<1>2. \A h \in handlers :
        /\ Late(h) \in Handler
        /\ Late(h).agent = h.agent /\ Late(h).stage = h.stage
        /\ Late(h).token = h.token /\ Late(h).id = h.id
        /\ Awaits(Late(h)) <=> Awaits(h) /\ h.agent # a
        /\ Awaits(Late(h)) => Late(h) = h
  BY <1>0 DEF Handler, Awaits
<1> HIDE DEF Late
<1>3. \A i \in handlers' : Awaits(i) => i \in handlers /\ i.agent # a
  BY <1>1, <1>2
<1>4. \A i \in handlers : Awaits(i) /\ i.agent # a => i \in handlers'
  BY <1>1, <1>2
<1>5. \A b \in Agent : pc'[b] = IF b = a THEN place ELSE pc[b]
  BY DEF TypeOK
<1>6. HandlerShape'
  BY <1>1, <1>2, <1>3, <1>5 DEF TypeOK, HandlerShape, Handler
<1>. QED BY <1>1, <1>2, <1>3, <1>4, <1>5, <1>6 DEF TypeOK, Served, Handler
---------------------------------------------------------------------------
LEMMA RecordTypes ==
    /\ Unused \in Record
    /\ \A a \in Agent, k \in Token \cup {None} : Enrolled(a, k) \in Record
    /\ \A r \in Record :
         /\ r.key \in Agent => Enrolled(r.key, r.token) \in Record
         /\ [r EXCEPT !.row = "removed"] \in Record
         /\ [r EXCEPT !.seen = "longAgo"] \in Record
BY DEF Unused, Enrolled, Record

(* Records have an owner from the moment they are inserted.                *)
Owned ==
    /\ \A s \in ServerId : servers[s].row # "unused" => servers[s].key \in Agent
    /\ \A h \in handlers : h.stage \in {"answer", "store"} =>
            servers[h.id].row # "unused" /\ servers[h.id].key = h.agent

(* A process has an ID exactly where the code says it has one.             *)
Known ==
    /\ pc \in [Agent -> Place]
    /\ mem \in [Agent -> ServerId \cup {NoServer}]
    /\ \A a \in Agent : mem[a] # NoServer <=> pc[a] \in {"save", "run", "beat"}

LEMMA HandlerIsRefused ==
    ASSUME TypeOK, HandlerShape, NEW h \in handlers, Ended(h), Refused(h)
    PROVE  Served' /\ Known'
<1>1. h.agent \in Agent
  BY DEF TypeOK, Handler
<1>2. CASE ~Awaits(h)
  BY <1>2, HandlerEnds DEF Refused, TypeOK, Known
<1>3. CASE Awaits(h) /\ pc[h.agent] = "register"
  <2>1. pc' = [pc EXCEPT ![h.agent] = "down"]
        /\ mem' = [mem EXCEPT ![h.agent] = NoServer]
    BY <1>3 DEF Refused, Exits
  <2>2. Served'
    BY <1>3, <2>1, HandlerEnds
  <2>. QED BY <1>1, <2>1, <2>2 DEF TypeOK, Known, Place
<1>4. CASE Awaits(h) /\ pc[h.agent] # "register"
  <2>1. pc' = [pc EXCEPT ![h.agent] = "run"] /\ UNCHANGED mem
    BY <1>4 DEF Refused
  <2>2. Served'
    BY <1>4, <2>1, HandlerEnds
  <2>3. pc[h.agent] = "beat"
    BY <1>4 DEF HandlerShape
  <2>. QED BY <1>1, <2>1, <2>2, <2>3 DEF TypeOK, Known, Place
<1>. QED BY <1>2, <1>3, <1>4

(* Type correctness, of the handlers as well: a handler that is waited for *)
(* is at a stage that fits the place of the machine that waits, and a      *)
(* heartbeat that is about to be stored has a record to be stored over.    *)
Typed == TypeOK /\ HandlerShape /\ Owned

LEMMA StepTyped == Typed /\ [Next]_vars => Typed'
<1> SUFFICES ASSUME Typed, [Next]_vars PROVE Typed'
  OBVIOUS
<1>0. /\ NoServer \notin ServerId
      /\ \A h \in handlers : /\ h \in Handler /\ h.agent \in Agent
                             /\ h.token \in Token \cup {None}
                             /\ Untold(h) \subseteq ServerId
  BY DEF Typed, TypeOK, Handler, HandlerShape, Untold, NoServer, ServerId
\* Steps that leave handlers and machines alone.
<1>1. ASSUME NEW k \in Token, IssueToken(k) \/ ExpireToken(k)
      PROVE  Typed'
  BY <1>1 DEF Typed, TypeOK, HandlerShape, Owned, Awaits, IssueToken,
              ExpireToken, agentVars, historyVars
<1>2. ASSUME NEW s \in ServerId, Revoke(s) \/ FallSilent(s)
      PROVE  Typed'
  <2>1. /\ servers' \in [ServerId -> Record]
        /\ \A t \in ServerId : /\ servers'[t].key = servers[t].key
                               /\ servers'[t].row = "unused" <=>
                                    servers[t].row = "unused"
    <3>0. servers \in [ServerId -> Record] /\ servers[s] \in Record
      BY DEF Typed, TypeOK
    <3>1. CASE Revoke(s)
      <4>1. /\ servers' = [servers EXCEPT ![s] = [@ EXCEPT !.row = "removed"]]
            /\ servers[s].row = "stored"
        BY <3>1 DEF Revoke, Stored
      <4>2. [servers[s] EXCEPT !.row = "removed"] \in Record
        BY <3>0, RecordTypes
      <4>3. servers' \in [ServerId -> Record]
        BY <3>0, <4>1, <4>2
      <4>. QED BY <3>0, <4>1, <4>3 DEF Record
    <3>3. CASE FallSilent(s)
      <4>1. servers' = [servers EXCEPT ![s] = [@ EXCEPT !.seen = "longAgo"]]
        BY <3>3 DEF FallSilent
      <4>2. [servers[s] EXCEPT !.seen = "longAgo"] \in Record
        BY <3>0, RecordTypes
      <4>3. servers' \in [ServerId -> Record]
        BY <3>0, <4>1, <4>2
      <4>. QED BY <3>0, <4>1, <4>3 DEF Record
    <3>. QED BY <1>2, <3>1, <3>3
  <2>2. /\ UNCHANGED <<tokens, handlers, config, saved, mem, pc, lost, faults>>
        /\ quiet' \subseteq ServerId
    BY <1>2 DEF Typed, TypeOK, Revoke, FallSilent, agentVars,
                historyVars
  <2>. QED BY <2>1, <2>2 DEF Typed, TypeOK, HandlerShape, Owned, Awaits
\* The machines.
<1>3. ASSUME NEW a \in Agent, NEW k \in Token \cup {None}, pc[a] = "down",
             Begins(a, k), config' \in [Agent -> Token \cup {None}],
             UNCHANGED <<tokens, servers, saved, lost, quiet, faults>>
      PROVE  Typed'
  <2>1. CASE saved[a] # NoServer
    <3>1. /\ mem' = [mem EXCEPT ![a] = saved[a]]
          /\ pc' = [pc EXCEPT ![a] = "run"] /\ UNCHANGED handlers
      BY <1>3, <2>1 DEF Begins
    <3>2. \A h \in handlers : Awaits(h) => h.agent # a
      BY <1>0, <1>3 DEF Typed, TypeOK
    <3>3. Known' /\ Owned'
      BY <1>3, <2>1, <3>1 DEF Typed, TypeOK, Known, Owned, Place
    <3>4. Served'
      BY <1>0, <1>3, <3>1, <3>2 DEF Typed, TypeOK, Served, HandlerShape, Awaits
    <3>. QED BY <1>3, <3>1, <3>3, <3>4 DEF Typed, TypeOK, Served, Known
  <2>2. CASE saved[a] = NoServer
    <3>1. /\ mem' = [mem EXCEPT ![a] = NoServer] /\ k \in Token
          /\ pc' = [pc EXCEPT ![a] = "register"]
          /\ Asks(a, "check", k, NoServer)
      BY <1>3, <2>2 DEF Begins
    <3>2. Served'
      BY <1>3, <3>1, MachineAsks DEF Typed
    <3>3. Owned'
      BY <1>3, <3>1 DEF Typed, Owned, Asks
    <3>. QED BY <1>3, <3>1, <3>2, <3>3 DEF Typed, TypeOK, Served, Place
  <2>. QED BY <2>1, <2>2
<1>4. ASSUME NEW a \in Agent, NEW k \in Token, Join(a, k)
      PROVE  Typed'
  BY <1>3, <1>4 DEF Join, Typed, TypeOK, historyVars
<1>5. ASSUME NEW a \in Agent, AgentStart(a)
      PROVE  Typed'
  BY <1>3, <1>5 DEF AgentStart, Typed, TypeOK, historyVars
<1>6. ASSUME NEW a \in Agent, SaveIdentity(a)
      PROVE  Typed'
  BY <1>6 DEF SaveIdentity, Typed, TypeOK, HandlerShape, Owned, Awaits, Place,
              historyVars, Handler
<1>7. ASSUME NEW a \in Agent, SendHeartbeat(a)
      PROVE  Typed'
  <2>1. /\ pc' = [pc EXCEPT ![a] = "beat"] /\ mem[a] \in ServerId
        /\ Asks(a, "verify", None, mem[a])
        /\ UNCHANGED <<tokens, servers, config, saved, mem, lost,
                       quiet, faults>>
    BY <1>7 DEF SendHeartbeat, Typed, TypeOK, historyVars
  <2>2. Served'
    BY <1>7, <2>1, MachineAsks DEF Typed, SendHeartbeat
  <2>3. Owned'
    BY <2>1 DEF Typed, Owned, Asks
  <2>. QED BY <1>7, <2>1, <2>2, <2>3
    DEF Typed, TypeOK, Served, Place, SendHeartbeat
\* The handlers.
<1>8. ASSUME NEW h \in handlers, Ended(h), Refused(h), lost' \subseteq ServerId,
             faults' \in 0 .. MaxFaults,
             UNCHANGED <<tokens, servers, config, saved, quiet>>
      PROVE  Typed'
  <2>1. Served' /\ Known'
    BY <1>8, HandlerIsRefused DEF Typed
  <2>. QED BY <1>8, <2>1 DEF Typed, TypeOK, Owned, Served, Known, Ended
<1>9. ASSUME NEW h \in handlers, CheckToken(h)
      PROVE  Typed'
  <2>1. CASE tokens[h.token] = "fresh"
    <3> DEFINE g == [h EXCEPT !.stage = "consume"]
    <3>1. /\ g \in Handler /\ g.stage = "consume" /\ g.agent = h.agent
          /\ g.late = h.late /\ g.token = h.token
          /\ h.stage = "check" /\ Moved(h, g)
          /\ UNCHANGED <<tokens, servers, config, saved, mem, pc,
                         lost, quiet, faults>>
      BY <1>0, <1>9, <2>1 DEF CheckToken, Handler, Stage, historyVars
    <3> HIDE DEF g
    <3>2. Served'
      BY <3>1, HandlerMoves DEF Typed, HandlerShape, Registering
    <3>. QED BY <3>1, <3>2 DEF Typed, TypeOK, Owned, Served, Moved
  <2>2. CASE tokens[h.token] # "fresh"
    BY <1>8, <1>9, <2>2 DEF CheckToken, Typed, TypeOK, historyVars
  <2>. QED BY <2>1, <2>2
<1>10. ASSUME NEW h \in handlers, VerifyAgent(h)
       PROVE  Typed'
  <2>1. CASE Verified(h)
    <3> DEFINE g == [h EXCEPT !.stage = "store"]
    <3>1. /\ g \in Handler /\ g.stage = "store" /\ g.agent = h.agent
          /\ g.late = h.late /\ g.token = h.token /\ g.id = h.id
          /\ h.stage = "verify" /\ Moved(h, g)
          /\ UNCHANGED <<tokens, servers, config, saved, mem, pc,
                         lost, quiet, faults>>
      BY <1>0, <1>10, <2>1 DEF VerifyAgent, Handler, Stage, historyVars
    <3> HIDE DEF g
    <3>2. Served'
      BY <3>1, HandlerMoves DEF Typed, HandlerShape, Registering
    <3>3. Owned'
      BY <2>1, <3>1 DEF Typed, Owned, Moved, Verified, Stored
    <3>. QED BY <3>1, <3>2, <3>3 DEF Typed, TypeOK, Served
  <2>2. CASE ~Verified(h)
    BY <1>8, <1>10, <2>2 DEF VerifyAgent, Typed, TypeOK, historyVars
  <2>. QED BY <2>1, <2>2
<1>11. ASSUME NEW h \in handlers, ConsumeToken(h)
       PROVE  Typed'
  <2>1. PICK s \in ServerId :
          /\ Fresh(s)
          /\ servers' = [servers EXCEPT ![s] = Enrolled(h.agent, h.token)]
          /\ Moved(h, [h EXCEPT !.stage = "answer", !.id = s])
    BY <1>11 DEF ConsumeToken
  <2> DEFINE g == [h EXCEPT !.stage = "answer", !.id = s]
  <2>2. /\ g \in Handler /\ g.stage = "answer" /\ g.agent = h.agent
        /\ g.late = h.late /\ g.token = h.token /\ g.id = s
        /\ h.stage = "consume" /\ Moved(h, g) /\ h.token \in Token
        /\ tokens' = [tokens EXCEPT ![h.token] = "used"]
        /\ UNCHANGED <<config, saved, mem, pc, lost, quiet, faults>>
    BY <1>0, <1>11, <2>1
    DEF ConsumeToken, Handler, Stage, agentVars, historyVars, Typed, HandlerShape
  <2> HIDE DEF g
  <2>3. Served'
    BY <2>2, HandlerMoves DEF Typed, Registering
  <2>4. /\ servers' \in [ServerId -> Record]
        /\ servers'[s].row = "stored" /\ servers'[s].key = h.agent
        /\ \A t \in ServerId \ {s} : servers'[t] = servers[t]
    BY <1>0, <2>1, RecordTypes DEF Typed, TypeOK, Enrolled
  <2>5. \A i \in handlers : i.stage \in {"answer", "store"} => i.id # s
    BY <2>1 DEF Typed, Owned, Fresh
  <2>6. Owned'
    BY <1>0, <2>2, <2>4, <2>5 DEF Typed, Owned, Moved, HandlerShape
  <2>. QED BY <2>2, <2>3, <2>4, <2>6 DEF Typed, TypeOK, Served
<1>12. ASSUME NEW h \in handlers, ConsumeTokenRefused(h) \/ HandlerFails(h)
       PROVE  Typed'
  <2>1. /\ Ended(h) /\ Refused(h) /\ lost' \subseteq ServerId
        /\ faults' \in 0 .. MaxFaults
        /\ UNCHANGED <<tokens, servers, config, saved, quiet>>
    BY <1>0, <1>12, RegistryBounds
    DEF ConsumeTokenRefused, HandlerFails, historyVars, Typed, TypeOK
  <2>. QED BY <1>8, <2>1
<1>13. ASSUME NEW h \in handlers, AnswerRegister(h)
       PROVE  Typed'
  <2>1. /\ h.stage = "answer" /\ Ended(h) /\ h.id \in ServerId
        /\ lost' \subseteq ServerId
        /\ UNCHANGED <<tokens, servers, config, saved, quiet, faults>>
    BY <1>0, <1>13 DEF AnswerRegister, Typed, TypeOK, HandlerShape
  <2>2. /\ pc'  = IF Awaits(h) THEN [pc EXCEPT ![h.agent] = "save"] ELSE pc
        /\ mem' = IF Awaits(h) THEN [mem EXCEPT ![h.agent] = h.id] ELSE mem
    BY <1>13 DEF AnswerRegister
  <2>3. Served'
    BY <2>1, <2>2, HandlerEnds DEF Typed
  <2>4. Known'
    BY <1>0, <2>1, <2>2 DEF Typed, TypeOK, Known, Place
  <2>. QED BY <2>1, <2>3, <2>4 DEF Typed, TypeOK, Owned, Served, Known, Ended
<1>14. ASSUME NEW h \in handlers, StoreHeartbeat(h)
       PROVE  Typed'
  <2>1. /\ h.stage = "store" /\ Ended(h) /\ h.id \in ServerId
        /\ servers' = [servers EXCEPT ![h.id] = Enrolled(@.key, @.token)]
        /\ pc' = IF Awaits(h) THEN [pc EXCEPT ![h.agent] = "run"] ELSE pc
        /\ UNCHANGED <<tokens, config, saved, mem, lost, quiet, faults>>
    BY <1>14 DEF StoreHeartbeat, Typed, HandlerShape, historyVars
  <2>2. Served'
    BY <2>1, HandlerEnds DEF Typed
  <2>3. Known'
    BY <1>0, <2>1 DEF Typed, TypeOK, Known, Place, HandlerShape, Registering
  <2>4. /\ servers' \in [ServerId -> Record]
        /\ \A t \in ServerId : /\ servers'[t].key = servers[t].key
                               /\ servers'[t].row = IF t = h.id THEN "stored"
                                                    ELSE servers[t].row
    BY <2>1, RecordTypes DEF Typed, TypeOK, Owned, Enrolled
  <2>5. Owned'
    BY <1>0, <2>1, <2>4 DEF Typed, Owned, Ended, HandlerShape
  <2>. QED BY <2>1, <2>2, <2>3, <2>4, <2>5 DEF Typed, TypeOK, Served, Known
\* Faults.
<1>15. ASSUME NEW a \in Agent, GiveUp(a) \/ AgentCrash(a)
       PROVE  Typed'
  <2>1. PICK place \in {"down", "run"} :
          /\ pc' = [pc EXCEPT ![a] = place]
          /\ mem' = IF place = "down" THEN [mem EXCEPT ![a] = NoServer] ELSE mem
          /\ place = "run" => pc[a] = "beat"
    BY <1>15 DEF GiveUp, AgentCrash, Exits
  <2>2. /\ Abandons(a) /\ faults < MaxFaults /\ faults' = faults + 1
        /\ lost' \subseteq ServerId
        /\ UNCHANGED <<tokens, servers, config, saved, quiet>>
    BY <1>15 DEF GiveUp, AgentCrash, Typed, TypeOK, historyVars
  <2>3. Served'
    BY <2>1, <2>2, MachineAbandons DEF Typed
  <2>4. Known'
    BY <1>0, <2>1 DEF Typed, TypeOK, Known, Place
  <2>5. faults' \in 0 .. MaxFaults
    BY <2>2, RegistryBounds DEF Typed, TypeOK
  <2>6. \A i \in handlers' : \E h \in handlers :
            i.stage = h.stage /\ i.id = h.id /\ i.agent = h.agent
    BY <1>0, <2>2 DEF Abandons, Handler
  <2>7. Owned'
    BY <2>2, <2>6 DEF Typed, Owned
  <2>. QED BY <2>2, <2>3, <2>4, <2>5, <2>7 DEF Typed, TypeOK, Served, Known
<1>16. CASE ControllerCrash
  <2>1. /\ lost' \subseteq ServerId /\ faults' \in 0 .. MaxFaults
    BY <1>0, <1>16, RegistryBounds DEF ControllerCrash, Typed, TypeOK
  <2>. QED BY <1>0, <1>16, <2>1
    DEF ControllerCrash, Typed, TypeOK, HandlerShape, Owned, Place
<1>17. CASE UNCHANGED vars
  BY <1>17 DEF vars, Typed, TypeOK, HandlerShape, Owned, Awaits
<1>. QED
  BY <1>1, <1>2, <1>4, <1>5, <1>6, <1>7, <1>9, <1>10, <1>11, <1>12, <1>13,
     <1>14, <1>15, <1>16, <1>17
  DEF Next, HandlerStep, AgentStep

LEMMA TypedInvariant == Spec => []Typed
<1>1. Init => Typed
  BY RecordTypes, RegistryBounds
  DEF Init, Typed, TypeOK, HandlerShape, Owned, Place, Unused, NoServer, ServerId
<1>. QED BY <1>1, StepTyped, PTL DEF Spec

(* Type correctness: no registration, heartbeat, revocation, crash or late *)
(* request takes a variable out of the values the code can give it.        *)
THEOREM TypeCorrect == Spec => []TypeOK
<1>1. Typed => TypeOK
  BY DEF Typed
<1>. QED BY <1>1, TypedInvariant, PTL
---------------------------------------------------------------------------
(* A token that a record was inserted with is used up.                     *)
TokensSpent == \A s \in ServerId :
    /\ servers[s].row = "unused" => servers[s].token = None
    /\ servers[s].token # None => tokens[servers[s].token] = "used"
    /\ \A t \in ServerId : s # t /\ servers[s].token = servers[t].token =>
            servers[s].token = None

(* No two records were ever enrolled with one token, although every        *)
(* registration checks it in a statement of its own first.                 *)
THEOREM TokensSingleUse == Spec => []OneServerPerToken
<1>1. Init => TokensSpent
  BY DEF Init, TokensSpent, Unused
<1>2. TokensSpent /\ Typed /\ [Next]_vars => TokensSpent'
  <2> SUFFICES ASSUME TokensSpent, Typed, [Next]_vars PROVE TokensSpent'
    OBVIOUS
  <2>0. /\ tokens \in [Token -> {"none", "fresh", "used", "expired"}]
        /\ servers \in [ServerId -> Record]
        /\ \A s \in ServerId : servers[s].token \in Token \cup {None}
    BY DEF Typed, TypeOK, Record
  <2>1. ASSUME NEW k \in Token, IssueToken(k) \/ ExpireToken(k)
        PROVE  TokensSpent'
    BY <2>0, <2>1, RegistryBounds DEF TokensSpent, IssueToken, ExpireToken
  <2>2. ASSUME \A s \in ServerId : /\ servers'[s].token = servers[s].token
                                   /\ servers'[s].row = "unused" =>
                                        servers[s].row = "unused",
               UNCHANGED tokens
        PROVE  TokensSpent'
    BY <2>2 DEF TokensSpent
  <2>3. ASSUME NEW s \in ServerId, Revoke(s) \/ FallSilent(s)
        PROVE  TokensSpent'
    BY <2>0, <2>2, <2>3 DEF Revoke, FallSilent, Record
  <2>4. ASSUME NEW h \in handlers, StoreHeartbeat(h)
        PROVE  TokensSpent'
    BY <2>0, <2>2, <2>4 DEF StoreHeartbeat, Enrolled
  <2>5. ASSUME NEW h \in handlers, ConsumeToken(h)
        PROVE  TokensSpent'
    <3>1. PICK s \in ServerId :
            Fresh(s) /\ servers' = [servers EXCEPT ![s] = Enrolled(h.agent, h.token)]
      BY <2>5 DEF ConsumeToken
    <3>2. /\ h.token \in Token /\ tokens[h.token] = "fresh"
          /\ tokens' = [tokens EXCEPT ![h.token] = "used"]
      BY <2>5 DEF ConsumeToken, Typed, HandlerShape
    <3>3. /\ servers'[s].token = h.token /\ servers'[s].row = "stored"
          /\ \A t \in ServerId \ {s} : servers'[t] = servers[t]
      BY <2>0, <3>1 DEF Enrolled
    <3>4. \A t \in ServerId : servers[t].token # h.token
      BY <3>2, RegistryBounds DEF TokensSpent
    <3>. QED BY <2>0, <3>2, <3>3, <3>4, RegistryBounds DEF TokensSpent
  <2>6. CASE UNCHANGED <<tokens, servers>>
    BY <2>6 DEF TokensSpent
  <2>. QED
    BY <2>1, <2>3, <2>4, <2>5, <2>6
    DEF Next, HandlerStep, AgentStep, Join, AgentStart, SaveIdentity,
        SendHeartbeat, CheckToken, ConsumeTokenRefused, AnswerRegister,
        HandlerFails, VerifyAgent, GiveUp, AgentCrash, ControllerCrash, vars
<1>3. TokensSpent => OneServerPerToken
  BY DEF TokensSpent, OneServerPerToken
<1>. QED BY <1>1, <1>2, <1>3, TypedInvariant, PTL DEF Spec

---------------------------------------------------------------------------
(* Nothing that could still store a quietly removed record is under way.   *)
QuietForGood == \A s \in quiet :
    /\ servers[s].row = "removed"
    /\ \A h \in handlers : ~(h.stage = "store" /\ h.id = s)

LEMMA QuietForGoodInvariant == Spec => []QuietForGood
<1>1. Init => QuietForGood
  BY DEF Init, QuietForGood
<1>2. QuietForGood /\ Typed /\ [Next]_vars => QuietForGood'
  <2> SUFFICES ASSUME QuietForGood, Typed, [Next]_vars PROVE QuietForGood'
    OBVIOUS
  <2>0. /\ servers \in [ServerId -> Record] /\ quiet \subseteq ServerId
        /\ \A h \in handlers : h \in Handler
    BY DEF Typed, TypeOK
  \* Most steps touch no record and start no write of one.
  <2>1. ASSUME UNCHANGED <<servers, quiet>>,
               \A g \in handlers' : g.stage = "store" =>
                    \E h \in handlers : h.stage = "store" /\ h.id = g.id
        PROVE  QuietForGood'
    BY <2>1 DEF QuietForGood
  <2>2. ASSUME NEW s \in ServerId, Revoke(s) PROVE QuietForGood'
    BY <2>0, <2>2 DEF Revoke, QuietForGood, Record
  <2>3. ASSUME NEW s \in ServerId, FallSilent(s) PROVE QuietForGood'
    BY <2>0, <2>3 DEF FallSilent, QuietForGood, Record, historyVars
  <2>4. ASSUME NEW h \in handlers, ConsumeToken(h) PROVE QuietForGood'
    <3>1. PICK s \in ServerId :
            /\ Fresh(s)
            /\ servers' = [servers EXCEPT ![s] = Enrolled(h.agent, h.token)]
            /\ Moved(h, [h EXCEPT !.stage = "answer", !.id = s])
      BY <2>4 DEF ConsumeToken
    <3>2. s \notin quiet
      BY <3>1 DEF QuietForGood, Fresh
    <3>3. \A g \in handlers' : g.stage = "store" => g \in handlers
      BY <2>0, <3>1 DEF Moved, Handler
    <3>. QED BY <2>0, <2>4, <3>1, <3>2, <3>3
      DEF QuietForGood, ConsumeToken, historyVars
  <2>5. ASSUME NEW h \in handlers, VerifyAgent(h) PROVE QuietForGood'
    <3>1. CASE Verified(h)
      <4>1. Moved(h, [h EXCEPT !.stage = "store"]) /\ h.id \notin quiet
        BY <2>5, <3>1 DEF VerifyAgent, Verified, Stored, QuietForGood
      <4>. QED BY <2>0, <2>5, <4>1
        DEF QuietForGood, VerifyAgent, historyVars, Moved, Handler
    <3>2. CASE ~Verified(h)
      BY <2>1, <2>5, <3>2 DEF VerifyAgent, Ended, historyVars
    <3>. QED BY <3>1, <3>2
  <2>6. ASSUME NEW h \in handlers, StoreHeartbeat(h) PROVE QuietForGood'
    BY <2>0, <2>6 DEF StoreHeartbeat, QuietForGood, Ended, historyVars
  <2>7. ASSUME NEW h \in handlers, CheckToken(h) PROVE QuietForGood'
    BY <2>0, <2>1, <2>7 DEF CheckToken, Moved, Ended, Handler, historyVars
  <2>8. ASSUME NEW h \in handlers, AnswerRegister(h) \/ ConsumeTokenRefused(h)
                                   \/ HandlerFails(h)
        PROVE  QuietForGood'
    BY <2>1, <2>8
    DEF AnswerRegister, ConsumeTokenRefused, HandlerFails, Ended, historyVars
  <2>9. ASSUME NEW a \in Agent, GiveUp(a) \/ AgentCrash(a) PROVE QuietForGood'
    <3>1. Abandons(a) /\ UNCHANGED <<servers, quiet>>
      BY <2>9 DEF GiveUp, AgentCrash, historyVars
    <3>2. \A g \in handlers' : \E h \in handlers : g.stage = h.stage /\ g.id = h.id
      BY <2>0, <3>1 DEF Abandons, Handler
    <3>. QED BY <2>1, <3>1, <3>2
  <2>10. ASSUME NEW a \in Agent, NEW k \in Token \cup {None}, Begins(a, k),
                UNCHANGED <<servers, quiet>>
         PROVE  QuietForGood'
    BY <2>1, <2>10 DEF Begins, Asks
  <2>11. ASSUME NEW a \in Agent, SendHeartbeat(a) PROVE QuietForGood'
    BY <2>1, <2>11 DEF SendHeartbeat, Asks, historyVars
  <2>12. CASE ControllerCrash
    BY <2>1, <2>12 DEF ControllerCrash
  <2>13. CASE UNCHANGED <<servers, handlers, quiet>>
    BY <2>1, <2>13
  <2>14. ASSUME NEW a \in Agent, NEW k \in Token, Join(a, k) PROVE QuietForGood'
    BY <2>10, <2>14 DEF Join, historyVars
  <2>15. ASSUME NEW a \in Agent, AgentStart(a) PROVE QuietForGood'
    BY <2>10, <2>15 DEF AgentStart, historyVars, Typed, TypeOK
  <2>. QED
    BY <2>2, <2>3, <2>4, <2>5, <2>6, <2>7, <2>8, <2>9, <2>11, <2>12, <2>13,
       <2>14, <2>15
    DEF Next, HandlerStep, AgentStep, IssueToken, ExpireToken,
        SaveIdentity, historyVars, vars
<1>. QED BY <1>1, <1>2, TypedInvariant, PTL DEF Spec

(* A record that is removed while no heartbeat of its Agent was verified   *)
(* stays removed, however many heartbeats, late ones too, come afterwards. *)
THEOREM QuietRevocationIsFinal == Spec => []QuietRevocationHolds
<1>1. QuietForGood => QuietRevocationHolds
  BY DEF QuietForGood, QuietRevocationHolds
<1>. QED BY <1>1, QuietForGoodInvariant, PTL

---------------------------------------------------------------------------
(* Where the ID of a record is; and a machine that is being enrolled has   *)
(* no identity it could lose.                                              *)
HeldBy(s) ==
    \/ saved[servers[s].key] = s
    \/ pc[servers[s].key] = "save" /\ mem[servers[s].key] = s
    \/ \E h \in handlers : h.stage = "answer" /\ h.id = s
IdentityKept ==
    /\ \A s \in ServerId \ lost : servers[s].row # "unused" => HeldBy(s)
    /\ \A a \in Agent : pc[a] \in {"register", "save"} => saved[a] = NoServer

LEMMA IdentityKeptInvariant == Spec => []IdentityKept
<1>1. Init => IdentityKept
  BY DEF Init, IdentityKept, Unused
<1>2. IdentityKept /\ Typed /\ [Next]_vars => IdentityKept'
  <2> SUFFICES ASSUME IdentityKept, Typed, [Next]_vars PROVE IdentityKept'
    OBVIOUS
  <2>0. /\ servers \in [ServerId -> Record] /\ lost \subseteq ServerId
        /\ saved \in [Agent -> ServerId \cup {NoServer}]
        /\ mem \in [Agent -> ServerId \cup {NoServer}]
        /\ pc \in [Agent -> Place]
        /\ NoServer \notin ServerId
        /\ \A s \in ServerId : servers[s].row # "unused" => servers[s].key \in Agent
        /\ \A h \in handlers : h \in Handler /\ h.agent \in Agent
    BY DEF Typed, TypeOK, Owned, Handler, NoServer, ServerId
  \* Answers stay under way, machines about to save stay there.
  <2>1. ASSUME \A s \in ServerId : /\ servers'[s].key = servers[s].key
                                   /\ servers'[s].row = "unused" <=>
                                        servers[s].row = "unused",
               UNCHANGED saved, lost \subseteq lost',
               \A a \in Agent : pc[a] = "save" =>
                    \/ pc'[a] = "save" /\ mem'[a] = mem[a]
                    \/ mem[a] \in lost',
               \A a \in Agent : pc'[a] \in {"register", "save"} =>
                    saved[a] = NoServer,
               \A h \in handlers : h.stage = "answer" =>
                    \/ \E g \in handlers' : g.stage = "answer" /\ g.id = h.id
                    \/ h.id \in lost'
        PROVE  IdentityKept'
    <3>1. ASSUME NEW s \in ServerId \ lost', servers'[s].row # "unused"
          PROVE  HeldBy(s)'
      <4>1. HeldBy(s) /\ servers[s].key \in Agent
        BY <2>0, <2>1, <3>1 DEF IdentityKept
      <4>. QED BY <2>1, <3>1, <4>1 DEF HeldBy
    <3>. QED BY <2>1, <3>1 DEF IdentityKept
  <2>2. ASSUME NEW s \in ServerId, Revoke(s) \/ FallSilent(s)
        PROVE  IdentityKept'
    <3>1. \A t \in ServerId : /\ servers'[t].key = servers[t].key
                              /\ servers'[t].row = "unused" <=>
                                    servers[t].row = "unused"
      <4>1. CASE Revoke(s)
        BY <2>0, <4>1 DEF Revoke, Stored, Record
      <4>2. CASE FallSilent(s)
        BY <2>0, <4>2 DEF FallSilent, Record
      <4>. QED BY <2>2, <4>1, <4>2
    <3>2. UNCHANGED <<saved, lost, pc, mem, handlers>>
      BY <2>2 DEF Revoke, FallSilent, agentVars, historyVars
    <3>. QED BY <2>1, <3>1, <3>2 DEF IdentityKept
  <2>3. ASSUME NEW h \in handlers, StoreHeartbeat(h)
        PROVE  IdentityKept'
    <3>1. /\ h.stage = "store" /\ h.id \in ServerId
          /\ servers[h.id].row # "unused"
          /\ servers' = [servers EXCEPT ![h.id] = Enrolled(@.key, @.token)]
          /\ handlers' = handlers \ {h} /\ UNCHANGED <<saved, lost, mem>>
          /\ pc' = IF Awaits(h) THEN [pc EXCEPT ![h.agent] = "run"] ELSE pc
          /\ Awaits(h) => pc[h.agent] = "beat"
      BY <2>3 DEF StoreHeartbeat, Typed, HandlerShape, Owned, historyVars, Ended,
                  Registering
    <3>2. \A t \in ServerId : /\ servers'[t].key = servers[t].key
                              /\ servers'[t].row = "unused" <=>
                                    servers[t].row = "unused"
      BY <2>0, <3>1 DEF Enrolled
    <3>3. \A a \in Agent : pc[a] = "save" => pc'[a] = "save"
      BY <2>0, <3>1
    <3>4. \A a \in Agent : pc'[a] \in {"register", "save"} => saved[a] = NoServer
      BY <2>0, <3>1 DEF IdentityKept
    <3>. QED BY <2>1, <3>1, <3>2, <3>3, <3>4
  <2>4. ASSUME NEW h \in handlers, Ended(h), Refused(h), UNCHANGED <<servers, saved>>,
               lost' = lost \cup Untold(h)
        PROVE  IdentityKept'
    <3>1. Awaits(h) => pc[h.agent] \in {"register", "beat"}
      BY DEF Typed, HandlerShape
    <3>2. \A a \in Agent : /\ pc[a] = "save" => pc'[a] = "save" /\ mem'[a] = mem[a]
                           /\ pc'[a] \in {"register", "save"} => pc'[a] = pc[a]
      BY <2>0, <2>4, <3>1 DEF Refused, Exits
    <3>3. \A g \in handlers : g.stage = "answer" => g \in handlers' \/ g.id \in lost'
      BY <2>4 DEF Ended, Untold
    <3>. QED BY <2>1, <2>4, <3>2, <3>3 DEF IdentityKept
  <2>5. ASSUME NEW h \in handlers, HandlerFails(h) PROVE IdentityKept'
    BY <2>4, <2>5 DEF HandlerFails
  <2>6. ASSUME NEW h \in handlers, h.stage # "answer", Ended(h), Refused(h),
               UNCHANGED <<servers, saved, lost>>
        PROVE  IdentityKept'
    BY <2>4, <2>6 DEF Untold
  <2>7. ASSUME NEW h \in handlers, NEW g, Moved(h, g), h.stage # "answer",
               UNCHANGED <<servers, saved, pc, mem, lost>>
        PROVE  IdentityKept'
    BY <2>1, <2>7 DEF Moved, IdentityKept
  <2>8. ASSUME NEW h \in handlers, CheckToken(h) \/ VerifyAgent(h)
                                   \/ ConsumeTokenRefused(h)
        PROVE  IdentityKept'
    BY <2>6, <2>7, <2>8
    DEF CheckToken, VerifyAgent, ConsumeTokenRefused, historyVars
  <2>9. ASSUME NEW h \in handlers, ConsumeToken(h) PROVE IdentityKept'
    <3>1. PICK s \in ServerId :
            /\ Fresh(s)
            /\ servers' = [servers EXCEPT ![s] = Enrolled(h.agent, h.token)]
            /\ Moved(h, [h EXCEPT !.stage = "answer", !.id = s])
      BY <2>9 DEF ConsumeToken
    <3> DEFINE g == [h EXCEPT !.stage = "answer", !.id = s]
    <3>2. /\ g.stage = "answer" /\ g.id = s /\ handlers' = (handlers \ {h}) \cup {g}
          /\ h.stage = "consume" /\ UNCHANGED <<saved, pc, mem, lost>>
          /\ \A t \in ServerId \ {s} : servers'[t] = servers[t]
      BY <2>0, <2>9, <3>1
      DEF Moved, ConsumeToken, agentVars, historyVars, Handler
    <3> HIDE DEF g
    <3>3. HeldBy(s)'
      BY <3>2 DEF HeldBy
    <3>4. ASSUME NEW t \in ServerId \ lost, t # s, servers'[t].row # "unused"
          PROVE  HeldBy(t)'
      <4>1. HeldBy(t) /\ servers'[t] = servers[t]
        BY <3>2, <3>4 DEF IdentityKept
      <4>. QED BY <3>2, <4>1 DEF HeldBy
    <3>. QED BY <3>2, <3>3, <3>4 DEF IdentityKept
  <2>10. ASSUME NEW h \in handlers, AnswerRegister(h) PROVE IdentityKept'
    <3>1. /\ h.stage = "answer" /\ handlers' = handlers \ {h} /\ h.id \in ServerId
          /\ servers[h.id].key = h.agent /\ UNCHANGED <<servers, saved>>
          /\ Awaits(h) => pc[h.agent] = "register"
      BY <2>10 DEF AnswerRegister, Ended, Typed, Owned, HandlerShape, Registering
    <3>2. CASE ~Awaits(h)
      BY <2>1, <2>10, <3>1, <3>2 DEF AnswerRegister, Untold, IdentityKept
    <3>3. CASE Awaits(h)
      <4>1. /\ mem' = [mem EXCEPT ![h.agent] = h.id] /\ UNCHANGED lost
            /\ pc'  = [pc EXCEPT ![h.agent] = "save"]
        BY <2>10, <3>3 DEF AnswerRegister
      <4>2. ASSUME NEW s \in ServerId \ lost, servers[s].row # "unused"
            PROVE  HeldBy(s)'
        <5>1. HeldBy(s) /\ servers[s].key \in Agent
          BY <2>0, <4>2 DEF IdentityKept
        <5>2. CASE s = h.id
          BY <2>0, <3>1, <4>1, <5>2 DEF HeldBy
        <5>3. CASE s # h.id
          BY <2>0, <3>1, <3>3, <4>1, <5>1, <5>3 DEF HeldBy
        <5>. QED BY <5>2, <5>3
      <4>3. \A a \in Agent : pc'[a] \in {"register", "save"} => saved[a] = NoServer
        BY <2>0, <3>1, <3>3, <4>1 DEF IdentityKept
      <4>. QED BY <3>1, <4>1, <4>2, <4>3 DEF IdentityKept
    <3>. QED BY <3>2, <3>3
  <2>11. ASSUME NEW a \in Agent, SaveIdentity(a) PROVE IdentityKept'
    <3>1. /\ pc[a] = "save" /\ pc' = [pc EXCEPT ![a] = "run"]
          /\ saved' = [saved EXCEPT ![a] = mem[a]]
          /\ UNCHANGED <<servers, handlers, mem, lost>>
          /\ saved[a] = NoServer
      BY <2>11 DEF SaveIdentity, historyVars, IdentityKept
    <3>2. ASSUME NEW s \in ServerId \ lost, servers[s].row # "unused"
          PROVE  HeldBy(s)'
      <4>1. HeldBy(s) /\ servers[s].key \in Agent
        BY <2>0, <3>2 DEF IdentityKept
      <4>. QED BY <2>0, <3>1, <4>1 DEF HeldBy
    <3>. QED BY <2>0, <3>1, <3>2 DEF IdentityKept
  <2>12. ASSUME NEW a \in Agent, NEW k, pc[a] = "down", Begins(a, k),
                UNCHANGED <<servers, saved, lost>>
         PROVE  IdentityKept'
    <3>1. \A b \in Agent \ {a} : pc'[b] = pc[b] /\ mem'[b] = mem[b]
      BY <2>0, <2>12 DEF Begins
    <3>2. /\ pc'[a] \in {"register", "run"}
          /\ pc'[a] = "register" => saved[a] = NoServer
          /\ handlers \subseteq handlers'
      BY <2>0, <2>12 DEF Begins, Asks
    <3>. QED BY <2>1, <2>12, <3>1, <3>2 DEF IdentityKept
  <2>13. ASSUME NEW a \in Agent, NEW k \in Token, Join(a, k) PROVE IdentityKept'
    BY <2>12, <2>13 DEF Join, historyVars
  <2>14. ASSUME NEW a \in Agent, AgentStart(a) PROVE IdentityKept'
    BY <2>12, <2>14 DEF AgentStart, historyVars
  <2>15. ASSUME NEW a \in Agent, SendHeartbeat(a) PROVE IdentityKept'
    <3>1. /\ pc' = [pc EXCEPT ![a] = "beat"] /\ handlers \subseteq handlers'
          /\ pc[a] = "run" /\ UNCHANGED <<servers, saved, mem, lost>>
      BY <2>15 DEF SendHeartbeat, Asks, historyVars
    <3>. QED BY <2>0, <2>1, <3>1 DEF IdentityKept
  <2>16. ASSUME NEW a \in Agent, GiveUp(a) \/ AgentCrash(a) PROVE IdentityKept'
    <3>1. Abandons(a) /\ UNCHANGED <<servers, saved>> /\ lost \subseteq lost'
      BY <2>16 DEF GiveUp, AgentCrash, historyVars
    <3>2. \A h \in handlers : \E g \in handlers' : g.stage = h.stage /\ g.id = h.id
      <4>1. ASSUME NEW h \in handlers
            PROVE  \E g \in handlers' : g.stage = h.stage /\ g.id = h.id
        <5> DEFINE g == IF h.agent = a /\ Awaits(h)
                        THEN [h EXCEPT !.late = faults + 1] ELSE h
        <5>. g \in handlers' /\ g.stage = h.stage /\ g.id = h.id
          BY <2>0, <3>1 DEF Abandons, Handler
        <5>. QED OBVIOUS
      <4>. QED BY <4>1
    <3>3. /\ \A b \in Agent \ {a} : pc'[b] = pc[b] /\ mem'[b] = mem[b]
          /\ pc'[a] \in {"down", "run"}
          /\ pc[a] = "save" => mem[a] \in lost'
      BY <2>0, <2>16 DEF GiveUp, AgentCrash, Exits
    <3>. QED BY <2>1, <3>1, <3>2, <3>3 DEF IdentityKept
  <2>17. CASE ControllerCrash
    <3>1. /\ UNCHANGED <<servers, saved>> /\ lost \subseteq lost'
          /\ \A h \in handlers : h.stage = "answer" => h.id \in lost'
      BY <2>17 DEF ControllerCrash, Untold
    <3>2. \A a \in Agent : /\ pc[a] = "save" => pc'[a] = "save" /\ mem'[a] = mem[a]
                           /\ pc'[a] \in {"register", "save"} => pc'[a] = pc[a]
      BY <2>17 DEF ControllerCrash
    <3>. QED BY <2>1, <3>1, <3>2 DEF IdentityKept
  <2>18. CASE UNCHANGED <<servers, handlers, saved, mem, pc, lost>>
    BY <2>1, <2>18 DEF IdentityKept
  <2>. QED
    BY <2>2, <2>3, <2>5, <2>8, <2>9, <2>10, <2>11, <2>13, <2>14, <2>15, <2>16,
       <2>17, <2>18
    DEF Next, HandlerStep, AgentStep, IssueToken, ExpireToken,
        agentVars, historyVars, vars
<1>. QED BY <1>1, <1>2, TypedInvariant, PTL DEF Spec

(* No crash and no further join makes a machine forget the ID it was told: *)
(* only an answer that was lost leaves a record without its machine.       *)
THEOREM IdentityIsKept == Spec => []RecordIsKnown
<1>1. IdentityKept => RecordIsKnown
  BY DEF IdentityKept, HeldBy, RecordIsKnown
<1>. QED BY <1>1, IdentityKeptInvariant, PTL

---------------------------------------------------------------------------
(* The ID of a record is in one place: an answer under way, the memory of  *)
(* the machine that is about to save it, its identity file, or lost.       *)
Owns(a, s) == servers[s].row # "unused" /\ servers[s].key = a
ToldOnce ==
    /\ \A a \in Agent : saved[a] # NoServer =>
         Owns(a, saved[a]) /\ saved[a] \notin lost
    /\ \A a \in Agent : pc[a] = "save" =>
         Owns(a, mem[a]) /\ mem[a] \notin lost
    /\ \A s \in lost : servers[s].row # "unused"
    /\ \A h \in handlers : h.stage = "answer" =>
         /\ h.id \notin lost
         /\ saved[h.agent] # h.id
         /\ pc[h.agent] = "save" => mem[h.agent] # h.id
    /\ \A g, h \in handlers :
         g.stage = "answer" /\ h.stage = "answer" /\ g.id = h.id => g = h

(* Answers under way stay under way or end; what is forgotten is no ID     *)
(* that is anywhere else.                                                  *)
LEMMA IdsStay ==
    ASSUME ToldOnce, NEW untold,
           \A s \in ServerId : servers[s].row # "unused" =>
                servers'[s].row # "unused" /\ servers'[s].key = servers[s].key,
           lost \subseteq ServerId, untold \subseteq ServerId,
           \A h \in handlers : h.stage = "answer" => h.id \in ServerId,
           \A a \in Agent : saved[a] # NoServer => saved[a] \in ServerId,
           \A a \in Agent : pc[a] = "save" => mem[a] \in ServerId,
           lost' = lost \cup untold, UNCHANGED saved,
           \A s \in untold :
             /\ servers[s].row # "unused"
             /\ \A a \in Agent : saved[a] # s
             /\ \A a \in Agent : pc'[a] = "save" => mem'[a] # s
             /\ \A g \in handlers' : g.stage = "answer" => g.id # s,
           \A a \in Agent : pc'[a] = "save" => pc[a] = "save" /\ mem'[a] = mem[a],
           \A h \in handlers : h.agent \in Agent,
           \A g \in handlers' : g.stage = "answer" => \E h \in handlers :
                h.stage = "answer" /\ h.id = g.id /\ h.agent = g.agent,
           \A g, h \in handlers' :
                g.stage = "answer" /\ h.stage = "answer" /\ g.id = h.id => g = h
    PROVE  ToldOnce'
<1>. USE DEF ToldOnce
<1>1. \A a \in Agent : saved'[a] # NoServer =>
         /\ servers'[saved'[a]].row # "unused" /\ servers'[saved'[a]].key = a
         /\ saved'[a] \notin lost'
  BY DEF Owns
<1>2. \A a \in Agent : pc'[a] = "save" =>
         /\ servers'[mem'[a]].row # "unused" /\ servers'[mem'[a]].key = a
         /\ mem'[a] \notin lost'
  BY DEF Owns
<1>3. \A s \in lost' : servers'[s].row # "unused"
  OBVIOUS
<1>4. ASSUME NEW g \in handlers', g.stage = "answer"
      PROVE  /\ g.id \notin lost' /\ saved'[g.agent] # g.id
             /\ pc'[g.agent] = "save" => mem'[g.agent] # g.id
  <2>1. PICK h \in handlers :
          h.stage = "answer" /\ h.id = g.id /\ h.agent = g.agent
    BY <1>4
  <2>2. h.id \notin lost /\ saved[h.agent] # h.id
    BY <2>1
  <2>3. pc[h.agent] = "save" => mem[h.agent] # h.id
    BY <2>1
  <2>. QED BY <1>4, <2>1, <2>2, <2>3
<1>. QED BY <1>1, <1>2, <1>3, <1>4 DEF Owns

(* Of an answer under way, or an ID about to be saved: it is nobody's yet. *)
LEMMA UntoldIds ==
    ASSUME ToldOnce, IdentityKept, Typed
    PROVE  /\ \A h \in handlers : h.stage = "answer" =>
                /\ h.id \in ServerId /\ servers[h.id].row # "unused"
                /\ servers[h.id].key = h.agent /\ h.agent \in Agent
                /\ \A a \in Agent : saved[a] # h.id
                /\ \A a \in Agent : pc[a] = "save" => mem[a] # h.id
           /\ \A a \in Agent : pc[a] = "save" =>
                /\ mem[a] \in ServerId /\ servers[mem[a]].row # "unused"
                /\ servers[mem[a]].key = a
                /\ \A b \in Agent : saved[b] # mem[a]
                /\ \A b \in Agent : pc[b] = "save" /\ b # a => mem[b] # mem[a]
                /\ \A h \in handlers : h.stage = "answer" => h.id # mem[a]
<1>0. /\ NoServer \notin ServerId
      /\ \A a \in Agent : /\ saved[a] # NoServer => saved[a] \in ServerId
                          /\ pc[a] = "save" => mem[a] \in ServerId
      /\ \A h \in handlers : h.agent \in Agent
  BY DEF Typed, TypeOK, Handler, NoServer, ServerId
<1>1. ASSUME NEW h \in handlers, h.stage = "answer"
      PROVE  /\ h.id \in ServerId /\ servers[h.id].row # "unused"
             /\ servers[h.id].key = h.agent /\ h.agent \in Agent
             /\ \A a \in Agent : saved[a] # h.id
             /\ \A a \in Agent : pc[a] = "save" => mem[a] # h.id
  <2>1. /\ h.id \in ServerId /\ servers[h.id].row # "unused"
        /\ servers[h.id].key = h.agent /\ h.agent \in Agent
    BY <1>0, <1>1 DEF Typed, HandlerShape, Owned
  <2>. QED BY <1>0, <1>1, <2>1 DEF ToldOnce, Owns
<1>2. ASSUME NEW a \in Agent, pc[a] = "save"
      PROVE  /\ mem[a] \in ServerId /\ servers[mem[a]].row # "unused"
             /\ servers[mem[a]].key = a
             /\ \A b \in Agent : saved[b] # mem[a]
             /\ \A b \in Agent : pc[b] = "save" /\ b # a => mem[b] # mem[a]
             /\ \A h \in handlers : h.stage = "answer" => h.id # mem[a]
  <2>1. Owns(a, mem[a]) /\ mem[a] \in ServerId /\ saved[a] = NoServer
    BY <1>0, <1>2 DEF ToldOnce, IdentityKept
  <2>. QED BY <1>0, <1>1, <1>2, <2>1 DEF ToldOnce, Owns
<1>. QED BY <1>1, <1>2

LEMMA ToldOnceInvariant == Spec => []ToldOnce
<1>1. Init => ToldOnce
  BY DEF Init, ToldOnce, NoServer
<1>2. ToldOnce /\ IdentityKept /\ Typed /\ [Next]_vars => ToldOnce'
  <2> SUFFICES ASSUME ToldOnce, IdentityKept, Typed, [Next]_vars
               PROVE  ToldOnce'
    OBVIOUS
  <2>0. /\ servers \in [ServerId -> Record] /\ lost \subseteq ServerId
        /\ saved \in [Agent -> ServerId \cup {NoServer}]
        /\ mem \in [Agent -> ServerId \cup {NoServer}]
        /\ pc \in [Agent -> Place]
        /\ NoServer \notin ServerId
        /\ \A a \in Agent : /\ saved[a] # NoServer => saved[a] \in ServerId
                            /\ pc[a] = "save" => mem[a] \in ServerId
        /\ \A h \in handlers : h \in Handler /\ h.agent \in Agent
        /\ \A h \in handlers : h.stage = "answer" => h.id \in ServerId
    BY DEF Typed, TypeOK, Handler, HandlerShape, NoServer, ServerId
  \* Nothing is told and nothing is lost.
  <2>1. ASSUME \A s \in ServerId : servers[s].row # "unused" =>
                 servers'[s].row # "unused" /\ servers'[s].key = servers[s].key,
               UNCHANGED <<saved, lost>>,
               \A a \in Agent : pc'[a] = "save" =>
                 pc[a] = "save" /\ mem'[a] = mem[a],
               \A g \in handlers' : g.stage = "answer" => g \in handlers
        PROVE  ToldOnce'
    <3> DEFINE none == {}
    <3>1. /\ lost' = lost \cup none /\ none \subseteq ServerId
          /\ \A s \in none : FALSE
      BY <2>1
    <3> HIDE DEF none
    <3>2. \A g, h \in handlers' :
            g.stage = "answer" /\ h.stage = "answer" /\ g.id = h.id => g = h
      BY <2>1 DEF ToldOnce
    <3>3. \A g \in handlers' : g.stage = "answer" => \E h \in handlers :
            h.stage = "answer" /\ h.id = g.id /\ h.agent = g.agent
      BY <2>1
    <3>. QED BY <2>0, <2>1, <3>1, <3>2, <3>3, IdsStay
  <2>2. ASSUME NEW s \in ServerId, Revoke(s) \/ FallSilent(s) PROVE ToldOnce'
    <3>1. /\ UNCHANGED <<saved, lost, pc, mem, handlers>>
          /\ \A t \in ServerId : /\ servers'[t].key = servers[t].key
                                 /\ servers[t].row # "unused" =>
                                        servers'[t].row # "unused"
      BY <2>0, <2>2 DEF Revoke, FallSilent, agentVars, historyVars, Record
    <3>. QED BY <2>1, <3>1
  <2>3. ASSUME NEW h \in handlers, StoreHeartbeat(h) PROVE ToldOnce'
    <3>1. /\ UNCHANGED <<saved, lost, mem>>
          /\ servers' = [servers EXCEPT ![h.id] = Enrolled(@.key, @.token)]
          /\ \A g \in handlers' : g \in handlers
          /\ \A a \in Agent : pc'[a] = "save" => pc[a] = "save"
      BY <2>0, <2>3 DEF StoreHeartbeat, historyVars, Ended
    <3>2. \A t \in ServerId : servers[t].row # "unused" =>
            servers'[t].row # "unused" /\ servers'[t].key = servers[t].key
      BY <2>0, <3>1 DEF Enrolled
    <3>. QED BY <2>1, <3>1, <3>2
  <2>4. ASSUME NEW h \in handlers, Ended(h), Refused(h),
               lost' = lost \cup Untold(h), UNCHANGED <<servers, saved>>
        PROVE  ToldOnce'
    <3>1. \A a \in Agent : pc'[a] = "save" => pc[a] = "save" /\ mem'[a] = mem[a]
      BY <2>0, <2>4 DEF Refused, Exits
    <3>2. \A g \in handlers' : g \in handlers /\ g # h
      BY <2>4 DEF Ended
    <3>3. \A s \in Untold(h) : h.stage = "answer" /\ s = h.id
      BY DEF Untold
    <3>4. Untold(h) \subseteq ServerId
      BY <2>0, <3>3
    <3>5. \A s \in Untold(h) :
            /\ servers[s].row # "unused"
            /\ \A a \in Agent : saved[a] # s
            /\ \A a \in Agent : pc'[a] = "save" => mem'[a] # s
            /\ \A g \in handlers' : g.stage = "answer" => g.id # s
      BY <3>1, <3>2, <3>3, UntoldIds DEF ToldOnce
    <3>6. \A f, g \in handlers' :
            f.stage = "answer" /\ g.stage = "answer" /\ f.id = g.id => f = g
      BY <3>2 DEF ToldOnce
    <3>. QED BY <2>0, <2>4, <3>1, <3>2, <3>4, <3>5, <3>6, IdsStay
  <2>5. ASSUME NEW h \in handlers, HandlerFails(h) PROVE ToldOnce'
    BY <2>4, <2>5 DEF HandlerFails
  <2>6. ASSUME NEW h \in handlers, NEW g, g.stage # "answer", Moved(h, g),
               UNCHANGED <<servers, saved, lost, pc, mem>>
        PROVE  ToldOnce'
    BY <2>1, <2>6 DEF Moved
  <2>7. ASSUME NEW h \in handlers, Ended(h), Refused(h),
               UNCHANGED <<servers, saved, lost>>
        PROVE  ToldOnce'
    <3>1. \A a \in Agent : pc'[a] = "save" => pc[a] = "save" /\ mem'[a] = mem[a]
      BY <2>0, <2>7 DEF Refused, Exits
    <3>. QED BY <2>1, <2>7, <3>1 DEF Ended
  <2>8. ASSUME NEW h \in handlers, CheckToken(h) \/ VerifyAgent(h)
                                   \/ ConsumeTokenRefused(h)
        PROVE  ToldOnce'
    <3>1. /\ [h EXCEPT !.stage = "consume"].stage # "answer"
          /\ [h EXCEPT !.stage = "store"].stage # "answer"
      BY <2>0 DEF Handler
    <3>. QED BY <2>6, <2>7, <2>8, <3>1
         DEF CheckToken, VerifyAgent, ConsumeTokenRefused, historyVars
  <2>9. ASSUME NEW h \in handlers, ConsumeToken(h) PROVE ToldOnce'
    <3>1. PICK s \in ServerId :
            /\ Fresh(s)
            /\ servers' = [servers EXCEPT ![s] = Enrolled(h.agent, h.token)]
            /\ Moved(h, [h EXCEPT !.stage = "answer", !.id = s])
      BY <2>9 DEF ConsumeToken
    <3> DEFINE g == [h EXCEPT !.stage = "answer", !.id = s]
    <3>2. /\ g.stage = "answer" /\ g.id = s /\ g.agent = h.agent
          /\ handlers' = (handlers \ {h}) \cup {g}
          /\ UNCHANGED <<saved, pc, mem, lost>>
          /\ \A t \in ServerId \ {s} : servers'[t] = servers[t]
          /\ servers'[s].row # "unused" /\ servers[s].row = "unused"
      BY <2>0, <2>9, <3>1
      DEF Moved, ConsumeToken, agentVars, historyVars, Handler, Fresh, Enrolled
    <3> HIDE DEF g
    <3>3. /\ s \notin lost
          /\ \A a \in Agent : saved[a] # s /\ (pc[a] = "save" => mem[a] # s)
          /\ \A f \in handlers : f.stage = "answer" => f.id # s
      BY <2>0, <3>2, UntoldIds DEF ToldOnce, Owns
    <3>4. \A a \in Agent : saved'[a] # NoServer =>
            /\ servers'[saved'[a]].row # "unused"
            /\ servers'[saved'[a]].key = a /\ saved'[a] \notin lost'
      BY <2>0, <3>2, <3>3 DEF ToldOnce, Owns
    <3>5. \A a \in Agent : pc'[a] = "save" =>
            /\ servers'[mem'[a]].row # "unused"
            /\ servers'[mem'[a]].key = a /\ mem'[a] \notin lost'
      BY <2>0, <3>2, <3>3 DEF ToldOnce, Owns
    <3>6. \A t \in lost' : servers'[t].row # "unused"
      BY <2>0, <3>2, <3>3 DEF ToldOnce
    <3>7. ASSUME NEW f \in handlers', f.stage = "answer"
          PROVE  /\ f.id \notin lost' /\ saved'[f.agent] # f.id
                 /\ pc'[f.agent] = "save" => mem'[f.agent] # f.id
      <4>1. CASE f = g
        BY <2>0, <3>2, <3>3, <4>1
      <4>2. CASE f \in handlers
        BY <3>2, <3>7, <4>2 DEF ToldOnce
      <4>. QED BY <3>2, <4>1, <4>2
    <3>8. \A e, f \in handlers' :
            e.stage = "answer" /\ f.stage = "answer" /\ e.id = f.id => e = f
      BY <3>2, <3>3 DEF ToldOnce
    <3>. QED BY <3>4, <3>5, <3>6, <3>7, <3>8 DEF ToldOnce, Owns
  <2>10. ASSUME NEW h \in handlers, AnswerRegister(h) PROVE ToldOnce'
    <3>1. /\ h.stage = "answer" /\ handlers' = handlers \ {h} /\ h.id \in ServerId
          /\ servers[h.id].row # "unused" /\ servers[h.id].key = h.agent
          /\ UNCHANGED <<servers, saved>>
          /\ \A a \in Agent : saved[a] # h.id /\ (pc[a] = "save" => mem[a] # h.id)
      BY <2>10, UntoldIds DEF AnswerRegister, Ended
    <3>2. \A g \in handlers' : g.stage = "answer" => g.id # h.id
      BY <3>1 DEF ToldOnce
    <3>3. \A f, g \in handlers' :
            f.stage = "answer" /\ g.stage = "answer" /\ f.id = g.id => f = g
      BY <3>1 DEF ToldOnce
    <3>4. CASE ~Awaits(h)
      <4> DEFINE untold == {h.id}
      <4>1. /\ lost' = lost \cup untold /\ UNCHANGED <<pc, mem>>
            /\ untold \subseteq ServerId /\ \A s \in untold : s = h.id
        BY <2>10, <3>1, <3>4 DEF AnswerRegister, Untold
      <4> HIDE DEF untold
      <4>. QED BY <2>0, <3>1, <3>2, <3>3, <4>1, IdsStay
    <3>5. CASE Awaits(h)
      <4>1. /\ mem' = [mem EXCEPT ![h.agent] = h.id] /\ UNCHANGED lost
            /\ pc'  = [pc EXCEPT ![h.agent] = "save"]
        BY <2>10, <3>5 DEF AnswerRegister
      <4>2. \A a \in Agent : pc'[a] = "save" =>
              \/ a = h.agent /\ mem'[a] = h.id
              \/ a # h.agent /\ pc[a] = "save" /\ mem'[a] = mem[a]
        BY <2>0, <4>1
      <4>3. h.id \notin lost
        BY <3>1 DEF ToldOnce
      <4>4. \A a \in Agent : pc'[a] = "save" =>
              /\ servers'[mem'[a]].row # "unused"
            /\ servers'[mem'[a]].key = a /\ mem'[a] \notin lost'
        BY <3>1, <4>1, <4>2, <4>3 DEF ToldOnce, Owns
      <4>5. \A g \in handlers' : g.stage = "answer" =>
              /\ g \in handlers
              /\ pc'[g.agent] = "save" => mem'[g.agent] # g.id
        BY <2>0, <3>1, <3>2, <4>2 DEF ToldOnce
      <4>. QED BY <3>1, <3>3, <4>1, <4>4, <4>5 DEF ToldOnce, Owns
    <3>. QED BY <3>4, <3>5
  <2>11. ASSUME NEW a \in Agent, SaveIdentity(a) PROVE ToldOnce'
    <3>1. /\ pc[a] = "save" /\ pc' = [pc EXCEPT ![a] = "run"]
          /\ saved' = [saved EXCEPT ![a] = mem[a]]
          /\ UNCHANGED <<servers, handlers, mem, lost>>
      BY <2>11 DEF SaveIdentity, historyVars
    <3>2. Owns(a, mem[a]) /\ mem[a] \notin lost
      BY <3>1 DEF ToldOnce
    <3>3. \A h \in handlers : h.stage = "answer" => h.id # mem[a]
      BY <3>1, UntoldIds
    <3>. QED BY <2>0, <3>1, <3>2, <3>3 DEF ToldOnce, Owns
  <2>12. ASSUME NEW a \in Agent, NEW k, pc[a] = "down", Begins(a, k),
                UNCHANGED <<servers, saved, lost>>
         PROVE  ToldOnce'
    <3>1. \A b \in Agent : pc'[b] = "save" => pc[b] = "save" /\ mem'[b] = mem[b]
      BY <2>0, <2>12 DEF Begins
    <3>2. \A g \in handlers' : g.stage = "answer" => g \in handlers
      BY <2>12 DEF Begins, Asks
    <3>. QED BY <2>1, <2>12, <3>1, <3>2
  <2>13. ASSUME NEW a \in Agent, NEW k \in Token, Join(a, k) PROVE ToldOnce'
    BY <2>12, <2>13 DEF Join, historyVars
  <2>14. ASSUME NEW a \in Agent, AgentStart(a) PROVE ToldOnce'
    BY <2>12, <2>14 DEF AgentStart, historyVars
  <2>15. ASSUME NEW a \in Agent, SendHeartbeat(a) PROVE ToldOnce'
    <3>1. /\ pc' = [pc EXCEPT ![a] = "beat"]
          /\ UNCHANGED <<servers, saved, mem, lost>>
          /\ \A g \in handlers' : g.stage = "answer" => g \in handlers
      BY <2>15 DEF SendHeartbeat, Asks, historyVars
    <3>. QED BY <2>0, <2>1, <3>1
  <2>16. ASSUME NEW a \in Agent, GiveUp(a) \/ AgentCrash(a) PROVE ToldOnce'
    <3> DEFINE Late(h) == IF h.agent = a /\ Awaits(h)
                          THEN [h EXCEPT !.late = faults + 1] ELSE h
    <3>1. handlers' = {Late(h) : h \in handlers} /\ UNCHANGED <<servers, saved>>
      BY <2>16 DEF GiveUp, AgentCrash, Abandons, historyVars
    <3>2. \A h \in handlers : /\ Late(h).stage = h.stage /\ Late(h).id = h.id
                              /\ Late(h).agent = h.agent
      BY <2>0 DEF Handler
    <3> HIDE DEF Late
    <3>3. \A g \in handlers' : \E h \in handlers :
            g = Late(h) /\ h.stage = g.stage /\ h.id = g.id /\ h.agent = g.agent
      BY <3>1, <3>2
    <3>4. \A f, g \in handlers' :
            f.stage = "answer" /\ g.stage = "answer" /\ f.id = g.id => f = g
      BY <3>3 DEF ToldOnce
    <3>5. \A b \in Agent : pc'[b] = "save" =>
            b # a /\ pc[b] = "save" /\ mem'[b] = mem[b]
      BY <2>0, <2>16 DEF GiveUp, AgentCrash, Exits
    <3>6. PICK ids \in SUBSET ServerId :
            /\ lost' = lost \cup ids
            /\ \A s \in ids : pc[a] = "save" /\ s = mem[a]
      <4>1. CASE lost' = lost
        <5>1. {} \in SUBSET ServerId /\ lost' = lost \cup {}
          BY <4>1
        <5>. QED BY <5>1
      <4>2. CASE lost' # lost
        <5>1. pc[a] = "save" /\ lost' = lost \cup {mem[a]}
          BY <2>16, <4>2 DEF GiveUp, AgentCrash, historyVars
        <5>2. {mem[a]} \in SUBSET ServerId
          BY <2>0, <5>1
        <5>. QED BY <5>1, <5>2
      <4>. QED BY <4>1, <4>2
    <3>7. \A s \in ids :
            /\ servers[s].row # "unused"
            /\ \A b \in Agent : saved[b] # s
            /\ \A b \in Agent : pc'[b] = "save" => mem'[b] # s
            /\ \A g \in handlers' : g.stage = "answer" => g.id # s
      BY <3>3, <3>5, <3>6, UntoldIds
    <3>8. \A g \in handlers' : g.stage = "answer" => \E h \in handlers :
            h.stage = "answer" /\ h.id = g.id /\ h.agent = g.agent
      BY <3>3
    <3>. QED BY <2>0, <3>1, <3>4, <3>5, <3>6, <3>7, <3>8, IdsStay
  <2>17. CASE ControllerCrash
    <3> DEFINE untold == UNION {Untold(h) : h \in handlers}
    <3>1. /\ UNCHANGED <<servers, saved>> /\ lost' = lost \cup untold
          /\ handlers' = {}
          /\ \A b \in Agent : pc'[b] = "save" => pc[b] = "save" /\ mem'[b] = mem[b]
      BY <2>17 DEF ControllerCrash
    <3>2. \A s \in untold : \E h \in handlers : h.stage = "answer" /\ s = h.id
      BY DEF Untold
    <3> HIDE DEF untold
    <3>3. untold \subseteq ServerId
      BY <2>0, <3>2
    <3>4. \A s \in untold : /\ servers[s].row # "unused"
                            /\ \A b \in Agent : saved[b] # s
                            /\ \A b \in Agent : pc'[b] = "save" => mem'[b] # s
      BY <3>1, <3>2, UntoldIds
    <3>. QED BY <2>0, <3>1, <3>3, <3>4, IdsStay
  <2>18. CASE UNCHANGED <<servers, handlers, saved, mem, pc, lost>>
    BY <2>1, <2>18
  <2>. QED
    BY <2>2, <2>3, <2>5, <2>8, <2>9, <2>10, <2>11, <2>13, <2>14, <2>15, <2>16,
       <2>17, <2>18
    DEF Next, HandlerStep, AgentStep, IssueToken, ExpireToken,
        agentVars, historyVars, vars
<1>. QED BY <1>1, <1>2, IdentityKeptInvariant, TypedInvariant, PTL DEF Spec

---------------------------------------------------------------------------
(* A step of the registry is one step of Enrollment, or none.              *)
LEMMA StepImplementsEnrollment ==
    ASSUME Typed, IdentityKept, QuietForGood, ToldOnce, [Next]_vars
    PROVE  Protocol!Next \/ UNCHANGED Protocol!enrollmentVars
<1>. USE DEF Protocol!Next, Protocol!enrollmentVars
<1>0. /\ tokens \in [Token -> {"none", "fresh", "used", "expired"}]
      /\ servers \in [ServerId -> Record] /\ lost \subseteq ServerId
      /\ saved \in [Agent -> ServerId \cup {NoServer}]
      /\ mem \in [Agent -> ServerId \cup {NoServer}]
      /\ pc \in [Agent -> Place]
      /\ NoServer \notin ServerId /\ None \notin Agent
      /\ \A h \in handlers : h \in Handler /\ h.agent \in Agent
      /\ \A s \in quiet : servers[s].row = "removed"
  BY RegistryBounds
  DEF Typed, TypeOK, Handler, NoServer, ServerId, QuietForGood
\* Nothing outside the handlers and the processes changes.
<1>1. CASE UNCHANGED <<tokens, servers, saved, lost, quiet>>
  BY <1>1 DEF Standing
\* Some IDs are told to nobody.
<1>2. ASSUME NEW untold \in SUBSET ServerId, lost' = lost \cup untold,
             \A s \in untold : /\ servers[s].row # "unused"
                               /\ \A a \in Agent : saved[a] # s,
             UNCHANGED <<tokens, servers, saved, quiet>>
      PROVE  Protocol!Next
  <2>1. \A s \in untold : servers[s].key \in Agent
    BY <1>2 DEF Typed, Owned
  <2>2. Protocol!Forget(untold)
    BY <1>0, <1>2, <2>1 DEF Protocol!Forget, Standing
  <2>. QED BY <2>2
<1>3. ASSUME NEW k \in Token, IssueToken(k) \/ ExpireToken(k)
      PROVE  Protocol!Next
  <2>1. Protocol!Issue(k) \/ Protocol!Expire(k)
    BY <1>3 DEF IssueToken, ExpireToken, Protocol!Issue, Protocol!Expire,
                agentVars, historyVars, Standing
  <2>. QED BY <2>1
<1>4. ASSUME NEW s \in ServerId, Revoke(s) PROVE Protocol!Next
  <2>1. /\ servers[s].row = "stored"
        /\ servers' = [servers EXCEPT ![s].row = "removed"]
        /\ \A t \in ServerId \ {s} : t \in quiet' <=> t \in quiet
        /\ UNCHANGED <<tokens, saved, lost>>
    BY <1>4 DEF Revoke, Stored, agentVars
  <2>2. /\ \A t \in ServerId : /\ servers'[t].key = servers[t].key
                               /\ servers'[t].token = servers[t].token
        /\ \A t \in ServerId \ {s} : servers'[t] = servers[t]
        /\ servers'[s].row = "removed"
    BY <1>0, <2>1 DEF Record
  <2> DEFINE gone == IF s \in quiet' THEN "revoked" ELSE "removed"
  <2>3. /\ [t \in ServerId |-> Standing(t)]'
             = [[t \in ServerId |-> Standing(t)] EXCEPT ![s] = gone]
        /\ Standing(s) = "stored" /\ gone \in {"removed", "revoked"}
    <3>1. \A t \in ServerId :
            Standing(t)' = IF t = s THEN gone ELSE Standing(t)
      BY <2>1, <2>2 DEF Standing
    <3>2. Standing(s) = "stored"
      BY <2>1 DEF Standing
    <3>. QED BY <3>1, <3>2
  <2> HIDE DEF gone
  <2>4. Protocol!Remove(s)
    <3>1. /\ [t \in ServerId |-> Standing(t)][s] = "stored"
          /\ UNCHANGED <<tokens, [t \in ServerId |-> servers[t].key],
                         [t \in ServerId |-> servers[t].token], saved, lost>>
      BY <2>1, <2>2, <2>3
    <3>. QED BY <2>3, <3>1 DEF Protocol!Remove
  <2>. QED BY <2>4
<1>5. ASSUME NEW s \in ServerId, FallSilent(s)
      PROVE  UNCHANGED Protocol!enrollmentVars
  <2>1. /\ \A t \in ServerId : /\ servers'[t].key = servers[t].key
                               /\ servers'[t].token = servers[t].token
                               /\ servers'[t].row = servers[t].row
        /\ UNCHANGED <<tokens, saved, lost, quiet>>
    BY <1>0, <1>5 DEF FallSilent, Record, agentVars, historyVars
  <2>. QED BY <2>1 DEF Standing
<1>6. ASSUME NEW h \in handlers, StoreHeartbeat(h)
      PROVE  Protocol!Next \/ UNCHANGED Protocol!enrollmentVars
  <2>1. /\ h.id \in ServerId /\ h.id \notin quiet
        /\ servers[h.id].row \in {"stored", "removed"}
        /\ servers' = [servers EXCEPT ![h.id] = Enrolled(@.key, @.token)]
        /\ UNCHANGED <<tokens, saved, lost, quiet>>
    BY <1>0, <1>6
    DEF StoreHeartbeat, historyVars, Typed, HandlerShape, Owned, QuietForGood,
        Record
  <2>2. /\ \A t \in ServerId : /\ servers'[t].key = servers[t].key
                               /\ servers'[t].token = servers[t].token
        /\ \A t \in ServerId \ {h.id} : servers'[t] = servers[t]
        /\ servers'[h.id].row = "stored"
    BY <1>0, <2>1 DEF Enrolled, Record
  <2>3. CASE servers[h.id].row = "stored"
    <3>1. \A t \in ServerId : servers'[t].row = servers[t].row
      BY <2>2, <2>3
    <3>. QED BY <2>1, <2>2, <3>1 DEF Standing
  <2>4. CASE servers[h.id].row = "removed"
    <3>1. /\ [t \in ServerId |-> Standing(t)]'
               = [[t \in ServerId |-> Standing(t)] EXCEPT ![h.id] = "stored"]
          /\ Standing(h.id) = "removed"
      <4>1. \A t \in ServerId :
              Standing(t)' = IF t = h.id THEN "stored" ELSE Standing(t)
        BY <2>1, <2>2 DEF Standing
      <4>2. Standing(h.id) = "removed"
        BY <2>1, <2>4 DEF Standing
      <4>. QED BY <2>1, <4>1, <4>2
    <3>2. Protocol!Restore(h.id)
      BY <2>1, <2>2, <3>1 DEF Protocol!Restore
    <3>. QED BY <2>1, <3>2
  <2>. QED BY <2>1, <2>3, <2>4
<1>7. ASSUME NEW h \in handlers, ConsumeToken(h) PROVE Protocol!Next
  <2>1. PICK s \in ServerId :
          /\ Fresh(s)
          /\ servers' = [servers EXCEPT ![s] = Enrolled(h.agent, h.token)]
    BY <1>7 DEF ConsumeToken
  <2>2. /\ h.token \in Token /\ tokens[h.token] = "fresh"
        /\ tokens' = [tokens EXCEPT ![h.token] = "used"]
        /\ UNCHANGED <<saved, lost, quiet>>
    BY <1>7 DEF ConsumeToken, agentVars, historyVars, Typed, HandlerShape
  <2>3. /\ servers[s].row = "unused"
        /\ \A t \in ServerId : servers'[t] =
              IF t = s THEN Enrolled(h.agent, h.token) ELSE servers[t]
    BY <1>0, <2>1 DEF Fresh
  <2>4. /\ servers'[s].key = h.agent /\ servers'[s].token = h.token
        /\ servers'[s].row = "stored"
    BY <2>3 DEF Enrolled
  <2>5. /\ [t \in ServerId |-> servers'[t].key]
             = [[t \in ServerId |-> servers[t].key] EXCEPT ![s] = h.agent]
        /\ [t \in ServerId |-> servers'[t].token]
             = [[t \in ServerId |-> servers[t].token] EXCEPT ![s] = h.token]
    BY <2>3, <2>4
  <2>6. /\ [t \in ServerId |-> Standing(t)]'
             = [[t \in ServerId |-> Standing(t)] EXCEPT ![s] = "stored"]
        /\ Standing(s) = "unused"
    BY <2>2, <2>3, <2>4 DEF Standing
  <2>7. Protocol!Enroll(h.agent, h.token, s)
    BY <2>2, <2>5, <2>6 DEF Protocol!Enroll
  <2>. QED BY <1>0, <2>2, <2>7
<1>8. ASSUME NEW h \in handlers, AnswerRegister(h)
      PROVE  Protocol!Next \/ UNCHANGED Protocol!enrollmentVars
  <2>1. UNCHANGED <<tokens, servers, saved, quiet>> /\ h.stage = "answer"
    BY <1>8 DEF AnswerRegister
  <2>2. CASE Awaits(h)
    BY <1>1, <1>8, <2>1, <2>2 DEF AnswerRegister
  <2>3. CASE ~Awaits(h)
    <3> DEFINE untold == {h.id}
    <3>1. lost' = lost \cup untold
      BY <1>8, <2>1, <2>3 DEF AnswerRegister, Untold
    <3>2. /\ untold \in SUBSET ServerId
          /\ \A s \in untold : /\ servers[s].row # "unused"
                               /\ \A a \in Agent : saved[a] # s
      BY <2>1, UntoldIds
    <3> HIDE DEF untold
    <3>. QED BY <1>2, <2>1, <3>1, <3>2
  <2>. QED BY <2>2, <2>3
<1>9. ASSUME NEW h \in handlers, HandlerFails(h)
      PROVE  Protocol!Next \/ UNCHANGED Protocol!enrollmentVars
  <2>1. /\ UNCHANGED <<tokens, servers, saved, quiet>>
        /\ lost' = lost \cup Untold(h)
    BY <1>9 DEF HandlerFails
  <2>2. CASE h.stage = "answer"
    <3> DEFINE untold == {h.id}
    <3>1. lost' = lost \cup untold
      BY <2>1, <2>2 DEF Untold
    <3>2. /\ untold \in SUBSET ServerId
          /\ \A s \in untold : /\ servers[s].row # "unused"
                               /\ \A a \in Agent : saved[a] # s
      BY <2>2, UntoldIds
    <3> HIDE DEF untold
    <3>. QED BY <1>2, <2>1, <3>1, <3>2
  <2>3. CASE h.stage # "answer"
    BY <1>1, <2>1, <2>3 DEF Untold
  <2>. QED BY <2>2, <2>3
<1>10. ASSUME NEW a \in Agent, SaveIdentity(a) PROVE Protocol!Next
  <2>1. /\ saved[a] = NoServer /\ mem[a] \in ServerId
        /\ servers[mem[a]].key = a /\ mem[a] \notin lost
    BY <1>10, UntoldIds DEF SaveIdentity, IdentityKept, ToldOnce
  <2>2. /\ saved' = [saved EXCEPT ![a] = mem[a]]
        /\ UNCHANGED <<tokens, servers, lost, quiet>>
    BY <1>10 DEF SaveIdentity, historyVars
  <2>3. Protocol!Learn(a, mem[a])
    BY <2>1, <2>2 DEF Protocol!Learn, Standing
  <2>. QED BY <2>1, <2>3
<1>11. ASSUME NEW a \in Agent, AgentCrash(a)
       PROVE  Protocol!Next \/ UNCHANGED Protocol!enrollmentVars
  <2>1. UNCHANGED <<tokens, servers, saved, quiet>>
    BY <1>11 DEF AgentCrash
  <2>2. CASE pc[a] = "save"
    <3> DEFINE untold == {mem[a]}
    <3>1. lost' = lost \cup untold
      BY <1>11, <2>2 DEF AgentCrash
    <3>2. /\ untold \in SUBSET ServerId
          /\ \A s \in untold : /\ servers[s].row # "unused"
                               /\ \A b \in Agent : saved[b] # s
      BY <2>2, UntoldIds
    <3> HIDE DEF untold
    <3>. QED BY <1>2, <2>1, <3>1, <3>2
  <2>3. CASE pc[a] # "save"
    BY <1>1, <1>11, <2>1, <2>3 DEF AgentCrash
  <2>. QED BY <2>2, <2>3
<1>12. CASE ControllerCrash
  <2> DEFINE untold == UNION {Untold(h) : h \in handlers}
  <2>1. /\ UNCHANGED <<tokens, servers, saved, quiet>>
        /\ lost' = lost \cup untold
        /\ \A s \in untold : \E h \in handlers : h.stage = "answer" /\ s = h.id
    BY <1>12 DEF ControllerCrash, Untold
  <2> HIDE DEF untold
  <2>2. /\ untold \in SUBSET ServerId
        /\ \A s \in untold : /\ servers[s].row # "unused"
                             /\ \A a \in Agent : saved[a] # s
    BY <2>1, UntoldIds
  <2>. QED BY <1>2, <2>1, <2>2
<1>13. ASSUME NEW h \in handlers,
              CheckToken(h) \/ ConsumeTokenRefused(h) \/ VerifyAgent(h)
       PROVE  UNCHANGED <<tokens, servers, saved, lost, quiet>>
  BY <1>13 DEF CheckToken, ConsumeTokenRefused, VerifyAgent, historyVars
<1>14. ASSUME NEW a \in Agent,
              \/ \E k \in Token : Join(a, k)
              \/ AgentStart(a) \/ SendHeartbeat(a) \/ GiveUp(a)
       PROVE  UNCHANGED <<tokens, servers, saved, lost, quiet>>
  BY <1>14 DEF Join, AgentStart, SendHeartbeat, GiveUp, historyVars
<1>15. CASE UNCHANGED vars
  BY <1>1, <1>15 DEF vars
<1>16. CASE Next
  <2>1. CASE \E k \in Token : IssueToken(k) \/ ExpireToken(k)
    BY <1>3, <2>1
  <2>2. CASE \E s \in ServerId : Revoke(s) \/ FallSilent(s)
    BY <1>4, <1>5, <2>2
  <2>3. CASE \E a \in Agent : \/ \E k \in Token : Join(a, k)
                              \/ AgentStart(a) \/ AgentStep(a)
                              \/ GiveUp(a) \/ AgentCrash(a)
    BY <1>1, <1>10, <1>11, <1>14, <2>3 DEF AgentStep
  <2>4. CASE \E h \in handlers : HandlerStep(h) \/ HandlerFails(h)
    BY <1>1, <1>6, <1>7, <1>8, <1>9, <1>13, <2>4 DEF HandlerStep
  <2>. QED BY <1>12, <1>16, <2>1, <2>2, <2>3, <2>4 DEF Next
<1>. QED BY <1>15, <1>16

(* To the operator and the machines, enrolling is one step: a machine that *)
(* was told its ID is never told another one, no record changes hands, and *)
(* what a crash or a lost answer made nobody's ID stays nobody's.          *)
THEOREM RegistryImplementsEnrollment == Spec => ImplementsEnrollment
<1>1. Init => Protocol!Init
  BY DEF Init, Unused, Standing, Protocol!Init
<1>2. Typed /\ IdentityKept /\ QuietForGood /\ ToldOnce /\ [Next]_vars
        => [Protocol!Next]_(Protocol!enrollmentVars)
  BY StepImplementsEnrollment
<1>. QED BY <1>1, <1>2, TypedInvariant, IdentityKeptInvariant,
            QuietForGoodInvariant, ToldOnceInvariant, PTL
         DEF Spec, ImplementsEnrollment, Protocol!Spec
=============================================================================
