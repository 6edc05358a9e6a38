---------------------------- MODULE AgentRegistry ----------------------------
(***************************************************************************)
(* Who is a server: single-use enrollment tokens, the records of remote    *)
(* servers, their revocation, and the identity an Agent keeps on disk      *)
(* (internal/api/server.go: enrollment, agentRegister, verifyAgent and the *)
(* heartbeat of agentAPI, DELETE in serverAPI, servers, enqueueAction,     *)
(* batchAction and batchPreflight where they read the record;              *)
(* internal/storage/store.go: the servers and enrollments tables;          *)
(* internal/agent/agent.go: New, register, saveIdentity; cmd/sb-web: join).*)
(*                                                                         *)
(* Every handler reads the database in one step and writes it in another,  *)
(* and others run in between; only ConsumeEnrollment is one transaction.   *)
(* The Agent, the operator at its machine, the controller and the clock    *)
(* are independent of each other.                                          *)
(***************************************************************************)
EXTENDS Integers

CONSTANTS
    Agent,         \* managed machines; each has one Ed25519 key
    Token,         \* enrollment tokens
    None,          \* no token, no machine
    MaxServers,    \* bound: records that are inserted
    MaxFaults      \* bound: crashes, lost answers and failed calls

ASSUME RegistryBounds ==
    /\ None \notin Agent \cup Token
    /\ MaxServers \in Nat \ {0} /\ MaxFaults \in Nat

ServerId == 1 .. MaxServers
NoServer == 0

VARIABLES
    tokens,     \* the enrollments table
    servers,    \* the servers table, without the record of "local"
    handlers,   \* requests the controller is at work on
    config,     \* Agent -> agent.enrollment_token of its configuration
    saved,      \* Agent -> the server ID in its identity file
    mem,        \* Agent -> the server ID its process has
    pc,         \* Agent -> where its process is
    lost,       \* history: records whose Agent was not told their ID
    quiet,      \* history: records removed while no heartbeat of theirs
                \* was being handled
    faults

vars == <<tokens, servers, handlers, config, saved, mem, pc,
          lost, quiet, faults>>
agentVars   == <<config, saved, mem, pc>>
historyVars == <<lost, quiet>>

(* "removed" is a row that is there no longer.                             *)
Record  == [row : {"unused", "stored", "removed"}, key : Agent \cup {None},
            token : Token \cup {None}, online : BOOLEAN,
            seen : {"recently", "longAgo"}]
Unused  == [row |-> "unused", key |-> None, token |-> None,
            online |-> FALSE, seen |-> "longAgo"]
Enrolled(a, k) == [row |-> "stored", key |-> a, token |-> k,
                   online |-> TRUE, seen |-> "recently"]

(* A handler: "check" and "consume" of agentRegister, which has an ID when *)
(* it comes to "answer"; "verify" and "store" of a heartbeat.  "late" is   *)
(* 0 as long as the Agent waits for the answer.                            *)
Stage   == {"check", "consume", "answer", "verify", "store"}
Handler == [agent : Agent, late : 0 .. MaxFaults, stage : Stage,
            token : Token \cup {None}, id : ServerId \cup {NoServer}]
Place   == {"down", "register", "save", "run", "beat"}

Init ==
    /\ tokens   = [k \in Token |-> "none"]
    /\ servers  = [s \in ServerId |-> Unused]
    /\ handlers = {}
    /\ config   = [a \in Agent |-> None]
    /\ saved    = [a \in Agent |-> NoServer]
    /\ mem      = [a \in Agent |-> NoServer]
    /\ pc       = [a \in Agent |-> "down"]
    /\ lost = {} /\ quiet = {}
    /\ faults = 0

---------------------------------------------------------------------------
Stored(s)   == servers[s].row = "stored"
Fresh(s)    == servers[s].row = "unused" /\ \A t \in ServerId :
                  t < s => servers[t].row # "unused"
Awaits(h)   == h.late = 0
Moved(h, g) == handlers' = (handlers \ {h}) \cup {g}
Ended(h)    == handlers' = handlers \ {h}
Exits(a)    == /\ pc'  = [pc EXCEPT ![a] = "down"]
               /\ mem' = [mem EXCEPT ![a] = NoServer]

(* The Agent of h is not told: its answer is an error, or nobody reads it. *)
Untold(h) == IF h.stage = "answer" THEN {h.id} ELSE {}

---------------------------------------------------------------------------
(* Mutated forms of the actions, used only to test the properties.         *)

ConsumeWithoutRecheck(h) ==
    /\ h.stage = "consume"
    /\ \E s \in ServerId :
         /\ Fresh(s)
         /\ servers' = [servers EXCEPT ![s] = Enrolled(h.agent, h.token)]
         /\ Moved(h, [h EXCEPT !.stage = "answer", !.id = s])
    /\ tokens' = [tokens EXCEPT ![h.token] = "used"]
    /\ UNCHANGED <<agentVars, historyVars, faults>>

SaveInMemoryOnly(a) ==
    /\ pc[a] = "save"
    /\ pc' = [pc EXCEPT ![a] = "run"]
    /\ config' = [config EXCEPT ![a] = None]
    /\ UNCHANGED <<tokens, servers, handlers, saved, mem,
                   historyVars, faults>>

VerifiedOnceKnown(h) ==
    h.id # NoServer /\ servers[h.id].key = h.agent

StoreKeepsLastSeen(h) ==
    /\ h.stage = "store"
    /\ servers' = [servers EXCEPT ![h.id].row = "stored"]
    /\ Ended(h)
    /\ pc' = IF Awaits(h) THEN [pc EXCEPT ![h.agent] = "run"] ELSE pc
    /\ UNCHANGED <<tokens, config, saved, mem, historyVars, faults>>

ConsumeForgetsServer(h) ==
    /\ h.stage = "consume" /\ tokens[h.token] = "fresh"
    /\ tokens' = [tokens EXCEPT ![h.token] = "used"]
    /\ Ended(h)
    /\ IF Awaits(h) THEN Exits(h.agent) ELSE UNCHANGED <<pc, mem>>
    /\ UNCHANGED <<servers, config, saved, historyVars, faults>>

---------------------------------------------------------------------------
(* The operator at the panel, and the clock                                *)

(* enrollment: a new token, valid for ten minutes.                         *)
IssueToken(k) ==
    /\ tokens[k] = "none"
    /\ tokens' = [tokens EXCEPT ![k] = "fresh"]
    /\ UNCHANGED <<servers, handlers, agentVars, historyVars, faults>>

ExpireToken(k) ==
    /\ tokens[k] = "fresh"
    /\ tokens' = [tokens EXCEPT ![k] = "expired"]
    /\ UNCHANGED <<servers, handlers, agentVars, historyVars, faults>>

(* DELETE /api/v1/servers/{id}.                                            *)
Revoke(s) ==
    /\ Stored(s)
    /\ servers' = [servers EXCEPT ![s].row = "removed"]
    /\ quiet' = IF \E h \in handlers : h.stage = "store" /\ h.id = s
                THEN quiet ELSE quiet \cup {s}
    /\ UNCHANGED <<tokens, handlers, agentVars, lost, faults>>

(* LastSeen is more than two minutes ago: the list of servers shows the    *)
(* server offline.  Online in the record is not touched.                   *)
FallSilent(s) ==
    /\ Stored(s) /\ servers[s].seen = "recently"
    /\ servers' = [servers EXCEPT ![s].seen = "longAgo"]
    /\ UNCHANGED <<tokens, handlers, agentVars, historyVars, faults>>

---------------------------------------------------------------------------
(* The Agent's machine                                                     *)

Asks(a, stage, k, s) ==
    handlers' = handlers \cup
        {[agent |-> a, late |-> 0, stage |-> stage, token |-> k, id |-> s]}

(* A mutated form of Begins: join registers although there is an ID.       *)
BeginsAnew(a, k) ==
    /\ mem' = [mem EXCEPT ![a] = IF k = None THEN saved[a] ELSE NoServer]
    /\ IF k = None
       THEN /\ saved[a] # NoServer
            /\ pc' = [pc EXCEPT ![a] = "run"] /\ UNCHANGED handlers
       ELSE /\ pc' = [pc EXCEPT ![a] = "register"]
            /\ Asks(a, "check", k, NoServer)

(* New loads the identity; Register has nothing to do if it has an ID.     *)
Begins(a, k) ==
    /\ mem' = [mem EXCEPT ![a] = saved[a]]
    /\ IF saved[a] # NoServer
       THEN pc' = [pc EXCEPT ![a] = "run"] /\ UNCHANGED handlers
       ELSE /\ k # None
            /\ pc' = [pc EXCEPT ![a] = "register"]
            /\ Asks(a, "check", k, NoServer)

(* "sb-web join" with a token the operator was shown.                      *)
Join(a, k) ==
    /\ pc[a] = "down" /\ tokens[k] # "none"
    /\ config' = [config EXCEPT ![a] = k]
    /\ Begins(a, k)
    /\ UNCHANGED <<tokens, servers, saved, historyVars, faults>>

(* The service, started by join or by its supervisor.                      *)
AgentStart(a) ==
    /\ pc[a] = "down"
    /\ Begins(a, config[a])
    /\ UNCHANGED <<tokens, servers, config, saved, historyVars, faults>>

(* saveIdentity writes a temporary file and renames it; join then clears   *)
(* the token in the configuration.                                         *)
SaveIdentity(a) ==
    /\ pc[a] = "save"
    /\ pc' = [pc EXCEPT ![a] = "run"]
    /\ saved' = [saved EXCEPT ![a] = mem[a]]
    /\ config' = [config EXCEPT ![a] = None]
    /\ UNCHANGED <<tokens, servers, handlers, mem, historyVars, faults>>

SendHeartbeat(a) ==
    /\ pc[a] = "run"
    /\ pc' = [pc EXCEPT ![a] = "beat"]
    /\ Asks(a, "verify", None, mem[a])
    /\ UNCHANGED <<tokens, servers, config, saved, mem, historyVars,
                   faults>>

---------------------------------------------------------------------------
(* The controller's handlers                                               *)

(* The answer is an error: register makes the process exit, a heartbeat    *)
(* that failed is tried again at the next tick.                            *)
Refused(h) ==
    IF ~Awaits(h) THEN UNCHANGED <<pc, mem>>
    ELSE IF pc[h.agent] = "register" THEN Exits(h.agent)
         ELSE pc' = [pc EXCEPT ![h.agent] = "run"] /\ UNCHANGED mem

(* agentRegister, GetEnrollment.                                           *)
CheckToken(h) ==
    /\ h.stage = "check"
    /\ IF tokens[h.token] = "fresh"
       THEN Moved(h, [h EXCEPT !.stage = "consume"]) /\ UNCHANGED <<pc, mem>>
       ELSE Ended(h) /\ Refused(h)
    /\ UNCHANGED <<tokens, servers, config, saved, historyVars, faults>>

(* ConsumeEnrollment: the token is used and the record inserted, or        *)
(* neither.                                                                *)
ConsumeToken(h) ==
    /\ h.stage = "consume" /\ tokens[h.token] = "fresh"
    /\ \E s \in ServerId :
         /\ Fresh(s)
         /\ servers' = [servers EXCEPT ![s] = Enrolled(h.agent, h.token)]
         /\ Moved(h, [h EXCEPT !.stage = "answer", !.id = s])
    /\ tokens' = [tokens EXCEPT ![h.token] = "used"]
    /\ UNCHANGED <<agentVars, historyVars, faults>>
ConsumeTokenRefused(h) ==
    /\ h.stage = "consume" /\ tokens[h.token] # "fresh"
    /\ Ended(h) /\ Refused(h)
    /\ UNCHANGED <<tokens, servers, config, saved, historyVars, faults>>

(* The response with the server ID.                                        *)
AnswerRegister(h) ==
    /\ h.stage = "answer"
    /\ Ended(h)
    /\ IF Awaits(h)
       THEN /\ mem' = [mem EXCEPT ![h.agent] = h.id]
            /\ pc'  = [pc EXCEPT ![h.agent] = "save"]
            /\ UNCHANGED lost
       ELSE lost' = lost \cup Untold(h) /\ UNCHANGED <<pc, mem>>
    /\ UNCHANGED <<tokens, servers, config, saved, quiet, faults>>

(* The next call of a handler fails: a statement of the database, or       *)
(* issueAgentCertificate although the record is stored.                    *)
HandlerFails(h) ==
    /\ faults < MaxFaults
    /\ faults' = faults + 1
    /\ Ended(h) /\ Refused(h)
    /\ lost' = lost \cup Untold(h)
    /\ UNCHANGED <<tokens, servers, config, saved, quiet>>

(* verifyAgent: the record and its public key, read before anything else.  *)
Verified(h) == Stored(h.id) /\ servers[h.id].key = h.agent
VerifyAgent(h) ==
    /\ h.stage = "verify"
    /\ IF Verified(h)
       THEN Moved(h, [h EXCEPT !.stage = "store"]) /\ UNCHANGED <<pc, mem>>
       ELSE Ended(h) /\ Refused(h)
    /\ UNCHANGED <<tokens, servers, config, saved, historyVars, faults>>

(* PutServer of the record that verifyAgent read, as of now: an INSERT if  *)
(* the row is gone.                                                        *)
StoreHeartbeat(h) ==
    /\ h.stage = "store"
    /\ servers' = [servers EXCEPT ![h.id] = Enrolled(@.key, @.token)]
    /\ Ended(h)
    /\ pc' = IF Awaits(h) THEN [pc EXCEPT ![h.agent] = "run"] ELSE pc
    /\ UNCHANGED <<tokens, config, saved, mem, historyVars, faults>>

---------------------------------------------------------------------------
(* Faults                                                                  *)

(* Nobody waits for the requests of a any more.                            *)
Abandons(a) == handlers' =
    {IF h.agent = a /\ Awaits(h) THEN [h EXCEPT !.late = faults + 1] ELSE h :
        h \in handlers}

(* A request times out or its connection breaks.                           *)
GiveUp(a) ==
    /\ pc[a] \in {"register", "beat"} /\ faults < MaxFaults
    /\ faults' = faults + 1
    /\ Abandons(a)
    /\ IF pc[a] = "register" THEN Exits(a)
       ELSE pc' = [pc EXCEPT ![a] = "run"] /\ UNCHANGED mem
    /\ UNCHANGED <<tokens, servers, config, saved, historyVars>>

(* The Agent crashes, or cannot save its identity.                         *)
AgentCrash(a) ==
    /\ pc[a] # "down" /\ faults < MaxFaults
    /\ faults' = faults + 1
    /\ Abandons(a)
    /\ Exits(a)
    /\ lost' = IF pc[a] = "save" THEN lost \cup {mem[a]} ELSE lost
    /\ UNCHANGED <<tokens, servers, config, saved, quiet>>

(* The controller crashes and is started again: its handlers are gone and  *)
(* the Agents that wait for them see an error.                             *)
ControllerCrash ==
    /\ handlers # {} /\ faults < MaxFaults
    /\ faults' = faults + 1
    /\ handlers' = {}
    /\ lost' = lost \cup UNION {Untold(h) : h \in handlers}
    /\ pc' = [a \in Agent |-> IF pc[a] = "register" THEN "down"
                              ELSE IF pc[a] = "beat" THEN "run" ELSE pc[a]]
    /\ mem' = [a \in Agent |-> IF pc[a] = "register" THEN NoServer ELSE mem[a]]
    /\ UNCHANGED <<tokens, servers, config, saved, quiet>>

---------------------------------------------------------------------------
HandlerStep(h) ==
    \/ CheckToken(h)
    \/ ConsumeToken(h)
    \/ ConsumeTokenRefused(h)
    \/ AnswerRegister(h)
    \/ VerifyAgent(h)
    \/ StoreHeartbeat(h)

AgentStep(a) == SaveIdentity(a) \/ SendHeartbeat(a)

Next ==
    \/ \E k \in Token : IssueToken(k) \/ ExpireToken(k)
    \/ \E s \in ServerId : Revoke(s) \/ FallSilent(s)
    \/ \E a \in Agent :
         \/ \E k \in Token : Join(a, k)
         \/ AgentStart(a)
         \/ AgentStep(a)
         \/ GiveUp(a)
         \/ AgentCrash(a)
    \/ \E h \in handlers : HandlerStep(h) \/ HandlerFails(h)
    \/ ControllerCrash

Spec == Init /\ [][Next]_vars

(* A handler runs to its end, a process goes on, the supervisor starts the *)
(* service again.  Nothing forces the operator, the clock or a fault.      *)
Fairness ==
    /\ \A a \in Agent :
         /\ WF_vars(AgentStep(a))
         /\ WF_vars(saved[a] # NoServer /\ AgentStart(a))
    /\ \A a \in Agent, n \in 0 .. MaxFaults :
         WF_vars(\E h \in handlers : h.agent = a /\ h.late = n /\ HandlerStep(h))

FairSpec == Spec /\ Fairness

---------------------------------------------------------------------------
(* Properties                                                              *)

(* The variables hold the values the code can give them; a process has an  *)
(* ID exactly from the answer to its registration on, and it waits for one *)
(* request at most.                                                        *)
TypeOK ==
    /\ tokens \in [Token -> {"none", "fresh", "used", "expired"}]
    /\ servers \in [ServerId -> Record]
    /\ \A h \in handlers : h \in Handler
    /\ config \in [Agent -> Token \cup {None}]
    /\ saved \in [Agent -> ServerId \cup {NoServer}]
    /\ mem \in [Agent -> ServerId \cup {NoServer}]
    /\ pc \in [Agent -> Place]
    /\ \A a \in Agent :
         /\ mem[a] # NoServer <=> pc[a] \in {"save", "run", "beat"}
         /\ pc[a] \in {"register", "beat"} <=>
                \E h \in handlers : h.agent = a /\ Awaits(h)
    /\ \A g, h \in handlers :
         Awaits(g) /\ Awaits(h) /\ g.agent = h.agent => g = h
    /\ lost \subseteq ServerId /\ quiet \subseteq ServerId
    /\ faults \in 0 .. MaxFaults

(* docs/ARCHITECTURE.md: a "single-use enrollment token".  Registrations   *)
(* of one machine or of several that check the same token at the same time *)
(* never make a second record with it.                                     *)
OneServerPerToken == \A s, t \in ServerId :
    s # t /\ servers[s].token = servers[t].token => servers[s].token = None

(* "a stable server ID": a machine that is told its ID keeps it over       *)
(* crashes and further joins.  Every record that was ever inserted is the  *)
(* one in its machine's identity file, or about to be, unless the answer   *)
(* with the ID was lost.                                                   *)
RecordIsKnown == \A s \in ServerId \ lost :
    servers[s].row # "unused" =>
        \/ saved[servers[s].key] = s
        \/ pc[servers[s].key] = "save" /\ mem[servers[s].key] = s
        \/ \E h \in handlers : h.stage = "answer" /\ h.id = s

(* A record that was removed while no heartbeat of its Agent had been      *)
(* verified stays removed, although the Agent goes on sending heartbeats   *)
(* and each of them stores a record.                                       *)
QuietRevocationHolds == \A s \in quiet : servers[s].row = "removed"

(* A token that was used up has enrolled a machine that knows its ID, or   *)
(* the answer was lost.                                                    *)
UsedTokenEnrolls == \A k \in Token :
    tokens[k] = "used" ~>
        \E s \in ServerId : /\ servers[s].token = k
                            /\ saved[servers[s].key] = s \/ s \in lost

(* A machine that has the ID of a stored record is shown online again,     *)
(* after crashes of both sides and failed heartbeats, unless it is revoked.*)
KnownAgentIsSeen == \A a \in Agent, s \in ServerId :
    saved[a] = s /\ Stored(s) ~> servers[s].seen = "recently" \/ ~Stored(s)

(* To its outside the registration, its two transactions, its answer and   *)
(* the identity file are one step that makes a record and one that tells   *)
(* its machine: no machine ever exchanges its ID for another one or takes  *)
(* that of another machine, no record changes hands, and an ID whose       *)
(* answer was lost is not told later, by whatever request.                 *)
Standing(s) ==
    IF servers[s].row = "removed" /\ s \in quiet THEN "revoked"
    ELSE servers[s].row
Protocol == INSTANCE Enrollment WITH
    Machine <- Agent, Server <- ServerId,
    NoMachine <- None, NoToken <- None,
    owner    <- [s \in ServerId |-> servers[s].key],
    madeWith <- [s \in ServerId |-> servers[s].token],
    standing <- [s \in ServerId |-> Standing(s)],
    identity <- saved, forgotten <- lost
ImplementsEnrollment == Protocol!Spec
=============================================================================
