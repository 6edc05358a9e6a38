------------------------- MODULE AgentCertificates -------------------------
(***************************************************************************)
(* Mutual TLS between the panel and the Agents (internal/api/mtls.go;      *)
(* internal/agent/agent.go: New, register, saveIdentity, configureTLS,     *)
(* maybeRotateCertificate; cmd/sb-web/main.go: serve, initialize).         *)
(*                                                                         *)
(* The panel keeps a certificate authority in two files and makes it when  *)
(* neither exists.  `sb-web init' does the same, possibly at the same      *)
(* time.  Joining gives an Agent a certificate that lives for Lifetime;    *)
(* after a heartbeat the Agent asks for a new one when no more than Window *)
(* is left.  A certificate is used from memory at once and kept in the     *)
(* identity file; any process may end between two of these steps.          *)
(*                                                                         *)
(* Time is counted in units of some days.  A key pair is the number of its *)
(* generation.  The paths of the two files stay the same, and the panel    *)
(* serves HTTPS.                                                           *)
(***************************************************************************)
EXTENDS Integers

CONSTANTS
    Agent,       \* machines that join
    Lifetime,    \* of a certificate (a year)
    CaLifetime,  \* of the authority's certificate (ten years)
    Window,      \* an Agent rotates with no more than this left (a week)
    MaxTime,     \* bound of the model on the clock
    MaxCas,      \* bound: generated authorities
    MaxFaults    \* bound: ends of a process, failed writes, lost answers

ASSUME CertificateBounds ==
    /\ Lifetime \in Nat /\ CaLifetime \in Nat /\ Window \in Nat
    /\ Window < Lifetime
    /\ MaxTime \in Nat /\ MaxCas \in Nat /\ MaxFaults \in Nat

Time == 0 .. MaxTime
Generation == 1 .. MaxCas
None == 0

(* The authority's certificate, and the pair a process has loaded.         *)
CaCert == [ca : Generation, until : Nat]
NoCert == [ca |-> None, until |-> 0]
Pair   == [cert : CaCert, key : Generation]
NoPair == [cert |-> NoCert, key |-> None]

(* What an Agent holds: a client certificate, no identity yet, or an       *)
(* identity without a certificate, from a panel that issued none.          *)
Certificate == [ca : Generation, until : Nat]
NoIdentity  == [ca |-> None, until |-> 0]
Bare        == [ca |-> None, until |-> 1]
Identity    == Certificate \cup {NoIdentity, Bare}

(* tls.require_agent_mtls false and no CA file named; files named;         *)
(* require_agent_mtls true.                                                *)
Config == {"off", "issue", "require"}

(* `sb-web server' and `sb-web init'.                                      *)
Proc  == {"serve", "init"}
Place == {"down", "cert", "key", "writeCert", "writeKey", "up"}
(* What an Agent does: wait, rotate after a heartbeat, save what it got.   *)
Phase == {"idle", "rotating", "saving"}

VARIABLES
    now,        \* the clock
    caCert,     \* agent-ca.pem
    caKey,      \* agent-ca-key.pem
    cas,        \* generations made so far
    place,      \* [Proc -> Place]
    hand,       \* [Proc -> the certificate it has read or generated]
    again,      \* the panel is loading for the second time, in TLSConfig
    pair,       \* the authority the panel uses
    config,     \* the configuration the panel runs with
    mem,        \* [Agent -> Identity], in the memory of the Agent
    disk,       \* [Agent -> Identity], in its identity file
    phase,      \* [Agent -> Phase]
    lastRound,  \* history: when its last complete round was
    unsaved,    \* history: its memory holds what a failed write lost
    overlapped, \* history: two processes were making an authority at once
    faults

vars == <<now, caCert, caKey, cas, place, hand, again, pair, config,
          mem, disk, phase, lastRound, unsaved, overlapped, faults>>
fileVars  == <<caCert, caKey>>
procVars  == <<place, hand, again, cas, overlapped>>
panelVars == <<pair, config>>
agentVars == <<mem, disk, phase, lastRound, unsaved>>

Creating(p) == place[p] \in {"writeCert", "writeKey"}

TypeOK ==
    /\ now \in Time
    /\ caCert \in CaCert \cup {NoCert} /\ caKey \in Generation \cup {None}
    /\ cas \in 0 .. MaxCas
    /\ place \in [Proc -> Place] /\ place["init"] # "up"
    /\ hand \in [Proc -> CaCert \cup {NoCert}]
    /\ \A p \in Proc : Creating(p) => hand[p] # NoCert
    /\ again \in BOOLEAN
    /\ pair \in Pair \cup {NoPair} /\ config \in Config
    /\ (place["serve"] = "up" /\ config # "off") => pair # NoPair
    /\ mem \in [Agent -> Identity] /\ disk \in [Agent -> Identity]
    /\ phase \in [Agent -> Phase]
    /\ lastRound \in [Agent -> Time] /\ unsaved \in [Agent -> BOOLEAN]
    /\ overlapped \in BOOLEAN
    /\ faults \in 0 .. MaxFaults

Init ==
    /\ now = 0
    /\ caCert = NoCert /\ caKey = None /\ cas = 0
    /\ place = [p \in Proc |-> "down"]
    /\ hand = [p \in Proc |-> NoCert]
    /\ again = FALSE
    /\ pair = NoPair /\ config = "off"
    /\ mem = [a \in Agent |-> NoIdentity]
    /\ disk = [a \in Agent |-> NoIdentity]
    /\ phase = [a \in Agent |-> "idle"]
    /\ lastRound = [a \in Agent |-> 0]
    /\ unsaved = [a \in Agent |-> FALSE]
    /\ overlapped = FALSE
    /\ faults = 0

Fault == faults < MaxFaults /\ faults' = faults + 1

Tick ==
    /\ now < MaxTime
    /\ now' = now + 1
    /\ UNCHANGED <<fileVars, procVars, panelVars, agentVars, faults>>

---------------------------------------------------------------------------
(* Mutated forms, used only to test the properties.                        *)
WriteCertToKeyFile(p) ==
    /\ place[p] = "writeCert"
    /\ caKey' = hand[p].ca
    /\ place' = [place EXCEPT ![p] = "writeKey"]
    /\ UNCHANGED <<now, caCert, hand, again, cas, overlapped, panelVars,
                   agentVars, faults>>
DueLate(a) == mem[a].until - now <= 0

---------------------------------------------------------------------------
(* The panel and `sb-web init'.  The operator may have changed the         *)
(* configuration since the panel was last started.                         *)
StartPanel ==
    /\ place["serve"] = "down"
    /\ config' \in Config
    /\ place' = [place EXCEPT !["serve"] =
                    IF config' = "off" THEN "up" ELSE "cert"]
    /\ again' = FALSE
    /\ pair' = NoPair
    /\ UNCHANGED <<now, fileVars, hand, cas, overlapped, agentVars, faults>>
RunInit ==
    /\ place["init"] = "down"
    /\ place' = [place EXCEPT !["init"] = "cert"]
    /\ UNCHANGED <<now, fileVars, hand, again, cas, overlapped, panelVars,
                   agentVars, faults>>

ReadCert(p) ==
    /\ place[p] = "cert"
    /\ hand' = [hand EXCEPT ![p] = caCert]
    /\ place' = [place EXCEPT ![p] = "key"]
    /\ UNCHANGED <<now, fileVars, again, cas, overlapped, panelVars,
                   agentVars, faults>>

(* A process has loaded an authority.  The panel does so twice before it   *)
(* serves: in New and in TLSConfig.                                        *)
Loaded(p, loaded) ==
    /\ place' = [place EXCEPT ![p] =
                    IF p = "init" THEN "down" ELSE
                    IF again THEN "up" ELSE "cert"]
    /\ again' = IF p = "serve" THEN ~again ELSE again
    /\ pair'  = IF p = "serve" THEN loaded ELSE pair
    /\ hand'  = [hand EXCEPT ![p] = NoCert]

(* Both files exist: they are parsed, and not compared with each other.    *)
ReadPair(p) ==
    /\ place[p] = "key" /\ hand[p] # NoCert /\ caKey # None
    /\ Loaded(p, [cert |-> hand[p], key |-> caKey])
    /\ UNCHANGED <<now, fileVars, cas, overlapped, config, agentVars, faults>>
(* Neither exists: a new authority.                                        *)
Generate(p) ==
    /\ place[p] = "key" /\ hand[p] = NoCert /\ caKey = None
    /\ cas < MaxCas
    /\ cas' = cas + 1
    /\ hand' = [hand EXCEPT ![p] =
                   [ca |-> cas + 1, until |-> now + CaLifetime]]
    /\ place' = [place EXCEPT ![p] = "writeCert"]
    /\ overlapped' = (overlapped \/ \E q \in Proc \ {p} : Creating(q))
    /\ UNCHANGED <<now, fileVars, again, panelVars, agentVars, faults>>
(* One of them exists: an error, and the process ends.                     *)
ReadHalf(p) ==
    /\ place[p] = "key" /\ (hand[p] = NoCert) # (caKey = None)
    /\ place' = [place EXCEPT ![p] = "down"]
    /\ hand' = [hand EXCEPT ![p] = NoCert]
    /\ UNCHANGED <<now, fileVars, again, cas, overlapped, panelVars,
                   agentVars, faults>>

(* Each file is put in place by a rename.                                  *)
WriteCert(p) ==
    /\ place[p] = "writeCert"
    /\ caCert' = hand[p]
    /\ place' = [place EXCEPT ![p] = "writeKey"]
    /\ UNCHANGED <<now, caKey, hand, again, cas, overlapped, panelVars,
                   agentVars, faults>>
WriteKey(p) ==
    /\ place[p] = "writeKey"
    /\ caKey' = hand[p].ca
    /\ Loaded(p, [cert |-> hand[p], key |-> hand[p].ca])
    /\ UNCHANGED <<now, caCert, cas, overlapped, config, agentVars, faults>>

(* The process ends: a crash, a failed write, the operator's restart.      *)
End(p) ==
    /\ place[p] # "down"
    /\ Fault
    /\ place' = [place EXCEPT ![p] = "down"]
    /\ hand' = [hand EXCEPT ![p] = NoCert]
    /\ pair' = IF p = "serve" THEN NoPair ELSE pair
    /\ UNCHANGED <<now, fileVars, again, cas, overlapped, config, agentVars>>

Step(p) ==
    \/ ReadCert(p) \/ ReadPair(p) \/ Generate(p) \/ ReadHalf(p)
    \/ WriteCert(p) \/ WriteKey(p)

---------------------------------------------------------------------------
(* The panel's side of a request.                                          *)
Serving == place["serve"] = "up"
Issued == [ca |-> pair.cert.ca, until |-> now + Lifetime]
(* x509.CreateCertificate refuses a key that is not the certificate's.     *)
CanIssue == pair # NoPair /\ pair.cert.ca = pair.key

(* verifyAgentMTLS: any certificate of this authority, in its time.        *)
Verified(a) ==
    config = "require" =>
        /\ pair # NoPair
        /\ mem[a] \in Certificate
        /\ mem[a].ca = pair.cert.ca
        /\ now < mem[a].until /\ now < pair.cert.until

---------------------------------------------------------------------------
(* The Agent.  register: the certificate is in memory, the identity file   *)
(* is written next.                                                        *)
Register(a) ==
    /\ phase[a] = "idle" /\ mem[a] = NoIdentity
    /\ Serving /\ (pair = NoPair \/ CanIssue)
    /\ mem' = [mem EXCEPT ![a] = IF pair = NoPair THEN Bare ELSE Issued]
    /\ phase' = [phase EXCEPT ![a] = "saving"]
    /\ UNCHANGED <<now, fileVars, procVars, panelVars, disk, lastRound,
                   unsaved, faults>>

(* A heartbeat and what poll does after it; rotation is next.              *)
Beat(a) ==
    /\ phase[a] = "idle" /\ mem[a] # NoIdentity
    /\ Serving /\ Verified(a)
    /\ phase' = [phase EXCEPT ![a] = "rotating"]
    /\ UNCHANGED <<now, fileVars, procVars, panelVars, mem, disk, lastRound,
                   unsaved, faults>>

(* maybeRotateCertificate: nothing to do, a new certificate, or an error.  *)
Due(a) == mem[a].until - now <= Window
Keep(a) ==
    /\ phase[a] = "rotating"
    /\ mem[a] = Bare \/ ~Due(a)
    /\ phase' = [phase EXCEPT ![a] = "idle"]
    /\ lastRound' = [lastRound EXCEPT ![a] = now]
    /\ UNCHANGED <<now, fileVars, procVars, panelVars, mem, disk, unsaved,
                   faults>>
Configure(a, got) == mem' = [mem EXCEPT ![a] = got]
Rotate(a) ==
    /\ phase[a] = "rotating"
    /\ mem[a] # Bare /\ Due(a)
    /\ Serving /\ Verified(a) /\ CanIssue
    /\ Configure(a, Issued)
    /\ phase' = [phase EXCEPT ![a] = "saving"]
    /\ UNCHANGED <<now, fileVars, procVars, panelVars, disk, lastRound,
                   unsaved, faults>>
RotateFails(a) ==
    /\ phase[a] = "rotating"
    /\ mem[a] # Bare /\ Due(a)
    /\ IF Serving /\ Verified(a) /\ CanIssue THEN Fault ELSE UNCHANGED faults
    /\ phase' = [phase EXCEPT ![a] = "idle"]
    /\ UNCHANGED <<now, fileVars, procVars, panelVars, mem, disk, lastRound,
                   unsaved>>

(* saveIdentity writes a new file and renames it.  The round is complete;  *)
(* it counts from the moment the certificate was issued.                   *)
Save(a) ==
    /\ phase[a] = "saving"
    /\ disk' = [disk EXCEPT ![a] = mem[a]]
    /\ unsaved' = [unsaved EXCEPT ![a] = FALSE]
    /\ lastRound' = [lastRound EXCEPT ![a] =
                        IF mem[a] = Bare THEN now ELSE mem[a].until - Lifetime]
    /\ phase' = [phase EXCEPT ![a] = "idle"]
    /\ UNCHANGED <<now, fileVars, procVars, panelVars, mem, faults>>
(* It fails: a joining process ends and has no identity; a running one     *)
(* goes on with what it has in memory and does not try again.              *)
SaveFails(a) ==
    /\ phase[a] = "saving"
    /\ Fault
    /\ IF disk[a] = NoIdentity
       THEN /\ mem' = [mem EXCEPT ![a] = NoIdentity]
            /\ UNCHANGED unsaved
       ELSE /\ unsaved' = [unsaved EXCEPT ![a] = TRUE]
            /\ UNCHANGED mem
    /\ phase' = [phase EXCEPT ![a] = "idle"]
    /\ UNCHANGED <<now, fileVars, procVars, panelVars, disk, lastRound>>

(* The Agent ends at any point and starts from its identity file.          *)
RestartAgent(a) ==
    /\ Fault
    /\ mem' = [mem EXCEPT ![a] = disk[a]]
    /\ phase' = [phase EXCEPT ![a] = "idle"]
    /\ UNCHANGED <<now, fileVars, procVars, panelVars, disk, lastRound,
                   unsaved>>

AgentStep(a) ==
    \/ Register(a) \/ Beat(a) \/ Keep(a) \/ Rotate(a) \/ RotateFails(a)
    \/ Save(a) \/ SaveFails(a) \/ RestartAgent(a)

---------------------------------------------------------------------------
Next ==
    \/ Tick
    \/ StartPanel \/ RunInit
    \/ \E p \in Proc : Step(p) \/ End(p)
    \/ \E a \in Agent : AgentStep(a)

Spec == Init /\ [][Next]_vars

(* The service manager starts the panel again; what was started goes on.   *)
Fairness == WF_vars(StartPanel) /\ \A p \in Proc : WF_vars(Step(p))
FairSpec == Spec /\ Fairness

---------------------------------------------------------------------------
(* A machine whose last complete round was no longer than Window ago is    *)
(* accepted, whatever was restarted, lost or reconfigured since.  The code *)
(* leaves four cases out: the machine joined a panel that issued no        *)
(* certificate; its new certificate could not be written and was in memory *)
(* only; two processes made an authority at once; the authority expired.   *)
CertificateAccepted ==
    \A a \in Agent :
        (/\ Serving
         /\ phase[a] = "idle" /\ mem[a] \in Certificate
         /\ now <= lastRound[a] + Window
         /\ ~unsaved[a] /\ ~overlapped
         /\ config = "require" => now < pair.cert.until)
        => Verified(a)

(* The panel comes up again after every crash, unless a process ended      *)
(* between the writes of the authority's two files: from then on each      *)
(* start fails on the one that exists.                                     *)
HalfWritten ==
    caCert # NoCert /\ caKey = None /\ \A p \in Proc : ~Creating(p)
PanelStarts == []<>Serving \/ <>[]HalfWritten
=============================================================================
