---------------------- MODULE AgentCertificatesProofs ----------------------
(***************************************************************************)
(* Theorems about mutual TLS between the panel and the Agents, for any     *)
(* number of Agents, any lifetimes with a window shorter than that of a    *)
(* certificate, and any number of faults.                                  *)
(***************************************************************************)
EXTENDS AgentCertificates, TLAPS

(* A certificate that was issued at a time of the clock.                   *)
Issuable == [ca : Generation, until : Lifetime .. MaxTime + Lifetime]
IssuedInTime ==
    \A a \in Agent :
        /\ mem[a] \in Issuable \cup {NoIdentity, Bare}
        /\ disk[a] \in Issuable \cup {NoIdentity, Bare}
        /\ phase[a] = "saving" => mem[a] # NoIdentity
Typed == TypeOK /\ IssuedInTime

LEMMA Identities ==
    /\ Issuable \subseteq Certificate
    /\ NoIdentity \notin Certificate /\ Bare \notin Certificate
    /\ NoIdentity # Bare
    /\ \A c \in Certificate : c.until \in Nat /\ c.ca \in Generation
    /\ \A c \in Issuable : c.until - Lifetime \in Time
BY CertificateBounds
   DEF Issuable, Certificate, NoIdentity, Bare, Generation, None, Time

LEMMA Authorities ==
    /\ NoCert \notin CaCert
    /\ \A c \in CaCert : c.ca \in Generation /\ c.ca # None
    /\ \A c \in CaCert, k \in Generation :
         /\ [cert |-> c, key |-> k] \in Pair
         /\ [cert |-> c, key |-> k] # NoPair
         /\ [cert |-> c, key |-> k].cert = c
         /\ [cert |-> c, key |-> k].key = k
    /\ \A p \in Pair : p.cert \in CaCert /\ p.key \in Generation
BY CertificateBounds DEF CaCert, NoCert, Generation, None, Pair, NoPair

LEMMA IssuedCertificate ==
    ASSUME Typed, pair # NoPair
    PROVE  Issued \in Issuable /\ Issued.ca = pair.cert.ca
                               /\ Issued.until = now + Lifetime
<1>1. pair.cert.ca \in Generation
  BY Authorities DEF Typed, TypeOK
<1>2. now + Lifetime \in Lifetime .. MaxTime + Lifetime
  BY CertificateBounds DEF Typed, TypeOK, Time
<1>. QED BY <1>1, <1>2 DEF Issued, Issuable

LEMMA FaultCounted ==
    ASSUME TypeOK, Fault PROVE faults' \in 0 .. MaxFaults
BY CertificateBounds DEF TypeOK, Fault

---------------------------------------------------------------------------
(* Type correctness.  The steps of the two processes leave the Agents      *)
(* alone, and the steps of the Agents leave the processes alone.           *)
ProcsTyped ==
    /\ caCert \in CaCert \cup {NoCert} /\ caKey \in Generation \cup {None}
    /\ cas \in 0 .. MaxCas
    /\ place \in [Proc -> Place] /\ place["init"] # "up"
    /\ hand \in [Proc -> CaCert \cup {NoCert}]
    /\ \A p \in Proc : Creating(p) => hand[p] # NoCert
    /\ again \in BOOLEAN
    /\ pair \in Pair \cup {NoPair} /\ config \in Config
    /\ (place["serve"] = "up" /\ config # "off") => pair # NoPair
    /\ overlapped \in BOOLEAN
AgentsTyped ==
    /\ mem \in [Agent -> Identity] /\ disk \in [Agent -> Identity]
    /\ phase \in [Agent -> Phase]
    /\ lastRound \in [Agent -> Time] /\ unsaved \in [Agent -> BOOLEAN]
    /\ IssuedInTime

LEMMA TypedParts ==
    Typed <=> /\ now \in Time /\ faults \in 0 .. MaxFaults
              /\ ProcsTyped /\ AgentsTyped
BY DEF Typed, TypeOK, ProcsTyped, AgentsTyped

LEMMA TypedPartsNext ==
    Typed' <=> /\ now' \in Time /\ faults' \in 0 .. MaxFaults
               /\ ProcsTyped' /\ AgentsTyped'
BY DEF Typed, TypeOK, ProcsTyped, AgentsTyped

LEMMA SameProcs ==
    ASSUME ProcsTyped, UNCHANGED <<fileVars, procVars, panelVars>>
    PROVE  ProcsTyped'
BY DEF ProcsTyped, fileVars, procVars, panelVars, Creating

LEMMA SameAgents ==
    ASSUME AgentsTyped, UNCHANGED agentVars
    PROVE  AgentsTyped'
BY DEF AgentsTyped, IssuedInTime, agentVars

(* The effect of having loaded an authority.                               *)
LEMMA LoadedTyped ==
    ASSUME ProcsTyped, NEW p \in Proc, NEW loaded \in Pair,
           Loaded(p, loaded), UNCHANGED <<cas, overlapped, config>>,
           caCert' \in CaCert \cup {NoCert},
           caKey' \in Generation \cup {None}
    PROVE  ProcsTyped'
<1>1. loaded # NoPair
  BY Authorities DEF NoPair, Pair
<1>2. place' \in [Proc -> Place] /\ place'["init"] # "up"
  BY DEF Loaded, ProcsTyped, Place, Proc
<1>3. hand' \in [Proc -> CaCert \cup {NoCert}]
  BY DEF Loaded, ProcsTyped
<1>4. \A q \in Proc : Creating(q)' => hand'[q] # NoCert
  BY DEF Loaded, ProcsTyped, Creating
<1>5. again' \in BOOLEAN
  BY DEF Loaded, ProcsTyped
<1>6. pair' \in Pair \cup {NoPair}
  BY DEF Loaded, ProcsTyped
<1>7. (place'["serve"] = "up" /\ config' # "off") => pair' # NoPair
  BY <1>1 DEF Loaded, ProcsTyped, Proc
<1>. QED BY <1>2, <1>3, <1>4, <1>5, <1>6, <1>7 DEF ProcsTyped

LEMMA PanelStepTyped ==
    ASSUME Typed, NEW p \in Proc, Step(p) \/ End(p) \/ StartPanel \/ RunInit
    PROVE  Typed'
<1> USE TypedParts DEF fileVars, procVars, panelVars, agentVars
<1>1. now' \in Time /\ UNCHANGED agentVars
  BY DEF Step, End, StartPanel, RunInit, ReadCert, ReadPair, Generate,
         ReadHalf, WriteCert, WriteKey
<1>2. faults' \in 0 .. MaxFaults
  BY FaultCounted
     DEF Typed, Step, End, StartPanel, RunInit, ReadCert, ReadPair, Generate,
         ReadHalf, WriteCert, WriteKey
<1>3. AgentsTyped'
  BY <1>1, SameAgents
<1> USE DEF ProcsTyped, Creating, Proc, Place
<1>4. CASE StartPanel
  <2>1. ProcsTyped'
    BY <1>4 DEF StartPanel
  <2>. QED BY <1>1, <1>2, <1>3, <2>1, TypedPartsNext
<1>5. CASE RunInit
  <2>1. ProcsTyped'
    BY <1>5 DEF RunInit
  <2>. QED BY <1>1, <1>2, <1>3, <2>1, TypedPartsNext
<1>6. CASE ReadCert(p)
  <2>1. ProcsTyped'
    BY <1>6 DEF ReadCert
  <2>. QED BY <1>1, <1>2, <1>3, <2>1, TypedPartsNext
<1>7. CASE ReadPair(p)
  <2>1. hand[p] \in CaCert /\ caKey \in Generation
    BY <1>7 DEF ReadPair
  <2>2. [cert |-> hand[p], key |-> caKey] \in Pair
    BY <2>1, Authorities
  <2>3. ProcsTyped'
    BY <1>7, <2>2, LoadedTyped DEF ReadPair
  <2>. QED BY <1>1, <1>2, <1>3, <2>3, TypedPartsNext
<1>8. CASE Generate(p)
  <2>1. cas + 1 \in Generation /\ cas' \in 0 .. MaxCas
    BY <1>8, CertificateBounds DEF Generate, Generation
  <2>2. now + CaLifetime \in Nat
    BY CertificateBounds DEF Time
  <2>3. [ca |-> cas + 1, until |-> now + CaLifetime] \in CaCert
    BY <2>1, <2>2 DEF CaCert
  <2>4. [ca |-> cas + 1, until |-> now + CaLifetime] # NoCert
    BY <2>3, Authorities
  <2>5. overlapped' \in BOOLEAN
    BY <1>8, Zenon DEF Generate
  <2>6. hand' \in [Proc -> CaCert \cup {NoCert}]
    BY <1>8, <2>3 DEF Generate
  <2>7. \A q \in Proc : Creating(q)' => hand'[q] # NoCert
    BY <1>8, <2>4 DEF Generate
  <2>8. UNCHANGED <<caCert, caKey, again, pair, config>>
    BY <1>8 DEF Generate
  <2>9. place' \in [Proc -> Place] /\ place'["init"] # "up"
        /\ (place'["serve"] = "up" => place["serve"] = "up")
    BY <1>8 DEF Generate
  <2>10. ProcsTyped'
    BY <2>1, <2>5, <2>6, <2>7, <2>8, <2>9
  <2>. QED BY <1>1, <1>2, <1>3, <2>10, TypedPartsNext
<1>9. CASE ReadHalf(p)
  <2>1. ProcsTyped'
    BY <1>9 DEF ReadHalf
  <2>. QED BY <1>1, <1>2, <1>3, <2>1, TypedPartsNext
<1>10. CASE WriteCert(p)
  <2>1. ProcsTyped'
    BY <1>10 DEF WriteCert
  <2>. QED BY <1>1, <1>2, <1>3, <2>1, TypedPartsNext
<1>11. CASE WriteKey(p)
  <2>1. hand[p] \in CaCert /\ hand[p].ca \in Generation
    BY <1>11, Authorities DEF WriteKey
  <2>2. [cert |-> hand[p], key |-> hand[p].ca] \in Pair
    BY <2>1, Authorities
  <2>3. ProcsTyped'
    BY <1>11, <2>1, <2>2, LoadedTyped DEF WriteKey
  <2>. QED BY <1>1, <1>2, <1>3, <2>3, TypedPartsNext
<1>12. CASE End(p)
  <2>1. ProcsTyped'
    BY <1>12 DEF End
  <2>. QED BY <1>1, <1>2, <1>3, <2>1, TypedPartsNext
<1>. QED BY <1>4, <1>5, <1>6, <1>7, <1>8, <1>9, <1>10, <1>11, <1>12 DEF Step

LEMMA AgentStepTyped ==
    ASSUME Typed, NEW a \in Agent, AgentStep(a)
    PROVE  Typed'
<1> USE TypedParts DEF fileVars, procVars, panelVars, agentVars
<1>1. now' \in Time /\ UNCHANGED <<fileVars, procVars, panelVars>>
  BY DEF AgentStep, Register, Beat, Keep, Rotate, RotateFails, Save,
         SaveFails, RestartAgent
<1>2. faults' \in 0 .. MaxFaults
  BY FaultCounted
     DEF Typed, AgentStep, Register, Beat, Keep, Rotate, RotateFails, Save,
         SaveFails, RestartAgent
<1>3. ProcsTyped'
  BY <1>1, SameProcs
<1> USE DEF AgentsTyped, IssuedInTime, Phase, Identity
<1>4. CASE Register(a)
  <2>1. mem' = [mem EXCEPT ![a] = mem'[a]]
        /\ mem'[a] \in Issuable \cup {Bare} /\ mem'[a] # NoIdentity
    BY <1>4, IssuedCertificate, Identities DEF Register
  <2>2. AgentsTyped'
    BY <1>4, <2>1, Identities DEF Register
  <2>. QED BY <1>1, <1>2, <1>3, <2>2, TypedPartsNext
<1>5. CASE Beat(a)
  <2>1. AgentsTyped'
    BY <1>5 DEF Beat
  <2>. QED BY <1>1, <1>2, <1>3, <2>1, TypedPartsNext
<1>6. CASE Keep(a)
  <2>1. AgentsTyped'
    BY <1>6 DEF Keep
  <2>. QED BY <1>1, <1>2, <1>3, <2>1, TypedPartsNext
<1>7. CASE Rotate(a)
  <2>1. Issued \in Issuable /\ Issued # NoIdentity /\ Issued \in Identity
    BY <1>7, IssuedCertificate, Identities DEF Rotate, CanIssue
  <2>2. AgentsTyped'
    BY <1>7, <2>1 DEF Rotate, Configure
  <2>. QED BY <1>1, <1>2, <1>3, <2>2, TypedPartsNext
<1>8. CASE RotateFails(a)
  <2>1. AgentsTyped'
    BY <1>8 DEF RotateFails
  <2>. QED BY <1>1, <1>2, <1>3, <2>1, TypedPartsNext
<1>9. CASE Save(a)
  <2>1. mem[a] # Bare => mem[a].until - Lifetime \in Time
    BY <1>9, Identities DEF Save
  <2>2. lastRound' \in [Agent -> Time]
    BY <1>9, <2>1 DEF Save
  <2>3. unsaved' \in [Agent -> BOOLEAN]
    BY <1>9 DEF Save
  <2>4. disk' \in [Agent -> Identity] /\ phase' \in [Agent -> Phase]
        /\ UNCHANGED mem /\ IssuedInTime'
    BY <1>9 DEF Save
  <2>5. AgentsTyped'
    BY <2>2, <2>3, <2>4
  <2>. QED BY <1>1, <1>2, <1>3, <2>5, TypedPartsNext
<1>10. CASE SaveFails(a)
  <2>1. unsaved' \in [Agent -> BOOLEAN]
    BY <1>10 DEF SaveFails
  <2>2. mem' \in [Agent -> Identity] /\ phase' \in [Agent -> Phase]
        /\ UNCHANGED <<disk, lastRound>> /\ IssuedInTime'
    BY <1>10 DEF SaveFails
  <2>3. AgentsTyped'
    BY <2>1, <2>2
  <2>. QED BY <1>1, <1>2, <1>3, <2>3, TypedPartsNext
<1>11. CASE RestartAgent(a)
  <2>1. AgentsTyped'
    BY <1>11 DEF RestartAgent
  <2>. QED BY <1>1, <1>2, <1>3, <2>1, TypedPartsNext
<1>. QED BY <1>4, <1>5, <1>6, <1>7, <1>8, <1>9, <1>10, <1>11 DEF AgentStep

LEMMA Typing ==
    ASSUME Typed, [Next]_vars
    PROVE  Typed'
<1>1. CASE Tick
  <2>1. now' \in Time
    BY <1>1, TypedParts, CertificateBounds DEF Tick, Time
  <2>2. faults' \in 0 .. MaxFaults /\ ProcsTyped' /\ AgentsTyped'
    BY <1>1, TypedParts, SameProcs, SameAgents DEF Tick
  <2>. QED BY <2>1, <2>2, TypedPartsNext
<1>2. CASE StartPanel \/ RunInit
  BY <1>2, PanelStepTyped DEF Proc
<1>3. CASE \E p \in Proc : Step(p) \/ End(p)
  BY <1>3, PanelStepTyped
<1>4. CASE \E a \in Agent : AgentStep(a)
  BY <1>4, AgentStepTyped
<1>5. CASE UNCHANGED vars
  <2>1. now' \in Time /\ faults' \in 0 .. MaxFaults
        /\ ProcsTyped' /\ AgentsTyped'
    BY <1>5, TypedParts, SameProcs, SameAgents
       DEF vars, fileVars, procVars, panelVars, agentVars
  <2>. QED BY <2>1, TypedPartsNext
<1>. QED BY <1>1, <1>2, <1>3, <1>4, <1>5 DEF Next

LEMMA TypedHolds == Spec => []Typed
<1>1. Init => Typed
  <2> SUFFICES ASSUME Init PROVE Typed
    OBVIOUS
  <2>1. now \in Time /\ faults \in 0 .. MaxFaults
    BY CertificateBounds DEF Init, Time
  <2>2. ProcsTyped
    <3>1. again \in BOOLEAN /\ overlapped \in BOOLEAN
      BY DEF Init
    <3>2. cas \in 0 .. MaxCas
      BY CertificateBounds DEF Init
    <3>3. place \in [Proc -> Place] /\ \A p \in Proc : place[p] = "down"
      BY DEF Init, Place
    <3>4. "init" \in Proc /\ "serve" \in Proc
      BY DEF Proc
    <3>5. hand \in [Proc -> CaCert \cup {NoCert}]
      BY DEF Init
    <3>. QED BY <3>1, <3>2, <3>3, <3>4, <3>5
         DEF Init, ProcsTyped, Creating, Config
  <2>3. AgentsTyped
    BY CertificateBounds
       DEF Init, AgentsTyped, IssuedInTime, Phase, Identity, Time
  <2>. QED BY <2>1, <2>2, <2>3, TypedParts
<1>2. Typed /\ [Next]_vars => Typed'
  BY Typing
<1>. QED BY <1>1, <1>2, PTL DEF Spec

(* No step of the panel, of `sb-web init' or of an Agent takes a variable  *)
(* out of the values the code can give it.                                 *)
THEOREM TypeCorrect == Spec => []TypeOK
<1>1. Typed => TypeOK
  BY DEF Typed
<1>. QED BY <1>1, TypedHolds, PTL

---------------------------------------------------------------------------
(* While ~overlapped, there is one authority: from the moment its key is   *)
(* written, the files, what the panel uses and every certificate are of    *)
(* it, and no process makes another one.                                   *)
Of(id) == id \in Certificate => caKey # None /\ id.ca = caKey
OneAuthority ==
    /\ \A p, q \in Proc : Creating(p) /\ Creating(q) => p = q
    /\ caKey # None => /\ \A p \in Proc : ~Creating(p)
                       /\ caCert \in CaCert /\ caCert.ca = caKey
    /\ \A p \in Proc : place[p] = "writeKey" => caCert = hand[p]
    /\ again => caKey # None
    /\ again /\ place["serve"] = "key" => hand["serve"] = caCert
    /\ Serving /\ pair # NoPair => pair.cert = caCert /\ pair.key = caKey
    /\ \A a \in Agent : Of(mem[a]) /\ Of(disk[a])
AuthorityInv == ~overlapped => OneAuthority

(* The steps of Agents: what they hold was issued by the panel.            *)
LEMMA AgentsKeepAuthority ==
    ASSUME Typed, OneAuthority, NEW a \in Agent, AgentStep(a)
    PROVE  OneAuthority'
<1>1. UNCHANGED <<fileVars, procVars, panelVars>>
  BY DEF AgentStep, Register, Beat, Keep, Rotate, RotateFails, Save,
         SaveFails, RestartAgent
<1>2. Serving /\ pair # NoPair => Of(Issued)
  <2>1. pair # NoPair => pair.key \in Generation /\ pair.key # None
    BY Authorities DEF Typed, TypeOK, Generation, None
  <2>2. pair # NoPair => Issued.ca = pair.cert.ca
    BY IssuedCertificate
  <2>. QED BY <2>1, <2>2 DEF OneAuthority, Of
<1>3. Of(NoIdentity) /\ Of(Bare)
  BY Identities DEF Of
<1> DEFINE Unchanged == \A b \in Agent \ {a} : mem'[b] = mem[b]
                                            /\ disk'[b] = disk[b]
           MemFrom == \/ mem'[a] \in {mem[a], disk[a], NoIdentity, Bare}
                      \/ mem'[a] = Issued /\ Serving /\ pair # NoPair
           DiskFrom == disk'[a] \in {disk[a], mem[a]}
<1>4. Unchanged /\ MemFrom /\ DiskFrom
  <2> USE DEF Typed, TypeOK
  <2>1. CASE Register(a)
    BY <2>1 DEF Register
  <2>2. CASE Rotate(a)
    BY <2>2 DEF Rotate, Configure, CanIssue
  <2>3. CASE Beat(a) \/ Keep(a) \/ RotateFails(a)
    BY <2>3 DEF Beat, Keep, RotateFails
  <2>4. CASE Save(a)
    BY <2>4 DEF Save
  <2>5. CASE SaveFails(a)
    BY <2>5 DEF SaveFails
  <2>6. CASE RestartAgent(a)
    BY <2>6 DEF RestartAgent
  <2>. QED BY <2>1, <2>2, <2>3, <2>4, <2>5, <2>6 DEF AgentStep
<1>5. \A b \in Agent : Of(mem'[b]) /\ Of(disk'[b])
  BY <1>2, <1>3, <1>4 DEF OneAuthority, Typed, TypeOK
<1>. QED BY <1>1, <1>5
     DEF OneAuthority, Of, Creating, Serving, fileVars, procVars, panelVars

(* The steps of the panel and of `sb-web init'.                            *)
LEMMA ProcessesKeepAuthority ==
    ASSUME Typed, OneAuthority, ~overlapped', NEW p \in Proc,
           Step(p) \/ End(p) \/ StartPanel \/ RunInit
    PROVE  OneAuthority'
<1> USE DEF Proc, Creating, Serving, fileVars, procVars, panelVars, agentVars
<1>1. /\ place \in [Proc -> Place] /\ hand \in [Proc -> CaCert \cup {NoCert}]
      /\ \A q \in Proc : Creating(q) => hand[q] \in CaCert
      /\ caKey \in Generation \cup {None}
      /\ caCert \in CaCert \cup {NoCert}
      /\ pair # NoPair => pair.key # None
  BY Authorities DEF Typed, TypeOK, Generation, None
<1>2. CASE StartPanel
  BY <1>1, <1>2 DEF StartPanel, OneAuthority, Of
<1>3. CASE RunInit
  BY <1>1, <1>3 DEF RunInit, OneAuthority, Of
<1>4. CASE ReadCert(p)
  BY <1>1, <1>4 DEF ReadCert, OneAuthority, Of
<1>5. CASE ReadPair(p)
  BY <1>1, <1>5 DEF ReadPair, Loaded, OneAuthority, Of
<1>6. CASE Generate(p)
  BY <1>1, <1>6 DEF Generate, OneAuthority, Of
<1>7. CASE ReadHalf(p)
  BY <1>1, <1>7 DEF ReadHalf, OneAuthority, Of
<1>8. CASE WriteCert(p)
  BY <1>1, <1>8 DEF WriteCert, OneAuthority, Of
<1>9. CASE WriteKey(p)
  BY <1>1, <1>9, Authorities DEF WriteKey, Loaded, OneAuthority, Of
<1>10. CASE End(p)
  BY <1>1, <1>10 DEF End, OneAuthority, Of
<1>. QED BY <1>2, <1>3, <1>4, <1>5, <1>6, <1>7, <1>8, <1>9, <1>10 DEF Step

LEMMA AuthorityHolds == Spec => []AuthorityInv
<1>1. Init => AuthorityInv
  BY Identities
     DEF Init, AuthorityInv, OneAuthority, Of, Creating, Serving, Proc
<1>2. Typed /\ AuthorityInv /\ [Next]_vars => AuthorityInv'
  <2> SUFFICES ASSUME Typed, AuthorityInv, [Next]_vars, ~overlapped'
               PROVE  OneAuthority'
    BY DEF AuthorityInv
  <2>1. ~overlapped
    BY DEF Next, Tick, StartPanel, RunInit, Step, End, ReadCert, ReadPair,
           Generate, ReadHalf, WriteCert, WriteKey, AgentStep, Register,
           Beat, Keep, Rotate, RotateFails, Save, SaveFails, RestartAgent,
           vars, procVars
  <2>2. OneAuthority
    BY <2>1 DEF AuthorityInv
  <2>3. CASE Tick \/ UNCHANGED vars
    BY <2>2, <2>3 DEF Tick, vars, OneAuthority, Of, Creating, Serving,
       fileVars, procVars, panelVars, agentVars
  <2>4. CASE \E a \in Agent : AgentStep(a)
    BY <2>2, <2>4, AgentsKeepAuthority
  <2>5. CASE StartPanel \/ RunInit \/ \E p \in Proc : Step(p) \/ End(p)
    BY <2>2, <2>5, ProcessesKeepAuthority DEF Proc
  <2>. QED BY <2>3, <2>4, <2>5 DEF Next
<1>. QED BY <1>1, <1>2, TypedHolds, PTL DEF Spec

---------------------------------------------------------------------------
(* Unless a write of its identity file failed, an Agent has in memory what *)
(* it has on disk, but for the moment in between, and that is good for     *)
(* more than Window after its last complete round.                         *)
RoundsKept ==
    \A a \in Agent : ~unsaved[a] =>
        /\ phase[a] # "saving" => mem[a] = disk[a]
        /\ disk[a] \in Certificate => disk[a].until > lastRound[a] + Window

LEMMA RoundsHold == Spec => []RoundsKept
<1>1. Init => RoundsKept
  BY Identities DEF Init, RoundsKept
<1>2. Typed /\ RoundsKept /\ [Next]_vars => RoundsKept'
  <2> SUFFICES ASSUME Typed, RoundsKept, [Next]_vars PROVE RoundsKept'
    OBVIOUS
  <2> USE DEF RoundsKept
  <2>1. CASE UNCHANGED agentVars
    BY <2>1 DEF agentVars
  <2>2. ASSUME NEW a \in Agent, AgentStep(a) PROVE RoundsKept'
    <3> USE DEF Typed, TypeOK
    <3>1. CASE Register(a)
      BY <3>1 DEF Register
    <3>2. CASE Beat(a)
      BY <3>2 DEF Beat
    <3>3. CASE Keep(a)
      <4>1. disk[a] \in Certificate /\ ~unsaved[a]
              => disk[a].until > now + Window
        BY <3>3, Identities, CertificateBounds DEF Keep, Due, Time
      <4>. QED BY <3>3, <4>1 DEF Keep
    <3>4. CASE Rotate(a)
      BY <3>4 DEF Rotate, Configure
    <3>5. CASE RotateFails(a)
      BY <3>5 DEF RotateFails
    <3>6. CASE Save(a)
      <4>1. mem[a] \in Certificate
              => mem[a].until > (mem[a].until - Lifetime) + Window
        BY Identities, CertificateBounds
      <4>2. mem[a] \in Certificate => mem[a] # Bare
        BY Identities
      <4>. QED BY <3>6, <4>1, <4>2 DEF Save
    <3>7. CASE SaveFails(a)
      BY <3>7, Identities DEF SaveFails
    <3>8. CASE RestartAgent(a)
      BY <3>8 DEF RestartAgent
    <3>. QED BY <2>2, <3>1, <3>2, <3>3, <3>4, <3>5, <3>6, <3>7, <3>8
             DEF AgentStep
  <2>3. CASE Tick \/ UNCHANGED vars \/ StartPanel \/ RunInit
             \/ \E p \in Proc : Step(p) \/ End(p)
    BY <2>1, <2>3 DEF Tick, vars, agentVars, StartPanel, RunInit, Step, End,
       ReadCert, ReadPair, Generate, ReadHalf, WriteCert, WriteKey
  <2>. QED BY <2>2, <2>3 DEF Next
<1>. QED BY <1>1, <1>2, TypedHolds, PTL DEF Spec

(* A machine whose last complete round was no longer than Window ago is    *)
(* accepted by the panel, over any number of restarts of both, of lost     *)
(* answers and of changes of the configuration, but for the four cases     *)
(* that CertificateAccepted names.                                         *)
THEOREM CertificatesAccepted == Spec => []CertificateAccepted
<1>1. Typed /\ AuthorityInv /\ RoundsKept => CertificateAccepted
  <2> SUFFICES ASSUME Typed, AuthorityInv, RoundsKept, NEW a \in Agent,
                      Serving, phase[a] = "idle", mem[a] \in Certificate,
                      now <= lastRound[a] + Window,
                      ~unsaved[a], ~overlapped,
                      config = "require", now < pair.cert.until
               PROVE  /\ pair # NoPair /\ mem[a].ca = pair.cert.ca
                      /\ now < mem[a].until
    BY DEF CertificateAccepted, Verified
  <2>1. pair # NoPair
    BY DEF Typed, TypeOK, Serving
  <2>2. mem[a].ca = pair.cert.ca
    BY <2>1, Authorities
       DEF AuthorityInv, OneAuthority, Of, Typed, TypeOK, Generation, None
  <2>3. mem[a].until > lastRound[a] + Window
    BY DEF RoundsKept
  <2>4. now < mem[a].until
    BY <2>3, Identities, CertificateBounds DEF Typed, TypeOK, Time
  <2>. QED BY <2>1, <2>2, <2>4
<1>. QED BY <1>1, TypedHolds, AuthorityHolds, RoundsHold, PTL
=============================================================================
