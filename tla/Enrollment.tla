----------------------------- MODULE Enrollment ------------------------------
(***************************************************************************)
(* What the controller and the Agents promise about who is a server        *)
(* (docs/ARCHITECTURE.md, "Agent protocol"), as if enrolling were one      *)
(* step: a token that is fresh makes one record for one machine and is     *)
(* used up.  The machine learns its ID, for good, or nobody ever will.     *)
(* A record that is removed does not come back, except by a heartbeat      *)
(* that was being handled when it was removed.                             *)
(***************************************************************************)
CONSTANTS
    Machine, Token, Server,
    NoMachine, NoToken, NoServer     \* none of these

VARIABLES
    tokens,      \* Token -> "none", "fresh", "used" or "expired"
    owner,       \* Server -> the machine it was made for
    madeWith,    \* Server -> the token it was made with
    standing,    \* Server -> "unused", "stored", "removed", or "revoked",
                 \* which is removed for good
    identity,    \* Machine -> the server it knows it is
    forgotten    \* servers whose machine will never know

enrollmentVars == <<tokens, owner, madeWith, standing, identity, forgotten>>

Init ==
    /\ tokens    = [k \in Token |-> "none"]
    /\ owner     = [s \in Server |-> NoMachine]
    /\ madeWith  = [s \in Server |-> NoToken]
    /\ standing  = [s \in Server |-> "unused"]
    /\ identity  = [a \in Machine |-> NoServer]
    /\ forgotten = {}

Issue(k) ==
    /\ tokens[k] = "none"
    /\ tokens' = [tokens EXCEPT ![k] = "fresh"]
    /\ UNCHANGED <<owner, madeWith, standing, identity, forgotten>>

Expire(k) ==
    /\ tokens[k] = "fresh"
    /\ tokens' = [tokens EXCEPT ![k] = "expired"]
    /\ UNCHANGED <<owner, madeWith, standing, identity, forgotten>>

Enroll(a, k, s) ==
    /\ tokens[k] = "fresh" /\ standing[s] = "unused"
    /\ tokens'   = [tokens EXCEPT ![k] = "used"]
    /\ owner'    = [owner EXCEPT ![s] = a]
    /\ madeWith' = [madeWith EXCEPT ![s] = k]
    /\ standing' = [standing EXCEPT ![s] = "stored"]
    /\ UNCHANGED <<identity, forgotten>>

(* A machine that knows who it is is never told anything else.             *)
Learn(a, s) ==
    /\ identity[a] = NoServer
    /\ owner[s] = a /\ s \notin forgotten
    /\ identity' = [identity EXCEPT ![a] = s]
    /\ UNCHANGED <<tokens, owner, madeWith, standing, forgotten>>

Forget(untold) ==
    /\ \A s \in untold : owner[s] # NoMachine /\ identity[owner[s]] # s
    /\ forgotten' = forgotten \cup untold
    /\ UNCHANGED <<tokens, owner, madeWith, standing, identity>>

Remove(s) ==
    /\ standing[s] = "stored"
    /\ \E gone \in {"removed", "revoked"} :
          standing' = [standing EXCEPT ![s] = gone]
    /\ UNCHANGED <<tokens, owner, madeWith, identity, forgotten>>

Restore(s) ==
    /\ standing[s] = "removed"
    /\ standing' = [standing EXCEPT ![s] = "stored"]
    /\ UNCHANGED <<tokens, owner, madeWith, identity, forgotten>>

Next ==
    \/ \E k \in Token : Issue(k) \/ Expire(k)
    \/ \E a \in Machine, s \in Server :
         \/ \E k \in Token : Enroll(a, k, s)
         \/ Learn(a, s)
    \/ \E s \in Server : Remove(s) \/ Restore(s)
    \/ \E untold \in SUBSET Server : Forget(untold)

Spec == Init /\ [][Next]_enrollmentVars
=============================================================================
