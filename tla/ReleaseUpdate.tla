---------------------------- MODULE ReleaseUpdate ----------------------------
(***************************************************************************)
(* What an update of a service that is running promises: it is tried, and  *)
(* then it either becomes the release of the service or leaves the one     *)
(* there was; and whenever the service is started meanwhile, it starts     *)
(* from one of these two.  Nothing is promised any more once two updates   *)
(* were tried at the same time.                                            *)
(***************************************************************************)
CONSTANTS Releases, First

VARIABLES
    release,     \* that of the last update that succeeded
    trying,      \* the release that is being tried: one or none
    serving,     \* the one the service runs
    disturbed    \* two updates were tried at the same time

updateVars == <<release, trying, serving, disturbed>>

Init ==
    /\ release = First /\ serving = First
    /\ trying = {}
    /\ disturbed = FALSE

Try(r) ==
    /\ trying = {}
    /\ trying' = {r}
    /\ UNCHANGED <<release, serving>>

(* The service ends, for whatever reason, and is started again.            *)
Restart ==
    /\ serving' \in {release} \cup trying
    /\ UNCHANGED <<release, trying>>

(* The update has succeeded: not before the service runs its release.      *)
Adopt ==
    /\ serving \in trying
    /\ release' = serving
    /\ trying' = {}
    /\ UNCHANGED serving

(* It has failed: not before the service runs the old one again.           *)
Abandon ==
    /\ trying # {}
    /\ trying' = {}
    /\ serving' = release
    /\ UNCHANGED release

Disturbed == disturbed'

Next ==
    \/ /\ \/ \E r \in Releases : Try(r)
          \/ Restart
          \/ Adopt
          \/ Abandon
       /\ ~disturbed /\ UNCHANGED disturbed
    \/ Disturbed

Spec == Init /\ [][Next]_updateVars
=============================================================================
