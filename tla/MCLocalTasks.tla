---------------------------- MODULE MCLocalTasks ----------------------------
(* Instances of LocalTasks for TLC.                                        *)
EXTENDS LocalTasks, TLC

(* Goroutines, handlers and keys are interchangeable.  Only for runs       *)
(* without liveness properties.                                            *)
Symmetry == Permutations(Worker) \cup Permutations(Handler)
                \cup Permutations(Key)
=============================================================================
