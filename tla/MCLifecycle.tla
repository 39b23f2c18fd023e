---------------------------- MODULE MCLifecycle ----------------------------
(***************************************************************************)
(* The instance of Lifecycle for TLC: two jobs of one store, of which only *)
(* the first meets troubles.                                               *)
(***************************************************************************)
EXTENDS Lifecycle

OneStore == [j \in Jobs |-> "s"]

\* Only the first job is cancelled, fails to start or is left behind by its store.
OneTroubled ==
    \A j \in Jobs \ {1} :
        /\ ~entry[j].cancelAsked /\ ~entry[j].armed /\ entry[j].spawnFailures = 0
        /\ entry[j].phase \in {"none", "queued", "launching", "running", "indoubt"}
=============================================================================
