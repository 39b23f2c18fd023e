------------------------------ MODULE MCRunLog ------------------------------
(* Instances of the run log: the first process caches at every record of its   *)
(* own, the later ones at every second.                                        *)
EXTENDS RunLog

MCEvery == [l \in 1 .. MaxLives |-> IF l = 1 THEN 1 ELSE 2]
=============================================================================
