---------------------------- MODULE MCJobDaemon ----------------------------
(***************************************************************************)
(* Instances of JobDaemon for TLC.                                         *)
(***************************************************************************)
EXTENDS JobDaemon

OneStore == [j \in Jobs |-> "s"]
OwnStores == [j \in Jobs |-> IF j = 1 THEN "s" ELSE "t"]
=============================================================================
