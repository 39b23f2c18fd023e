----------------------------- MODULE MCStepLoop -----------------------------
(* Instances of the runner loop: every kind of step, alone and in pairs. *)
EXTENDS StepLoop

KindOf == [w |-> "setup", p |-> "snapshot", c |-> "close", j |-> "job",
           t |-> "turn", d |-> "turn"]
MCKind == [s \in Steps |-> KindOf[s]]

(* d waits for w. *)
MCDeps == [s \in Steps |-> IF s = "d" THEN {"w"} ELSE {}]
=============================================================================
