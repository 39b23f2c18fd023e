---------------------------- MODULE StepContract ----------------------------
(***************************************************************************)
(* What the runner loop promises of the steps of a run, whatever the       *)
(* runner, the operator and the host do: a step's work is alive at most    *)
(* once at a time and never after its result; a step has one result, given *)
(* only over work that is gone, unless a run that is ending gave up on it; *)
(* and the run is over only when every step asked for has its result.      *)
(***************************************************************************)
EXTENDS Naturals

CONSTANTS Steps, Outcomes

VARIABLES
  asked,        \* the steps core asked for
  work,         \* whether work of the step is alive, as a count
  outcome,      \* the step's result, or none
  givenUp,      \* the steps an ending run no longer waits for
  ending,       \* the run is ending by a cancel
  over          \* the run's end is published

contract == <<asked, work, outcome, givenUp, ending, over>>

Init ==
  /\ asked \subseteq Steps
  /\ work = [s \in Steps |-> 0]
  /\ outcome = [s \in Steps |-> "none"]
  /\ givenUp = {} /\ ending = FALSE /\ over = FALSE

Ask(s) ==
  /\ ~over
  /\ asked' = asked \cup {s}
  /\ UNCHANGED <<work, outcome, givenUp, ending, over>>

Begin(s) ==
  /\ s \in asked /\ outcome[s] = "none" /\ work[s] = 0 /\ ~over
  /\ work' = [work EXCEPT ![s] = 1]
  /\ UNCHANGED <<asked, outcome, givenUp, ending, over>>

(* Work ends by itself, is cancelled or removed, or dies with the host. *)
Gone(some) ==
  /\ work' = [s \in Steps |-> IF s \in some THEN 0 ELSE work[s]]
  /\ UNCHANGED <<asked, outcome, givenUp, ending, over>>

GiveUp(s) ==
  /\ ending /\ outcome[s] = "none"
  /\ givenUp' = givenUp \cup {s}
  /\ UNCHANGED <<asked, work, outcome, ending, over>>

(* The result is given as the work ends, or after it, or after giving up. *)
Conclude(s, r) ==
  /\ s \in asked /\ outcome[s] = "none" /\ ~over
  /\ outcome' = [outcome EXCEPT ![s] = r]
  /\ \/ work' = [work EXCEPT ![s] = 0] /\ UNCHANGED givenUp
     \/ s \in givenUp' /\ UNCHANGED work
  /\ \/ UNCHANGED givenUp
     \/ ending /\ givenUp' = givenUp \cup {s}
  /\ ending' \in {ending, TRUE}
  /\ UNCHANGED <<asked, over>>

StartEnding ==
  /\ ending' = TRUE
  /\ UNCHANGED <<asked, work, outcome, givenUp, over>>

Publish ==
  /\ \A s \in asked : outcome[s] # "none"
  /\ over' = TRUE
  /\ UNCHANGED <<asked, work, outcome, givenUp, ending>>

Next ==
  \/ \E s \in Steps :
       Ask(s) \/ Begin(s) \/ GiveUp(s) \/ \E r \in Outcomes : Conclude(s, r)
  \/ \E some \in SUBSET {s \in Steps : work[s] > 0} : Gone(some)
  \/ StartEnding \/ Publish

Spec == Init /\ [][Next]_contract
=============================================================================
