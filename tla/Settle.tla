-------------------------------- MODULE Settle --------------------------------
(***************************************************************************)
(* How a job ends: the state machine every store applies                   *)
(* (core/transition.go), what a supervisor's outcome means for its job and *)
(* what comes of a job whose supervisor is proved gone                     *)
(* (lifecycle/settle.go).  A settlement is the transition it offers the    *)
(* store; times, reasons, exit codes, results and the lines added to the   *)
(* output are left out.                                                    *)
(***************************************************************************)
EXTENDS Integers

CONSTANT MaxAttempts   \* core.MaxAttempts

ASSUME AttemptsAssumption == MaxAttempts \in Nat \ {0}

FinalStates == {"succeeded", "failed", "cancelled", "lost"}
JobStates == {"queued", "running"} \cup FinalStates

\* JobState.next and CanMoveTo.
CanMoveTo(from, to) ==
    \/ from = "queued" /\ to \in {"running", "cancelled", "failed"}
    \/ from = "running" /\ to \in FinalStates \cup {"queued"}

\* Job.Apply, on a job of the store: [state, attempts].  A transition that does
\* not apply is refused and leaves the job as it was.
Applies(job, t) ==
    /\ t.from = job.state
    /\ CanMoveTo(t.from, t.to)
    /\ t.to = "queued" => job.attempts + 1 < MaxAttempts

\* Mutant: every move counts as an attempt.
applyCounting(job, t) == [state |-> t.to, attempts |-> job.attempts + 1]

\* Mutant: a job put back in the queue keeps its count of attempts.
applyUncounted(job, t) == [state |-> t.to, attempts |-> job.attempts]

Apply(job, t) ==
    [state |-> t.to, attempts |-> IF t.to = "queued" THEN job.attempts + 1 ELSE job.attempts]

-----------------------------------------------------------------------------
\* Settlement: the move offered to the store.  Only a move to queued has a cut.
Settlement == [from : {"queued", "running"}, to : FinalStates \cup {"queued"}]
NoSettlement == [from |-> "none", to |-> "none"]
Requeues(st) == st.to = "queued"

Ended(to) == [from |-> "running", to |-> to]

\* core.ExecOutcome: how a command that ran ended.
Execs == {"exited 0", "exited nonzero", "timed out", "service not ready",
          "service exited", "cancelled", "unknown"}

\* Outcome: how a command job's attempt, or a check or measure job, ended, and
\* whether a cancel reached the supervisor first.  For a flow, an exec is the
\* verdict Stopped.
Outcome == [kind : {"command"}, how : Execs \cup {"not started", "unobserved", "none"},
            cancelAsked : BOOLEAN]
           \cup [kind : {"flow"}, how : Execs \cup {"passed", "not attempted", "rejected", "lost", "none"},
                 cancelAsked : BOOLEAN]
           \cup [kind : {"none"}, how : {"none"}, cancelAsked : BOOLEAN]

\* Mutant: a command that a cancel ended is judged as one that ended by itself.
ranByItself(exec, cancelAsked) ==
    CASE exec = "exited 0" -> Ended("succeeded")
      [] exec \in {"exited nonzero", "timed out", "service not ready", "service exited"} -> Ended("failed")
      [] OTHER -> Ended("lost")

settleRan(exec, cancelAsked) ==
    CASE exec = "exited 0" -> Ended("succeeded")
      [] exec \in {"exited nonzero", "timed out", "service not ready", "service exited"} -> Ended("failed")
      [] exec = "cancelled" /\ cancelAsked -> Ended("cancelled")
      [] OTHER -> Ended("lost")

settleAttempt(o) ==
    CASE o.how \in Execs -> settleRan(o.how, o.cancelAsked)
      [] o.how = "not started" -> Ended("failed")
      [] OTHER -> Ended("lost")

settleVerdict(o) ==
    CASE o.how = "passed" -> Ended("succeeded")
      [] o.how = "exited 0" -> Ended("lost")
      [] o.how \in Execs \ {"exited 0"} -> settleRan(o.how, o.cancelAsked)
      [] o.how \in {"not attempted", "rejected"} -> Ended("failed")
      [] OTHER -> Ended("lost")

SettleOutcome(o) ==
    CASE o.kind = "command" -> settleAttempt(o)
      [] o.kind = "flow" -> settleVerdict(o)
      [] OTHER -> Ended("lost")

cancelQueued == [from |-> "queued", to |-> "cancelled"]
failedToLaunch == [from |-> "queued", to |-> "failed"]
stoppedJob == Ended("failed")
lostJob == Ended("lost")
givenUpJob == Ended("lost")

\* DeathProof.Valid, and what is known of whether the command was told to start.
Proofs == {"none", "lock free", "rebooted", "released"}
ValidProof(proof) == proof # "none"
StartKnown == {"never", "may"}

\* Mutant: a job of any kind is queued again.
cutOffAnyKind(rerun, attempts, proof, start) ==
    IF proof \in {"lock free", "rebooted"} /\ attempts + 1 < MaxAttempts
    THEN Ended("queued")
    ELSE lostJob

\* CutOff: queued again only with a proof that is not a release, when the command
\* never started or the job's kind is rerun, and while attempts are left.
CutOff(rerun, attempts, proof, start) ==
    IF /\ proof \in {"lock free", "rebooted"}
       /\ start = "never" \/ rerun
       /\ attempts + 1 < MaxAttempts
    THEN Ended("queued")
    ELSE lostJob
=============================================================================
