----------------------------- MODULE StepLedger -----------------------------
(***************************************************************************)
(* What core knows of the steps of a run, as the fold of the run's log     *)
(* (vs_core: _decide.py, _step_attempts.py, _run_park.py, _run_pause.py,   *)
(* _scope_order.py).  A step is one request core asks the runner loop to   *)
(* perform.  Every action but the passing of time is one record appended   *)
(* to the log: by the loop (a start, an interruption, a result, the clock, *)
(* the end of the run) or from outside it (the search's decisions, the     *)
(* operator's controls, a relaunch, which opens an epoch).                 *)
(*                                                                         *)
(* The steps modelled are those of one scope.  Times are kept as the facts *)
(* decide compares: whose limit has passed, whose retry backoff runs, and  *)
(* whether the drain deadline of the pause has passed.                     *)
(***************************************************************************)
EXTENDS Integers, FiniteSets

CONSTANTS
  Steps,        \* the requests of the scope
  Kind,         \* the kind of each
  Deps,         \* the steps each one waits for (depends_on)
  RetryLimit    \* Limits.request_retries.limit

VARIABLES
  phase,        \* RequestRecord.phase; a request not yet prepared is absent
  att,          \* StepsState.attempts: the row of the step, or NoRow
  result,       \* the step's StepResult, or none
  status,       \* RunState.status
  stop,         \* the strongest stop recorded or committed
  finish,       \* RunState.result is set: a Finish is committed
  ended,        \* StepsState.ended: the run's end is in the log
  park,         \* RunState.park: none, or the pause in force
  overdue,      \* the pause's drain deadline has passed
  expired,      \* the open steps whose limit has passed
  backing,      \* the charged open steps whose retry backoff has not passed
  fired         \* the open steps a watch of which has fired

ledger == <<phase, att, result, status, stop, finish, ended, park, overdue,
            expired, backing, fired>>

(* EnsureWorkspace, SnapshotAndRetain, CloseAttemptScope, SubmitMeasurement, *)
(* and a registered turn whose schema asks to be cancelled if interrupted.   *)
Kinds == {"setup", "snapshot", "close", "job", "turn"}

ASSUME StepsAssumption ==
  /\ Kind \in [Steps -> Kinds]
  /\ Deps \in [Steps -> SUBSET Steps]
  /\ RetryLimit \in Nat
  /\ IsFiniteSet(Steps)

NoRow == [n |-> 0, ended |-> TRUE, uncharged |-> 0, unsettled |-> FALSE]
Rows == [n : Nat, ended : BOOLEAN, uncharged : Nat, unsettled : BOOLEAN]
CancelReasons == {"deadline", "withdrawn", "run_ending", "interrupted", "pause"}
(* What the work itself yields: a Finished the search can use, or a Failed or *)
(* unusable one, which the steps that wait for it do not survive.             *)
Yields == {"finished", "failed"}
Results == Yields \cup {"exhausted"} \cup (CancelReasons \ {"pause"})
Interruptions == {"pause", "raised"}

TypeOK ==
  /\ phase \in [Steps -> {"absent", "prepared", "dispatched", "done"}]
  /\ att \in [Steps -> Rows]
  /\ result \in [Steps -> Results \cup {"none"}]
  /\ status \in {"running", "draining", "parked", "closing", "terminal"}
  /\ stop \in {"none", "drain", "cancel"}
  /\ finish \in BOOLEAN
  /\ ended \in BOOLEAN
  /\ park \in {"none", "plain", "timed", "now"}
  /\ overdue \in BOOLEAN
  /\ expired \subseteq Steps
  /\ backing \subseteq Steps
  /\ fired \subseteq Steps

-----------------------------------------------------------------------------
(* What the kind of a step declares. *)

Writes(s) == Kind[s] \in {"setup", "turn"}
Snapshots(s) == Kind[s] = "snapshot"
Closes(s) == Kind[s] = "close"
OwnedJob(s) == Kind[s] = "job"
Rerunnable(s) == Kind[s] \in {"setup", "snapshot", "close"}
DrainEffect(s) == Kind[s] \in {"snapshot", "close"}
WithdrawnOnClose(s) == Kind[s] = "job"
ReleasedAtEnd(s) == Kind[s] = "close"
CancelOnInterrupt(s) == Kind[s] = "turn"

Open(s) == phase[s] \in {"prepared", "dispatched"}
Running(s) == ~att[s].ended
Charged(s) == att[s].n - att[s].uncharged

(* The steps a step waits for, directly or through others. *)
Awaited ==
  LET upto[k \in 0 .. Cardinality(Steps)] ==
        IF k = 0 THEN Deps
        ELSE [s \in Steps |-> upto[k - 1][s]
                                \cup UNION {Deps[d] : d \in upto[k - 1][s]}]
  IN  upto[Cardinality(Steps)]
Follows(r, s) == s \in Awaited[r]

(* A concluded failure is final and outranks what is still unfinished. *)
DependencyFailed(s) ==
  \E d \in Deps[s] : phase[d] = "done" /\ result[d] # "finished"
DependencyPending(s) ==
  ~DependencyFailed(s) /\ \E d \in Deps[s] : phase[d] # "done"

\* Mutant: a snapshot does not wait for the writers of its scope.
snapshotsAnytime(s) ==
  \E r \in Steps \ {s} :
    /\ Open(r)
    /\ \/ Closes(s) /\ ~Follows(r, s)
       \/ Writes(s) /\ Snapshots(r) /\ Running(r)

\* Mutant: a writer waits for a snapshot that has not begun.
writersWaitToo(s) ==
  \E r \in Steps \ {s} :
    /\ Open(r)
    /\ \/ Closes(s) /\ ~Follows(r, s)
       \/ Snapshots(s) /\ Writes(r) /\ ~Follows(r, s)
       \/ Writes(s) /\ Snapshots(r)

(* Another open step of the scope must end, or stop running, first. *)
HoldsBack(s) ==
  \E r \in Steps \ {s} :
    /\ Open(r)
    /\ \/ Closes(s) /\ ~Follows(r, s)
       \/ Snapshots(s) /\ Writes(r) /\ ~Follows(r, s)
       \/ Writes(s) /\ Snapshots(r) /\ Running(r)

WithdrawnByClose(s) ==
  /\ WithdrawnOnClose(s)
  /\ \E r \in Steps \ {s} : Open(r) /\ Closes(r) /\ ~Follows(s, r)

-----------------------------------------------------------------------------
(* The drain of a pause. *)

Immediate == park = "now" \/ overdue

PauseHoldsBack(s) == park # "none" /\ Immediate /\ ~DrainEffect(s)
DispatchAllowed(s) == ~PauseHoldsBack(s) /\ DrainEffect(s)
PauseCancels(s) ==
  \/ PauseHoldsBack(s)
  \/ park # "none" /\ status = "draining" /\ OwnedJob(s)

Admits(s) ==
  \/ status \in {"running", "closing"}
  \/ status = "draining" /\ DispatchAllowed(s)
Starts(s) == ~DependencyPending(s) /\ Admits(s) /\ ~HoldsBack(s)

(* Of the phases ph, the requests a drain no longer waits for go back to      *)
(* prepared: a job's at once, a rerunnable one's when the drain is late.      *)
LetGo(ph, st, late) ==
  IF st = "draining"
  THEN [s \in Steps |->
          IF ph[s] = "dispatched" /\ (OwnedJob(s) \/ (late /\ Rerunnable(s)))
          THEN "prepared" ELSE ph[s]]
  ELSE ph

(* The drain's deadline is the limit of a turn that outlives it, too. *)
DrainCaps(s) ==
  /\ status = "draining" /\ park \in {"timed", "now"}
  /\ Open(s) /\ ~Rerunnable(s) /\ ~OwnedJob(s)

(* Nothing keeps a draining run from parking. *)
Drained ==
  /\ \A s \in Steps : phase[s] = "dispatched" => Immediate /\ Running(s)
  /\ Immediate \/ \A s \in Steps :
       phase[s] = "prepared" =>
         DependencyPending(s) \/ ~DispatchAllowed(s) \/ HoldsBack(s)

ParkIsDue == status = "draining" /\ Drained

\* Mutant: a closing run waits only for what it dispatched.
settlesEarly(ph, a, st) ==
  /\ att' = a
  /\ phase' = LetGo(ph, st, overdue')
  /\ status' = IF st = "draining" /\ Drained' THEN "parked"
               ELSE IF st = "closing" /\ \A s \in Steps : phase'[s] # "dispatched"
               THEN "terminal" ELSE st

(* What every record of core's ends with: settle_park, then settle_end.  The *)
(* record itself leaves the phases ph, the rows a and the status st.         *)
Settle(ph, a, st) ==
  /\ att' = a
  /\ phase' = LetGo(ph, st, overdue')
  /\ status' = IF st = "draining" /\ Drained' THEN "parked"
               ELSE IF st = "closing" /\ \A s \in Steps : ~Open(s)'
               THEN "terminal" ELSE st

-----------------------------------------------------------------------------
(* decide: what the loop does next with a step. *)

RunIsEnding == finish /\ (status = "terminal" \/ stop = "cancel")
RunEndsStep(s) == RunIsEnding /\ (status = "terminal" \/ ~ReleasedAtEnd(s))

EndReason(s) ==
  IF RunEndsStep(s) THEN "run_ending"
  ELSE IF WithdrawnByClose(s) \/ s \in fired THEN "withdrawn" ELSE "none"

(* Why an attempt that runs is cancelled. *)
StopReason(s) ==
  IF EndReason(s) # "none" THEN EndReason(s)
  ELSE IF s \in expired THEN "deadline"
  ELSE IF PauseCancels(s) THEN "pause" ELSE "none"

\* Mutant: one attempt more than the limit allows.
oneTryMore(s) ==
  IF EndReason(s) # "none" THEN EndReason(s)
  ELSE IF DependencyFailed(s) THEN "withdrawn"
  ELSE IF att[s].n > 0 /\ CancelOnInterrupt(s) THEN "interrupted"
  ELSE IF Charged(s) > RetryLimit + 1 THEN "exhausted"
  ELSE IF s \in expired THEN "deadline" ELSE "none"

(* The result of a step that ends with no attempt running. *)
SettledAs(s) ==
  IF EndReason(s) # "none" THEN EndReason(s)
  ELSE IF DependencyFailed(s) THEN "withdrawn"
  ELSE IF att[s].n > 0 /\ CancelOnInterrupt(s) THEN "interrupted"
  ELSE IF Charged(s) > RetryLimit THEN "exhausted"
  ELSE IF s \in expired THEN "deadline" ELSE "none"

RunDue(s) ==
  /\ Open(s) /\ ~Running(s)
  /\ SettledAs(s) = "none"
  /\ Starts(s)
  /\ s \in backing => RunIsEnding

AtRest == IF finish /\ ended THEN "ended"
          ELSE IF status = "parked" THEN "parked" ELSE "none"

-----------------------------------------------------------------------------
(* The records the loop appends. *)

StepStarted(s) ==
  /\ RunDue(s) /\ ~ParkIsDue
  /\ phase' = [phase EXCEPT ![s] = "dispatched"]
  /\ att' = [att EXCEPT ![s] = [n |-> att[s].n + 1, ended |-> FALSE,
                                uncharged |-> att[s].uncharged,
                                unsettled |-> FALSE]]
  /\ UNCHANGED <<result, status, stop, finish, ended, park, overdue, expired,
                 backing, fired>>

CanInterrupt(s) == Open(s) /\ Running(s)
AttemptInterrupted(s, why) ==
  /\ CanInterrupt(s)
  /\ UNCHANGED <<result, stop, finish, ended, park, overdue, expired, fired>>
  /\ backing' = IF why = "raised" THEN backing \cup {s} ELSE backing
  /\ Settle([phase EXCEPT ![s] = "prepared"],
            [att EXCEPT ![s] =
               [n |-> att[s].n, ended |-> TRUE,
                uncharged |-> att[s].uncharged + (IF why = "raised" THEN 0 ELSE 1),
                unsettled |-> att[s].unsettled]],
            status)

CanLose(s) == Open(s) /\ att[s].unsettled
AttemptLost(s) ==
  /\ CanLose(s)
  /\ UNCHANGED <<result, stop, finish, ended, park, overdue, expired, fired>>
  /\ backing' = backing \cup {s}
  /\ Settle(phase,
            [att EXCEPT ![s] =
               [n |-> att[s].n, ended |-> att[s].ended,
                uncharged |-> att[s].uncharged - 1, unsettled |-> FALSE]],
            status)

CanFinish(s) == Open(s)
StepFinished(s, r) ==
  /\ CanFinish(s)
  /\ UNCHANGED <<stop, finish, ended, park, overdue>>
  /\ expired' = expired \ {s} /\ backing' = backing \ {s} /\ fired' = fired \ {s}
  /\ result' = [result EXCEPT ![s] = r]
  /\ Settle([phase EXCEPT ![s] = "done"], [att EXCEPT ![s] = NoRow], status)

ClockAdvanced ==
  /\ UNCHANGED <<result, stop, finish, ended, park, overdue, expired, backing,
                 fired>>
  /\ Settle(phase, att, status)

RunEnded ==
  /\ finish /\ status = "terminal"
  /\ ended' = TRUE
  /\ UNCHANGED <<phase, att, result, status, stop, finish, park, overdue,
                 expired, backing, fired>>

-----------------------------------------------------------------------------
(* The records from outside the loop. *)

(* What core asks for besides the search's decisions: what follows from the    *)
(* work a draining run admitted, and, in a closing one, snapshots and closes,  *)
(* and what is left of the queue if it was stopped by a drain.                 *)
StillAsked(s) ==
  \/ status = "draining" /\ Kind[s] # "setup"
  \/ status = "closing" /\ (DrainEffect(s) \/ (stop = "drain" /\ ~OwnedJob(s)))

(* A step is asked for, after those it waits for. *)
Prepare(s) ==
  /\ (status = "running" /\ ~finish) \/ StillAsked(s)
  /\ phase[s] = "absent"
  /\ \A d \in Deps[s] : phase[d] # "absent"
  /\ UNCHANGED <<result, stop, finish, ended, park, overdue, expired, backing,
                 fired>>
  /\ Settle([phase EXCEPT ![s] = "prepared"], att, status)

\* Mutant: a pause that finds nothing to wait for still waits.
pausesUnsettled(kind) ==
  /\ \/ status = "running" /\ stop = "none" /\ ~finish
     \/ status = "draining" /\ kind = "now"
  /\ park' = kind
  /\ overdue' = FALSE
  /\ status' = "draining"
  /\ UNCHANGED <<phase, att, result, stop, finish, ended, expired, backing, fired>>

(* The operator pauses: with no limit, with drain_seconds, or now. *)
Pause(kind) ==
  /\ \/ status = "running" /\ stop = "none" /\ ~finish
     \/ status = "draining" /\ kind = "now"
  /\ park' = kind
  /\ overdue' = FALSE
  /\ UNCHANGED <<result, stop, finish, ended, expired, backing, fired>>
  /\ Settle(phase, att, "draining")

Escalate(held, mode) == IF held = "cancel" THEN held ELSE mode

(* The operator stops the run: the search is told, and finishes it. *)
Stop(mode) ==
  /\ status \in {"running", "closing"}
  /\ stop' = Escalate(stop, mode)
  /\ UNCHANGED <<result, finish, ended, park, overdue, expired, backing, fired>>
  /\ Settle(phase, att, status)

\* Mutant: a finish that finds nothing open does not end the run.
finishesUnsettled(mode) ==
  /\ status = "running" /\ ~finish
  /\ stop' = Escalate(stop, mode)
  /\ finish' = TRUE
  /\ park' = "none"
  /\ status' = "closing"
  /\ UNCHANGED <<phase, att, result, ended, overdue, expired, backing, fired>>

(* The search commits the run's Finish. *)
Finish(mode) ==
  /\ status = "running" /\ ~finish
  /\ stop' = Escalate(stop, mode)
  /\ finish' = TRUE
  /\ park' = "none"
  /\ UNCHANGED <<result, ended, overdue, expired, backing, fired>>
  /\ Settle(phase, att, "closing")

\* Mutant: what a parked run still held counts as lost with its host.
parkedCounts(s) ==
  [n |-> att[s].n, ended |-> TRUE, uncharged |-> att[s].uncharged + 1,
   unsettled |-> TRUE]

(* The row of an attempt the earlier epoch left running: not charged, and left *)
(* for clear to settle, unless a park held it.                                *)
EpochRow(s) ==
  [n |-> att[s].n, ended |-> TRUE, uncharged |-> att[s].uncharged + 1,
   unsettled |-> att[s].unsettled \/ status # "parked"]

\* Mutant: an epoch opens every step again.
allReturned(s) == IF phase[s] # "absent" THEN "prepared" ELSE phase[s]

Returned(s) == IF phase[s] = "dispatched" THEN "prepared" ELSE phase[s]

(* A relaunch opens an epoch: every attempt of the earlier one is over, and   *)
(* a run that stood paused is resumed by the same start.                      *)
OpenEpoch ==
  /\ ~ended
  /\ att' = [s \in Steps |-> IF Running(s) THEN EpochRow(s) ELSE att[s]]
  /\ phase' = [s \in Steps |-> Returned(s)]
  /\ status' = IF status \in {"draining", "parked"} THEN "running" ELSE status
  /\ park' = "none"
  /\ overdue' = FALSE
  /\ UNCHANGED <<result, stop, finish, ended, expired, backing, fired>>

-----------------------------------------------------------------------------
(* Time passing, and a watch of a step firing: no record. *)

LimitPasses(s) ==
  /\ Open(s) /\ s \notin expired
  /\ expired' = expired \cup {s}
  /\ UNCHANGED <<phase, att, result, status, stop, finish, ended, park, overdue,
                 backing, fired>>

BackoffPasses(s) ==
  /\ s \in backing
  /\ backing' = backing \ {s}
  /\ UNCHANGED <<phase, att, result, status, stop, finish, ended, park, overdue,
                 expired, fired>>

DrainPasses ==
  /\ park \in {"timed", "now"} /\ ~overdue
  /\ overdue' = TRUE
  /\ UNCHANGED <<phase, att, result, status, stop, finish, ended, park, expired,
                 backing, fired>>

WatchFires(s) ==
  /\ Open(s) /\ s \notin fired
  /\ fired' = fired \cup {s}
  /\ UNCHANGED <<phase, att, result, status, stop, finish, ended, park, overdue,
                 expired, backing>>

-----------------------------------------------------------------------------
(* A run starts with some of its steps already asked for. *)
LedgerInit ==
  /\ phase \in [Steps -> {"absent", "prepared"}]
  /\ \A s \in Steps : phase[s] # "absent" => \A d \in Deps[s] : phase[d] # "absent"
  /\ att = [s \in Steps |-> NoRow]
  /\ result = [s \in Steps |-> "none"]
  /\ status = "running" /\ stop = "none" /\ finish = FALSE /\ ended = FALSE
  /\ park = "none" /\ overdue = FALSE
  /\ expired = {} /\ backing = {} /\ fired = {}

LedgerNext ==
  \/ \E s \in Steps :
       \/ StepStarted(s)
       \/ \E why \in Interruptions : AttemptInterrupted(s, why)
       \/ AttemptLost(s)
       \/ \E r \in Results : StepFinished(s, r)
       \/ Prepare(s) \/ LimitPasses(s) \/ BackoffPasses(s) \/ WatchFires(s)
  \/ ClockAdvanced \/ RunEnded \/ OpenEpoch \/ DrainPasses
  \/ \E kind \in {"plain", "timed", "now"} : Pause(kind)
  \/ \E mode \in {"drain", "cancel"} : Stop(mode) \/ Finish(mode)

LedgerSpec == LedgerInit /\ [][LedgerNext]_ledger

-----------------------------------------------------------------------------
(* Properties. *)

(* The retry bound: whatever raises, dies with its host, is paused or adopted, *)
(* a step is charged at most one attempt more than request_retries allows.     *)
RetryBound == \A s \in Steps : Charged(s) <= RetryLimit + 1

(* A closing run has a step to wait for: with none left, the record that ended *)
(* the last one made it terminal, and nothing else would (settle_end).         *)
ClosingHasWork == status = "closing" => \E s \in Steps : Open(s)

(* A draining run waits for something until its deadline passes: only time     *)
(* makes a park due that no record has made (_park_is_due).                    *)
DrainWaits == status = "draining" /\ ~overdue => ~Drained

(* The end is published only over steps that all have their results, and none  *)
(* keeps an attempt (run_ended).                                               *)
EndIsClean == ended => \A s \in Steps : ~Open(s) /\ att[s] = NoRow

(* A step's result is given once: no later record of a stale attempt, an epoch *)
(* or the run's end replaces it or opens the step again (finished, open_record).*)
ResultSticks ==
  [][\A s \in Steps : result[s] # "none" =>
       result'[s] = result[s] /\ phase'[s] = "done"]_ledger
=============================================================================
