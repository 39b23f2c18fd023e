--------------------------- MODULE StepLoopProofs ---------------------------
(***************************************************************************)
(* The ledger, the runner loop that keeps it, and the contract of the      *)
(* loop, in this order.                                                    *)
(*                                                                         *)
(* The safety properties of StepLedger hold for every set of steps, every  *)
(* kind and dependency of each, and every retry limit.                     *)
(*                                                                         *)
(* The runner loop implements the ledger: whatever its tasks, the runner's *)
(* calls, the host and the operator do, in any order and number, what the  *)
(* loop does to the fold is one record of the ledger or none.  So what is  *)
(* proved of the ledger holds of the loop.  The ledger takes a result or   *)
(* an interruption of a known kind only, and a flight records with what it *)
(* was told long before: the reason core ended its step for, the result it *)
(* was to settle with.  The invariant says that where a flight will record *)
(* with one, it has one.                                                   *)
(*                                                                         *)
(* The runner loop keeps its contract: for any steps of any kinds, and any *)
(* number of crashes, pauses and failing calls, the work of a step is      *)
(* alive at most once, never begins after the step's result, and is gone   *)
(* when the result is given, unless an ending run gave up on it.  The      *)
(* argument ties each flight to the attempt it reports.  A flight lives    *)
(* for several awaits while the ledger moves on; that its record is never  *)
(* refused, that no attempt runs without a flight, and that what it starts *)
(* finds no work alive, all rest on where a flight may be while its step   *)
(* has an attempt running, and where it may be while it has none: LoopInv, *)
(* kept by every step of the loop.  What each step of a flight does to the *)
(* flight, its attempt and its work is one of a few moves (FlightMove,     *)
(* FlightFrame).                                                           *)
(***************************************************************************)
EXTENDS StepLoop, TLAPS

\* Zenon proves a step that names no prover.
USE Zenon

-----------------------------------------------------------------------------
(* The ledger. *)

Phases == {"absent", "prepared", "dispatched", "done"}
Statuses == {"running", "draining", "parked", "closing", "terminal"}

(* What a record keeps of a step's row: only an open step has one; a step is  *)
(* dispatched only while its attempt runs; an attempt of a dead host is not   *)
(* charged before it is settled, so charging it once keeps within the bound.  *)
RowOK(ph, a, res, s) ==
  /\ ph[s] \in {"absent", "done"} => a[s] = NoRow
  /\ ph[s] = "dispatched" => ~a[s].ended
  /\ a[s].n - a[s].uncharged <= RetryLimit + 1
  /\ a[s].unsettled =>
       /\ a[s].ended /\ a[s].uncharged >= 1
       /\ a[s].n - a[s].uncharged <= RetryLimit
  /\ res[s] # "none" <=> ph[s] = "done"

RunOK ==
  /\ finish => status \in {"closing", "terminal"}
  /\ status \in {"closing", "terminal"} => finish
  /\ status = "terminal" => \A s \in Steps : ~Open(s)
  /\ ended => status = "terminal"
  /\ ClosingHasWork
  /\ DrainWaits

LedgerInv ==
  /\ TypeOK
  /\ \A s \in Steps : RowOK(phase, att, result, s)
  /\ RunOK

(* An empty row is a row within the bound. *)
LEMMA NoRowOK ==
  /\ NoRow \in Rows
  /\ NoRow.n = 0 /\ NoRow.ended /\ NoRow.uncharged = 0 /\ ~NoRow.unsettled
BY DEF NoRow, Rows

(* What settle_park and settle_end leave of a record that keeps the rows. *)
LEMMA Settled ==
  ASSUME NEW ph \in [Steps -> Phases], NEW a \in [Steps -> Rows],
         NEW st \in Statuses,
         Settle(ph, a, st),
         \A s \in Steps : RowOK(ph, a, result', s)
  PROVE  /\ phase' \in [Steps -> Phases]
         /\ att' \in [Steps -> Rows]
         /\ status' \in Statuses
         /\ \A s \in Steps : RowOK(phase, att, result, s)'
         /\ \A s \in Steps : Open(s)' <=> ph[s] \in {"prepared", "dispatched"}
         /\ status' = "closing" => st = "closing" /\ \E s \in Steps : Open(s)'
         /\ status' = "draining" => st = "draining" /\ ~Drained'
         /\ status' = "terminal" =>
              \/ st = "terminal"
              \/ st = "closing" /\ \A s \in Steps : ~Open(s)'
         /\ st \in {"closing", "terminal"} => status' \in {"closing", "terminal"}
         /\ \A s \in Steps : ph[s] = "done" => phase'[s] = "done"
<1>1. phase' \in [Steps -> Phases]
  BY DEF Settle, LetGo, Phases
<1>2. \A s \in Steps : \/ phase'[s] = ph[s]
                       \/ ph[s] = "dispatched" /\ phase'[s] = "prepared"
  BY DEF Settle, LetGo
<1>3. att' = a
  BY DEF Settle
<1>4. \A s \in Steps : RowOK(phase, att, result, s)'
  BY <1>2, <1>3 DEF RowOK
<1>5. \A s \in Steps : Open(s)' <=> ph[s] \in {"prepared", "dispatched"}
  BY <1>2 DEF Open
<1>6. /\ status' \in Statuses
      /\ status' = "closing" => st = "closing" /\ \E s \in Steps : Open(s)'
      /\ status' = "draining" => st = "draining" /\ ~Drained'
      /\ status' = "terminal" =>
              \/ st = "terminal"
              \/ st = "closing" /\ \A s \in Steps : ~Open(s)'
      /\ st \in {"closing", "terminal"} => status' \in {"closing", "terminal"}
  <2> HIDE DEF Open, Drained
  <2> QED BY DEF Settle, Statuses
<1> QED BY <1>1, <1>2, <1>3, <1>4, <1>5, <1>6

LEMMA InitInv == LedgerInit => LedgerInv
<1> SUFFICES ASSUME LedgerInit PROVE LedgerInv
  OBVIOUS
<1>1. TypeOK
  BY NoRowOK DEF LedgerInit, TypeOK
<1>2. \A s \in Steps : RowOK(phase, att, result, s)
  BY NoRowOK, StepsAssumption, SMT DEF LedgerInit, RowOK
<1>3. RunOK
  BY DEF LedgerInit, RunOK, ClosingHasWork, DrainWaits
<1> QED BY <1>1, <1>2, <1>3 DEF LedgerInv

(* A record that ends in Settle keeps the invariant if the rows it leaves are *)
(* sound and it moves the run's status as the lifecycle allows.               *)
LEMMA RecordInv ==
  ASSUME LedgerInv, TypeOK',
         NEW ph \in [Steps -> Phases], NEW a \in [Steps -> Rows],
         NEW st \in Statuses,
         Settle(ph, a, st),
         \A s \in Steps : RowOK(ph, a, result', s),
         finish' <=> st \in {"closing", "terminal"},
         st = "terminal" => \A s \in Steps : ph[s] \notin {"prepared", "dispatched"},
         ended' => st = "terminal"
  PROVE  LedgerInv'
<1>1. /\ \A s \in Steps : RowOK(phase, att, result, s)'
      /\ \A s \in Steps : Open(s)' <=> ph[s] \in {"prepared", "dispatched"}
      /\ status' = "closing" => st = "closing" /\ \E s \in Steps : Open(s)'
      /\ status' = "draining" => st = "draining" /\ ~Drained'
      /\ status' = "terminal" =>
           \/ st = "terminal"
           \/ st = "closing" /\ \A s \in Steps : ~Open(s)'
      /\ st \in {"closing", "terminal"} => status' \in {"closing", "terminal"}
      /\ status' \in Statuses
  <2> HIDE DEF Open, Drained
  <2> QED BY Settled
<1>2. st = "terminal" => status' = "terminal"
  BY DEF Settle
<1>3. RunOK'
  <2> HIDE DEF Open, Drained
  <2> QED BY <1>1, <1>2 DEF RunOK, ClosingHasWork, DrainWaits, Statuses
<1> QED BY <1>1, <1>3 DEF LedgerInv

(* A step that only lets time pass, or a watch fire. *)
LEMMA QuietInv ==
  ASSUME LedgerInv, TypeOK',
         UNCHANGED <<phase, att, result, status, finish, ended, park>>,
         overdue' \in {overdue, TRUE}
  PROVE  LedgerInv'
<1>1. \A s \in Steps : RowOK(phase, att, result, s)'
  BY DEF LedgerInv, RowOK
<1>2. DrainWaits'
  <2>1. CASE overdue' = overdue
    <3>1. Drained' <=> Drained
      BY <2>1 DEF Drained, Immediate, Running, DependencyPending, DependencyFailed,
               DispatchAllowed, PauseHoldsBack, HoldsBack, Open
    <3> QED BY <2>1, <3>1 DEF LedgerInv, RunOK, DrainWaits
  <2>2. CASE overdue' = TRUE
    BY <2>2 DEF DrainWaits
  <2> QED BY <2>1, <2>2
<1>3. RunOK'
  BY <1>2 DEF LedgerInv, RunOK, ClosingHasWork, Open
<1> QED BY <1>1, <1>3 DEF LedgerInv

LEMMA StartInv ==
  ASSUME LedgerInv, NEW s \in Steps, StepStarted(s)
  PROVE  LedgerInv'
<1>1. TypeOK'
  BY SMT DEF LedgerInv, TypeOK, StepStarted, Rows
<1>2. /\ phase[s] \in {"prepared", "dispatched"} /\ att[s].ended
      /\ att[s].n - att[s].uncharged <= RetryLimit
  <2>1. SettledAs(s) = "none" /\ Open(s) /\ ~Running(s)
    BY DEF StepStarted, RunDue
  <2>2. Charged(s) <= RetryLimit
    BY <2>1, StepsAssumption, SMT DEF SettledAs, Charged, LedgerInv, TypeOK, Rows
  <2> QED BY <2>1, <2>2 DEF Open, Running, Charged
<1>3. \A r \in Steps : RowOK(phase, att, result, r)'
  <2> SUFFICES ASSUME NEW r \in Steps PROVE RowOK(phase, att, result, r)'
    OBVIOUS
  <2>1. CASE r = s
    <3>1. /\ phase'[s] = "dispatched" /\ result'[s] = result[s]
          /\ att'[s] = [n |-> att[s].n + 1, ended |-> FALSE,
                        uncharged |-> att[s].uncharged, unsettled |-> FALSE]
      BY DEF StepStarted, LedgerInv, TypeOK
    <3> QED BY <3>1, <2>1, <1>2, StepsAssumption, SMT DEF LedgerInv, TypeOK, Rows, RowOK
  <2>2. CASE r # s
    BY <2>2 DEF StepStarted, LedgerInv, TypeOK, RowOK
  <2> QED BY <2>1, <2>2
<1>4. DrainWaits'
  <2> SUFFICES ASSUME status = "draining", ~overdue PROVE ~Drained'
    BY DEF DrainWaits, StepStarted
  <2>1. park # "now"
    <3>1. \A r \in Steps : phase[r] = "dispatched" => Running(r)
      BY DEF LedgerInv, RowOK, Running
    <3> QED BY <3>1 DEF LedgerInv, RunOK, DrainWaits, Drained, Immediate
  <2>2. phase'[s] = "dispatched" /\ ~Immediate'
    BY <2>1 DEF StepStarted, LedgerInv, TypeOK, Immediate
  <2> QED BY <2>2 DEF Drained
<1>5. \A r \in Steps : Open(r)' <=> Open(r)
  BY <1>2 DEF StepStarted, Open, LedgerInv, TypeOK
<1>6. RunOK'
  BY <1>4, <1>5 DEF StepStarted, LedgerInv, RunOK, ClosingHasWork
<1> QED BY <1>1, <1>3, <1>6 DEF LedgerInv

LEMMA InterruptInv ==
  ASSUME LedgerInv, NEW s \in Steps, NEW why \in Interruptions,
         AttemptInterrupted(s, why)
  PROVE  LedgerInv'
<1> DEFINE row == [n |-> att[s].n, ended |-> TRUE,
             uncharged |-> att[s].uncharged + (IF why = "raised" THEN 0 ELSE 1),
             unsettled |-> att[s].unsettled]
           ph == [phase EXCEPT ![s] = "prepared"]
           a == [att EXCEPT ![s] = row]
<1>1. phase[s] \in {"prepared", "dispatched"} /\ ~att[s].ended
  BY DEF AttemptInterrupted, CanInterrupt, Open, Running
<1>2. row \in Rows
  BY SMT DEF LedgerInv, TypeOK, Rows
<1>3. ph \in [Steps -> Phases] /\ a \in [Steps -> Rows] /\ status \in Statuses
  BY <1>2 DEF LedgerInv, TypeOK, Phases, Statuses
<1>4. Settle(ph, a, status)
  BY DEF AttemptInterrupted
<1>5. \A r \in Steps : RowOK(ph, a, result', r)
  <2> SUFFICES ASSUME NEW r \in Steps PROVE RowOK(ph, a, result', r)
    OBVIOUS
  <2>1. CASE r = s
    <3>1. ph[s] = "prepared" /\ a[s] = row /\ result'[s] = result[s]
      BY DEF AttemptInterrupted, LedgerInv, TypeOK
    <3>2. /\ row.ended /\ row.unsettled = att[s].unsettled
          /\ row.n - row.uncharged <= att[s].n - att[s].uncharged
      BY SMT DEF LedgerInv, TypeOK, Rows
    <3>3. RowOK(phase, att, result, s)
      BY DEF LedgerInv
    <3> HIDE DEF row, ph, a
    <3>4. att[s] \in Rows
      BY DEF LedgerInv, TypeOK
    <3> QED BY <3>1, <3>2, <3>3, <3>4, <2>1, <1>1, <1>2, StepsAssumption, SMT
            DEF RowOK, Rows
  <2>2. CASE r # s
    BY <2>2 DEF AttemptInterrupted, LedgerInv, TypeOK, RowOK
  <2> QED BY <2>1, <2>2
<1>6. status # "terminal"
  BY <1>1 DEF LedgerInv, RunOK, Open
<1>7. TypeOK'
  <2> HIDE DEF ph, a
  <2> QED BY <1>3, <1>4, <1>5, Settled
          DEF AttemptInterrupted, LedgerInv, TypeOK, Phases, Statuses
<1>8. (finish' <=> status \in {"closing", "terminal"}) /\ (ended' => status = "terminal")
  BY DEF AttemptInterrupted, LedgerInv, TypeOK, RunOK
<1> HIDE DEF ph, a
<1> QED BY <1>3, <1>4, <1>5, <1>6, <1>7, <1>8, RecordInv

LEMMA LostInv ==
  ASSUME LedgerInv, NEW s \in Steps, AttemptLost(s)
  PROVE  LedgerInv'
<1> DEFINE row == [n |-> att[s].n, ended |-> att[s].ended,
                   uncharged |-> att[s].uncharged - 1, unsettled |-> FALSE]
           a == [att EXCEPT ![s] = row]
<1>1. Open(s) /\ att[s].unsettled
  BY DEF AttemptLost, CanLose
<1>2. RowOK(phase, att, result, s) /\ att[s] \in Rows
  BY DEF LedgerInv, TypeOK
<1>3. /\ row \in Rows
      /\ row.ended = att[s].ended /\ ~row.unsettled
      /\ row.n - row.uncharged <= RetryLimit + 1
  BY <1>1, <1>2, StepsAssumption, SMT DEF RowOK, Rows
<1>4. phase \in [Steps -> Phases] /\ a \in [Steps -> Rows] /\ status \in Statuses
  BY <1>3 DEF LedgerInv, TypeOK, Phases, Statuses
<1>5. Settle(phase, a, status)
  BY DEF AttemptLost
<1>6. \A r \in Steps : RowOK(phase, a, result', r)
  <2> SUFFICES ASSUME NEW r \in Steps PROVE RowOK(phase, a, result', r)
    OBVIOUS
  <2>1. CASE r = s
    <3>1. a[s] = row /\ result'[s] = result[s]
      BY DEF AttemptLost, LedgerInv, TypeOK
    <3> HIDE DEF row, a
    <3> QED BY <3>1, <2>1, <1>1, <1>2, <1>3 DEF RowOK, Open
  <2>2. CASE r # s
    BY <2>2 DEF AttemptLost, LedgerInv, TypeOK, RowOK
  <2> QED BY <2>1, <2>2
<1>7. status # "terminal"
  BY <1>1 DEF LedgerInv, RunOK
<1>8. TypeOK'
  <2> HIDE DEF a
  <2> QED BY <1>4, <1>5, <1>6, Settled
          DEF AttemptLost, LedgerInv, TypeOK, Phases, Statuses
<1>9. (finish' <=> status \in {"closing", "terminal"}) /\ (ended' => status = "terminal")
  BY DEF AttemptLost, LedgerInv, TypeOK, RunOK
<1> HIDE DEF a
<1> QED BY <1>4, <1>5, <1>6, <1>7, <1>8, <1>9, RecordInv

LEMMA FinishedInv ==
  ASSUME LedgerInv, NEW s \in Steps, NEW r \in Results, StepFinished(s, r)
  PROVE  LedgerInv'
<1> DEFINE ph == [phase EXCEPT ![s] = "done"]
           a == [att EXCEPT ![s] = NoRow]
<1>1. Open(s)
  BY DEF StepFinished, CanFinish
<1>2. ph \in [Steps -> Phases] /\ a \in [Steps -> Rows] /\ status \in Statuses
  BY NoRowOK DEF LedgerInv, TypeOK, Phases, Statuses
<1>3. Settle(ph, a, status)
  BY DEF StepFinished
<1>4. r # "none"
  BY DEF Results, Yields, CancelReasons
<1>5. \A q \in Steps : RowOK(ph, a, result', q)
  <2> SUFFICES ASSUME NEW q \in Steps PROVE RowOK(ph, a, result', q)
    OBVIOUS
  <2>1. CASE q = s
    <3>1. ph[s] = "done" /\ a[s] = NoRow /\ result'[s] = r
      BY DEF StepFinished, LedgerInv, TypeOK
    <3> HIDE DEF ph, a
    <3> QED BY <3>1, <2>1, <1>4, NoRowOK, StepsAssumption, SMT DEF RowOK
  <2>2. CASE q # s
    BY <2>2 DEF StepFinished, LedgerInv, TypeOK, RowOK
  <2> QED BY <2>1, <2>2
<1>6. status # "terminal"
  BY <1>1 DEF LedgerInv, RunOK
<1>7. TypeOK'
  <2>1. result' \in [Steps -> Results \cup {"none"}]
    BY DEF StepFinished, LedgerInv, TypeOK
  <2>2. expired' \subseteq Steps /\ backing' \subseteq Steps /\ fired' \subseteq Steps
    BY DEF StepFinished, LedgerInv, TypeOK
  <2> HIDE DEF ph, a
  <2>3. phase' \in [Steps -> Phases] /\ att' \in [Steps -> Rows] /\ status' \in Statuses
    BY <1>2, <1>3, <1>5, Settled
  <2> QED BY <2>1, <2>2, <2>3
          DEF StepFinished, LedgerInv, TypeOK, Phases, Statuses
<1>8. (finish' <=> status \in {"closing", "terminal"}) /\ (ended' => status = "terminal")
  BY DEF StepFinished, LedgerInv, TypeOK, RunOK
<1> HIDE DEF ph, a
<1> QED BY <1>2, <1>3, <1>5, <1>6, <1>7, <1>8, RecordInv

(* The records that leave phases and rows alone and move the run's status. *)
LEMMA ControlInv ==
  ASSUME LedgerInv, UNCHANGED <<result, ended, expired, backing, fired>>,
         NEW st \in Statuses, Settle(phase, att, st),
         stop' \in {"none", "drain", "cancel"}, finish' \in BOOLEAN,
         park' \in {"none", "plain", "timed", "now"}, overdue' \in BOOLEAN,
         finish' <=> st \in {"closing", "terminal"},
         st = "terminal" <=> status = "terminal"
  PROVE  LedgerInv'
<1>1. phase \in [Steps -> Phases] /\ att \in [Steps -> Rows]
  BY DEF LedgerInv, TypeOK, Phases
<1>2. \A s \in Steps : RowOK(phase, att, result', s)
  BY DEF LedgerInv, RowOK
<1>3. TypeOK'
  BY <1>1, <1>2, Settled DEF LedgerInv, TypeOK, Phases, Statuses
<1>4. /\ ended' => st = "terminal"
      /\ st = "terminal" => \A s \in Steps : phase[s] \notin {"prepared", "dispatched"}
  BY DEF LedgerInv, RunOK, Open
<1> QED BY <1>1, <1>2, <1>3, <1>4, RecordInv

LEMMA OpenEpochInv ==
  ASSUME LedgerInv, OpenEpoch
  PROVE  LedgerInv'
<1>1. TypeOK'
  <2>1. att' \in [Steps -> Rows]
    <3>1. \A s \in Steps :
            [n |-> att[s].n, ended |-> TRUE, uncharged |-> att[s].uncharged + 1,
             unsettled |-> att[s].unsettled \/ status # "parked"] \in Rows
      BY SMT DEF LedgerInv, TypeOK, Rows
    <3> QED BY <3>1 DEF OpenEpoch, EpochRow, Returned, LedgerInv, TypeOK
  <2>2. phase' \in [Steps -> {"absent", "prepared", "dispatched", "done"}]
    BY DEF OpenEpoch, EpochRow, Returned, LedgerInv, TypeOK
  <2>3. /\ status' \in {"running", "draining", "parked", "closing", "terminal"}
        /\ park' \in {"none", "plain", "timed", "now"} /\ overdue' \in BOOLEAN
    BY DEF OpenEpoch, EpochRow, Returned, LedgerInv, TypeOK
  <2> QED BY <2>1, <2>2, <2>3 DEF OpenEpoch, EpochRow, Returned, LedgerInv, TypeOK
<1>2. \A s \in Steps : RowOK(phase, att, result, s)'
  <2> SUFFICES ASSUME NEW s \in Steps PROVE RowOK(phase, att, result, s)'
    OBVIOUS
  <2>1. RowOK(phase, att, result, s) /\ att[s] \in Rows
    BY DEF LedgerInv, TypeOK
  <2>2. CASE Running(s)
    <3>1. att'[s] = [n |-> att[s].n, ended |-> TRUE,
                     uncharged |-> att[s].uncharged + 1,
                     unsettled |-> att[s].unsettled \/ status # "parked"]
      BY <2>2 DEF OpenEpoch, EpochRow, Returned
    <3>2. /\ phase'[s] \notin {"absent", "done", "dispatched"}
          /\ phase[s] \notin {"absent", "done"}
          /\ result'[s] = result[s]
      BY <2>1, <2>2, NoRowOK DEF OpenEpoch, EpochRow, Returned, RowOK, Running, LedgerInv, TypeOK
    <3> QED BY <3>1, <3>2, <2>1, <2>2, StepsAssumption, SMT DEF RowOK, Rows, Running
  <2>3. CASE ~Running(s)
    <3>1. att'[s] = att[s] /\ phase'[s] = phase[s] /\ result'[s] = result[s]
      BY <2>1, <2>3 DEF OpenEpoch, EpochRow, Returned, RowOK, Running, LedgerInv, TypeOK
    <3> QED BY <3>1, <2>1 DEF RowOK
  <2> QED BY <2>2, <2>3
<1>3. \A s \in Steps : Open(s)' <=> Open(s)
  BY DEF OpenEpoch, EpochRow, Returned, Open, LedgerInv, TypeOK
<1>4. RunOK'
  BY <1>3 DEF OpenEpoch, EpochRow, Returned, LedgerInv, TypeOK, RunOK, ClosingHasWork, DrainWaits
<1> QED BY <1>1, <1>2, <1>4 DEF LedgerInv

LEMMA PrepareInv ==
  ASSUME LedgerInv, NEW s \in Steps, Prepare(s)
  PROVE  LedgerInv'
<1> DEFINE ph == [phase EXCEPT ![s] = "prepared"]
<1>1. phase[s] = "absent" /\ status # "terminal" /\ Settle(ph, att, status)
  BY DEF Prepare, StillAsked
<1>2. ph \in [Steps -> Phases] /\ att \in [Steps -> Rows] /\ status \in Statuses
  BY DEF LedgerInv, TypeOK, Phases, Statuses
<1>3. \A r \in Steps : RowOK(ph, att, result', r)
  <2> SUFFICES ASSUME NEW r \in Steps PROVE RowOK(ph, att, result', r)
    OBVIOUS
  <2>1. RowOK(phase, att, result, r) /\ result' = result
    BY DEF LedgerInv, Prepare
  <2>2. ph[r] = IF r = s THEN "prepared" ELSE phase[r]
    BY DEF LedgerInv, TypeOK
  <2> HIDE DEF ph
  <2> QED BY <1>1, <2>1, <2>2 DEF RowOK
<1> HIDE DEF ph
<1>4. phase' \in [Steps -> Phases] /\ att' \in [Steps -> Rows] /\ status' \in Statuses
  <2> HIDE DEF Open, Drained
  <2> QED BY <1>1, <1>2, <1>3, Settled
<1>5. TypeOK'
  BY <1>4 DEF Prepare, LedgerInv, TypeOK, Phases, Statuses
<1>6. (finish' <=> status \in {"closing", "terminal"}) /\ (ended' => status = "terminal")
  BY DEF Prepare, LedgerInv, RunOK
<1> QED BY <1>1, <1>2, <1>3, <1>5, <1>6, RecordInv

LEMMA NextInv == LedgerInv /\ [LedgerNext]_ledger => LedgerInv'
<1> SUFFICES ASSUME LedgerInv, [LedgerNext]_ledger PROVE LedgerInv'
  OBVIOUS
<1>0. /\ status \in Statuses /\ finish \in BOOLEAN /\ overdue \in BOOLEAN
      /\ finish <=> status \in {"closing", "terminal"}
      /\ stop \in {"none", "drain", "cancel"}
      /\ park \in {"none", "plain", "timed", "now"}
  BY DEF LedgerInv, TypeOK, RunOK, Statuses
<1>1. CASE \E s \in Steps : StepStarted(s)
  BY <1>1, StartInv
<1>2. CASE \E s \in Steps, why \in Interruptions : AttemptInterrupted(s, why)
  BY <1>2, InterruptInv
<1>3. CASE \E s \in Steps : AttemptLost(s)
  BY <1>3, LostInv
<1>4. CASE \E s \in Steps, r \in Results : StepFinished(s, r)
  BY <1>4, FinishedInv
<1>5. CASE \E s \in Steps : Prepare(s)
  BY <1>5, PrepareInv
<1>6. CASE \E s \in Steps : LimitPasses(s) \/ BackoffPasses(s) \/ WatchFires(s)
  <2>1. TypeOK'
    BY <1>6, SMT DEF LimitPasses, BackoffPasses, WatchFires, LedgerInv, TypeOK
  <2> QED BY <1>6, <2>1, QuietInv DEF LimitPasses, BackoffPasses, WatchFires
<1>7. CASE DrainPasses
  <2>1. TypeOK'
    BY <1>7 DEF DrainPasses, LedgerInv, TypeOK
  <2> QED BY <1>7, <2>1, QuietInv DEF DrainPasses
<1>8. CASE ClockAdvanced
  BY <1>8, <1>0, ControlInv DEF ClockAdvanced
<1>9. CASE RunEnded
  <2>1. TypeOK' /\ \A s \in Steps : RowOK(phase, att, result, s)'
    BY <1>9 DEF RunEnded, LedgerInv, TypeOK, RowOK
  <2>2. RunOK'
    BY <1>9 DEF RunEnded, LedgerInv, RunOK, ClosingHasWork, DrainWaits, Open
  <2> QED BY <2>1, <2>2 DEF LedgerInv
<1>10. CASE OpenEpoch
  BY <1>10, OpenEpochInv
<1>11. CASE \E kind \in {"plain", "timed", "now"} : Pause(kind)
  <2>1. PICK kind \in {"plain", "timed", "now"} : Pause(kind)
    BY <1>11
  <2>2. ~finish /\ status # "terminal"
    BY <2>1, <1>0 DEF Pause
  <2>3. "draining" \in Statuses /\ Settle(phase, att, "draining")
    BY <2>1 DEF Pause, Statuses
  <2> QED BY <2>1, <2>2, <2>3, <1>0, ControlInv DEF Pause
<1>12. CASE \E mode \in {"drain", "cancel"} : Stop(mode)
  <2>1. PICK mode \in {"drain", "cancel"} : Stop(mode)
    BY <1>12
  <2> QED BY <2>1, <1>0, ControlInv DEF Stop, Escalate
<1>13. CASE \E mode \in {"drain", "cancel"} : Finish(mode)
  <2>1. PICK mode \in {"drain", "cancel"} : Finish(mode)
    BY <1>13
  <2>2. "closing" \in Statuses /\ Settle(phase, att, "closing")
    BY <2>1 DEF Finish, Statuses
  <2> QED BY <2>1, <2>2, <1>0, ControlInv DEF Finish, Escalate
<1>14. CASE UNCHANGED ledger
  <2>1. TypeOK'
    BY <1>14 DEF ledger, LedgerInv, TypeOK
  <2> QED BY <1>14, <2>1, QuietInv DEF ledger
<1> QED BY <1>1, <1>2, <1>3, <1>4, <1>5, <1>6, <1>7, <1>8, <1>9, <1>10, <1>11,
           <1>12, <1>13, <1>14 DEF LedgerNext

-----------------------------------------------------------------------------
(* The inductive invariant holds of every run of the log's fold. *)
THEOREM LedgerSafe == LedgerSpec => []LedgerInv
BY InitInv, NextInv, PTL DEF LedgerSpec

(* The retry bound, for any number of crashes, pauses and adoptions. *)
THEOREM RetryBounded == LedgerSpec => []RetryBound
<1>1. LedgerInv => RetryBound
  BY DEF LedgerInv, RowOK, RetryBound, Charged
<1> QED BY <1>1, LedgerSafe, PTL

(* A closing run waits for a step, and a draining one for something to end. *)
THEOREM WaitsForSomething == LedgerSpec => [](ClosingHasWork /\ DrainWaits)
<1>1. LedgerInv => ClosingHasWork /\ DrainWaits
  BY DEF LedgerInv, RunOK
<1> QED BY <1>1, LedgerSafe, PTL

(* The end is published over results alone. *)
THEOREM EndsClean == LedgerSpec => []EndIsClean
<1>1. LedgerInv => EndIsClean
  <2> SUFFICES ASSUME LedgerInv, ended, NEW s \in Steps
               PROVE  ~Open(s) /\ att[s] = NoRow
    BY DEF EndIsClean
  <2>1. ~Open(s)
    BY DEF LedgerInv, RunOK
  <2> QED BY <2>1 DEF LedgerInv, TypeOK, RowOK, Open
<1> QED BY <1>1, LedgerSafe, PTL

(* A result is given once, whatever records follow it. *)
THEOREM ResultsStick == LedgerSpec => ResultSticks
<1> DEFINE Sticks == \A s \in Steps : result[s] # "none" =>
                       result'[s] = result[s] /\ phase'[s] = "done"
<1>1. LedgerInv /\ [LedgerNext]_ledger => [Sticks]_ledger
  <2> SUFFICES ASSUME LedgerInv, LedgerNext, NEW s \in Steps, result[s] # "none"
               PROVE  result'[s] = result[s] /\ phase'[s] = "done"
    BY DEF ledger
  <2>1. phase[s] = "done"
    BY DEF LedgerInv, RowOK
  <2>2. \A ph, a, st : Settle(ph, a, st) /\ ph[s] = "done" => phase'[s] = "done"
    BY DEF Settle, LetGo
  <2>3. CASE \E r \in Steps : \/ StepStarted(r) \/ LimitPasses(r)
                              \/ BackoffPasses(r) \/ WatchFires(r)
    BY <2>1, <2>3 DEF StepStarted, RunDue, Open, LimitPasses,
                      BackoffPasses, WatchFires, LedgerInv, TypeOK
  <2>10. CASE \E r \in Steps : Prepare(r)
    <3>1. PICK r \in Steps : Prepare(r)
      BY <2>10
    <3>2. [phase EXCEPT ![r] = "prepared"][s] = "done"
      BY <2>1, <3>1 DEF Prepare, LedgerInv, TypeOK
    <3> QED BY <3>1, <3>2, <2>2 DEF Prepare
  <2>4. CASE \E r \in Steps, why \in Interruptions : AttemptInterrupted(r, why)
    <3>1. PICK r \in Steps, why \in Interruptions : AttemptInterrupted(r, why)
      BY <2>4
    <3>2. r # s
      BY <2>1, <3>1 DEF AttemptInterrupted, CanInterrupt, Open
    <3>3. [phase EXCEPT ![r] = "prepared"][s] = "done"
      BY <2>1, <3>2 DEF LedgerInv, TypeOK
    <3> QED BY <3>1, <3>3, <2>2 DEF AttemptInterrupted
  <2>5. CASE \E r \in Steps : AttemptLost(r)
    BY <2>1, <2>2, <2>5 DEF AttemptLost
  <2>6. CASE \E r \in Steps, x \in Results : StepFinished(r, x)
    <3>1. PICK r \in Steps, x \in Results : StepFinished(r, x)
      BY <2>6
    <3>2. r # s
      BY <2>1, <3>1 DEF StepFinished, CanFinish, Open
    <3>3. [phase EXCEPT ![r] = "done"][s] = "done"
      BY <2>1, <3>2 DEF LedgerInv, TypeOK
    <3>4. result'[s] = result[s]
      BY <3>1, <3>2 DEF StepFinished, LedgerInv, TypeOK
    <3> QED BY <3>1, <3>3, <3>4, <2>2 DEF StepFinished
  <2>7. CASE ClockAdvanced \/ RunEnded \/ OpenEpoch \/ DrainPasses
    BY <2>1, <2>2, <2>7 DEF ClockAdvanced, RunEnded, OpenEpoch, Returned, DrainPasses
  <2>8. CASE \E kind \in {"plain", "timed", "now"} : Pause(kind)
    BY <2>1, <2>2, <2>8 DEF Pause
  <2>9. CASE \E mode \in {"drain", "cancel"} : Stop(mode) \/ Finish(mode)
    BY <2>1, <2>2, <2>9 DEF Stop, Finish
  <2> QED BY <2>3, <2>4, <2>5, <2>6, <2>7, <2>8, <2>9, <2>10 DEF LedgerNext
<1> QED BY <1>1, LedgerSafe, PTL DEF LedgerSpec, ResultSticks

-----------------------------------------------------------------------------
(* The loop implements the ledger. *)

FlightFields == {"mode", "at", "k", "n", "reason", "ending", "parked", "held", "settle"}

(* What a flight goes on with after a clear. *)
Ways == {"start", "failed", "conclude", "alive"}

FlightOK(f) ==
  /\ DOMAIN f = FlightFields
  /\ f.reason \in CancelReasons \cup {"none"}
  /\ f.at # "none" => f.mode \in {"attempt", "conclude"} /\ f.k \in Ways
  /\ f.k = "conclude" => f.mode = "conclude"
  /\ f.mode = "conclude" => f.settle \in Results
  /\ f.mode = "attempt" /\ (f.at \in {"attach", "rest"} \/ f.k = "alive") =>
       f.reason \in Results

FlightsOK == DOMAIN flight = Steps /\ \A s \in Steps : FlightOK(flight[s])

(* A record of the ledger, or none. *)
OneRecord == LedgerNext \/ UNCHANGED ledger

-----------------------------------------------------------------------------
(* What a flight appends. *)

LEMMA ReasonResult ==
  ASSUME NEW why \in CancelReasons \cup {"none"}, why # "none", why # "pause"
  PROVE  why \in Results
BY DEF Results, CancelReasons

LEMMA InterruptsRecord ==
  ASSUME NEW s \in Steps, NEW why \in Interruptions, Interrupts(s, why)
  PROVE  OneRecord
BY DEF Interrupts, Appends, OneRecord, LedgerNext

LEMMA RecordsRecord ==
  ASSUME NEW s \in Steps, NEW r \in Results, Records(s, r)
  PROVE  OneRecord
<1>1. CASE status = "parked"
  <2>1. "pause" \in Interruptions
    BY DEF Interruptions
  <2> QED
    BY <1>1, <2>1, InterruptsRecord DEF Records, OneRecord
<1>2. CASE status # "parked"
  BY <1>2 DEF Records, Appends, OneRecord, LedgerNext
<1> QED
  BY <1>1, <1>2

(* r is the work's own result, or the reason its call was cancelled for. *)
LEMMA FinishRecords ==
  ASSUME NEW s \in Steps, NEW r, FinishAttempt(s, r),
         r \in Results \/ r = flight[s].reason,
         flight[s].reason \in CancelReasons \cup {"none"}, r # "none"
  PROVE  OneRecord
<1>1. "pause" \in Interruptions
  BY DEF Interruptions
<1>2. CASE flight[s].reason = "pause" /\ r \notin Yields
  BY <1>1, <1>2, InterruptsRecord DEF FinishAttempt
<1>3. CASE ~(flight[s].reason = "pause" /\ r \notin Yields)
  <2>1. r \in Results
    BY <1>3, ReasonResult DEF Results, Yields
  <2> QED
    BY <1>3, <2>1, RecordsRecord DEF FinishAttempt
<1> QED
  BY <1>2, <1>3

-----------------------------------------------------------------------------
(* How a flight goes on. *)

LEMMA NoFlightOK == FlightOK(NoFlight)
BY DEF FlightOK, NoFlight, FlightFields

LEMMA OneFlight ==
  ASSUME FlightsOK, NEW s \in Steps, NEW f, FlightOK(f),
         flight' = [flight EXCEPT ![s] = f]
  PROVE  FlightsOK'
BY DEF FlightsOK

LEMMA EndsOK ==
  ASSUME FlightsOK, NEW s \in Steps, Ends(s)
  PROVE  FlightsOK'
BY NoFlightOK, OneFlight DEF Ends

(* A flight may go on anywhere but to adopted work, for which it has a reason. *)
LEMMA GoesOK ==
  ASSUME FlightsOK, NEW s \in Steps, NEW where, NEW k \in Ways, Goes(s, where, k),
         flight[s].mode \in {"attempt", "conclude"},
         k = "conclude" => flight[s].k = "conclude",
         flight[s].mode = "attempt" /\ (where \in {"attach", "rest"} \/ k = "alive") =>
           flight[s].reason \in Results
  PROVE  FlightsOK'
<1> DEFINE f == [flight[s] EXCEPT !.at = where, !.k = k, !.held = FALSE]
<1>1. FlightOK(flight[s])
  BY DEF FlightsOK
<1>2. FlightOK(f)
  BY <1>1 DEF FlightOK, FlightFields
<1>3. flight' = [flight EXCEPT ![s] = f]
  BY DEF Goes
<1> HIDE DEF f
<1> QED
  BY <1>2, <1>3, OneFlight

LEMMA ConcludedOK ==
  ASSUME NEW f, FlightOK(f), NEW why \in CancelReasons
  PROVE  FlightOK(Concluded(f, why))
BY DEF FlightOK, FlightFields, Concluded, CancelReasons, Results, Yields

-----------------------------------------------------------------------------
(* What follows the answer of a clear. *)

LEMMA StartOnOK ==
  ASSUME FlightsOK, NEW s \in Steps, NEW answer, StartOn(s, answer),
         flight[s].mode \in {"attempt", "conclude"}
  PROVE  OneRecord /\ FlightsOK'
<1>1. FlightOK(flight[s])
  BY DEF FlightsOK
<1>2. CASE answer = "none" \/ (flight[s].reason # "none" /\ answer = "cleared")
  <2>1. FlightsOK'
    BY <1>2, EndsOK DEF StartOn
  <2>2. OneRecord
    BY <1>1, <1>2, ReasonResult, RecordsRecord DEF StartOn, FlightOK, OneRecord
  <2> QED
    BY <2>1, <2>2
<1>3. CASE ~(answer = "none" \/ (flight[s].reason # "none" /\ answer = "cleared"))
  <2>1. Goes(s, "start", "start")
    BY <1>3 DEF StartOn
  <2>2. FlightsOK'
    BY <2>1, GoesOK DEF Ways
  <2>3. OneRecord
    BY <1>3 DEF StartOn, OneRecord, LedgerNext
  <2> QED
    BY <2>2, <2>3
<1> QED
  BY <1>2, <1>3

LEMMA FailedOnOK ==
  ASSUME FlightsOK, NEW s \in Steps, NEW answer, FailedOn(s, answer),
         flight[s].mode \in {"attempt", "conclude"}
  PROVE  OneRecord /\ FlightsOK'
<1>1. FlightOK(flight[s])
  BY DEF FlightsOK
<1>2. CASE answer \in Yields
  <2>1. FinishAttempt(s, answer) /\ Ends(s)
    BY <1>2 DEF FailedOn, Yields
  <2>2. answer \in Results /\ answer # "none"
    BY <1>2 DEF Results, Yields
  <2> QED
    BY <1>1, <2>1, <2>2, FinishRecords, EndsOK DEF FlightOK
<1>3. CASE answer \notin Yields
           /\ (flight[s].reason \in {"none", "pause"} \/ status = "parked")
  <2> DEFINE why == IF status = "parked" \/ flight[s].reason = "pause"
                    THEN "pause" ELSE "raised"
  <2>1. Interrupts(s, why) /\ Ends(s)
    BY <1>3 DEF FailedOn
  <2>2. why \in Interruptions
    BY DEF Interruptions
  <2> HIDE DEF why
  <2> QED
    BY <2>1, <2>2, InterruptsRecord, EndsOK
<1>4. CASE answer = "alive" /\ flight[s].reason \notin {"none", "pause"}
           /\ status # "parked"
  <2>1. Goes(s, "attach", "failed") /\ UNCHANGED ledger
    BY <1>4 DEF FailedOn, Yields
  <2>2. flight[s].reason \in Results
    BY <1>1, <1>4, ReasonResult DEF FlightOK
  <2> QED
    BY <2>1, <2>2, GoesOK DEF OneRecord, Ways
<1>5. CASE answer \notin Yields \cup {"alive"} /\ flight[s].reason \notin {"none", "pause"}
           /\ status # "parked"
  <2>1. Records(s, flight[s].reason) /\ Ends(s)
    BY <1>5 DEF FailedOn
  <2>2. flight[s].reason \in Results
    BY <1>1, <1>5, ReasonResult DEF FlightOK
  <2> QED
    BY <2>1, <2>2, RecordsRecord, EndsOK
<1> QED
  BY <1>2, <1>3, <1>4, <1>5

LEMMA OutlivedOK ==
  ASSUME FlightsOK, NEW s \in Steps, NEW r, Outlived(s, r),
         r \in Results \/ r = "none" \/ r = flight[s].reason,
         flight[s].mode \in {"attempt", "conclude"},
         flight[s].mode = "attempt" => flight[s].reason \in Results
  PROVE  OneRecord /\ FlightsOK'
<1>1. FlightOK(flight[s])
  BY DEF FlightsOK
<1>2. FlightsOK'
  BY EndsOK DEF Outlived
<1>3. CASE flight[s].mode = "attempt"
  <2>1. CASE r = "none"
    BY <1>2, <1>3, <2>1, RecordsRecord DEF Outlived
  <2>2. CASE r # "none"
    BY <1>1, <1>2, <1>3, <2>2, FinishRecords DEF Outlived, FlightOK
  <2> QED
    BY <2>1, <2>2
<1>4. CASE flight[s].mode = "conclude"
  <2> DEFINE given == IF r \in Yields THEN r ELSE flight[s].settle
  <2>1. given \in Results
    BY <1>1, <1>4 DEF FlightOK, Results, Yields
  <2>2. CASE status = "parked"
    BY <1>2, <1>4, <2>2 DEF Outlived, OneRecord
  <2>3. CASE status # "parked"
    <3>1. Records(s, given)
      BY <1>4, <2>3 DEF Outlived
    <3> HIDE DEF given
    <3> QED
      BY <1>2, <2>1, <3>1, RecordsRecord
  <2> QED
    BY <2>2, <2>3
<1> QED
  BY <1>2, <1>3, <1>4

LEMMA ConcludeOnOK ==
  ASSUME FlightsOK, NEW s \in Steps, NEW answer, ConcludeOn(s, answer),
         flight[s].k = "conclude"
  PROVE  OneRecord /\ FlightsOK'
<1>1. FlightOK(flight[s]) /\ flight[s].mode = "conclude"
  BY DEF FlightsOK, FlightOK
<1>2. CASE (answer = "none" /\ ~flight[s].ending) \/ status = "parked"
  BY <1>2, EndsOK DEF ConcludeOn, OneRecord
<1>3. CASE answer = "alive" /\ status # "parked"
  <2> DEFINE f == [flight[s] EXCEPT !.at = "attach", !.held = FALSE,
                     !.reason = IF flight[s].reason = "none" THEN "withdrawn"
                                ELSE flight[s].reason]
  <2>1. flight' = [flight EXCEPT ![s] = f] /\ UNCHANGED ledger
    BY <1>3 DEF ConcludeOn
  <2>2. FlightOK(f)
    BY <1>1 DEF FlightOK, FlightFields, CancelReasons, Ways
  <2> HIDE DEF f
  <2> QED
    BY <2>1, <2>2, OneFlight DEF OneRecord
<1>4. CASE ~((answer = "none" /\ ~flight[s].ending) \/ status = "parked")
           /\ answer # "alive"
  <2> DEFINE given == IF answer \in Yields THEN answer ELSE flight[s].settle
  <2>1. Records(s, given) /\ Ends(s)
    BY <1>4 DEF ConcludeOn
  <2>2. given \in Results
    BY <1>1 DEF FlightOK, Results, Yields
  <2> HIDE DEF given
  <2> QED
    BY <2>1, <2>2, RecordsRecord, EndsOK
<1> QED
  BY <1>2, <1>3, <1>4

LEMMA AliveOnOK ==
  ASSUME FlightsOK, NEW s \in Steps, NEW answer, AliveOn(s, answer),
         flight[s].k = "alive", flight[s].mode \in {"attempt", "conclude"}
  PROVE  OneRecord /\ FlightsOK'
<1>1. flight[s].mode = "attempt" => flight[s].reason \in Results
  BY DEF FlightsOK, FlightOK
<1>2. Yields \subseteq Results
  BY DEF Results
<1>3. CASE answer \in Yields
  <2>1. Outlived(s, answer)
    BY <1>3 DEF AliveOn, Yields
  <2> QED
    BY <1>1, <1>2, <1>3, <2>1, OutlivedOK
<1>4. CASE answer = "alive" /\ ~flight[s].parked
  <2>1. Goes(s, "rest", "alive") /\ UNCHANGED ledger
    BY <1>4 DEF AliveOn, Yields
  <2> QED
    BY <1>1, <2>1, GoesOK DEF OneRecord, Ways
<1>5. CASE answer \notin Yields /\ ~(answer = "alive" /\ ~flight[s].parked)
  <2>1. Outlived(s, "none")
    BY <1>5 DEF AliveOn
  <2> QED
    BY <1>1, <2>1, OutlivedOK
<1> QED
  BY <1>3, <1>4, <1>5

LEMMA ClearedOnOK ==
  ASSUME FlightsOK, NEW s \in Steps, NEW answer, ClearedOn(s, answer), flight[s].k \in Ways,
         flight[s].mode \in {"attempt", "conclude"}
  PROVE  OneRecord /\ FlightsOK'
<1>1. CASE flight[s].k = "start"
  BY <1>1, StartOnOK DEF ClearedOn
<1>2. CASE flight[s].k = "failed"
  BY <1>2, FailedOnOK DEF ClearedOn
<1>3. CASE flight[s].k = "conclude"
  BY <1>3, ConcludeOnOK DEF ClearedOn
<1>4. CASE flight[s].k = "alive"
  BY <1>4, AliveOnOK DEF ClearedOn
<1> QED
  BY <1>1, <1>2, <1>3, <1>4 DEF Ways

-----------------------------------------------------------------------------
(* The steps of a flight. *)

LEMMA FlightStepOK ==
  ASSUME FlightsOK, NEW s \in Steps, FlightSteps(s)
  PROVE  OneRecord /\ FlightsOK'
<1>1. FlightOK(flight[s])
  BY DEF FlightsOK
<1>2. ASSUME NEW where, where # "none", Flies(s, where)
      PROVE  flight[s].at = where /\ flight[s].mode \in {"attempt", "conclude"}
             /\ flight[s].k \in Ways
  BY <1>1, <1>2 DEF Flies, FlightOK
<1>3. Yields \subseteq Results /\ "none" \notin Yields
  BY DEF Results, Yields
<1>4. CASE ClearAnswers(s)
  BY <1>2, <1>4, ClearedOnOK DEF ClearAnswers
<1>5. CASE ClearFails(s)
  <2>1. flight[s].mode \in {"attempt", "conclude"} /\ flight[s].k \in Ways
        /\ flight[s].at = "clear"
    BY <1>2, <1>5 DEF ClearFails
  <2>2. CASE AbandonsClear(flight[s])
    BY <1>5, <2>1, <2>2, ClearedOnOK DEF ClearFails
  <2>3. CASE ~AbandonsClear(flight[s])
    <3>1. Goes(s, "backoff", flight[s].k) /\ UNCHANGED ledger
      BY <1>5, <2>3 DEF ClearFails
    <3>2. flight[s].mode = "attempt" /\ flight[s].k = "alive" =>
            flight[s].reason \in Results
      BY <1>1 DEF FlightOK
    <3> QED
      BY <2>1, <3>1, <3>2, GoesOK DEF OneRecord
  <2> QED
    BY <2>2, <2>3
<1>6. CASE BackoffEnds(s)
  <2>1. UNCHANGED ledger
    BY <1>6 DEF BackoffEnds
  <2>2. CASE Flies(s, "backoff") /\ Goes(s, "clear", flight[s].k)
    <3>1. flight[s].mode = "attempt" /\ flight[s].k = "alive" =>
            flight[s].reason \in Results
      BY <1>1 DEF FlightOK
    <3> QED
      BY <1>2, <2>1, <2>2, <3>1, GoesOK DEF OneRecord
  <2>3. CASE Flies(s, "rest") /\ Goes(s, "attach", "alive")
    <3>1. flight[s].mode = "attempt" => flight[s].reason \in Results
      BY <1>1, <1>2, <2>3 DEF FlightOK
    <3> QED
      BY <1>2, <2>1, <2>3, <3>1, GoesOK DEF OneRecord, Ways
  <2> QED
    BY <1>6, <2>2, <2>3 DEF BackoffEnds
<1>7. CASE Start(s)
  <2>1. flight[s].mode \in {"attempt", "conclude"} /\ flight[s].k \in Ways
        /\ flight[s].at = "start"
    BY <1>2, <1>7 DEF Start
  <2>2. CASE StartOn(s, "cleared")
    BY <2>1, <2>2, StartOnOK
  <2>3. CASE StepStarted(s)
             /\ flight' = [flight EXCEPT ![s] =
                             [flight[s] EXCEPT !.at = "run", !.n = att[s].n + 1]]
    <3>1. FlightOK([flight[s] EXCEPT !.at = "run", !.n = att[s].n + 1])
      BY <1>1, <2>1 DEF FlightOK, FlightFields
    <3>2. OneRecord
      BY <2>3 DEF OneRecord, LedgerNext
    <3> QED
      BY <2>3, <3>1, <3>2, OneFlight
  <2>4. CASE Ends(s) /\ UNCHANGED ledger
    BY <2>4, EndsOK DEF OneRecord
  <2> QED
    BY <1>7, <2>2, <2>3, <2>4 DEF Start
<1>8. CASE CallHeld(s)
  <2>1. flight' = [flight EXCEPT ![s] = [flight[s] EXCEPT !.held = TRUE]]
        /\ UNCHANGED ledger
    BY <1>8 DEF CallHeld
  <2>2. FlightOK([flight[s] EXCEPT !.held = TRUE])
    BY <1>1 DEF FlightOK, FlightFields
  <2> QED
    BY <2>1, <2>2, OneFlight DEF OneRecord
<1>9. ASSUME Flies(s, "attach")
      PROVE  /\ flight[s].mode \in {"attempt", "conclude"}
             /\ flight[s].mode = "attempt" => flight[s].reason \in Results
  BY <1>1, <1>2, <1>9 DEF FlightOK
<1>10. flight[s].reason \in CancelReasons \cup {"none"}
  BY <1>1 DEF FlightOK
<1>11. CASE RunFinishes(s)
  <2>1. CASE \E r \in Yields : Flies(s, "run") /\ FinishAttempt(s, r) /\ Ends(s)
    BY <1>3, <1>10, <2>1, FinishRecords, EndsOK
  <2>2. CASE \E r \in Yields : Flies(s, "attach") /\ Outlived(s, r)
    BY <1>3, <1>9, <2>2, OutlivedOK
  <2> QED
    BY <1>11, <2>1, <2>2 DEF RunFinishes
<1>12. CASE RunCancelled(s)
  <2>1. flight[s].reason # "none"
    BY <1>12 DEF RunCancelled
  <2>2. CASE Flies(s, "run") /\ FinishAttempt(s, flight[s].reason) /\ Ends(s)
    BY <1>10, <2>1, <2>2, FinishRecords, EndsOK
  <2>3. CASE Flies(s, "attach") /\ Outlived(s, flight[s].reason)
    BY <1>9, <2>3, OutlivedOK
  <2> QED
    BY <1>12, <2>2, <2>3 DEF RunCancelled
<1>13. CASE RunRaises(s)
  <2>1. UNCHANGED ledger
    BY <1>13 DEF RunRaises
  <2>2. CASE Flies(s, "run")
    <3>1. Goes(s, "clear", "failed")
      BY <1>2, <1>13, <2>2 DEF RunRaises
    <3> QED
      BY <1>2, <2>1, <2>2, <3>1, GoesOK DEF OneRecord, Ways
  <2>3. CASE Flies(s, "attach")
    <3>1. Goes(s, "clear", "alive")
      BY <1>2, <1>13, <2>3, SMT DEF RunRaises
    <3> QED
      BY <1>9, <2>1, <2>3, <3>1, GoesOK DEF OneRecord, Ways
  <2> QED
    BY <1>13, <2>2, <2>3 DEF RunRaises
<1> QED
  BY <1>4, <1>5, <1>6, <1>7, <1>8, <1>11, <1>12, <1>13 DEF FlightSteps

-----------------------------------------------------------------------------
(* A turn of the main task. *)

LEMMA StopReasonIs ==
  ASSUME NEW s \in Steps, StopReason(s) # "none"
  PROVE  StopReason(s) \in CancelReasons
BY DEF StopReason, EndReason, CancelReasons

LEMMA SettledAsIs ==
  ASSUME NEW s \in Steps, SettledAs(s) # "none"
  PROVE  /\ SettledAs(s) \in Results
         /\ SettledAs(s) # "exhausted" => SettledAs(s) \in CancelReasons
BY DEF SettledAs, EndReason, CancelReasons, Results

LEMMA ConcludeFlightOK ==
  ASSUME NEW s \in Steps, NEW r \in Results,
         r # "exhausted" => r \in CancelReasons
  PROVE  FlightOK(ConcludeFlight(s, r))
<1> DEFINE f == [NoFlight EXCEPT !.mode = "conclude", !.at = "clear",
                                 !.k = "conclude", !.settle = r]
<1>1. FlightOK(f)
  BY DEF FlightOK, NoFlight, FlightFields, Ways
<1>2. ConcludeFlight(s, r) = IF r = "exhausted" THEN f ELSE Concluded(f, r)
  BY DEF ConcludeFlight
<1> HIDE DEF f
<1> QED
  BY <1>1, <1>2, ConcludedOK

LEMMA AttemptFlightOK ==
  ASSUME NEW s \in Steps
  PROVE  FlightOK(AttemptFlight(s))
BY DEF AttemptFlight, FlightOK, NoFlight, FlightFields, Ways

LEMMA DispatchedOK ==
  ASSUME FlightsOK, NEW s \in Steps
  PROVE  FlightOK(Dispatched(s))
<1>1. FlightOK(flight[s])
  BY DEF FlightsOK
<1>2. CASE Cancels(s) /\ InFlight(s)
  <2>1. Dispatched(s) = Concluded(flight[s], StopReason(s))
    BY <1>2 DEF Dispatched, Cancels, Settles, RunDue
  <2>2. StopReason(s) \in CancelReasons
    BY <1>2, StopReasonIs DEF Cancels
  <2> QED
    BY <1>1, <2>1, <2>2, ConcludedOK
<1>3. CASE Cancels(s) /\ ~InFlight(s) /\ StopReason(s) # "pause"
  <2>1. Dispatched(s) = ConcludeFlight(s, StopReason(s))
    BY <1>3 DEF Dispatched, Cancels, Settles, RunDue
  <2>2. StopReason(s) \in CancelReasons /\ StopReason(s) \in Results
    BY <1>3, StopReasonIs, ReasonResult DEF Cancels
  <2> QED
    BY <2>1, <2>2, ConcludeFlightOK
<1>4. CASE Settles(s) /\ InFlight(s) /\ SettledAs(s) # "exhausted"
  <2>1. Dispatched(s) = Concluded(flight[s], SettledAs(s))
    BY <1>4 DEF Dispatched, Cancels, Settles, RunDue
  <2>2. SettledAs(s) \in CancelReasons
    BY <1>4, SettledAsIs DEF Settles
  <2> QED
    BY <1>1, <2>1, <2>2, ConcludedOK
<1>5. CASE Settles(s) /\ ~InFlight(s)
  <2>1. Dispatched(s) = ConcludeFlight(s, SettledAs(s))
    BY <1>5 DEF Dispatched, Cancels, Settles, RunDue
  <2> QED
    BY <1>5, <2>1, SettledAsIs, ConcludeFlightOK DEF Settles
<1>6. CASE RunDue(s) /\ ~InFlight(s)
  <2>1. Dispatched(s) = AttemptFlight(s)
    BY <1>6 DEF Dispatched, Cancels, Settles, RunDue
  <2> QED
    BY <2>1, AttemptFlightOK
<1>7. CASE /\ ~(Cancels(s) /\ InFlight(s))
           /\ ~(Cancels(s) /\ ~InFlight(s) /\ StopReason(s) # "pause")
           /\ ~(Settles(s) /\ InFlight(s) /\ SettledAs(s) # "exhausted")
           /\ ~(Settles(s) /\ ~InFlight(s))
           /\ ~(RunDue(s) /\ ~InFlight(s))
  <2>1. Dispatched(s) = flight[s]
    BY <1>7 DEF Dispatched
  <2> QED
    BY <1>1, <2>1
<1> QED
  BY <1>2, <1>3, <1>4, <1>5, <1>6, <1>7

LEMMA TurnOK ==
  ASSUME FlightsOK, Turn
  PROVE  OneRecord /\ FlightsOK'
<1>1. CASE TurnDispatches
  <2>1. flight' = [s \in Steps |-> Dispatched(s)] /\ UNCHANGED ledger
    BY <1>1 DEF TurnDispatches
  <2> QED
    BY <2>1, DispatchedOK DEF OneRecord, FlightsOK
<1>2. CASE TurnTicks
  BY <1>2 DEF TurnTicks, OneRecord, LedgerNext, FlightsOK
<1>3. CASE TurnEnds
  BY <1>3 DEF TurnEnds, OneRecord, LedgerNext, FlightsOK
<1>4. CASE TurnParks
  <2> DEFINE base(s) == IF Open(s) /\ Running(s) THEN Concluded(flight[s], "pause")
                        ELSE flight[s]
             stopped == [s \in Steps |-> IF ~InFlight(s) THEN NoFlight
                                         ELSE [base(s) EXCEPT !.parked = TRUE]]
  <2>1. flight' \in {[s \in Steps |-> NoFlight], stopped} /\ UNCHANGED ledger
    BY <1>4 DEF TurnParks
  <2>2. ASSUME NEW s \in Steps
        PROVE  FlightOK(stopped[s])
    <3>1. FlightOK(flight[s]) /\ "pause" \in CancelReasons
      BY DEF FlightsOK, CancelReasons
    <3>2. FlightOK(base(s))
      BY <3>1, ConcludedOK
    <3> HIDE DEF base
    <3>3. FlightOK([base(s) EXCEPT !.parked = TRUE])
      BY <3>2 DEF FlightOK, FlightFields
    <3> QED
      BY <3>3, NoFlightOK
  <2>3. DOMAIN stopped = Steps
    OBVIOUS
  <2> HIDE DEF stopped
  <2>4. FlightsOK'
    BY <2>1, <2>2, <2>3, NoFlightOK DEF FlightsOK
  <2> QED
    BY <2>1, <2>4 DEF OneRecord
<1> QED
  BY <1>1, <1>2, <1>3, <1>4 DEF Turn

-----------------------------------------------------------------------------
(* The theorems. *)

LEMMA NextOK ==
  ASSUME FlightsOK, [Next]_vars
  PROVE  OneRecord /\ FlightsOK'
<1>1. CASE Turn
  BY <1>1, TurnOK
<1>2. ASSUME NEW s \in Steps, FlightSteps(s)
      PROVE  OneRecord /\ FlightsOK'
  BY <1>2, FlightStepOK
<1>3. CASE (\E s \in Steps : WorkEnds(s)) \/ Rested \/ UNCHANGED vars
  BY <1>3 DEF WorkEnds, Rested, vars, OneRecord, FlightsOK
<1>4. CASE Crash
  <2>1. flight' = [s \in Steps |-> NoFlight] /\ UNCHANGED ledger
    BY <1>4 DEF Crash
  <2> QED
    BY <2>1, NoFlightOK DEF OneRecord, FlightsOK
<1>5. CASE Relaunch
  BY <1>5 DEF Relaunch, OneRecord, LedgerNext, FlightsOK
<1>6. CASE Inputs
  <2>1. flight' = flight
    BY <1>6 DEF Inputs, SearchAsks, WatchEnds, SearchFinishes, OperatorStops,
                OperatorPauses, Heard
  <2>2. LedgerNext
    BY <1>6 DEF Inputs, SearchAsks, WatchEnds, SearchFinishes, OperatorStops,
                OperatorPauses, LedgerNext
  <2> QED
    BY <2>1, <2>2 DEF OneRecord, FlightsOK
<1>7. CASE TimePasses
  <2>1. flight' = flight
    BY <1>7 DEF TimePasses, Passes
  <2>2. LedgerNext
    BY <1>7 DEF TimePasses, LedgerNext
  <2> QED
    BY <2>1, <2>2 DEF OneRecord, FlightsOK
<1> QED
  BY <1>1, <1>2, <1>3, <1>4, <1>5, <1>6, <1>7 DEF Next

(* The runner loop implements the ledger: every step of its tasks, of the calls *)
(* they await, of the host and of the operator appends one record the fold      *)
(* takes, or none (run_step_loop over RunLogStepLog).                           *)
THEOREM LoopRecords == Spec => LedgerSpec
<1>1. Init => LedgerInit /\ FlightsOK
  BY NoFlightOK DEF Init, FlightsOK
<1>2. FlightsOK /\ [Next]_vars => FlightsOK' /\ [LedgerNext]_ledger
  BY NextOK DEF OneRecord
<1> QED
  BY <1>1, <1>2, PTL DEF Spec, LedgerSpec

(* So the retry bound holds of the loop, a closing or draining run of it always *)
(* waits for something, and its end is recorded only over steps that all ended. *)
THEOREM LoopSafe == Spec => [](RetryBound /\ ClosingHasWork /\ DrainWaits /\ EndIsClean)
BY LoopRecords, RetryBounded, WaitsForSomething, EndsClean, PTL

(* And no step of the loop takes a result back or opens its step again.         *)
THEOREM LoopResultsStick == Spec => ResultSticks
BY LoopRecords, ResultsStick, PTL

-----------------------------------------------------------------------------
(* A flight, the attempt of its step, and what it was told. *)
FlightStands(s) ==
  LET f == flight[s] IN
  /\ f \in Flights
  /\ f.mode = "none" => f = NoFlight
  /\ f.mode # "none" => loop = "up" /\ Open(s) /\ f.at # "none"
  /\ f.mode = "conclude" =>
       /\ ~Running(s) /\ f.n = 0
       /\ f.k \in {"conclude", "alive"}
       /\ f.at \in {"clear", "backoff", "attach", "rest"}
       /\ f.settle \in Results /\ f.reason # "pause"
  /\ f.mode = "attempt" =>
       /\ f.k \in {"start", "failed", "alive"}
       /\ f.settle = "none"
       /\ f.k = "start" => f.at \in {"clear", "backoff", "start", "run"}
       /\ f.k # "start" => f.at \in {"clear", "backoff", "attach", "rest"}
       /\ IF f.k = "start" /\ f.at # "run" THEN ~Running(s) /\ f.n = 0
          ELSE Running(s) /\ f.n = att[s].n
       /\ f.at \in {"attach", "rest"} \/ f.k = "alive" => f.reason \in Results
  /\ loop = "up" /\ Running(s) => f.mode = "attempt"
  /\ f.parked => status = "parked"
  /\ f.ending => RunIsEnding

(* The work of a step on the far side. *)
WorkStands(s) ==
  /\ live[s] \in {0, 1}
  /\ phase[s] = "absent" \/ (Open(s) /\ att[s].n = 0) => live[s] = 0
  /\ phase[s] = "done" => live[s] = 0 \/ s \in unproven
  /\ flight[s].at = "start" => live[s] = 0 \/ Adopts(s)

(* What a step is charged, against the attempts of it that failed. *)
ChargeStands(s) ==
  /\ fails[s] \in Nat
  /\ Charged(s) <= fails[s] + IF Running(s) THEN 1 ELSE 0
  /\ att[s].unsettled => Charged(s) < fails[s]
  /\ loop = "down" => Charged(s) <= fails[s]
  /\ flight[s].k = "failed" /\ flight[s].reason = "none" => Charged(s) <= fails[s]
  /\ result[s] = "exhausted" \/ flight[s].settle = "exhausted" => fails[s] > RetryLimit

(* The process, and its types. *)
LoopStands ==
  /\ loop \in {"up", "down", "parked", "ended"}
  /\ loop = "parked" =>
       status = "parked" /\ \A s \in Steps : Running(s) => s \in heldAtExit
  /\ refused = FALSE
  /\ wait \in [over : BOOLEAN, limits : SUBSET Steps, backoffs : SUBSET Steps,
               drain : BOOLEAN]
  /\ flight \in [Steps -> Flights]
  /\ live \in [Steps -> Nat] /\ fails \in [Steps -> Nat]
  /\ yield \subseteq Steps /\ unproven \subseteq Steps /\ heldAtExit \subseteq Steps

StepStands(s) == FlightStands(s) /\ WorkStands(s) /\ ChargeStands(s)
LoopInv == LoopStands /\ \A s \in Steps : StepStands(s)

-----------------------------------------------------------------------------
(* What a record does to the steps it is not about, and to the run. *)

Unmoved(s) ==
  /\ att'[s] = att[s]
  /\ Open(s)' <=> Open(s)
  /\ phase'[s] = "absent" <=> phase[s] = "absent"
  /\ phase'[s] = "done" <=> phase[s] = "done"
  /\ result'[s] = result[s]

Onward ==
  /\ status = "parked" => status' = "parked"
  /\ RunIsEnding => RunIsEnding'

LEMMA SettleMoves ==
  ASSUME NEW ph \in [Steps -> Phases], NEW a, NEW st, Settle(ph, a, st)
  PROVE  /\ att' = a
         /\ \A s \in Steps : \/ phase'[s] = ph[s]
                             \/ ph[s] = "dispatched" /\ phase'[s] = "prepared"
         /\ st = "parked" => status' = "parked"
         /\ st = "terminal" => status' = "terminal"
         /\ status' = "terminal" => st = "terminal" \/ \A s \in Steps : ~Open(s)'
<1>1. \A s \in Steps : \/ phase'[s] = ph[s]
                       \/ ph[s] = "dispatched" /\ phase'[s] = "prepared"
  BY DEF Settle, LetGo
<1>2. /\ att' = a
      /\ st = "parked" => status' = "parked"
      /\ st = "terminal" => status' = "terminal"
      /\ status' = "terminal" => st = "terminal" \/ \A s \in Steps : ~Open(s)'
  <2> HIDE DEF Drained, Open
  <2> QED
    BY DEF Settle
<1> QED
  BY <1>1, <1>2

LEMMA StartedMoves ==
  ASSUME LedgerInv, NEW s \in Steps, StepStarted(s)
  PROVE  /\ \A t \in Steps \ {s} : Unmoved(t)
         /\ Open(s) /\ Open(s)' /\ ~Running(s) /\ Running(s)'
         /\ att'[s].n = att[s].n + 1 /\ att'[s].uncharged = att[s].uncharged
         /\ ~att'[s].unsettled
         /\ result' = result /\ ended' = ended /\ Asked' = Asked
         /\ Onward /\ (RunIsEnding' <=> RunIsEnding)
BY DEF LedgerInv, TypeOK, StepStarted, RunDue, Unmoved, Open, Running, Onward, RunIsEnding,
       Asked

LEMMA InterruptedMoves ==
  ASSUME LedgerInv, NEW s \in Steps, NEW why \in Interruptions, AttemptInterrupted(s, why)
  PROVE  /\ \A t \in Steps \ {s} : Unmoved(t)
         /\ Open(s) /\ Open(s)' /\ Running(s) /\ ~Running(s)'
         /\ att'[s].n = att[s].n
         /\ att'[s].uncharged = att[s].uncharged + IF why = "raised" THEN 0 ELSE 1
         /\ att'[s].unsettled = att[s].unsettled
         /\ result' = result /\ ended' = ended /\ Asked' = Asked
         /\ Onward /\ (RunIsEnding' <=> RunIsEnding)
<1> DEFINE ph == [phase EXCEPT ![s] = "prepared"]
           a == [att EXCEPT ![s] =
                   [n |-> att[s].n, ended |-> TRUE,
                    uncharged |-> att[s].uncharged + (IF why = "raised" THEN 0 ELSE 1),
                    unsettled |-> att[s].unsettled]]
<1>1. Settle(ph, a, status) /\ CanInterrupt(s)
  BY DEF AttemptInterrupted
<1>2. ph \in [Steps -> Phases] /\ phase \in [Steps -> Phases] /\ att \in [Steps -> Rows]
  BY DEF LedgerInv, TypeOK, Phases
<1>3. /\ att' = a
      /\ \A t \in Steps : \/ phase'[t] = ph[t]
                          \/ ph[t] = "dispatched" /\ phase'[t] = "prepared"
      /\ status = "parked" => status' = "parked"
      /\ status = "terminal" => status' = "terminal"
      /\ status' = "terminal" => status = "terminal" \/ \A t \in Steps : ~Open(t)'
  <2> HIDE DEF ph, a
  <2> QED
    BY <1>1, <1>2, SettleMoves
<1>4. UNCHANGED <<result, ended, finish, stop>>
  BY DEF AttemptInterrupted
<1>5. Open(s) /\ Open(s)' /\ Running(s) /\ phase'[s] # "absent"
  BY <1>1, <1>2, <1>3 DEF CanInterrupt, Open
<1>6. \A t \in Steps \ {s} : Unmoved(t)
  BY <1>2, <1>3, <1>4 DEF Unmoved, Open, Phases
<1>7. Onward /\ (RunIsEnding' <=> RunIsEnding)
  BY <1>3, <1>4, <1>5 DEF Onward, RunIsEnding
<1>8. Asked' = Asked
  BY <1>2, <1>5, <1>6 DEF Asked, Unmoved, Open
<1>9. /\ att'[s].n = att[s].n
      /\ att'[s].uncharged = att[s].uncharged + IF why = "raised" THEN 0 ELSE 1
      /\ att'[s].unsettled = att[s].unsettled
      /\ ~Running(s)'
  BY <1>2, <1>3 DEF Running
<1> QED
  BY <1>4, <1>5, <1>6, <1>7, <1>8, <1>9

LEMMA LostMoves ==
  ASSUME LedgerInv, NEW s \in Steps, AttemptLost(s)
  PROVE  /\ \A t \in Steps \ {s} : Unmoved(t)
         /\ Open(s) /\ Open(s)' /\ (Running(s)' <=> Running(s))
         /\ att[s].unsettled /\ ~att'[s].unsettled
         /\ att'[s].n = att[s].n
         /\ att'[s].uncharged = att[s].uncharged - 1
         /\ result' = result /\ ended' = ended /\ Asked' = Asked
         /\ Onward /\ (RunIsEnding' <=> RunIsEnding)
<1> DEFINE a == [att EXCEPT ![s] =
                   [n |-> att[s].n, ended |-> att[s].ended,
                    uncharged |-> att[s].uncharged - 1, unsettled |-> FALSE]]
<1>1. Settle(phase, a, status) /\ CanLose(s)
  BY DEF AttemptLost
<1>2. phase \in [Steps -> Phases] /\ att \in [Steps -> Rows]
  BY DEF LedgerInv, TypeOK, Phases
<1>3. /\ att' = a
      /\ \A t \in Steps : \/ phase'[t] = phase[t]
                          \/ phase[t] = "dispatched" /\ phase'[t] = "prepared"
      /\ status = "parked" => status' = "parked"
      /\ status = "terminal" => status' = "terminal"
      /\ status' = "terminal" => status = "terminal" \/ \A t \in Steps : ~Open(t)'
  <2> HIDE DEF a
  <2> QED
    BY <1>1, <1>2, SettleMoves
<1>4. UNCHANGED <<result, ended, finish, stop>>
  BY DEF AttemptLost
<1>5. Open(s) /\ Open(s)' /\ phase'[s] # "absent"
  BY <1>1, <1>2, <1>3 DEF CanLose, Open
<1>6. \A t \in Steps \ {s} : Unmoved(t)
  BY <1>2, <1>3, <1>4 DEF Unmoved, Open, Phases
<1>7. Onward /\ (RunIsEnding' <=> RunIsEnding)
  BY <1>3, <1>4, <1>5 DEF Onward, RunIsEnding
<1>8. Asked' = Asked
  BY <1>2, <1>5, <1>6 DEF Asked, Unmoved, Open
<1>9. /\ att'[s].n = att[s].n
      /\ att'[s].uncharged = att[s].uncharged - 1
      /\ ~att'[s].unsettled
      /\ Running(s)' <=> Running(s)
  BY <1>2, <1>3 DEF Running
<1> QED
  BY <1>1, <1>4, <1>5, <1>6, <1>7, <1>8, <1>9 DEF CanLose

LEMMA FinishedMoves ==
  ASSUME LedgerInv, NEW s \in Steps, NEW r \in Results, StepFinished(s, r)
  PROVE  /\ \A t \in Steps \ {s} : Unmoved(t)
         /\ Open(s) /\ ~Open(s)' /\ ~Running(s)' /\ phase'[s] = "done"
         /\ att'[s] = NoRow
         /\ result[s] = "none" /\ result' = [result EXCEPT ![s] = r]
         /\ ended' = ended /\ ~ended /\ Asked' = Asked
         /\ Onward
<1> DEFINE ph == [phase EXCEPT ![s] = "done"]
           a == [att EXCEPT ![s] = NoRow]
<1>1. Settle(ph, a, status) /\ Open(s)
  BY DEF StepFinished, CanFinish
<1>2. /\ ph \in [Steps -> Phases] /\ phase \in [Steps -> Phases] /\ att \in [Steps -> Rows]
      /\ result \in [Steps -> Results \cup {"none"}]
  BY DEF LedgerInv, TypeOK, Phases
<1>3. /\ att' = a
      /\ \A t \in Steps : \/ phase'[t] = ph[t]
                          \/ ph[t] = "dispatched" /\ phase'[t] = "prepared"
      /\ status = "parked" => status' = "parked"
      /\ status = "terminal" => status' = "terminal"
  <2> HIDE DEF ph, a
  <2> QED
    BY <1>1, <1>2, SettleMoves
<1>4. UNCHANGED <<ended, finish, stop>> /\ result' = [result EXCEPT ![s] = r]
  BY DEF StepFinished
<1>5. phase'[s] = "done" /\ ~Open(s)' /\ att'[s] = NoRow /\ ~Running(s)'
  BY <1>1, <1>2, <1>3, NoRowOK DEF Open, Running
<1>6. \A t \in Steps \ {s} : Unmoved(t)
  BY <1>2, <1>3, <1>4 DEF Unmoved, Open, Phases
<1>7. Onward
  BY <1>3, <1>4 DEF Onward, RunIsEnding
<1>8. Asked' = Asked
  BY <1>1, <1>2, <1>5, <1>6 DEF Asked, Unmoved, Open
<1>9. result[s] = "none" /\ ~ended
  BY <1>1 DEF LedgerInv, RowOK, RunOK, Open
<1> QED
  BY <1>1, <1>4, <1>5, <1>6, <1>7, <1>8, <1>9

(* A record about the run, not about one of its steps. *)
LEMMA ControlMoves ==
  ASSUME LedgerInv, NEW st, Settle(phase, att, st), UNCHANGED <<result, ended>>,
         finish => finish' /\ st = status,
         stop = "cancel" => stop' = "cancel",
         status = "parked" => st = "parked",
         status = "terminal" => st = "terminal"
  PROVE  (\A t \in Steps : Unmoved(t)) /\ att' = att /\ Onward /\ Asked' = Asked
<1>1. phase \in [Steps -> Phases] /\ att \in [Steps -> Rows]
  BY DEF LedgerInv, TypeOK, Phases
<1>2. /\ att' = att
      /\ \A t \in Steps : \/ phase'[t] = phase[t]
                          \/ phase[t] = "dispatched" /\ phase'[t] = "prepared"
      /\ st = "parked" => status' = "parked"
      /\ st = "terminal" => status' = "terminal"
  BY <1>1, SettleMoves
<1>3. \A t \in Steps : Unmoved(t)
  BY <1>1, <1>2 DEF Unmoved, Open, Phases
<1>4. Onward
  BY <1>2 DEF Onward, RunIsEnding
<1>5. Asked' = Asked
  BY <1>3 DEF Asked, Unmoved
<1> QED
  BY <1>2, <1>3, <1>4, <1>5

LEMMA PreparedMoves ==
  ASSUME LedgerInv, NEW s \in Steps, Prepare(s)
  PROVE  /\ \A t \in Steps \ {s} : Unmoved(t)
         /\ phase[s] = "absent" /\ phase'[s] = "prepared" /\ Open(s)'
         /\ att' = att /\ result' = result /\ ended' = ended /\ ~ended
         /\ Asked' = Asked \cup {s}
         /\ Onward /\ (RunIsEnding' <=> RunIsEnding)
<1> DEFINE ph == [phase EXCEPT ![s] = "prepared"]
<1>1. phase[s] = "absent" /\ status \notin {"parked", "terminal"} /\ Settle(ph, att, status)
  BY DEF Prepare, StillAsked
<1>2. phase \in [Steps -> Phases] /\ ph \in [Steps -> Phases]
  BY DEF LedgerInv, TypeOK, Phases
<1>3. /\ att' = att
      /\ \A t \in Steps : \/ phase'[t] = ph[t]
                          \/ ph[t] = "dispatched" /\ phase'[t] = "prepared"
      /\ status' = "terminal" => status = "terminal" \/ \A t \in Steps : ~Open(t)'
  <2> HIDE DEF ph
  <2> QED
    BY <1>1, <1>2, SettleMoves
<1>4. UNCHANGED <<result, ended, finish, stop>> /\ ~ended
  BY <1>1 DEF Prepare, LedgerInv, RunOK
<1>5. ph[s] = "prepared" /\ \A t \in Steps \ {s} : ph[t] = phase[t]
  BY <1>2
<1> HIDE DEF ph
<1>6. phase'[s] = "prepared" /\ Open(s)'
  BY <1>3, <1>5 DEF Open
<1>7. \A t \in Steps \ {s} : Unmoved(t)
  BY <1>3, <1>4, <1>5 DEF Unmoved, Open
<1>8. status' # "terminal"
  BY <1>1, <1>3, <1>6
<1>9. Onward /\ (RunIsEnding' <=> RunIsEnding)
  BY <1>1, <1>4, <1>8 DEF Onward, RunIsEnding
<1>10. Asked' = Asked \cup {s}
  BY <1>6, <1>7 DEF Asked, Unmoved
<1> QED
  BY <1>1, <1>3, <1>4, <1>6, <1>7, <1>9, <1>10

-----------------------------------------------------------------------------
(* What a flight may do to the invariant of its own step, and of the others. *)

LEMMA OthersStand ==
  ASSUME LoopInv, NEW t \in Steps, Unmoved(t), Onward, loop' = loop,
         flight'[t] = flight[t], live'[t] = live[t], fails'[t] = fails[t],
         unproven \subseteq unproven'
  PROVE  StepStands(t)'
<1>1. StepStands(t)
  BY DEF LoopInv
<1>2. FlightStands(t)'
  BY <1>1 DEF StepStands, FlightStands, Unmoved, Onward, Running
<1>3. WorkStands(t)'
  BY <1>1 DEF StepStands, WorkStands, Unmoved, Adopts, OwnedJob
<1>4. ChargeStands(t)'
  BY <1>1 DEF StepStands, ChargeStands, Unmoved, Charged, Running
<1> QED
  BY <1>2, <1>3, <1>4 DEF StepStands

(* How a flight that ends leaves the ledger: an attempt that runs is ended by *)
(* a record, one that failed is charged, and a result needs leave (may).      *)
EndRecord(s, may) ==
  \/ UNCHANGED ledger /\ ~Running(s)
  \/ \E why \in Interruptions :
       AttemptInterrupted(s, why) /\ (why = "raised" => Charged(s) <= fails[s])
  \/ may /\ \E r \in Results :
       StepFinished(s, r) /\ (r = "exhausted" => fails[s] > RetryLimit)

LEMMA NoFlightIs ==
  /\ NoFlight \in Flights
  /\ NoFlight.mode = "none" /\ NoFlight.at = "none" /\ NoFlight.k = "none"
  /\ NoFlight.settle = "none" /\ ~NoFlight.parked /\ ~NoFlight.ending
BY DEF NoFlight, Flights

LEMMA EndStands ==
  ASSUME LoopInv, LedgerInv, NEW s \in Steps, NEW may, EndRecord(s, may),
         loop = "up", loop' = loop, flight'[s] = NoFlight, fails' = fails
  PROVE  FlightStands(s)' /\ ChargeStands(s)'
<1>1. FlightStands(s) /\ ChargeStands(s) /\ RetryLimit \in Nat
  BY StepsAssumption DEF LoopInv, StepStands
<1>2. att[s] \in Rows
  BY DEF LedgerInv, TypeOK
<1>3. CASE UNCHANGED ledger /\ ~Running(s)
  <2>1. ~Running(s)' /\ att'[s] = att[s] /\ result'[s] = result[s]
    BY <1>3 DEF ledger, Running
  <2> QED
    BY <1>1, <1>2, <2>1, NoFlightIs DEF FlightStands, ChargeStands, Charged, Running
<1>4. ASSUME NEW why \in Interruptions,
             AttemptInterrupted(s, why), why = "raised" => Charged(s) <= fails[s]
      PROVE  FlightStands(s)' /\ ChargeStands(s)'
  <2>1. /\ Running(s) /\ ~Running(s)'
        /\ att'[s].n = att[s].n
        /\ att'[s].uncharged = att[s].uncharged + IF why = "raised" THEN 0 ELSE 1
        /\ att'[s].unsettled = att[s].unsettled
        /\ result' = result
    BY <1>4, InterruptedMoves
  <2>2. ~att[s].unsettled
    BY <2>1 DEF LedgerInv, RowOK, Running
  <2> QED
    BY <1>1, <1>2, <1>4, <2>1, <2>2, NoFlightIs, SMT
    DEF FlightStands, ChargeStands, Charged, Rows
<1>5. ASSUME NEW r \in Results,
             StepFinished(s, r), r = "exhausted" => fails[s] > RetryLimit
      PROVE  FlightStands(s)' /\ ChargeStands(s)'
  <2>1. ~Running(s)' /\ att'[s] = NoRow /\ result' = [result EXCEPT ![s] = r]
    BY <1>5, FinishedMoves
  <2>2. result'[s] = r
    BY <2>1 DEF LedgerInv, TypeOK
  <2> QED
    BY <1>1, <1>5, <2>1, <2>2, NoFlightIs, NoRowOK, SMT
    DEF FlightStands, ChargeStands, Charged
<1> QED
  BY <1>3, <1>4, <1>5 DEF EndRecord

LEMMA InterruptsTaken ==
  ASSUME LoopInv, NEW s \in Steps, NEW why, Interrupts(s, why), InFlight(s), Running(s)
  PROVE  AttemptInterrupted(s, why) /\ UNCHANGED ghosts
<1>1. FlightStands(s)
  BY DEF LoopInv, StepStands
<1>2. Open(s) /\ flight[s].n \in {0, att[s].n}
  BY <1>1 DEF FlightStands, InFlight
<1> QED
  BY <1>2 DEF Interrupts, Appends, CanInterrupt, Latest

LEMMA RecordsEnd ==
  ASSUME LoopInv, NEW s \in Steps, NEW r \in Results, NEW may, Records(s, r), InFlight(s),
         r = "exhausted" => fails[s] > RetryLimit,
         status # "parked" => may
  PROVE  EndRecord(s, may) /\ UNCHANGED ghosts
<1>1. FlightStands(s)
  BY DEF LoopInv, StepStands
<1>2. Open(s) /\ Latest(s)
  BY <1>1 DEF FlightStands, Flights, InFlight, Latest
<1>3. CASE status = "parked" /\ Running(s)
  <2>1. Interrupts(s, "pause")
    BY <1>2, <1>3 DEF Records
  <2> QED
    BY <1>3, <2>1, InterruptsTaken DEF EndRecord, Interruptions
<1>4. CASE status = "parked" /\ ~Running(s)
  BY <1>4 DEF Records, EndRecord
<1>5. CASE status # "parked"
  BY <1>2, <1>5 DEF Records, EndRecord, Appends, CanFinish
<1> QED
  BY <1>3, <1>4, <1>5

LEMMA FinishEnds ==
  ASSUME LoopInv, NEW s \in Steps, NEW r, NEW may, FinishAttempt(s, r), InFlight(s), Running(s),
         r \in Yields \/ (r = flight[s].reason /\ r # "none"),
         status # "parked" /\ (flight[s].reason # "pause" \/ r \in Yields) => may
  PROVE  EndRecord(s, may) /\ UNCHANGED ghosts
<1>1. flight[s].reason \in CancelReasons \cup {"none"}
  BY DEF LoopInv, StepStands, FlightStands, Flights
<1>2. CASE flight[s].reason = "pause" /\ r \notin Yields
  BY <1>2, InterruptsTaken DEF FinishAttempt, EndRecord, Interruptions
<1>3. CASE ~(flight[s].reason = "pause" /\ r \notin Yields)
  <2>1. r \in Results /\ r # "exhausted" /\ Records(s, r)
    BY <1>1, <1>3 DEF FinishAttempt, Results, Yields, CancelReasons
  <2> QED
    BY <1>1, <1>3, <2>1, RecordsEnd
<1> QED
  BY <1>2, <1>3

LEMMA OutlivedEnds ==
  ASSUME LoopInv, NEW s \in Steps, NEW r, NEW may, Outlived(s, r), InFlight(s),
         flight[s].at = "attach" \/ flight[s].k = "alive",
         r \in Yields \cup {"none"} \/ (r = flight[s].reason /\ r # "none"),
         status # "parked" => may
  PROVE  EndRecord(s, may) /\ Ends(s) /\ UNCHANGED ghosts
<1>1. FlightStands(s) /\ ChargeStands(s)
  BY DEF LoopInv, StepStands
<1>2. Ends(s)
  BY DEF Outlived
<1>3. CASE flight[s].mode = "attempt"
  <2>1. Running(s) /\ flight[s].reason \in Results
    BY <1>1, <1>3 DEF FlightStands
  <2>2. flight[s].reason \in CancelReasons \cup {"none"}
    BY <1>1 DEF FlightStands, Flights
  <2>3. flight[s].reason # "exhausted"
    BY <2>2 DEF CancelReasons
  <2>4. CASE r = "none"
    BY <1>2, <1>3, <2>1, <2>3, <2>4, RecordsEnd DEF Outlived
  <2>5. CASE r # "none"
    BY <1>2, <1>3, <2>1, <2>5, FinishEnds DEF Outlived
  <2> QED
    BY <2>4, <2>5
<1>4. CASE flight[s].mode = "conclude"
  <2>1. ~Running(s) /\ flight[s].settle \in Results
    BY <1>1, <1>4 DEF FlightStands
  <2>2. CASE status = "parked"
    BY <1>2, <1>4, <2>1, <2>2 DEF Outlived, EndRecord
  <2>3. CASE status # "parked" /\ r \in Yields
    <3>1. Records(s, r)
      BY <1>4, <2>3 DEF Outlived
    <3>2. r \in Results /\ r # "exhausted"
      BY <2>3 DEF Results, Yields
    <3> QED
      BY <1>2, <2>3, <3>1, <3>2, RecordsEnd
  <2>4. CASE status # "parked" /\ r \notin Yields
    <3>1. Records(s, flight[s].settle)
      BY <1>4, <2>4 DEF Outlived
    <3>2. flight[s].settle = "exhausted" => fails[s] > RetryLimit
      BY <1>1 DEF ChargeStands
    <3> QED
      BY <1>2, <2>1, <2>4, <3>1, <3>2, RecordsEnd
  <2> QED
    BY <2>2, <2>3, <2>4
<1> QED
  BY <1>1, <1>3, <1>4 DEF FlightStands, Flights, InFlight, NoFlight

-----------------------------------------------------------------------------
(* What follows the answer of a clear. *)

(* The flight goes on; at most, an attempt of a dead host is charged. *)
GoesOn(s) ==
  /\ UNCHANGED ledger \/ AttemptLost(s)
  /\ FlightStands(s)' /\ ChargeStands(s)'
  /\ \E f : flight' = [flight EXCEPT ![s] = f]
  /\ UNCHANGED wait

(* A result is recorded over work a clear proved gone, or gave up as the run  *)
(* ends; a flight that goes on had an answer.                                 *)
MayEnd(s, answer) ==
  answer \in Yields \cup {"cleared"} \/ (answer = "none" /\ flight[s].ending)
ClearedMove(s, answer) ==
  /\ UNCHANGED ghosts
  /\ \/ Ends(s) /\ EndRecord(s, MayEnd(s, answer))
     \/ answer # "none" /\ GoesOn(s)

LEMMA GoesStands ==
  ASSUME LoopInv, LedgerInv, NEW s \in Steps, NEW where, NEW k,
         Goes(s, where, k), loop' = loop, InFlight(s),
         UNCHANGED ledger \/ AttemptLost(s),
         where \in {"clear", "backoff", "start", "attach", "rest"},
         flight[s].mode = "conclude" =>
           k \in {"conclude", "alive"} /\ where # "start",
         flight[s].mode = "attempt" =>
           /\ k \in {"start", "failed", "alive"}
           /\ k = "start" => where \in {"clear", "backoff", "start"} /\ ~Running(s)
           /\ k # "start" => where # "start" /\ Running(s)
           /\ where \in {"attach", "rest"} \/ k = "alive" => flight[s].reason \in Results
  PROVE  FlightStands(s)'
<1> DEFINE f == flight[s]
           g == [f EXCEPT !.at = where, !.k = k, !.held = FALSE]
<1>1. FlightStands(s)
  BY DEF LoopInv, StepStands
<1>2. f \in Flights /\ f.mode # "none" /\ loop = "up" /\ Open(s)
  BY <1>1 DEF FlightStands, InFlight
<1>3. flight'[s] = g
  BY DEF Goes, LoopInv, LoopStands
<1>4. /\ g \in Flights /\ g.mode = f.mode /\ g.at = where /\ g.k = k /\ g.n = f.n
      /\ g.reason = f.reason /\ g.settle = f.settle
      /\ g.parked = f.parked /\ g.ending = f.ending
  <2>1. k \in {"start", "failed", "conclude", "alive"}
    BY <1>2 DEF Flights
  <2> QED
    BY <1>2, <2>1, ZenonT(30) DEF Flights
<1>5. /\ Open(s)' /\ (Running(s)' <=> Running(s)) /\ att'[s].n = att[s].n
      /\ Onward
  <2>1. CASE UNCHANGED ledger
    BY <1>2, <2>1 DEF ledger, Open, Running, Onward, RunIsEnding
  <2>2. CASE AttemptLost(s)
    BY <2>2, LostMoves
  <2> QED
    BY <2>1, <2>2
<1>6. f.mode = "attempt" => f.n = IF Running(s) THEN att[s].n ELSE 0
  BY <1>1 DEF FlightStands
<1> HIDE DEF g
<1> QED
  BY <1>1, <1>2, <1>3, <1>4, <1>5, <1>6 DEF FlightStands, Onward

(* Charging an attempt of a dead host, or nothing, keeps the charge sound, if *)
(* the flight does not become one of a failed attempt.                        *)
LEMMA ChargeGoes ==
  ASSUME LoopInv, LedgerInv, NEW s \in Steps,
         UNCHANGED ledger \/ AttemptLost(s), loop' = loop, fails' = fails,
         loop = "up",
         flight'[s].k = "failed" /\ flight'[s].reason = "none" =>
           Charged(s) <= fails[s] /\ Running(s),
         flight'[s].settle = flight[s].settle
  PROVE  ChargeStands(s)'
<1>1. ChargeStands(s)
  BY DEF LoopInv, StepStands
<1>2. att[s] \in Rows
  BY DEF LedgerInv, TypeOK
<1>3. CASE UNCHANGED ledger
  BY <1>1, <1>2, <1>3 DEF ledger, ChargeStands, Charged, Running
<1>4. CASE AttemptLost(s)
  <2>1. /\ (Running(s)' <=> Running(s)) /\ att[s].unsettled /\ ~att'[s].unsettled
        /\ att'[s].n = att[s].n /\ att'[s].uncharged = att[s].uncharged - 1
        /\ result' = result
    BY <1>4, LostMoves
  <2>2. ~Running(s)
    BY <2>1 DEF LedgerInv, RowOK, Running
  <2> QED
    BY <1>1, <1>2, <2>1, <2>2, SMT DEF ChargeStands, Charged, Rows
<1> QED
  BY <1>3, <1>4

LEMMA StartOnMoves ==
  ASSUME LoopInv, LedgerInv, NEW s \in Steps, NEW answer, StartOn(s, answer),
         loop = "up", loop' = loop,
         flight[s].mode = "attempt", flight[s].k = "start", flight[s].at # "run",
         answer \in Yields \cup {"alive", "cleared", "none"},
         answer = "none" => AbandonsClear(flight[s])
  PROVE  ClearedMove(s, answer)
<1>1. FlightStands(s)
  BY DEF LoopInv, StepStands
<1>2. ~Running(s) /\ InFlight(s) /\ flight[s] \in Flights
  BY <1>1, SMT DEF FlightStands, InFlight, NoFlight
<1>3. CASE answer = "none" \/ (flight[s].reason # "none" /\ answer = "cleared")
  <2>1. Ends(s)
    BY <1>3 DEF StartOn
  <2>2. CASE flight[s].reason \in {"none", "pause"}
    BY <1>2, <1>3, <2>1, <2>2 DEF StartOn, ClearedMove, EndRecord
  <2>3. CASE flight[s].reason \notin {"none", "pause"}
    <3>1. Records(s, flight[s].reason)
      BY <1>3, <2>3 DEF StartOn
    <3>2. flight[s].reason \in Results /\ flight[s].reason # "exhausted"
      BY <1>2, <2>3 DEF Flights, Results, CancelReasons
    <3>3. status # "parked" => MayEnd(s, answer)
      BY <1>1, <1>3, <2>3 DEF AbandonsClear, FlightStands, MayEnd
    <3> QED
      BY <1>2, <2>1, <3>1, <3>2, <3>3, RecordsEnd DEF ClearedMove
  <2> QED
    BY <2>2, <2>3
<1>4. CASE ~(answer = "none" \/ (flight[s].reason # "none" /\ answer = "cleared"))
  <2>1. /\ Goes(s, "start", "start") /\ UNCHANGED ghosts
        /\ UNCHANGED ledger \/ AttemptLost(s)
    BY <1>4 DEF StartOn
  <2>2. FlightStands(s)'
    BY <1>2, <2>1, GoesStands
  <2>3. ChargeStands(s)'
    <3>1. flight'[s].k = "start" /\ flight'[s].settle = flight[s].settle
      BY <1>2, <2>1 DEF Goes, LoopInv, LoopStands, Flights
    <3>2. fails' = fails
      BY <2>1 DEF ghosts
    <3> QED
      BY <2>1, <3>1, <3>2, ChargeGoes
  <2> QED
    BY <1>4, <2>1, <2>2, <2>3 DEF ClearedMove, GoesOn, Goes
<1> QED
  BY <1>3, <1>4

LEMMA FailedOnMoves ==
  ASSUME LoopInv, LedgerInv, NEW s \in Steps, NEW answer, FailedOn(s, answer),
         loop = "up", loop' = loop,
         flight[s].mode = "attempt", flight[s].k = "failed",
         answer \in Yields \cup {"alive", "cleared", "none"},
         answer = "none" => AbandonsClear(flight[s])
  PROVE  ClearedMove(s, answer)
<1>1. FlightStands(s) /\ ChargeStands(s)
  BY DEF LoopInv, StepStands
<1>2. Running(s) /\ InFlight(s) /\ flight[s] \in Flights
  BY <1>1, SMT DEF FlightStands, InFlight, NoFlight
<1>3. CASE answer \in Yields
  <2>1. FinishAttempt(s, answer) /\ Ends(s)
    BY <1>3 DEF FailedOn, Yields
  <2> QED
    BY <1>2, <1>3, <2>1, FinishEnds DEF ClearedMove, MayEnd
<1>4. CASE answer \notin Yields
           /\ (flight[s].reason \in {"none", "pause"} \/ status = "parked")
  <2> DEFINE why == IF status = "parked" \/ flight[s].reason = "pause"
                    THEN "pause" ELSE "raised"
  <2>1. Interrupts(s, why) /\ Ends(s)
    BY <1>4 DEF FailedOn
  <2>2. why \in Interruptions /\ (why = "raised" => Charged(s) <= fails[s])
    BY <1>1, <1>4 DEF Interruptions, ChargeStands
  <2> HIDE DEF why
  <2> QED
    BY <1>2, <2>1, <2>2, InterruptsTaken DEF ClearedMove, EndRecord
<1>5. CASE answer = "alive" /\ flight[s].reason \notin {"none", "pause"}
           /\ status # "parked"
  <2>1. Goes(s, "attach", "failed") /\ UNCHANGED <<ledger, ghosts>>
    BY <1>5 DEF FailedOn, Yields
  <2>2. flight[s].reason \in Results
    BY <1>2, <1>5 DEF Flights, Results, CancelReasons
  <2>3. FlightStands(s)'
    BY <1>2, <2>1, <2>2, GoesStands
  <2>4. ChargeStands(s)'
    <3>1. flight'[s].reason = flight[s].reason /\ flight'[s].settle = flight[s].settle
      BY <1>2, <2>1 DEF Goes, LoopInv, LoopStands, Flights
    <3>2. fails' = fails
      BY <2>1 DEF ghosts
    <3> QED
      BY <1>5, <2>1, <3>1, <3>2, ChargeGoes
  <2> QED
    BY <1>5, <2>1, <2>3, <2>4 DEF ClearedMove, GoesOn, Goes
<1>6. CASE answer \notin Yields \cup {"alive"} /\ flight[s].reason \notin {"none", "pause"}
           /\ status # "parked"
  <2>1. Records(s, flight[s].reason) /\ Ends(s)
    BY <1>6 DEF FailedOn
  <2>2. flight[s].reason \in Results /\ flight[s].reason # "exhausted"
    BY <1>2, <1>6 DEF Flights, Results, CancelReasons
  <2>3. MayEnd(s, answer)
    BY <1>1, <1>6 DEF AbandonsClear, FlightStands, MayEnd
  <2> QED
    BY <1>2, <2>1, <2>2, <2>3, RecordsEnd DEF ClearedMove
<1> QED
  BY <1>3, <1>4, <1>5, <1>6

LEMMA ConcludeOnMoves ==
  ASSUME LoopInv, LedgerInv, NEW s \in Steps, NEW answer, ConcludeOn(s, answer),
         loop = "up", loop' = loop,
         flight[s].mode = "conclude",
         answer \in Yields \cup {"alive", "cleared", "none"}
  PROVE  ClearedMove(s, answer)
<1>1. FlightStands(s) /\ ChargeStands(s)
  BY DEF LoopInv, StepStands
<1>2. ~Running(s) /\ InFlight(s) /\ flight[s] \in Flights /\ flight[s].settle \in Results
  BY <1>1, SMT DEF FlightStands, InFlight, NoFlight
<1>3. CASE (answer = "none" /\ ~flight[s].ending) \/ status = "parked"
  BY <1>2, <1>3 DEF ConcludeOn, ClearedMove, EndRecord
<1>4. CASE answer = "alive" /\ status # "parked"
  <2> DEFINE g == [flight[s] EXCEPT !.at = "attach", !.held = FALSE,
                     !.reason = IF flight[s].reason = "none" THEN "withdrawn"
                                ELSE flight[s].reason]
  <2>1. flight' = [flight EXCEPT ![s] = g] /\ UNCHANGED <<wait, ledger, ghosts>>
    BY <1>4 DEF ConcludeOn
  <2>2. flight'[s] = g
    BY <2>1 DEF LoopInv, LoopStands
  <2>3. /\ g \in Flights /\ g.mode = "conclude" /\ g.at = "attach"
        /\ g.k = flight[s].k /\ g.n = flight[s].n
        /\ g.reason = IF flight[s].reason = "none" THEN "withdrawn" ELSE flight[s].reason
        /\ g.settle = flight[s].settle
        /\ g.parked = flight[s].parked /\ g.ending = flight[s].ending
    BY <1>2 DEF Flights, CancelReasons
  <2> HIDE DEF g
  <2>4. FlightStands(s)'
    BY <1>1, <2>1, <2>2, <2>3, SMT DEF FlightStands, ledger, Open, Running, RunIsEnding
  <2>5. ChargeStands(s)'
    <3>1. fails' = fails
      BY <2>1 DEF ghosts
    <3>2. flight[s].k # "failed"
      BY <1>1 DEF FlightStands
    <3> QED
      BY <2>1, <2>2, <2>3, <3>1, <3>2, ChargeGoes
  <2> QED
    BY <1>4, <2>1, <2>4, <2>5 DEF ClearedMove, GoesOn
<1>5. CASE ~((answer = "none" /\ ~flight[s].ending) \/ status = "parked")
           /\ answer # "alive"
  <2> DEFINE given == IF answer \in Yields THEN answer ELSE flight[s].settle
  <2>1. Records(s, given) /\ Ends(s)
    BY <1>5 DEF ConcludeOn
  <2>2. given \in Results /\ (given = "exhausted" => fails[s] > RetryLimit)
    BY <1>1, <1>2 DEF Results, Yields, ChargeStands
  <2>3. MayEnd(s, answer)
    BY <1>5 DEF MayEnd
  <2> HIDE DEF given
  <2> QED
    BY <1>2, <2>1, <2>2, <2>3, RecordsEnd DEF ClearedMove
<1> QED
  BY <1>3, <1>4, <1>5

LEMMA AliveOnMoves ==
  ASSUME LoopInv, LedgerInv, NEW s \in Steps, NEW answer, AliveOn(s, answer),
         loop = "up", loop' = loop, InFlight(s),
         flight[s].k = "alive",
         answer \in Yields \cup {"alive", "cleared", "none"},
         answer = "none" => AbandonsClear(flight[s])
  PROVE  ClearedMove(s, answer)
<1>1. FlightStands(s)
  BY DEF LoopInv, StepStands
<1>2. /\ flight[s] \in Flights /\ flight[s].mode \in {"attempt", "conclude"}
      /\ flight[s].mode = "attempt" => Running(s) /\ flight[s].reason \in Results
      /\ flight[s].parked => status = "parked"
  BY <1>1 DEF FlightStands, Flights, InFlight
<1>3. CASE answer \in Yields
  <2>1. Outlived(s, answer)
    BY <1>3 DEF AliveOn, Yields
  <2> QED
    BY <1>3, <2>1, OutlivedEnds DEF ClearedMove, MayEnd
<1>4. CASE answer = "alive" /\ ~flight[s].parked
  <2>1. Goes(s, "rest", "alive") /\ UNCHANGED <<ledger, ghosts>>
    BY <1>4 DEF AliveOn, Yields
  <2>2. FlightStands(s)'
    BY <1>2, <2>1, GoesStands
  <2>3. ChargeStands(s)'
    <3>1. flight'[s].k = "alive" /\ flight'[s].settle = flight[s].settle
      BY <1>2, <2>1 DEF Goes, LoopInv, LoopStands, Flights
    <3>2. fails' = fails
      BY <2>1 DEF ghosts
    <3> QED
      BY <2>1, <3>1, <3>2, ChargeGoes
  <2> QED
    BY <1>4, <2>1, <2>2, <2>3 DEF ClearedMove, GoesOn, Goes
<1>5. CASE answer \notin Yields /\ ~(answer = "alive" /\ ~flight[s].parked)
  <2>1. Outlived(s, "none")
    BY <1>5 DEF AliveOn
  <2>2. flight[s].reason # "pause"
    <3>1. flight[s].mode = "conclude" => flight[s].reason # "pause"
      BY <1>1 DEF FlightStands
    <3>2. "pause" \notin Results
      BY DEF Results, Yields, CancelReasons
    <3> QED
      BY <1>2, <3>1, <3>2
  <2>3. status # "parked" => MayEnd(s, answer)
    BY <1>2, <1>5, <2>2 DEF AbandonsClear, MayEnd
  <2> QED
    BY <2>1, <2>3, OutlivedEnds DEF ClearedMove
<1> QED
  BY <1>3, <1>4, <1>5

LEMMA ClearedOnMoves ==
  ASSUME LoopInv, LedgerInv, NEW s \in Steps, NEW answer, ClearedOn(s, answer),
         loop = "up", loop' = loop, flight[s].at = "clear",
         answer \in Yields \cup {"alive", "cleared", "none"},
         answer = "none" => AbandonsClear(flight[s])
  PROVE  ClearedMove(s, answer)
<1>1. FlightStands(s)
  BY DEF LoopInv, StepStands
<1>2. InFlight(s) /\ flight[s].mode \in {"attempt", "conclude"}
  BY <1>1, SMT DEF FlightStands, Flights, InFlight, NoFlight
<1>3. /\ flight[s].mode = "attempt" => flight[s].k \in {"start", "failed", "alive"}
      /\ flight[s].mode = "conclude" => flight[s].k \in {"conclude", "alive"}
  BY <1>1 DEF FlightStands
<1>4. CASE flight[s].k = "start"
  BY <1>2, <1>3, <1>4, StartOnMoves DEF ClearedOn
<1>5. CASE flight[s].k = "failed"
  BY <1>2, <1>3, <1>5, FailedOnMoves DEF ClearedOn
<1>6. CASE flight[s].k = "conclude"
  BY <1>2, <1>3, <1>6, ConcludeOnMoves DEF ClearedOn
<1>7. CASE flight[s].k = "alive"
  BY <1>2, <1>7, AliveOnMoves DEF ClearedOn
<1> QED
  BY <1>2, <1>3, <1>4, <1>5, <1>6, <1>7

-----------------------------------------------------------------------------
(* The steps of a flight: what each does to the ledger and to the far side. *)

LessWork(s) == live' \in {live, [live EXCEPT ![s] = 0]} /\ unproven' = unproven
NoWork(s) == live' = [live EXCEPT ![s] = 0] /\ unproven' = unproven
GivesUp(s) == flight[s].ending /\ live' = live /\ unproven' = unproven \cup {s}
NewWork(s) ==
  /\ live' = live \/ (live[s] = 0 /\ live' = [live EXCEPT ![s] = 1])
  /\ unproven' = unproven

FlightMove(s) ==
  \/ /\ UNCHANGED ledger \/ AttemptLost(s)
        \/ \E why \in Interruptions : AttemptInterrupted(s, why)
     /\ LessWork(s) \/ GivesUp(s)
  \/ StepStarted(s) /\ NewWork(s)
  \/ /\ \E r \in Results : StepFinished(s, r)
     /\ NoWork(s) \/ GivesUp(s)

(* What no step of a flight touches, and the invariant of its own step. *)
FlightFrame(s) ==
  /\ loop = "up" /\ loop' = loop
  /\ \E f : flight' = [flight EXCEPT ![s] = f]
  /\ wait' \in {wait, Awake}
  /\ yield' \in {yield, yield \cup {s}}
  /\ heldAtExit' = heldAtExit /\ refused' = refused
  /\ \E n \in Nat : fails' = [fails EXCEPT ![s] = n]
  /\ FlightStands(s)' /\ ChargeStands(s)'
  /\ flight'[s].at = "start" => live'[s] = 0 \/ Adopts(s)

LEMMA SameFails ==
  ASSUME LoopInv, NEW s \in Steps, UNCHANGED ghosts
  PROVE  /\ heldAtExit' = heldAtExit /\ refused' = refused /\ fails' = fails
         /\ \E n \in Nat : fails' = [fails EXCEPT ![s] = n]
<1>1. fails[s] \in Nat /\ fails = [fails EXCEPT ![s] = fails[s]]
  BY DEF LoopInv, LoopStands
<1>2. heldAtExit' = heldAtExit /\ refused' = refused /\ fails' = fails
  BY DEF ghosts
<1> QED
  BY <1>1, <1>2

(* A flight that ends, on leave to record a result only over work that goes. *)
LEMMA EndMoves ==
  ASSUME LoopInv, LedgerInv, NEW s \in Steps, NEW may,
         Ends(s), EndRecord(s, may), UNCHANGED ghosts,
         loop = "up", loop' = loop, yield' \in {yield, yield \cup {s}},
         LessWork(s) \/ GivesUp(s),
         may => NoWork(s) \/ GivesUp(s)
  PROVE  FlightMove(s) /\ FlightFrame(s)
<1>1. flight'[s] = NoFlight /\ wait' = Awake /\ \E f : flight' = [flight EXCEPT ![s] = f]
  BY DEF Ends, LoopInv, LoopStands
<1>2. FlightStands(s)' /\ ChargeStands(s)'
  BY <1>1, SameFails, EndStands
<1>3. FlightFrame(s)
  BY <1>1, <1>2, SameFails, NoFlightIs DEF FlightFrame
<1>4. FlightMove(s)
  BY DEF FlightMove, EndRecord
<1> QED
  BY <1>3, <1>4

(* A flight that goes on. *)
LEMMA GoingMoves ==
  ASSUME LoopInv, NEW s \in Steps, GoesOn(s), UNCHANGED ghosts,
         loop = "up", loop' = loop, yield' \in {yield, yield \cup {s}},
         LessWork(s) \/ GivesUp(s),
         flight'[s].at = "start" => live'[s] = 0 \/ Adopts(s)
  PROVE  FlightMove(s) /\ FlightFrame(s)
BY SameFails DEF FlightMove, FlightFrame, GoesOn

LEMMA WorkOverIs ==
  ASSUME LoopInv, NEW s \in Steps, WorkOver(s)
  PROVE  live' = [live EXCEPT ![s] = 0]
<1>1. live[s] \in {0, 1}
  BY DEF LoopInv, StepStands, WorkStands
<1>2. (IF live[s] > 0 THEN live[s] - 1 ELSE 0) = 0
  BY <1>1, SMT
<1> QED
  BY <1>2 DEF WorkOver

LEMMA ClearAnswersMoves ==
  ASSUME LoopInv, LedgerInv, NEW s \in Steps, ClearAnswers(s)
  PROVE  FlightMove(s) /\ FlightFrame(s)
<1>0. PICK r \in Yields :
        ClearedOn(s, IF Adopts(s) /\ live[s] > 0 THEN "alive"
                     ELSE IF s \in yield THEN r ELSE "cleared")
  BY DEF ClearAnswers
<1> DEFINE answer == IF Adopts(s) /\ live[s] > 0 THEN "alive"
                     ELSE IF s \in yield THEN r ELSE "cleared"
<1>1. /\ Flies(s, "clear") /\ ClearedOn(s, answer)
      /\ live' = IF Adopts(s) THEN live ELSE [live EXCEPT ![s] = 0]
      /\ UNCHANGED <<loop, yield, unproven>>
  BY <1>0 DEF ClearAnswers
<1>2. loop = "up" /\ flight[s].at = "clear"
  BY <1>1 DEF Flies
<1>3. live \in [Steps -> Nat]
  BY DEF LoopInv, LoopStands
<1>4. LessWork(s) /\ (answer # "alive" => NoWork(s))
  <2>1. ~(live[s] > 0) => live = [live EXCEPT ![s] = 0]
    BY <1>3, SMT
  <2>2. answer # "alive" /\ Adopts(s) => ~(live[s] > 0)
    OBVIOUS
  <2> QED
    BY <1>1, <2>1, <2>2 DEF LessWork, NoWork
<1>5. live'[s] = 0 \/ Adopts(s)
  BY <1>1, <1>3
<1>6. /\ answer \in Yields \cup {"alive", "cleared", "none"} /\ answer # "none"
      /\ MayEnd(s, answer) => answer # "alive"
  BY DEF Yields, MayEnd
<1> HIDE DEF answer
<1>7. ClearedMove(s, answer)
  BY <1>1, <1>2, <1>6, ClearedOnMoves
<1>8. CASE Ends(s) /\ EndRecord(s, MayEnd(s, answer))
  <2>1. MayEnd(s, answer) => NoWork(s)
    BY <1>4, <1>6
  <2> QED
    BY <1>1, <1>2, <1>4, <1>7, <1>8, <2>1, EndMoves DEF ClearedMove
<1>9. CASE GoesOn(s)
  BY <1>1, <1>2, <1>4, <1>5, <1>7, <1>9, GoingMoves DEF ClearedMove
<1> QED
  BY <1>7, <1>8, <1>9 DEF ClearedMove

LEMMA QuietGoes ==
  ASSUME LoopInv, LedgerInv, NEW s \in Steps, NEW where, NEW k,
         Goes(s, where, k), UNCHANGED <<ledger, ghosts>>, loop = "up", loop' = loop,
         InFlight(s), where \in {"clear", "backoff", "attach", "rest"},
         k = flight[s].k \/ k = "alive",
         flight[s].at # "run", flight[s].at # "start",
         (k = "alive" \/ where \in {"attach", "rest"}) /\ flight[s].mode = "attempt" =>
           Running(s) /\ flight[s].reason \in Results
  PROVE  GoesOn(s) /\ flight'[s].at # "start"
<1>1. FlightStands(s) /\ ChargeStands(s)
  BY DEF LoopInv, StepStands
<1>2. flight[s] \in Flights /\ flight[s].mode # "none"
  BY <1>1 DEF FlightStands, InFlight
<1>3. FlightStands(s)'
  <2>1. flight[s].mode = "conclude" => k \in {"conclude", "alive"}
    BY <1>1 DEF FlightStands
  <2>2. flight[s].mode = "attempt" =>
           /\ k \in {"start", "failed", "alive"}
           /\ k = "start" => where \in {"clear", "backoff", "start"} /\ ~Running(s)
           /\ k # "start" => where # "start" /\ Running(s)
           /\ where \in {"attach", "rest"} \/ k = "alive" => flight[s].reason \in Results
    BY <1>1 DEF FlightStands
  <2> QED
    BY <2>1, <2>2, GoesStands
<1>4. /\ flight'[s].at = where /\ flight'[s].k = k
      /\ flight'[s].reason = flight[s].reason /\ flight'[s].settle = flight[s].settle
  BY <1>2 DEF Goes, LoopInv, LoopStands, Flights
<1>5. ChargeStands(s)'
  <2>1. k = "failed" => flight[s].mode = "attempt" /\ Running(s)
    BY <1>1, <1>2 DEF FlightStands, Flights
  <2>2. flight[s].k = "failed" /\ flight[s].reason = "none" => Charged(s) <= fails[s]
    BY <1>1 DEF ChargeStands
  <2>3. fails' = fails
    BY DEF ghosts
  <2> QED
    BY <1>4, <2>1, <2>2, <2>3, ChargeGoes
<1> QED
  BY <1>3, <1>4, <1>5 DEF GoesOn, Goes

LEMMA ClearFailsMoves ==
  ASSUME LoopInv, LedgerInv, NEW s \in Steps, ClearFails(s)
  PROVE  FlightMove(s) /\ FlightFrame(s)
<1>1. loop = "up" /\ flight[s].at = "clear" /\ UNCHANGED <<loop, live, yield>>
  BY DEF ClearFails, Flies, side
<1>2. FlightStands(s)
  BY DEF LoopInv, StepStands
<1>3. InFlight(s)
  BY <1>1, NoFlightIs DEF InFlight
<1>4. CASE AbandonsClear(flight[s])
  <2>1. /\ ClearedOn(s, "none")
        /\ unproven' = IF flight[s].ending THEN unproven \cup {s} ELSE unproven
    BY <1>4 DEF ClearFails
  <2>2. ClearedMove(s, "none")
    BY <1>1, <1>4, <2>1, ClearedOnMoves
  <2>3. Ends(s) /\ EndRecord(s, MayEnd(s, "none")) /\ UNCHANGED ghosts
    BY <2>2 DEF ClearedMove
  <2>4. /\ LessWork(s) \/ GivesUp(s)
        /\ MayEnd(s, "none") => GivesUp(s)
    BY <1>1, <2>1 DEF LessWork, GivesUp, MayEnd, Yields
  <2> QED
    BY <1>1, <2>3, <2>4, EndMoves
<1>5. CASE ~AbandonsClear(flight[s])
  <2>1. /\ Goes(s, "backoff", flight[s].k)
        /\ UNCHANGED <<ledger, ghosts>> /\ UNCHANGED unproven
    BY <1>5 DEF ClearFails
  <2>2. flight[s].k = "alive" /\ flight[s].mode = "attempt" =>
          Running(s) /\ flight[s].reason \in Results
    BY <1>2 DEF FlightStands
  <2>3. GoesOn(s) /\ flight'[s].at # "start"
    BY <1>1, <1>3, <2>1, <2>2, QuietGoes
  <2> QED
    BY <1>1, <2>1, <2>3, GoingMoves DEF LessWork
<1> QED
  BY <1>4, <1>5

LEMMA BackoffEndsMoves ==
  ASSUME LoopInv, LedgerInv, NEW s \in Steps, BackoffEnds(s)
  PROVE  FlightMove(s) /\ FlightFrame(s)
<1>1. loop = "up" /\ UNCHANGED <<ledger, loop, live, yield, unproven, ghosts>>
  BY DEF BackoffEnds, Flies, side
<1>2. FlightStands(s)
  BY DEF LoopInv, StepStands
<1>3. GoesOn(s) /\ flight'[s].at # "start"
  <2>1. CASE Flies(s, "backoff") /\ Goes(s, "clear", flight[s].k)
    <3>1. InFlight(s) /\ flight[s].at = "backoff"
      BY <2>1, NoFlightIs DEF InFlight, Flies
    <3>2. flight[s].k = "alive" /\ flight[s].mode = "attempt" =>
            Running(s) /\ flight[s].reason \in Results
      BY <1>2 DEF FlightStands
    <3> QED
      BY <1>1, <2>1, <3>1, <3>2, QuietGoes
  <2>2. CASE Flies(s, "rest") /\ Goes(s, "attach", "alive")
    <3>1. InFlight(s) /\ flight[s].at = "rest"
      BY <2>2, NoFlightIs DEF InFlight, Flies
    <3>2. flight[s].mode = "attempt" => Running(s) /\ flight[s].reason \in Results
      BY <1>2, <3>1 DEF FlightStands
    <3> QED
      BY <1>1, <2>2, <3>1, <3>2, QuietGoes
  <2> QED
    BY <2>1, <2>2 DEF BackoffEnds
<1> QED
  BY <1>1, <1>3, GoingMoves DEF LessWork

(* A start finds no work of its step alive, but for a job it adopts. *)
LEMMA StartMoves ==
  ASSUME LoopInv, LedgerInv, NEW s \in Steps, Start(s)
  PROVE  FlightMove(s) /\ FlightFrame(s)
<1>1. loop = "up" /\ flight[s].at = "start" /\ UNCHANGED <<loop, unproven>>
  BY DEF Start, Flies
<1>2. FlightStands(s) /\ WorkStands(s) /\ ChargeStands(s)
  BY DEF LoopInv, StepStands
<1>3. /\ InFlight(s) /\ flight[s] \in Flights
      /\ flight[s].mode = "attempt" /\ flight[s].k = "start" /\ ~Running(s) /\ Open(s)
  BY <1>1, <1>2, NoFlightIs DEF FlightStands, InFlight, Flights
<1>4. live \in [Steps -> Nat] /\ (live[s] = 0 \/ Adopts(s)) /\ live[s] \in {0, 1}
  BY <1>1, <1>2 DEF LoopInv, LoopStands, WorkStands
<1>5. CASE flight[s].reason # "none" /\ att[s].n = 0
  <2>1. StartOn(s, "cleared") /\ UNCHANGED <<live, yield>>
    BY <1>5 DEF Start, side
  <2>2. ClearedMove(s, "cleared")
    BY <1>1, <1>3, <2>1, StartOnMoves
  <2>3. live[s] = 0
    BY <1>2, <1>3, <1>5 DEF WorkStands
  <2>4. LessWork(s) /\ NoWork(s)
    BY <1>1, <1>4, <2>1, <2>3 DEF LessWork, NoWork
  <2>5. CASE Ends(s) /\ EndRecord(s, MayEnd(s, "cleared"))
    BY <1>1, <2>1, <2>2, <2>4, <2>5, EndMoves DEF ClearedMove
  <2>6. CASE GoesOn(s)
    BY <1>1, <2>1, <2>2, <2>3, <2>4, <2>6, GoingMoves DEF ClearedMove
  <2> QED
    BY <2>2, <2>5, <2>6 DEF ClearedMove
<1>6. CASE ~(flight[s].reason # "none" /\ att[s].n = 0) /\ RunDue(s) /\ ~ParkIsDue
  <2> DEFINE g == [flight[s] EXCEPT !.at = "run", !.n = att[s].n + 1]
  <2>1. /\ StepStarted(s)
        /\ flight' = [flight EXCEPT ![s] = g]
        /\ wait' = Awake
        /\ live' = IF Adopts(s) /\ (live[s] > 0 \/ s \in yield) THEN live
                   ELSE [live EXCEPT ![s] = live[s] + 1]
        /\ UNCHANGED <<yield, ghosts>>
    BY <1>6 DEF Start
  <2>2. NewWork(s)
    <3>1. CASE Adopts(s) /\ (live[s] > 0 \/ s \in yield)
      BY <1>1, <2>1, <3>1 DEF NewWork
    <3>2. CASE ~(Adopts(s) /\ (live[s] > 0 \/ s \in yield))
      <4>1. live[s] = 0 /\ live[s] + 1 = 1
        BY <1>4, <3>2, SMT
      <4> QED
        BY <1>1, <2>1, <3>2, <4>1 DEF NewWork
    <3> QED
      BY <3>1, <3>2
  <2>3. /\ Open(s)' /\ Running(s)' /\ att'[s].n = att[s].n + 1
        /\ att'[s].uncharged = att[s].uncharged /\ ~att'[s].unsettled
        /\ result' = result /\ Onward
    BY <2>1, StartedMoves
  <2>4. att[s] \in Rows /\ att[s].n + 1 \in Nat
    BY SMT DEF LedgerInv, TypeOK, Rows
  <2>5. /\ g \in Flights /\ g.mode = "attempt" /\ g.at = "run" /\ g.k = "start"
        /\ g.n = att[s].n + 1 /\ g.reason = flight[s].reason /\ g.settle = flight[s].settle
        /\ g.parked = flight[s].parked /\ g.ending = flight[s].ending
    BY <1>3, <2>4 DEF Flights
  <2> HIDE DEF g
  <2>6. flight'[s] = g
    BY <2>1 DEF LoopInv, LoopStands
  <2>7. FlightStands(s)'
    BY <1>1, <1>2, <1>3, <2>3, <2>5, <2>6 DEF FlightStands, Onward
  <2>8. ChargeStands(s)'
    <3>1. fails' = fails
      BY <2>1, SameFails
    <3> QED
      BY <1>1, <1>2, <1>3, <2>3, <2>4, <2>5, <2>6, <3>1, SMT DEF ChargeStands, Charged, Rows
  <2>9. FlightFrame(s)
    BY <1>1, <2>1, <2>5, <2>6, <2>7, <2>8, SameFails DEF FlightFrame
  <2> QED
    BY <2>1, <2>2, <2>9 DEF FlightMove
<1>7. CASE ~(flight[s].reason # "none" /\ att[s].n = 0) /\ ~(RunDue(s) /\ ~ParkIsDue)
  <2>1. Ends(s) /\ UNCHANGED <<ledger, live, yield, ghosts>>
    BY <1>7 DEF Start, side
  <2>2. EndRecord(s, FALSE)
    BY <1>3, <2>1 DEF EndRecord
  <2>3. LessWork(s)
    BY <1>1, <2>1 DEF LessWork
  <2> QED
    BY <1>1, <2>1, <2>2, <2>3, EndMoves
<1> QED
  BY <1>5, <1>6, <1>7

LEMMA CallHeldMoves ==
  ASSUME LoopInv, LedgerInv, NEW s \in Steps, CallHeld(s)
  PROVE  FlightMove(s) /\ FlightFrame(s)
<1> DEFINE g == [flight[s] EXCEPT !.held = TRUE]
<1>1. /\ loop = "up" /\ wait' = Awake /\ flight' = [flight EXCEPT ![s] = g]
      /\ UNCHANGED <<ledger, loop, live, yield, unproven, ghosts>>
      /\ flight[s].at \in {"clear", "run", "attach"}
  BY DEF CallHeld, Flies, side
<1>2. FlightStands(s) /\ ChargeStands(s)
  BY DEF LoopInv, StepStands
<1>3. /\ g \in Flights /\ g.mode = flight[s].mode /\ g.at = flight[s].at
      /\ g.k = flight[s].k /\ g.n = flight[s].n /\ g.reason = flight[s].reason
      /\ g.settle = flight[s].settle /\ g.parked = flight[s].parked
      /\ g.ending = flight[s].ending
  BY <1>2 DEF FlightStands, Flights
<1>4. flight'[s] = g
  BY <1>1 DEF LoopInv, LoopStands
<1>5. flight[s].mode # "none"
  BY <1>1, <1>2, NoFlightIs DEF FlightStands
<1> HIDE DEF g
<1>6. FlightStands(s)'
  BY <1>1, <1>2, <1>3, <1>4, <1>5, SMT DEF FlightStands, ledger, Open, Running, RunIsEnding
<1>7. ChargeStands(s)'
  BY <1>1, <1>2, <1>3, <1>4, SameFails DEF ChargeStands, ledger, Charged, Running
<1>8. FlightFrame(s)
  BY <1>1, <1>3, <1>4, <1>6, <1>7, SameFails DEF FlightFrame
<1> QED
  BY <1>1, <1>8 DEF FlightMove, LessWork

(* A call that returns while its attempt runs, or adopted work that ends. *)
LEMMA ReturnMoves ==
  ASSUME LoopInv, LedgerInv, NEW s \in Steps, NEW r,
         \/ Flies(s, "run") /\ FinishAttempt(s, r) /\ Ends(s)
         \/ Flies(s, "attach") /\ Outlived(s, r),
         r \in Yields \/ (r = flight[s].reason /\ r # "none"),
         UNCHANGED <<loop, unproven>>, yield' \in {yield, yield \cup {s}},
         LessWork(s), r = "pause" \/ NoWork(s)
  PROVE  FlightMove(s) /\ FlightFrame(s)
<1>1. FlightStands(s) /\ loop = "up"
  BY DEF LoopInv, StepStands, Flies
<1>2. InFlight(s)
  BY NoFlightIs DEF InFlight, Flies
<1>3. CASE Flies(s, "run") /\ FinishAttempt(s, r) /\ Ends(s)
  <2>1. Running(s)
    BY <1>1, <1>3, SMT DEF FlightStands, Flies, Flights, NoFlight
  <2>2. flight[s].reason # "pause" \/ r \in Yields => r # "pause"
    BY DEF Yields
  <2>3. EndRecord(s, r # "pause") /\ UNCHANGED ghosts
    BY <1>2, <1>3, <2>1, <2>2, FinishEnds
  <2> QED
    BY <1>1, <1>3, <2>3, EndMoves
<1>4. CASE Flies(s, "attach") /\ Outlived(s, r)
  <2>1. flight[s].at = "attach"
    BY <1>4 DEF Flies
  <2>2. r # "pause"
    <3>1. "pause" \notin Results /\ "pause" \notin Yields
      BY DEF Results, Yields, CancelReasons
    <3>2. flight[s].mode \in {"attempt", "conclude"}
      BY <1>1, <2>1, NoFlightIs DEF FlightStands, Flights
    <3> QED
      BY <1>1, <2>1, <3>1, <3>2 DEF FlightStands
  <2>3. EndRecord(s, TRUE) /\ Ends(s) /\ UNCHANGED ghosts
    BY <1>2, <1>4, <2>1, OutlivedEnds
  <2> QED
    BY <1>1, <2>2, <2>3, EndMoves
<1> QED
  BY <1>3, <1>4

LEMMA RunFinishesMoves ==
  ASSUME LoopInv, LedgerInv, NEW s \in Steps, RunFinishes(s)
  PROVE  FlightMove(s) /\ FlightFrame(s)
<1>1. NoWork(s) /\ LessWork(s)
  BY WorkOverIs DEF RunFinishes, NoWork, LessWork
<1>2. PICK r \in Yields :
        \/ Flies(s, "run") /\ FinishAttempt(s, r) /\ Ends(s)
        \/ Flies(s, "attach") /\ Outlived(s, r)
  BY DEF RunFinishes
<1>3. UNCHANGED <<loop, unproven>> /\ yield' \in {yield, yield \cup {s}}
  BY DEF RunFinishes
<1> QED
  BY <1>1, <1>2, <1>3, ReturnMoves

LEMMA RunCancelledMoves ==
  ASSUME LoopInv, LedgerInv, NEW s \in Steps, RunCancelled(s)
  PROVE  FlightMove(s) /\ FlightFrame(s)
<1>1. LessWork(s) /\ (flight[s].reason = "pause" \/ NoWork(s))
  BY WorkOverIs DEF RunCancelled, NoWork, LessWork
<1> QED
  BY <1>1, ReturnMoves DEF RunCancelled

LEMMA RunRaisesMoves ==
  ASSUME LoopInv, LedgerInv, NEW s \in Steps, RunRaises(s)
  PROVE  FlightMove(s) /\ FlightFrame(s)
<1> DEFINE k == IF flight[s].at = "run" THEN "failed" ELSE "alive"
           n == IF flight[s].at = "run" /\ flight[s].reason = "none"
                THEN fails[s] + 1 ELSE fails[s]
<1>1. /\ loop = "up" /\ flight[s].at \in {"run", "attach"}
      /\ Goes(s, "clear", k)
      /\ UNCHANGED <<ledger, loop, yield, unproven, heldAtExit, refused>>
  BY DEF RunRaises, Flies
<1>2. FlightStands(s) /\ ChargeStands(s) /\ fails \in [Steps -> Nat]
  BY DEF LoopInv, LoopStands, StepStands
<1>3. fails' = [fails EXCEPT ![s] = n] /\ n \in Nat
  <2>1. fails = [fails EXCEPT ![s] = fails[s]] /\ fails[s] \in Nat
    BY <1>2
  <2>2. CASE flight[s].at = "run" /\ flight[s].reason = "none"
    BY <2>1, <2>2, SMT DEF RunRaises
  <2>3. CASE ~(flight[s].at = "run" /\ flight[s].reason = "none")
    BY <2>1, <2>3 DEF RunRaises
  <2> QED
    BY <2>2, <2>3
<1>4. InFlight(s) /\ flight[s] \in Flights
  BY <1>1, <1>2, NoFlightIs DEF InFlight, FlightStands
<1>5. LessWork(s)
  BY <1>1, WorkOverIs DEF RunRaises, LessWork
<1>6. /\ flight'[s].at = "clear" /\ flight'[s].k = k
      /\ flight'[s].reason = flight[s].reason /\ flight'[s].settle = flight[s].settle
      /\ wait' = wait /\ \E f : flight' = [flight EXCEPT ![s] = f]
  BY <1>1, <1>4 DEF Goes, LoopInv, LoopStands, Flights
<1>7. FlightStands(s)'
  <2>1. flight[s].mode = "conclude" => k = "alive"
    BY <1>1, <1>2 DEF FlightStands
  <2>2. flight[s].mode = "attempt" =>
          Running(s) /\ (k = "alive" => flight[s].reason \in Results)
    BY <1>1, <1>2 DEF FlightStands
  <2>3. k \in {"failed", "alive"}
    OBVIOUS
  <2> HIDE DEF k
  <2> QED
    BY <1>1, <1>4, <2>1, <2>2, <2>3, GoesStands
<1>8. ChargeStands(s)'
  <2>1. att[s] \in Rows
    BY DEF LedgerInv, TypeOK
  <2>2. fails'[s] = n
    BY <1>2, <1>3
  <2>3. att'[s] = att[s] /\ result'[s] = result[s]
    BY <1>1 DEF ledger
  <2>4. flight[s].at = "run" => Running(s)
    BY <1>2, <1>4 DEF FlightStands, Flights, InFlight
  <2>5. fails[s] \in Nat /\ RetryLimit \in Nat
    BY <1>2, StepsAssumption
  <2> QED
    BY <1>1, <1>2, <1>6, <2>1, <2>2, <2>3, <2>4, <2>5, SMT
    DEF ChargeStands, Charged, Running, Rows
<1> HIDE DEF n, k
<1>9. FlightFrame(s)
  BY <1>1, <1>3, <1>6, <1>7, <1>8 DEF FlightFrame
<1> QED
  BY <1>1, <1>5, <1>9 DEF FlightMove

LEMMA FlightStepMoves ==
  ASSUME LoopInv, LedgerInv, NEW s \in Steps, FlightSteps(s)
  PROVE  FlightMove(s) /\ FlightFrame(s)
BY ClearAnswersMoves, ClearFailsMoves, BackoffEndsMoves, StartMoves, CallHeldMoves,
   RunFinishesMoves, RunCancelledMoves, RunRaisesMoves DEF FlightSteps

LEMMA SameLedger ==
  ASSUME UNCHANGED ledger
  PROVE  (\A t : Unmoved(t)) /\ Onward /\ Asked' = Asked /\ (RunIsEnding' <=> RunIsEnding)
BY DEF ledger, Unmoved, Open, Onward, RunIsEnding, Asked

-----------------------------------------------------------------------------
(* The contract of the loop. *)

LEMMA MoveRecord ==
  ASSUME LedgerInv, NEW s \in Steps, FlightMove(s)
  PROVE  (\A t \in Steps \ {s} : Unmoved(t)) /\ Onward
<1>1. CASE UNCHANGED ledger
  BY <1>1, SameLedger
<1>2. CASE AttemptLost(s)
  BY <1>2, LostMoves
<1>3. CASE \E why \in Interruptions : AttemptInterrupted(s, why)
  BY <1>3, InterruptedMoves
<1>4. CASE StepStarted(s)
  BY <1>4, StartedMoves
<1>5. CASE \E r \in Results : StepFinished(s, r)
  BY <1>5, FinishedMoves
<1> QED
  BY <1>1, <1>2, <1>3, <1>4, <1>5 DEF FlightMove

LEMMA MoveWork ==
  ASSUME LoopInv, LedgerInv, NEW s \in Steps, FlightMove(s), FlightFrame(s)
  PROVE  WorkStands(s)'
<1>1. WorkStands(s) /\ live \in [Steps -> Nat]
  BY DEF LoopInv, LoopStands, StepStands
<1>2. flight'[s].at = "start" => live'[s] = 0 \/ Adopts(s)'
  BY DEF FlightFrame, Adopts, OwnedJob
<1>3. att[s].n \in Nat
  BY DEF LedgerInv, TypeOK, Rows
<1>4. CASE /\ UNCHANGED ledger \/ AttemptLost(s)
              \/ \E why \in Interruptions : AttemptInterrupted(s, why)
           /\ LessWork(s) \/ GivesUp(s)
  <2>1. live'[s] \in {0, live[s]} /\ unproven \subseteq unproven'
    BY <1>1, <1>4 DEF LessWork, GivesUp
  <2>2. CASE UNCHANGED ledger
    BY <1>1, <1>2, <2>1, <2>2 DEF WorkStands, ledger, Open
  <2>3. CASE AttemptLost(s)
    <3>1. Open(s) /\ Open(s)' /\ att'[s].n = att[s].n
      BY <2>3, LostMoves
    <3> QED
      BY <1>1, <1>2, <2>1, <3>1 DEF WorkStands, Open
  <2>4. CASE \E why \in Interruptions : AttemptInterrupted(s, why)
    <3>1. Open(s) /\ Open(s)' /\ att'[s].n = att[s].n
      BY <2>4, InterruptedMoves
    <3> QED
      BY <1>1, <1>2, <2>1, <3>1 DEF WorkStands, Open
  <2> QED
    BY <1>4, <2>2, <2>3, <2>4
<1>5. CASE StepStarted(s) /\ NewWork(s)
  <2>1. Open(s)' /\ att'[s].n = att[s].n + 1
    BY <1>5, StartedMoves
  <2>2. live'[s] \in {0, 1}
    BY <1>1, <1>5 DEF NewWork, WorkStands
  <2> QED
    BY <1>2, <1>3, <2>1, <2>2, SMT DEF WorkStands, Open
<1>6. CASE /\ \E r \in Results : StepFinished(s, r)
           /\ NoWork(s) \/ GivesUp(s)
  <2>1. ~Open(s)' /\ phase'[s] = "done"
    BY <1>6, FinishedMoves
  <2>2. live'[s] \in {0, live[s]} /\ (live'[s] = 0 \/ s \in unproven')
    BY <1>1, <1>6 DEF NoWork, GivesUp
  <2> QED
    BY <1>1, <1>2, <2>1, <2>2 DEF WorkStands
<1> QED
  BY <1>4, <1>5, <1>6 DEF FlightMove

LEMMA MoveStands ==
  ASSUME LoopInv, LedgerInv, NEW s \in Steps, FlightMove(s), FlightFrame(s)
  PROVE  LoopInv'
<1>1. PICK f : flight' = [flight EXCEPT ![s] = f]
  BY DEF FlightFrame
<1>2. PICK n \in Nat : fails' = [fails EXCEPT ![s] = n]
  BY DEF FlightFrame
<1>3. /\ flight \in [Steps -> Flights] /\ live \in [Steps -> Nat]
      /\ fails \in [Steps -> Nat] /\ unproven \subseteq Steps /\ yield \subseteq Steps
  BY DEF LoopInv, LoopStands
<1>4. WorkStands(s)'
  BY MoveWork
<1>5. StepStands(s)'
  BY <1>4 DEF StepStands, FlightFrame
<1>6. /\ \A t \in Steps \ {s} : live'[t] = live[t]
      /\ live' \in [Steps -> Nat] /\ unproven \subseteq unproven' /\ unproven' \subseteq Steps
  BY <1>3, SMT DEF FlightMove, LessWork, NoWork, GivesUp, NewWork
<1>7. ASSUME NEW t \in Steps, t # s
      PROVE  StepStands(t)'
  <2>1. flight'[t] = flight[t] /\ fails'[t] = fails[t] /\ live'[t] = live[t]
    BY <1>1, <1>2, <1>3, <1>6, <1>7
  <2>2. Unmoved(t) /\ Onward
    BY <1>7, MoveRecord
  <2> QED
    BY <1>6, <2>1, <2>2, OthersStand DEF FlightFrame
<1>8. flight' \in [Steps -> Flights] /\ fails' \in [Steps -> Nat]
  <2>1. f \in Flights
    BY <1>1, <1>3, <1>5 DEF StepStands, FlightStands
  <2> QED
    BY <1>1, <1>2, <1>3, <2>1
<1>9. LoopStands'
  <2>1. Awake \in [over : BOOLEAN, limits : SUBSET Steps, backoffs : SUBSET Steps,
                   drain : BOOLEAN]
    BY DEF Awake
  <2> QED
    BY <1>3, <1>6, <1>8, <2>1 DEF LoopInv, LoopStands, FlightFrame
<1> QED
  BY <1>5, <1>7, <1>9 DEF LoopInv

-----------------------------------------------------------------------------
(* A turn of the main task. *)

LEMMA ReasonsTrue ==
  ASSUME NEW s \in Steps
  PROVE  /\ StopReason(s) = "run_ending" => RunIsEnding
         /\ SettledAs(s) = "run_ending" => RunIsEnding
         /\ SettledAs(s) = "exhausted" => Charged(s) > RetryLimit
         /\ SettledAs(s) # "pause"
<1>1. EndReason(s) \in {"run_ending", "withdrawn", "none"}
      /\ (EndReason(s) = "run_ending" => RunIsEnding)
  BY DEF EndReason, RunEndsStep
<1> QED
  BY <1>1 DEF StopReason, SettledAs

LEMMA ConcludedIs ==
  ASSUME NEW f \in Flights, NEW why \in CancelReasons
  PROVE  LET g == Concluded(f, why) IN
         /\ g \in Flights
         /\ g.mode = f.mode /\ g.at = f.at /\ g.k = f.k /\ g.n = f.n
         /\ g.reason = IF f.reason = "none" THEN why ELSE f.reason
         /\ g.ending = (f.ending \/ why = "run_ending")
         /\ g.parked = f.parked /\ g.settle = f.settle /\ g.held = f.held
BY DEF Concluded, Flights

(* A flight that is told why its step ends. *)
LEMMA ToldStands ==
  ASSUME LoopInv, NEW s \in Steps, NEW why \in CancelReasons, InFlight(s),
         flight'[s] = Concluded(flight[s], why),
         why = "pause" => Running(s),
         why = "run_ending" => RunIsEnding,
         UNCHANGED <<ledger, loop, live, fails, unproven>>
  PROVE  StepStands(s)'
<1> DEFINE g == Concluded(flight[s], why)
<1>1. FlightStands(s) /\ WorkStands(s) /\ ChargeStands(s)
  BY DEF LoopInv, StepStands
<1>2. flight[s] \in Flights
  BY <1>1 DEF FlightStands
<1>3. /\ g \in Flights
      /\ g.mode = flight[s].mode /\ g.at = flight[s].at
      /\ g.k = flight[s].k /\ g.n = flight[s].n
      /\ g.reason = IF flight[s].reason = "none" THEN why ELSE flight[s].reason
      /\ g.ending = (flight[s].ending \/ why = "run_ending")
      /\ g.parked = flight[s].parked /\ g.settle = flight[s].settle
  BY <1>2, ConcludedIs
<1>4. flight'[s] = g /\ why # "none" /\ "none" \notin Results
  BY DEF CancelReasons, Results, Yields
<1> HIDE DEF g
<1>5. g.mode # "none"
  BY <1>1, <1>3 DEF FlightStands, InFlight
<1>6. UNCHANGED <<phase, att, result, status, finish, stop>>
  BY DEF ledger
<1>7. FlightStands(s)'
  BY <1>1, <1>3, <1>4, <1>5, <1>6 DEF FlightStands, Open, Running, RunIsEnding
<1>8. WorkStands(s)'
  BY <1>1, <1>3, <1>4, <1>6 DEF WorkStands, Open, Adopts, OwnedJob
<1>9. ChargeStands(s)'
  BY <1>1, <1>3, <1>4, <1>6 DEF ChargeStands, Charged, Running
<1> QED
  BY <1>7, <1>8, <1>9 DEF StepStands

(* A flight for a step that had none. *)
LEMMA BornStands ==
  ASSUME LoopInv, LedgerInv, NEW s \in Steps, loop = "up", ~InFlight(s), Open(s), ~Running(s),
         \/ SettledAs(s) # "none" /\ flight'[s] = ConcludeFlight(s, SettledAs(s))
         \/ flight'[s] = AttemptFlight(s),
         UNCHANGED <<ledger, loop, live, fails, unproven>>
  PROVE  StepStands(s)'
<1>1. FlightStands(s) /\ WorkStands(s) /\ ChargeStands(s)
  BY DEF LoopInv, StepStands
<1>2. UNCHANGED <<phase, att, result, status, finish, stop>>
  BY DEF ledger
<1>3. att[s] \in Rows /\ RetryLimit \in Nat /\ fails[s] \in Nat
  BY <1>1, StepsAssumption DEF LedgerInv, TypeOK, ChargeStands
<1>4. CASE flight'[s] = AttemptFlight(s)
  <2>1. /\ AttemptFlight(s) \in Flights /\ AttemptFlight(s).mode = "attempt"
        /\ AttemptFlight(s).k = "start" /\ AttemptFlight(s).n = 0
        /\ AttemptFlight(s).reason = "none" /\ AttemptFlight(s).settle = "none"
        /\ AttemptFlight(s).at = IF att[s].n > 0 THEN "clear" ELSE "start"
        /\ ~AttemptFlight(s).parked /\ ~AttemptFlight(s).ending
    BY DEF AttemptFlight, NoFlight, Flights
  <2>2. FlightStands(s)'
    BY <1>2, <1>4, <2>1 DEF FlightStands, Open, Running, Results, CancelReasons
  <2>3. WorkStands(s)'
    <3>1. AttemptFlight(s).at = "start" => att[s].n = 0
      BY <1>3, <2>1, SMT DEF Rows
    <3> QED
      BY <1>1, <1>2, <1>4, <3>1 DEF WorkStands, Open, Adopts, OwnedJob
  <2>4. ChargeStands(s)'
    BY <1>1, <1>2, <1>4, <2>1 DEF ChargeStands, Charged, Running
  <2> QED
    BY <2>2, <2>3, <2>4 DEF StepStands
<1>5. CASE SettledAs(s) # "none" /\ flight'[s] = ConcludeFlight(s, SettledAs(s))
  <2> DEFINE r == SettledAs(s)
             f == [NoFlight EXCEPT !.mode = "conclude", !.at = "clear",
                                   !.k = "conclude", !.settle = r]
  <2>1. r \in Results /\ (r # "exhausted" => r \in CancelReasons) /\ r # "pause"
        /\ (r = "run_ending" => RunIsEnding) /\ (r = "exhausted" => Charged(s) > RetryLimit)
    BY <1>5, SettledAsIs, ReasonsTrue
  <2> HIDE DEF r
  <2>2. /\ f \in Flights /\ f.mode = "conclude" /\ f.at = "clear" /\ f.k = "conclude"
        /\ f.settle = r /\ f.n = 0 /\ f.reason = "none" /\ ~f.parked /\ f.ending = FALSE
    BY <2>1 DEF NoFlight, Flights
  <2>3. flight'[s] = IF r = "exhausted" THEN f ELSE Concluded(f, r)
    BY <1>5 DEF ConcludeFlight, r
  <2> HIDE DEF f
  <2>4. /\ flight'[s] \in Flights /\ flight'[s].mode = "conclude" /\ flight'[s].at = "clear"
        /\ flight'[s].k = "conclude" /\ flight'[s].settle = r /\ flight'[s].n = 0
        /\ flight'[s].reason # "pause" /\ ~flight'[s].parked
        /\ flight'[s].ending => r = "run_ending"
    <3>1. CASE r = "exhausted"
      BY <2>2, <2>3, <3>1
    <3>2. CASE r # "exhausted"
      <4> DEFINE g == Concluded(f, r)
      <4>1. /\ g \in Flights
            /\ g.mode = f.mode /\ g.at = f.at /\ g.k = f.k /\ g.n = f.n
            /\ g.reason = IF f.reason = "none" THEN r ELSE f.reason
            /\ g.ending = (f.ending \/ r = "run_ending")
            /\ g.parked = f.parked /\ g.settle = f.settle
        BY <2>1, <2>2, <3>2, ConcludedIs, SMT
      <4>2. flight'[s] = g
        BY <2>3, <3>2
      <4> HIDE DEF g
      <4> QED
        BY <2>1, <2>2, <4>1, <4>2
    <3> QED
      BY <3>1, <3>2
  <2>5. FlightStands(s)'
    BY <1>2, <2>1, <2>4 DEF FlightStands, Open, Running, RunIsEnding
  <2>6. WorkStands(s)'
    BY <1>1, <1>2, <2>4 DEF WorkStands, Open
  <2>7. ChargeStands(s)'
    BY <1>1, <1>2, <1>3, <2>1, <2>4, SMT DEF ChargeStands, Charged, Running, Rows
  <2> QED
    BY <2>5, <2>6, <2>7 DEF StepStands
<1> QED
  BY <1>4, <1>5

LEMMA DispatchStands ==
  ASSUME LoopInv, LedgerInv, NEW s \in Steps, loop = "up", flight'[s] = Dispatched(s),
         UNCHANGED <<ledger, loop, live, fails, unproven>>
  PROVE  StepStands(s)'
<1>1. FlightStands(s)
  BY DEF LoopInv, StepStands
<1>2. Running(s) => InFlight(s)
  BY <1>1, NoFlightIs DEF FlightStands, InFlight
<1>3. CASE Cancels(s)
  <2>1. Dispatched(s) = Concluded(flight[s], StopReason(s)) /\ InFlight(s) /\ Running(s)
    BY <1>2, <1>3 DEF Dispatched, Cancels, Settles, RunDue
  <2>2. StopReason(s) \in CancelReasons /\ (StopReason(s) = "run_ending" => RunIsEnding)
    BY <1>3, StopReasonIs, ReasonsTrue DEF Cancels
  <2> QED
    BY <2>1, <2>2, ToldStands
<1>4. CASE Settles(s) /\ InFlight(s) /\ SettledAs(s) # "exhausted"
  <2>1. Dispatched(s) = Concluded(flight[s], SettledAs(s))
    BY <1>4 DEF Dispatched, Cancels, Settles, RunDue
  <2>2. SettledAs(s) \in CancelReasons /\ SettledAs(s) # "pause"
        /\ (SettledAs(s) = "run_ending" => RunIsEnding)
    BY <1>4, SettledAsIs, ReasonsTrue DEF Settles
  <2> QED
    BY <1>4, <2>1, <2>2, ToldStands
<1>5. CASE Settles(s) /\ ~InFlight(s)
  <2>1. Dispatched(s) = ConcludeFlight(s, SettledAs(s))
    BY <1>5 DEF Dispatched, Cancels, Settles, RunDue
  <2> QED
    BY <1>5, <2>1, BornStands DEF Settles
<1>6. CASE RunDue(s) /\ ~InFlight(s)
  <2>1. Dispatched(s) = AttemptFlight(s)
    BY <1>6 DEF Dispatched, Cancels, Settles, RunDue
  <2> QED
    BY <1>6, <2>1, BornStands DEF RunDue
<1>7. CASE /\ ~Cancels(s)
           /\ ~(Settles(s) /\ InFlight(s) /\ SettledAs(s) # "exhausted")
           /\ ~(Settles(s) /\ ~InFlight(s))
           /\ ~(RunDue(s) /\ ~InFlight(s))
  <2>1. Dispatched(s) = flight[s]
    BY <1>7 DEF Dispatched
  <2> QED
    BY <2>1, SameLedger, OthersStand
<1> QED
  BY <1>3, <1>4, <1>5, <1>6, <1>7

WaitType == [over : BOOLEAN, limits : SUBSET Steps, backoffs : SUBSET Steps, drain : BOOLEAN]

LEMMA WaitsTyped ==
  ASSUME LedgerInv
  PROVE  /\ Awake \in WaitType
         /\ \A fl, moved, waits :
              waits \in BOOLEAN => Timers(fl, moved, waits) \in WaitType
<1>1. Awake \in WaitType
  BY DEF Awake, WaitType
<1>2. backing \subseteq Steps /\ overdue \in BOOLEAN
  BY DEF LedgerInv, TypeOK
<1>3. ASSUME NEW fl, NEW moved, NEW waits \in BOOLEAN
      PROVE  Timers(fl, moved, waits) \in WaitType
  BY <1>2 DEF Timers, WaitType
<1> QED
  BY <1>1, <1>3

(* A step that moves no step of the run and no flight. *)
LEMMA StillStands ==
  ASSUME LoopInv, \A t \in Steps : Unmoved(t), Onward,
         UNCHANGED <<flight, loop, live, fails, yield, unproven, heldAtExit, refused>>,
         wait' \in WaitType
  PROVE  LoopInv'
<1>1. \A t \in Steps : StepStands(t)'
  BY OthersStand
<1>2. LoopStands'
  BY DEF LoopInv, LoopStands, Unmoved, Onward, Running, WaitType
<1> QED
  BY <1>1, <1>2 DEF LoopInv

LEMMA TurnStands ==
  ASSUME LoopInv, LedgerInv, Turn
  PROVE  LoopInv'
<1>1. /\ loop = "up" /\ UNCHANGED <<live, yield, unproven>>
      /\ flight \in [Steps -> Flights] /\ wait \in WaitType
  BY DEF Turn, TurnDispatches, TurnTicks, TurnEnds, TurnParks, MainTask, side, LoopInv,
         LoopStands, WaitType
<1>2. CASE TurnDispatches
  <2>1. /\ flight' = [s \in Steps |-> Dispatched(s)]
        /\ \E moved : wait' = Timers(flight', moved, \A s \in Steps : ~Acts(s))
        /\ UNCHANGED <<ledger, loop, ghosts>>
    BY <1>2 DEF TurnDispatches
  <2>2. UNCHANGED <<fails, heldAtExit, refused>>
    BY <2>1 DEF ghosts
  <2>3. \A s \in Steps : StepStands(s)'
    BY <1>1, <2>1, <2>2, DispatchStands
  <2>4. wait' \in WaitType
    <3>1. (\A s \in Steps : ~Acts(s)) \in BOOLEAN
      OBVIOUS
    <3> QED
      BY <2>1, <3>1, WaitsTyped
  <2>5. flight' \in [Steps -> Flights]
    BY <2>1, <2>3 DEF StepStands, FlightStands
  <2>6. LoopStands'
    BY <1>1, <2>1, <2>2, <2>4, <2>5 DEF LoopInv, LoopStands, WaitType
  <2> QED
    BY <2>3, <2>6 DEF LoopInv
<1>3. CASE TurnTicks
  <2>1. ClockAdvanced /\ UNCHANGED <<flight, loop, wait, ghosts>>
    BY <1>3 DEF TurnTicks
  <2>2. (\A t \in Steps : Unmoved(t)) /\ Onward
    BY <2>1, ControlMoves DEF ClockAdvanced
  <2> QED
    BY <1>1, <2>1, <2>2, StillStands DEF ghosts
<1>4. CASE TurnEnds
  <2>1. /\ \A s \in Steps : ~InFlight(s)
        /\ RunEnded /\ loop' = "ended" /\ UNCHANGED <<flight, wait, ghosts>>
    BY <1>4 DEF TurnEnds
  <2>2. UNCHANGED <<phase, att, result, status, finish, stop, fails, heldAtExit, refused>>
    BY <2>1 DEF RunEnded, ghosts
  <2>3. ASSUME NEW s \in Steps
        PROVE  StepStands(s)'
    <3>1. StepStands(s) /\ flight'[s] = NoFlight /\ flight[s] = NoFlight
      BY <2>1 DEF LoopInv, InFlight
    <3>2. FlightStands(s)'
      BY <2>1, <2>2, <3>1, NoFlightIs DEF FlightStands, Open, Running, RunIsEnding
    <3>3. WorkStands(s)'
      BY <1>1, <2>2, <3>1, NoFlightIs DEF StepStands, WorkStands, Open
    <3>4. ChargeStands(s)'
      BY <2>1, <2>2, <3>1, NoFlightIs DEF StepStands, ChargeStands, Charged, Running
    <3> QED
      BY <3>2, <3>3, <3>4 DEF StepStands
  <2>4. LoopStands'
    BY <1>1, <2>1, <2>2 DEF LoopInv, LoopStands
  <2> QED
    BY <2>3, <2>4 DEF LoopInv
<1>5. CASE TurnParks /\ ParkExits
  <2>1. /\ flight' = [s \in Steps |-> NoFlight] /\ loop' = "parked"
        /\ heldAtExit' = {s \in Steps : flight[s].held}
        /\ wait' = Awake /\ UNCHANGED <<ledger, fails, refused>>
        /\ status = "parked"
    BY <1>5 DEF TurnParks, AtRest
  <2>2. UNCHANGED <<phase, att, result, status, finish, stop>>
    BY <2>1 DEF ledger
  <2>3. ASSUME NEW s \in Steps
        PROVE  StepStands(s)' /\ (Running(s)' => s \in heldAtExit')
    <3>1. FlightStands(s) /\ WorkStands(s) /\ ChargeStands(s) /\ flight'[s] = NoFlight
      BY <2>1 DEF LoopInv, StepStands
    <3>2. Running(s) => flight[s].held
      BY <1>1, <1>5, <3>1, NoFlightIs DEF FlightStands, ParkExits, InFlight
    <3>3. FlightStands(s)'
      BY <2>1, <2>2, <3>1, NoFlightIs DEF FlightStands
    <3>4. WorkStands(s)'
      BY <1>1, <2>2, <3>1, NoFlightIs DEF WorkStands, Open
    <3>5. ChargeStands(s)'
      BY <2>1, <2>2, <3>1, NoFlightIs DEF ChargeStands, Charged, Running
    <3> QED
      BY <2>1, <2>2, <3>2, <3>3, <3>4, <3>5 DEF StepStands, Running
  <2>4. LoopStands'
    <3>1. Awake \in WaitType
      BY WaitsTyped
    <3> QED
      BY <1>1, <2>1, <2>2, <2>3, <3>1, NoFlightIs DEF LoopInv, LoopStands, WaitType
  <2> QED
    BY <2>3, <2>4 DEF LoopInv
<1>6. CASE TurnParks /\ ~ParkExits
  <2> DEFINE told(s) == IF Open(s) /\ Running(s) THEN Concluded(flight[s], "pause")
                        ELSE flight[s]
             stopped == [s \in Steps |-> IF ~InFlight(s) THEN NoFlight
                                         ELSE [told(s) EXCEPT !.parked = TRUE]]
  <2>1. /\ flight' = stopped /\ loop' = loop /\ heldAtExit' = heldAtExit
        /\ wait' = Timers(stopped, {}, FALSE) /\ UNCHANGED <<ledger, fails, refused>>
        /\ status = "parked"
    BY <1>6 DEF TurnParks, AtRest
  <2>2. UNCHANGED <<phase, att, result, status, finish, stop>>
    BY <2>1 DEF ledger
  <2>3. ASSUME NEW s \in Steps
        PROVE  StepStands(s)'
    <3>1. FlightStands(s) /\ WorkStands(s) /\ ChargeStands(s) /\ flight[s] \in Flights
      BY DEF LoopInv, StepStands, FlightStands
    <3>2. CASE ~InFlight(s)
      <4>1. flight'[s] = flight[s]
        BY <2>1, <3>2 DEF InFlight
      <4> QED
        BY <1>1, <2>1, <4>1, SameLedger, OthersStand
    <3>3. CASE InFlight(s)
      <4> DEFINE b == told(s)
                 g == [b EXCEPT !.parked = TRUE]
      <4>1. flight'[s] = g
        BY <2>1, <3>3
      <4>2. /\ b \in Flights
            /\ b.mode = flight[s].mode /\ b.at = flight[s].at
            /\ b.k = flight[s].k /\ b.n = flight[s].n /\ b.settle = flight[s].settle
            /\ b.reason = flight[s].reason
               \/ (flight[s].reason = "none" /\ b.reason = "pause" /\ Running(s))
            /\ b.ending = flight[s].ending
        <5>1. CASE Open(s) /\ Running(s)
          <6> DEFINE c == Concluded(flight[s], "pause")
          <6>1. "pause" \in CancelReasons
            BY DEF CancelReasons
          <6>2. /\ c \in Flights
                /\ c.mode = flight[s].mode /\ c.at = flight[s].at
                /\ c.k = flight[s].k /\ c.n = flight[s].n
                /\ c.reason = IF flight[s].reason = "none" THEN "pause" ELSE flight[s].reason
                /\ c.ending = (flight[s].ending \/ "pause" = "run_ending")
                /\ c.settle = flight[s].settle
            BY <3>1, <6>1, ConcludedIs, SMT
          <6>3. flight[s].ending \in BOOLEAN
            BY <3>1 DEF Flights
          <6>4. b = c
            BY <5>1
          <6> HIDE DEF c, b
          <6> QED
            BY <5>1, <6>2, <6>3, <6>4
        <5>2. CASE ~(Open(s) /\ Running(s))
          BY <3>1, <5>2
        <5> QED
          BY <5>1, <5>2
      <4> HIDE DEF b
      <4>3. /\ g \in Flights /\ g.mode = b.mode /\ g.at = b.at /\ g.k = b.k /\ g.n = b.n
            /\ g.settle = b.settle /\ g.reason = b.reason /\ g.ending = b.ending
        BY <4>2 DEF Flights
      <4>4. flight[s].mode # "none" /\ "none" \notin Results
        BY <3>1, <3>3 DEF FlightStands, InFlight, Results, Yields, CancelReasons
      <4> HIDE DEF g
      <4>5. loop' = "up" /\ status' = "parked"
        BY <1>1, <2>1, <2>2
      <4>6. FlightStands(s)'
        BY <2>2, <3>1, <4>1, <4>2, <4>3, <4>4, <4>5, SMT
        DEF FlightStands, Open, Running, RunIsEnding
      <4>7. WorkStands(s)'
        BY <1>1, <2>2, <3>1, <4>1, <4>2, <4>3 DEF WorkStands, Open, Adopts, OwnedJob
      <4>8. ChargeStands(s)'
        BY <2>1, <2>2, <3>1, <4>1, <4>2, <4>3 DEF ChargeStands, Charged, Running
      <4> QED
        BY <4>6, <4>7, <4>8 DEF StepStands
    <3> QED
      BY <3>2, <3>3
  <2>4. wait' \in WaitType
    BY <2>1, WaitsTyped
  <2>5. flight' \in [Steps -> Flights]
    <3>1. \A s \in Steps : flight'[s] \in Flights
      BY <2>3 DEF StepStands, FlightStands
    <3> QED
      BY <2>1, <3>1
  <2> HIDE DEF stopped
  <2>6. LoopStands'
    BY <1>1, <2>1, <2>2, <2>4, <2>5 DEF LoopInv, LoopStands, WaitType
  <2> QED
    BY <2>3, <2>6 DEF LoopInv
<1> QED
  BY <1>2, <1>3, <1>4, <1>5, <1>6 DEF Turn

-----------------------------------------------------------------------------
(* The far side, the host, what comes from outside, and time. *)

LEMMA WorkEndsStands ==
  ASSUME LoopInv, NEW s \in Steps, WorkEnds(s)
  PROVE  LoopInv'
<1>1. /\ live' = [live EXCEPT ![s] = 0]
      /\ UNCHANGED <<ledger, flight, loop, wait, unproven, ghosts>>
  BY WorkOverIs DEF WorkEnds
<1>2. UNCHANGED <<fails, heldAtExit, refused, phase, att, result, status>>
  BY <1>1 DEF ledger, ghosts
<1>3. live \in [Steps -> Nat] /\ yield' \subseteq Steps
  BY DEF LoopInv, LoopStands, WorkEnds
<1>4. ASSUME NEW t \in Steps
      PROVE  StepStands(t)'
  <2>1. CASE t = s
    <3>1. FlightStands(t) /\ WorkStands(t) /\ ChargeStands(t)
      BY DEF LoopInv, StepStands
    <3>2. FlightStands(t)'
      BY <1>1, <3>1 DEF FlightStands, ledger, Open, Running, RunIsEnding
    <3>3. WorkStands(t)'
      BY <1>1, <1>3, <2>1 DEF WorkStands
    <3>4. ChargeStands(t)'
      BY <1>1, <1>2, <3>1 DEF ChargeStands, Charged, Running
    <3> QED
      BY <3>2, <3>3, <3>4 DEF StepStands
  <2>2. CASE t # s
    <3>1. live'[t] = live[t] /\ Unmoved(t) /\ Onward
      BY <1>1, <1>3, <2>2, SameLedger
    <3> QED
      BY <1>1, <1>2, <3>1, OthersStand
  <2> QED
    BY <2>1, <2>2
<1>5. LoopStands'
  BY <1>1, <1>2, <1>3 DEF LoopInv, LoopStands, Running
<1> QED
  BY <1>4, <1>5 DEF LoopInv

LEMMA CrashStands ==
  ASSUME LoopInv, LedgerInv, Crash
  PROVE  LoopInv'
<1>1. /\ loop' = "down" /\ flight' = [s \in Steps |-> NoFlight] /\ wait' = Awake
      /\ fails' = [s \in Steps |-> fails[s] + IF Running(s) THEN 1 ELSE 0]
      /\ UNCHANGED <<ledger, yield, unproven, heldAtExit, refused>>
  BY DEF Crash
<1>2. UNCHANGED <<phase, att, result, status>>
  BY <1>1 DEF ledger
<1>3. live' \in [Steps -> Nat] /\ \A s \in Steps : live'[s] \in {0, live[s]}
  BY SMT DEF Crash, LoopInv, LoopStands
<1>4. \A s \in Steps : fails[s] \in Nat
  BY DEF LoopInv, LoopStands
<1>5. ASSUME NEW s \in Steps
      PROVE  StepStands(s)'
  <2>1. WorkStands(s) /\ ChargeStands(s) /\ flight'[s] = NoFlight
    BY <1>1 DEF LoopInv, StepStands
  <2>2. FlightStands(s)'
    BY <1>1, <2>1, NoFlightIs DEF FlightStands
  <2>3. WorkStands(s)'
    BY <1>1, <1>2, <1>3, <2>1, NoFlightIs DEF WorkStands, Open
  <2>4. ChargeStands(s)'
    <3>1. att[s] \in Rows /\ fails'[s] = fails[s] + IF Running(s) THEN 1 ELSE 0
      BY <1>1 DEF LedgerInv, TypeOK
    <3>2. RetryLimit \in Nat
      BY StepsAssumption
    <3> QED
      BY <1>1, <1>2, <1>4, <2>1, <3>1, <3>2, NoFlightIs, SMT DEF ChargeStands, Charged, Running, Rows
  <2> QED
    BY <2>2, <2>3, <2>4 DEF StepStands
<1>6. LoopStands'
  <2>1. fails' \in [Steps -> Nat]
    BY <1>1, <1>4, SMT
  <2>2. Awake \in WaitType
    BY WaitsTyped
  <2> QED
    BY <1>1, <1>3, <2>1, <2>2, NoFlightIs DEF LoopInv, LoopStands, WaitType
<1> QED
  BY <1>5, <1>6 DEF LoopInv

(* A relaunch ends every attempt; it charges none that a park had held. *)
LEMMA RelaunchStands ==
  ASSUME LoopInv, LedgerInv, Relaunch
  PROVE  LoopInv'
<1>1. /\ loop \in {"down", "parked"} /\ OpenEpoch
      /\ loop' = "up" /\ wait' = Awake /\ heldAtExit' = {}
      /\ UNCHANGED <<flight, live, yield, unproven, fails, refused>>
  BY DEF Relaunch, side
<1>2. /\ att' = [s \in Steps |-> IF Running(s) THEN EpochRow(s) ELSE att[s]]
      /\ phase' = [s \in Steps |-> Returned(s)]
      /\ result' = result
  BY <1>1 DEF OpenEpoch
<1>3. ASSUME NEW s \in Steps
      PROVE  StepStands(s)'
  <2>1. FlightStands(s) /\ WorkStands(s) /\ ChargeStands(s) /\ att[s] \in Rows
    BY DEF LoopInv, StepStands, LedgerInv, TypeOK
  <2>2. flight'[s] = NoFlight
    BY <1>1, <2>1 DEF FlightStands
  <2>3. /\ ~Running(s)' /\ att'[s].n = att[s].n
        /\ att'[s].uncharged = att[s].uncharged + IF Running(s) THEN 1 ELSE 0
        /\ att'[s].unsettled => att[s].unsettled \/ (Running(s) /\ status # "parked")
    BY <1>2, <2>1, SMT DEF EpochRow, Running, Rows
  <2>4. /\ Open(s)' <=> Open(s)
        /\ phase'[s] = "absent" <=> phase[s] = "absent"
        /\ phase'[s] = "done" <=> phase[s] = "done"
    BY <1>2 DEF Open, Returned
  <2>5. att[s].unsettled => ~Running(s)
    BY DEF LedgerInv, RowOK, Running
  <2>6. loop = "parked" => status = "parked"
    BY DEF LoopInv, LoopStands
  <2>7. FlightStands(s)'
    BY <2>2, <2>3, NoFlightIs DEF FlightStands
  <2>8. WorkStands(s)'
    BY <1>1, <2>1, <2>2, <2>3, <2>4, NoFlightIs DEF WorkStands
  <2>9. ChargeStands(s)'
    BY <1>1, <1>2, <2>1, <2>2, <2>3, <2>5, <2>6, NoFlightIs, SMT
    DEF ChargeStands, Charged, Rows
  <2> QED
    BY <2>7, <2>8, <2>9 DEF StepStands
<1>4. LoopStands'
  <2>1. Awake \in WaitType
    BY WaitsTyped
  <2> QED
    BY <1>1, <2>1 DEF LoopInv, LoopStands, WaitType
<1> QED
  BY <1>3, <1>4 DEF LoopInv

LEMMA AskStands ==
  ASSUME LoopInv, LedgerInv, NEW s \in Steps, SearchAsks(s)
  PROVE  LoopInv'
<1>1. /\ Prepare(s) /\ loop = "up" /\ wait' = Awake
      /\ UNCHANGED <<flight, loop, live, yield, unproven, fails, heldAtExit, refused>>
  BY DEF SearchAsks, Heard, side, ghosts
<1>2. /\ \A t \in Steps \ {s} : Unmoved(t)
      /\ phase[s] = "absent" /\ phase'[s] = "prepared"
      /\ att' = att /\ result' = result
      /\ Onward
  BY <1>1, PreparedMoves
<1>4. ASSUME NEW t \in Steps
      PROVE  StepStands(t)'
  <2>1. CASE t = s
    <3>1. FlightStands(t) /\ WorkStands(t) /\ ChargeStands(t)
      BY DEF LoopInv, StepStands
    <3>2. flight[t] = NoFlight /\ ~Running(t) /\ att[t].n = 0
      <4>1. att[t] = NoRow /\ ~Open(t)
        BY <1>2, <2>1 DEF LedgerInv, RowOK, Open
      <4> QED
        BY <3>1, <4>1, NoRowOK DEF FlightStands, Running
    <3>3. FlightStands(t)'
      BY <1>1, <1>2, <3>2, NoFlightIs DEF FlightStands, Running
    <3>4. WorkStands(t)'
      BY <1>1, <1>2, <2>1, <3>1, <3>2, NoFlightIs DEF WorkStands
    <3>5. ChargeStands(t)'
      BY <1>1, <1>2, <3>1 DEF ChargeStands, Charged, Running
    <3> QED
      BY <3>3, <3>4, <3>5 DEF StepStands
  <2>2. CASE t # s
    <3>1. Unmoved(t)
      BY <1>2, <2>2
    <3> QED
      BY <1>1, <1>2, <3>1, OthersStand
  <2> QED
    BY <2>1, <2>2
<1>5. LoopStands'
  <2>1. Awake \in WaitType
    BY WaitsTyped
  <2> QED
    BY <1>1, <2>1 DEF LoopInv, LoopStands, WaitType
<1> QED
  BY <1>4, <1>5 DEF LoopInv

LEMMA TimePassesStands ==
  ASSUME LoopInv, LedgerInv, TimePasses
  PROVE  LoopInv'
<1>1. /\ UNCHANGED <<flight, loop, live, yield, unproven, fails, heldAtExit, refused>>
      /\ wait' \in {wait, Awake}
  BY DEF TimePasses, Passes, side, ghosts
<1>2. UNCHANGED <<phase, att, result, status, stop, finish>>
  BY DEF TimePasses, LimitPasses, BackoffPasses, DrainPasses
<1>3. (\A t \in Steps : Unmoved(t)) /\ Onward
  BY <1>2 DEF Unmoved, Open, Onward, RunIsEnding
<1>4. wait' \in WaitType
  BY <1>1, WaitsTyped DEF LoopInv, LoopStands, WaitType
<1> QED
  BY <1>1, <1>3, <1>4, StillStands

LEMMA InputsStand ==
  ASSUME LoopInv, LedgerInv, Inputs
  PROVE  LoopInv'
<1>1. CASE \E s \in Steps : SearchAsks(s)
  BY <1>1, AskStands
<1>2. ASSUME Heard, UNCHANGED <<fails, heldAtExit, refused>>,
             \A t \in Steps : Unmoved(t), Onward
      PROVE  LoopInv'
  <2>1. wait' \in WaitType
    BY <1>2, WaitsTyped DEF Heard
  <2> QED
    BY <1>2, <2>1, StillStands DEF Heard, side
<1>3. CASE \E s \in Steps : WatchEnds(s)
  <2>1. UNCHANGED <<phase, att, result, status, stop, finish>>
    BY <1>3 DEF WatchEnds, WatchFires
  <2>2. (\A t \in Steps : Unmoved(t)) /\ Onward
    BY <2>1 DEF Unmoved, Open, Onward, RunIsEnding
  <2> QED
    BY <1>2, <1>3, <2>2 DEF WatchEnds, ghosts
<1>4. finish <=> status \in {"closing", "terminal"}
  BY DEF LedgerInv, RunOK
<1>5. CASE \E mode \in {"drain", "cancel"} : SearchFinishes(mode)
  <2>1. (\A t \in Steps : Unmoved(t)) /\ Onward
    BY <1>4, <1>5, ControlMoves DEF SearchFinishes, Finish, Escalate
  <2> QED
    BY <1>2, <1>5, <2>1 DEF SearchFinishes, ghosts
<1>6. CASE \E mode \in {"drain", "cancel"} : OperatorStops(mode)
  <2>1. (\A t \in Steps : Unmoved(t)) /\ Onward
    BY <1>4, <1>6, ControlMoves DEF OperatorStops, Stop, Escalate
  <2> QED
    BY <1>2, <1>6, <2>1 DEF OperatorStops, ghosts
<1>7. CASE \E kind \in {"plain", "timed", "now"} : OperatorPauses(kind)
  <2>1. (\A t \in Steps : Unmoved(t)) /\ Onward
    BY <1>4, <1>7, ControlMoves DEF OperatorPauses, Pause
  <2> QED
    BY <1>2, <1>7, <2>1 DEF OperatorPauses
<1> QED
  BY <1>1, <1>3, <1>5, <1>6, <1>7 DEF Inputs

LEMMA InitStands == Init => LoopInv
<1> SUFFICES ASSUME Init PROVE LoopInv
  OBVIOUS
<1>1. ASSUME NEW s \in Steps
      PROVE  StepStands(s)
  <2>1. /\ flight[s] = NoFlight /\ live[s] = 0 /\ fails[s] = 0 /\ att[s] = NoRow
        /\ result[s] = "none" /\ loop = "up" /\ phase[s] # "done"
    BY DEF Init, LedgerInit
  <2>2. FlightStands(s)
    BY <2>1, NoFlightIs, NoRowOK DEF FlightStands, Running
  <2>3. WorkStands(s)
    BY <2>1 DEF WorkStands
  <2>4. ChargeStands(s)
    BY <2>1, NoFlightIs, NoRowOK, SMT DEF ChargeStands, Charged, Running
  <2> QED
    BY <2>2, <2>3, <2>4 DEF StepStands
<1>2. LoopStands
  BY NoFlightIs DEF Init, LoopStands, Awake
<1> QED
  BY <1>1, <1>2 DEF LoopInv

LEMMA NextStands ==
  ASSUME LoopInv, LedgerInv, [Next]_vars
  PROVE  LoopInv'
<1>1. CASE Turn
  BY <1>1, TurnStands
<1>2. ASSUME NEW s \in Steps, FlightSteps(s) \/ WorkEnds(s)
      PROVE  LoopInv'
  BY <1>2, FlightStepMoves, MoveStands, WorkEndsStands
<1>3. CASE Rested \/ UNCHANGED vars
  <2>1. UNCHANGED vars
    BY <1>3 DEF Rested
  <2>2. (\A t \in Steps : Unmoved(t)) /\ Onward /\ wait' \in WaitType
    BY <2>1, SameLedger DEF vars, LoopInv, LoopStands, WaitType
  <2> QED
    BY <2>1, <2>2, StillStands DEF vars, ghosts
<1> QED
  BY <1>1, <1>2, <1>3, CrashStands, RelaunchStands, InputsStand, TimePassesStands DEF Next

-----------------------------------------------------------------------------
(* What the invariant shows of every behaviour of the loop. *)

LEMMA LoopStandsAlways == Spec => [](LedgerInv /\ LoopInv)
<1>1. LoopInv /\ LedgerInv /\ [Next]_vars => LoopInv'
  BY NextStands
<1> QED
  BY <1>1, InitStands, LoopRecords, LedgerSafe, PTL DEF Spec

(* Every variable of the loop keeps its type.                                   *)
THEOREM LoopTyped == Spec => []LoopTypeOK
<1>1. LedgerInv /\ LoopInv => LoopTypeOK
  BY DEF LedgerInv, LoopInv, LoopStands, LoopTypeOK
<1> QED
  BY <1>1, LoopStandsAlways, PTL

(* However its calls, its host and its operator interleave, the loop appends no *)
(* record the fold refuses: RecordRefusedError never ends the process.          *)
THEOREM NeverRefused == Spec => []NoRefusal
<1>1. LoopInv => NoRefusal
  BY DEF LoopInv, LoopStands, NoRefusal
<1> QED
  BY <1>1, LoopStandsAlways, PTL

(* A step is charged only for attempts that failed, and is exhausted only by    *)
(* more of them than request_retries allows, through any number of pauses,      *)
(* epochs and adoptions.                                                        *)
THEOREM ChargedTruly == Spec => []ChargedForFailures
<1>1. LoopInv => ChargedForFailures
  BY DEF LoopInv, StepStands, ChargeStands, ChargedForFailures
<1> QED
  BY <1>1, LoopStandsAlways, PTL

(* A run that parked left no attempt running but those whose calls were held    *)
(* (_park).                                                                     *)
THEOREM ParkedClean == Spec => []ParksClean
<1>1. LoopInv => ParksClean
  BY DEF LoopInv, LoopStands, ParksClean
<1> QED
  BY <1>1, LoopStandsAlways, PTL

-----------------------------------------------------------------------------
(* A call begins, and work begins, only with the record of a start. *)

LEMMA ClearedRunsNone ==
  ASSUME LoopInv, NEW s \in Steps, NEW answer, ClearedOn(s, answer),
         flight[s].at = "clear"
  PROVE  flight'[s].at # "run"
<1>1. FlightStands(s) /\ flight \in [Steps -> Flights]
  BY DEF LoopInv, LoopStands, StepStands
<1>2. flight[s].k \in {"start", "failed", "conclude", "alive"}
  <2>1. flight[s].mode \in {"attempt", "conclude"}
    BY <1>1, NoFlightIs DEF FlightStands, Flights
  <2> QED
    BY <1>1, <2>1 DEF FlightStands
<1>3. Ends(s) => flight'[s].at # "run"
  BY <1>1, NoFlightIs DEF Ends
<1>4. ASSUME NEW where, NEW k, where # "run", Goes(s, where, k)
      PROVE  flight'[s].at # "run"
  BY <1>1, <1>4 DEF Goes, Flights
<1>5. CASE flight[s].k = "start"
  BY <1>3, <1>4, <1>5 DEF ClearedOn, StartOn
<1>6. CASE flight[s].k = "failed"
  <2>1. FailedOn(s, answer)
    BY <1>6 DEF ClearedOn
  <2>2. Ends(s) \/ Goes(s, "attach", "failed")
    BY <2>1 DEF FailedOn
  <2> QED
    BY <1>3, <1>4, <2>2
<1>7. CASE flight[s].k = "conclude"
  <2>1. ConcludeOn(s, answer)
    BY <1>7 DEF ClearedOn
  <2>2. \/ Ends(s)
        \/ flight' = [flight EXCEPT
             ![s] = [flight[s] EXCEPT !.at = "attach", !.held = FALSE,
                       !.reason = IF flight[s].reason = "none" THEN "withdrawn"
                                  ELSE flight[s].reason]]
    BY <2>1 DEF ConcludeOn
  <2>3. \A w : [flight[s] EXCEPT !.at = "attach", !.held = FALSE, !.reason = w].at = "attach"
    BY <1>1 DEF Flights
  <2> QED
    BY <1>1, <1>3, <2>2, <2>3
<1>8. CASE flight[s].k = "alive"
  <2>1. AliveOn(s, answer)
    BY <1>8 DEF ClearedOn
  <2>2. Ends(s) \/ Goes(s, "rest", "alive")
    BY <2>1 DEF AliveOn, Outlived
  <2> QED
    BY <1>3, <1>4, <2>2
<1> QED
  BY <1>2, <1>5, <1>6, <1>7, <1>8

LEMMA FlightRunBegins ==
  ASSUME LoopInv, NEW s \in Steps, FlightSteps(s), flight'[s].at = "run"
  PROVE  flight[s].at = "run" \/ StepStarted(s)
<1>1. flight \in [Steps -> Flights] /\ FlightStands(s)
  BY DEF LoopInv, LoopStands, StepStands
<1>2. ~Ends(s)
  BY <1>1, NoFlightIs DEF Ends
<1>3. \A where, k : where # "run" => ~Goes(s, where, k)
  BY <1>1, ZenonT(30) DEF Goes, Flights
<1>4. CASE ClearAnswers(s)
  BY <1>4, ClearedRunsNone DEF ClearAnswers, Flies
<1>5. CASE ClearFails(s)
  BY <1>3, <1>5, ClearedRunsNone DEF ClearFails, Flies
<1>6. CASE BackoffEnds(s)
  BY <1>3, <1>6 DEF BackoffEnds
<1>7. CASE Start(s)
  BY <1>2, <1>3, <1>7 DEF Start, StartOn
<1>8. CASE CallHeld(s)
  BY <1>1, <1>8 DEF CallHeld, Flights
<1>9. CASE RunFinishes(s) \/ RunCancelled(s)
  BY <1>2, <1>9 DEF RunFinishes, RunCancelled, Outlived
<1>10. CASE RunRaises(s)
  BY <1>3, <1>10 DEF RunRaises
<1> QED
  BY <1>4, <1>5, <1>6, <1>7, <1>8, <1>9, <1>10 DEF FlightSteps

LEMMA TurnRunBegins ==
  ASSUME LoopInv, NEW s \in Steps, Turn, flight'[s].at = "run"
  PROVE  flight[s].at = "run"
<1>1. flight \in [Steps -> Flights] /\ flight[s] \in Flights
  BY DEF LoopInv, LoopStands
<1>2. \A why : Concluded(flight[s], why).at = flight[s].at
  BY <1>1 DEF Concluded, Flights
<1>3. CASE TurnDispatches
  <2>1. flight'[s] = Dispatched(s)
    BY <1>3 DEF TurnDispatches
  <2>2. \A r : ConcludeFlight(s, r).at = "clear"
    BY DEF ConcludeFlight, Concluded, NoFlight
  <2>3. AttemptFlight(s).at # "run"
    BY DEF AttemptFlight, NoFlight
  <2>4. \/ \E why : Dispatched(s) = Concluded(flight[s], why)
        \/ \E r : Dispatched(s) = ConcludeFlight(s, r)
        \/ Dispatched(s) \in {AttemptFlight(s), flight[s]}
    BY SMT DEF Dispatched
  <2> QED
    BY <1>2, <2>1, <2>2, <2>3, <2>4
<1>4. CASE TurnTicks \/ TurnEnds
  BY <1>4 DEF TurnTicks, TurnEnds
<1>5. CASE TurnParks
  <2> DEFINE told == IF Open(s) /\ Running(s) THEN Concluded(flight[s], "pause")
                     ELSE flight[s]
  <2>1. flight'[s] = NoFlight \/ flight'[s] = [told EXCEPT !.parked = TRUE]
    BY <1>5 DEF TurnParks
  <2>2. told.at = flight[s].at /\ told \in Flights
    <3>1. "pause" \in CancelReasons
      BY DEF CancelReasons
    <3>2. Concluded(flight[s], "pause") \in Flights
      BY <1>1, <3>1, ConcludedIs
    <3> QED
      BY <1>1, <1>2, <3>2
  <2> HIDE DEF told
  <2>3. [told EXCEPT !.parked = TRUE].at = told.at
    BY <2>2 DEF Flights
  <2> QED
    BY <2>1, <2>2, <2>3, NoFlightIs
<1> QED
  BY <1>3, <1>4, <1>5 DEF Turn

LEMMA RunBegins ==
  ASSUME LoopInv, LedgerInv, [Next]_vars, NEW s \in Steps, flight'[s].at = "run"
  PROVE  flight[s].at = "run" \/ StepStarted(s)
<1>1. CASE Turn
  BY <1>1, TurnRunBegins
<1>2. ASSUME NEW t \in Steps, FlightSteps(t)
      PROVE  flight[s].at = "run" \/ StepStarted(s)
  <2>1. CASE t = s
    BY <1>2, <2>1, FlightRunBegins
  <2>2. CASE t # s
    <3>1. \E f : flight' = [flight EXCEPT ![t] = f]
      BY <1>2, FlightStepMoves DEF FlightFrame
    <3> QED
      BY <2>2, <3>1 DEF LoopInv, LoopStands
  <2> QED
    BY <2>1, <2>2
<1>3. CASE Crash
  BY <1>3, NoFlightIs DEF Crash
<1>4. CASE \/ \E t \in Steps : WorkEnds(t)
           \/ Relaunch \/ Inputs \/ TimePasses \/ Rested \/ UNCHANGED vars
  BY <1>4 DEF WorkEnds, Relaunch, Inputs, SearchAsks, WatchEnds, SearchFinishes,
              OperatorStops, OperatorPauses, Heard, TimePasses, Passes, Rested, vars
<1> QED
  BY <1>1, <1>2, <1>3, <1>4 DEF Next

LEMMA WorkBegins ==
  ASSUME LoopInv, LedgerInv, [Next]_vars, NEW s \in Steps
  PROVE  (live'[s] \in {0, live[s]} \/ StepStarted(s)) /\ unproven \subseteq unproven'
<1>1. live \in [Steps -> Nat]
  BY DEF LoopInv, LoopStands
<1>2. ASSUME NEW t \in Steps, FlightSteps(t)
      PROVE  (live'[s] \in {0, live[s]} \/ StepStarted(s)) /\ unproven \subseteq unproven'
  <2>1. FlightMove(t)
    BY <1>2, FlightStepMoves
  <2> QED
    BY <1>1, <2>1 DEF FlightMove, LessWork, NoWork, GivesUp, NewWork
<1>3. ASSUME NEW t \in Steps, WorkEnds(t)
      PROVE  live'[s] \in {0, live[s]} /\ unproven \subseteq unproven'
  BY <1>1, <1>3, WorkOverIs DEF WorkEnds
<1>4. CASE Crash
  BY <1>4 DEF Crash
<1>5. CASE Turn \/ Relaunch \/ Inputs \/ TimePasses \/ Rested \/ UNCHANGED vars
  <2>1. live' = live /\ unproven' = unproven
    BY <1>5 DEF Turn, TurnDispatches, TurnTicks, TurnEnds, TurnParks, MainTask, side,
                Relaunch, Inputs, SearchAsks, WatchEnds, SearchFinishes,
                OperatorStops, OperatorPauses, Heard, TimePasses, Passes, Rested, vars
  <2> QED
    BY <2>1
<1> QED
  BY <1>2, <1>3, <1>4, <1>5 DEF Next

LEMMA SnapshotStep ==
  ASSUME LoopInv, LedgerInv, LoopInv', SnapshotAlone, [Next]_vars
  PROVE  SnapshotAlone'
<1> SUFFICES ASSUME NEW s \in Steps, NEW r \in Steps, Snapshots(s), Writes(r),
                    ~Follows(r, s), flight'[s].at = "run"
             PROVE  flight'[r].at # "run" /\ (live'[r] = 0 \/ r \in unproven')
  BY DEF SnapshotAlone, Snapshots, Writes, Follows, Awaited
<1>1. s # r
  BY DEF Snapshots, Writes
<1>2. /\ live'[r] \in {0, live[r]} \/ StepStarted(r)
      /\ unproven \subseteq unproven'
      /\ flight'[r].at = "run" => flight[r].at = "run" \/ StepStarted(r)
      /\ flight[s].at = "run" \/ StepStarted(s)
  BY RunBegins, WorkBegins
<1>3. CASE StepStarted(s)
  <2>1. ~Open(r)
    BY <1>1, <1>3 DEF StepStarted, RunDue, Starts, HoldsBack
  <2>2. Unmoved(r)
    BY <1>1, <1>3, StartedMoves
  <2>3. ~Open(r)' /\ phase'[r] \in {"absent", "done"}
    BY <2>1, <2>2 DEF Unmoved, LedgerInv, TypeOK, Open
  <2>4. FlightStands(r)' /\ WorkStands(r)'
    BY DEF LoopInv, StepStands
  <2>5. flight'[r].at # "run"
    BY <2>3, <2>4, NoFlightIs DEF FlightStands
  <2>6. live'[r] = 0 \/ r \in unproven'
    BY <2>3, <2>4 DEF WorkStands
  <2> QED
    BY <2>5, <2>6
<1>4. CASE ~StepStarted(s)
  <2>1. flight[s].at = "run"
    BY <1>2, <1>4
  <2>2. flight[r].at # "run" /\ (live[r] = 0 \/ r \in unproven)
    BY <2>1 DEF SnapshotAlone
  <2>3. Open(s) /\ Running(s)
    <3>1. FlightStands(s)
      BY DEF LoopInv, StepStands
    <3> QED
      BY <2>1, <3>1, NoFlightIs DEF FlightStands, Flights
  <2>4. ~StepStarted(r)
    BY <1>1, <2>3 DEF StepStarted, RunDue, Starts, HoldsBack
  <2> QED
    BY <1>2, <2>2, <2>4
<1> QED
  BY <1>3, <1>4

(* A snapshot is taken alone: from the start of its call to its end no writer   *)
(* it does not precede begins a call, and none has work alive, but work an      *)
(* ending run gave up on (holds_back over the flights of the scope).            *)
THEOREM SnapshotsAlone == Spec => []SnapshotAlone
<1>1. Init => SnapshotAlone
  BY NoFlightIs DEF Init, SnapshotAlone
<1>2. (LedgerInv /\ LoopInv) /\ LoopInv' /\ SnapshotAlone /\ [Next]_vars => SnapshotAlone'
  BY SnapshotStep
<1> QED
  BY <1>1, <1>2, LoopStandsAlways, PTL DEF Spec

-----------------------------------------------------------------------------
(* The refinement: every step of the loop is a step of the contract or none.  *)

LEMMA EndingMoves ==
  ASSUME UNCHANGED <<live, unproven, result, ended>>, Asked' = Asked,
         RunIsEnding => RunIsEnding'
  PROVE  [Contract!Next]_Contract!contract
<1>1. CASE RunIsEnding'
  <2>1. Contract!StartEnding
    BY <1>1 DEF Contract!StartEnding, RunIsEnding
  <2> QED
    BY <2>1 DEF Contract!Next
<1>2. CASE ~RunIsEnding'
  <2>1. RunIsEnding' = RunIsEnding
    BY <1>2 DEF RunIsEnding
  <2> QED
    BY <2>1 DEF Contract!contract
<1> QED
  BY <1>1, <1>2

(* A move of the far side alone. *)
LEMMA GoneMoves ==
  ASSUME LoopInv, NEW some \in SUBSET {s \in Steps : live[s] > 0},
         live' = [s \in Steps |-> IF s \in some THEN 0 ELSE live[s]],
         UNCHANGED <<unproven, result, ended>>, Asked' = Asked,
         RunIsEnding' <=> RunIsEnding
  PROVE  Contract!Next
<1>1. RunIsEnding' = RunIsEnding
  BY DEF RunIsEnding
<1>2. Contract!Gone(some)
  BY <1>1 DEF Contract!Gone
<1> QED
  BY <1>2 DEF Contract!Next

LEMMA LessMoves ==
  ASSUME LoopInv, NEW s \in Steps, LessWork(s), UNCHANGED <<result, ended>>,
         Asked' = Asked, RunIsEnding' <=> RunIsEnding
  PROVE  [Contract!Next]_Contract!contract
<1>1. live \in [Steps -> Nat] /\ unproven' = unproven
  BY DEF LoopInv, LoopStands, LessWork
<1>2. CASE live' = live
  BY <1>1, <1>2, EndingMoves
<1>3. CASE live' # live
  <2>1. live' = [live EXCEPT ![s] = 0]
    BY <1>3 DEF LessWork
  <2>2. live[s] > 0
    BY <1>1, <1>3, <2>1, SMT
  <2>3. /\ {s} \in SUBSET {t \in Steps : live[t] > 0}
        /\ live' = [t \in Steps |-> IF t \in {s} THEN 0 ELSE live[t]]
    BY <1>1, <2>1, <2>2
  <2> QED
    BY <1>1, <2>3, GoneMoves
<1> QED
  BY <1>2, <1>3

(* What is known of a step whose flight was told that the run is ending. *)
LEMMA GivesUpMay ==
  ASSUME LoopInv, LedgerInv, NEW s \in Steps, flight[s].ending
  PROVE  RunIsEnding /\ Open(s) /\ result[s] = "none"
<1>1. FlightStands(s)
  BY DEF LoopInv, StepStands
<1>2. RunIsEnding /\ Open(s)
  BY <1>1, NoFlightIs DEF FlightStands
<1> QED
  BY <1>2 DEF LedgerInv, RowOK, Open

LEMMA OpenIsAsked ==
  ASSUME LedgerInv, NEW s \in Steps, Open(s)
  PROVE  s \in Asked /\ result[s] = "none" /\ ~ended
BY DEF LedgerInv, RowOK, RunOK, Asked, Open

LEMMA FlightKeeps ==
  ASSUME LoopInv, LedgerInv, NEW s \in Steps, FlightMove(s)
  PROVE  [Contract!Next]_Contract!contract
<1>1. live \in [Steps -> Nat]
  BY DEF LoopInv, LoopStands
<1>2. CASE /\ UNCHANGED ledger \/ AttemptLost(s)
              \/ \E why \in Interruptions : AttemptInterrupted(s, why)
           /\ LessWork(s) \/ GivesUp(s)
  <2>1. UNCHANGED <<result, ended>> /\ Asked' = Asked /\ (RunIsEnding' <=> RunIsEnding)
    <3>1. CASE UNCHANGED ledger
      BY <3>1, SameLedger DEF ledger
    <3>2. CASE AttemptLost(s)
      BY <3>2, LostMoves
    <3>3. CASE \E why \in Interruptions : AttemptInterrupted(s, why)
      BY <3>3, InterruptedMoves
    <3> QED
      BY <1>2, <3>1, <3>2, <3>3
  <2>2. CASE LessWork(s)
    BY <2>1, <2>2, LessMoves
  <2>3. CASE GivesUp(s)
    <3>1. RunIsEnding /\ result[s] = "none"
      BY <2>3, GivesUpMay DEF GivesUp
    <3>2. RunIsEnding' = RunIsEnding
      BY <2>1 DEF RunIsEnding
    <3>3. Contract!GiveUp(s)
      BY <2>1, <2>3, <3>1, <3>2 DEF Contract!GiveUp, GivesUp
    <3> QED
      BY <3>3 DEF Contract!Next
  <2> QED
    BY <1>2, <2>2, <2>3
<1>3. CASE StepStarted(s) /\ NewWork(s)
  <2>1. /\ Open(s) /\ result' = result /\ ended' = ended /\ Asked' = Asked
        /\ RunIsEnding' <=> RunIsEnding
    BY <1>3, StartedMoves
  <2>2. CASE live' = live
    BY <1>3, <2>1, <2>2, EndingMoves DEF NewWork
  <2>3. CASE live[s] = 0 /\ live' = [live EXCEPT ![s] = 1]
    <3>1. s \in Asked /\ result[s] = "none" /\ ~ended
      BY <2>1, OpenIsAsked
    <3>2. RunIsEnding' = RunIsEnding
      BY <2>1 DEF RunIsEnding
    <3>3. Contract!Begin(s)
      BY <1>3, <2>1, <2>3, <3>1, <3>2 DEF Contract!Begin, NewWork
    <3> QED
      BY <3>3 DEF Contract!Next
  <2> QED
    BY <1>3, <2>2, <2>3 DEF NewWork
<1>4. CASE /\ \E r \in Results : StepFinished(s, r)
           /\ NoWork(s) \/ GivesUp(s)
  <2>1. PICK r \in Results : StepFinished(s, r)
    BY <1>4
  <2>2. /\ Open(s) /\ result' = [result EXCEPT ![s] = r]
        /\ ended' = ended /\ Asked' = Asked /\ Onward
    BY <2>1, FinishedMoves
  <2>3. s \in Asked /\ result[s] = "none" /\ ~ended
    BY <2>2, OpenIsAsked
  <2>4. RunIsEnding' \in {RunIsEnding, TRUE}
    BY <2>2 DEF Onward, RunIsEnding
  <2>5. GivesUp(s) => RunIsEnding
    BY GivesUpMay DEF GivesUp
  <2>6. Contract!Conclude(s, r)
    BY <1>4, <2>2, <2>3, <2>4, <2>5 DEF Contract!Conclude, NoWork, GivesUp
  <2> QED
    BY <2>6 DEF Contract!Next
<1> QED
  BY <1>2, <1>3, <1>4 DEF FlightMove

LEMMA TurnKeeps ==
  ASSUME LoopInv, LedgerInv, Turn
  PROVE  [Contract!Next]_Contract!contract
<1>1. UNCHANGED <<live, unproven>>
  BY DEF Turn, TurnDispatches, TurnTicks, TurnEnds, TurnParks, MainTask, side
<1>2. CASE TurnDispatches \/ TurnParks
  <2>1. UNCHANGED ledger
    BY <1>2 DEF TurnDispatches, TurnParks
  <2> QED
    BY <1>1, <2>1, SameLedger, EndingMoves DEF ledger
<1>3. CASE TurnTicks
  <2>1. ClockAdvanced
    BY <1>3 DEF TurnTicks
  <2>2. UNCHANGED <<result, ended>> /\ Onward /\ Asked' = Asked
    BY <2>1, ControlMoves DEF ClockAdvanced
  <2> QED
    BY <1>1, <2>2, EndingMoves DEF Onward
<1>4. CASE TurnEnds
  <2>1. RunEnded
    BY <1>4 DEF TurnEnds
  <2>2. \A s \in Asked : result[s] # "none"
    BY <2>1 DEF RunEnded, LedgerInv, RunOK, RowOK, TypeOK, Asked, Open
  <2>3. Asked' = Asked /\ RunIsEnding' = RunIsEnding
    BY <2>1 DEF RunEnded, Asked, RunIsEnding
  <2>4. Contract!Publish
    BY <1>1, <2>1, <2>2, <2>3 DEF Contract!Publish, RunEnded
  <2> QED
    BY <2>4 DEF Contract!Next
<1> QED
  BY <1>2, <1>3, <1>4 DEF Turn

LEMMA InputsKeep ==
  ASSUME LedgerInv, Inputs
  PROVE  [Contract!Next]_Contract!contract
<1>1. UNCHANGED <<live, unproven>>
  BY DEF Inputs, SearchAsks, WatchEnds, SearchFinishes, OperatorStops, OperatorPauses,
         Heard, side
<1>2. finish <=> status \in {"closing", "terminal"}
  BY DEF LedgerInv, RunOK
<1>3. ASSUME NEW s \in Steps, SearchAsks(s)
      PROVE  [Contract!Next]_Contract!contract
  <2>1. Prepare(s)
    BY <1>3 DEF SearchAsks
  <2>2. /\ phase[s] = "absent" /\ result' = result /\ ended' = ended /\ ~ended
        /\ Asked' = Asked \cup {s} /\ (RunIsEnding' <=> RunIsEnding)
    BY <2>1, PreparedMoves
  <2>3. RunIsEnding' = RunIsEnding
    BY <2>2 DEF RunIsEnding
  <2>5. Contract!Ask(s)
    BY <1>1, <2>2, <2>3 DEF Contract!Ask, Asked
  <2> QED
    BY <2>5 DEF Contract!Next
<1>4. CASE \E s \in Steps : WatchEnds(s)
  BY <1>1, <1>4, EndingMoves, SMT DEF WatchEnds, WatchFires, Asked, RunIsEnding
<1>5. CASE \E mode \in {"drain", "cancel"} : SearchFinishes(mode)
  BY <1>1, <1>2, <1>5, ControlMoves, EndingMoves DEF SearchFinishes, Finish, Escalate, Onward
<1>6. CASE \E mode \in {"drain", "cancel"} : OperatorStops(mode)
  BY <1>1, <1>2, <1>6, ControlMoves, EndingMoves DEF OperatorStops, Stop, Escalate, Onward
<1>7. CASE \E kind \in {"plain", "timed", "now"} : OperatorPauses(kind)
  BY <1>1, <1>2, <1>7, ControlMoves, EndingMoves DEF OperatorPauses, Pause, Onward
<1> QED
  BY <1>3, <1>4, <1>5, <1>6, <1>7 DEF Inputs

LEMMA NextKeeps ==
  ASSUME LoopInv, LedgerInv, [Next]_vars
  PROVE  [Contract!Next]_Contract!contract
<1>1. ASSUME NEW s \in Steps, FlightSteps(s)
      PROVE  [Contract!Next]_Contract!contract
  BY <1>1, FlightStepMoves, FlightKeeps
<1>2. ASSUME NEW s \in Steps, WorkEnds(s)
      PROVE  [Contract!Next]_Contract!contract
  <2>1. LessWork(s) /\ UNCHANGED ledger
    BY <1>2, WorkOverIs DEF WorkEnds, LessWork
  <2> QED
    BY <2>1, SameLedger, LessMoves DEF ledger
<1>3. CASE Crash
  <2>1. UNCHANGED ledger /\ UNCHANGED unproven
    BY <1>3 DEF Crash
  <2>2. PICK gone \in SUBSET {s \in Steps : live[s] > 0} :
          live' = [s \in Steps |-> IF s \in gone THEN 0 ELSE live[s]]
    BY <1>3 DEF Crash
  <2> QED
    BY <2>1, <2>2, SameLedger, GoneMoves DEF ledger
<1>4. CASE Relaunch
  <2>1. OpenEpoch /\ UNCHANGED <<live, unproven>>
    BY <1>4 DEF Relaunch, side
  <2>2. Asked' = Asked
    BY <2>1 DEF OpenEpoch, Asked, Returned
  <2>3. RunIsEnding => RunIsEnding'
    BY <2>1 DEF OpenEpoch, RunIsEnding, LedgerInv, RunOK
  <2> QED
    BY <2>1, <2>2, <2>3, EndingMoves DEF OpenEpoch
<1>5. CASE TimePasses
  <2>1. UNCHANGED <<phase, result, status, stop, finish, ended, live, unproven>>
    BY <1>5 DEF TimePasses, Passes, side, LimitPasses, BackoffPasses, DrainPasses
  <2> QED
    BY <2>1, EndingMoves DEF Asked, RunIsEnding
<1>6. CASE Rested \/ UNCHANGED vars
  <2>1. UNCHANGED vars
    BY <1>6 DEF Rested
  <2> QED
    BY <2>1, SameLedger, EndingMoves DEF vars, ledger
<1> QED
  BY <1>1, <1>2, <1>3, <1>4, <1>5, <1>6, TurnKeeps, InputsKeep DEF Next

(* The runner loop implements its contract: whatever raises, is held, dies with *)
(* its host, is adopted, paused, stopped or given up, the work of a step is     *)
(* alive at most once, none begins after its result, and a result is given over *)
(* work that is gone, unless an ending run gave up on it.                       *)
THEOREM LoopKeepsContract == Spec => KeepsContract
<1>1. Init => Contract!Init
  BY DEF Init, LedgerInit, Contract!Init, Asked, RunIsEnding
<1>2. (LedgerInv /\ LoopInv) /\ [Next]_vars => [Contract!Next]_Contract!contract
  BY NextKeeps
<1> QED
  BY <1>1, <1>2, LoopStandsAlways, PTL DEF Spec, KeepsContract, Contract!Spec
=============================================================================
