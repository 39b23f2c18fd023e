------------------------------ MODULE StepLoop ------------------------------
(***************************************************************************)
(* The runner loop of a run (vs_runtime/_step_loop.py) over the log's fold *)
(* (StepLedger): the main task, which reads the state, hands core's        *)
(* actions to flights and waits; one flight per step, a task that owns an  *)
(* attempt from clear to the record of how it ended; the far side, where   *)
(* the work of an attempt may outlive the call, the flight and the host;   *)
(* and the host, which may die at any point and be launched again.         *)
(*                                                                         *)
(* An action is what a task does between two awaits.  A call of the runner *)
(* (run or clear) is an await of any length: a call may return late, raise *)
(* or ignore its cancel (held).                                            *)
(***************************************************************************)
EXTENDS StepLedger

CONSTANTS
  Scopes,       \* the sets of steps the search may have asked for
  Watched,      \* the steps that declared a watch
  MaxTroubles   \* bound: how often the host dies or the operator pauses

VARIABLES
  flight,       \* the flight of each step
  loop,         \* the main task: up, or how the process left it
  wait,         \* the main task: awake, or waiting with these timers set
  live,         \* pieces of work of a step alive on the far side
  yield,        \* jobs whose work ended with a result the backend keeps
  unproven,     \* steps ended over a clear the ending gave up
  fails,        \* attempts that raised, or were running when the host died
  heldAtExit,   \* steps whose call was held when the run parked
  refused,      \* the loop appended a record the fold refuses
  troubles      \* how often the host died or the operator paused

side == <<live, yield>>
ghosts == <<fails, heldAtExit, refused, troubles>>
vars == <<ledger, flight, loop, wait, live, yield, unproven, ghosts>>

NoFlight == [mode |-> "none", at |-> "none", k |-> "none", n |-> 0,
             reason |-> "none", ending |-> FALSE, parked |-> FALSE,
             held |-> FALSE, settle |-> "none"]
Flights == [mode : {"none", "attempt", "conclude"},
            at : {"none", "clear", "backoff", "start", "run", "attach", "rest"},
            k : {"none", "start", "failed", "conclude", "alive"},
            n : Nat,
            reason : CancelReasons \cup {"none"},
            ending : BOOLEAN, parked : BOOLEAN, held : BOOLEAN,
            settle : Results \cup {"none"}]

Awake == [over |-> TRUE, limits |-> {}, backoffs |-> {}, drain |-> FALSE]

LoopTypeOK ==
  /\ TypeOK
  /\ flight \in [Steps -> Flights]
  /\ loop \in {"up", "down", "parked", "ended"}
  /\ wait \in [over : BOOLEAN, limits : SUBSET Steps, backoffs : SUBSET Steps,
               drain : BOOLEAN]
  /\ live \in [Steps -> Nat]
  /\ yield \subseteq Steps
  /\ unproven \subseteq Steps
  /\ heldAtExit \subseteq Steps
  /\ fails \in [Steps -> Nat]
  /\ refused \in BOOLEAN

Asked == {s \in Steps : phase[s] # "absent"}
InFlight(s) == flight[s] # NoFlight
Adopts(s) == OwnedJob(s)

-----------------------------------------------------------------------------
(* A flight takes core's reason for ending its step: the first one is kept,   *)
(* and that the run is ending is remembered whichever came first.             *)
Concluded(f, why) ==
  [f EXCEPT !.reason = IF f.reason = "none" THEN why ELSE f.reason,
            !.ending = f.ending \/ why = "run_ending"]

\* Mutant: an ending run waits for its clears.
keepsClearing(f) == f.parked \/ f.reason = "pause"

AbandonsClear(f) == f.ending \/ f.parked \/ f.reason = "pause"

\* Mutant: a retry begins without clearing what the last attempt left.
retriesUncleared(s) ==
  [NoFlight EXCEPT !.mode = "attempt", !.k = "start", !.at = "start"]

AttemptFlight(s) ==
  [NoFlight EXCEPT !.mode = "attempt", !.k = "start",
                   !.at = IF att[s].n > 0 THEN "clear" ELSE "start"]

\* Mutant: giving up on a step cancels it for that reason.
exhaustedCancels(s, r) ==
  Concluded([NoFlight EXCEPT !.mode = "conclude", !.at = "clear",
                             !.k = "conclude", !.settle = r], r)

(* A step that ends with no attempt in flight. *)
ConcludeFlight(s, r) ==
  LET f == [NoFlight EXCEPT !.mode = "conclude", !.at = "clear",
                            !.k = "conclude", !.settle = r]
  IN  IF r = "exhausted" THEN f ELSE Concluded(f, r)

(* What core decides for each open step: Run, Cancel or Settle. *)
Cancels(s) == Open(s) /\ Running(s) /\ StopReason(s) # "none"
Settles(s) == Open(s) /\ ~Running(s) /\ SettledAs(s) # "none"
Acts(s) == Cancels(s) \/ Settles(s) \/ RunDue(s)

Dispatched(s) ==
  CASE Cancels(s) /\ InFlight(s) -> Concluded(flight[s], StopReason(s))
    [] Cancels(s) /\ ~InFlight(s) /\ StopReason(s) # "pause" ->
         ConcludeFlight(s, StopReason(s))
    [] Settles(s) /\ InFlight(s) /\ SettledAs(s) # "exhausted" ->
         Concluded(flight[s], SettledAs(s))
    [] Settles(s) /\ ~InFlight(s) -> ConcludeFlight(s, SettledAs(s))
    [] RunDue(s) /\ ~InFlight(s) -> AttemptFlight(s)
    [] OTHER -> flight[s]

(* The timers of a wait: the limits of the attempts that run, as they stood   *)
(* when each started (of those in moved a drain has since shortened them),    *)
(* and, when core decided nothing but to wait, the next thing due.            *)
Timers(fl, moved, waits) ==
  [over |-> FALSE,
   limits |-> {s \in Steps \ expired :
                 (fl[s].n > 0 /\ s \notin moved) \/ (waits /\ Open(s))},
   backoffs |-> {s \in backing : waits /\ Open(s)},
   drain |-> waits /\ park \in {"timed", "now"} /\ ~overdue]

-----------------------------------------------------------------------------
(* One turn of the main task. *)

MainTask == loop = "up" /\ wait.over /\ UNCHANGED <<side, unproven>>

TurnDispatches ==
  /\ MainTask
  /\ AtRest = "none" /\ ~ParkIsDue
  /\ ~(finish /\ status = "terminal" /\ \A s \in Steps : ~InFlight(s))
  /\ flight' = [s \in Steps |-> Dispatched(s)]
  /\ \E moved \in SUBSET {s \in Steps : DrainCaps(s)} :
       wait' = Timers(flight', moved, \A s \in Steps : ~Acts(s))
  /\ UNCHANGED <<ledger, loop, ghosts>>

TurnTicks ==
  /\ MainTask
  /\ AtRest = "none" /\ ParkIsDue
  /\ ClockAdvanced
  /\ UNCHANGED <<flight, loop, wait, ghosts>>

TurnEnds ==
  /\ MainTask
  /\ AtRest = "none" /\ finish /\ status = "terminal"
  /\ \A s \in Steps : ~InFlight(s)
  /\ RunEnded
  /\ loop' = "ended"
  /\ UNCHANGED <<flight, wait, ghosts>>

\* Mutant: the process exits over calls that would still stop.
exitsAtOnce == TRUE

\* Mutant: the process waits for calls that never stop.
exitsIdle == \A s \in Steps : ~InFlight(s)

ParkExits == \A s \in Steps : InFlight(s) => flight[s].held

(* A parked run only stops what still runs; calls that are held end with the  *)
(* process.                                                                   *)
TurnParks ==
  LET stopped == [s \in Steps |->
        IF ~InFlight(s) THEN NoFlight
        ELSE [(IF Open(s) /\ Running(s) THEN Concluded(flight[s], "pause")
               ELSE flight[s]) EXCEPT !.parked = TRUE]]
  IN  /\ MainTask
      /\ AtRest = "parked"
      /\ flight' = IF ParkExits THEN [s \in Steps |-> NoFlight] ELSE stopped
      /\ loop' = IF ParkExits THEN "parked" ELSE loop
      /\ heldAtExit' = IF ParkExits THEN {s \in Steps : flight[s].held}
                       ELSE heldAtExit
      /\ wait' = IF ParkExits THEN Awake ELSE Timers(stopped, {}, FALSE)
      /\ UNCHANGED <<ledger, fails, refused, troubles>>

-----------------------------------------------------------------------------
(* What a flight records, and how it goes on. *)

Flies(s, where) == loop = "up" /\ flight[s].at = where

Ends(s) == flight' = [flight EXCEPT ![s] = NoFlight] /\ wait' = Awake
Goes(s, where, k) ==
  /\ flight' = [flight EXCEPT
       ![s] = [flight[s] EXCEPT !.at = where, !.k = k, !.held = FALSE]]
  /\ UNCHANGED wait

(* A record the fold refuses is not appended. *)
Appends(can, record) ==
  IF can THEN record /\ UNCHANGED ghosts
  ELSE refused' = TRUE /\ UNCHANGED <<ledger, fails, heldAtExit, troubles>>

(* A flight that started no attempt names the latest one the step began. *)
Latest(s) == flight[s].n \in {0, att[s].n}

Interrupts(s, why) ==
  Appends(CanInterrupt(s) /\ Latest(s), AttemptInterrupted(s, why))

\* Mutant: in a parked run, a step with no attempt running is interrupted too.
parkedInterrupts(s, r) ==
  IF status = "parked" THEN Interrupts(s, "pause")
  ELSE Appends(CanFinish(s) /\ Latest(s), StepFinished(s, r))

(* step_finished: a parked run takes no result; its attempt is interrupted. *)
Records(s, r) ==
  IF status = "parked"
  THEN IF Running(s) /\ Latest(s)
       THEN Interrupts(s, "pause") ELSE UNCHANGED <<ledger, ghosts>>
  ELSE Appends(CanFinish(s) /\ Latest(s), StepFinished(s, r))

(* The end of an attempt whose call, or whose adopted work, has a result r. *)
FinishAttempt(s, r) ==
  IF flight[s].reason = "pause" /\ r \notin Yields
  THEN Interrupts(s, "pause") ELSE Records(s, r)

(* clear answered: the work is gone ("cleared"), alive, or ended with a result *)
(* of its own; or the wait for it was given up ("none").                      *)
StartOn(s, answer) ==
  LET f == flight[s] IN
  IF answer = "none" \/ (f.reason # "none" /\ answer = "cleared")
  THEN /\ IF f.reason \notin {"none", "pause"}
          THEN Records(s, f.reason) ELSE UNCHANGED <<ledger, ghosts>>
       /\ Ends(s)
  ELSE /\ IF answer = "cleared" /\ Open(s) /\ att[s].unsettled
          THEN AttemptLost(s) ELSE UNCHANGED ledger
       /\ Goes(s, "start", "start")
       /\ UNCHANGED ghosts

FailedOn(s, answer) ==
  LET f == flight[s] IN
  CASE answer \in Yields -> FinishAttempt(s, answer) /\ Ends(s)
    [] answer \notin Yields /\ (f.reason \in {"none", "pause"} \/ status = "parked") ->
         /\ Interrupts(s, IF status = "parked" \/ f.reason = "pause"
                          THEN "pause" ELSE "raised")
         /\ Ends(s)
    [] answer = "alive" /\ f.reason \notin {"none", "pause"} /\ status # "parked" ->
         Goes(s, "attach", "failed") /\ UNCHANGED <<ledger, ghosts>>
    [] OTHER -> Records(s, f.reason) /\ Ends(s)

ConcludeOn(s, answer) ==
  LET f == flight[s] IN
  CASE (answer = "none" /\ ~f.ending) \/ status = "parked" ->
         UNCHANGED <<ledger, ghosts>> /\ Ends(s)
    [] answer = "alive" /\ status # "parked" ->
         /\ flight' = [flight EXCEPT
              ![s] = [f EXCEPT !.at = "attach", !.held = FALSE,
                        !.reason = IF f.reason = "none" THEN "withdrawn"
                                   ELSE f.reason]]
         /\ UNCHANGED <<wait, ledger, ghosts>>
    [] OTHER -> Records(s, IF answer \in Yields THEN answer ELSE f.settle)
                /\ Ends(s)

(* Work found alive was attached to until it ended: r is its own result, or   *)
(* the reason it was cancelled for, or none.                                  *)
Outlived(s, r) ==
  LET f == flight[s] IN
  /\ Ends(s)
  /\ IF f.mode = "attempt"
     THEN IF r = "none" THEN Records(s, f.reason) ELSE FinishAttempt(s, r)
     ELSE IF status = "parked" THEN UNCHANGED <<ledger, ghosts>>
     ELSE Records(s, IF r \in Yields THEN r ELSE f.settle)

AliveOn(s, answer) ==
  CASE answer \in Yields -> Outlived(s, answer)
    [] answer = "alive" /\ ~flight[s].parked ->
         Goes(s, "rest", "alive") /\ UNCHANGED <<ledger, ghosts>>
    [] OTHER -> Outlived(s, "none")

ClearedOn(s, answer) ==
  CASE flight[s].k = "start" -> StartOn(s, answer)
    [] flight[s].k = "failed" -> FailedOn(s, answer)
    [] flight[s].k = "conclude" -> ConcludeOn(s, answer)
    [] flight[s].k = "alive" -> AliveOn(s, answer)

-----------------------------------------------------------------------------
(* The steps of a flight. *)

(* clear removes what an earlier attempt left, or adopts the job it finds. *)
ClearAnswers(s) ==
  /\ Flies(s, "clear")
  /\ live' = IF Adopts(s) THEN live ELSE [live EXCEPT ![s] = 0]
  /\ \E r \in Yields :
       ClearedOn(s, IF Adopts(s) /\ live[s] > 0 THEN "alive"
                    ELSE IF s \in yield THEN r ELSE "cleared")
  /\ UNCHANGED <<loop, yield, unproven>>

(* The backend is unreachable, or clear raised: retried, unless given up. *)
ClearFails(s) ==
  /\ Flies(s, "clear")
  /\ IF AbandonsClear(flight[s])
     THEN /\ unproven' = IF flight[s].ending THEN unproven \cup {s} ELSE unproven
          /\ ClearedOn(s, "none")
     ELSE /\ Goes(s, "backoff", flight[s].k)
          /\ UNCHANGED <<ledger, ghosts, unproven>>
  /\ UNCHANGED <<loop, side>>

BackoffEnds(s) ==
  /\ \/ Flies(s, "backoff") /\ Goes(s, "clear", flight[s].k)
     \/ Flies(s, "rest") /\ Goes(s, "attach", "alive")
  /\ UNCHANGED <<ledger, loop, side, unproven, ghosts>>

(* The start is recorded only if the rule still allows it. *)
Start(s) ==
  /\ Flies(s, "start")
  /\ IF flight[s].reason # "none" /\ att[s].n = 0
     THEN StartOn(s, "cleared") /\ UNCHANGED side
     ELSE IF RunDue(s) /\ ~ParkIsDue
     THEN /\ StepStarted(s)
          /\ flight' = [flight EXCEPT ![s] =
                          [flight[s] EXCEPT !.at = "run", !.n = att[s].n + 1]]
          /\ wait' = Awake
          /\ live' = IF Adopts(s) /\ (live[s] > 0 \/ s \in yield) THEN live
                     ELSE [live EXCEPT ![s] = live[s] + 1]
          /\ UNCHANGED <<yield, ghosts>>
     ELSE Ends(s) /\ UNCHANGED <<ledger, side, ghosts>>
  /\ UNCHANGED <<loop, unproven>>

(* A call past its grace, or a clear past its timeout, is nudged and waited   *)
(* for.                                                                       *)
CallHeld(s) ==
  /\ \/ Flies(s, "clear")
     \/ (Flies(s, "run") \/ Flies(s, "attach")) /\ flight[s].reason # "none"
  /\ ~flight[s].held
  /\ flight' = [flight EXCEPT ![s] = [flight[s] EXCEPT !.held = TRUE]]
  /\ wait' = Awake
  /\ UNCHANGED <<ledger, loop, side, unproven, ghosts>>

WorkOver(s) == live' = [live EXCEPT ![s] = IF live[s] > 0 THEN live[s] - 1 ELSE 0]

(* run, or the attach to adopted work, returned the work's own result. *)
RunFinishes(s) ==
  /\ \E r \in Yields :
       \/ Flies(s, "run") /\ FinishAttempt(s, r) /\ Ends(s)
       \/ Flies(s, "attach") /\ Outlived(s, r)
  /\ WorkOver(s)
  /\ yield' = IF Adopts(s) THEN yield \cup {s} ELSE yield
  /\ UNCHANGED <<loop, unproven>>

(* run obeyed its cancel: the work is over, but for a job a pause leaves. *)
RunCancelled(s) ==
  /\ flight[s].reason # "none" /\ s \notin yield
  /\ \/ Flies(s, "run") /\ FinishAttempt(s, flight[s].reason) /\ Ends(s)
     \/ Flies(s, "attach") /\ Outlived(s, flight[s].reason)
  /\ IF Adopts(s) /\ flight[s].reason = "pause" THEN UNCHANGED live ELSE WorkOver(s)
  /\ UNCHANGED <<loop, yield, unproven>>

(* run raised, or its task ended cancelled: nothing is known of its work. *)
RunRaises(s) ==
  /\ Flies(s, "run") \/ Flies(s, "attach")
  /\ Goes(s, "clear", IF flight[s].at = "run" THEN "failed" ELSE "alive")
  /\ WorkOver(s) \/ UNCHANGED live
  /\ fails' = IF flight[s].at = "run" /\ flight[s].reason = "none"
              THEN [fails EXCEPT ![s] = fails[s] + 1] ELSE fails
  /\ UNCHANGED <<ledger, loop, yield, unproven, heldAtExit, refused,
                 troubles>>

(* Work no call watches ends: a job with its result, or without one. *)
WorkEnds(s) ==
  /\ live[s] > 0 /\ ~Flies(s, "run") /\ ~Flies(s, "attach")
  /\ WorkOver(s)
  /\ yield' \in IF Adopts(s) THEN {yield, yield \cup {s}} ELSE {yield}
  /\ UNCHANGED <<ledger, flight, loop, wait, unproven, ghosts>>

-----------------------------------------------------------------------------
(* The host, the operator and the search, and time. *)

(* The host dies, or the log's writer cannot confirm an append and ends it.   *)
(* What an attempt left may outlive it.                                       *)
Crash ==
  /\ loop = "up" /\ troubles < MaxTroubles
  /\ loop' = "down"
  /\ flight' = [s \in Steps |-> NoFlight]
  /\ wait' = Awake
  /\ troubles' = troubles + 1
  /\ fails' = [s \in Steps |-> fails[s] + IF Running(s) THEN 1 ELSE 0]
  /\ \E gone \in SUBSET {s \in Steps : live[s] > 0} :
       live' = [s \in Steps |-> IF s \in gone THEN 0 ELSE live[s]]
  /\ UNCHANGED <<ledger, yield, unproven, heldAtExit, refused>>

Relaunch ==
  /\ loop \in {"down", "parked"}
  /\ OpenEpoch
  /\ loop' = "up" /\ wait' = Awake
  /\ heldAtExit' = {}
  /\ UNCHANGED <<flight, side, unproven, fails, refused, troubles>>

(* An input of the run wakes the main task. *)
Heard == loop = "up" /\ wait' = Awake
         /\ UNCHANGED <<flight, loop, side, unproven>>

SearchAsks(s) == Asked \cup {s} \in Scopes /\ Prepare(s) /\ Heard /\ UNCHANGED ghosts
SearchFinishes(mode) == Finish(mode) /\ Heard /\ UNCHANGED ghosts
OperatorStops(mode) ==
  Stop(mode) /\ stop' # stop /\ Heard /\ UNCHANGED ghosts
OperatorPauses(kind) ==
  /\ troubles < MaxTroubles
  /\ Pause(kind) /\ Heard
  /\ troubles' = troubles + 1
  /\ UNCHANGED <<fails, heldAtExit, refused>>
WatchEnds(s) == s \in Watched /\ WatchFires(s) /\ Heard /\ UNCHANGED ghosts

(* Time passing wakes the main task only through a timer its wait has set. *)
Passes(timer) ==
  /\ wait' = IF loop = "up" /\ timer THEN Awake ELSE wait
  /\ UNCHANGED <<flight, loop, side, unproven, ghosts>>
TimePasses ==
  \/ \E s \in Steps : LimitPasses(s) /\ Passes(s \in wait.limits)
  \/ \E s \in Steps : BackoffPasses(s) /\ Passes(s \in wait.backoffs)
  \/ DrainPasses /\ Passes(wait.drain)

-----------------------------------------------------------------------------
Init ==
  /\ LedgerInit
  /\ Asked \in Scopes
  /\ flight = [s \in Steps |-> NoFlight]
  /\ loop = "up" /\ wait = Awake
  /\ live = [s \in Steps |-> 0] /\ yield = {}
  /\ unproven = {} /\ heldAtExit = {} /\ refused = FALSE
  /\ fails = [s \in Steps |-> 0] /\ troubles = 0

Turn == TurnDispatches \/ TurnTicks \/ TurnEnds \/ TurnParks

FlightSteps(s) ==
  \/ ClearAnswers(s) \/ ClearFails(s) \/ BackoffEnds(s) \/ Start(s)
  \/ CallHeld(s) \/ RunFinishes(s) \/ RunCancelled(s) \/ RunRaises(s)

Inputs ==
  \/ \E s \in Steps : SearchAsks(s) \/ WatchEnds(s)
  \/ \E mode \in {"drain", "cancel"} : SearchFinishes(mode) \/ OperatorStops(mode)
  \/ \E kind \in {"plain", "timed", "now"} : OperatorPauses(kind)

Rested == loop = "ended" /\ UNCHANGED vars

Next ==
  \/ Turn
  \/ \E s \in Steps : FlightSteps(s) \/ WorkEnds(s)
  \/ Crash \/ Relaunch \/ Inputs \/ TimePasses
  \/ Rested

Spec == Init /\ [][Next]_vars

-----------------------------------------------------------------------------
(* Properties. *)

(* The steps as the runner loop promises them to the rest of the system. *)
Contract == INSTANCE StepContract WITH
  Outcomes <- Results,
  asked <- Asked,
  work <- live, outcome <- result, givenUp <- unproven,
  ending <- RunIsEnding, over <- ended

(* Whatever fails, dies or is paused, the work of a step is alive at most once  *)
(* at a time, none begins after the step's result, and no result is given over  *)
(* work that lives, except where an ending run gave up on its clear.            *)
KeepsContract == Contract!Spec

(* The loop never appends a record the fold refuses: no flight outlives the     *)
(* attempt it reports (RecordRefusedError would end the process).               *)
NoRefusal == ~refused

(* A step is charged only for attempts that raised or died with their host, and *)
(* is given up as exhausted only after more of them than the limit: a pause, a  *)
(* held call or adopted work never costs it a try.                              *)
ChargedForFailures ==
  \A s \in Steps :
    /\ Charged(s) <= fails[s] + IF Running(s) THEN 1 ELSE 0
    /\ result[s] = "exhausted" => fails[s] > RetryLimit

(* A run parks over an attempt that still runs only if a call that ignores its  *)
(* cancel holds it (_park).                                                     *)
ParksClean ==
  loop = "parked" => \A s \in Steps : Running(s) => s \in heldAtExit

(* While a snapshot is taken no work of a writer it does not precede is alive,  *)
(* but for work an ending run gave up on, and no writer's call is in progress   *)
(* (holds_back).                                                                *)
SnapshotAlone ==
  \A s, r \in Steps :
    Snapshots(s) /\ Writes(r) /\ ~Follows(r, s) /\ flight[s].at = "run" =>
      flight[r].at # "run" /\ (live[r] = 0 \/ r \in unproven)

-----------------------------------------------------------------------------
(* Liveness.  The main task and the flights are scheduled, their backoffs and   *)
(* graces end, a clear returns or fails, and a host that went is launched again.*)

Fairness ==
  /\ WF_vars(Turn) /\ WF_vars(Relaunch)
  /\ \A s \in Steps :
       /\ WF_vars(Start(s) \/ BackoffEnds(s) \/ CallHeld(s))
       /\ WF_vars(BackoffPasses(s) /\ Passes(s \in wait.backoffs))

FairSpec == Spec /\ Fairness

(* The environment's part, assumed by the properties that need it. *)
CallReturns(s) == RunFinishes(s) \/ RunCancelled(s) \/ RunRaises(s)
ClearsReturn == \A s \in Steps : WF_vars(ClearAnswers(s) \/ ClearFails(s))
ClearsAnswer == \A s \in Steps : SF_vars(ClearAnswers(s))
CallsObey ==
  \A s \in Steps : WF_vars(flight[s].reason # "none" /\ CallReturns(s))
CallsEnd == \A s \in Steps : WF_vars(CallReturns(s))
AttachEnds ==
  \A s \in {r \in Steps : Adopts(r)} :
    SF_vars(flight[s].at = "attach" /\ (RunFinishes(s) \/ RunCancelled(s)))

ClosesEnd ==
  \A s \in {r \in Steps : Closes(r)} :
    SF_vars(ClearAnswers(s)) /\ WF_vars(CallReturns(s))

(* A run that is finished by a cancel ends, even if no clear ever answers       *)
(* (an ending gives up on it), provided the calls in progress obey their cancel *)
(* and the closes, which alone it does not cancel, end.                         *)
CancelEnds ==
  ClearsReturn /\ CallsObey /\ AttachEnds /\ ClosesEnd
    => ((finish /\ stop = "cancel") ~> (loop = "ended"))

(* A paused run comes to rest though no call returns, no clear answers and no   *)
(* attempt heeds its cancel: the process exits over what is held.               *)
PauseRests == status = "parked" ~> loop \in {"parked", "down"}

(* No step waits for ever: not for another step of its scope, a retry, a drain, *)
(* a crash or an adoption, if calls end and clears are answered in the end.     *)
StepsEnd ==
  ClearsAnswer /\ CallsEnd /\ AttachEnds
    => ((\E s \in Steps : Open(s)) ~> (\A s \in Steps : ~Open(s)))

-----------------------------------------------------------------------------
(* What the code says of itself and does not do. *)

(* A drain whose deadline passed is parked whatever the other steps do ("whether*)
(* a run is parked never depends on an unrelated step ending later"): the main  *)
(* task is awake to record it.                                                  *)
ParkDueIsSeen == loop = "up" /\ ParkIsDue => wait.over
=============================================================================
