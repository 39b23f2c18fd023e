------------------------------ MODULE Lifecycle ------------------------------
(***************************************************************************)
(* The job machine of the vibesys-cli daemon (cli/internal/lifecycle).     *)
(* Step in machine.go is a function from a state and an event to a state   *)
(* and the requests the shell must carry out.  Here every handler is an    *)
(* operator On...(j, c, ...) from the entry c of job j to a record         *)
(* [e |-> new entry, r |-> requests], and every event is an action that    *)
(* applies its handler and then, as Step always does, the scheduler.       *)
(*                                                                         *)
(* This module leaves the shell open: an event may come at any time, late  *)
(* or twice.  JobDaemon closes it with the effects, stores and supervisors *)
(* that produce the events.                                                *)
(*                                                                         *)
(* Kept of the data: a settlement is its transition without texts; a time  *)
(* limit is whether it has passed; work is one slot of the machine, alone  *)
(* or shared (schedule.DefaultDemand), and jobs are numbered in the order  *)
(* they were submitted.                                                    *)
(***************************************************************************)
EXTENDS Integers, FiniteSets, Settle

CONSTANTS
    Jobs,         \* numbered in the order they were submitted
    StoreOf,      \* the store (repository and task) of each job
    Rerun,        \* the check and measure jobs: core.RerunAfterProvenDeath
    Exclusive,    \* the measure jobs, which take every slot for themselves
    Slots         \* capacity of schedule.DefaultPlacement (OneAtATime: 1)

ASSUME JobsAssumption == Jobs \subseteq Nat /\ IsFiniteSet(Jobs)
ASSUME KindAssumption == Rerun \subseteq Jobs /\ Exclusive \subseteq Rerun
ASSUME SlotsAssumption == Slots \in Nat \ {0}

VARIABLES
    entry,        \* the entry of each job, NoEntry for a job the machine does not hold
    recovering,   \* no launch until RecoveryDone
    unread        \* the stores whose unfinished jobs the machine has not read

mvars == <<entry, recovering, unread>>

Stores == {StoreOf[j] : j \in Jobs}

-----------------------------------------------------------------------------
(* What the machine is told, and what it keeps. *)

Phases == {"none", "queued", "discarding", "launching", "running", "stopping",
           "settling", "cancelling", "unrecorded", "indoubt", "left"}

Causes == {"store away", "supervisor silent", "refused", "unprepared"}

\* Presence: what was found of a job's supervisor.
Presence == [run : {"none", "parked", "running", "finished", "released", "unknown"},
             proof : {"none"}, start : {"may"}]
            \cup [run : {"dead"}, proof : Proofs, start : StartKnown]
Answers(p) == p.run \in {"parked", "running", "finished", "released"}

\* Finding: what the store said of a job.
Finding == [job : {"away", "no such job"}, givenUp : {FALSE}, attempts : {0}]
           \cup [job : JobStates, givenUp : BOOLEAN, attempts : 0 .. MaxAttempts - 1]
JobIn(f) == f.job \in JobStates

Entry == [phase : Phases,
          cancelAsked : BOOLEAN, cancelSent : BOOLEAN,
          settlement : Settlement \cup {NoSettlement}, release : BOOLEAN,
          armed : BOOLEAN, waiting : BOOLEAN,
          holds : BOOLEAN, holdUntil : {"zero", "ahead", "passed"},
          parked : BOOLEAN,
          attempts : 0 .. MaxAttempts, spawnFailures : 0 .. MaxAttempts,
          told : BOOLEAN,      \* the machine knows the job's work
          dated : BOOLEAN,     \* the machine knows when it was submitted
          leased : BOOLEAN]

NoEntry == [phase |-> "none", cancelAsked |-> FALSE, cancelSent |-> FALSE,
            settlement |-> NoSettlement, release |-> FALSE,
            armed |-> FALSE, waiting |-> FALSE, holds |-> FALSE, holdUntil |-> "zero",
            parked |-> FALSE, attempts |-> 0, spawnFailures |-> 0,
            told |-> FALSE, dated |-> FALSE, leased |-> FALSE]

\* The requests of the machine.
Request(kind, j) == [kind |-> kind, job |-> j]
Adopt(j, c) == [kind |-> "adopt", job |-> j, cancelFirst |-> c.cancelAsked]
Move(j, c) == [kind |-> "move", job |-> j, settlement |-> c.settlement, release |-> c.release]
Discard(j, queued) == [kind |-> "discard", job |-> j, queued |-> queued]

Result(c, reqs) == [e |-> c, r |-> reqs]
Ignore(c) == Result(c, {})

-----------------------------------------------------------------------------
(* Small steps the handlers share. *)

awaitRetry(j, c) ==
    Result([c EXCEPT !.waiting = TRUE, !.armed = TRUE],
           IF c.armed THEN {} ELSE {Request("retry", j)})

\* settle: the job keeps holding the machine until its end is recorded.
settle(j, c, st) ==
    LET n == [c EXCEPT !.phase = "settling", !.settlement = st, !.release = TRUE]
    IN  Result(n, {Move(j, n)})

cancelQueuedJob(j, c) ==
    LET n == [c EXCEPT !.phase = "cancelling", !.settlement = cancelQueued, !.release = FALSE]
    IN  Result(n, {Move(j, n)})

cutOff(j, c, proof, start) ==
    LET st == CutOff(j \in Rerun, c.attempts, proof, start)
        n == [c EXCEPT !.phase = "settling", !.settlement = st, !.release = FALSE]
    IN  IF c.cancelAsked \/ ~Requeues(st)
        THEN settle(j, c, lostJob)
        ELSE Result(n, {Move(j, n)})

\* lookAgain: in doubt, and holding the machine, as the command may run.
lookAgain(j, c) ==
    Result([c EXCEPT !.phase = "indoubt", !.holds = TRUE], {Request("reexamine", j)})

markCancel(c) == [c EXCEPT !.cancelAsked = TRUE]

signalCancel(j, c) ==
    IF c.cancelAsked /\ ~c.cancelSent
    THEN Result([c EXCEPT !.cancelSent = TRUE], {Request("signal", j)})
    ELSE Ignore(c)

\* judgeHold: a command that may run holds the machine until its limit, counted
\* from the first look.
judgeHold(c, p) ==
    IF p.run \notin {"running", "unknown"}
    THEN [c EXCEPT !.holds = FALSE]
    ELSE LET until == IF c.holdUntil = "zero" THEN "ahead" ELSE c.holdUntil
         IN  [c EXCEPT !.holdUntil = until, !.holds = (until = "ahead")]

-----------------------------------------------------------------------------
(* Recovery: a look at a job and at what is left of its run. *)

\* place: what the store says of the attempts and the work is the latest; when the
\* job was submitted is only taken with the first look at it.
place(c, f, phase) ==
    [c EXCEPT !.phase = phase,
              !.dated = IF c.phase = "none" THEN JobIn(f) ELSE @,
              !.attempts = IF JobIn(f) THEN f.attempts ELSE @,
              !.told = @ \/ JobIn(f),
              !.waiting = FALSE, !.holds = FALSE, !.parked = FALSE, !.leased = FALSE,
              !.holdUntil = IF phase = "indoubt" THEN @ ELSE "zero"]

inDoubt(j, c, f, p) ==
    LET w == awaitRetry(j, judgeHold(place(c, f, "indoubt"), p))
        s == signalCancel(j, w.e)
    IN  IF Answers(p) THEN Result(s.e, w.r \cup s.r) ELSE w

doubtUnlessGivenUp(j, c, f, p) ==
    LET probe == judgeHold(c, p)
    IN  IF f.givenUp /\ ~probe.holds /\ probe.holdUntil # "ahead"
        THEN settle(j, place(c, f, "running"), givenUpJob)
        ELSE inDoubt(j, c, f, p)

\* Mutant: a supervisor that finished while no daemon ran is discarded.
recoverDiscarding(j, c, f, p) ==
    LET n == place(c, f, "running")
        a == [n EXCEPT !.cancelSent = n.cancelAsked]
    IN  CASE p.run = "parked" -> Ignore([place(c, f, "indoubt") EXCEPT !.parked = TRUE])
          [] p.run \in {"finished", "released"} -> Result(place(c, f, "discarding"), {Discard(j, TRUE)})
          [] p.run = "running" -> Result(a, {Adopt(j, a)})
          [] p.run = "dead" /\ ValidProof(p.proof) -> cutOff(j, n, p.proof, p.start)
          [] OTHER -> doubtUnlessGivenUp(j, c, f, p)

recoverRunning(j, c, f, p) ==
    LET n == place(c, f, "running")
        a == [n EXCEPT !.cancelSent = n.cancelAsked]
    IN  CASE p.run = "parked" -> Ignore([place(c, f, "indoubt") EXCEPT !.parked = TRUE])
          [] Answers(p) /\ p.run # "parked" -> Result(a, {Adopt(j, a)})
          [] p.run = "dead" /\ ValidProof(p.proof) -> cutOff(j, n, p.proof, p.start)
          [] OTHER -> doubtUnlessGivenUp(j, c, f, p)

\* Mutant: what a crashed launch left of a queued job is not cleared.
recoverQueuedOver(j, c, f, p) ==
    LET n == place(c, f, "queued") IN IF n.cancelAsked THEN cancelQueuedJob(j, n) ELSE Ignore(n)

recoverQueuedAfresh(j, c, f, p) ==
    LET n == place(c, f, "queued")
    IN  CASE p.run = "none" -> IF n.cancelAsked THEN cancelQueuedJob(j, n) ELSE Ignore(n)
          [] Answers(p) \/ p.run = "dead" -> Result(place(c, f, "discarding"), {Discard(j, TRUE)})
          [] OTHER -> inDoubt(j, c, f, p)

\* recoverEnded: the job, if the machine had it in doubt, leaves it.
recoverEnded(j, p) ==
    Result(NoEntry, IF Answers(p) \/ p.run = "dead" THEN {Discard(j, FALSE)} ELSE {})

recoverLeft(j, c, p) ==
    LET n == judgeHold(c, p) IN IF n.holds THEN awaitRetry(j, n) ELSE Ignore(NoEntry)

OnRecovered(j, c, f, p) ==
    CASE c.phase = "queued" ->
            IF f.job = "queued" THEN recoverQueuedAfresh(j, c, f, p) ELSE Ignore(c)
      [] c.phase = "left" -> recoverLeft(j, c, p)
      [] c.phase \in {"none", "indoubt"} ->
            (CASE f.job = "queued" -> recoverQueuedAfresh(j, c, f, p)
               [] f.job = "running" -> recoverRunning(j, c, f, p)
               [] f.job \in FinalStates \cup {"no such job"} -> recoverEnded(j, p)
               [] f.job = "away" /\ p.run = "none" /\ c.phase = "none" -> Ignore(c)
               [] OTHER -> inDoubt(j, c, f, p))
      [] OTHER -> Ignore(c)

-----------------------------------------------------------------------------
(* The other events. *)

admit(c, told, attempts) ==
    IF c.phase = "none"
    THEN [NoEntry EXCEPT !.phase = "queued", !.dated = TRUE, !.told = told, !.attempts = attempts]
    ELSE c

OnAdmitted(c, attempts) == Ignore(admit(c, TRUE, attempts))

\* CancelAsked carries the state the caller read in the store.
OnCancelAsked(j, c, state) ==
    LET n == IF state = "queued" THEN admit(c, FALSE, 0) ELSE c
    IN  CASE n.phase = "queued" -> cancelQueuedJob(j, markCancel(n))
          [] n.phase \in {"discarding", "launching", "indoubt"} -> Ignore(markCancel(n))
          [] n.phase = "running" -> signalCancel(j, markCancel(n))
          [] n.phase \in {"settling", "unrecorded"} /\ Requeues(n.settlement) -> Ignore(markCancel(n))
          [] OTHER -> Ignore(n)

OnDiscarded(j, c) ==
    LET n == [c EXCEPT !.phase = "queued"]
    IN  CASE c.phase # "discarding" -> Ignore(c)
          [] c.phase = "discarding" /\ c.cancelAsked -> cancelQueuedJob(j, n)
          [] OTHER -> Ignore(n)

OnLaunched(j, c) ==
    LET n == [c EXCEPT !.phase = "running", !.cancelSent = c.cancelAsked]
    IN  IF c.phase = "launching" THEN Result(n, {Adopt(j, n)}) ELSE Ignore(c)

\* Mutant: a supervisor that stays silent is spawned again without end.
spawnedForever(j, c, cause) ==
    IF c.phase = "launching"
    THEN Result([c EXCEPT !.spawnFailures = @ + 1, !.phase = "discarding"], {Discard(j, TRUE)})
    ELSE Ignore(c)

OnLaunchFailed(j, c, cause) ==
    LET again == [c EXCEPT !.spawnFailures = @ + 1]
    IN  CASE c.phase # "launching" -> Ignore(c)
          [] c.phase = "launching" /\ c.cancelAsked ->
                settle(j, c, IF cause = "store away" THEN Ended("cancelled") ELSE cancelQueued)
          [] c.phase = "launching" /\ ~c.cancelAsked /\ cause = "store away" ->
                awaitRetry(j, [c EXCEPT !.phase = "indoubt"])
          [] c.phase = "launching" /\ ~c.cancelAsked /\ cause = "supervisor silent" ->
                IF again.spawnFailures < MaxAttempts
                THEN Result([again EXCEPT !.phase = "discarding"], {Discard(j, TRUE)})
                ELSE settle(j, again, failedToLaunch)
          [] OTHER -> settle(j, c, failedToLaunch)

\* Mutant: a refused lease is not retried.
refusedForGood(j, c) ==
    CASE c.phase # "launching" -> Ignore(c)
      [] c.phase = "launching" /\ c.cancelAsked -> settle(j, c, cancelQueued)
      [] OTHER -> Ignore([c EXCEPT !.phase = "queued", !.leased = TRUE])

OnLeaseRefused(j, c) ==
    CASE c.phase # "launching" -> Ignore(c)
      [] c.phase = "launching" /\ c.cancelAsked -> settle(j, c, cancelQueued)
      [] OTHER -> awaitRetry(j, [c EXCEPT !.phase = "queued", !.leased = TRUE])

\* Mutant: a late report of an end is settled in whatever phase the job is.
finishedAnyPhase(j, c, o) ==
    IF c.phase = "stopping" THEN settle(j, c, stoppedJob) ELSE settle(j, c, SettleOutcome(o))

OnFinished(j, c, o) ==
    CASE c.phase = "running" -> settle(j, c, SettleOutcome(o))
      [] c.phase = "stopping" -> settle(j, c, stoppedJob)
      [] OTHER -> Ignore(c)

OnSupervisorLost(j, c, proof, start) ==
    CASE c.phase \notin {"running", "stopping"} -> Ignore(c)
      [] c.phase \in {"running", "stopping"} /\ ~ValidProof(proof) -> lookAgain(j, c)
      [] c.phase = "stopping" /\ ValidProof(proof) -> settle(j, c, lostJob)
      [] OTHER -> cutOff(j, c, proof, start)

OnFollowFailed(j, c, cause) ==
    CASE c.phase # "running" -> Ignore(c)
      [] c.phase = "running" /\ cause = "store away" -> lookAgain(j, c)
      [] OTHER -> Result([c EXCEPT !.phase = "stopping"], {Request("stop", j)})

\* Mutant: a job that could not be stopped is settled as if it had been.
stopFailedEnds(j, c) == IF c.phase = "stopping" THEN settle(j, c, stoppedJob) ELSE Ignore(c)

OnStopFailed(j, c) ==
    IF c.phase = "stopping"
    THEN awaitRetry(j, [c EXCEPT !.phase = "indoubt", !.holds = TRUE])
    ELSE Ignore(c)

OnCancelFailed(j, c) ==
    IF c.phase \in {"running", "indoubt"}
    THEN awaitRetry(j, [c EXCEPT !.cancelSent = FALSE])
    ELSE Ignore(c)

OnMoveFailed(j, c) ==
    IF c.phase \in {"settling", "cancelling", "unrecorded"}
    THEN awaitRetry(j, [c EXCEPT !.phase = "unrecorded"])
    ELSE Ignore(c)

\* Mutant: a discard that failed is not tried again.
discardOnce(j, c) == Ignore(c)

OnDiscardFailed(j, c) == IF c.phase = "discarding" THEN awaitRetry(j, c) ELSE Ignore(c)

\* Mutant: the dead run of a job that is queued again is not cleared.
requeuedAsIs(j, c) ==
    IF c.phase \in {"settling", "unrecorded"} /\ Requeues(c.settlement)
    THEN Ignore([c EXCEPT !.attempts = @ + 1, !.phase = "discarding", !.settlement = NoSettlement,
                          !.cancelSent = FALSE, !.holds = FALSE, !.holdUntil = "zero"])
    ELSE Ignore(c)

OnRequeued(j, c) ==
    IF c.phase \in {"settling", "unrecorded"} /\ Requeues(c.settlement)
    THEN Result([c EXCEPT !.attempts = @ + 1, !.phase = "discarding",
                          !.settlement = NoSettlement, !.cancelSent = FALSE,
                          !.holds = FALSE, !.holdUntil = "zero"],
                {Discard(j, TRUE)})
    ELSE Ignore(c)

\* Mutant: the timer is gone and the wait for it is kept.
retryStillWaits(j, c) ==
    IF c.waiting /\ c.phase = "indoubt"
    THEN Result([c EXCEPT !.armed = FALSE], {Request("reexamine", j)})
    ELSE Ignore([c EXCEPT !.armed = FALSE, !.waiting = FALSE])

\* retryDue: the timer is gone either way; it repeats a step only if one waits.
OnRetryDue(j, c) ==
    LET n == [c EXCEPT !.armed = FALSE, !.waiting = FALSE]
    IN  CASE ~c.waiting -> Ignore(n)
          [] c.waiting /\ c.phase = "unrecorded" -> Result(n, {Move(j, n)})
          [] c.waiting /\ c.phase \in {"indoubt", "left"} -> Result(n, {Request("reexamine", j)})
          [] c.waiting /\ c.phase = "discarding" -> Result(n, {Discard(j, TRUE)})
          [] c.waiting /\ c.phase = "running" -> signalCancel(j, n)
          [] c.waiting /\ c.phase = "queued" -> Ignore([n EXCEPT !.leased = FALSE])
          [] OTHER -> Ignore(n)

-----------------------------------------------------------------------------
(* The scheduler, at the end of every step.  en is the entries, un the unread *)
(* stores.  MayStart is schedule.Step for jobs that each take one slot of the *)
(* one placement: a candidate that waits reserves the placement, so one       *)
(* starts only if every candidate before it does.                             *)

\* Mutant: a job in doubt leaves the machine to others.
holdsUntilDoubt(c) == c.phase \in {"launching", "running", "stopping", "settling"}

holdsMachine(c) ==
    \/ c.phase \in {"launching", "running", "stopping", "settling"}
    \/ c.phase \in {"indoubt", "left"} /\ c.holds

blocksStore(c) ==
    \/ c.phase = "indoubt" /\ ~c.parked
    \/ c.phase = "unrecorded" /\ c.settlement.from = "running"

storeBlocked(en, un, s) ==
    s \in un \/ \E j \in Jobs : StoreOf[j] = s /\ blocksStore(en[j])

Holders(en) == {j \in Jobs : holdsMachine(en[j])}

Candidates(en, un) ==
    {j \in Jobs \ Holders(en) :
        en[j].parked \/ (en[j].phase = "queued" /\ ~storeBlocked(en, un, StoreOf[j]))}

\* optionsOf: a job whose work the machine was not told claims everything alone.
Alone(en, j) == j \in Exclusive \/ ~en[j].told

\* First, then ArrivalOrder: a job of unknown date has the zero time, the earliest.
Before(en, i, j) ==
    \/ en[i].parked /\ ~en[j].parked
    \/ /\ en[i].parked = en[j].parked
       /\ \/ ~en[i].dated /\ en[j].dated
          \/ en[i].dated = en[j].dated /\ i < j

Earlier(en, un, j) == {i \in Candidates(en, un) : Before(en, i, j)}

\* Mutant: a candidate that starts is not counted when the next one is judged.
startsUncounted(en, un, j) ==
    /\ \A i \in Earlier(en, un, j) \cup {j} : ~en[i].leased
    /\ Cardinality(Holders(en)) < Slots
    /\ \A i \in Holders(en) : ~Alone(en, i)
    /\ Alone(en, j) => Holders(en) = {}

MayStart(en, un, j) ==
    LET ahead == Holders(en) \cup Earlier(en, un, j)
    IN  /\ \A i \in Earlier(en, un, j) \cup {j} : ~en[i].leased
        /\ Cardinality(ahead) < Slots
        /\ \A i \in ahead : ~Alone(en, i)
        /\ Alone(en, j) => ahead = {}

adopt(c) == [c EXCEPT !.phase = "running", !.parked = FALSE,
                      !.cancelSent = c.cancelAsked, !.holdUntil = "zero"]

adoptCancelled(en) ==
    [j \in Jobs |-> IF en[j].parked /\ en[j].cancelAsked THEN adopt(en[j]) ELSE en[j]]

start(c) == IF c.parked THEN adopt(c) ELSE [c EXCEPT !.phase = "launching"]

startAdmitted(en, un) ==
    [j \in Jobs |-> IF j \in Candidates(en, un) /\ MayStart(en, un, j) THEN start(en[j]) ELSE en[j]]

schedule(en, rec, un) ==
    IF rec THEN adoptCancelled(en) ELSE startAdmitted(adoptCancelled(en), un)

\* The requests of a scheduling from en to sch.
scheduleRequests(en, sch) ==
    {Adopt(j, sch[j]) : j \in {i \in Jobs : en[i].parked /\ ~sch[i].parked}}
    \cup {Request("launch", j) : j \in {i \in Jobs : en[i].phase = "queued" /\ sch[i].phase = "launching"}}

-----------------------------------------------------------------------------
(* Step: the handler of one event, and then the scheduler. *)

Step(en) == entry' = schedule(en, recovering', unread')

Take(j, h) == UNCHANGED <<recovering, unread>> /\ Step([entry EXCEPT ![j] = h.e])

Admitted(j, attempts) == Take(j, OnAdmitted(entry[j], attempts))
Recovered(j, f, p) == Take(j, OnRecovered(j, entry[j], f, p))
CancelAsked(j, state) == Take(j, OnCancelAsked(j, entry[j], state))
Discarded(j) == Take(j, OnDiscarded(j, entry[j]))
Launched(j) == Take(j, OnLaunched(j, entry[j]))
LaunchFailed(j, cause) == Take(j, OnLaunchFailed(j, entry[j], cause))
LeaseRefused(j) == Take(j, OnLeaseRefused(j, entry[j]))
Finished(j, o) == Take(j, OnFinished(j, entry[j], o))
SupervisorLost(j, proof, started) == Take(j, OnSupervisorLost(j, entry[j], proof, started))
FollowFailed(j, cause) == Take(j, OnFollowFailed(j, entry[j], cause))
StopFailed(j) == Take(j, OnStopFailed(j, entry[j]))
CancelFailed(j) == Take(j, OnCancelFailed(j, entry[j]))
MoveFailed(j) == Take(j, OnMoveFailed(j, entry[j]))
DiscardFailed(j) == Take(j, OnDiscardFailed(j, entry[j]))
RetryDue(j) == Take(j, OnRetryDue(j, entry[j]))
Requeued(j) == Take(j, OnRequeued(j, entry[j]))
Closed(j) == Take(j, Ignore(NoEntry))

RecoveryDone == recovering' = FALSE /\ UNCHANGED unread /\ Step(entry)
StoreUnread(s) == unread' = unread \cup {s} /\ UNCHANGED recovering /\ Step(entry)
StoreRead(s) == unread' = unread \ {s} /\ UNCHANGED recovering /\ Step(entry)

\* forgotten: of each job of the store, only a run that may still execute is kept.
leftOf(j, c, p) ==
    recoverLeft(j, [NoEntry EXCEPT !.phase = "left", !.dated = c.dated,
                                   !.told = c.told, !.holdUntil = c.holdUntil], p)

StoreForgotten(s, left) ==
    /\ unread' = unread \ {s}
    /\ UNCHANGED recovering
    /\ Step([j \in Jobs |-> IF StoreOf[j] = s THEN leftOf(j, entry[j], left[j]).e ELSE entry[j]])

\* A job's limit passes.  The machine reads the clock with its next event.
LimitPasses(j) ==
    /\ entry[j].holdUntil = "ahead"
    /\ entry' = [entry EXCEPT ![j].holdUntil = "passed"]
    /\ UNCHANGED <<recovering, unread>>

\* A daemon starts with nothing in the machine, and reads its stores first.
Init ==
    /\ entry = [j \in Jobs |-> NoEntry]
    /\ recovering = TRUE
    /\ unread = {}

Restart ==
    /\ entry' = [j \in Jobs |-> NoEntry]
    /\ recovering' = TRUE
    /\ unread' = {}

JobEvent(j) ==
    \/ \E a \in 0 .. MaxAttempts - 1 : Admitted(j, a)
    \/ \E f \in Finding, p \in Presence : Recovered(j, f, p)
    \/ \E state \in JobStates : CancelAsked(j, state)
    \/ Discarded(j)
    \/ Launched(j)
    \/ \E cause \in Causes : LaunchFailed(j, cause) \/ FollowFailed(j, cause)
    \/ LeaseRefused(j)
    \/ \E o \in Outcome : Finished(j, o)
    \/ \E proof \in Proofs, started \in StartKnown : SupervisorLost(j, proof, started)
    \/ StopFailed(j)
    \/ CancelFailed(j)
    \/ MoveFailed(j)
    \/ DiscardFailed(j)
    \/ RetryDue(j)
    \/ Requeued(j)
    \/ Closed(j)
    \/ LimitPasses(j)

StoreEvent(s) ==
    \/ StoreUnread(s)
    \/ StoreRead(s)
    \/ \E left \in [{j \in Jobs : StoreOf[j] = s} -> Presence] : StoreForgotten(s, left)

Next ==
    \/ \E j \in Jobs : JobEvent(j)
    \/ \E s \in Stores : StoreEvent(s)
    \/ RecoveryDone
    \/ Restart

Spec == Init /\ [][Next]_mvars

-----------------------------------------------------------------------------
(* Properties. *)

TypeOK ==
    /\ entry \in [Jobs -> Entry]
    /\ recovering \in BOOLEAN
    /\ unread \subseteq Stores

Ending == {"settling", "cancelling", "unrecorded"}

\* What the handlers rely on about one entry, after any sequence of events:
\* a job that waits for a retry has a timer armed (awaitRetry, retryDue); only a
\* job on its way out has a settlement, and one that takes it back to the queue
\* keeps its dead run until then and leaves an attempt; only a job in doubt or left
\* holds the machine by judgement or has a limit; a parked job holds nothing; a
\* queued job was not cancelled, and one refused a lease waits for a retry unless
\* it is being cancelled; a cancel is only sent when asked for; and a job whose
\* spawns are used up is settled as failed.
CoherentEntry(c) ==
    /\ c.waiting => c.armed
    /\ c.phase \in Ending <=> c.settlement # NoSettlement
    /\ Requeues(c.settlement) =>
          c.settlement.from = "running" /\ ~c.release /\ c.attempts + 1 < MaxAttempts
    /\ c.phase = "cancelling" => c.settlement = cancelQueued
    /\ c.phase \notin {"indoubt", "left"} => ~c.holds /\ c.holdUntil = "zero"
    /\ c.parked => c.phase = "indoubt" /\ ~c.holds /\ c.told
    /\ c.phase = "queued" => ~c.cancelAsked
    /\ c.leased => (c.phase = "queued" /\ c.waiting) \/ c.settlement = cancelQueued
    /\ c.cancelSent => c.cancelAsked
    /\ c.spawnFailures = MaxAttempts => c.settlement = failedToLaunch
    /\ c.attempts < MaxAttempts
    /\ c.phase = "none" => c = NoEntry

Coherent == \A j \in Jobs : CoherentEntry(entry[j])

\* What holds the machine fits it, and a job that claims it alone has it alone.
MachineFits(en) ==
    /\ Cardinality(Holders(en)) <= Slots
    /\ \A i \in Holders(en) : Alone(en, i) => Holders(en) = {i}

Launches(j) == entry[j].phase # "launching" /\ entry'[j].phase = "launching"

\* The scheduler takes up a parked job, which may have been found parked by the look
\* of this very step.  A look that finds the command begun, and a cancel, take a job
\* up whatever the machine holds.
TakesUp(j) ==
    /\ entry[j].phase # "running" /\ entry'[j].phase = "running"
    /\ ~entry'[j].cancelAsked
    /\ \/ \E f \in Finding, p \in Presence : p.run = "parked" /\ Recovered(j, f, p)
       \/ entry[j].parked /\ ~ \E f \in Finding, p \in Presence : Recovered(j, f, p)

\* A job is launched, and a parked one that nobody cancelled is taken up, only when
\* recovery is over, and with it and whatever starts in the same step the machine is
\* not overbooked: no more jobs than slots, and none beside a job that claims the
\* machine alone.  A launched job was not cancelled, and its store holds no job of
\* unknown state (schedule in machine.go, Step in schedule.go).
StartsAlone ==
    [][\A j \in Jobs :
         /\ Launches(j) \/ TakesUp(j) => ~recovering' /\ MachineFits(entry')
         /\ Launches(j) => /\ ~entry'[j].cancelAsked
                           /\ ~storeBlocked(entry', unread', StoreOf[j])]_mvars

\* The end of a job, once decided, stands until the store has it: no event, late or
\* repeated, changes the settlement or takes the job back from it, unless it is
\* removed or its attempt was cut off and it is queued again.
DecidedEndStands ==
    [][\A j \in Jobs : entry[j].phase \in Ending =>
         \/ entry'[j].phase \in Ending /\ entry'[j].settlement = entry[j].settlement
         \/ entry'[j].phase \in {"none", "left"}
         \/ entry'[j].phase = "discarding" /\ Requeues(entry[j].settlement)]_mvars

\* Stranded in machine.go: nothing holds the machine, or only jobs in doubt past
\* their limit do, and no refused lease is owed a retry, while a queued job could
\* start.
owed(c) ==
    \/ c.phase = "queued" /\ c.leased /\ c.armed /\ c.waiting
    \/ holdsMachine(c) /\ (c.phase \in {"indoubt", "left"} => c.holdUntil # "passed")

Stranded ==
    IF recovering \/ \E j \in Jobs : owed(entry[j]) THEN {}
    ELSE {j \in Jobs : entry[j].phase = "queued" /\ ~storeBlocked(entry, unread, StoreOf[j])}

\* No queued job is stranded by a step: it only counts as stranded once a limit
\* passes, which the next look at the job in doubt finds.
NoStranded ==
    Stranded # {} => \E j \in Jobs : holdsMachine(entry[j]) /\ entry[j].holdUntil = "passed"
=============================================================================
