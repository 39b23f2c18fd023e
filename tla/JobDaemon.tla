------------------------------ MODULE JobDaemon ------------------------------
(***************************************************************************)
(* The jobs daemon as a whole: the machine of Lifecycle, closed by the     *)
(* shell around it (cli/internal/app).  The loop (app.go) takes one        *)
(* message at a time, steps the machine and starts an effect for every     *)
(* request; effects (exec.go) call the stores and the supervisors beside   *)
(* the loop and answer with a message; readers (recover.go, api.go) tell   *)
(* the machine what the stores hold, at the start, by and by, and when a   *)
(* job is submitted; callers ask for a job's cancellation.                 *)
(*                                                                         *)
(* The daemon may crash between any two steps, the machine may reboot, a   *)
(* supervisor may die, and a call may fail for as long as its effect tries *)
(* it.  Which of these happen, and how many in all, are constants.         *)
(***************************************************************************)
EXTENDS Lifecycle, Supervisors

CONSTANTS
    Troubles,      \* of "crash", "reboot", "death", "fault", "disk", "unlisted", "cancel" and "sweep"
    MaxTroubles    \* how many happen in a behaviour

ASSUME TroublesAssumption == MaxTroubles \in Nat

VARIABLES
    store,      \* each job as its store has it: [state, attempts]
    run,        \* what exists of each job's run
    ran,        \* how often each job's command began
    handle,     \* handles: whether the loop holds a connection to the job's supervisor
    effects,    \* the effects under way
    reader,     \* the readers: "start", then "sweep", and "submit"
    caller,     \* Cancel's callers: "idle", "ask", or the state last read
    left        \* how many troubles are left

shell == <<handle, effects, reader, caller>>
world == <<store, run, ran>>
vars == <<entry, recovering, unread, shell, world, left>>

Absent == [state |-> "absent", attempts |-> 0]
StoredJob == [state : JobStates, attempts : 0 .. MaxAttempts - 1]

Trouble(kind) == kind \in Troubles /\ left > 0 /\ left' = left - 1

\* A call that fails, as often as it is tried.  Apart from the others: a run's
\* directory that cannot be made or record that cannot be removed, because the record
\* left alone proves nothing until a reboot; and the list of a store's jobs, because a
\* store that cannot be listed is read again as a whole.
Fault == Trouble("fault")
DiskFault == Trouble("disk")
Unlisted == Trouble("unlisted")
NoFault == UNCHANGED left

-----------------------------------------------------------------------------
(* Messages to the loop. *)

Event(type) == [type |-> type]
NoEvent == Event("none")
AdmittedEvent(job) == [type |-> "Admitted", attempts |-> job.attempts]
RecoveredEvent(f, p) == [type |-> "Recovered", f |-> f, p |-> p]
Failed(type, cause) == [type |-> type, cause |-> cause]
CancelEvent(state) == [type |-> "CancelAsked", state |-> state]
FinishedEvent(o) == [type |-> "Finished", o |-> o]
LostEvent(p) == [type |-> "SupervisorLost", proof |-> p.proof, start |-> p.start]

\* jobIn, for a job its store has not given up; and a store that did not answer.
jobIn(job) == [job |-> job.state, givenUp |-> FALSE, attempts |-> job.attempts]
StoreAway == [job |-> "away", givenUp |-> FALSE, attempts |-> 0]
NoSuchJob == [job |-> "no such job", givenUp |-> FALSE, attempts |-> 0]

\* What an event is to the machine.
Handler(j, c, ev) ==
    CASE ev.type = "Admitted" -> OnAdmitted(c, ev.attempts)
      [] ev.type = "Recovered" -> OnRecovered(j, c, ev.f, ev.p)
      [] ev.type = "CancelAsked" -> OnCancelAsked(j, c, ev.state)
      [] ev.type = "Launched" -> OnLaunched(j, c)
      [] ev.type = "LaunchFailed" -> OnLaunchFailed(j, c, ev.cause)
      [] ev.type = "LeaseRefused" -> OnLeaseRefused(j, c)
      [] ev.type = "Finished" -> OnFinished(j, c, ev.o)
      [] ev.type = "SupervisorLost" -> OnSupervisorLost(j, c, ev.proof, ev.start)
      [] ev.type = "FollowFailed" -> OnFollowFailed(j, c, ev.cause)
      [] ev.type = "StopFailed" -> OnStopFailed(j, c)
      [] ev.type = "CancelFailed" -> OnCancelFailed(j, c)
      [] ev.type = "MoveFailed" -> OnMoveFailed(j, c)
      [] ev.type = "DiscardFailed" -> OnDiscardFailed(j, c)
      [] ev.type = "Discarded" -> OnDiscarded(j, c)
      [] ev.type = "Requeued" -> OnRequeued(j, c)
      [] ev.type = "RetryDue" -> OnRetryDue(j, c)
      [] OTHER -> Ignore(NoEntry)                          \* Closed

\* The handle a message brings: a launch's, or that of a supervisor a look found.
bringsHandle(ev, h) ==
    \/ ev.type \in {"Launched", "LaunchFailed"} /\ h
    \/ ev.type = "Recovered" /\ Answers(ev.p)

-----------------------------------------------------------------------------
(* Effects. *)

Effect(kind, j, at) ==
    [kind |-> kind, job |-> j, at |-> at, h |-> FALSE, settlement |-> NoSettlement,
     flag |-> FALSE, ev |-> NoEvent]

\* effectOf: the effect of a request, bound to the handles the loop holds now.
effectOf(q, handles) ==
    CASE q.kind = "launch" -> Effect("launch", q.job, "read")
      [] q.kind = "adopt" ->
            [Effect("follow", q.job, IF q.cancelFirst THEN "cancel" ELSE "start") EXCEPT !.h = handles[q.job]]
      [] q.kind = "signal" -> [Effect("signal", q.job, "cancel") EXCEPT !.h = handles[q.job]]
      [] q.kind = "stop" -> [Effect("stop", q.job, "cancel") EXCEPT !.h = handles[q.job]]
      [] q.kind = "move" ->
            [Effect("move", q.job, "record") EXCEPT !.h = handles[q.job], !.settlement = q.settlement,
                                                    !.flag = q.release]
      [] q.kind = "discard" ->
            [Effect("discard", q.job, "release") EXCEPT !.h = handles[q.job], !.flag = q.queued]
      [] q.kind = "retry" -> [Effect("retry", q.job, "post") EXCEPT !.ev = Event("RetryDue")]
      [] OTHER -> Effect("reexamine", q.job, "look")

\* The loop, after a step of the machine that asked for reqs: handles are kept
\* (keepHandle), let go of (dropLetGo) and dropped, and the effects start.
keepHandle(j, brings, reqs) ==
    [k \in Jobs |->
        CASE k = j /\ brings /\ (entry'[k].parked \/ \E q \in reqs : q.job = k) -> TRUE
          [] entry[k].phase # "none" /\ entry'[k].phase = "none" /\ ~ \E q \in reqs : q.job = k -> FALSE
          [] OTHER -> handle[k]]

AfterStep(j, brings, drops, gone, reqs) ==
    LET handles == keepHandle(j, brings, reqs)
    IN  /\ handle' = [k \in Jobs |-> handles[k] /\ ~(k = j /\ drops)]
        /\ effects' = (effects \ gone) \cup {effectOf(q, handles) : q \in reqs}

\* The loop takes a message about job j up.
Deliver(j, ev, h, gone) ==
    LET r == Handler(j, entry[j], ev)
        reqs == r.r \cup scheduleRequests([entry EXCEPT ![j] = r.e], entry')
    IN  /\ Take(j, r)
        /\ AfterStep(j, bringsHandle(ev, h), ev.type \in {"Closed", "Discarded"}, gone, reqs)
        /\ UNCHANGED <<world, left>>

DeliverEffect(e) ==
    /\ e.at = "post"
    /\ Deliver(e.job, e.ev, e.h, {e})
    /\ UNCHANGED <<reader, caller>>

\* An effect moves on, or answers.
Goto(e, at) == effects' = (effects \ {e}) \cup {[e EXCEPT !.at = at]}
Answer(e, ev) == effects' = (effects \ {e}) \cup {[e EXCEPT !.at = "post", !.ev = ev]}

Beside == UNCHANGED <<entry, recovering, unread, handle, reader, caller>>
-----------------------------------------------------------------------------
(* launch and prepare: the store is read, the supervisor spawned and parked, *)
(* and the job recorded as running.                                          *)

SetRun(j, r) == run' = [run EXCEPT ![j] = r]
SetStore(j, job) == store' = [store EXCEPT ![j] = job]

\* record: the transition, or, when the store has the job in another state, from
\* that state.  The store shows an end, or the state asked for: recorded.
follow(job, t) == IF job.state = t.from THEN t ELSE [t EXCEPT !.from = job.state]

Recorded(job, t) == Applies(job, follow(job, t)) \/ job.state \in FinalStates \cup {t.to}

record(job, t) == IF Applies(job, follow(job, t)) THEN Apply(job, follow(job, t)) ELSE job

ToRunning == [from |-> "queued", to |-> "running"]

\* A lease held elsewhere, a store that does not answer, an environment without a
\* fingerprint: the launch starts nothing.
LaunchRead(e) ==
    /\ e.kind = "launch" /\ e.at = "read"
    /\ Beside /\ UNCHANGED world
    /\ \/ NoFault /\ store[e.job].state = "queued" /\ Goto(e, "spawn")
       \/ NoFault /\ store[e.job].state # "queued" /\ Answer(e, Event("Closed"))
       \/ Fault /\ e.job \in Exclusive /\ Answer(e, Event("LeaseRefused"))
       \/ Fault /\ \E cause \in {"store away", "unprepared"} : Answer(e, Failed("LaunchFailed", cause))

\* Whatever Spawn fails with, but that the job has a run, is a supervisor that did not
\* come up.  A record is written whole or not at all; it stays when no directory can be
\* made for it.
NotSpawned(e) == Answer(e, Failed("LaunchFailed", "supervisor silent"))

LaunchSpawn(e) ==
    /\ e.kind = "launch" /\ e.at = "spawn"
    /\ Beside /\ UNCHANGED <<store, ran>>
    /\ \/ NoFault /\ SetRun(e.job, writeRecord(run[e.job])) /\ Goto(e, "mkdir")
       \/ Fault /\ UNCHANGED run /\ NotSpawned(e)

LaunchMkdir(e) ==
    /\ e.kind = "launch" /\ e.at = "mkdir"
    /\ Beside /\ UNCHANGED <<store, ran>>
    /\ \/ NoFault /\ run[e.job].dir /\ UNCHANGED run /\ Answer(e, Failed("LaunchFailed", "refused"))
       \/ NoFault /\ ~run[e.job].dir /\ SetRun(e.job, begin(makeDirectory(run[e.job]))) /\ Goto(e, "up")
       \/ DiskFault /\ ~run[e.job].dir /\ UNCHANGED run /\ NotSpawned(e)

\* A supervisor that does not come up is killed, and its directory and record go.
LaunchUp(e) ==
    /\ e.kind = "launch" /\ e.at = "up"
    /\ Beside /\ UNCHANGED <<store, ran>>
    /\ \/ NoFault /\ SetRun(e.job, comeUp(run[e.job]))
                  /\ effects' = (effects \ {e}) \cup {[e EXCEPT !.at = "record", !.h = TRUE]}
       \/ Fault /\ SetRun(e.job, NoRun) /\ NotSpawned(e)

\* A failed record may have worked, with its answer lost.
LaunchRecord(e) ==
    /\ e.kind = "launch" /\ e.at = "record"
    /\ Beside /\ UNCHANGED <<run, ran>>
    /\ LET job == store[e.job]
       IN  \/ NoFault /\ Recorded(job, ToRunning) /\ SetStore(e.job, record(job, ToRunning))
                      /\ Answer(e, Event("Launched"))
           \/ NoFault /\ ~Recorded(job, ToRunning) /\ UNCHANGED store
                      /\ Answer(e, Failed("LaunchFailed", "store away"))
           \/ Fault /\ store' \in {store, [store EXCEPT ![e.job] = record(job, ToRunning)]}
                    /\ Answer(e, Failed("LaunchFailed", "store away"))

LaunchStep(e) == LaunchRead(e) \/ LaunchSpawn(e) \/ LaunchMkdir(e) \/ LaunchUp(e) \/ LaunchRecord(e)

-----------------------------------------------------------------------------
(* follow, signalCancel and stopJob: calls to a supervisor.  A supervisor that *)
(* is gone is only reported with its proof.                                    *)

Silent(type) == IF type = "FollowFailed" THEN Failed(type, "supervisor silent") ELSE Event(type)
failureOf(e) == CASE e.kind = "follow" -> "FollowFailed" [] e.kind = "stop" -> "StopFailed" [] OTHER -> "CancelFailed"

\* proved: a process that is gone is reported with the lock as its proof, and one
\* that was released, with the release.
goneOf(e, r) ==
    CASE r.proc = "none" /\ r.dir -> LostEvent(foundDead(r, "lock free"))
      [] r.proc = "released" -> [type |-> "SupervisorLost", proof |-> "released", start |-> "may"]
      [] OTHER -> Silent(failureOf(e))

\* The cancel goes first.  Lost, it may have arrived.
CallCancel(e) ==
    /\ e.kind \in {"follow", "signal", "stop"} /\ e.at = "cancel"
    /\ Beside /\ UNCHANGED <<store, ran>>
    /\ LET r == run[e.job]
           next == IF e.kind = "follow" THEN "start" ELSE "wait"
       IN  \/ ~e.h /\ NoFault /\ UNCHANGED run /\ Answer(e, Silent(failureOf(e)))
           \/ /\ e.h /\ Alive(r) /\ NoFault
              /\ SetRun(e.job, Cancel(r))
              /\ IF e.kind = "signal" THEN effects' = effects \ {e} ELSE Goto(e, next)
           \/ /\ e.h /\ ~Alive(r) /\ NoFault /\ UNCHANGED run
              /\ Answer(e, IF e.kind = "signal" THEN Event("CancelFailed") ELSE goneOf(e, r))
           \/ /\ e.h /\ Fault /\ run' \in {run, [run EXCEPT ![e.job] = Cancel(r)]}
              /\ Answer(e, Silent(failureOf(e)))

\* followOnce: the store, the mark in the record, and then the request to start.
FollowStart(e) ==
    /\ e.kind = "follow" /\ e.at = "start"
    /\ Beside /\ UNCHANGED <<store, ran>>
    /\ LET r == run[e.job]
       IN  \/ ~e.h /\ NoFault /\ UNCHANGED run /\ Answer(e, Silent("FollowFailed"))
           \/ e.h /\ Fault /\ UNCHANGED run /\ Answer(e, Failed("FollowFailed", "store away"))
           \/ e.h /\ NoFault /\ ~Alive(r) /\ UNCHANGED run /\ Answer(e, goneOf(e, r))
           \/ e.h /\ NoFault /\ Alive(r) /\ SetRun(e.job, markStartSent(r)) /\ Goto(e, "tell")

FollowTell(e) ==
    /\ e.kind = "follow" /\ e.at = "tell"
    /\ Beside /\ UNCHANGED store
    /\ LET r == run[e.job]
           told == run' = [run EXCEPT ![e.job] = Start(r)]
                   /\ ran' = [ran EXCEPT ![e.job] = @ + (IF Start(r).proc = "executing" /\ r.proc = "parked" THEN 1 ELSE 0)]
       IN  \/ NoFault /\ ~Alive(r) /\ UNCHANGED <<run, ran>> /\ Answer(e, goneOf(e, r))
           \/ NoFault /\ Alive(r) /\ r.proc # "released" /\ told /\ Goto(e, "wait")
           \/ NoFault /\ r.proc = "released" /\ UNCHANGED <<run, ran>> /\ Answer(e, Failed("FollowFailed", "refused"))
           \/ Fault /\ (told \/ UNCHANGED <<run, ran>>) /\ Answer(e, Silent("FollowFailed"))

\* pump: the output goes to the store until the outcome.  A stop waits for the
\* outcome alone, and not for good: a command that was never told to start has none.
Wait(e) ==
    /\ e.kind \in {"follow", "stop"} /\ e.at = "wait"
    /\ Beside /\ UNCHANGED world
    /\ LET r == run[e.job]
       IN  \/ NoFault /\ r.proc = "finished" /\ Answer(e, FinishedEvent(outcomeOf(r, e.job \in Rerun)))
           \/ NoFault /\ r.proc \in {"none", "released"} /\ Answer(e, goneOf(e, r))
           \/ NoFault /\ e.kind = "stop" /\ r.proc = "parked" /\ Answer(e, Event("StopFailed"))
           \/ Fault /\ Answer(e, Silent(failureOf(e)))
           \/ Fault /\ e.kind = "follow" /\ Answer(e, Failed("FollowFailed", "store away"))

FollowStep(e) == CallCancel(e) \/ FollowStart(e) \/ FollowTell(e) \/ Wait(e)

-----------------------------------------------------------------------------
(* move and discard: the end of a job in its store, and the end of its run. *)

MoveRecord(e) ==
    /\ e.kind = "move" /\ e.at = "record"
    /\ Beside /\ UNCHANGED <<run, ran>>
    /\ LET job == store[e.job]
           t == e.settlement
           then == IF e.flag THEN Goto(e, "release")
                   ELSE Answer(e, Event(IF Requeues(t) THEN "Requeued" ELSE "Closed"))
       IN  \/ NoFault /\ Recorded(job, t) /\ SetStore(e.job, record(job, t)) /\ then
           \/ NoFault /\ ~Recorded(job, t) /\ UNCHANGED store /\ Answer(e, Event("MoveFailed"))
           \/ Fault /\ store' \in {store, [store EXCEPT ![e.job] = record(job, t)]}
                    /\ Answer(e, Event("MoveFailed"))

\* A move whose release fails has done its work; a discard is tried again.
released(e) == IF e.kind = "discard" /\ e.flag THEN Event("Discarded") ELSE Event("Closed")
unreleased(e) == IF e.kind = "discard" THEN Event("DiscardFailed") ELSE Event("Closed")

\* release: through the handle, or what a look finds.  A supervisor that was started and
\* has not come up yet looks dead.
ReleaseRun(e) ==
    /\ e.kind \in {"move", "discard"} /\ e.at = "release"
    /\ Beside /\ UNCHANGED <<store, ran>>
    /\ LET r == run[e.job]
           p == Probe(r)
       IN  \/ NoFault /\ CanRelease(r) /\ (e.h \/ r.dir)
              /\ SetRun(e.job, Release(r)) /\ Goto(e, "forget released")
           \/ NoFault /\ r.proc = "executing" /\ UNCHANGED run /\ Answer(e, unreleased(e))
           \/ NoFault /\ r.proc \in {"none", "starting"} /\ UNCHANGED run
              /\ CASE p.run = "dead" /\ (e.h => r.dir) -> Goto(e, "forget dead")
                   [] p.run = "none" /\ ~e.h -> Answer(e, released(e))
                   [] OTHER -> Answer(e, unreleased(e))
           \/ Fault /\ UNCHANGED run /\ Answer(e, unreleased(e))

Forget(e) ==
    /\ e.kind \in {"move", "discard"} /\ e.at \in {"forget released", "forget dead"}
    /\ Beside /\ UNCHANGED <<store, ran>>
    /\ LET can == CanForget(run[e.job], IF e.at = "forget dead" THEN "lock free" ELSE "released")
       IN  \/ NoFault /\ can /\ SetRun(e.job, removeDirectory(run[e.job])) /\ Goto(e, "unrecord")
           \/ NoFault /\ ~can /\ UNCHANGED run /\ Answer(e, unreleased(e))
           \/ Fault /\ UNCHANGED run /\ Answer(e, unreleased(e))

Unrecord(e) ==
    /\ e.kind \in {"move", "discard"} /\ e.at = "unrecord"
    /\ Beside /\ UNCHANGED <<store, ran>>
    /\ \/ NoFault /\ SetRun(e.job, removeRecord(run[e.job])) /\ Answer(e, released(e))
       \/ DiskFault /\ UNCHANGED run /\ Answer(e, unreleased(e))

ReleaseStep(e) == MoveRecord(e) \/ ReleaseRun(e) \/ Forget(e) \/ Unrecord(e)

-----------------------------------------------------------------------------
(* reexamine: the run first, and then the store. *)

\* look: a probe that fails says nothing.
Look(j, p) == \/ NoFault /\ p = Probe(run[j])
              \/ Fault /\ p = found("unknown")

\* lookInStore.
InStore(j) == IF store[j].state = "absent" THEN NoSuchJob ELSE jobIn(store[j])
Find(j, f) == \/ NoFault /\ f = InStore(j)
              \/ Fault /\ f = StoreAway

ReexamineLook(e) ==
    /\ e.kind = "reexamine" /\ e.at = "look"
    /\ Beside /\ UNCHANGED world
    /\ \E p \in {Probe(run[e.job]), found("unknown")} :
          Look(e.job, p) /\ effects' = (effects \ {e}) \cup {[e EXCEPT !.at = "find", !.ev = RecoveredEvent(StoreAway, p)]}

ReexamineFind(e) ==
    /\ e.kind = "reexamine" /\ e.at = "find"
    /\ Beside /\ UNCHANGED world
    /\ \E f \in {InStore(e.job), StoreAway} :
          Find(e.job, f) /\ Answer(e, RecoveredEvent(f, e.ev.p))

EffectStep(e) == LaunchStep(e) \/ FollowStep(e) \/ ReleaseStep(e) \/ ReexamineLook(e) \/ ReexamineFind(e)
-----------------------------------------------------------------------------
(* Readers.  A reader lists the unfinished jobs of a store, and tells the     *)
(* machine of each with what it finds of its run.  Its read is stale once a   *)
(* later one was taken up (storeObservation), and what it says is dropped.    *)

Idle == [at |-> "idle", store |-> "none", again |-> FALSE, stale |-> FALSE, todo |-> {}, away |-> {},
         runs |-> <<>>, seen |-> <<>>, job |-> 0, ev |-> NoEvent]

SetReader(r, x) == reader' = [reader EXCEPT ![r] = x]

Reading == UNCHANGED <<entry, recovering, unread, handle, effects, caller, world>>

\* Jobs of the store that the queue or a run may need.
Unfinished(s) == {j \in Jobs : StoreOf[j] = s /\ store[j].state \in {"queued", "running"}}

\* Start: the runs first, all at once, and then one store after the other.  A
\* supervisor that lives and does not answer in time is unknown.
StartRuns ==
    LET x == reader["start"]
        looked(mute) == [j \in Jobs |-> IF j \in mute THEN found("unknown") ELSE Probe(run[j])]
        next(mute) == [x EXCEPT !.at = "list", !.todo = Stores, !.runs = looked(mute)]
    IN  /\ x.at = "runs"
        /\ Reading
        /\ \/ NoFault /\ SetReader("start", next({}))
           \/ Fault /\ \E j \in Jobs : run[j].dir /\ Alive(run[j]) /\ SetReader("start", next({j}))

\* recoverScope begins with a store's list; a store that cannot be read is unread.
StartList ==
    LET x == reader["start"]
    IN  /\ x.at = "list" /\ x.todo # {}
        /\ Reading
        /\ \E s \in x.todo :
             \/ NoFault /\ SetReader("start", [x EXCEPT !.at = "jobs", !.store = s, !.todo = @ \ {s},
                                                        !.seen = [j \in Unfinished(s) |-> store[j]]])
             \/ Unlisted /\ SetReader("start", [x EXCEPT !.at = "post", !.store = s, !.todo = @ \ {s},
                                                         !.away = @ \cup {s}, !.ev = Event("StoreUnread")])

firstOf(S) == CHOOSE j \in S : \A k \in S : j <= k
minus(f, j) == [k \in DOMAIN f \ {j} |-> f[k]]

StartJob ==
    LET x == reader["start"]
        j == firstOf(DOMAIN x.seen)
    IN  /\ x.at = "jobs" /\ Reading /\ NoFault
        /\ IF DOMAIN x.seen = {}
           THEN SetReader("start", [x EXCEPT !.at = "list"])
           ELSE SetReader("start", [x EXCEPT !.at = "post", !.job = j, !.seen = minus(@, j),
                                             !.ev = RecoveredEvent(jobIn(x.seen[j]), x.runs[j]),
                                             !.runs = [@ EXCEPT ![j] = found("none")]])

\* What is left is runs of jobs that ended, and runs of stores that could not be read.
StartLeftover ==
    LET x == reader["start"]
        rest == {j \in Jobs : x.runs[j].run # "none"}
        j == firstOf(rest)
    IN  /\ x.at = "list" /\ x.todo = {} /\ Reading /\ NoFault
        /\ IF rest = {}
           THEN SetReader("start", [Idle EXCEPT !.at = "post", !.ev = Event("RecoveryDone")])
           ELSE SetReader("start", [x EXCEPT !.at = "post", !.job = j,
                                             !.ev = RecoveredEvent(IF StoreOf[j] \in x.away THEN StoreAway ELSE NoSuchJob,
                                                                   x.runs[j]),
                                             !.runs = [@ EXCEPT ![j] = found("none")]])

\* sweepOnce, one store: one the machine has not read is read as at the start.
\* Sweeps that begin with nothing to find are counted, for a bound.
SweepBegin ==
    /\ reader["sweep"].at = "idle" /\ reader["start"].at = "done"
    /\ Reading
    /\ \E s \in Stores :
         /\ IF s \in unread \/ \E j \in Unfinished(s) : entry[j].phase = "none"
            THEN NoFault
            ELSE Trouble("sweep")
         /\ SetReader("sweep", [Idle EXCEPT !.at = "list", !.store = s, !.again = (s \in unread)])

\* The list of a read, by the sweep or for a submission.  The read is stamped
\* (observationContext) some time between the choice of the store and the list.
ReadList(r) ==
    LET x == reader[r]
    IN  /\ r # "start" /\ x.at = "list" /\ Reading
        /\ \E stale \in {x.stale, FALSE} :
             \/ NoFault /\ SetReader(r, [x EXCEPT !.at = IF x.again THEN "jobs" ELSE "held", !.stale = stale,
                                                  !.seen = [j \in Unfinished(x.store) |-> store[j]]])
             \/ Unlisted /\ SetReader(r,
                   CASE r = "submit" -> [x EXCEPT !.at = "admit"]
                     [] r = "sweep" /\ x.again -> Idle
                     [] OTHER -> [x EXCEPT !.at = "post", !.stale = stale, !.ev = Event("StoreUnread")])

\* sweepStore reads what the machine holds after the jobs.
SweepHeld ==
    LET x == reader["sweep"]
        news == {j \in DOMAIN x.seen : x.seen[j].state = "queued" \/ entry[j].phase = "none"}
    IN  /\ x.at = "held" /\ Reading /\ NoFault
        /\ SetReader("sweep", [x EXCEPT !.at = "jobs", !.seen = [j \in news |-> x.seen[j]]])

\* The next job of the list: a store read again is taken at its list's word, as
\* at the start; of the others, a queued job is admitted, and a running one that
\* the machine does not hold is looked up once more.
ReadJob(r) ==
    LET x == reader[r]
        j == firstOf(DOMAIN x.seen)
        next == [x EXCEPT !.at = "post", !.job = j, !.seen = minus(@, j)]
    IN  /\ r # "start" /\ x.at = "jobs" /\ Reading
        /\ IF DOMAIN x.seen = {}
           THEN NoFault /\ SetReader(r, [x EXCEPT !.at = "post", !.ev = Event("StoreRead")])
           ELSE IF ~x.again /\ x.seen[j].state = "queued"
           THEN NoFault /\ SetReader(r, [next EXCEPT !.ev = AdmittedEvent(x.seen[j])])
           ELSE \E p \in {Probe(run[j]), found("unknown")} :
                  /\ Look(j, p)
                  /\ SetReader(r, [next EXCEPT !.at = IF x.again THEN "post" ELSE "find",
                                               !.ev = RecoveredEvent(jobIn(x.seen[j]), p)])

SweepFind ==
    LET x == reader["sweep"]
    IN  /\ x.at = "find" /\ Reading
        /\ \E f \in {InStore(x.job), StoreAway} :
             Find(x.job, f) /\ SetReader("sweep", [x EXCEPT !.at = "post", !.ev = RecoveredEvent(f, x.ev.p)])

\* The loop takes up an event that is about no one job.
StepAlone(A) ==
    /\ A
    /\ AfterStep(0, FALSE, FALSE, {}, scheduleRequests(entry, entry'))
    /\ UNCHANGED <<world, left>>

\* advance: a complete read of a store supersedes every read of it under way.
Superseded(r, next, s) ==
    [q \in DOMAIN reader |->
        IF q = r THEN next ELSE [reader[q] EXCEPT !.stale = @ \/ reader[q].store = s]]

\* Where a reader goes on after a message.
afterPost(r, x) ==
    CASE x.ev.type = "RecoveryDone" -> [Idle EXCEPT !.at = "done"]
      [] x.ev.type = "StoreRead" /\ r = "submit" -> [x EXCEPT !.at = "admit", !.again = FALSE, !.ev = NoEvent, !.job = 0]
      [] x.ev.type \in {"StoreRead", "StoreUnread"} /\ r = "sweep" -> Idle
      [] x.ev.type = "StoreUnread" /\ r = "start" -> [x EXCEPT !.at = "list", !.ev = NoEvent]
      [] OTHER -> [x EXCEPT !.at = "jobs", !.ev = NoEvent, !.job = 0]

\* The loop drops a message whose read was superseded.
ReaderDropped(r) ==
    LET x == reader[r]
    IN  x.at = "post" /\ x.stale /\ SetReader(r, afterPost(r, x)) /\ Reading /\ NoFault

ReaderTaken(r) ==
    LET x == reader[r]
        next == afterPost(r, x)
    IN  /\ x.at = "post" /\ ~x.stale /\ UNCHANGED caller
        /\ CASE x.ev.type = "StoreRead" ->
                   reader' = Superseded(r, next, x.store) /\ StepAlone(StoreRead(x.store))
             [] x.ev.type = "StoreUnread" -> SetReader(r, next) /\ StepAlone(StoreUnread(x.store))
             [] x.ev.type = "RecoveryDone" -> SetReader(r, next) /\ StepAlone(RecoveryDone)
             [] OTHER -> SetReader(r, next) /\ Deliver(x.job, x.ev, FALSE, {})

StartStep == StartRuns \/ StartList \/ StartJob \/ StartLeftover
SweepStep == SweepBegin \/ SweepHeld \/ SweepFind
ReaderStep(r) == ReadList(r) \/ ReadJob(r) \/ ReaderDropped(r) \/ ReaderTaken(r)

-----------------------------------------------------------------------------
(* Callers. *)

Serving == reader["start"].at = "done"

\* Submit: the job is written, and a store the machine has not read is read again
\* before the job is admitted.  The answer of a write may be lost: the caller hears
\* of a failure, and the sweep finds the job.
SubmitWrite(j) ==
    /\ Serving /\ reader["submit"].at = "idle"
    /\ store[j] = Absent /\ \A i \in Jobs : i < j => store[i] # Absent
    /\ SetStore(j, [state |-> "queued", attempts |-> 0])
    /\ UNCHANGED <<entry, recovering, unread, handle, effects, caller, run, ran>>
    /\ \/ NoFault /\ SetReader("submit", [Idle EXCEPT !.at = "written", !.store = StoreOf[j], !.todo = {j}])
       \/ Fault /\ UNCHANGED reader

SubmitCheck ==
    LET x == reader["submit"]
    IN  /\ x.at = "written" /\ Reading /\ NoFault
        /\ SetReader("submit", IF x.store \in unread THEN [x EXCEPT !.at = "list", !.again = TRUE]
                               ELSE [x EXCEPT !.at = "admit"])

\* The loop takes the submission up: the store is read now, unless reading it again
\* failed, and then the job is admitted.  These are two steps of the machine.
SubmitRead ==
    LET x == reader["submit"]
    IN  /\ x.at = "admit" /\ ~x.again /\ x.store \in unread /\ UNCHANGED caller
        /\ reader' = Superseded("submit", x, x.store)
        /\ StepAlone(StoreRead(x.store))

SubmitAdmit ==
    LET x == reader["submit"]
        j == firstOf(x.todo)
    IN  /\ x.at = "admit" /\ (x.again \/ x.store \notin unread) /\ UNCHANGED caller
        /\ reader' = Superseded("submit", Idle, x.store)
        /\ Deliver(j, [type |-> "Admitted", attempts |-> 0], FALSE, {})

SubmitStep == SubmitCheck \/ SubmitRead \/ SubmitAdmit

\* Cancel: reads the job, tells the machine, and looks again until the job ended
\* or the caller gives up.
CancelCall(j) ==
    /\ Serving /\ caller[j] = "idle" /\ store[j] # Absent
    /\ Trouble("cancel")
    /\ caller' = [caller EXCEPT ![j] = "ask"]
    /\ UNCHANGED <<entry, recovering, unread, handle, effects, reader, world>>

CancelRead(j) ==
    /\ caller[j] = "ask"
    /\ caller' = [caller EXCEPT ![j] = IF store[j].state \in FinalStates THEN "idle" ELSE store[j].state]
    /\ UNCHANGED <<entry, recovering, unread, handle, effects, reader, world, left>>

CancelPost(j) ==
    /\ caller[j] \in JobStates
    /\ caller' \in {[caller EXCEPT ![j] = c] : c \in {"ask", "idle"}}
    /\ UNCHANGED reader
    /\ Deliver(j, CancelEvent(caller[j]), FALSE, {})

-----------------------------------------------------------------------------
(* What happens beside the daemon. *)

Outside == UNCHANGED <<entry, recovering, unread, handle, effects, reader, caller, store, ran>>

CommandEnds(j) == run[j].proc = "executing" /\ (\E r \in Ends(run[j]) : SetRun(j, r)) /\ NoFault /\ Outside

\* A supervisor whose daemon crashed while it came up: it serves if it had said that
\* it is ready, and exits if it finds nobody to tell.
ComesUp(j) ==
    /\ run[j].proc = "starting" /\ ~ \E e \in effects : e.job = j /\ e.at = "up"
    /\ \E r \in {comeUp(run[j]), die(run[j])} : SetRun(j, r)
    /\ NoFault /\ Outside

Exits(j) ==
    /\ run[j].proc = "released" /\ ~ \E e \in effects : e.job = j /\ e.at = "forget released"
    /\ SetRun(j, die(run[j])) /\ NoFault /\ Outside

SupervisorDies(j) ==
    /\ run[j].proc \in {"parked", "executing", "finished"}
    /\ Trouble("death")
    /\ SetRun(j, die(run[j])) /\ Outside

\* A limit is longer than a command may execute.
TimePasses(j) ==
    /\ run[j].proc # "executing"
    /\ LimitPasses(j) /\ UNCHANGED <<shell, world, left>>

StartingUp == [r \in {"start", "sweep", "submit"} |-> IF r = "start" THEN [Idle EXCEPT !.at = "runs"] ELSE Idle]

\* Mutant: a new daemon goes on with the jobs of the last one.
NewDaemonRemembers ==
    /\ recovering' = TRUE
    /\ handle' = [j \in Jobs |-> FALSE]
    /\ effects' = {}
    /\ reader' = StartingUp
    /\ caller' = [j \in Jobs |-> "idle"]
    /\ UNCHANGED <<entry, unread, store, ran>>

\* The daemon is gone, with all it held, and is started again.
NewDaemon ==
    /\ Restart
    /\ handle' = [j \in Jobs |-> FALSE]
    /\ effects' = {}
    /\ reader' = StartingUp
    /\ caller' = [j \in Jobs |-> "idle"]
    /\ UNCHANGED <<store, ran>>

Crash ==
    /\ Trouble("crash")
    /\ NewDaemon /\ UNCHANGED run

Reboot ==
    /\ Trouble("reboot")
    /\ NewDaemon
    /\ run' = [j \in Jobs |-> reboot(run[j])]

-----------------------------------------------------------------------------
DaemonInit ==
    /\ Init
    /\ store = [j \in Jobs |-> Absent]
    /\ run = [j \in Jobs |-> NoRun]
    /\ ran = [j \in Jobs |-> 0]
    /\ handle = [j \in Jobs |-> FALSE]
    /\ effects = {}
    /\ reader = StartingUp
    /\ caller = [j \in Jobs |-> "idle"]
    /\ left = MaxTroubles

DaemonNext ==
    \/ \E e \in effects : EffectStep(e) \/ DeliverEffect(e)
    \/ StartStep \/ SweepStep \/ SubmitStep
    \/ \E r \in DOMAIN reader : ReaderStep(r)
    \/ \E j \in Jobs : SubmitWrite(j) \/ CancelCall(j) \/ CancelRead(j) \/ CancelPost(j)
    \/ \E j \in Jobs : CommandEnds(j) \/ ComesUp(j) \/ Exits(j) \/ SupervisorDies(j) \/ TimePasses(j)
    \/ Crash \/ Reboot

DaemonSafety == DaemonInit /\ [][DaemonNext]_vars

\* Effects, readers and the loop are goroutines that go on while they can; the
\* timers they wait for fire; commands end, as a job has a time limit, and so does
\* what the supervisors' processes do by themselves.
EffectKinds == {{"launch", "follow", "stop"}, {"signal"}, {"move"}, {"discard"}, {"retry"}, {"reexamine"}}

Fairness ==
    /\ \A j \in Jobs, kinds \in EffectKinds :
          WF_vars(\E e \in effects : e.job = j /\ e.kind \in kinds /\ (EffectStep(e) \/ DeliverEffect(e)))
    /\ WF_vars(StartStep \/ ReaderStep("start"))
    /\ WF_vars(SweepStep \/ ReaderStep("sweep"))
    /\ WF_vars(SubmitStep \/ ReaderStep("submit"))
    /\ \A j \in Jobs : WF_vars(CommandEnds(j) \/ ComesUp(j) \/ Exits(j)) /\ WF_vars(TimePasses(j))

DaemonSpec == DaemonSafety /\ Fairness

DaemonTypeOK ==
    /\ TypeOK
    /\ store \in [Jobs -> StoredJob \cup {Absent}]
    /\ run \in [Jobs -> Run]
    /\ handle \in [Jobs -> BOOLEAN]
    /\ left \in 0 .. MaxTroubles

\* A command only executes while its store has the job as running: no crash, fault
\* or late message makes the daemon record an end, or put the job back in the queue,
\* while the command still runs.
OnlyRunningExecutes == \A j \in Jobs : run[j].proc = "executing" => store[j].state = "running"

\* A command job's command begins at most once, and a check's or measurement's at
\* most once for each attempt its store counts.
RunsOncePerAttempt ==
    \A j \in Jobs : ran[j] <= IF j \in Rerun THEN store[j].attempts + 1 ELSE 1

\* Commands that execute at the same time fit the machine, and a measurement
\* executes alone.
Executing == {j \in Jobs : run[j].proc = "executing"}
MachineNotShared ==
    /\ Cardinality(Executing) <= Slots
    /\ \A j \in Executing \cap Exclusive : Executing = {j}

\* A supervisor that has the outcome of a command is let go of only once the store
\* has the job's end.
OutcomeKept ==
    [][\A j \in Jobs : run[j].proc = "finished" /\ run'[j].proc = "released"
                         => store[j].state \in FinalStates]_vars

\* A job is recorded as succeeded only if its command ended by itself, and as lost
\* only if nothing of its run can still tell how it ended.
EndsTruthfully ==
    [][\A j \in Jobs : store'[j].state # store[j].state =>
         /\ store'[j].state = "succeeded" => run[j].end = "done"
         /\ store'[j].state = "lost" => ~Alive(run[j])]_vars

\* Every answer the machine waits for is owed to it by an effect: a job is launched,
\* followed or stopped by an effect while the machine has it so, and by one alone
\* until its end is recorded; a move or a discard it waits for is under way or will
\* be retried, an armed timer will fire, and a job in doubt is looked at again.
Under(j, kind) == {e \in effects : e.job = j /\ e.kind = kind}
AnswersOwed ==
    \A j \in Jobs :
        LET c == entry[j]
            only(kind, phase) ==
                c.phase = phase => /\ Under(j, kind) # {}
                                   /\ store[j].state \notin FinalStates => Cardinality(Under(j, kind)) = 1
        IN  /\ only("launch", "launching") /\ only("follow", "running") /\ only("stop", "stopping")
            /\ c.armed => Under(j, "retry") # {}
            /\ c.phase \in {"settling", "cancelling"} => Under(j, "move") # {}
            /\ c.phase = "unrecorded" => c.waiting \/ Under(j, "move") # {}
            /\ c.phase = "discarding" => c.waiting \/ \E e \in Under(j, "discard") : e.flag
            /\ c.phase = "indoubt" /\ ~c.parked => c.waiting \/ Under(j, "reexamine") # {}

\* Spawn finds nothing of an earlier run, so its record overwrites none.
SpawnFindsNoRun ==
    \A e \in effects : e.kind = "launch" /\ e.at = "spawn" => run[e.job] = NoRun

\* Every job in a store ends: whatever the machine was told too late, lost or kept in
\* doubt, it comes back to.
JobsEnd == \A j \in Jobs : store[j] # Absent ~> store[j].state \in FinalStates

\* What launch says of a crash: the run it leaves of a job that is still queued is
\* discarded by the next start.
CrashedLaunchDiscarded ==
    \A j \in Jobs :
        recovering /\ store[j].state = "queued" /\ run[j] # NoRun
            ~> run[j] = NoRun \/ store[j].state # "queued"

\* What Step says of its order with OneAtATime: of the queued jobs that may start,
\* the one submitted first does.
OldestFirst ==
    [][\A i, j \in Jobs :
         /\ entry[j].phase # "launching" /\ entry'[j].phase = "launching"
         /\ entry'[i].phase = "queued" /\ ~storeBlocked(entry', unread', StoreOf[i])
         => j < i]_vars

\* Every step of the daemon is a step of the machine, or none: what holds of the
\* machine with any events holds of the daemon.
StepsOfMachine == Spec
=============================================================================
