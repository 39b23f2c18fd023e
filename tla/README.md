# Verification of the vibesys job daemon, runner loop and run log

vibesys runs coding agents that optimise systems.  This project models three of its
cores, checks them with TLC and proves theorems about them with TLAPS:

* the **job daemon** of `vibesys-cli` (Go, `cli/`).  Whatever an agent wants to run on a
  machine (a command, a check, a measurement) is a *job*.  The daemon queues jobs, decides
  what may run beside what, starts a *supervisor* process for each that outlives the daemon,
  follows it, records the end of the job in a *store*, and takes everything up again
  after a crash or a reboot;
* the **runner loop** of a run (Python, `libs/vs-runtime`, `libs/vs-core`).  A search asks for
  *steps* (set a workspace up, take a turn, submit a measurement, snapshot, close), a pure core
  decides from the run's log what to do with each, and the loop performs them with retries,
  limits, pauses, stops and relaunches;
* the **run log** itself (Python, `libs/vs-runlog`): a file written by two threads through one
  appender, synced by a third, with keyframes, a head and a cache of its fold, that
  has to survive crashes and losses of power.

## The system and its parts

| part | where | here |
| --- | --- | --- |
| job machine: a pure `Step(state, event)` with the scheduling it ends in | `cli/internal/lifecycle/machine.go` | `Lifecycle` |
| settling: what an outcome or a death means for a job; the transitions a store applies | `cli/internal/lifecycle/settle.go`, `cli/internal/core/transition.go` | `Settle` |
| supervisor and its host: process, run directory, record | `cli/internal/supervisor` | `Supervisors` |
| daemon loop, effects, handles | `cli/internal/app/{app,exec}.go` | `JobDaemon` |
| start, recovery, sweep, superseded reads | `cli/internal/app/{recover,generations}.go` | `JobDaemon` |
| submit and cancel | `cli/internal/app/api.go` | `JobDaemon` |
| scheduler | `cli/internal/schedule` | its answer for one placement, in `Lifecycle` |
| step rules of the run core | `libs/vs-core/src/vs_core/{_decide,_step_attempts,_run_park,_run_pause,_scope_order}.py` | `StepLedger` |
| runner loop, its flights and the runner's contract | `libs/vs-runtime/src/vs_runtime/{_step_loop,_step_runner}.py` | `StepLoop`, `StepContract` |
| inputs and start of a run | `libs/vs-runtime/src/vs_runtime/{_core_inputs,_step_start}.py` | `StepLoop` |
| run log writer | `libs/vs-runlog/src/vs_runlog/{_file,_atomic,_framing}.py` | `RunLog` |
| appender and step log | `libs/vs-runlog/src/vs_runlog/_confirmed_log.py`, `libs/vs-runtime/src/vs_runtime/_run_log_step_log.py` | `RunLog` |
| fold cache | `libs/vs-runlog/src/vs_runlog/_fold_cache.py`, `libs/vs-runtime/src/vs_runtime/_fold_keeper.py` | `RunLog` |
| event journal mirrored into the log | `libs/vs-runtime/src/vs_runtime/_event_journal.py`, `src/vibesys/run/{event_journal,runlog_tee}.py` | `RunLog` |
| leases, file store, environments, flows, git, client, wire | `cli/internal/...` | a refused launch, a map, an outcome; otherwise not modelled |
| orchestrator, gateway | `orchestrator/`, `gateway/` | not modelled |
| the areas of the run core, executors, searches | `libs/`, `src/vibesys` | not modelled |
| clients, SDK, evaluators, protocol, website | `clients/`, `sdk/`, `resources/`, `proto/`, `website/` | not modelled |

**The job daemon.**  The loop takes one message at a time, steps the
machine, and starts one *effect* (a goroutine) for every request the machine
makes.  An effect calls the store and the supervisor, with retries, and answers
with one message.  Readers (start, sweep, submit) list a store and tell the
machine of every job with what they found of its run.  Nothing else changes the
machine.  What a daemon loses when it dies is the machine, the effects, the
handles and the readers; stores, run directories, records and supervisors stay,
and a reboot takes the directories and the supervisors too.

**The runner loop.**  The main task reads the state (the fold of the log), hands core's actions to
*flights*, one task per step, and waits for an input, a flight's end or a timer.  A flight
owns an attempt: it clears what an earlier attempt left, records the start, calls the
runner, and records how the attempt ended.  Between any two awaits the others run, so a
flight records with what it was told long before.  What an attempt does may outlive its call, its
flight and the host; a relaunch opens an *epoch*, which ends the earlier one's attempts.

**The run log.**  Core's records and the display's events are numbered by one appender
(`ConfirmedLog`) under its lock.  The writer's committer thread syncs a batch, publishes
keyframes and the head, and tells who waits.  The step log keeps a cache of the fold, which the
next process uses if it still is the fold of the log's own first records.

## Modules

**`Settle`** is pure: `CanMoveTo`, `Applies` and `Apply` are the store's state
machine, `SettleOutcome` and `CutOff` decide which transition is offered to it.

**`Lifecycle`** is the machine.  Its state is an `Entry` for each job (with the
fields of `entry` in the code), `recovering` and `unread`.  Every handler of
`machine.go` is an operator `On...` from the job's entry to a new entry and the
requests to the shell; every event is an action that applies its handler and
then, as `Step` does, the scheduler.  The module leaves the shell open: any event
may come at any time, late or twice, so its properties hold whatever the shell
does.

**`Supervisors`** is one run as functions of it: what a look at it finds
(`Probe`), the steps of a spawn and of a removal, and what start, cancel,
release, death and reboot do.

**`JobDaemon`** composes them.  An effect is a record with a step `at` which it has reached;
`effectOf` makes it from a request, one action per step moves it on, and
`DeliverEffect` is the loop taking its answer up.  `reader` holds the three
readers, `caller` the callers of Cancel.

| JobDaemon | code |
| --- | --- |
| `Deliver`, `AfterStep`, `keepHandle` | `loop`, `keepHandle`, `dropLetGo` (`app.go`) |
| `LaunchRead` ... `LaunchRecord` | `launch`, `prepare` (`exec.go`), `Spawn` (`host.go`) |
| `CallCancel`, `FollowStart`, `FollowTell`, `Wait` | `follow`, `followOnce`, `pump`, `signalCancel`, `stopJob` |
| `MoveRecord`, `ReleaseRun`, `Forget`, `Unrecord` | `move`, `discard`, `release`, `Forget` (`host.go`) |
| `ReexamineLook`, `ReexamineFind` | `reexamine`, `look`, `lookInStore` |
| `StartRuns` ... `StartLeftover` | `Start` (`recover.go`) |
| `SweepBegin`, `ReadList`, `SweepHeld`, `ReadJob`, `SweepFind` | `sweepOnce`, `readAgain`, `sweepStore`, `recoverScope` |
| `Superseded`, `ReaderDropped` | `advance`, `observed` (`generations.go`) |
| `SubmitWrite` ... `SubmitAdmit`, `CancelCall` ... `CancelPost` | `Submit`, `Cancel` (`api.go`) |
| `CommandEnds`, `ComesUp`, `Exits`, `SupervisorDies`, `TimePasses`, `Crash`, `Reboot` | the processes and the machine around the daemon |

A *fault* is a call that fails for as long as its effect retries it; where a
call changes something, a fault may leave it done or not done.  Two kinds of failed call are
troubles of their own.  A *disk* fault is a run directory that cannot be made or a record that cannot be
removed: either leaves a record alone, which proves nothing until a reboot (finding 2).  A store whose list
of jobs cannot be read is *unlisted*, because such a store is read
again as a whole later (finding 1).  `Troubles` says which of crash, reboot, death, fault, disk,
unlisted, cancel and idle sweep may happen and `MaxTroubles` how many in all.

**`StepLedger`** is what core knows of the steps of a scope: every record is an action, with the
`settle_park` and `settle_end` that core ends every record with (`Settle`).  `EndReason`, `StopReason`,
`SettledAs` and `RunDue` are what `decide` says of a step.

**`StepLoop`** extends it with the tasks, the far side and the host.

| StepLoop | code |
| --- | --- |
| `TurnDispatches`, `TurnTicks`, `TurnEnds`, `TurnParks` | `_turn`, `_dispatch`, `_park` (`_step_loop.py`) |
| `Timers`, `Heard`, `Passes` | `_wake`, `_wake_at`, `next_input` |
| `ClearAnswers`, `ClearFails`, `BackoffEnds`, `ClearedOn` | `_clear`, `_clear_once`, `_clear_then_finish` |
| `StartOn`, `Start` | `_attempt`, `_record_lost`, `_record_started`, `_finish_unstarted` |
| `RunFinishes`, `RunCancelled`, `RunRaises`, `FinishAttempt`, `FailedOn` | `_run_bounded`, `_finish_attempt`, `_finish_without_result` |
| `ConcludeOn`, `Outlived`, `AliveOn` | `_conclude`, `_end_alive` |
| `CallHeld` | a call past its grace, `StallBoard` |
| `Crash`, `Relaunch`, `WorkEnds` | the host and the work around it; `start_run` |

**`StepContract`** is what the loop promises, in seven actions: work of a step is alive at most once
and never after its result, a result is given once and only over work that is gone, unless an
ending run gave up on it, and the end is published over results.  `StepLoop` implements it with the work
alive on the far side as its work (`KeepsContract`).

**`RunLog`** has the disk (`log`, `synced`, `head`, `frames`, `cache`), the writer under its condition
(`w`), the committer (`c`), the appender (`confirmed`, `lock`), the journal (`journal`,
`sink`), the loop's thread (`loop`), a worker thread (`show`) and the cache's keeper.  An action is what a
thread does between two points where it waits, or one call that reaches the disk, which may
fail.  A thread waiting on the condition goes on only after it was notified (`woken`).

**`MCLifecycle`**, **`MCJobDaemon`**, **`MCStepLoop`** and **`MCRunLog`** give the constants their values.
Definitions marked "Mutant" are not part of the models: each is a definition
changed the way a slip in the code would change it, kept to see that the
properties notice.

### Abstractions

The job daemon:

* Texts, times, exit codes, results and output are left out.  A job's time limit
  is `ahead` or `passed`.
* Work is one slot of one placement, alone or shared, which is what the default
  scheduler has (`OneAtATime`, `DefaultDemand`).  Jobs are numbered in the order
  they are submitted; between two jobs whose time of submission the machine does not
  know, the code uses the order it heard of them and the model the number.
* A store is a map from job to state and attempts.  In `JobDaemon` no job is
  given up and no store is forgotten; both are events of `Lifecycle`.
* `effects` is a set, so two effects that are alike in every respect are one.
  Their second answer would be a late repeat, which `Lifecycle` allows and the
  machine's own properties cover.
* A submission that finds its store unread is two steps of the loop here
  (`StoreRead`, `Admitted`) and one message in the code: the model allows more.
* A handle is a flag: a handle to an older run of the same job is not told from
  one to the current run.

The runner loop:

* One scope; five kinds of step stand for the combinations of what core asks of a kind (its effect on
  files, what a close, an end, a pause and an interruption do to it).  `turn` is a registered
  turn that asks to be cancelled if interrupted.
* Times are the facts `decide` compares: which limits and backoffs have passed, and whether the
  drain deadline has.  A pause's capped limits are part of "passed".  The loop's own timer for an attempt is the limit
  it started with, so for a step whose limit a drain has shortened since (`DrainCaps`) the timer may be set or not.
* A step's own result is one the search can use (`finished`) or not (`failed`, which stands for `Failed` and for an
  observation that did not succeed); a step that waits for the latter does not run.
* What core asks for by itself (the work that follows from work already admitted, while a run drains or closes) is
  `StillAsked`: any step of a kind that core asks for then, at any time.
* Turn permits and sessions, steps core ends by itself (`_stopped_by_core`), lifting a stop, and resuming
  within the process are left out.  A relaunch of a paused run resumes it, as the start does; the epoch
  and the resume are one action.
* `AttemptInterrupted` covers a pause and a raise; an orderly shutdown counts as a pause does.
* A close never fails to clear in production; the model lets it, as the runner's contract does.
* A flight is removed when it ends, where the code reaps it in the next turn.

The run log:

* Records are told apart by kind (core's, shown, or a boundary) and process; a fold is represented by
  the records it is of, so a digest is that too.  Dates, encodings and contents are left out.
* A loss of power leaves a prefix of what was written, at least what was synced, and
  perhaps half a frame.  A failed sync leaves the synced records as they were (`FileSync`).
  A rename is atomic and durable once `publish` returned; one that failed may have happened.
* The park's event is one boundary record; an event of the worker thread
  is one record or several, with the appender's lock let go between them.  A transaction may hold several records: the search's answers
  are appended under the same lock before the cache is kept.
* A write that fails leaves half a frame or a whole one.  A log that does not declare its run has no head, so the head
  may stay unwritten until it was written once (`Headlines`).
* The announcer is always there, as it is in production.  The lock file, the creation of the file
  and a log damaged in its middle are left out.
* The worker thread stands for any thread that emits events (the journal's lock lets one in at a
  time); `ShowCommits` is the commit of a control's outcome.

## Runs

Times are for two workers.

| run | instance | shows |
| --- | --- | --- |
| `lifecycle` | two jobs of one store, one of them alone on the machine, two slots, every event in every order (7,370 states) | `Coherent`: what the handlers rely on about an entry; `DecidedEndStands`: an end, once decided, is not changed by a late or repeated event; `StartsAlone`: a launch, and the taking up of a parked job, waits for recovery and for a machine that it fits beside those who hold it, nobody being beside a job that claims it alone, and a launch for a readable store; `NoStranded`: the machine is not idle while a queued job could start |
| `daemon_one` | one command job, any three of crash, reboot, death, fault, disk fault, cancel, idle sweep (987,041; 1 min) | `OnlyRunningExecutes`, `RunsOncePerAttempt`, `AnswersOwed`, `EndsTruthfully` |
| `daemon_two` | a command job and a measurement of two stores, one crash, death, fault, disk fault, unlisted store or cancel (179,277) | `MachineNotShared`: a measurement executes alone; `SpawnFindsNoRun`; `OutcomeKept`: no outcome is let go of before it is recorded |
| `daemon_live` | one measurement, which may run again, any two of fault, death, reboot, cancel, idle sweep (140,754) | `JobsEnd`: every job in a store ends; `RunsOncePerAttempt`: a job that is run again runs once per attempt; `StepsOfMachine`: every step of the daemon is a step of `Lifecycle` or none |
| `daemon_read_again`, `daemon_crashed_launch`, `daemon_order` | small | findings 1 to 3 |
| `step_scopes` | a job; a job and a close; a setup and a turn that waits for it; a setup and a snapshot; a snapshot and a watched turn; one crash or pause, one retry (946,592; 2 to 3 min) | `KeepsContract`; `NoRefusal`: no flight appends a record the fold refuses; `RetryBound`, `ChargedForFailures`; `ParksClean`; `SnapshotAlone`; `ClosingHasWork`, `DrainWaits`; `EndIsClean`; `ResultSticks` |
| `step_live` | a job; a close; a setup and a snapshot; one crash or pause (76,242; 2 to 3 min) | `CancelEnds`, `PauseRests`, `StepsEnd`, each under the part of the environment's good will it needs and no more |
| `step_drain` | one turn | finding 4 |
| `run_log` | two records (and those a transaction adds), three processes (471,056; 3 min) | `Reopens`, `ToldTruth`, `FramesTrue`, `DurableStays`, `PrefixCurrent`, `FoldIsLog`, `CallsReturn`, `StagedCommits` |
| `run_log_locks` | three records, one process | finding 5 |

The runs of the daemon and of the log do not check for deadlock: a daemon whose jobs have all
ended, or a log that was closed the last time the bound allows, has nothing to do.  That the daemon
never stops earlier is what `JobsEnd` says, and that no thread does what `CallsReturn` says.

**Bounds.**  One job meets every three troubles at every three steps, and with two attempts the
second and the third can meet the last attempt.  Two jobs are the least that can share a machine or wait
for each other.  The second job of `lifecycle` meets no troubles of its own (`OneTroubled`), since what it
shows is what the first one's troubles do to it; the theorems have no bounds at all.
What the daemon promises about runs and stores does not survive finding 1: an unlisted store and two
failed calls break `OnlyRunningExecutes`, and with other troubles beside it `SpawnFindsNoRun`,
`EndsTruthfully`, `OutcomeKept` and `MachineNotShared`.  So the three troubles of `daemon_one` are all but that one, and
`daemon_two`, which has it, has one trouble in all: a store is read again there, but no call fails
while it is.

In `step_scopes` the rules of a scope relate two steps at a time, so the pairs are those
between which a rule exists.  A retry limit of one lets a step fail, be retried and be given up;
one crash or pause can come at every step of both attempts.  `MaxTroubles` counts crashes and pauses
together; failing, late and held calls, clears that fail, stops and limits are not bounded.  In
`run_log`, two records let one be synced while the other is staged, a boundary ask for a
checkpoint and every second record cause one; a record in progress may go past the bound.  Three
processes are needed for a cache of records that were lost: one writes it, a second appends another
record in their place, a third judges it.  The first process keeps the cache at every record, the
others at every second.

**Fairness.**  Daemon: goroutines run while they can, and what they wait for is bounded: calls and
waits have time limits, timers fire, and a command has a limit after which its supervisor ends it.  So
each effect of a job, each reader and each process is weakly fair.  Callers are not: nobody has to
submit or cancel.  Crashes, deaths, reboots and faults are bounded by `MaxTroubles` and not
fair.  Crashes and disk faults are not in the liveness run because of the second finding, which leaves a job in
doubt until a reboot, nor are unlisted stores because of the first, which may leave a job running for good
in the store.  A store read twice at once, and taken up in the wrong order, is put right by the next sweep, so no
property here tells it from the right order.

Runner loop: the main task and the flights are tasks of an event loop and their sleeps end
(`Fairness`); a host that went is launched again.  What the runner's calls do is not the loop's
to promise, so each property names what it needs of them: `PauseRests` nothing; `CancelEnds` that calls
heed their cancel, clears return, if only with a failure, and closes, which a cancel does not
stop, end (`ClearsReturn`, `CallsObey`, `ClosesEnd`); `StepsEnd` that
calls end and clears are answered in the end (`ClearsAnswer`, `CallsEnd`).  Both assume that
work that was attached to ends while it is (`AttachEnds`).  Time limits are not fair: no property relies on one.

Log: threads are scheduled, a call to the disk returns or fails, and the clock runs.  Nobody has to
append, commit or crash.  `CallsReturn` excepts the state of finding 5, in which two threads
wait for each other.

## Findings

1. `daemon_read_again`, `OutcomeKept`: reading a store again (`readAgain`,
   `recoverScope`) takes the list of the store's jobs and looks at each job's run
   later.  A job listed as queued while its launch was under way, and in doubt when
   the message is taken up, is recovered as queued with a live run, and the run is
   discarded: a finished outcome is lost and the store shows the job as running, for good.
   The comment on `Start` says of a store that cannot be read that "a run of it is
   not released and its outcome is not discarded".  With two stores the same history lets a
   measurement start while the command still executes: `MachineNotShared` does
   not hold in the instance of `daemon_two` with a fault beside the unlisted store.  With one store, a job
   in doubt while its command executes is put back in the queue by what the list said, and a launch of it that
   cannot be prepared records it as failed: `OnlyRunningExecutes` does not hold in the instance of
   `daemon_one` with the unlisted store as one of the three.
2. `daemon_crashed_launch`, `CrashedLaunchDiscarded`: a daemon that dies between
   a run's record and its directory (`Spawn`) leaves a record of this boot without a
   directory.  A probe reports it as unknown, so the job stays in doubt and its
   store's other jobs wait, until the machine restarts.  The comment on `launch`
   says a crash leaves a parked supervisor "which the next start discards".
3. `daemon_order`, `OldestFirst`: `place` takes a job's time of submission only
   with the first look at it; a job first met while its store was away counts
   as the oldest from then on, where `Step` promises "the oldest queued first".
4. `step_drain`, `ParkDueIsSeen`: `decide` returns a `Wait` with the next time due only when it has
   nothing else to do.  While a step past its limit is being cancelled, every turn has that
   cancel, the loop waits without a timer for the pause's drain deadline, and
   `CoreInputs` has none either.  The deadline passes and the run stays draining until the
   step's flight ends, which a call that ignores its cancel may put off for good.  The
   module's comment says "whether a run is parked never depends on an unrelated step ending
   later".
5. `run_log_locks`, `LocksNeverCross`: `_record` announces a park inside a transaction, that is
   under the appender's lock, and the announcement is an event, which takes the journal's
   lock.  A worker thread that records an event holds the journal's lock while its mirror waits
   for the appender's.  Both threads wait for ever, and the run neither parks nor ends.  The
   appender's test has the projection and the loop on different threads and asserts that both come to an
   end; it has no journal between them.

Two comments that disagree with the code and that no run is about: `run_step_loop` says unfinished
attempts of a relaunched run "are charged as a crash", where `epoch_opened` does not count those a
parked run still held (the model follows the code); and `FoldKeeper.keep` says that after a write that failed "the next
record tries again", where the failed write counts as written and the next try comes an
interval later.

## Proofs

`JobDaemonProofs` proves of the machine, for any jobs, stores, kinds, slots and number of attempts, from
the assumptions that jobs are natural numbers and finitely many, measurements are
among the kinds that are rerun, and there is at least one slot and one attempt:

* `MachineCoherent`: `Spec => [](TypeOK /\ Coherent)`.  The two are inductive together
  and neither alone: the attempts stay in their type because a settlement that
  queues a job again was decided with an attempt left (`Coherent`), and spawn
  failures because a job that used them up is settled as failed.  One lemma per
  handler shows that it takes a good entry to a good entry; one lemma shows
  that the scheduler does; `StepGood` combines them for every event.
* `MachineTyped`: `Spec => []TypeOK`, the part of it that `lifecycle` checks by that name.
* `EndsStand`: `Spec => DecidedEndStands`, from a lemma per handler on entries with
  a decided end, and the fact that the scheduler does not touch them.
* `LaunchesAlone`: `Spec => StartsAlone`.  A job that turns launching, and a parked one that is taken up, was a
  candidate and may start.  The last of those that start in a step was judged beside all the others and beside
  those who held the machine before, so what it was judged by is what the machine holds after the
  step (`StartsFit`).
* `NobodyStranded`: `Spec => []NoStranded`.  When a step leaves a candidate and nobody
  owes the machine anything, the first candidate could have started.

and of the daemon around it, for any kinds of trouble and any natural number of them:

* `DaemonRefines`: `DaemonSafety => StepsOfMachine`, where `StepsOfMachine` is `Spec`.  The
  machine accepts any event at any time, so the refinement rests on what an event
  *is*: an effect or a reader may only post a message about one of the jobs, with a
  finding, a presence, an outcome, a cause or a number of attempts the machine
  knows.  Messages are made early and taken up late, so the inductive invariant
  `ShellInv` speaks of everything they are made from: the types of stores and
  runs, the `find` steps that carry a presence on to the store, the lists
  readers hold, and the runs the start keeps.  `DeliverIsEvent` turns a message into its
  event; `HandlerAbout` shows that requests are about the event's job, so the
  effects they start are sound again; one lemma per kind of step closes it.

`DaemonTheorems` carries this over to the daemon:

* `DaemonMachine`: the machine's results hold of the machine inside the daemon.
* `DaemonTyped`: `DaemonSafety => []DaemonTypeOK`.  Its substance is `RecordType`: what a
  store has after a record is a job with a state of the state machine and an attempt
  within the limit, whatever settlement it was offered.

and proves what the daemon promises about commands, for any jobs, stores, kinds and slots and any number of crashes,
reboots, deaths of supervisors, failed calls, lost answers and cancels, from one more assumption, that the list of a store's
jobs can always be read (`"unlisted" \notin Troubles`).  Finding 1 is why: with an unlisted store most
of these are false.

* `ExecutesOnlyRunning` (`OnlyRunningExecutes`), `BeginsOncePerAttempt` (`RunsOncePerAttempt`), `SpawnOverwritesNone`
  (`SpawnFindsNoRun`), `CommandsFitMachine` (`MachineNotShared`) and `AnswersComing` (`AnswersOwed`), the invariants
  that the `daemon` runs check by those names;
* `EndsAreTrue` (`EndsTruthfully`) and `OutcomesKept` (`OutcomeKept`), about what a step may record and release;
* `DaemonKeepsInv`: `DaemonSafety => []DaemonInv`, the inductive invariant they all follow from.

None of them is inductive.  A command that began twice, say, is the end of a long story: a look at a run that was taken
before a launch went on, a record whose answer was lost, and a machine that acted on both.  `DaemonInv`
(its parts are defined in `DaemonRuns`) says at every place of every effect and reader what it may still rely on:

* `WorldStands`: a stored job, its run and the number of times its command began agree; a command executes or has
  ended only after its record says that its start was sent, and a job whose record does not say so has begun no oftener than
  in the attempts before.
* `JobStands`: while the store does not have a job's end, the entry of the machine fits store and run
  (`EntryStands`), a decided end is a true one (`EndingStands`), exactly one effect does what the phase waits for
  (`MainStands`), and what it or a look has to tell is still true when the machine hears it.  That is the heart of
  it: a look's answer stays true since nothing but a launch or a follow changes a run in a way that matters, and
  neither is under way beside a look, unless the job was cancelled (`LookFits`).  Once the store has the
  end, many effects of one job may be left over, and all that matters is that none can begin its command (`Tame`).
* `StartStands` and `SweepStands`: the reader at the start finds the jobs it has yet to tell of as they were when it listed them,
  and nothing is under way for them; a running job that the sweep meets is over or held by the machine.
* `CallersStand` and `Calm`: only a job that was submitted is admitted or cancelled, no store is unread, and the
  daemon serves once it has started.
* `LiveFits`: the commands that execute *or that a launch or a follow may still begin* fit the machine.  Only with the second part
  is it inductive: a slot is taken when a launch is asked for, and a command of an earlier daemon keeps its slot while it is in
  doubt until the hold passes, which the model lets happen only when the command no longer executes.
* `OwesInv`: every effect, timer and look that an entry waits for is under way.
* `Inv` and `ShellInv`, the machine's invariant and the refinement's.

`DaemonRunLemmas` holds what the rest shares.  `DaemonMachineProofs` takes the handlers of the machine one by one, and the scheduling
after them; `DaemonReaderProofs` the messages that the loop takes up, the readers, a crash and a reboot;
`DaemonEffectProofs` each step of each effect, the supervisors and the clock, and the
two action properties.  Each step touches one job at most beside the scheduler, so a lemma each shows
that the other jobs' parts of the invariant do not see it.

`StepLoopProofs` has three parts.  The first proves of the ledger, for any finite set of steps, any kinds and dependencies and any retry
limit: `RetryBounded`, `WaitsForSomething` (`ClosingHasWork` and `DrainWaits`), `EndsClean` and
`ResultsStick`.  `LedgerInv` is inductive: an attempt whose host died counts as uncharged until it is settled, so
the bound must say that an unsettled row has room for one charge more (`RowOK`); a dispatched step
has a running attempt; and a run is closing or terminal exactly when its finish is
committed (`RunOK`).  The lemma `Settled` says once what `settle_park` and `settle_end` leave of any
record, and one lemma per record applies it.

The second proves that the loop only ever does to the fold what the ledger allows:

* `LoopRecords`: `Spec => LedgerSpec`.  The ledger takes results and interruptions of known kinds
  only, and a flight records with the reason or the result it was given many steps before.  The
  invariant `FlightsOK` says that where a flight will record with one it has one: a concluding
  flight keeps a result to settle with, and an attempt that attaches to work that outlived it has
  a reason that is not a pause.
* `LoopSafe` and `LoopResultsStick` carry the ledger's theorems over to the loop.

The third proves what the loop promises of flights and work, for any steps, kinds, dependencies, retry limit
and number of crashes and pauses, from one inductive invariant, `LoopInv`: `LoopTyped`, `NeverRefused`
(`NoRefusal`), `ChargedTruly` (`ChargedForFailures`), `ParkedClean` (`ParksClean`), `SnapshotsAlone` (`SnapshotAlone`), and

* `LoopKeepsContract`: `Spec => KeepsContract`, that `StepLoop` implements `StepContract`.

None of the properties is inductive, because a flight decides at one await and records at a later one.  `LoopInv` ties
each flight to the attempt it reports (`FlightStands`: by where the flight is, whether its step has an attempt
running and that it is the flight's, and no attempt runs without a flight while the host is up).  It says what work is alive
(`WorkStands`: none before the first attempt, none when an attempt is about to start unless it is adopted, none after
a result unless the run gave up on it), what a step is charged against its failures at each of those places
(`ChargeStands`), and what a process that parked left (`LoopStands`).  That no record was refused is
part of it: every other conjunct follows a record only because the record was taken.

`RunLogProofs` proves of the log, for any number of records and processes and any intervals:

* `LogDurable`: `Spec => [](ToldTruth /\ FramesTrue /\ Reopens)`.  The inductive invariant `LogInv` adds that
  the writer's number is the length of the file and, by where the committer stands in its batch, that the
  batch is synced before anything is published of it (`BatchInOrder`).  The steps of both threads
  are shown once to be steps that only append, ask or wait (`ThreadStep`), and the
  committer's, the crashes and the recovery are taken one by one.
* `DurableKept`: `Spec => DurableStays`, from the same invariant.
* `LogReopens` and `KeyframesTrue`: `Reopens` and `FramesTrue` by themselves; `LogTyped`: `LogTypeOK`, the types and
  the order of the writer's counts.
* `PrefixIsFile`: `Spec => []PrefixCurrent`, and `FoldOfLog`: `Spec => []FoldIsLog`.  Both rest on a second invariant,
  `AppendInv`, about the appender: a thread holds its lock exactly at the places it should (`Owners`), nothing is held
  between two processes (`Down`), the prefix in memory is a first part of the file, all of it while a record is
  pending, and otherwise less than all of it only when the writer takes no more (`PrefixOK`), and the keeper's fold is that of a
  first part of the log by the rules in force, and of confirmed records when the cache is due (`KeeperOK`).
  A write that failed over a record that got into the file is why the numbers given may be one behind the file, but only
  when the writer has failed and takes no more.
  The lock is what makes it inductive: between the read of the prefix and its extension no other thread appends.

Model-checked only: liveness (`JobsEnd`, `CancelEnds`, `PauseRests`, `StepsEnd`, `CallsReturn`, `StagedCommits`), since the prover
does no fairness.  With a store whose list cannot be read the daemon's promises about commands are not theorems:
`daemon_read_again` refutes `OutcomeKept` there.

## What is not modelled, and why

The repository has some four hundred thousand lines, most of them Python, and the modelled parts are
a small share of them.  They are the parts with the concurrency and the recovery in them; what
surrounds them is mostly of three kinds.

* *Executors* (`vs-sandbox`, `vs-slurm`, `vs-agent`, `vs-evaluation`, `vs-project`, most of `vs-runtime`) drive containers,
  clusters, agents and services.  To the runner loop each is a call that returns, raises, is held or is
  adopted, and `StepLoop` lets each happen at any time; what happens inside is theirs.
* *The areas of the run core* (attempts, sessions, evaluation, settlement) and the *searches* on it are sequential:
  one pure step function whose size is in its data, with types, validators and property-based tests of its own.  A model of
  its statuses alone would say little that its types do not; a model of its data would be a copy of it.
* *Generated code, conversions, prompts, user interfaces, evaluators, scripts and the website* have no state that
  others depend on.

Of the Go programs: leases between daemons and the file store are a refused launch and a map here, so
nothing is said about two daemons or about a crash within a store's commit; the orchestrator and the
gateway are programs of their own beside the daemon.  `vs-async-ops` is a library that nothing
in the engine uses yet.  Numbers of bytes of output and the contents of results are
not modelled, so nothing is said about output being complete.
