----------------------------- MODULE DaemonRuns -----------------------------
(***************************************************************************)
(* What holds of the daemon between any two of its steps, for any jobs,    *)
(* stores and number of troubles.                                          *)
(*                                                                         *)
(* ShellInv is about the shape of effects, readers and stores: what the    *)
(* daemon tells the machine is an event of the machine.  It holds with     *)
(* every kind of trouble.                                                  *)
(*                                                                         *)
(* RunsInv ties every job's entry in the machine, its effects, its store,  *)
(* its run and the readers together, while every list of a store's jobs    *)
(* can be read.  It says what each effect may rely on where it stands:     *)
(* what a launch finds and leaves, that what a look, a follow or a stop    *)
(* has to tell is still true, and that a job whose store has its end has   *)
(* nothing left that could begin its command.  LiveFits says that the      *)
(* commands that execute or may still begin fit the machine, and OwesInv   *)
(* that every effect an entry waits for is under way.                      *)
(***************************************************************************)
EXTENDS JobDaemon

-----------------------------------------------------------------------------
(* Entries of the machine. *)

Good(c) == c \in Entry /\ CoherentEntry(c)

AllGood(en) == en = [j \in Jobs |-> en[j]] /\ \A j \in Jobs : Good(en[j])

-----------------------------------------------------------------------------
(* Messages, and the shape of the effects and the readers that carry them. *)

PlainTypes == {"Launched", "LeaseRefused", "StopFailed", "CancelFailed", "MoveFailed",
               "DiscardFailed", "Discarded", "Requeued", "RetryDue", "Closed"}

\* A message about one job that is an event of the machine.
JobMessage(ev) ==
    \/ ev.type = "Admitted" /\ ev.attempts \in 0 .. MaxAttempts - 1
    \/ ev.type = "Recovered" /\ ev.f \in Finding /\ ev.p \in Presence
    \/ ev.type = "CancelAsked" /\ ev.state \in JobStates
    \/ ev.type \in {"LaunchFailed", "FollowFailed"} /\ ev.cause \in Causes
    \/ ev.type = "Finished" /\ ev.o \in Outcome
    \/ ev.type = "SupervisorLost" /\ ev.proof \in Proofs /\ ev.start \in StartKnown
    \/ ev.type \in PlainTypes

\* Requests that are all about one job.
About(j, reqs) == \A q \in reqs : q.job = j

\* An effect is about a job, and answers with an event of the machine.
EffectOK(e) ==
    /\ DOMAIN e = {"kind", "job", "at", "h", "settlement", "flag", "ev"}
    /\ e.job \in Jobs
    /\ e.at = "post" => JobMessage(e.ev)
    /\ e.at = "find" => e.ev.p \in Presence

EffectsOK(es) == \A e \in es : EffectOK(e)

Readers == {"start", "sweep", "submit"}

\* What a reader has to tell.
ReaderMessage(r, x) ==
    \/ x.ev.type = "RecoveryDone" /\ r = "start"
    \/ x.ev.type \in {"StoreRead", "StoreUnread"} /\ x.store \in Stores
    \/ x.job \in Jobs /\ JobMessage(x.ev)

ReaderOK(r, x) ==
    /\ DOMAIN x = {"at", "store", "again", "stale", "todo", "away", "runs", "seen", "job", "ev"}
    /\ r # "start" /\ x.at # "idle" => x.store \in Stores
    /\ x.at = "post" => ReaderMessage(r, x)
    /\ x.at = "find" => x.job \in Jobs /\ x.ev.p \in Presence
    /\ DOMAIN x.seen \subseteq Jobs
    /\ \A j \in DOMAIN x.seen : x.seen[j] \in StoredJob
    /\ r = "start" => x.todo \subseteq Stores
    /\ r = "start" /\ (x.at \in {"list", "jobs"} \/ (x.at = "post" /\ x.ev.type # "RecoveryDone"))
          => x.runs \in [Jobs -> Presence]
    /\ r = "submit" /\ x.at # "idle" => x.todo \subseteq Jobs /\ x.todo # {}

ReadersOK(rs) ==
    /\ DOMAIN rs = Readers
    /\ \A r \in Readers : ReaderOK(r, rs[r])

WorldOK == store \in [Jobs -> StoredJob \cup {Absent}] /\ run \in [Jobs -> Run]

ShellInv == WorldOK /\ EffectsOK(effects) /\ ReadersOK(reader)

\* The state has the shape that the machine's own invariant and the refinement give
\* it.
Shaped == AllGood(entry) /\ ShellInv

\* What the machine makes of a message, and what a reader tells of next.
HandlersFit ==
    /\ \A j \in Jobs : \A ev : JobMessage(ev) =>
          Good(Handler(j, entry[j], ev).e) /\ About(j, Handler(j, entry[j], ev).r)
    /\ \A S \in SUBSET Jobs : S # {} => firstOf(S) \in S

\* What each kind of effect answers.
AnswersOf(kind) ==
    CASE kind = "launch" -> {"Launched", "LaunchFailed", "LeaseRefused", "Closed"}
      [] kind = "follow" -> {"FollowFailed", "SupervisorLost", "Finished"}
      [] kind = "stop" -> {"StopFailed", "SupervisorLost", "Finished"}
      [] kind = "signal" -> {"CancelFailed"}
      [] kind = "move" -> {"MoveFailed", "Requeued", "Closed"}
      [] kind = "discard" -> {"DiscardFailed", "Discarded", "Closed"}
      [] kind = "retry" -> {"RetryDue"}
      [] kind = "reexamine" -> {"Recovered"}
      [] OTHER -> {}

Speaks(e) == e.at = "post" => e.ev.type \in AnswersOf(e.kind)

-----------------------------------------------------------------------------
(* What every job, its entry, its effects, its store and its run have in    *)
(* common while every list of a store's jobs can be read.  A job is over    *)
(* when its store has its end.                                              *)

Over(job) == job.state \in FinalStates

\* How often the command of a job may have begun in the attempts before this one.
BegunBefore(j, job) == IF j \in Rerun THEN job.attempts ELSE 0

\* What a record, a report or an effect says in words.
Unmarked(r) == r.mark = "no record"
Unsent(r) == r.mark = "not sent"
LockFree(ev) == ev.proof = "lock free"
StoreSilent(ev) == ev.cause = "store away"
Unstarted(ev) == ev.cause \in {"supervisor silent", "unprepared"}
Forgets(e) == e.at \in {"forget released", "forget dead"}

\* The stored job, its run, and the number n of times its command began.
WorldStands(j, job, r, n) ==
    /\ n \in Nat
    /\ Unmarked(r) => r = NoRun
    /\ r.proc # "none" => r.dir
    /\ r.end = "cancelled" => r.cancel
    /\ r.proc = "finished" => r.end # "none"
    /\ r.proc \in {"executing", "finished"} => r.mark = "sent"
    /\ job.state = "absent" => r = NoRun /\ n = 0
    /\ job.state = "queued" => r.proc \notin {"executing", "finished"} /\ n <= BegunBefore(j, job)
    /\ job.state = "running" =>
          /\ r.proc \notin {"starting", "released"}
          /\ ~Unmarked(r)
          /\ r.proc = "parked" \/ Unsent(r) => n <= BegunBefore(j, job)
    /\ Over(job) => r.proc \notin {"executing", "starting"}
    /\ n <= IF j \in Rerun THEN job.attempts + 1 ELSE 1

\* What was found of a run is still true of it, as far as the machine acts on it.
PresenceStands(p, job, r) ==
    /\ p.run = "none" => r = NoRun
    /\ p.run \notin {"running", "unknown"} => r.proc # "executing"
    /\ job.state = "running" =>
          /\ p.run = "dead" => r.proc = "none" /\ (p.start = "never" => Unsent(r))
          /\ p.run \in {"running", "finished", "released"} => r.proc # "parked"

FindingStands(f, p, job, r) ==
    /\ f.job \in {"away", job.state} /\ ~f.givenUp
    /\ PresenceStands(p, job, r)

\* A report of a supervisor that is gone, and of one that has an outcome.
LostStands(ev, r) ==
    /\ LockFree(ev)
    /\ r.proc = "none"
    /\ ev.start = "never" => Unsent(r)

EndStands(j, ev, r) ==
    /\ r.proc \in {"finished", "none"}
    /\ r.end # "none"
    /\ ev.o = outcomeOf(r, j \in Rerun)

\* The answer a launch has: what it leaves in the store and of the run.
LaunchedStands(ev, job, r) ==
    \/ ev.type = "Launched" /\ job.state = "running" /\ Unsent(r)
    \/ /\ ev.type = "LaunchFailed" /\ StoreSilent(ev)
       /\ job.state \in {"queued", "running"} /\ r.proc \in {"parked", "none"}
    \/ ev.type = "LaunchFailed" /\ Unstarted(ev) /\ job.state = "queued" /\ r.proc = "none"
    \/ ev.type = "LeaseRefused" /\ job.state = "queued" /\ r = NoRun

LaunchStands(e, job, r) ==
    /\ e.at \in {"read", "spawn", "mkdir", "up", "record", "post"}
    /\ e.at # "post" => job.state = "queued"
    /\ e.at \in {"read", "spawn"} => r = NoRun
    /\ e.at = "mkdir" => Unsent(r) /\ r.proc = "none" /\ ~r.dir /\ r.end = "none"
    /\ e.at = "up" => Unsent(r) /\ r.proc = "starting"
    /\ e.at = "record" => Unsent(r) /\ r.proc \in {"parked", "none"}
    /\ e.at = "post" => LaunchedStands(e.ev, job, r)

\* A follow that may still tell its command to start is beside no look at the run,
\* unless the command was cancelled.
FollowStands(j, e, S, job, r) ==
    /\ job.state = "running"
    /\ e.at \in {"cancel", "start", "tell", "wait", "post"}
    /\ e.at = "tell" => r.mark = "sent"
    /\ e.at \in {"start", "tell"} /\ r.proc = "parked" /\ ~r.cancel => \A d \in S : d.kind # "reexamine"
    /\ e.at = "post" =>
         \/ e.ev.type = "FollowFailed"
         \/ e.ev.type = "SupervisorLost" /\ LostStands(e.ev, r)
         \/ e.ev.type = "Finished" /\ EndStands(j, e.ev, r)

StopStands(j, e, job, r) ==
    /\ job.state = "running"
    /\ e.at \in {"cancel", "wait", "post"}
    /\ e.at = "post" =>
         \/ e.ev.type = "StopFailed"
         \/ e.ev.type = "SupervisorLost" /\ LostStands(e.ev, r)
         \/ e.ev.type = "Finished" /\ EndStands(j, e.ev, r)

MoveStands(e, c, job) ==
    /\ e.settlement = c.settlement /\ e.flag = c.release
    /\ e.at \in {"record", "post"}
    /\ e.at = "post" =>
         \/ e.ev.type = "MoveFailed"
         \/ e.ev.type = "Requeued" /\ Requeues(c.settlement) /\ job.state = "queued"

DiscardStands(e, r) ==
    /\ e.flag = TRUE
    /\ e.at \in {"release", "unrecord", "post"} \/ Forgets(e)
    /\ e.at = "post" =>
         \/ e.ev.type = "DiscardFailed"
         \/ e.ev.type = "Discarded" /\ r = NoRun

\* The effect that a phase of a job waits for.
MainOf(phase) ==
    CASE phase = "launching" -> "launch"
      [] phase = "running" -> "follow"
      [] phase = "stopping" -> "stop"
      [] phase = "discarding" -> "discard"
      [] phase \in Ending -> "move"
      [] OTHER -> "none"

MainStands(j, e, c, S, job, r) ==
    /\ e.kind = MainOf(c.phase)
    /\ CASE e.kind = "launch" -> LaunchStands(e, job, r)
         [] e.kind = "follow" -> FollowStands(j, e, S, job, r)
         [] e.kind = "stop" -> StopStands(j, e, job, r)
         [] e.kind = "discard" -> DiscardStands(e, r)
         [] OTHER -> MoveStands(e, c, job)

\* A look at a job is under way while it is in doubt, one at a time, unless the job
\* was cancelled: a lost cancel may bring another.
LookFits(e, c, S, r) ==
    /\ c.phase \notin {"none", "queued", "launching"}
    /\ ~Requeues(c.settlement)
    /\ c.phase \in Ending => r.proc # "parked"
    /\ ~c.cancelAsked =>
          c.phase = "indoubt" /\ ~c.waiting /\ ~c.parked /\ \A d \in S : d.kind = "reexamine" => d = e

LookStands(e, job, r) ==
    /\ e.at \in {"look", "find", "post"}
    /\ e.at = "find" => PresenceStands(e.ev.p, job, r)
    /\ e.at = "post" => e.ev.type = "Recovered" /\ FindingStands(e.ev.f, e.ev.p, job, r)

SideStands(e, c, S, job, r) ==
    /\ e.kind = "retry" => e.at = "post" /\ e.ev.type = "RetryDue"
    /\ e.kind = "signal" => c.cancelAsked /\ e.at \in {"cancel", "post"} /\ (e.at = "post" => e.ev.type = "CancelFailed")
    /\ e.kind = "reexamine" => LookFits(e, c, S, r) /\ LookStands(e, job, r)

\* The entry of a job that is not over.
EntryStands(j, c, job, r) ==
    /\ c.phase # "left"
    /\ c.phase # "none" => job.state # "absent"
    /\ c.phase = "queued" => job.state = "queued" /\ r = NoRun /\ (c.waiting => c.leased)
    /\ c.phase = "discarding" => job.state = "queued"
    /\ c.phase = "launching" => ~c.waiting
    /\ c.phase = "indoubt" /\ r.proc = "executing" => c.holds /\ c.holdUntil # "passed"
    /\ c.parked => job.state = "running" /\ r.proc # "executing" /\ ~c.waiting
    /\ c.waiting => c.phase \in {"queued", "discarding", "unrecorded", "indoubt"} \/ c.cancelAsked
    /\ c.waiting /\ c.phase = "settling" => ~Requeues(c.settlement)

\* The end that was decided for it.
EndingStands(j, c, job, r) ==
    /\ r.proc \in {"none", "parked", "finished"}
    /\ Requeues(c.settlement) => r.proc = "none" /\ (job.state = "running" /\ j \notin Rerun => Unsent(r))
    /\ c.settlement.to = "succeeded" => r.end = "done"
    /\ c.settlement.to = "lost" => r.proc = "none"

\* The phases that wait for no effect, or for a retry of it.
Idles(c) == MainOf(c.phase) = "none" \/ (c.phase \in {"discarding", "unrecorded"} /\ c.waiting)

\* S are the effects beside the one that the phase waits for, and M is that one.
OpenStands(j, c, S, M, job, r) ==
    /\ EntryStands(j, c, job, r)
    /\ c.phase \in Ending => EndingStands(j, c, job, r)
    /\ \A e \in S : SideStands(e, c, S, job, r)
    /\ IF Idles(c) THEN M = {} ELSE \E e \in M : M = {e} /\ MainStands(j, e, c, S, job, r)

\* Once a job is over nothing brings its run back to life.
Tame(e, r) ==
    /\ e.kind = "launch" => e.at \in {"read", "post"} /\ (e.at = "post" => e.ev.type # "Launched")
    /\ r.proc = "parked" =>
         /\ e.kind = "follow" => e.at \notin {"cancel", "start", "tell"}
         /\ e.kind = "reexamine" /\ e.at = "post" => e.ev.f.job # "running"

OverStands(c, E, r) == (r.proc = "parked" => ~c.parked) /\ \A e \in E : Tame(e, r)

SideKinds == {"retry", "signal", "reexamine"}
Sides(E) == {e \in E : e.kind \in SideKinds}
Mains(E) == {e \in E : e.kind \notin SideKinds}

JobStands(j, c, E, job, r) ==
    IF Over(job) THEN OverStands(c, E, r) ELSE OpenStands(j, c, Sides(E), Mains(E), job, r)

Mine(j) == {e \in effects : e.job = j}

\* The reader at the start: the jobs it has yet to tell of are as it found them.
Posting(x, j) == x.at = "post" /\ x.ev.type = "Recovered" /\ x.job = j
Posted(x) == x.at = "done" \/ (x.at = "post" /\ x.ev.type = "RecoveryDone")
Ahead(x, j) == StoreOf[j] \in x.todo \/ j \in DOMAIN x.seen
Pending(x, j) == x.at = "runs" \/ Ahead(x, j) \/ Posting(x, j)

StartStands(x, j, c, E, job, r) ==
    /\ Pending(x, j) => c = NoEntry /\ E = {}
    /\ x.at # "runs" /\ ~Posted(x) =>
          /\ IF Ahead(x, j)
             THEN Over(job) \/ PresenceStands(x.runs[j], job, r)
             ELSE x.runs[j].run # "none" => Over(job) /\ c = NoEntry /\ E = {}
          /\ job.state = "absent" => x.runs[j].run = "none"
    /\ j \in DOMAIN x.seen => x.seen[j] = job /\ job.state \in {"queued", "running"} /\ StoreOf[j] \notin x.todo
    /\ Posting(x, j) =>
          /\ ~Ahead(x, j) /\ x.runs[j].run = "none"
          /\ IF Over(job) THEN x.ev.f = NoSuchJob
             ELSE x.ev.f = jobIn(job) /\ job.state # "absent" /\ PresenceStands(x.ev.p, job, r)
    /\ ~Pending(x, j) /\ c.phase = "none" /\ ~Over(job) => job.state \in {"absent", "queued"} /\ r = NoRun

\* The sweep: of a running job that the machine did not hold, it finds the end.
SweepStands(x, j, c, job) ==
    /\ j \in DOMAIN x.seen =>
          /\ job.state # "absent"
          /\ x.seen[j].state \in {"queued", "running"}
          /\ x.seen[j].state = "running" => Over(job) \/ (x.at = "held" /\ c.phase # "none")
    /\ x.at = "find" /\ x.job = j => Over(job)
    /\ x.at = "post" /\ x.job = j =>
          /\ x.ev.type = "Admitted" => job.state # "absent"
          /\ x.ev.type = "Recovered" => Over(job) /\ x.ev.f.job \notin {"queued", "running"}

\* Only a job that was submitted is admitted or cancelled.
CallersStand(x, j, call, job) ==
    /\ x.at # "idle" /\ j \in x.todo => job.state # "absent"
    /\ call # "idle" => job.state # "absent"

\* Every store was read, nothing is read again, and the daemon serves once it started.
Calm ==
    LET x == reader["start"]
    IN  /\ ran \in [Jobs -> Nat] /\ caller = [j \in Jobs |-> caller[j]]
        /\ unread = {}
        /\ x.away = {}
        /\ x.at \in {"runs", "list", "jobs", "post", "done"}
        /\ x.at = "post" => x.ev.type \in {"Recovered", "RecoveryDone"}
        /\ x.at \in {"runs", "list"} \/ Posted(x) => DOMAIN x.seen = {}
        /\ Posted(x) => x.todo = {}
        /\ reader["sweep"].at \in {"idle", "list", "held", "jobs", "find", "post"}
        /\ reader["sweep"].at = "post" => reader["sweep"].ev.type \in {"Admitted", "Recovered", "StoreRead"}
        /\ reader["submit"].at \in {"idle", "written", "admit"}
        /\ ~reader["sweep"].again /\ ~reader["submit"].again
        /\ recovering <=> x.at # "done"
        /\ x.at # "done" =>
              /\ reader["sweep"].at = "idle" /\ reader["submit"].at = "idle"
              /\ ~x.stale
              /\ \A j \in Jobs : caller[j] = "idle"

\* A job parked for the machine was not cancelled.
ParkedWaits(c) == c.parked => ~c.cancelAsked

JobInv(j) ==
    /\ WorldStands(j, store[j], run[j], ran[j])
    /\ JobStands(j, entry[j], Mine(j), store[j], run[j])
    /\ ParkedWaits(entry[j])
    /\ StartStands(reader["start"], j, entry[j], Mine(j), store[j], run[j])
    /\ SweepStands(reader["sweep"], j, entry[j], store[j])
    /\ CallersStand(reader["submit"], j, caller[j], store[j])

\* A command that executes, or that something under way may still begin.
Begins(r, E) ==
    \/ r.proc = "executing"
    \/ \E e \in E : \/ e.kind = "launch"
                    \/ e.kind = "follow" /\ e.at \in {"start", "tell"} /\ r.proc = "parked" /\ ~r.cancel

LiveOf(job, r, E) == ~Over(job) /\ Begins(r, E)
Live == {j \in Jobs : LiveOf(store[j], run[j], Mine(j))}

\* The commands that execute or may begin fit the machine.
LiveFits ==
    /\ Cardinality(Live) <= Slots
    /\ \A j \in Live \cap Exclusive : Live = {j}

\* The effects that an entry waits for, and an effect that is one of them.
Owed(c) ==
    {kind \in {MainOf(c.phase)} : kind # "none" /\ ~Idles(c)}
    \cup {kind \in {"retry"} : c.armed}
    \cup {kind \in {"reexamine"} : c.phase = "indoubt" /\ ~c.parked /\ ~c.waiting}

Pays(e, c) ==
    /\ e.kind = "discard" => e.flag = TRUE
    /\ e.kind = "move" => e.settlement = c.settlement

OwesOf(c, E) == \A kind \in Owed(c) : \E e \in E : e.kind = kind /\ Pays(e, c)

\* A move tells of a job that is queued again only if it moved it there.
TellsMoved(e) == e.kind = "move" /\ e.at = "post" /\ e.ev.type = "Requeued" => Requeues(e.settlement)

OwesInv == (\A j \in Jobs : OwesOf(entry[j], Mine(j))) /\ \A e \in effects : TellsMoved(e)

RunsInv == Calm /\ (\A e \in effects : Speaks(e)) /\ \A j \in Jobs : JobInv(j)
=============================================================================
