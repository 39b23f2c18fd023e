------------------------- MODULE DaemonEffectProofs --------------------------
(***************************************************************************)
(* The steps that effects, supervisors and the clock take beside the loop  *)
(* keep RunsInv, and what RunsInv says of the stores and the runs.         *)
(***************************************************************************)
EXTENDS DaemonRunLemmas

\* Zenon proves a step that names no prover.
USE Zenon

-----------------------------------------------------------------------------
(* A step of an effect, beside the loop: it goes on or answers, and changes its *)
(* job's store or run.                                                          *)

\* N is what becomes of e.
Shifted(e, N) ==
    /\ Beside /\ effects' = (effects \ {e}) \cup N
    /\ \A d \in N : d.job = e.job /\ Speaks(d)
    /\ \A k \in Jobs : k # e.job => store'[k] = store[k] /\ run'[k] = run[k] /\ ran'[k] = ran[k]
    /\ ran' \in [Jobs -> Nat]

\* A job that something is under way for was told of at the start.
LEMMA StartToldOf ==
    ASSUME NEW x, NEW j, NEW c, NEW E, E # {}, NEW job, NEW r, StartStands(x, j, c, E, job, r),
           NEW F, NEW job2, NEW r2, ~Over(job2) => c.phase # "none"
    PROVE  StartStands(x, j, c, F, job2, r2)
<1>1. ~Pending(x, j)
  BY DEF StartStands
<1>2. ~Ahead(x, j) /\ ~Posting(x, j) /\ j \notin DOMAIN x.seen
  BY <1>1 DEF Pending, Ahead
<1>3. x.at # "runs" /\ ~Posted(x) => x.runs[j].run = "none"
  BY <1>2 DEF StartStands
<1> QED
  BY <1>1, <1>2, <1>3 DEF StartStands

LEMMA ShiftStays ==
    ASSUME RunsInv, Shaped, NEW e \in effects, NEW N, Shifted(e, N),
           WorldStands(e.job, store'[e.job], run'[e.job], ran'[e.job]),
           JobStands(e.job, entry[e.job], (Mine(e.job) \ {e}) \cup N, store'[e.job], run'[e.job]),
           Over(store[e.job]) => Over(store'[e.job]),
           store'[e.job].state # "absent",
           ~Over(store'[e.job]) => entry[e.job].phase # "none"
    PROVE  RunsInv'
<1> DEFINE j == e.job
<1>1. j \in Jobs /\ e \in Mine(j)
  BY MineJobs
<1>2. Calm /\ \A k \in Jobs : JobInv(k)
  BY DEF RunsInv
<1>3. /\ entry' = entry /\ recovering' = recovering /\ unread' = unread /\ reader' = reader /\ caller' = caller
      /\ effects' = (effects \ {e}) \cup N /\ (\A d \in N : d.job = j /\ Speaks(d)) /\ ran' \in [Jobs -> Nat]
  BY DEF Shifted, Beside
<1>4. Mine(j)' = (Mine(j) \ {e}) \cup N
  <2>1. Mine(j)' = {d \in effects' : d.job = j}
    BY DEF Mine
  <2> QED
    BY <1>3, <2>1 DEF Mine
<1>5. ASSUME NEW k \in Jobs, k # j
      PROVE  JobInv(k)'
  <2>1. Mine(k)' = {d \in effects' : d.job = k}
    BY DEF Mine
  <2>2. Mine(k)' = Mine(k)
    BY <1>3, <1>5, <2>1 DEF Mine
  <2>3. store'[k] = store[k] /\ run'[k] = run[k] /\ ran'[k] = ran[k]
    BY <1>5 DEF Shifted
  <2>4. JobInv(k)
    BY <1>2
  <2> QED
    BY <1>3, <2>2, <2>3, <2>4 DEF JobInv
<1> HIDE DEF j
<1>6. JobInv(j)'
  <2>1. /\ ParkedWaits(entry[j])
        /\ StartStands(reader["start"], j, entry[j], Mine(j), store[j], run[j])
        /\ SweepStands(reader["sweep"], j, entry[j], store[j])
        /\ CallersStand(reader["submit"], j, caller[j], store[j])
    BY <1>1, <1>2 DEF JobInv
  <2>2. StartStands(reader["start"], j, entry[j], Mine(j)', store'[j], run'[j])
    <3>1. Mine(j) # {} /\ (~Over(store'[j]) => entry[j].phase # "none")
      BY <1>1 DEF j
    <3> QED
      BY <2>1, <3>1, StartToldOf
  <2>3. SweepStands(reader["sweep"], j, entry[j], store'[j]) /\ CallersStand(reader["submit"], j, caller[j], store'[j])
    BY <2>1 DEF SweepStands, CallersStand, j
  <2>4. WorldStands(j, store'[j], run'[j], ran'[j]) /\ JobStands(j, entry[j], Mine(j)', store'[j], run'[j])
    BY <1>4 DEF j
  <2> QED
    BY <1>3, <2>1, <2>2, <2>3, <2>4 DEF JobInv
<1>7. Calm'
  BY <1>2, <1>3 DEF Calm
<1>8. \A d \in effects' : Speaks(d)
  BY <1>3 DEF RunsInv
<1> QED
  BY <1>5, <1>6, <1>7, <1>8 DEF RunsInv, j

\* The effect a phase waits for goes on, of a job that is not over.
LEMMA OpenMain ==
    ASSUME RunsInv, Shaped, NEW e \in effects, e.kind \notin SideKinds, ~Over(store[e.job])
    PROVE  /\ Mains(Mine(e.job)) = {e}
           /\ OpenStands(e.job, entry[e.job], Sides(Mine(e.job)), {e}, store[e.job], run[e.job])
           /\ entry[e.job].phase # "none" /\ store[e.job].state \in {"queued", "running"}
<1> DEFINE j == e.job
           E == Mine(j)
           c == entry[j]
           job == store[j]
           r == run[j]
<1>1. j \in Jobs /\ e \in E
  BY MineJobs
<1>2. OpenStands(j, c, Sides(E), Mains(E), job, r)
  BY <1>1 DEF RunsInv, JobInv, JobStands
<1>3. job.state \in {"absent", "queued", "running"} \/ Over(job)
  BY <1>1, StoredStates
<1> HIDE DEF j, E, c, job, r
<1>4. e \in Mains(E)
  BY <1>1 DEF Mains
<1>5. Mains(E) = {e} /\ ~Idles(c)
  BY <1>2, <1>4 DEF OpenStands
<1>6. c.phase # "none"
  BY <1>5, MainOfPhases DEF Idles
<1>7. job.state # "absent"
  BY <1>2, <1>6 DEF OpenStands, EntryStands
<1> QED
  BY <1>2, <1>3, <1>5, <1>6, <1>7 DEF j, E, c, job, r

LEMMA MainMoves ==
    ASSUME RunsInv, Shaped, NEW e \in effects, e.kind \notin SideKinds, ~Over(store[e.job]),
           NEW d, d.kind = e.kind, Shifted(e, {d}),
           ~Over(store'[e.job]), store'[e.job].state # "absent",
           WorldStands(e.job, store'[e.job], run'[e.job], ran'[e.job]),
           OpenStands(e.job, entry[e.job], Sides(Mine(e.job)), {d}, store'[e.job], run'[e.job])
    PROVE  RunsInv'
<1> DEFINE E == Mine(e.job)
<1>1. Mains(E) = {e} /\ entry[e.job].phase # "none"
  BY OpenMain
<1>2. Sides((E \ {e}) \cup {d}) = Sides(E) /\ Mains((E \ {e}) \cup {d}) = {d}
  <2>1. Sides(E \ {e}) = Sides(E) /\ Mains(E \ {e}) = {}
    BY <1>1, PartedLess
  <2>2. Sides({d}) = {} /\ Mains({d}) = {d}
    BY PartedOne
  <2>3. /\ Sides((E \ {e}) \cup {d}) = Sides(E \ {e}) \cup Sides({d})
        /\ Mains((E \ {e}) \cup {d}) = Mains(E \ {e}) \cup Mains({d})
    BY Parted
  <2> QED
    BY <2>1, <2>2, <2>3
<1>3. JobStands(e.job, entry[e.job], (E \ {e}) \cup {d}, store'[e.job], run'[e.job])
  BY <1>2 DEF JobStands
<1> QED
  BY <1>1, <1>3, ShiftStays

\* An effect of a job that is over.
LEMMA OverMoves ==
    ASSUME RunsInv, Shaped, NEW e \in effects, Over(store[e.job]), NEW N, Shifted(e, N), store'[e.job] = store[e.job],
           WorldStands(e.job, store[e.job], run'[e.job], ran'[e.job]),
           run'[e.job].proc = "parked" => run[e.job].proc = "parked",
           \A d \in N : Tame(d, run'[e.job])
    PROVE  RunsInv'
<1>1. e.job \in Jobs
  BY MineJobs
<1>2. OverStands(entry[e.job], Mine(e.job), run[e.job])
  BY <1>1 DEF RunsInv, JobInv, JobStands
<1>3. OverStands(entry[e.job], (Mine(e.job) \ {e}) \cup N, run'[e.job])
  <2>1. \A d \in Mine(e.job) : Tame(d, run'[e.job])
    BY <1>2 DEF OverStands, Tame
  <2> QED
    BY <1>2, <2>1 DEF OverStands
<1>4. JobStands(e.job, entry[e.job], (Mine(e.job) \ {e}) \cup N, store'[e.job], run'[e.job])
  BY <1>3 DEF JobStands
<1>5. store'[e.job].state # "absent" /\ Over(store'[e.job])
  BY DEF Over, FinalStates
<1> QED
  BY <1>4, <1>5, ShiftStays

LEMMA OverGoesOn ==
    ASSUME RunsInv, Shaped, NEW e \in effects, Over(store[e.job]), NEW d, Shifted(e, {d}), store'[e.job] = store[e.job],
           WorldStands(e.job, store[e.job], run'[e.job], ran'[e.job]),
           run'[e.job].proc = "parked" => run[e.job].proc = "parked",
           Tame(d, run'[e.job])
    PROVE  RunsInv'
<1> DEFINE N == {d}
<1>1. Shifted(e, N) /\ \A x \in N : Tame(x, run'[e.job])
  OBVIOUS
<1> HIDE DEF N
<1> QED
  BY <1>1, OverMoves

-----------------------------------------------------------------------------
(* What the operations on a run leave of it. *)

LEMMA Spawning ==
    ASSUME NEW r, r = NoRun
    PROVE  /\ writeRecord(r).proc = "none" /\ writeRecord(r).dir = FALSE /\ writeRecord(r).end = "none"
           /\ Unsent(writeRecord(r))
  BY DEF writeRecord, NoRun, Unsent

LEMMA Making ==
    ASSUME NEW r \in Run
    PROVE  /\ begin(makeDirectory(r)).proc = "starting" /\ begin(makeDirectory(r)).dir = TRUE
           /\ begin(makeDirectory(r)).end = "none" /\ begin(makeDirectory(r)).mark = r.mark
  BY RunFields DEF begin, makeDirectory

LEMMA ComingUp ==
    ASSUME NEW r \in Run
    PROVE  /\ comeUp(r).proc = "parked" /\ comeUp(r).dir = r.dir
           /\ comeUp(r).end = r.end /\ comeUp(r).mark = r.mark /\ comeUp(r).cancel = r.cancel
  BY RunFields DEF comeUp

LEMMA Releasing ==
    ASSUME NEW r \in Run
    PROVE  /\ Release(r).proc = "released" /\ Release(r).dir = r.dir
           /\ Release(r).end = r.end /\ Release(r).mark = r.mark /\ Release(r).cancel = r.cancel
  BY RunFields DEF Release

LEMMA Removing ==
    ASSUME NEW r \in Run
    PROVE  /\ removeDirectory(r).proc = "none" /\ removeDirectory(r).dir = FALSE
           /\ removeDirectory(r).end = r.end /\ removeDirectory(r).mark = r.mark
           /\ removeDirectory(r).cancel = r.cancel
           /\ removeDirectory(NoRun) = NoRun
<1>1. removeDirectory(NoRun) = NoRun
  <2> DEFINE z == NoRun
  <2>1. z = [x \in DOMAIN z |-> z[x]] /\ z.dir = FALSE /\ z.proc = "none"
    BY DEF NoRun
  <2> HIDE DEF z
  <2>2. [z EXCEPT !.dir = FALSE, !.proc = "none"] = z
    <3>1. [z EXCEPT !.dir = FALSE] = z
      BY <2>1
    <3>2. [z EXCEPT !.proc = "none"] = z
      BY <2>1
    <3> QED
      BY <3>1, <3>2
  <2> QED
    BY <2>2 DEF removeDirectory, z
<1> QED
  BY <1>1, RunFields DEF removeDirectory

LEMMA Marking ==
    ASSUME NEW r \in Run
    PROVE  /\ markStartSent(r).proc = r.proc /\ markStartSent(r).dir = r.dir
           /\ markStartSent(r).end = r.end /\ markStartSent(r).mark = "sent"
           /\ markStartSent(r).cancel = r.cancel
  BY RunFields DEF markStartSent

LEMMA Starting ==
    ASSUME NEW r \in Run
    PROVE  /\ Start(r).dir = r.dir /\ Start(r).mark = r.mark /\ Start(r).cancel = r.cancel
           /\ r.proc # "parked" => Start(r) = r
           /\ r.proc = "parked" /\ r.cancel => Start(r).proc = "finished" /\ Start(r).end = "cancelled"
           /\ r.proc = "parked" /\ ~r.cancel => Start(r).proc = "executing" /\ Start(r).end = r.end
<1>1. CASE r.proc = "parked" /\ r.cancel
  <2>1. Start(r) = [r EXCEPT !.proc = "finished", !.end = "cancelled"]
    BY <1>1 DEF Start
  <2> QED
    BY <1>1, <2>1, RunFields
<1>2. CASE r.proc = "parked" /\ ~r.cancel
  <2>1. Start(r) = [r EXCEPT !.proc = "executing"]
    BY <1>2 DEF Start
  <2> QED
    BY <1>2, <2>1, RunFields
<1>3. CASE r.proc # "parked"
  BY <1>3 DEF Start
<1> QED
  BY <1>1, <1>2, <1>3

Gentle(r, s) ==
    /\ s.mark = r.mark /\ s.dir = r.dir
    /\ r.proc = "none" => s = r
    /\ r.cancel => s.cancel
    /\ r.proc # "executing" => s.end = r.end
    /\ r.proc \in {"none", "finished"} => s.cancel = r.cancel
    /\ s.end = "cancelled" => s.cancel
    /\ s.proc = "finished" => s.end # "none"
    /\ \/ s.proc \in {r.proc, "none"}
       \/ r.proc = "executing" /\ s.proc = "finished"
       \/ r.proc = "starting" /\ s.proc = "parked"

LEMMA Cancelling ==
    ASSUME NEW r \in Run, r.end = "cancelled" => r.cancel, r.proc = "finished" => r.end # "none"
    PROVE  Gentle(r, Cancel(r)) /\ Cancel(r).proc = r.proc /\ (r.proc = "parked" => Cancel(r).cancel)
<1>1. CASE r.proc \in {"parked", "executing"}
  <2>1. Cancel(r) = [r EXCEPT !.cancel = TRUE]
    BY <1>1 DEF Cancel
  <2>2. /\ Cancel(r).proc = r.proc /\ Cancel(r).mark = r.mark /\ Cancel(r).dir = r.dir
        /\ Cancel(r).end = r.end /\ Cancel(r).cancel = TRUE
    BY <2>1, RunFields
  <2> QED
    BY <1>1, <2>2 DEF Gentle
<1>2. CASE r.proc \notin {"parked", "executing"}
  <2>1. Cancel(r) = r
    BY <1>2 DEF Cancel
  <2> QED
    BY <1>2, <2>1 DEF Gentle
<1> QED
  BY <1>1, <1>2

LEMMA GotoIs ==
    ASSUME Shaped, NEW e \in effects, NEW at, Goto(e, at)
    PROVE  \E d : Goes(e, d) /\ d.at = at /\ effects' = (effects \ {e}) \cup {d}
<1> DEFINE d == [e EXCEPT !.at = at]
<1>1. DOMAIN e = {"kind", "job", "at", "h", "settlement", "flag", "ev"}
  BY DEF Shaped, ShellInv, EffectsOK, EffectOK
<1>2. Goes(e, d) /\ d.at = at
  BY <1>1 DEF Goes
<1> QED
  BY <1>2 DEF Goto

LEMMA AnswerIs ==
    ASSUME Shaped, NEW e \in effects, NEW ev, Answer(e, ev)
    PROVE  \E d : Goes(e, d) /\ d.at = "post" /\ d.ev = ev /\ effects' = (effects \ {e}) \cup {d}
<1> DEFINE d == [e EXCEPT !.at = "post", !.ev = ev]
<1>1. DOMAIN e = {"kind", "job", "at", "h", "settlement", "flag", "ev"}
  BY DEF Shaped, ShellInv, EffectsOK, EffectOK
<1>2. Goes(e, d) /\ d.at = "post" /\ d.ev = ev
  BY <1>1 DEF Goes
<1> QED
  BY <1>2 DEF Answer

LEMMA SetRunIs ==
    ASSUME Shaped, NEW j \in Jobs, NEW r, SetRun(j, r)
    PROVE  run'[j] = r /\ \A k \in Jobs : k # j => run'[k] = run[k]
  BY DEF SetRun, Shaped, ShellInv, WorldOK

-----------------------------------------------------------------------------
(* What the invariant says of the stores and the runs. *)

LEMMA RecordIs ==
    ASSUME NEW job, NEW t \in Settlement, job.state \in {"queued", "running"}
    PROVE  /\ \/ record(job, t) = job
              \/ t.to \in FinalStates /\ record(job, t).state = t.to /\ record(job, t).attempts = job.attempts
              \/ /\ Requeues(t) /\ job.state = "running"
                 /\ record(job, t).state = "queued" /\ record(job, t).attempts = job.attempts + 1
           /\ Recorded(job, t) => record(job, t).state = t.to
<1> DEFINE f == follow(job, t)
<1>1. t.to \in FinalStates \cup {"queued"} /\ DOMAIN t = {"from", "to"}
  BY DEF Settlement
<1>2. f.to = t.to
  BY <1>1 DEF follow
<1>3. ASSUME Applies(job, f)
      PROVE  CanMoveTo(job.state, t.to) /\ record(job, t) = Apply(job, f)
  <2>1. CanMoveTo(job.state, t.to)
    BY <1>2, <1>3 DEF Applies
  <2> QED
    BY <1>3, <2>1 DEF record
<1>4. ~Applies(job, f) => record(job, t) = job
  BY DEF record
<1>5. job.state \notin FinalStates
  BY DEF FinalStates
<1>6. Recorded(job, t) => Applies(job, f) \/ job.state = t.to
  BY <1>5 DEF Recorded
<1> HIDE DEF f
<1>7. Apply(job, f).state = t.to
  BY <1>2 DEF Apply
<1>8. t.to \in FinalStates => Apply(job, f).attempts = job.attempts
  BY <1>2 DEF Apply, FinalStates
<1>9. t.to = "queued" => Apply(job, f).attempts = job.attempts + 1
  BY <1>2 DEF Apply
<1>10. t.to = "queued" /\ CanMoveTo(job.state, t.to) => job.state = "running"
  BY DEF CanMoveTo, FinalStates
<1>11. Recorded(job, t) => record(job, t).state = t.to
  BY <1>3, <1>4, <1>6, <1>7
<1>12. CASE Applies(job, f) /\ t.to \in FinalStates
  BY <1>3, <1>7, <1>8, <1>11, <1>12
<1>13. CASE Applies(job, f) /\ t.to = "queued"
  BY <1>3, <1>7, <1>9, <1>10, <1>11, <1>13 DEF Requeues
<1> QED
  BY <1>1, <1>4, <1>11, <1>12, <1>13

\* The end in a store stays.
LEMMA RecordOver ==
    ASSUME NEW job, Over(job), NEW t
    PROVE  record(job, t) = job
<1> DEFINE f == follow(job, t)
<1>1. ASSUME Applies(job, f)
      PROVE  FALSE
  <2>1. f.from = job.state /\ CanMoveTo(f.from, f.to)
    BY <1>1 DEF Applies
  <2> QED
    BY <2>1 DEF CanMoveTo, Over, FinalStates
<1> QED
  BY <1>1 DEF record

LEMMA RunningExecutes ==
    ASSUME RunsInv, Shaped
    PROVE  OnlyRunningExecutes
<1>1. ASSUME NEW j \in Jobs, run[j].proc = "executing"
      PROVE  store[j].state = "running"
  <2>1. WorldStands(j, store[j], run[j], ran[j])
    BY DEF RunsInv, JobInv
  <2>2. store[j].state \in {"absent", "queued", "running"} \/ Over(store[j])
    BY StoredStates
  <2>3. run[j] # NoRun
    BY <1>1, NoRunIs
  <2> QED
    BY <1>1, <2>1, <2>2, <2>3 DEF WorldStands
<1> QED
  BY <1>1 DEF OnlyRunningExecutes

LEMMA OncePerAttempt ==
    ASSUME RunsInv
    PROVE  RunsOncePerAttempt
<1>1. ASSUME NEW j \in Jobs
      PROVE  ran[j] <= IF j \in Rerun THEN store[j].attempts + 1 ELSE 1
  BY DEF RunsInv, JobInv, WorldStands
<1> QED
  BY <1>1 DEF RunsOncePerAttempt

LEMMA SpawnsAfresh ==
    ASSUME RunsInv, Shaped
    PROVE  SpawnFindsNoRun
<1>1. ASSUME NEW e \in effects, e.kind = "launch", e.at = "spawn"
      PROVE  run[e.job] = NoRun
  <2>1. e.job \in Jobs /\ e \in Mine(e.job)
    BY MineJobs
  <2>2. ~Over(store[e.job])
    <3>1. ~Tame(e, run[e.job])
      BY <1>1 DEF Tame
    <3> QED
      BY <2>1, <3>1 DEF RunsInv, JobInv, JobStands, OverStands
  <2>3. e.kind \notin SideKinds
    BY <1>1 DEF SideKinds
  <2>4. OpenStands(e.job, entry[e.job], Sides(Mine(e.job)), {e}, store[e.job], run[e.job])
    BY <2>2, <2>3, OpenMain
  <2>5. MainStands(e.job, e, entry[e.job], Sides(Mine(e.job)), store[e.job], run[e.job])
    BY <2>4, OpenWith
  <2>6. LaunchStands(e, store[e.job], run[e.job])
    BY <1>1, <2>5 DEF MainStands
  <2> QED
    BY <1>1, <2>6 DEF LaunchStands
<1> QED
  BY <1>1 DEF SpawnFindsNoRun

\* Only the steps of effects, a submission and what happens outside change the
\* stores and the runs.
LEMMA WorldTurns ==
    ASSUME DaemonNext
    PROVE  \/ UNCHANGED world
           \/ \E e \in effects : EffectStep(e)
           \/ \E j \in Jobs : SubmitWrite(j)
           \/ \E j \in Jobs : CommandEnds(j) \/ ComesUp(j) \/ Exits(j) \/ SupervisorDies(j)
           \/ Crash \/ Reboot
<1>1. ASSUME NEW e, DeliverEffect(e)
      PROVE  UNCHANGED world
  BY <1>1 DEF DeliverEffect, Deliver
<1>2. ASSUME StartStep
      PROVE  UNCHANGED world
  BY <1>2 DEF StartStep, StartRuns, StartList, StartJob, StartLeftover, Reading
<1>3. ASSUME SweepStep
      PROVE  UNCHANGED world
  BY <1>3 DEF SweepStep, SweepBegin, SweepHeld, SweepFind, Reading
<1>4. ASSUME SubmitStep
      PROVE  UNCHANGED world
  BY <1>4 DEF SubmitStep, SubmitCheck, SubmitRead, SubmitAdmit, Reading, StepAlone, Deliver
<1>5. ASSUME NEW r, ReaderStep(r)
      PROVE  UNCHANGED world
  <2>1. ReadList(r) \/ ReadJob(r) \/ ReaderDropped(r) => UNCHANGED world
    BY DEF ReadList, ReadJob, ReaderDropped, Reading
  <2>2. ReaderTaken(r) => UNCHANGED world
    BY DEF ReaderTaken, StepAlone, Deliver
  <2> QED
    BY <1>5, <2>1, <2>2 DEF ReaderStep
<1>6. ASSUME NEW j, CancelCall(j) \/ CancelRead(j) \/ CancelPost(j)
      PROVE  UNCHANGED world
  BY <1>6 DEF CancelCall, CancelRead, CancelPost, Deliver
<1>7. ASSUME NEW j, TimePasses(j)
      PROVE  UNCHANGED world
  BY <1>7 DEF TimePasses
<1> QED
  BY <1>1, <1>2, <1>3, <1>4, <1>5, <1>6, <1>7 DEF DaemonNext

\* A job is recorded as succeeded, or as lost, only as the invariant allows.
LEMMA RecordsTruly ==
    ASSUME RunsInv, Shaped, NEW e \in effects, MoveRecord(e), NEW j \in Jobs, store'[j].state # store[j].state
    PROVE  /\ store'[j].state = "succeeded" => run[j].end = "done"
           /\ store'[j].state = "lost" => ~Alive(run[j])
<1> DEFINE c == entry[j]
           job == store[j]
           r == run[j]
           S == Sides(Mine(j))
<1>1. e.job \in Jobs /\ e \in Mine(e.job) /\ e.kind = "move" /\ e.at = "record" /\ e.kind \notin SideKinds
  BY MineJobs DEF MoveRecord, SideKinds
<1>2. store' \in {store, [store EXCEPT ![e.job] = record(store[e.job], e.settlement)]}
  BY DEF MoveRecord, SetStore
<1>3. store' = [store EXCEPT ![e.job] = record(store[e.job], e.settlement)]
  BY <1>2
<1>4. DOMAIN store = Jobs
  BY DEF Shaped, ShellInv, WorldOK
<1>5. j = e.job
  BY <1>3, <1>4, SMT
<1>6. store'[j] = record(job, e.settlement)
  BY <1>1, <1>3, <1>4, <1>5
<1>7. ~Over(job)
  BY <1>6, RecordOver
<1>8. OpenStands(j, c, S, {e}, job, r) /\ job.state \in {"queued", "running"}
  BY <1>1, <1>5, <1>7, OpenMain
<1>9. Good(c)
  BY StoredStates
<1>10. store'[j].state # job.state
  OBVIOUS
<1> HIDE DEF c, job, r, S
<1>11. MainStands(j, e, c, S, job, r) /\ e.kind = MainOf(c.phase)
  BY <1>8, OpenWith
<1>12. c.phase \in Phases
  BY <1>9 DEF Good, Entry
<1>13. c.phase \in Ending
  BY <1>1, <1>11, <1>12, PhaseOf
<1>14. EndingStands(j, c, job, r)
  BY <1>8, <1>13 DEF OpenStands
<1>15. e.settlement = c.settlement
  BY <1>1, <1>11 DEF MainStands, MoveStands
<1>16. c.settlement \in Settlement
  <2>1. c.settlement # NoSettlement
    BY <1>9, <1>13 DEF Good, CoherentEntry
  <2>2. c.settlement \in Settlement \cup {NoSettlement}
    BY <1>9 DEF Good, Entry
  <2> QED
    BY <2>1, <2>2
<1> DEFINE t == c.settlement
<1> HIDE DEF t
<1>17. t \in Settlement /\ store'[j] = record(job, t)
  BY <1>6, <1>15, <1>16 DEF t
<1>18. \/ record(job, t) = job
       \/ t.to \in FinalStates /\ record(job, t).state = t.to /\ record(job, t).attempts = job.attempts
       \/ /\ Requeues(t) /\ job.state = "running"
          /\ record(job, t).state = "queued" /\ record(job, t).attempts = job.attempts + 1
  BY <1>8, <1>17, RecordIs, SMT
<1>19. store'[j].state = t.to \/ store'[j].state = "queued"
  BY <1>10, <1>17, <1>18
<1>20. /\ store'[j].state = "succeeded" => r.end = "done"
       /\ store'[j].state = "lost" => r.proc = "none"
  BY <1>14, <1>19 DEF EndingStands, t
<1> QED
  BY <1>20 DEF Alive, r

LEMMA EndsTruly ==
    ASSUME RunsInv, Shaped, DaemonNext
    PROVE  \A j \in Jobs : store'[j].state # store[j].state =>
              /\ store'[j].state = "succeeded" => run[j].end = "done"
              /\ store'[j].state = "lost" => ~Alive(run[j])
<1> SUFFICES ASSUME NEW j \in Jobs, store'[j].state # store[j].state, store'[j].state \in {"succeeded", "lost"}
             PROVE  /\ store'[j].state = "succeeded" => run[j].end = "done"
                    /\ store'[j].state = "lost" => ~Alive(run[j])
  OBVIOUS
<1>1. CASE \E e \in effects : EffectStep(e)
  <2>1. PICK e \in effects : EffectStep(e)
    BY <1>1
  <2>2. CASE MoveRecord(e)
    BY <2>2, RecordsTruly
  <2>3. CASE LaunchRecord(e)
    <3>1. e.job \in Jobs
      BY MineJobs
    <3>2. store' \in {store, [store EXCEPT ![e.job] = record(store[e.job], ToRunning)]}
      BY <2>3 DEF LaunchRecord, SetStore
    <3>3. store' = [store EXCEPT ![e.job] = record(store[e.job], ToRunning)]
      BY <3>2
    <3>4. DOMAIN store = Jobs
      BY DEF Shaped, ShellInv, WorldOK
    <3>5. j = e.job
      BY <3>3, <3>4, SMT
    <3>6. store'[j] = record(store[j], ToRunning)
      BY <3>1, <3>3, <3>4, <3>5
    <3>7. record(store[j], ToRunning) = store[j] \/ record(store[j], ToRunning).state = "running"
      <4> DEFINE f == follow(store[j], ToRunning)
      <4>1. f.to = "running"
        BY DEF follow, ToRunning
      <4> HIDE DEF f
      <4>2. Apply(store[j], f).state = "running"
        BY <4>1 DEF Apply
      <4> QED
        BY <4>2 DEF record, f
    <3> QED
      BY <3>6, <3>7
  <2>4. CASE ~MoveRecord(e) /\ ~LaunchRecord(e)
    <3>1. store' = store
      BY <2>1, <2>4 DEF EffectStep, LaunchStep, FollowStep, ReleaseStep, LaunchRead, LaunchSpawn, LaunchMkdir, LaunchUp,
            CallCancel, FollowStart, FollowTell, Wait, ReleaseRun, Forget, Unrecord, ReexamineLook, ReexamineFind, world
    <3> QED
      BY <3>1
  <2> QED
    BY <2>2, <2>3, <2>4
<1>2. CASE \E k \in Jobs : SubmitWrite(k)
  <2>1. PICK k \in Jobs : SubmitWrite(k)
    BY <1>2
  <2>2. store'[j] = store[j] \/ store'[j] = [state |-> "queued", attempts |-> 0]
    BY <2>1 DEF SubmitWrite, SetStore, Shaped, ShellInv, WorldOK
  <2>3. [state |-> "queued", attempts |-> 0].state = "queued"
    OBVIOUS
  <2> QED
    BY <2>2, <2>3
<1>3. CASE UNCHANGED world \/ (\E k \in Jobs : CommandEnds(k) \/ ComesUp(k) \/ Exits(k) \/ SupervisorDies(k)) \/ Crash \/ Reboot
  <2>1. store' = store
    BY <1>3 DEF world, CommandEnds, ComesUp, Exits, SupervisorDies, Outside, Crash, Reboot, NewDaemon
  <2> QED
    BY <2>1
<1> QED
  BY <1>1, <1>2, <1>3, WorldTurns

\* An effect lets go of a supervisor only once its job is over, or before its command began.
LEMMA ReleasesLate ==
    ASSUME RunsInv, Shaped, NEW e \in effects, ReleaseRun(e), run[e.job].proc = "finished"
    PROVE  Over(store[e.job])
<1> SUFFICES ASSUME ~Over(store[e.job])
             PROVE  FALSE
  OBVIOUS
<1> DEFINE j == e.job
           c == entry[j]
           S == Sides(Mine(j))
           job == store[j]
           r == run[j]
<1>1. j \in Jobs /\ e.kind \in {"move", "discard"} /\ e.at = "release" /\ e.kind \notin SideKinds
  BY MineJobs DEF ReleaseRun, SideKinds
<1>2. OpenStands(j, c, S, {e}, job, r)
  BY <1>1, OpenMain
<1>3. WorldStands(j, job, r, ran[j]) /\ Good(c)
  BY <1>1, StoredStates DEF RunsInv, JobInv
<1>4. r.proc = "finished"
  OBVIOUS
<1> HIDE DEF j, c, S, job, r
<1>5. MainStands(j, e, c, S, job, r) /\ e.kind = MainOf(c.phase) /\ EntryStands(j, c, job, r)
  BY <1>2, OpenWith DEF OpenStands
<1>6. e.kind = "discard"
  BY <1>1, <1>5 DEF MainStands, MoveStands
<1>7. c.phase \in Phases
  BY <1>3 DEF Good, Entry
<1>8. c.phase = "discarding"
  BY <1>5, <1>6, <1>7, PhaseOf
<1>9. job.state = "queued"
  BY <1>5, <1>8 DEF EntryStands
<1> QED
  BY <1>3, <1>4, <1>9 DEF WorldStands

LEMMA KeepsOutcomes ==
    ASSUME RunsInv, Shaped, DaemonNext
    PROVE  \A j \in Jobs : run[j].proc = "finished" /\ run'[j].proc = "released" => store[j].state \in FinalStates
<1> SUFFICES ASSUME NEW j \in Jobs, run[j].proc = "finished", run'[j].proc = "released"
             PROVE  Over(store[j])
  BY DEF Over
<1>1. run[j] \in Run /\ (run[j].end = "cancelled" => run[j].cancel) /\ (run[j].proc = "finished" => run[j].end # "none")
  BY RunNow
<1>2. ASSUME NEW s, Gentle(run[j], s), run'[j] = s
      PROVE  FALSE
  BY <1>2 DEF Gentle
<1>3. CASE \E e \in effects : EffectStep(e)
  <2>1. PICK e \in effects : EffectStep(e)
    BY <1>3
  <2>2. e.job \in Jobs
    BY MineJobs
  <2>3. CASE ReleaseRun(e)
    <3>1. run' = run \/ SetRun(e.job, Release(run[e.job]))
      BY <2>3 DEF ReleaseRun
    <3>2. j = e.job
      BY <2>2, <3>1, SetRunIs
    <3> QED
      BY <2>3, <3>2, ReleasesLate
  <2>4. CASE ~ReleaseRun(e)
    <3> DEFINE r == run[e.job]
    <3>1. \/ run' = run
          \/ \E s \in {writeRecord(r), begin(makeDirectory(r)), comeUp(r), NoRun, Cancel(r), markStartSent(r), Start(r),
                       removeDirectory(r)} : SetRun(e.job, s)
      <4>1. CASE LaunchStep(e)
        BY <4>1 DEF LaunchStep, LaunchRead, LaunchSpawn, LaunchMkdir, LaunchUp, LaunchRecord, world
      <4>2. CASE FollowStep(e)
        BY <4>2 DEF FollowStep, CallCancel, FollowStart, FollowTell, Wait, world, SetRun
      <4>3. CASE ReleaseStep(e)
        BY <2>4, <4>3 DEF ReleaseStep, MoveRecord, Forget, Unrecord, removeRecord
      <4>4. CASE ReexamineLook(e) \/ ReexamineFind(e)
        BY <4>4 DEF ReexamineLook, ReexamineFind, world
      <4> QED
        BY <2>1, <4>1, <4>2, <4>3, <4>4 DEF EffectStep
    <3>2. PICK s \in {writeRecord(r), begin(makeDirectory(r)), comeUp(r), NoRun, Cancel(r), markStartSent(r), Start(r),
                      removeDirectory(r)} : SetRun(e.job, s)
      BY <3>1
    <3>3. j = e.job
      BY <2>2, <3>2, SetRunIs
    <3>4. run'[j] = s
      BY <2>2, <3>2, <3>3, SetRunIs
    <3>5. r \in Run /\ r.proc = "finished" /\ (r.end = "cancelled" => r.cancel) /\ r.end # "none"
      BY <1>1, <3>3
    <3> HIDE DEF r
    <3>6. writeRecord(r).proc # "released"
      BY <3>5, RunFields DEF writeRecord
    <3>7. begin(makeDirectory(r)).proc # "released" /\ comeUp(r).proc # "released"
      BY <3>5, Making, ComingUp
    <3>8. NoRun.proc # "released" /\ markStartSent(r).proc # "released" /\ removeDirectory(r).proc # "released"
      BY <3>5, NoRunIs, Marking, Removing
    <3>9. Start(r).proc # "released"
      BY <3>5, Starting
    <3>10. Cancel(r).proc # "released"
      BY <3>5, Cancelling
    <3> QED
      BY <3>2, <3>4, <3>6, <3>7, <3>8, <3>9, <3>10
  <2> QED
    BY <2>3, <2>4
<1>4. CASE \E k \in Jobs : CommandEnds(k) \/ ComesUp(k) \/ Exits(k) \/ SupervisorDies(k)
  <2>1. PICK k \in Jobs : CommandEnds(k) \/ ComesUp(k) \/ Exits(k) \/ SupervisorDies(k)
    BY <1>4
  <2>2. \E s : SetRun(k, s) /\ ((s \in Ends(run[k]) /\ run[k].proc = "executing") \/ s = comeUp(run[k]) \/ s = die(run[k]))
    BY <2>1 DEF CommandEnds, ComesUp, Exits, SupervisorDies
  <2>3. PICK s : SetRun(k, s) /\ ((s \in Ends(run[k]) /\ run[k].proc = "executing") \/ s = comeUp(run[k]) \/ s = die(run[k]))
    BY <2>2
  <2>4. k = j
    BY <2>3, SetRunIs
  <2>5. run'[j] = s
    BY <2>3, <2>4, SetRunIs
  <2>6. comeUp(run[j]).proc = "parked" /\ die(run[j]).proc = "none"
    BY <1>1, ComingUp, RunFields DEF die
  <2> QED
    BY <2>3, <2>4, <2>5, <2>6
<1>5. CASE (\E k \in Jobs : SubmitWrite(k)) \/ UNCHANGED world \/ Crash
  BY <1>5 DEF SubmitWrite, world, Crash
<1>6. CASE Reboot
  <2>1. run'[j] = reboot(run[j])
    BY <1>6 DEF Reboot
  <2> QED
    BY <1>1, <2>1, RebootIs
<1> QED
  BY <1>3, <1>4, <1>5, <1>6, WorldTurns

\* The effect of the phase goes on, with a run that changes gently.
LEMMA SwapMain ==
    ASSUME NEW j, NEW c, NEW S, NEW e, NEW d, NEW job, NEW r, OpenStands(j, c, S, {e}, job, r),
           MainStands(j, d, c, S, job, r)
    PROVE  OpenStands(j, c, S, {d}, job, r)
<1>1. ~Idles(c)
  BY OpenWith
<1> QED
  BY <1>1 DEF OpenStands

-----------------------------------------------------------------------------
(* A launch of a job that is not over. *)

\* While a job is launched nothing else is said of its store and its run.
LEMMA LaunchTurns ==
    ASSUME NEW j, NEW c, Good(c), NEW S, NEW e, NEW d, NEW job, NEW r, OpenStands(j, c, S, {e}, job, r),
           e.kind = "launch", d.kind = "launch", NEW job2, NEW r2, LaunchStands(d, job2, r2), job2.state # "absent"
    PROVE  OpenStands(j, c, S, {d}, job2, r2)
<1>1. c.phase = "launching" /\ EntryStands(j, c, job, r) /\ SidesStand(c, S, job, r) /\ ~Idles(c)
  <2>1. ~Idles(c)
    BY OpenWith
  <2> QED
    BY <2>1, Answering
<1>2. ~c.parked /\ c.phase \notin Ending
  BY <1>1 DEF Good, CoherentEntry, Ending
<1>3. EntryStands(j, c, job2, r2)
  BY <1>1, <1>2 DEF EntryStands
<1>4. \A x \in S : SideStands(x, c, S, job2, r2)
  BY <1>1 DEF SidesStand, SideStands, LookFits
<1>5. MainStands(j, d, c, S, job2, r2)
  BY <1>1, MainOfPhases DEF MainStands
<1> QED
  BY <1>1, <1>2, <1>3, <1>4, <1>5 DEF OpenStands

LEMMA SetStoreIs ==
    ASSUME Shaped, NEW j \in Jobs, NEW job, SetStore(j, job)
    PROVE  store'[j] = job /\ \A k \in Jobs : k # j => store'[k] = store[k]
  BY DEF SetStore, Shaped, ShellInv, WorldOK

LEMMA BesideShifts ==
    ASSUME RunsInv, NEW e \in effects, Beside, NEW d, Goes(e, d), effects' = (effects \ {e}) \cup {d}, Speaks(d),
           UNCHANGED ran,
           \A k \in Jobs : k # e.job => store'[k] = store[k] /\ run'[k] = run[k]
    PROVE  Shifted(e, {d})
<1>1. ran \in [Jobs -> Nat]
  BY DEF RunsInv, Calm
<1> QED
  BY <1>1 DEF Shifted, Goes

LEMMA EventIs ==
    ASSUME NEW type, NEW cause
    PROVE  Event(type).type = type /\ Failed(type, cause).type = type /\ Failed(type, cause).cause = cause
  BY DEF Event, Failed

LEMMA WorldNow ==
    ASSUME RunsInv, Shaped, NEW e \in effects
    PROVE  /\ e.job \in Jobs /\ run[e.job] \in Run /\ Good(entry[e.job])
           /\ WorldStands(e.job, store[e.job], run[e.job], ran[e.job])
  BY MineJobs, StoredStates DEF RunsInv, JobInv

LEMMA LaunchMoves ==
    ASSUME RunsInv, Shaped, NEW e \in effects, e.kind = "launch", ~Over(store[e.job]), Beside, UNCHANGED ran,
           NEW d, Goes(e, d), effects' = (effects \ {e}) \cup {d}, Speaks(d),
           \A k \in Jobs : k # e.job => store'[k] = store[k] /\ run'[k] = run[k],
           store'[e.job].state \in {"queued", "running"},
           WorldStands(e.job, store'[e.job], run'[e.job], ran[e.job]),
           LaunchStands(d, store'[e.job], run'[e.job])
    PROVE  RunsInv'
<1>1. Shifted(e, {d})
  BY BesideShifts
<1>2. e.kind \notin SideKinds /\ d.kind = "launch"
  BY DEF SideKinds, Goes
<1>3. /\ OpenStands(e.job, entry[e.job], Sides(Mine(e.job)), {e}, store[e.job], run[e.job])
      /\ Good(entry[e.job])
  BY <1>2, OpenMain, WorldNow
<1>4. store'[e.job].state # "absent" /\ ~Over(store'[e.job])
  BY DEF Over, FinalStates
<1>5. OpenStands(e.job, entry[e.job], Sides(Mine(e.job)), {d}, store'[e.job], run'[e.job])
  BY <1>2, <1>3, <1>4, LaunchTurns
<1>6. WorldStands(e.job, store'[e.job], run'[e.job], ran'[e.job]) /\ d.kind = e.kind
  BY <1>2
<1> QED
  BY <1>1, <1>2, <1>4, <1>5, <1>6, MainMoves

LEMMA LaunchNow ==
    ASSUME RunsInv, Shaped, NEW e \in effects, e.kind = "launch", e.at # "post", ~Over(store[e.job])
    PROVE  LaunchStands(e, store[e.job], run[e.job]) /\ store[e.job].state = "queued"
<1>1. e.kind \notin SideKinds
  BY DEF SideKinds
<1>2. /\ OpenStands(e.job, entry[e.job], Sides(Mine(e.job)), {e}, store[e.job], run[e.job])
      /\ Good(entry[e.job])
  BY <1>1, OpenMain, WorldNow
<1>3. LaunchStands(e, store[e.job], run[e.job])
  BY <1>2, Answering
<1> QED
  BY <1>3 DEF LaunchStands

LEMMA LaunchReadStays ==
    ASSUME RunsInv, Shaped, NEW e \in effects, ~Over(store[e.job]), LaunchRead(e)
    PROVE  RunsInv'
<1>1. /\ e.kind = "launch" /\ e.at = "read" /\ Beside
      /\ store' = store /\ run' = run /\ UNCHANGED ran
  BY DEF LaunchRead, world
<1>2. LaunchStands(e, store[e.job], run[e.job]) /\ store[e.job].state = "queued"
  BY <1>1, LaunchNow
<1>3. run[e.job] = NoRun
  BY <1>1, <1>2 DEF LaunchStands
<1>4. WorldStands(e.job, store'[e.job], run'[e.job], ran[e.job]) /\ store'[e.job].state \in {"queued", "running"}
  BY <1>1, <1>2, WorldNow
<1>5. \A k \in Jobs : k # e.job => store'[k] = store[k] /\ run'[k] = run[k]
  BY <1>1
<1>6. PICK d : /\ Goes(e, d) /\ effects' = (effects \ {e}) \cup {d}
               /\ \/ d.at = "spawn"
                  \/ d.at = "post" /\ LaunchedStands(d.ev, store[e.job], run[e.job])
               /\ Speaks(d)
  <2>1. CASE Goto(e, "spawn")
    <3>1. PICK d : Goes(e, d) /\ d.at = "spawn" /\ effects' = (effects \ {e}) \cup {d}
      BY <2>1, GotoIs
    <3>2. Speaks(d)
      BY <3>1 DEF Speaks
    <3> QED
      BY <3>1, <3>2
  <2>2. ASSUME NEW ev, Answer(e, ev), LaunchedStands(ev, store[e.job], run[e.job])
        PROVE  \E d : /\ Goes(e, d) /\ effects' = (effects \ {e}) \cup {d}
                      /\ d.at = "post" /\ LaunchedStands(d.ev, store[e.job], run[e.job])
                      /\ Speaks(d)
    <3>1. PICK d : Goes(e, d) /\ d.at = "post" /\ d.ev = ev /\ effects' = (effects \ {e}) \cup {d}
      BY <2>2, AnswerIs
    <3>2. ev.type \in {"Launched", "LaunchFailed", "LeaseRefused"}
      BY <2>2 DEF LaunchedStands
    <3>3. Speaks(d)
      BY <1>1, <3>1, <3>2 DEF Speaks, AnswersOf, Goes
    <3> QED
      BY <2>2, <3>1, <3>3
  <2>3. LaunchedStands(Event("LeaseRefused"), store[e.job], run[e.job])
    BY <1>2, <1>3 DEF LaunchedStands, Event
  <2>4. ASSUME NEW cause \in {"store away", "unprepared"}
        PROVE  LaunchedStands(Failed("LaunchFailed", cause), store[e.job], run[e.job])
    <3>1. run[e.job].proc = "none"
      BY <1>3, NoRunIs
    <3> QED
      BY <1>2, <1>3, <2>4, <3>1 DEF LaunchedStands, Failed, StoreSilent, Unstarted
  <2> QED
    BY <1>2, <2>1, <2>2, <2>3, <2>4 DEF LaunchRead
<1>7. LaunchStands(d, store'[e.job], run'[e.job])
  BY <1>1, <1>2, <1>3, <1>6 DEF LaunchStands
<1> QED
  BY <1>1, <1>4, <1>5, <1>6, <1>7, LaunchMoves

LEMMA NoRunStands ==
    ASSUME NEW j, NEW job, NEW r, NEW n, WorldStands(j, job, r, n), job.state # "running"
    PROVE  WorldStands(j, job, NoRun, n)
<1>1. NoRun.proc = "none" /\ NoRun.end = "none"
  BY NoRunIs
<1> QED
  BY <1>1 DEF WorldStands

LEMMA SilenceIs ==
    LET ev == Failed("LaunchFailed", "supervisor silent")
    IN  ev.type = "LaunchFailed" /\ Unstarted(ev)
  BY EventIs DEF Unstarted

\* A spawn that fails: the run has no process, and the launch says that none started.
LEMMA SpawnFails ==
    ASSUME RunsInv, Shaped, NEW e \in effects, ~Over(store[e.job]), e.kind = "launch", e.at # "post",
           store[e.job].state = "queued", Beside, store' = store, UNCHANGED ran, NotSpawned(e),
           run'[e.job].proc = "none", WorldStands(e.job, store[e.job], run'[e.job], ran[e.job]),
           \A k \in Jobs : k # e.job => run'[k] = run[k]
    PROVE  RunsInv'
<1> DEFINE j == e.job
<1>1. PICK d : /\ Goes(e, d) /\ d.at = "post" /\ d.ev = Failed("LaunchFailed", "supervisor silent")
               /\ effects' = (effects \ {e}) \cup {d}
  BY AnswerIs DEF NotSpawned
<1>2. d.ev.type = "LaunchFailed" /\ Unstarted(d.ev)
  BY <1>1, SilenceIs
<1>3. LaunchStands(d, store'[j], run'[j])
  BY <1>1, <1>2 DEF LaunchStands, LaunchedStands
<1>4. Speaks(d)
  BY <1>1, <1>2 DEF Speaks, AnswersOf, Goes
<1>5. WorldStands(j, store'[j], run'[j], ran[j]) /\ store'[j].state \in {"queued", "running"}
  OBVIOUS
<1>6. \A k \in Jobs : k # j => store'[k] = store[k] /\ run'[k] = run[k]
  OBVIOUS
<1> QED
  BY <1>1, <1>3, <1>4, <1>5, <1>6, LaunchMoves

LEMMA LaunchSpawnStays ==
    ASSUME RunsInv, Shaped, NEW e \in effects, ~Over(store[e.job]), LaunchSpawn(e)
    PROVE  RunsInv'
<1> DEFINE j == e.job
           r == writeRecord(run[j])
<1>1. e.kind = "launch" /\ e.at = "spawn" /\ Beside /\ store' = store /\ UNCHANGED ran
  BY DEF LaunchSpawn
<1>2. LaunchStands(e, store[j], run[j]) /\ store[j].state = "queued"
  BY <1>1, LaunchNow
<1>3. run[j] = NoRun
  BY <1>1, <1>2 DEF LaunchStands
<1>4. j \in Jobs /\ WorldStands(j, store[j], run[j], ran[j])
  BY WorldNow
<1>5. CASE SetRun(j, r) /\ Goto(e, "mkdir")
  <2>1. r.proc = "none" /\ r.dir = FALSE /\ r.end = "none" /\ Unsent(r)
    BY <1>3, Spawning
  <2>2. run'[j] = r /\ \A k \in Jobs : k # j => run'[k] = run[k]
    BY <1>4, <1>5, SetRunIs
  <2> HIDE DEF r
  <2>3. WorldStands(j, store'[j], run'[j], ran[j])
    <3>1. ~Unmarked(r)
      BY <2>1, Marked
    <3> QED
      BY <1>1, <1>2, <1>4, <2>1, <2>2, <3>1 DEF WorldStands, Over, FinalStates
  <2>4. PICK d : Goes(e, d) /\ d.at = "mkdir" /\ effects' = (effects \ {e}) \cup {d}
    BY <1>1, <1>5, GotoIs
  <2>5. LaunchStands(d, store'[j], run'[j]) /\ Speaks(d)
    BY <1>1, <1>2, <2>1, <2>2, <2>4 DEF LaunchStands, Speaks
  <2>6. /\ store'[j].state \in {"queued", "running"}
        /\ \A k \in Jobs : k # j => store'[k] = store[k] /\ run'[k] = run[k]
    BY <1>1, <1>2, <2>2
  <2> QED
    BY <1>1, <2>3, <2>4, <2>5, <2>6, LaunchMoves
<1>6. CASE run' = run /\ NotSpawned(e)
  BY <1>1, <1>2, <1>3, <1>4, <1>6, NoRunIs, SpawnFails
<1> QED
  BY <1>5, <1>6 DEF LaunchSpawn

LEMMA LaunchMkdirStays ==
    ASSUME RunsInv, Shaped, NEW e \in effects, ~Over(store[e.job]), LaunchMkdir(e)
    PROVE  RunsInv'
<1> DEFINE j == e.job
           r == begin(makeDirectory(run[j]))
<1>1. e.kind = "launch" /\ e.at = "mkdir" /\ Beside /\ store' = store /\ UNCHANGED ran
  BY DEF LaunchMkdir
<1>2. LaunchStands(e, store[j], run[j]) /\ store[j].state = "queued"
  BY <1>1, LaunchNow
<1>3. Unsent(run[j]) /\ run[j].proc = "none" /\ ~run[j].dir /\ run[j].end = "none"
  BY <1>1, <1>2 DEF LaunchStands
<1>4. j \in Jobs /\ run[j] \in Run /\ WorldStands(j, store[j], run[j], ran[j])
  BY WorldNow
<1>5. CASE SetRun(j, r) /\ Goto(e, "up")
  <2>1. r.proc = "starting" /\ r.dir = TRUE /\ r.end = "none" /\ r.mark = run[j].mark
    BY <1>4, Making
  <2>2. run'[j] = r /\ \A k \in Jobs : k # j => run'[k] = run[k]
    BY <1>4, <1>5, SetRunIs
  <2> HIDE DEF r
  <2>3. Unsent(r) /\ ~Unmarked(r)
    BY <1>3, <2>1 DEF Unsent, Unmarked
  <2>4. WorldStands(j, store'[j], run'[j], ran[j])
    BY <1>1, <1>2, <1>4, <2>1, <2>2, <2>3 DEF WorldStands, Over, FinalStates
  <2>5. PICK d : Goes(e, d) /\ d.at = "up" /\ effects' = (effects \ {e}) \cup {d}
    BY <1>5, GotoIs
  <2>6. LaunchStands(d, store'[j], run'[j]) /\ Speaks(d)
    BY <1>1, <1>2, <2>1, <2>2, <2>3, <2>5 DEF LaunchStands, Speaks
  <2>7. /\ store'[j].state \in {"queued", "running"}
        /\ \A k \in Jobs : k # j => store'[k] = store[k] /\ run'[k] = run[k]
    BY <1>1, <1>2, <2>2
  <2> QED
    BY <1>1, <2>4, <2>5, <2>6, <2>7, LaunchMoves
<1>6. CASE run' = run /\ NotSpawned(e)
  BY <1>1, <1>2, <1>3, <1>4, <1>6, SpawnFails
<1> QED
  BY <1>3, <1>5, <1>6 DEF LaunchMkdir

LEMMA LaunchUpStays ==
    ASSUME RunsInv, Shaped, NEW e \in effects, ~Over(store[e.job]), LaunchUp(e)
    PROVE  RunsInv'
<1> DEFINE j == e.job
           r == comeUp(run[j])
<1>1. e.kind = "launch" /\ e.at = "up" /\ Beside /\ store' = store /\ UNCHANGED ran
  BY DEF LaunchUp
<1>2. LaunchStands(e, store[j], run[j]) /\ store[j].state = "queued"
  BY <1>1, LaunchNow
<1>3. Unsent(run[j]) /\ run[j].proc = "starting"
  BY <1>1, <1>2 DEF LaunchStands
<1>4. j \in Jobs /\ run[j] \in Run /\ WorldStands(j, store[j], run[j], ran[j])
  BY WorldNow
<1>5. store'[j].state \in {"queued", "running"}
  BY <1>1, <1>2
<1>6. CASE /\ SetRun(j, r)
           /\ effects' = (effects \ {e}) \cup {[e EXCEPT !.at = "record", !.h = TRUE]}
  <2>1. /\ r.proc = "parked" /\ r.dir = run[j].dir /\ r.end = run[j].end /\ r.mark = run[j].mark
        /\ r.cancel = run[j].cancel
    BY <1>4, ComingUp
  <2>2. run'[j] = r /\ \A k \in Jobs : k # j => run'[k] = run[k]
    BY <1>4, <1>6, SetRunIs
  <2> HIDE DEF r
  <2>3. Unsent(r) /\ ~Unmarked(r)
    BY <1>3, <2>1 DEF Unsent, Unmarked
  <2>4. WorldStands(j, store'[j], run'[j], ran[j])
    BY <1>1, <1>2, <1>3, <1>4, <2>1, <2>2, <2>3 DEF WorldStands, Over, FinalStates
  <2>5. PICK d : Goes(e, d) /\ d.at = "record" /\ effects' = (effects \ {e}) \cup {d}
    <3> DEFINE d == [e EXCEPT !.at = "record", !.h = TRUE]
    <3>1. DOMAIN e = {"kind", "job", "at", "h", "settlement", "flag", "ev"}
      BY DEF Shaped, ShellInv, EffectsOK, EffectOK
    <3>2. Goes(e, d) /\ d.at = "record"
      BY <3>1 DEF Goes
    <3> QED
      BY <1>6, <3>2
  <2>6. LaunchStands(d, store'[j], run'[j]) /\ Speaks(d)
    BY <1>1, <1>2, <2>1, <2>2, <2>3, <2>5 DEF LaunchStands, Speaks
  <2>7. \A k \in Jobs : k # j => store'[k] = store[k] /\ run'[k] = run[k]
    BY <1>1, <2>2
  <2> QED
    BY <1>1, <1>5, <2>4, <2>5, <2>6, <2>7, LaunchMoves
<1>7. CASE SetRun(j, NoRun) /\ NotSpawned(e)
  <2>1. run'[j] = NoRun /\ \A k \in Jobs : k # j => run'[k] = run[k]
    BY <1>4, <1>7, SetRunIs
  <2>2. WorldStands(j, store[j], run'[j], ran[j])
    BY <1>2, <1>4, <2>1, NoRunStands
  <2> QED
    BY <1>1, <1>2, <1>7, <2>1, <2>2, NoRunIs, SpawnFails
<1> QED
  BY <1>6, <1>7 DEF LaunchUp

\* A queued job is recorded as running, and its attempts stay.
LEMMA RecordedRunning ==
    ASSUME NEW job, job.state = "queued"
    PROVE  /\ Recorded(job, ToRunning)
           /\ record(job, ToRunning).state = "running" /\ record(job, ToRunning).attempts = job.attempts
<1>1. follow(job, ToRunning) = ToRunning
  BY DEF follow, ToRunning
<1>2. Applies(job, ToRunning)
  BY DEF Applies, ToRunning, CanMoveTo
<1>3. record(job, ToRunning) = Apply(job, ToRunning)
  BY <1>1, <1>2 DEF record
<1>4. Apply(job, ToRunning).state = "running" /\ Apply(job, ToRunning).attempts = job.attempts
  BY DEF Apply, ToRunning
<1> QED
  BY <1>1, <1>2, <1>3, <1>4 DEF Recorded

LEMMA LaunchRecordStays ==
    ASSUME RunsInv, Shaped, NEW e \in effects, ~Over(store[e.job]), LaunchRecord(e)
    PROVE  RunsInv'
<1> DEFINE j == e.job
           job == record(store[j], ToRunning)
<1>1. e.kind = "launch" /\ e.at = "record" /\ Beside /\ run' = run /\ UNCHANGED ran
  BY DEF LaunchRecord
<1>2. LaunchStands(e, store[j], run[j]) /\ store[j].state = "queued"
  BY <1>1, LaunchNow
<1>3. Unsent(run[j]) /\ run[j].proc \in {"parked", "none"}
  BY <1>1, <1>2 DEF LaunchStands
<1>4. j \in Jobs /\ run[j] \in Run /\ WorldStands(j, store[j], run[j], ran[j])
  BY WorldNow
<1>5. Recorded(store[j], ToRunning) /\ job.state = "running" /\ job.attempts = store[j].attempts
  BY <1>2, RecordedRunning
<1>6. PICK ev : /\ Answer(e, ev)
                /\ \/ SetStore(j, job) /\ ev = Event("Launched")
                   \/ (store' = store \/ SetStore(j, job)) /\ ev = Failed("LaunchFailed", "store away")
  BY <1>5 DEF LaunchRecord, SetStore
<1>7. PICK d : Goes(e, d) /\ d.at = "post" /\ d.ev = ev /\ effects' = (effects \ {e}) \cup {d}
  BY <1>6, AnswerIs
<1>8. ev.type \in {"Launched", "LaunchFailed"} /\ (ev.type = "LaunchFailed" => StoreSilent(ev))
  <2>1. ev = Event("Launched") => ev.type = "Launched"
    BY EventIs
  <2>2. /\ Failed("LaunchFailed", "store away").type = "LaunchFailed"
        /\ Failed("LaunchFailed", "store away").cause = "store away"
    BY EventIs
  <2> QED
    BY <1>6, <2>1, <2>2 DEF StoreSilent
<1> HIDE DEF job
<1>9. /\ store'[j] = job \/ (store'[j] = store[j] /\ ev.type = "LaunchFailed")
      /\ \A k \in Jobs : k # j => store'[k] = store[k] /\ run'[k] = run[k]
  <2>1. SetStore(j, job) => store'[j] = job /\ \A k \in Jobs : k # j => store'[k] = store[k]
    BY <1>4, SetStoreIs
  <2>2. Failed("LaunchFailed", "store away").type = "LaunchFailed"
    BY EventIs
  <2> QED
    BY <1>1, <1>6, <2>1, <2>2
<1>10. WorldStands(j, job, run[j], ran[j])
  <2>1. BegunBefore(j, job) = BegunBefore(j, store[j])
    BY <1>5 DEF BegunBefore
  <2>2. ~Unmarked(run[j])
    BY <1>3, Marked
  <2> QED
    BY <1>2, <1>3, <1>4, <1>5, <2>1, <2>2 DEF WorldStands, Over, FinalStates
<1>11. WorldStands(j, store'[j], run'[j], ran[j]) /\ store'[j].state \in {"queued", "running"}
  BY <1>1, <1>2, <1>4, <1>5, <1>9, <1>10
<1>12. LaunchStands(d, store'[j], run'[j])
  <2>1. LaunchedStands(d.ev, store'[j], run'[j])
    BY <1>1, <1>3, <1>5, <1>7, <1>8, <1>9, <1>11 DEF LaunchedStands
  <2> QED
    BY <1>7, <2>1 DEF LaunchStands
<1>13. Speaks(d)
  BY <1>1, <1>7, <1>8 DEF Speaks, AnswersOf, Goes
<1> QED
  BY <1>1, <1>7, <1>9, <1>11, <1>12, <1>13, LaunchMoves

-----------------------------------------------------------------------------
(* A launch of a job that is over: it finds the end. *)

LEMMA LaunchOverStays ==
    ASSUME RunsInv, Shaped, NEW e \in effects, Over(store[e.job]), LaunchStep(e)
    PROVE  RunsInv'
<1>1. e.job \in Jobs /\ e \in Mine(e.job)
  BY MineJobs
<1>2. e.kind = "launch"
  BY DEF LaunchStep, LaunchRead, LaunchSpawn, LaunchMkdir, LaunchUp, LaunchRecord
<1>3. e.at \in {"read", "post"}
  BY <1>1, <1>2 DEF RunsInv, JobInv, JobStands, OverStands, Tame
<1>4. LaunchRead(e)
  BY <1>3 DEF LaunchStep, LaunchSpawn, LaunchMkdir, LaunchUp, LaunchRecord
<1>5. Beside /\ store' = store /\ run' = run /\ ran' = ran
  BY <1>4 DEF LaunchRead, world
<1>6. PICK ev : Answer(e, ev) /\ ev.type \in {"Closed", "LeaseRefused", "LaunchFailed"}
  <2>1. store[e.job].state # "queued"
    BY DEF Over, FinalStates
  <2>2. /\ Event("Closed").type = "Closed" /\ Event("LeaseRefused").type = "LeaseRefused"
        /\ \A cause : Failed("LaunchFailed", cause).type = "LaunchFailed"
    BY EventIs
  <2> QED
    BY <1>4, <2>1, <2>2 DEF LaunchRead
<1>7. PICK d : Goes(e, d) /\ d.at = "post" /\ d.ev = ev /\ effects' = (effects \ {e}) \cup {d}
  <2>1. Answer(e, ev)
    BY <1>6
  <2> QED
    BY <2>1, AnswerIs
<1>8. Speaks(d)
  BY <1>2, <1>6, <1>7 DEF Speaks, AnswersOf, Goes
<1>9. Tame(d, run'[e.job])
  BY <1>2, <1>6, <1>7 DEF Tame, Goes
<1>10. \A k \in Jobs : k # e.job => store'[k] = store[k] /\ run'[k] = run[k]
  BY <1>5
<1>11. Shifted(e, {d})
  BY <1>5, <1>7, <1>8, <1>10, BesideShifts
<1>12. WorldStands(e.job, store[e.job], run'[e.job], ran'[e.job]) /\ store'[e.job] = store[e.job]
  BY <1>5, WorldNow
<1>13. run'[e.job].proc = "parked" => run[e.job].proc = "parked"
  BY <1>5
<1> QED
  BY <1>9, <1>11, <1>12, <1>13, OverGoesOn

LEMMA LaunchStepStays ==
    ASSUME RunsInv, Shaped, NEW e \in effects, LaunchStep(e)
    PROVE  RunsInv'
  BY LaunchReadStays, LaunchSpawnStays, LaunchMkdirStays, LaunchUpStays, LaunchRecordStays, LaunchOverStays
     DEF LaunchStep

LEMMA StoredAttempts ==
    ASSUME Shaped, NEW j \in Jobs
    PROVE  store[j].attempts \in Nat
<1>1. store[j] \in StoredJob \cup {Absent}
  BY DEF Shaped, ShellInv, WorldOK
<1> QED
  BY <1>1, AttemptsAssumption, SMT DEF StoredJob, Absent

-----------------------------------------------------------------------------
(* The end of a job in its store. *)

\* What a move does, of a job whose end is decided.
LEMMA MoveRecordIs ==
    ASSUME Shaped, NEW e \in effects, e.job \in Jobs, MoveRecord(e),
           e.settlement \in Settlement, Requeues(e.settlement) => ~e.flag,
           store[e.job].state \in {"queued", "running"}
    PROVE  /\ e.kind = "move" /\ e.at = "record" /\ Beside /\ run' = run /\ UNCHANGED ran
           /\ \A k \in Jobs : k # e.job => store'[k] = store[k]
           /\ store'[e.job] \in {store[e.job], record(store[e.job], e.settlement)}
           /\ \E d : /\ Goes(e, d) /\ effects' = (effects \ {e}) \cup {d} /\ Speaks(d)
                     /\ \/ d.at = "post" /\ d.ev.type = "MoveFailed"
                        \/ d.at = "post" /\ d.ev.type = "Requeued" /\ Requeues(e.settlement) /\ store'[e.job].state = "queued"
                        \/ store'[e.job].state \in FinalStates
<1> DEFINE j == e.job
           t == e.settlement
           job == record(store[j], t)
<1>1. e.kind = "move" /\ e.at = "record" /\ Beside /\ run' = run /\ UNCHANGED ran
  BY DEF MoveRecord
<1>2. /\ SetStore(j, job) => store'[j] = job /\ \A k \in Jobs : k # j => store'[k] = store[k]
      /\ store' = store \/ SetStore(j, job)
  <2>1. SetStore(j, job) => store'[j] = job /\ \A k \in Jobs : k # j => store'[k] = store[k]
    BY SetStoreIs
  <2> QED
    BY <2>1 DEF MoveRecord, SetStore
<1>3. /\ Event("MoveFailed").type = "MoveFailed" /\ Event("Requeued").type = "Requeued"
      /\ Event("Closed").type = "Closed"
  BY EventIs
<1>4. Recorded(store[j], t) => job.state = t.to
  BY RecordIs
<1>5. t.to \in FinalStates \/ t.to = "queued"
  BY DEF Settlement
<1> HIDE DEF job
<1>6. ASSUME NEW ev, Answer(e, ev), ev.type \in {"MoveFailed", "Requeued", "Closed"}
      PROVE  \E d : /\ Goes(e, d) /\ effects' = (effects \ {e}) \cup {d} /\ Speaks(d)
                    /\ d.at = "post" /\ d.ev.type = ev.type
  <2>1. PICK d : Goes(e, d) /\ d.at = "post" /\ d.ev = ev /\ effects' = (effects \ {e}) \cup {d}
    BY <1>6, AnswerIs, SMT
  <2>2. Speaks(d)
    BY <1>1, <1>6, <2>1 DEF Speaks, AnswersOf, Goes
  <2> QED
    BY <2>1, <2>2
<1>7. CASE Answer(e, Event("MoveFailed"))
  <2>1. Event("MoveFailed").type \in {"MoveFailed", "Requeued", "Closed"}
    BY <1>3
  <2>2. PICK d : /\ Goes(e, d) /\ effects' = (effects \ {e}) \cup {d} /\ Speaks(d)
                 /\ d.at = "post" /\ d.ev.type = "MoveFailed"
    BY <1>3, <1>6, <1>7, <2>1
  <2> QED
    BY <1>1, <1>2, <2>2 DEF job
<1>8. CASE /\ Recorded(store[j], t) /\ SetStore(j, job)
           /\ IF e.flag THEN Goto(e, "release") ELSE Answer(e, Event(IF Requeues(t) THEN "Requeued" ELSE "Closed"))
  <2>1. store'[j] = job /\ store'[j].state = t.to
    BY <1>2, <1>4, <1>8
  <2>2. CASE Requeues(t)
    <3>1. Answer(e, Event("Requeued")) /\ Event("Requeued").type \in {"MoveFailed", "Requeued", "Closed"}
      BY <1>3, <1>8, <2>2
    <3>2. PICK d : /\ Goes(e, d) /\ effects' = (effects \ {e}) \cup {d} /\ Speaks(d)
                   /\ d.at = "post" /\ d.ev.type = "Requeued"
      BY <1>3, <1>6, <3>1
    <3>3. store'[j].state = "queued"
      BY <2>1, <2>2 DEF Requeues
    <3> QED
      BY <1>1, <1>2, <2>1, <2>2, <3>2, <3>3 DEF job
  <2>3. CASE ~Requeues(t)
    <3>1. store'[j].state \in FinalStates
      BY <1>5, <2>1, <2>3 DEF Requeues
    <3>2. CASE e.flag
      <4>1. PICK d : Goes(e, d) /\ d.at = "release" /\ effects' = (effects \ {e}) \cup {d}
        BY <1>8, <3>2, GotoIs
      <4>2. Speaks(d)
        BY <4>1 DEF Speaks
      <4> QED
        BY <1>1, <1>2, <2>1, <3>1, <4>1, <4>2 DEF job
    <3>3. CASE ~e.flag
      <4>1. Answer(e, Event("Closed")) /\ Event("Closed").type \in {"MoveFailed", "Requeued", "Closed"}
        BY <1>3, <1>8, <2>3, <3>3
      <4>2. PICK d : /\ Goes(e, d) /\ effects' = (effects \ {e}) \cup {d} /\ Speaks(d)
                     /\ d.at = "post" /\ d.ev.type = "Closed"
        BY <1>3, <1>6, <4>1
      <4> QED
        BY <1>1, <1>2, <2>1, <3>1, <4>2 DEF job
    <3> QED
      BY <3>2, <3>3
  <2> QED
    BY <2>2, <2>3
<1> QED
  BY <1>7, <1>8 DEF MoveRecord, job

\* A job that was cut off is queued again.
LEMMA RequeuedStands ==
    ASSUME NEW j, NEW c, Good(c), NEW S, NEW e, NEW d, NEW job, job.attempts \in Nat, NEW r, NEW n, NEW job2,
           OpenStands(j, c, S, {e}, job, r), c.phase \in Ending, Requeues(c.settlement),
           WorldStands(j, job, r, n), job.state = "running", e.kind = "move",
           job2.state = "queued", job2.attempts = job.attempts + 1,
           Goes(e, d), MoveStands(d, c, job2)
    PROVE  WorldStands(j, job2, r, n) /\ OpenStands(j, c, S, {d}, job2, r)
<1>1. EndingStands(j, c, job, r)
  BY DEF OpenStands
<1>2. r.proc = "none" /\ (j \notin Rerun => Unsent(r))
  BY <1>1 DEF EndingStands
<1>3. n \in Nat /\ n <= BegunBefore(j, job2) /\ n <= IF j \in Rerun THEN job2.attempts + 1 ELSE 1
  <2>1. n \in Nat /\ n <= IF j \in Rerun THEN job.attempts + 1 ELSE 1
    BY DEF WorldStands
  <2>2. j \notin Rerun => n <= BegunBefore(j, job)
    BY <1>2 DEF WorldStands
  <2> QED
    BY <2>1, <2>2, SMT DEF BegunBefore
<1>4. WorldStands(j, job2, r, n)
  BY <1>2, <1>3 DEF WorldStands, Over, FinalStates
<1>5. EntryStands(j, c, job2, r)
  <2>1. EntryStands(j, c, job, r)
    BY DEF OpenStands
  <2>2. c.phase \notin {"none", "queued", "discarding", "indoubt"}
    BY DEF Ending
  <2>3. ~c.parked
    BY <2>2 DEF Good, CoherentEntry
  <2> QED
    BY <2>1, <2>2, <2>3 DEF EntryStands
<1>6. EndingStands(j, c, job2, r)
  BY <1>1 DEF EndingStands
<1>7. \A x \in S : SideStands(x, c, S, job2, r)
  BY DEF OpenStands, SideStands, LookFits
<1>8. MainStands(j, e, c, S, job, r) /\ ~Idles(c)
  BY OpenWith
<1>9. MainStands(j, d, c, S, job2, r)
  BY <1>8 DEF MainStands, Goes
<1> QED
  BY <1>4, <1>5, <1>6, <1>7, <1>8, <1>9 DEF OpenStands

\* A move that fails leaves the job as it is.
LEMMA UnmovedStands ==
    ASSUME NEW j, NEW c, NEW S, NEW e, NEW d, NEW job, NEW r, OpenStands(j, c, S, {e}, job, r), e.kind = "move",
           Goes(e, d), MoveStands(d, c, job)
    PROVE  OpenStands(j, c, S, {d}, job, r)
<1>1. MainStands(j, e, c, S, job, r)
  BY OpenWith
<1>2. MainStands(j, d, c, S, job, r)
  BY <1>1 DEF MainStands, Goes
<1> QED
  BY <1>2, SwapMain

\* The end of a job is in its store: nothing that is under way brings its run back to life.
LEMMA EndedStands ==
    ASSUME NEW j, NEW c, Good(c), NEW E, NEW e, Mains(E) = {e}, NEW d, NEW job, NEW r, NEW n,
           OpenStands(j, c, Sides(E), {e}, job, r), c.phase \in Ending, WorldStands(j, job, r, n),
           e.kind = "move", d.kind = "move",
           NEW job2, Over(job2), job2.attempts = job.attempts
    PROVE  WorldStands(j, job2, r, n) /\ OverStands(c, (E \ {e}) \cup {d}, r)
<1>1. r.proc \in {"none", "parked", "finished"}
  BY DEF OpenStands, EndingStands
<1>2. WorldStands(j, job2, r, n)
  BY <1>1 DEF WorldStands, Over, FinalStates
<1>3. ASSUME NEW x \in E
      PROVE  Tame(x, r)
  <2>1. CASE x.kind \in SideKinds
    <3>1. SideStands(x, c, Sides(E), job, r)
      BY <1>3, <2>1 DEF OpenStands, Sides
    <3>2. x.kind = "reexamine" => r.proc # "parked"
      BY <3>1 DEF SideStands, LookFits
    <3> QED
      BY <2>1, <3>2 DEF Tame, SideKinds
  <2>2. CASE x.kind \notin SideKinds
    <3>1. x = e
      BY <1>3, <2>2 DEF Mains
    <3> QED
      BY <3>1 DEF Tame
  <2> QED
    BY <2>1, <2>2
<1>4. Tame(d, r)
  BY DEF Tame
<1>5. ~c.parked
  BY DEF Good, CoherentEntry, Ending
<1> QED
  BY <1>2, <1>3, <1>4, <1>5 DEF OverStands

LEMMA MoveRecordStays ==
    ASSUME RunsInv, Shaped, NEW e \in effects, ~Over(store[e.job]), MoveRecord(e)
    PROVE  RunsInv'
<1> DEFINE j == e.job
           c == entry[j]
           E == Mine(j)
           S == Sides(E)
           job == store[j]
           r == run[j]
           n == ran[j]
           t == e.settlement
           job2 == store'[j]
<1>1. e.kind = "move" /\ e.at = "record"
  BY DEF MoveRecord
<1>2. e.kind \notin SideKinds
  BY <1>1 DEF SideKinds
<1>3. /\ Mains(E) = {e} /\ OpenStands(j, c, S, {e}, job, r) /\ c.phase # "none"
      /\ job.state \in {"queued", "running"}
  BY <1>2, OpenMain
<1>4. j \in Jobs /\ WorldStands(j, job, r, n) /\ Good(c) /\ job.attempts \in Nat
  BY WorldNow, StoredAttempts
<1>5. c.phase \in Ending /\ MoveStands(e, c, job)
  BY <1>1, <1>3, <1>4, Answering
<1>6. t = c.settlement /\ e.flag = c.release /\ t \in Settlement /\ (Requeues(t) => ~e.flag)
  <2>1. t = c.settlement /\ e.flag = c.release
    BY <1>5 DEF MoveStands
  <2>2. c.settlement # NoSettlement /\ (Requeues(c.settlement) => ~c.release)
    BY <1>4, <1>5 DEF Good, CoherentEntry
  <2>3. c.settlement \in Settlement \cup {NoSettlement}
    BY <1>4 DEF Good, Entry
  <2> QED
    BY <2>1, <2>2, <2>3
<1>7. /\ Beside /\ run' = run /\ UNCHANGED ran
      /\ \A k \in Jobs : k # j => store'[k] = store[k]
      /\ job2 \in {job, record(job, t)}
  BY <1>3, <1>4, <1>6, MoveRecordIs
<1>8. PICK d : /\ Goes(e, d) /\ effects' = (effects \ {e}) \cup {d} /\ Speaks(d)
               /\ \/ d.at = "post" /\ d.ev.type = "MoveFailed"
                  \/ d.at = "post" /\ d.ev.type = "Requeued" /\ Requeues(t) /\ job2.state = "queued"
                  \/ job2.state \in FinalStates
  BY <1>3, <1>4, <1>6, MoveRecordIs
<1>9. d.kind = e.kind /\ d.kind = "move" /\ d.settlement = c.settlement /\ d.flag = c.release
  BY <1>1, <1>6, <1>8 DEF Goes
<1>10. Shifted(e, {d})
  <2>1. \A k \in Jobs : k # j => store'[k] = store[k] /\ run'[k] = run[k]
    BY <1>7
  <2> QED
    BY <1>7, <1>8, <2>1, BesideShifts
<1>11. \/ job2 = job
       \/ t.to \in FinalStates /\ job2.state = t.to /\ job2.attempts = job.attempts
       \/ /\ Requeues(t) /\ job.state = "running"
          /\ job2.state = "queued" /\ job2.attempts = job.attempts + 1
  <2> DEFINE jobr == record(job, t)
  <2>1. \/ jobr = job
        \/ t.to \in FinalStates /\ jobr.state = t.to /\ jobr.attempts = job.attempts
        \/ /\ Requeues(t) /\ job.state = "running"
           /\ jobr.state = "queued" /\ jobr.attempts = job.attempts + 1
    <3> HIDE DEF job, t
    <3>1. t \in Settlement /\ job.state \in {"queued", "running"}
      BY <1>3, <1>6
    <3> QED
      BY <3>1, RecordIs, SMT
  <2> HIDE DEF jobr
  <2>2. job2 = job \/ job2 = jobr
    BY <1>7 DEF jobr
  <2> QED
    BY <2>1, <2>2
<1>12. run'[j] = r /\ ran'[j] = n
  BY <1>7
<1>13. ~Over(job2) => MoveStands(d, c, job2)
  BY <1>6, <1>8, <1>9 DEF MoveStands, Over
<1> HIDE DEF c, E, S, job, r, n, t, job2
<1>14. CASE Over(job2)
  <2>1. job2.attempts = job.attempts
    <3>1. ~Over(job)
      BY DEF job
    <3>2. job2.state # "queued" /\ job2 # job
      BY <1>14, <3>1 DEF Over, FinalStates
    <3> QED
      BY <1>11, <3>2
  <2>2. WorldStands(j, job2, r, n) /\ OverStands(c, (E \ {e}) \cup {d}, r)
    <3>1. OpenStands(j, c, Sides(E), {e}, job, r)
      BY <1>3 DEF S
    <3> QED
      BY <1>1, <1>3, <1>4, <1>5, <1>9, <1>14, <2>1, <3>1, EndedStands
  <2>3. JobStands(j, c, (E \ {e}) \cup {d}, job2, r)
    BY <1>14, <2>2 DEF JobStands
  <2>4. job2.state # "absent"
    BY <1>14 DEF Over, FinalStates
  <2> DEFINE N == {d}
  <2>5. Shifted(e, N) /\ JobStands(j, c, (E \ {e}) \cup N, job2, r)
    BY <1>10, <2>3
  <2> HIDE DEF N
  <2>6. /\ WorldStands(e.job, store'[e.job], run'[e.job], ran'[e.job])
        /\ JobStands(e.job, entry[e.job], (Mine(e.job) \ {e}) \cup N, store'[e.job], run'[e.job])
        /\ Over(store'[e.job]) /\ store'[e.job].state # "absent"
    BY <1>12, <1>14, <2>2, <2>4, <2>5 DEF c, E, job2
  <2> QED
    BY <2>5, <2>6, ShiftStays
<1>15. CASE ~Over(job2)
  <2>1. MoveStands(d, c, job2)
    BY <1>13, <1>15
  <2>2. WorldStands(j, job2, r, n) /\ OpenStands(j, c, S, {d}, job2, r) /\ job2.state # "absent"
    <3>1. CASE job2 = job
      BY <1>1, <1>3, <1>4, <1>8, <2>1, <3>1, UnmovedStands
    <3>2. CASE /\ Requeues(t) /\ job.state = "running"
               /\ job2.state = "queued" /\ job2.attempts = job.attempts + 1
      <4>1. Requeues(c.settlement)
        BY <1>6, <3>2
      <4>2. WorldStands(j, job2, r, n) /\ OpenStands(j, c, S, {d}, job2, r)
        BY <1>1, <1>3, <1>4, <1>5, <1>8, <2>1, <3>2, <4>1, RequeuedStands
      <4> QED
        BY <3>2, <4>2
    <3> QED
      BY <1>11, <1>15, <3>1, <3>2 DEF Over
  <2> QED
    BY <1>2, <1>9, <1>10, <1>12, <1>15, <2>2, MainMoves DEF c, E, S, job2
<1> QED
  BY <1>14, <1>15

\* An effect of a job that is over, and that is neither a launch, a follow nor a look.
LEMMA OverTame ==
    ASSUME RunsInv, Shaped, NEW e \in effects, Over(store[e.job]), e.kind \in {"move", "discard"},
           Beside, UNCHANGED ran, store'[e.job] = store[e.job],
           \A k \in Jobs : k # e.job => store'[k] = store[k] /\ run'[k] = run[k],
           WorldStands(e.job, store[e.job], run'[e.job], ran[e.job]),
           run'[e.job].proc = "parked" => run[e.job].proc = "parked",
           NEW d, Goes(e, d), effects' = (effects \ {e}) \cup {d}, Speaks(d)
    PROVE  RunsInv'
<1>1. Shifted(e, {d})
  BY BesideShifts
<1>2. Tame(d, run'[e.job])
  BY DEF Tame, Goes
<1>3. WorldStands(e.job, store[e.job], run'[e.job], ran'[e.job])
  OBVIOUS
<1> QED
  BY <1>1, <1>2, <1>3, OverGoesOn

LEMMA MoveRecordOver ==
    ASSUME RunsInv, Shaped, NEW e \in effects, Over(store[e.job]), MoveRecord(e)
    PROVE  RunsInv'
<1> DEFINE j == e.job
<1>1. e.kind = "move" /\ e.at = "record" /\ Beside /\ run' = run /\ UNCHANGED ran
  BY DEF MoveRecord
<1>2. j \in Jobs /\ WorldStands(j, store[j], run[j], ran[j])
  BY WorldNow
<1>3. record(store[j], e.settlement) = store[j]
  BY RecordOver
<1>4. store'[j] = store[j] /\ \A k \in Jobs : k # j => store'[k] = store[k] /\ run'[k] = run[k]
  <2>1. SetStore(j, record(store[j], e.settlement)) \/ store' = store
    BY DEF MoveRecord, SetStore
  <2>2. SetStore(j, store[j]) => store'[j] = store[j] /\ \A k \in Jobs : k # j => store'[k] = store[k]
    BY <1>2, SetStoreIs
  <2> QED
    BY <1>1, <1>3, <2>1, <2>2
<1>5. PICK d : Goes(e, d) /\ effects' = (effects \ {e}) \cup {d} /\ Speaks(d)
  <2>1. /\ Event("MoveFailed").type = "MoveFailed" /\ Event("Requeued").type = "Requeued"
        /\ Event("Closed").type = "Closed"
    BY EventIs
  <2>2. \/ Goto(e, "release")
        \/ \E ev : Answer(e, ev) /\ ev.type \in {"MoveFailed", "Requeued", "Closed"}
    BY <2>1 DEF MoveRecord
  <2>3. CASE Goto(e, "release")
    <3>1. PICK d : Goes(e, d) /\ d.at = "release" /\ effects' = (effects \ {e}) \cup {d}
      BY <2>3, GotoIs
    <3>2. Speaks(d)
      BY <3>1 DEF Speaks
    <3> QED
      BY <3>1, <3>2
  <2>4. ASSUME NEW ev, Answer(e, ev), ev.type \in {"MoveFailed", "Requeued", "Closed"}
        PROVE  \E d : Goes(e, d) /\ effects' = (effects \ {e}) \cup {d} /\ Speaks(d)
    <3>1. PICK d : Goes(e, d) /\ d.at = "post" /\ d.ev = ev /\ effects' = (effects \ {e}) \cup {d}
      BY <2>4, AnswerIs, SMT
    <3>2. Speaks(d)
      BY <1>1, <2>4, <3>1 DEF Speaks, AnswersOf, Goes
    <3> QED
      BY <3>1, <3>2
  <2> QED
    BY <2>2, <2>3, <2>4
<1>6. e.kind \in {"move", "discard"} /\ WorldStands(j, store[j], run'[j], ran[j]) /\ run'[j] = run[j]
  BY <1>1, <1>2
<1> QED
  BY <1>1, <1>4, <1>5, <1>6, OverTame

-----------------------------------------------------------------------------
(* The end of a run. *)

ReleaseParts(e) == ReleaseRun(e) \/ Forget(e) \/ Unrecord(e)

LEMMA ReleaseTypes ==
    ASSUME NEW e, e.kind \in {"move", "discard"}
    PROVE  /\ released(e).type \in AnswersOf(e.kind) /\ unreleased(e).type \in AnswersOf(e.kind)
           /\ e.kind = "discard" => unreleased(e).type = "DiscardFailed"
           /\ e.kind = "discard" /\ e.flag => released(e).type = "Discarded"
<1>1. /\ Event("Discarded").type = "Discarded" /\ Event("DiscardFailed").type = "DiscardFailed"
      /\ Event("Closed").type = "Closed"
  BY EventIs
<1>2. /\ "Closed" \in AnswersOf(e.kind)
      /\ e.kind = "discard" => "Discarded" \in AnswersOf(e.kind) /\ "DiscardFailed" \in AnswersOf(e.kind)
  BY DEF AnswersOf
<1> QED
  BY <1>1, <1>2 DEF released, unreleased

\* What becomes of the run, and of the effect.
Parts(r, s) == s = r \/ (s = Release(r) /\ CanRelease(r)) \/ s = removeDirectory(r) \/ s = NoRun

LEMMA ReleaseIs ==
    ASSUME RunsInv, Shaped, NEW e \in effects, ReleaseParts(e)
    PROVE  /\ e.kind \in {"move", "discard"} /\ e.at \notin {"record", "post"}
           /\ Beside /\ store' = store /\ UNCHANGED ran
           /\ \A k \in Jobs : k # e.job => run'[k] = run[k]
           /\ Parts(run[e.job], run'[e.job])
           /\ \E d : /\ Goes(e, d) /\ effects' = (effects \ {e}) \cup {d}
                     /\ \/ d.at = "unrecord" \/ Forgets(d)
                        \/ d.at = "post" /\ d.ev = unreleased(e)
                        \/ /\ d.at = "post" /\ d.ev = released(e)
                           /\ \/ run'[e.job] = NoRun
                              \/ run'[e.job] = run[e.job] /\ Probe(run[e.job]).run = "none"
<1> DEFINE j == e.job
           r == run[j]
<1>1. /\ e.kind \in {"move", "discard"} /\ e.at \notin {"record", "post"}
      /\ Beside /\ store' = store /\ UNCHANGED ran
  BY DEF ReleaseParts, ReleaseRun, Forget, Unrecord
<1>2. j \in Jobs
  BY WorldNow
<1>3. ASSUME NEW s, SetRun(j, s)
      PROVE  run'[j] = s /\ \A k \in Jobs : k # j => run'[k] = run[k]
  BY <1>2, <1>3, SetRunIs
<1>4. ASSUME NEW at, Goto(e, at), at \in {"unrecord", "forget released", "forget dead"}
      PROVE  \E d : Goes(e, d) /\ effects' = (effects \ {e}) \cup {d} /\ (d.at = "unrecord" \/ Forgets(d))
  <2>1. PICK d : Goes(e, d) /\ d.at = at /\ effects' = (effects \ {e}) \cup {d}
    BY <1>4, GotoIs
  <2> QED
    BY <1>4, <2>1 DEF Forgets
<1>5. ASSUME NEW ev, Answer(e, ev)
      PROVE  \E d : Goes(e, d) /\ effects' = (effects \ {e}) \cup {d} /\ d.at = "post" /\ d.ev = ev
  BY <1>5, AnswerIs
<1>6. CASE Unrecord(e)
  <2>1. \/ SetRun(j, NoRun) /\ Answer(e, released(e))
        \/ run' = run /\ Answer(e, unreleased(e))
    BY <1>6 DEF Unrecord, removeRecord
  <2>2. CASE SetRun(j, NoRun) /\ Answer(e, released(e))
    BY <1>1, <1>3, <1>5, <2>2 DEF Parts
  <2>3. CASE run' = run /\ Answer(e, unreleased(e))
    BY <1>1, <1>5, <2>3 DEF Parts
  <2> QED
    BY <2>1, <2>2, <2>3
<1>7. CASE Forget(e)
  <2>1. \/ SetRun(j, removeDirectory(r)) /\ Goto(e, "unrecord")
        \/ run' = run /\ Answer(e, unreleased(e))
    BY <1>7 DEF Forget
  <2>2. CASE SetRun(j, removeDirectory(r)) /\ Goto(e, "unrecord")
    <3>1. run'[j] = removeDirectory(r) /\ \A k \in Jobs : k # j => run'[k] = run[k]
      BY <1>3, <2>2
    <3>2. \E d : Goes(e, d) /\ effects' = (effects \ {e}) \cup {d} /\ (d.at = "unrecord" \/ Forgets(d))
      BY <1>4, <2>2
    <3> QED
      BY <1>1, <3>1, <3>2 DEF Parts
  <2>3. CASE run' = run /\ Answer(e, unreleased(e))
    BY <1>1, <1>5, <2>3 DEF Parts
  <2> QED
    BY <2>1, <2>2, <2>3
<1>8. CASE ReleaseRun(e)
  <2>1. \/ CanRelease(r) /\ SetRun(j, Release(r)) /\ Goto(e, "forget released")
        \/ run' = run /\ Answer(e, unreleased(e))
        \/ run' = run /\ Goto(e, "forget dead")
        \/ run' = run /\ Answer(e, released(e)) /\ Probe(r).run = "none"
    BY <1>8 DEF ReleaseRun
  <2>2. CASE CanRelease(r) /\ SetRun(j, Release(r)) /\ Goto(e, "forget released")
    <3>1. run'[j] = Release(r) /\ \A k \in Jobs : k # j => run'[k] = run[k]
      BY <1>3, <2>2
    <3>2. \E d : Goes(e, d) /\ effects' = (effects \ {e}) \cup {d} /\ (d.at = "unrecord" \/ Forgets(d))
      BY <1>4, <2>2
    <3> QED
      BY <1>1, <2>2, <3>1, <3>2 DEF Parts
  <2>3. CASE run' = run /\ Answer(e, unreleased(e))
    BY <1>1, <1>5, <2>3 DEF Parts
  <2>4. CASE run' = run /\ Goto(e, "forget dead")
    <3>2. \E d : Goes(e, d) /\ effects' = (effects \ {e}) \cup {d} /\ (d.at = "unrecord" \/ Forgets(d))
      BY <1>4, <2>4
    <3> QED
      BY <1>1, <2>4, <3>2 DEF Parts
  <2>5. CASE run' = run /\ Answer(e, released(e)) /\ Probe(r).run = "none"
    BY <1>1, <1>5, <2>5 DEF Parts
  <2> QED
    BY <2>1, <2>2, <2>3, <2>4, <2>5
<1> QED
  BY <1>6, <1>7, <1>8 DEF ReleaseParts

LEMMA PartedWorld ==
    ASSUME NEW j, NEW job, NEW r \in Run, NEW n, WorldStands(j, job, r, n), job.state = "queued" \/ Over(job),
           NEW s, Parts(r, s)
    PROVE  /\ WorldStands(j, job, s, n)
           /\ (r = NoRun => s = NoRun) /\ (s.proc = "parked" => r.proc = "parked") /\ s.proc # "executing"
<1>1. job.state \notin {"running", "absent"} /\ r.proc # "executing" /\ ~(job.state = "queued" /\ Over(job))
  BY DEF WorldStands, Over, FinalStates
<1>2. CASE s = r
  BY <1>1, <1>2
<1>3. CASE s = NoRun
  <2>1. WorldStands(j, job, NoRun, n)
    BY <1>1, NoRunStands
  <2> QED
    BY <1>3, <2>1, NoRunIs
<1>4. CASE s = Release(r) /\ CanRelease(r)
  <2>1. s.proc = "released" /\ s.dir = r.dir /\ s.end = r.end /\ s.mark = r.mark /\ s.cancel = r.cancel
    BY <1>4, Releasing
  <2>2. r.proc # "none" /\ r # NoRun
    BY <1>4, NoRunIs DEF CanRelease
  <2>3. Unmarked(s) <=> Unmarked(r)
    BY <2>1 DEF Unmarked
  <2>4. WorldStands(j, job, s, n)
    BY <1>1, <2>1, <2>2, <2>3 DEF WorldStands
  <2> QED
    BY <2>1, <2>2, <2>4
<1>5. CASE s = removeDirectory(r)
  <2>1. s.proc = "none" /\ s.end = r.end /\ s.mark = r.mark /\ s.cancel = r.cancel /\ (r = NoRun => s = NoRun)
    BY <1>5, Removing
  <2>2. Unmarked(s) <=> Unmarked(r)
    BY <2>1 DEF Unmarked
  <2>3. WorldStands(j, job, s, n)
    BY <1>1, <2>1, <2>2 DEF WorldStands
  <2> QED
    BY <2>1, <2>3
<1> QED
  BY <1>2, <1>3, <1>4, <1>5 DEF Parts

LEMMA DiscardTurns ==
    ASSUME NEW j, NEW c, Good(c), NEW S, NEW e, NEW d, NEW job, NEW r, NEW s, OpenStands(j, c, S, {e}, job, r),
           e.kind = "discard", d.kind = "discard", DiscardStands(d, s),
           r = NoRun => s = NoRun, s.proc # "executing"
    PROVE  OpenStands(j, c, S, {d}, job, s)
<1>1. c.phase = "discarding" /\ EntryStands(j, c, job, r) /\ SidesStand(c, S, job, r) /\ ~Idles(c)
  <2>1. ~Idles(c)
    BY OpenWith
  <2> QED
    BY <2>1, Answering
<1>2. ~c.parked /\ c.phase \notin Ending /\ job.state = "queued"
  BY <1>1 DEF Good, CoherentEntry, Ending, EntryStands
<1>3. EntryStands(j, c, job, s)
  BY <1>1, <1>2 DEF EntryStands
<1>4. ASSUME NEW x \in S
      PROVE  SideStands(x, c, S, job, s)
  <2>1. SideStands(x, c, S, job, r)
    BY <1>1, <1>4 DEF SidesStand
  <2>2. LookFits(x, c, S, r) => LookFits(x, c, S, s)
    BY <1>2 DEF LookFits
  <2>3. \A p : PresenceStands(p, job, r) => PresenceStands(p, job, s)
    BY <1>2 DEF PresenceStands
  <2>4. LookStands(x, job, r) => LookStands(x, job, s)
    BY <2>3 DEF LookStands, FindingStands
  <2> QED
    BY <2>1, <2>2, <2>4 DEF SideStands
<1>5. MainStands(j, d, c, S, job, s)
  BY <1>1, MainOfPhases DEF MainStands
<1> QED
  BY <1>1, <1>2, <1>3, <1>4, <1>5 DEF OpenStands

LEMMA ReleaseStays ==
    ASSUME RunsInv, Shaped, NEW e \in effects, ReleaseParts(e)
    PROVE  RunsInv'
<1> DEFINE j == e.job
           c == entry[j]
           S == Sides(Mine(j))
           job == store[j]
           r == run[j]
           s == run'[j]
<1>1. /\ e.kind \in {"move", "discard"} /\ e.at \notin {"record", "post"}
      /\ Beside /\ store' = store /\ UNCHANGED ran
      /\ \A k \in Jobs : k # j => run'[k] = run[k]
      /\ Parts(r, s)
  BY ReleaseIs
<1>2. PICK d : /\ Goes(e, d) /\ effects' = (effects \ {e}) \cup {d}
               /\ \/ d.at = "unrecord" \/ Forgets(d)
                  \/ d.at = "post" /\ d.ev = unreleased(e)
                  \/ d.at = "post" /\ d.ev = released(e) /\ (s = NoRun \/ (s = r /\ Probe(r).run = "none"))
  BY ReleaseIs
<1>3. WorldStands(j, job, r, ran[j]) /\ r \in Run /\ Good(c)
  BY WorldNow
<1>4. released(e).type \in AnswersOf(e.kind) /\ unreleased(e).type \in AnswersOf(e.kind)
  BY <1>1, ReleaseTypes, SMT
<1>5. d.kind = e.kind /\ d.flag = e.flag /\ Speaks(d)
  <2>1. d.kind = e.kind /\ d.flag = e.flag
    BY <1>2 DEF Goes
  <2>2. d.at = "post" => d.ev \in {released(e), unreleased(e)}
    BY <1>2 DEF Forgets
  <2> QED
    BY <1>4, <2>1, <2>2 DEF Speaks
<1>6. \A k \in Jobs : k # j => store'[k] = store[k] /\ run'[k] = run[k]
  BY <1>1
<1>7. store'[j] = job /\ ran'[j] = ran[j]
  BY <1>1
<1>8. CASE Over(job)
  <2>1. WorldStands(j, job, s, ran[j]) /\ (s.proc = "parked" => r.proc = "parked")
    BY <1>1, <1>3, <1>8, PartedWorld, SMT
  <2> QED
    BY <1>1, <1>2, <1>5, <1>6, <1>7, <1>8, <2>1, OverTame
<1>9. CASE ~Over(job)
  <2>1. e.kind \notin SideKinds
    BY <1>1 DEF SideKinds
  <2>2. OpenStands(j, c, S, {e}, job, r)
    BY <1>9, <2>1, OpenMain
  <2>3. /\ e.kind = "move" => MoveStands(e, c, job)
        /\ e.kind = "discard" => c.phase = "discarding" /\ DiscardStands(e, r)
    BY <1>3, <2>2, Answering
  <2>4. e.kind = "discard" /\ e.flag = TRUE /\ c.phase = "discarding"
    BY <1>1, <2>3 DEF MoveStands, DiscardStands
  <2>5. job.state = "queued"
    BY <2>2, <2>4 DEF OpenStands, EntryStands
  <2>6. WorldStands(j, job, s, ran[j]) /\ (r = NoRun => s = NoRun) /\ s.proc # "executing"
    BY <1>1, <1>3, <2>5, PartedWorld, SMT
  <2>7. Probe(r).run = "none" => r = NoRun
    <3>1. PresenceStands(Probe(r), job, r)
      BY <1>3, <1>9, ProbeStands
    <3> QED
      BY <3>1 DEF PresenceStands
  <2>8. DiscardStands(d, s)
    <3>1. unreleased(e).type = "DiscardFailed" /\ released(e).type = "Discarded"
      BY <1>1, <2>4, ReleaseTypes, SMT
    <3>2. CASE d.at = "unrecord" \/ Forgets(d)
      BY <1>5, <2>4, <3>2 DEF DiscardStands, Forgets
    <3>3. CASE d.at = "post" /\ d.ev = unreleased(e)
      BY <1>5, <2>4, <3>1, <3>3 DEF DiscardStands
    <3>4. CASE d.at = "post" /\ d.ev = released(e) /\ (s = NoRun \/ (s = r /\ Probe(r).run = "none"))
      <4>1. s = NoRun
        BY <2>7, <3>4
      <4> QED
        BY <1>5, <2>4, <3>1, <3>4, <4>1 DEF DiscardStands
    <3> QED
      BY <1>2, <3>2, <3>3, <3>4
  <2>9. Shifted(e, {d})
    BY <1>1, <1>2, <1>5, <1>6, BesideShifts
  <2>10. job.state # "absent" /\ d.kind = "discard"
    BY <1>5, <2>4, <2>5
  <2> HIDE DEF c, S, job, r, s
  <2>11. OpenStands(j, c, S, {d}, job, s)
    BY <1>3, <2>2, <2>4, <2>6, <2>8, <2>10, DiscardTurns
  <2> QED
    BY <1>5, <1>7, <1>9, <2>1, <2>6, <2>9, <2>10, <2>11, MainMoves DEF c, S, job, s
<1> QED
  BY <1>8, <1>9

LEMMA ReleaseStepStays ==
    ASSUME RunsInv, Shaped, NEW e \in effects, ReleaseStep(e)
    PROVE  RunsInv'
  BY MoveRecordStays, MoveRecordOver, ReleaseStays DEF ReleaseStep, ReleaseParts

-----------------------------------------------------------------------------
(* What happens to a run by itself, or when it is cancelled, is gentle. *)

LEMMA Dying ==
    ASSUME NEW r \in Run, r.end = "cancelled" => r.cancel
    PROVE  r.proc # "none" => Gentle(r, die(r))
<1>1. die(r).proc = "none" /\ die(r).mark = r.mark /\ die(r).dir = r.dir /\ die(r).end = r.end /\ die(r).cancel = r.cancel
  BY RunFields DEF die
<1> QED
  BY <1>1 DEF Gentle

LEMMA GentleWorld ==
    ASSUME NEW j, NEW job, NEW r, NEW s, NEW n, WorldStands(j, job, r, n), Gentle(r, s),
           r.proc \in Procs, r = NoRun => r.proc = "none"
    PROVE  WorldStands(j, job, s, n)
<1>1. (Unmarked(s) <=> Unmarked(r)) /\ (Unsent(s) <=> Unsent(r)) /\ s.mark = r.mark /\ s.dir = r.dir
  BY DEF Gentle, Unmarked, Unsent
<1>2. r = NoRun => s = NoRun
  BY DEF Gentle
<1>3. s.proc # "none" => r.proc # "none"
  BY DEF Gentle
<1>4. /\ s.proc \in {"executing", "finished"} => r.proc \in {"executing", "finished"}
      /\ s.proc = "released" => r.proc = "released"
      /\ s.proc = "executing" => r.proc = "executing"
      /\ s.proc = "starting" => r.proc = "starting"
      /\ s.proc = "parked" => r.proc \in {"parked", "starting"}
      /\ (s.end = "cancelled" => s.cancel) /\ (s.proc = "finished" => s.end # "none")
  BY DEF Gentle
<1>5. job.state = "running" => s.proc \notin {"starting", "released"} /\ (s.proc = "parked" => r.proc = "parked")
  BY <1>4 DEF WorldStands
<1> QED
  BY <1>1, <1>2, <1>3, <1>4, <1>5 DEF WorldStands

LEMMA GentlePresence ==
    ASSUME NEW p, NEW job, NEW r, NEW s, PresenceStands(p, job, r), Gentle(r, s),
           r = NoRun => r.proc = "none", job.state = "running" => r.proc # "starting"
    PROVE  PresenceStands(p, job, s)
<1>1. Unsent(s) <=> Unsent(r)
  BY DEF Gentle, Unsent
<1>2. (r = NoRun => s = NoRun) /\ (s.proc = "executing" => r.proc = "executing") /\ (r.proc = "none" => s.proc = "none")
  BY DEF Gentle
<1>3. s.proc = "parked" => r.proc \in {"parked", "starting"}
  BY DEF Gentle
<1> QED
  BY <1>1, <1>2, <1>3 DEF PresenceStands

\* What a gentle change leaves true of a run.
LEMMA GentleIs ==
    ASSUME NEW r, NEW s, Gentle(r, s), r = NoRun => r.proc = "none"
    PROVE  /\ (Unsent(s) <=> Unsent(r)) /\ s.mark = r.mark /\ s.dir = r.dir
           /\ (r = NoRun => s = NoRun) /\ (s.proc = "executing" => r.proc = "executing") /\ (r.proc = "none" => s = r)
           /\ s.proc = "parked" => r.proc \in {"parked", "starting"}
           /\ r.proc = "parked" => s.proc \in {"parked", "none"}
           /\ r.proc = "finished" => s.proc \in {"finished", "none"}
           /\ r.proc \in {"finished", "none"} => s.cancel = r.cancel /\ s.end = r.end
           /\ r.proc # "executing" => s.end = r.end
           /\ r.cancel => s.cancel
  BY DEF Gentle, Unsent

LEMMA GentleLaunch ==
    ASSUME NEW e, NEW job, NEW r, NEW s, LaunchStands(e, job, r), Gentle(r, s), r = NoRun => r.proc = "none",
           s.proc = r.proc \/ e.at # "up"
    PROVE  LaunchStands(e, job, s)
<1>1. (Unsent(s) <=> Unsent(r)) /\ (r = NoRun => s = NoRun) /\ (r.proc = "none" => s = r)
  BY GentleIs
<1>2. r.proc \in {"parked", "none"} => s.proc \in {"parked", "none"}
  BY <1>1, GentleIs
<1>3. e.at = "post" => LaunchedStands(e.ev, job, s)
  BY <1>1, <1>2 DEF LaunchStands, LaunchedStands
<1> QED
  BY <1>1, <1>2, <1>3 DEF LaunchStands

LEMMA GentleEnds ==
    ASSUME NEW j, NEW ev, NEW r, NEW s, Gentle(r, s), r = NoRun => r.proc = "none"
    PROVE  /\ LostStands(ev, r) => LostStands(ev, s)
           /\ EndStands(j, ev, r) => EndStands(j, ev, s)
<1>1. LostStands(ev, r) => LostStands(ev, s)
  BY GentleIs DEF LostStands
<1>2. ASSUME EndStands(j, ev, r)
      PROVE  EndStands(j, ev, s)
  <2>1. r.proc \in {"finished", "none"} /\ r.end # "none" /\ ev.o = outcomeOf(r, j \in Rerun)
    BY <1>2 DEF EndStands
  <2>2. s.proc \in {"finished", "none"} /\ s.end = r.end /\ s.cancel = r.cancel
    BY <2>1, GentleIs
  <2>3. outcomeOf(s, j \in Rerun) = outcomeOf(r, j \in Rerun)
    BY <2>2 DEF outcomeOf
  <2> QED
    BY <2>1, <2>2, <2>3 DEF EndStands
<1> QED
  BY <1>1, <1>2

LEMMA GentleMain ==
    ASSUME NEW j, NEW e, NEW c, NEW S, NEW job, NEW r, NEW s, MainStands(j, e, c, S, job, r), Gentle(r, s),
           r = NoRun => r.proc = "none", job.state = "running" => r.proc # "starting",
           s.proc = r.proc \/ e.at # "up"
    PROVE  MainStands(j, e, c, S, job, s)
<1>1. LaunchStands(e, job, r) => LaunchStands(e, job, s)
  BY GentleLaunch
<1>2. LostStands(e.ev, r) => LostStands(e.ev, s)
  BY GentleEnds
<1>3. EndStands(j, e.ev, r) => EndStands(j, e.ev, s)
  BY GentleEnds
<1>4. FollowStands(j, e, S, job, r) => FollowStands(j, e, S, job, s)
  <2>1. s.mark = r.mark /\ (s.proc = "parked" => r.proc \in {"parked", "starting"}) /\ (r.cancel => s.cancel)
    BY GentleIs
  <2> QED
    BY <1>2, <1>3, <2>1 DEF FollowStands
<1>5. StopStands(j, e, job, r) => StopStands(j, e, job, s)
  BY <1>2, <1>3 DEF StopStands
<1>6. DiscardStands(e, r) => DiscardStands(e, s)
  BY GentleIs DEF DiscardStands
<1> QED
  BY <1>1, <1>4, <1>5, <1>6 DEF MainStands

LEMMA GentleStands ==
    ASSUME NEW j, NEW c, NEW S, NEW M, NEW job, NEW r, NEW s, OpenStands(j, c, S, M, job, r), Gentle(r, s),
           r = NoRun => r.proc = "none", job.state = "running" => r.proc # "starting",
           s.proc = r.proc \/ \A e \in M : e.at # "up"
    PROVE  OpenStands(j, c, S, M, job, s)
<1>1. EntryStands(j, c, job, s)
  <2>1. (r = NoRun => s = NoRun) /\ (s.proc = "executing" => r.proc = "executing")
    BY GentleIs
  <2> QED
    BY <2>1 DEF OpenStands, EntryStands
<1>2. ASSUME c.phase \in Ending
      PROVE  EndingStands(j, c, job, s) /\ (r.proc # "parked" => s.proc # "parked")
  <2>1. EndingStands(j, c, job, r)
    BY <1>2 DEF OpenStands
  <2>2. (Unsent(s) <=> Unsent(r)) /\ (r.proc = "none" => s = r) /\ (r.proc # "executing" => s.end = r.end)
    BY GentleIs
  <2>3. s.proc \in {"none", "parked", "finished"} /\ (r.proc # "parked" => s.proc # "parked")
    <3>1. r.proc \in {"none", "parked", "finished"}
      BY <2>1 DEF EndingStands
    <3> QED
      BY <2>2, <3>1, GentleIs
  <2>4. r.proc # "executing"
    BY <2>1 DEF EndingStands
  <2> QED
    BY <2>1, <2>2, <2>3, <2>4 DEF EndingStands
<1>3. ASSUME NEW e \in S
      PROVE  SideStands(e, c, S, job, s)
  <2>1. SideStands(e, c, S, job, r)
    BY <1>3 DEF OpenStands
  <2>2. LookFits(e, c, S, r) => LookFits(e, c, S, s)
    BY <1>2 DEF LookFits
  <2>3. LookStands(e, job, r) => LookStands(e, job, s)
    <3>1. \A p : PresenceStands(p, job, r) => PresenceStands(p, job, s)
      BY GentlePresence
    <3> QED
      BY <3>1 DEF LookStands, FindingStands
  <2> QED
    BY <2>1, <2>2, <2>3 DEF SideStands
<1>4. ASSUME NEW e, M = {e}, MainStands(j, e, c, S, job, r)
      PROVE  MainStands(j, e, c, S, job, s)
  <2>1. s.proc = r.proc \/ e.at # "up"
    BY <1>4
  <2> QED
    BY <1>4, <2>1, GentleMain
<1> QED
  BY <1>1, <1>2, <1>3, <1>4 DEF OpenStands

-----------------------------------------------------------------------------
(* Calls to a supervisor: follow, stop and signal. *)

LEMMA GentleSelf ==
    ASSUME NEW j, NEW job, NEW r, NEW n, WorldStands(j, job, r, n)
    PROVE  Gentle(r, r)
  BY DEF Gentle, WorldStands

LEMMA CancelledWorld ==
    ASSUME NEW j, NEW job, NEW r \in Run, NEW n, WorldStands(j, job, r, n), NEW s, s \in {r, Cancel(r)}
    PROVE  /\ Gentle(r, s) /\ s.proc = r.proc /\ WorldStands(j, job, s, n)
           /\ s = Cancel(r) /\ r.proc = "parked" => s.cancel
<1>1. (r.end = "cancelled" => r.cancel) /\ (r.proc = "finished" => r.end # "none")
  BY DEF WorldStands
<1>2. Gentle(r, Cancel(r)) /\ Cancel(r).proc = r.proc /\ (r.proc = "parked" => Cancel(r).cancel)
  BY <1>1, Cancelling
<1>3. Gentle(r, s) /\ s.proc = r.proc
  BY <1>2, GentleSelf
<1>4. WorldStands(j, job, s, n)
  BY <1>3, GentleWorld, RunFields, NoRunIs
<1> QED
  BY <1>2, <1>3, <1>4

\* The step of an effect of the phase that changes the run gently.
LEMMA CallMoves ==
    ASSUME RunsInv, Shaped, NEW e \in effects, e.kind \notin SideKinds, e.at # "up", ~Over(store[e.job]),
           Beside, UNCHANGED ran, store' = store, Gentle(run[e.job], run'[e.job]),
           \A k \in Jobs : k # e.job => run'[k] = run[k],
           NEW d, Goes(e, d), effects' = (effects \ {e}) \cup {d}, Speaks(d),
           MainStands(e.job, d, entry[e.job], Sides(Mine(e.job)), store[e.job], run'[e.job])
    PROVE  RunsInv'
<1> DEFINE j == e.job
           c == entry[j]
           S == Sides(Mine(j))
           job == store[j]
           r == run[j]
           s == run'[j]
<1>1. Shifted(e, {d})
  BY BesideShifts
<1>2. OpenStands(j, c, S, {e}, job, r) /\ job.state \in {"queued", "running"}
  BY OpenMain
<1>3. WorldStands(j, job, r, ran[j]) /\ r.proc \in Procs
  BY WorldNow, RunFields
<1>4. store'[j] = job /\ ran'[j] = ran[j]
  OBVIOUS
<1>5. r = NoRun => r.proc = "none"
  BY NoRunIs
<1>6. job.state = "running" => r.proc # "starting"
  BY <1>3 DEF WorldStands
<1>7. job.state # "absent" /\ d.kind = e.kind /\ \A x \in {e} : x.at # "up"
  BY <1>2 DEF Goes
<1> HIDE DEF c, S, job, r
<1>8. Gentle(r, s)
  BY DEF r
<1>9. MainStands(j, d, c, S, job, s)
  BY DEF c, S, job
<1> HIDE DEF s
<1>10. OpenStands(j, c, S, {e}, job, s)
  BY <1>2, <1>5, <1>6, <1>7, <1>8, GentleStands
<1>11. OpenStands(j, c, S, {d}, job, s)
  BY <1>9, <1>10, SwapMain
<1>12. WorldStands(j, job, s, ran[j])
  BY <1>3, <1>5, <1>8, GentleWorld
<1> QED
  BY <1>1, <1>4, <1>7, <1>11, <1>12, MainMoves DEF c, S, job, s

\* The answer of a call that follows or stops a run, and its place in the effect.
CallStands(j, e, ev, r) ==
    \/ ev.type = failureOf(e)
    \/ ev.type = "SupervisorLost" /\ LostStands(ev, r)
    \/ ev.type = "Finished" /\ EndStands(j, ev, r)

LEMMA FailureIs ==
    ASSUME NEW e
    PROVE  /\ e.kind = "follow" => failureOf(e) = "FollowFailed"
           /\ e.kind = "stop" => failureOf(e) = "StopFailed"
           /\ e.kind = "signal" => failureOf(e) = "CancelFailed"
           /\ Silent(failureOf(e)).type = failureOf(e)
<1>1. \A t : Silent(t).type = t
  BY EventIs DEF Silent
<1> QED
  BY <1>1 DEF failureOf

LEMMA GoneIs ==
    ASSUME NEW e, NEW r
    PROVE  /\ goneOf(e, r).type \in {"SupervisorLost", failureOf(e)}
           /\ r.proc = "none" => goneOf(e, r).type = failureOf(e) \/
                                 (goneOf(e, r).type = "SupervisorLost" /\ LostStands(goneOf(e, r), r))
<1> DEFINE ev == goneOf(e, r)
<1>1. CASE r.proc = "none" /\ r.dir
  <2>1. ev = LostEvent(foundDead(r, "lock free"))
    BY <1>1 DEF goneOf
  <2>2. ev.type = "SupervisorLost" /\ ev.proof = "lock free" /\ ev.start = startOf(r)
    <3> DEFINE p == foundDead(r, "lock free")
    <3>1. p.proof = "lock free" /\ p.start = startOf(r)
      BY DEF foundDead
    <3> HIDE DEF p
    <3>2. LostEvent(p).type = "SupervisorLost" /\ LostEvent(p).proof = p.proof /\ LostEvent(p).start = p.start
      BY DEF LostEvent
    <3>3. ev = LostEvent(p)
      BY <2>1 DEF p
    <3> QED
      BY <3>1, <3>2, <3>3
  <2>3. ev.start = "never" => Unsent(r)
    BY <2>2 DEF startOf, Unsent
  <2> QED
    BY <1>1, <2>2, <2>3 DEF LostStands, LockFree
<1>2. CASE r.proc = "released"
  BY <1>2 DEF goneOf
<1>3. CASE ~(r.proc = "none" /\ r.dir) /\ r.proc # "released"
  <2>1. ev = Silent(failureOf(e))
    BY <1>3 DEF goneOf
  <2> QED
    BY <2>1, FailureIs
<1> QED
  BY <1>1, <1>2, <1>3

\* While a job runs its supervisor is gone only if its process is.
LEMMA GoneStands ==
    ASSUME NEW j, NEW job, NEW r \in Run, NEW n, WorldStands(j, job, r, n), job.state = "running",
           NEW e, ~Alive(r) \/ r.proc \in {"none", "released"}
    PROVE  CallStands(j, e, goneOf(e, r), r)
<1>1. r.proc = "none"
  BY DEF WorldStands, Alive
<1> QED
  BY <1>1, GoneIs DEF CallStands

LEMMA CallNow ==
    ASSUME RunsInv, Shaped, NEW e \in effects, e.kind \in {"follow", "stop"}, ~Over(store[e.job])
    PROVE  /\ e.kind = MainOf(entry[e.job].phase)
           /\ e.kind \notin SideKinds /\ store[e.job].state = "running"
           /\ e.kind = "follow" => FollowStands(e.job, e, Sides(Mine(e.job)), store[e.job], run[e.job])
           /\ e.kind = "stop" => StopStands(e.job, e, store[e.job], run[e.job])
<1>1. e.kind \notin SideKinds
  BY DEF SideKinds
<1>2. /\ OpenStands(e.job, entry[e.job], Sides(Mine(e.job)), {e}, store[e.job], run[e.job])
      /\ Good(entry[e.job])
  BY <1>1, OpenMain, WorldNow
<1>3. /\ e.kind = "follow" => FollowStands(e.job, e, Sides(Mine(e.job)), store[e.job], run[e.job])
      /\ e.kind = "stop" => StopStands(e.job, e, store[e.job], run[e.job])
  BY <1>2, Answering
<1>4. e.kind = MainOf(entry[e.job].phase)
  <2> DEFINE c == entry[e.job]
             S == Sides(Mine(e.job))
             job == store[e.job]
             r == run[e.job]
  <2>1. OpenStands(e.job, c, S, {e}, job, r)
    BY <1>2
  <2> HIDE DEF c, S, job, r
  <2>2. e.kind = MainOf(c.phase)
    BY <2>1, OpenWith
  <2> QED
    BY <2>2 DEF c
<1> QED
  BY <1>1, <1>3, <1>4 DEF FollowStands, StopStands

LEMMA CallAnswered ==
    ASSUME RunsInv, Shaped, NEW e \in effects, e.kind \in {"follow", "stop"}, e.at # "up", ~Over(store[e.job]),
           Beside, UNCHANGED ran, store' = store, Gentle(run[e.job], run'[e.job]),
           \A k \in Jobs : k # e.job => run'[k] = run[k],
           NEW ev, Answer(e, ev), CallStands(e.job, e, ev, run'[e.job])
    PROVE  RunsInv'
<1>1. PICK d : Goes(e, d) /\ d.at = "post" /\ d.ev = ev /\ effects' = (effects \ {e}) \cup {d}
  BY AnswerIs, SMT
<1>2. /\ e.kind = MainOf(entry[e.job].phase)
      /\ e.kind \notin SideKinds /\ store[e.job].state = "running"
  BY CallNow
<1>3. d.kind = e.kind
  BY <1>1 DEF Goes
<1>4. Speaks(d)
  BY <1>1, <1>3, FailureIs DEF Speaks, AnswersOf, CallStands
<1>5. MainStands(e.job, d, entry[e.job], Sides(Mine(e.job)), store[e.job], run'[e.job])
  <2>1. CASE e.kind = "follow"
    <3>1. FollowStands(e.job, d, Sides(Mine(e.job)), store[e.job], run'[e.job])
      BY <1>1, <1>2, <2>1, FailureIs DEF FollowStands, CallStands
    <3> QED
      BY <1>2, <1>3, <2>1, <3>1 DEF MainStands
  <2>2. CASE e.kind = "stop"
    <3>1. StopStands(e.job, d, store[e.job], run'[e.job])
      BY <1>1, <1>2, <2>2, FailureIs DEF StopStands, CallStands
    <3> QED
      BY <1>2, <1>3, <2>2, <3>1 DEF MainStands
  <2> QED
    BY <2>1, <2>2
<1> QED
  BY <1>1, <1>2, <1>4, <1>5, CallMoves

\* What a call to cancel does, of any kind of effect.
LEMMA CancelMoves ==
    ASSUME RunsInv, Shaped, NEW e \in effects, CallCancel(e)
    PROVE  /\ e.kind \in {"follow", "signal", "stop"} /\ e.at = "cancel"
           /\ Beside /\ store' = store /\ UNCHANGED ran
           /\ run'[e.job] \in {run[e.job], Cancel(run[e.job])}
           /\ \A k \in Jobs : k # e.job => run'[k] = run[k]
           /\ \/ \E ev : Answer(e, ev) /\ ev.type = failureOf(e)
              \/ e.kind = "signal" /\ effects' = effects \ {e}
              \/ /\ e.kind # "signal" /\ run'[e.job] = Cancel(run[e.job])
                 /\ Goto(e, IF e.kind = "follow" THEN "start" ELSE "wait")
              \/ /\ e.kind # "signal" /\ run' = run /\ ~Alive(run[e.job])
                 /\ Answer(e, goneOf(e, run[e.job]))
<1>1. e.job \in Jobs
  BY WorldNow
<1>2. e.kind \in {"follow", "signal", "stop"} /\ e.at = "cancel" /\ Beside /\ store' = store /\ UNCHANGED ran
  BY DEF CallCancel
<1>3. SetRun(e.job, Cancel(run[e.job])) =>
         run'[e.job] = Cancel(run[e.job]) /\ \A k \in Jobs : k # e.job => run'[k] = run[k]
  BY <1>1, SetRunIs
<1>4. run' = run \/ SetRun(e.job, Cancel(run[e.job]))
  BY DEF CallCancel, SetRun
<1>5. /\ Silent(failureOf(e)).type = failureOf(e)
      /\ e.kind = "signal" => Event("CancelFailed").type = failureOf(e)
  BY FailureIs, EventIs
<1>6. \/ \E ev : Answer(e, ev) /\ ev.type = failureOf(e)
      \/ e.kind = "signal" /\ effects' = effects \ {e}
      \/ /\ e.kind # "signal" /\ SetRun(e.job, Cancel(run[e.job]))
         /\ Goto(e, IF e.kind = "follow" THEN "start" ELSE "wait")
      \/ /\ e.kind # "signal" /\ run' = run /\ ~Alive(run[e.job])
         /\ Answer(e, goneOf(e, run[e.job]))
  BY <1>5 DEF CallCancel
<1> QED
  BY <1>2, <1>3, <1>4, <1>6

LEMMA CancelOpenStays ==
    ASSUME RunsInv, Shaped, NEW e \in effects, e.kind # "signal", ~Over(store[e.job]), CallCancel(e)
    PROVE  RunsInv'
<1> DEFINE j == e.job
           r == run[j]
           s == run'[j]
<1>1. /\ e.kind \in {"follow", "stop"} /\ e.at = "cancel"
      /\ Beside /\ store' = store /\ UNCHANGED ran
      /\ s \in {r, Cancel(r)}
      /\ \A k \in Jobs : k # j => run'[k] = run[k]
      /\ \/ \E ev : Answer(e, ev) /\ ev.type = failureOf(e)
         \/ /\ s = Cancel(r)
            /\ Goto(e, IF e.kind = "follow" THEN "start" ELSE "wait")
         \/ /\ s = r /\ ~Alive(r)
            /\ Answer(e, goneOf(e, r))
  BY CancelMoves
<1>2. /\ e.kind = MainOf(entry[j].phase)
      /\ e.kind \notin SideKinds /\ store[j].state = "running" /\ e.at # "up"
  BY <1>1, CallNow
<1>3. WorldStands(j, store[j], r, ran[j]) /\ r \in Run
  BY WorldNow
<1>4. Gentle(r, s) /\ s.proc = r.proc /\ (s = Cancel(r) /\ r.proc = "parked" => s.cancel)
  BY <1>1, <1>3, CancelledWorld, SMT
<1>5. ASSUME NEW ev, Answer(e, ev), CallStands(j, e, ev, s)
      PROVE  RunsInv'
  BY <1>1, <1>2, <1>4, <1>5, CallAnswered
<1>6. CASE \E ev : Answer(e, ev) /\ ev.type = failureOf(e)
  BY <1>5, <1>6 DEF CallStands
<1>7. CASE s = r /\ ~Alive(r) /\ Answer(e, goneOf(e, r))
  <2>1. CallStands(j, e, goneOf(e, r), r)
    BY <1>2, <1>3, <1>7, GoneStands
  <2>2. CallStands(j, e, goneOf(e, r), s)
    BY <1>7, <2>1
  <2> QED
    BY <1>5, <1>7, <2>2
<1>8. CASE s = Cancel(r) /\ Goto(e, IF e.kind = "follow" THEN "start" ELSE "wait")
  <2>1. PICK d : /\ Goes(e, d) /\ d.at = (IF e.kind = "follow" THEN "start" ELSE "wait")
                 /\ effects' = (effects \ {e}) \cup {d}
    BY <1>8, GotoIs
  <2>2. d.kind = e.kind /\ d.at \in {"start", "wait"} /\ (e.kind # "follow" => d.at = "wait")
    BY <2>1 DEF Goes
  <2>3. Speaks(d)
    BY <2>2 DEF Speaks
  <2>4. MainStands(j, d, entry[j], Sides(Mine(j)), store[j], s)
    <3>1. e.kind = "follow" => FollowStands(j, d, Sides(Mine(j)), store[j], s)
      BY <1>2, <1>4, <1>8, <2>2 DEF FollowStands
    <3>2. e.kind = "stop" => StopStands(j, d, store[j], s)
      BY <1>2, <2>2 DEF StopStands
    <3> QED
      BY <1>1, <1>2, <2>2, <3>1, <3>2 DEF MainStands
  <2> QED
    BY <1>1, <1>2, <1>4, <2>1, <2>3, <2>4, CallMoves
<1> QED
  BY <1>1, <1>6, <1>7, <1>8

\* A signal, or a look, of a job that is not over.
LEMMA SideMoves ==
    ASSUME RunsInv, Shaped, NEW e \in effects, e.kind \in SideKinds, ~Over(store[e.job]),
           entry[e.job].phase # "none",
           NEW N, \A d \in N : d.kind \in SideKinds, Shifted(e, N), store'[e.job] = store[e.job],
           WorldStands(e.job, store[e.job], run'[e.job], ran'[e.job]),
           OpenStands(e.job, entry[e.job], (Sides(Mine(e.job)) \ {e}) \cup N, Mains(Mine(e.job)),
                      store[e.job], run'[e.job])
    PROVE  RunsInv'
<1> DEFINE E == Mine(e.job)
<1>1. Sides((E \ {e}) \cup N) = (Sides(E) \ {e}) \cup N /\ Mains((E \ {e}) \cup N) = Mains(E)
  BY DEF Sides, Mains
<1>2. JobStands(e.job, entry[e.job], (E \ {e}) \cup N, store'[e.job], run'[e.job])
  BY <1>1 DEF JobStands
<1>3. store[e.job].state # "absent"
  BY DEF OpenStands, EntryStands
<1> QED
  BY <1>2, <1>3, ShiftStays

LEMMA OpenSide ==
    ASSUME RunsInv, Shaped, NEW e \in effects, e.kind \in SideKinds, ~Over(store[e.job])
    PROVE  /\ OpenStands(e.job, entry[e.job], Sides(Mine(e.job)), Mains(Mine(e.job)), store[e.job], run[e.job])
           /\ SideStands(e, entry[e.job], Sides(Mine(e.job)), store[e.job], run[e.job])
           /\ e \in Sides(Mine(e.job))
<1>1. e.job \in Jobs /\ e \in Mine(e.job)
  BY MineJobs
<1>2. OpenStands(e.job, entry[e.job], Sides(Mine(e.job)), Mains(Mine(e.job)), store[e.job], run[e.job])
  BY <1>1 DEF RunsInv, JobInv, JobStands
<1>3. e \in Sides(Mine(e.job))
  BY <1>1 DEF Sides
<1> QED
  BY <1>2, <1>3 DEF OpenStands

LEMMA SignalOpenStays ==
    ASSUME RunsInv, Shaped, NEW e \in effects, e.kind = "signal", ~Over(store[e.job]), CallCancel(e)
    PROVE  RunsInv'
<1> DEFINE j == e.job
           r == run[j]
           s == run'[j]
           S == Sides(Mine(j))
           M == Mains(Mine(j))
           c == entry[j]
           job == store[j]
<1>1. /\ Beside /\ store' = store /\ UNCHANGED ran
      /\ s \in {r, Cancel(r)}
      /\ \A k \in Jobs : k # j => run'[k] = run[k]
      /\ \/ \E ev : Answer(e, ev) /\ ev.type = failureOf(e)
         \/ effects' = effects \ {e}
  BY CancelMoves
<1>2. e.kind \in SideKinds /\ failureOf(e) = "CancelFailed"
  BY FailureIs DEF SideKinds
<1>3. WorldStands(j, job, r, ran[j]) /\ r \in Run /\ Good(c)
  BY WorldNow
<1>4. Gentle(r, s) /\ s.proc = r.proc /\ WorldStands(j, job, s, ran[j])
  BY <1>1, <1>3, CancelledWorld, SMT
<1>5. OpenStands(j, c, S, M, job, r) /\ SideStands(e, c, S, job, r)
  BY <1>2, OpenSide
<1>6. c.cancelAsked /\ c.phase # "none"
  <2>1. c.cancelAsked
    BY <1>5 DEF SideStands
  <2>2. NoEntry.cancelAsked = FALSE
    BY DEF NoEntry
  <2>3. c.phase = "none" => c = NoEntry
    BY <1>3 DEF Good, CoherentEntry
  <2> QED
    BY <2>1, <2>2, <2>3
<1>7. ran \in [Jobs -> Nat]
  BY DEF RunsInv, Calm
<1>8. OpenStands(j, c, S \ {e}, M, job, s)
  <2>1. (r = NoRun => r.proc = "none") /\ (job.state = "running" => r.proc # "starting")
    BY <1>3, NoRunIs DEF WorldStands
  <2> HIDE DEF c, S, M, job, r, s
  <2>2. OpenStands(j, c, S, M, job, s)
    BY <1>4, <1>5, <2>1, GentleStands
  <2> QED
    BY <2>2, DropSide
<1>9. store'[j] = job /\ ran'[j] = ran[j]
  BY <1>1
<1>10. CASE effects' = effects \ {e}
  <2> DEFINE N == {}
  <2>1. /\ \A d \in N : d.kind \in SideKinds
        /\ OpenStands(j, c, (S \ {e}) \cup N, M, job, s)
        /\ Shifted(e, N)
    <3>1. (S \ {e}) \cup N = S \ {e} /\ effects' = (effects \ {e}) \cup N
      BY <1>10
    <3> QED
      BY <1>1, <1>7, <1>8, <3>1 DEF Shifted
  <2> HIDE DEF N
  <2> QED
    BY <1>2, <1>4, <1>6, <1>9, <2>1, SideMoves
<1>11. ASSUME NEW ev, Answer(e, ev), ev.type = "CancelFailed"
       PROVE  RunsInv'
  <2>1. PICK d : Goes(e, d) /\ d.at = "post" /\ d.ev = ev /\ effects' = (effects \ {e}) \cup {d}
    BY <1>11, AnswerIs, SMT
  <2>2. d.kind = "signal" /\ Speaks(d)
    BY <1>11, <2>1 DEF Goes, Speaks, AnswersOf
  <2>3. SideStands(d, c, S \ {e}, job, s)
    BY <1>6, <1>11, <2>1, <2>2 DEF SideStands
  <2>4. OpenStands(j, c, (S \ {e}) \cup {d}, M, job, s)
    <3> DEFINE T == S \ {e}
    <3>1. SideStands(d, c, T, job, s) /\ OpenStands(j, c, T, M, job, s) /\ d.kind \in {"retry", "signal"}
      BY <1>8, <2>2, <2>3
    <3> HIDE DEF T, c, M, job, s
    <3>2. OpenStands(j, c, T \cup {d}, M, job, s)
      BY <3>1, AddSide, SMT
    <3> QED
      BY <3>2 DEF T
  <2>5. Shifted(e, {d})
    BY <1>1, <2>1, <2>2, BesideShifts
  <2> DEFINE N == {d}
  <2>6. /\ \A x \in N : x.kind \in SideKinds
        /\ OpenStands(j, c, (S \ {e}) \cup N, M, job, s)
        /\ Shifted(e, N)
    BY <1>2, <2>2, <2>4, <2>5
  <2> HIDE DEF N
  <2> QED
    BY <1>2, <1>4, <1>6, <1>9, <2>6, SideMoves
<1> QED
  BY <1>1, <1>2, <1>10, <1>11

\* A follow goes on: what else it leaves alone, while a job runs.
LEMMA FollowTurns ==
    ASSUME NEW j, NEW c, Good(c), NEW S, NEW e, NEW d, NEW job, NEW r, NEW s, OpenStands(j, c, S, {e}, job, r),
           e.kind = "follow", d.kind = "follow", FollowStands(j, d, S, job, s),
           \A x \in S : x.kind = "reexamine" => \A p : PresenceStands(p, job, r) => PresenceStands(p, job, s)
    PROVE  OpenStands(j, c, S, {d}, job, s)
<1>1. c.phase = "running" /\ EntryStands(j, c, job, r) /\ SidesStand(c, S, job, r) /\ ~Idles(c)
  <2>1. ~Idles(c)
    BY OpenWith
  <2> QED
    BY <2>1, Answering
<1>2. ~c.parked /\ c.phase \notin Ending
  BY <1>1 DEF Good, CoherentEntry, Ending
<1>3. EntryStands(j, c, job, s)
  BY <1>1, <1>2 DEF EntryStands
<1>4. ASSUME NEW x \in S
      PROVE  SideStands(x, c, S, job, s)
  <2>1. SideStands(x, c, S, job, r)
    BY <1>1, <1>4 DEF SidesStand
  <2>2. LookFits(x, c, S, r) => LookFits(x, c, S, s)
    BY <1>2 DEF LookFits
  <2>3. x.kind = "reexamine" /\ LookStands(x, job, r) => LookStands(x, job, s)
    BY <1>4 DEF LookStands, FindingStands
  <2> QED
    BY <2>1, <2>2, <2>3 DEF SideStands
<1>5. MainStands(j, d, c, S, job, s)
  BY <1>1, MainOfPhases DEF MainStands
<1> QED
  BY <1>1, <1>2, <1>3, <1>4, <1>5 DEF OpenStands

LEMMA FollowMoves ==
    ASSUME RunsInv, Shaped, NEW e \in effects, e.kind = "follow", ~Over(store[e.job]), store' = store,
           NEW d, d.kind = "follow", Shifted(e, {d}),
           WorldStands(e.job, store[e.job], run'[e.job], ran'[e.job]),
           FollowStands(e.job, d, Sides(Mine(e.job)), store[e.job], run'[e.job]),
           \A x \in Sides(Mine(e.job)) : x.kind = "reexamine" =>
              \A p : PresenceStands(p, store[e.job], run[e.job]) => PresenceStands(p, store[e.job], run'[e.job])
    PROVE  RunsInv'
<1> DEFINE j == e.job
           c == entry[j]
           S == Sides(Mine(j))
           job == store[j]
           r == run[j]
           s == run'[j]
<1>1. e.kind \notin SideKinds
  BY DEF SideKinds
<1>2. OpenStands(j, c, S, {e}, job, r) /\ job.state \in {"queued", "running"} /\ Good(c)
  BY <1>1, OpenMain, WorldNow
<1>3. /\ FollowStands(j, d, S, job, s)
      /\ \A x \in S : x.kind = "reexamine" => \A p : PresenceStands(p, job, r) => PresenceStands(p, job, s)
      /\ store'[j] = job /\ job.state # "absent" /\ e.kind = d.kind
  BY <1>2
<1> HIDE DEF c, S, job, r, s
<1>4. OpenStands(j, c, S, {d}, job, s)
  BY <1>2, <1>3, FollowTurns
<1> QED
  BY <1>1, <1>3, <1>4, MainMoves DEF c, S, job, s

LEMMA MarkedWorld ==
    ASSUME NEW j, NEW job, NEW r \in Run, NEW n, WorldStands(j, job, r, n), job.state = "running" \/ Over(job),
           Alive(r)
    PROVE  /\ WorldStands(j, job, markStartSent(r), n)
           /\ job.state = "running" =>
                 \A p : PresenceStands(p, job, r) => PresenceStands(p, job, markStartSent(r))
<1> DEFINE s == markStartSent(r)
<1>1. s.proc = r.proc /\ s.dir = r.dir /\ s.end = r.end /\ s.mark = "sent" /\ s.cancel = r.cancel
  BY Marking
<1> HIDE DEF s
<1>2. ~Unmarked(s) /\ ~Unsent(s)
  BY <1>1, Marked
<1>3. r.proc # "none" /\ r # NoRun
  BY NoRunIs DEF Alive
<1>4. WorldStands(j, job, s, n)
  BY <1>1, <1>2 DEF WorldStands, Over, FinalStates
<1>5. job.state = "running" => \A p : PresenceStands(p, job, r) => PresenceStands(p, job, s)
  BY <1>1, <1>3 DEF PresenceStands
<1> QED
  BY <1>4, <1>5 DEF s

LEMMA StartedWorld ==
    ASSUME NEW j, NEW job, job.attempts \in Nat, NEW r \in Run, NEW n, WorldStands(j, job, r, n),
           job.state = "running", r.mark = "sent"
    PROVE  /\ WorldStands(j, job, Start(r), n + (IF Start(r).proc = "executing" /\ r.proc = "parked" THEN 1 ELSE 0))
           /\ r.proc # "parked" \/ r.cancel =>
                 \A p : PresenceStands(p, job, r) => PresenceStands(p, job, Start(r))
<1> DEFINE s == Start(r)
<1>1. /\ s.dir = r.dir /\ s.mark = r.mark /\ s.cancel = r.cancel
      /\ r.proc # "parked" => s = r
      /\ r.proc = "parked" /\ r.cancel => s.proc = "finished" /\ s.end = "cancelled"
      /\ r.proc = "parked" /\ ~r.cancel => s.proc = "executing" /\ s.end = r.end
  BY Starting
<1> HIDE DEF s
<1>2. ~Unmarked(s) /\ ~Unsent(s) /\ ~Unmarked(r)
  BY <1>1, Marked
<1>3. n \in Nat /\ n + 0 = n
  BY SMT DEF WorldStands
<1>4. CASE r.proc # "parked"
  BY <1>1, <1>3, <1>4 DEF s
<1>5. CASE r.proc = "parked" /\ r.cancel
  <2>1. s.proc = "finished" /\ s.end = "cancelled" /\ s.cancel /\ r.proc # "none" /\ r # NoRun
    BY <1>1, <1>5, NoRunIs
  <2>2. WorldStands(j, job, s, n)
    BY <1>1, <1>2, <1>5, <2>1 DEF WorldStands, Over, FinalStates
  <2>3. \A p : PresenceStands(p, job, r) => PresenceStands(p, job, s)
    BY <2>1 DEF PresenceStands
  <2>4. n + (IF s.proc = "executing" /\ r.proc = "parked" THEN 1 ELSE 0) = n
    BY <1>3, <2>1
  <2> QED
    BY <2>2, <2>3, <2>4 DEF s
<1>6. CASE r.proc = "parked" /\ ~r.cancel
  <2>1. s.proc = "executing" /\ s.end = r.end
    BY <1>1, <1>6
  <2>2. n <= BegunBefore(j, job) /\ (s.end = "cancelled" => s.cancel) /\ r.dir
    BY <1>1, <1>6, <2>1 DEF WorldStands
  <2>3. n + 1 \in Nat /\ n + 1 <= IF j \in Rerun THEN job.attempts + 1 ELSE 1
    BY <1>3, <2>2, SMT DEF BegunBefore
  <2>4. n + (IF s.proc = "executing" /\ r.proc = "parked" THEN 1 ELSE 0) = n + 1
    BY <1>6, <2>1
  <2>5. WorldStands(j, job, s, n + 1)
    BY <1>1, <1>2, <2>1, <2>2, <2>3 DEF WorldStands, Over, FinalStates
  <2> QED
    BY <1>6, <2>4, <2>5 DEF s
<1> QED
  BY <1>4, <1>5, <1>6

LEMMA FollowStartStays ==
    ASSUME RunsInv, Shaped, NEW e \in effects, ~Over(store[e.job]), FollowStart(e)
    PROVE  RunsInv'
<1> DEFINE j == e.job
           r == run[j]
<1>1. e.kind = "follow" /\ e.at = "start" /\ Beside /\ store' = store /\ UNCHANGED ran
  BY DEF FollowStart
<1>2. /\ e.kind \notin SideKinds /\ store[j].state = "running"
      /\ FollowStands(j, e, Sides(Mine(j)), store[j], r)
  BY <1>1, CallNow
<1>3. j \in Jobs /\ WorldStands(j, store[j], r, ran[j]) /\ r \in Run
  BY WorldNow
<1>4. ASSUME NEW ev, Answer(e, ev), run' = run, CallStands(j, e, ev, r)
      PROVE  RunsInv'
  <2>1. Gentle(r, run'[j]) /\ CallStands(j, e, ev, run'[j]) /\ \A k \in Jobs : k # j => run'[k] = run[k]
    BY <1>3, <1>4, GentleSelf
  <2>2. e.kind \in {"follow", "stop"} /\ e.at # "up"
    BY <1>1
  <2> QED
    BY <1>1, <1>4, <2>1, <2>2, CallAnswered
<1>5. CASE SetRun(j, markStartSent(r)) /\ Alive(r) /\ Goto(e, "tell")
  <2> DEFINE s == markStartSent(r)
  <2>1. run'[j] = s /\ \A k \in Jobs : k # j => run'[k] = run[k]
    BY <1>3, <1>5, SetRunIs
  <2>2. PICK d : Goes(e, d) /\ d.at = "tell" /\ effects' = (effects \ {e}) \cup {d}
    BY <1>5, GotoIs
  <2>3. d.kind = "follow" /\ Speaks(d)
    BY <1>1, <2>2 DEF Goes, Speaks
  <2>4. s.proc = r.proc /\ s.mark = "sent" /\ s.cancel = r.cancel
    BY <1>3, Marking
  <2>5. /\ WorldStands(j, store[j], s, ran[j])
        /\ \A p : PresenceStands(p, store[j], r) => PresenceStands(p, store[j], s)
    BY <1>2, <1>3, <1>5, MarkedWorld
  <2> HIDE DEF s
  <2>6. FollowStands(j, d, Sides(Mine(j)), store[j], s)
    BY <1>1, <1>2, <2>2, <2>4 DEF FollowStands
  <2>7. Shifted(e, {d})
    BY <1>1, <2>1, <2>2, <2>3, BesideShifts
  <2>8. /\ WorldStands(j, store[j], run'[j], ran'[j])
        /\ FollowStands(j, d, Sides(Mine(j)), store[j], run'[j])
        /\ \A x \in Sides(Mine(j)) : x.kind = "reexamine" =>
              \A p : PresenceStands(p, store[j], r) => PresenceStands(p, store[j], run'[j])
    BY <1>1, <2>1, <2>5, <2>6
  <2> QED
    BY <1>1, <2>3, <2>7, <2>8, FollowMoves
<1>6. \/ SetRun(j, markStartSent(r)) /\ Alive(r) /\ Goto(e, "tell")
      \/ run' = run /\ \E ev : Answer(e, ev) /\ (ev.type = "FollowFailed" \/ (ev = goneOf(e, r) /\ ~Alive(r)))
  <2>1. Silent("FollowFailed").type = "FollowFailed" /\ Failed("FollowFailed", "store away").type = "FollowFailed"
    BY EventIs DEF Silent
  <2> QED
    BY <2>1 DEF FollowStart
<1>7. ASSUME NEW ev, ev.type = "FollowFailed" \/ (ev = goneOf(e, r) /\ ~Alive(r))
      PROVE  CallStands(j, e, ev, r)
  <2>1. ~Alive(r) => CallStands(j, e, goneOf(e, r), r)
    BY <1>2, <1>3, GoneStands
  <2>2. ev.type = "FollowFailed" => CallStands(j, e, ev, r)
    BY <1>1, FailureIs DEF CallStands
  <2> QED
    BY <1>7, <2>1, <2>2
<1> QED
  BY <1>4, <1>5, <1>6, <1>7

\* The command is told to start.
Told(e) ==
    /\ run' = [run EXCEPT ![e.job] = Start(run[e.job])]
    /\ ran' = [ran EXCEPT ![e.job] = @ + (IF Start(run[e.job]).proc = "executing" /\ run[e.job].proc = "parked"
                                          THEN 1 ELSE 0)]

LEMMA FollowTellIs ==
    ASSUME NEW e, FollowTell(e)
    PROVE  /\ e.kind = "follow" /\ e.at = "tell" /\ Beside /\ store' = store
           /\ \/ Told(e) /\ Goto(e, "wait") /\ Alive(run[e.job])
              \/ (Told(e) \/ UNCHANGED <<run, ran>>) /\ \E ev : Answer(e, ev) /\ ev.type = "FollowFailed"
              \/ UNCHANGED <<run, ran>> /\ ~Alive(run[e.job]) /\ Answer(e, goneOf(e, run[e.job]))
<1>1. Silent("FollowFailed").type = "FollowFailed" /\ Failed("FollowFailed", "refused").type = "FollowFailed"
  BY EventIs DEF Silent
<1> QED
  BY <1>1 DEF FollowTell, Told

LEMMA ToldIs ==
    ASSUME RunsInv, Shaped, NEW e \in effects, Told(e)
    PROVE  /\ run'[e.job] = Start(run[e.job])
           /\ ran'[e.job] = ran[e.job] + (IF Start(run[e.job]).proc = "executing" /\ run[e.job].proc = "parked"
                                          THEN 1 ELSE 0)
           /\ \A k \in Jobs : k # e.job => run'[k] = run[k] /\ ran'[k] = ran[k]
           /\ ran' \in [Jobs -> Nat]
<1>1. e.job \in Jobs /\ run \in [Jobs -> Run] /\ ran \in [Jobs -> Nat]
  BY MineJobs DEF RunsInv, Calm, Shaped, ShellInv, WorldOK
<1> DEFINE m == IF Start(run[e.job]).proc = "executing" /\ run[e.job].proc = "parked" THEN 1 ELSE 0
<1>2. m \in {0, 1}
  OBVIOUS
<1>3. run' = [run EXCEPT ![e.job] = Start(run[e.job])] /\ ran' = [ran EXCEPT ![e.job] = @ + m]
  BY DEF Told
<1> HIDE DEF m
<1>4. ran'[e.job] = ran[e.job] + m /\ ran' \in [Jobs -> Nat] /\ \A k \in Jobs : k # e.job => ran'[k] = ran[k]
  BY <1>1, <1>2, <1>3, SMT
<1>5. run'[e.job] = Start(run[e.job]) /\ \A k \in Jobs : k # e.job => run'[k] = run[k]
  BY <1>1, <1>3
<1> QED
  BY <1>4, <1>5 DEF m

LEMMA FollowTellStays ==
    ASSUME RunsInv, Shaped, NEW e \in effects, ~Over(store[e.job]), FollowTell(e)
    PROVE  RunsInv'
<1> DEFINE j == e.job
           r == run[j]
<1>1. /\ e.kind = "follow" /\ e.at = "tell" /\ Beside /\ store' = store
      /\ \/ Told(e) /\ Goto(e, "wait") /\ Alive(r)
         \/ (Told(e) \/ UNCHANGED <<run, ran>>) /\ \E ev : Answer(e, ev) /\ ev.type = "FollowFailed"
         \/ UNCHANGED <<run, ran>> /\ ~Alive(r) /\ Answer(e, goneOf(e, r))
  BY FollowTellIs
<1>2. /\ e.kind \notin SideKinds /\ store[j].state = "running"
      /\ FollowStands(j, e, Sides(Mine(j)), store[j], r)
  BY <1>1, CallNow
<1>3. j \in Jobs /\ WorldStands(j, store[j], r, ran[j]) /\ r \in Run /\ store[j].attempts \in Nat
  BY WorldNow, StoredAttempts
<1>4. ASSUME NEW ev, Answer(e, ev), UNCHANGED <<run, ran>>, CallStands(j, e, ev, r)
      PROVE  RunsInv'
  <2>1. Gentle(r, run'[j]) /\ CallStands(j, e, ev, run'[j]) /\ \A k \in Jobs : k # j => run'[k] = run[k]
    BY <1>3, <1>4, GentleSelf
  <2>2. e.kind \in {"follow", "stop"} /\ e.at # "up"
    BY <1>1
  <2> QED
    BY <1>1, <1>4, <2>1, <2>2, CallAnswered
<1>5. ASSUME Told(e), NEW d, Goes(e, d), effects' = (effects \ {e}) \cup {d},
             d.at = "wait" \/ (d.at = "post" /\ d.ev.type = "FollowFailed")
      PROVE  RunsInv'
  <2>1. /\ run'[j] = Start(r)
        /\ ran'[j] = ran[j] + (IF Start(r).proc = "executing" /\ r.proc = "parked" THEN 1 ELSE 0)
        /\ \A k \in Jobs : k # j => run'[k] = run[k] /\ ran'[k] = ran[k]
        /\ ran' \in [Jobs -> Nat]
    BY <1>5, ToldIs
  <2>2. r.mark = "sent" /\ (r.proc = "parked" /\ ~r.cancel => \A x \in Sides(Mine(j)) : x.kind # "reexamine")
    BY <1>1, <1>2 DEF FollowStands
  <2>3. /\ WorldStands(j, store[j], Start(r), ran[j] + (IF Start(r).proc = "executing" /\ r.proc = "parked" THEN 1 ELSE 0))
        /\ r.proc # "parked" \/ r.cancel =>
              \A p : PresenceStands(p, store[j], r) => PresenceStands(p, store[j], Start(r))
    BY <1>2, <1>3, <2>2, StartedWorld
  <2>4. d.kind = "follow" /\ d.job = j /\ Speaks(d)
    BY <1>1, <1>5 DEF Goes, Speaks, AnswersOf
  <2>5. FollowStands(j, d, Sides(Mine(j)), store[j], run'[j])
    BY <1>2, <1>5 DEF FollowStands
  <2>6. Shifted(e, {d})
    BY <1>1, <1>5, <2>1, <2>4 DEF Shifted
  <2>7. /\ WorldStands(j, store[j], run'[j], ran'[j])
        /\ \A x \in Sides(Mine(j)) : x.kind = "reexamine" =>
              \A p : PresenceStands(p, store[j], r) => PresenceStands(p, store[j], run'[j])
    BY <2>1, <2>2, <2>3
  <2> QED
    BY <1>1, <2>4, <2>5, <2>6, <2>7, FollowMoves
<1>6. CASE Told(e) /\ Goto(e, "wait")
  BY <1>5, <1>6, GotoIs
<1>7. ASSUME NEW ev, Answer(e, ev), ev.type = "FollowFailed", Told(e) \/ UNCHANGED <<run, ran>>
      PROVE  RunsInv'
  <2>1. CallStands(j, e, ev, r)
    BY <1>1, <1>7, FailureIs DEF CallStands
  <2>2. PICK d : Goes(e, d) /\ d.at = "post" /\ d.ev = ev /\ effects' = (effects \ {e}) \cup {d}
    BY <1>7, AnswerIs, SMT
  <2> QED
    BY <1>4, <1>5, <1>7, <2>1, <2>2
<1>8. CASE UNCHANGED <<run, ran>> /\ ~Alive(r) /\ Answer(e, goneOf(e, r))
  <2>1. CallStands(j, e, goneOf(e, r), r)
    BY <1>2, <1>3, <1>8, GoneStands
  <2> QED
    BY <1>4, <1>8, <2>1
<1> QED
  BY <1>1, <1>6, <1>7, <1>8

LEMMA WaitIs ==
    ASSUME NEW e, Wait(e)
    PROVE  /\ e.kind \in {"follow", "stop"} /\ e.at = "wait" /\ Beside /\ store' = store /\ run' = run /\ ran' = ran
           /\ \E ev : /\ Answer(e, ev)
                      /\ \/ ev.type = failureOf(e)
                         \/ run[e.job].proc = "finished" /\ ev = FinishedEvent(outcomeOf(run[e.job], e.job \in Rerun))
                         \/ run[e.job].proc \in {"none", "released"} /\ ev = goneOf(e, run[e.job])
<1>1. /\ Silent(failureOf(e)).type = failureOf(e)
      /\ e.kind = "stop" => Event("StopFailed").type = failureOf(e)
      /\ e.kind = "follow" => Failed("FollowFailed", "store away").type = failureOf(e)
  <2>1. Event("StopFailed").type = "StopFailed"
    BY EventIs
  <2>2. Failed("FollowFailed", "store away").type = "FollowFailed"
    BY EventIs
  <2> QED
    BY <2>1, <2>2, FailureIs
<1> QED
  BY <1>1 DEF Wait, world

LEMMA WaitStays ==
    ASSUME RunsInv, Shaped, NEW e \in effects, ~Over(store[e.job]), Wait(e)
    PROVE  RunsInv'
<1> DEFINE j == e.job
           r == run[j]
<1>1. e.kind \in {"follow", "stop"} /\ e.at = "wait" /\ Beside /\ store' = store /\ run' = run /\ ran' = ran
  BY WaitIs
<1>2. PICK ev : /\ Answer(e, ev)
                /\ \/ ev.type = failureOf(e)
                   \/ r.proc = "finished" /\ ev = FinishedEvent(outcomeOf(r, j \in Rerun))
                   \/ r.proc \in {"none", "released"} /\ ev = goneOf(e, r)
  BY WaitIs
<1>3. store[j].state = "running"
  BY <1>1, CallNow
<1>4. WorldStands(j, store[j], r, ran[j]) /\ r \in Run
  BY WorldNow
<1>5. CallStands(j, e, ev, r)
  <2>1. CASE ev.type = failureOf(e)
    BY <2>1 DEF CallStands
  <2>2. CASE r.proc = "finished" /\ ev = FinishedEvent(outcomeOf(r, j \in Rerun))
    <3>1. ev.type = "Finished" /\ ev.o = outcomeOf(r, j \in Rerun)
      BY <2>2 DEF FinishedEvent
    <3>2. r.end # "none"
      BY <1>4, <2>2 DEF WorldStands
    <3> QED
      BY <2>2, <3>1, <3>2 DEF CallStands, EndStands
  <2>3. CASE r.proc \in {"none", "released"} /\ ev = goneOf(e, r)
    <3>1. CallStands(j, e, goneOf(e, r), r)
      BY <1>3, <1>4, <2>3, GoneStands
    <3> QED
      BY <2>3, <3>1
  <2> QED
    BY <1>2, <2>1, <2>2, <2>3
<1>6. Gentle(r, run'[j]) /\ CallStands(j, e, ev, run'[j]) /\ e.at # "up" /\ \A k \in Jobs : k # j => run'[k] = run[k]
  BY <1>1, <1>4, <1>5, GentleSelf
<1>7. Answer(e, ev) /\ UNCHANGED ran
  BY <1>1, <1>2
<1> QED
  BY <1>1, <1>6, <1>7, CallAnswered

-----------------------------------------------------------------------------
(* Calls of a job that is over: its run is not told to start. *)

LEMMA CallOver ==
    ASSUME RunsInv, Shaped, NEW e \in effects, Over(store[e.job]), e.kind \in {"follow", "stop", "signal"},
           Beside, store' = store, UNCHANGED ran, \A k \in Jobs : k # e.job => run'[k] = run[k],
           WorldStands(e.job, store[e.job], run'[e.job], ran[e.job]), run'[e.job].proc = run[e.job].proc,
           NEW d, Goes(e, d), effects' = (effects \ {e}) \cup {d}, Speaks(d),
           d.at \in {"post", "wait"} \/ run[e.job].proc # "parked"
    PROVE  RunsInv'
<1>1. Shifted(e, {d})
  BY BesideShifts
<1>2. Tame(d, run'[e.job])
  BY DEF Tame, Goes
<1>3. store'[e.job] = store[e.job] /\ WorldStands(e.job, store[e.job], run'[e.job], ran'[e.job])
  OBVIOUS
<1> QED
  BY <1>1, <1>2, <1>3, OverGoesOn

LEMMA OverFollow ==
    ASSUME RunsInv, Shaped, NEW e \in effects, Over(store[e.job]), e.kind = "follow", e.at \in {"cancel", "start", "tell"}
    PROVE  run[e.job].proc # "parked"
<1>1. e.job \in Jobs /\ e \in Mine(e.job)
  BY MineJobs
<1> QED
  BY <1>1 DEF RunsInv, JobInv, JobStands, OverStands, Tame

LEMMA OverAnswers ==
    ASSUME RunsInv, Shaped, NEW e \in effects, Over(store[e.job]), e.kind \in {"follow", "stop", "signal"},
           Beside, store' = store, UNCHANGED ran, \A k \in Jobs : k # e.job => run'[k] = run[k],
           WorldStands(e.job, store[e.job], run'[e.job], ran[e.job]), run'[e.job].proc = run[e.job].proc,
           NEW ev, Answer(e, ev), ev.type \in AnswersOf(e.kind)
    PROVE  RunsInv'
<1>1. PICK d : Goes(e, d) /\ d.at = "post" /\ d.ev = ev /\ effects' = (effects \ {e}) \cup {d}
  BY AnswerIs, SMT
<1>2. Speaks(d) /\ d.at \in {"post", "wait"}
  BY <1>1 DEF Speaks, Goes
<1> QED
  BY <1>1, <1>2, CallOver

LEMMA AnswerTypes ==
    ASSUME NEW e, NEW r, e.kind \in {"follow", "stop"}
    PROVE  failureOf(e) \in AnswersOf(e.kind) /\ goneOf(e, r).type \in AnswersOf(e.kind)
<1>1. failureOf(e) \in AnswersOf(e.kind) /\ "SupervisorLost" \in AnswersOf(e.kind)
  BY FailureIs DEF AnswersOf
<1>2. goneOf(e, r).type \in {"SupervisorLost", failureOf(e)}
  BY GoneIs
<1> QED
  BY <1>1, <1>2

LEMMA CancelOverStays ==
    ASSUME RunsInv, Shaped, NEW e \in effects, Over(store[e.job]), CallCancel(e)
    PROVE  RunsInv'
<1> DEFINE j == e.job
           r == run[j]
           s == run'[j]
<1>1. /\ e.kind \in {"follow", "signal", "stop"} /\ e.at = "cancel"
      /\ Beside /\ store' = store /\ UNCHANGED ran
      /\ s \in {r, Cancel(r)}
      /\ \A k \in Jobs : k # j => run'[k] = run[k]
      /\ \/ \E ev : Answer(e, ev) /\ ev.type = failureOf(e)
         \/ e.kind = "signal" /\ effects' = effects \ {e}
         \/ /\ e.kind # "signal"
            /\ Goto(e, IF e.kind = "follow" THEN "start" ELSE "wait")
         \/ /\ e.kind # "signal" /\ Answer(e, goneOf(e, r))
  BY CancelMoves
<1>2. WorldStands(j, store[j], r, ran[j]) /\ r \in Run
  BY WorldNow
<1>3. s.proc = r.proc /\ WorldStands(j, store[j], s, ran[j])
  BY <1>1, <1>2, CancelledWorld, SMT
<1>4. ASSUME NEW ev, Answer(e, ev), ev.type \in AnswersOf(e.kind)
      PROVE  RunsInv'
  BY <1>1, <1>3, <1>4, OverAnswers
<1>5. failureOf(e) \in AnswersOf(e.kind) /\ (e.kind # "signal" => goneOf(e, r).type \in AnswersOf(e.kind))
  <2>1. e.kind = "signal" => failureOf(e) \in AnswersOf(e.kind)
    BY FailureIs DEF AnswersOf
  <2>2. e.kind # "signal" => e.kind \in {"follow", "stop"}
    BY <1>1
  <2> QED
    BY <2>1, <2>2, AnswerTypes, SMT
<1>6. CASE e.kind = "signal" /\ effects' = effects \ {e}
  <2> DEFINE N == {}
  <2>1. ran \in [Jobs -> Nat]
    BY DEF RunsInv, Calm
  <2>2. Shifted(e, N) /\ \A d \in N : Tame(d, s)
    BY <1>1, <1>6, <2>1 DEF Shifted
  <2>3. store'[j] = store[j] /\ WorldStands(j, store[j], s, ran'[j])
    BY <1>1, <1>3
  <2> HIDE DEF N
  <2> QED
    BY <1>3, <2>2, <2>3, OverMoves
<1>7. CASE e.kind # "signal" /\ Goto(e, IF e.kind = "follow" THEN "start" ELSE "wait")
  <2>1. PICK d : /\ Goes(e, d) /\ d.at = (IF e.kind = "follow" THEN "start" ELSE "wait")
                 /\ effects' = (effects \ {e}) \cup {d}
    BY <1>7, GotoIs
  <2>2. d.at \in {"post", "wait"} \/ r.proc # "parked"
    BY <1>1, <2>1, OverFollow
  <2>3. Speaks(d)
    BY <2>1 DEF Speaks
  <2> QED
    BY <1>1, <1>3, <2>1, <2>2, <2>3, CallOver
<1> QED
  BY <1>1, <1>4, <1>5, <1>6, <1>7

LEMMA FollowStartOver ==
    ASSUME RunsInv, Shaped, NEW e \in effects, Over(store[e.job]), FollowStart(e)
    PROVE  RunsInv'
<1> DEFINE j == e.job
           r == run[j]
<1>1. e.kind = "follow" /\ e.at = "start" /\ Beside /\ store' = store /\ UNCHANGED ran
  BY DEF FollowStart
<1>2. j \in Jobs /\ WorldStands(j, store[j], r, ran[j]) /\ r \in Run
  BY WorldNow
<1>3. ASSUME NEW ev, Answer(e, ev), ev.type \in AnswersOf(e.kind), run' = run
      PROVE  RunsInv'
  <2>1. WorldStands(j, store[j], run'[j], ran[j]) /\ run'[j].proc = r.proc /\ \A k \in Jobs : k # j => run'[k] = run[k]
    BY <1>2, <1>3
  <2>2. e.kind \in {"follow", "stop", "signal"}
    BY <1>1
  <2> QED
    BY <1>1, <1>3, <2>1, <2>2, OverAnswers
<1>4. failureOf(e) = "FollowFailed" /\ failureOf(e) \in AnswersOf(e.kind) /\ goneOf(e, r).type \in AnswersOf(e.kind)
  <2>1. e.kind \in {"follow", "stop"} /\ failureOf(e) = "FollowFailed"
    BY <1>1, FailureIs
  <2> QED
    BY <2>1, AnswerTypes, SMT
<1>5. CASE SetRun(j, markStartSent(r)) /\ Alive(r) /\ Goto(e, "tell")
  <2>1. run'[j] = markStartSent(r) /\ \A k \in Jobs : k # j => run'[k] = run[k]
    BY <1>2, <1>5, SetRunIs
  <2>2. PICK d : Goes(e, d) /\ d.at = "tell" /\ effects' = (effects \ {e}) \cup {d}
    BY <1>5, GotoIs
  <2>3. Speaks(d)
    BY <2>2 DEF Speaks
  <2>4. WorldStands(j, store[j], markStartSent(r), ran[j]) /\ markStartSent(r).proc = r.proc
    BY <1>2, <1>5, MarkedWorld, Marking
  <2>5. r.proc # "parked" /\ e.kind \in {"follow", "stop", "signal"}
    BY <1>1, OverFollow
  <2>6. WorldStands(j, store[j], run'[j], ran[j]) /\ run'[j].proc = r.proc
    BY <2>1, <2>4
  <2> QED
    BY <1>1, <2>1, <2>2, <2>3, <2>5, <2>6, CallOver
<1>6. \/ SetRun(j, markStartSent(r)) /\ Alive(r) /\ Goto(e, "tell")
      \/ run' = run /\ \E ev : Answer(e, ev) /\ (ev.type = "FollowFailed" \/ ev = goneOf(e, r))
  <2>1. Silent("FollowFailed").type = "FollowFailed" /\ Failed("FollowFailed", "store away").type = "FollowFailed"
    BY EventIs DEF Silent
  <2> QED
    BY <2>1 DEF FollowStart
<1> QED
  BY <1>3, <1>4, <1>5, <1>6

LEMMA FollowTellOver ==
    ASSUME RunsInv, Shaped, NEW e \in effects, Over(store[e.job]), FollowTell(e)
    PROVE  RunsInv'
<1> DEFINE j == e.job
           r == run[j]
<1>1. /\ e.kind = "follow" /\ e.at = "tell" /\ Beside /\ store' = store
      /\ \/ Told(e) /\ Goto(e, "wait")
         \/ (Told(e) \/ UNCHANGED <<run, ran>>) /\ \E ev : Answer(e, ev) /\ ev.type = "FollowFailed"
         \/ UNCHANGED <<run, ran>> /\ Answer(e, goneOf(e, r))
  BY FollowTellIs
<1>2. j \in Jobs /\ WorldStands(j, store[j], r, ran[j]) /\ r \in Run
  BY WorldNow
<1>3. r.proc # "parked" /\ e.kind \in {"follow", "stop", "signal"}
  BY <1>1, OverFollow
<1>4. /\ run'[j] = r /\ UNCHANGED ran /\ \A k \in Jobs : k # j => run'[k] = run[k]
  <2>1. CASE Told(e)
    <3>1. Start(r) = r
      BY <1>2, <1>3, Starting
    <3>2. /\ run'[j] = r /\ ran'[j] = ran[j] + 0 /\ ran' \in [Jobs -> Nat]
          /\ \A k \in Jobs : k # j => run'[k] = run[k] /\ ran'[k] = ran[k]
      BY <1>3, <2>1, <3>1, ToldIs
    <3>3. ran \in [Jobs -> Nat]
      BY DEF RunsInv, Calm
    <3>4. ran'[j] = ran[j]
      BY <1>2, <3>2, <3>3, SMT
    <3>5. \A k \in Jobs : ran'[k] = ran[k]
      BY <3>2, <3>4
    <3>6. ran' = ran
      BY <3>2, <3>3, <3>5, SMT
    <3> QED
      BY <3>2, <3>6
  <2>2. CASE UNCHANGED <<run, ran>>
    BY <2>2
  <2> QED
    BY <1>1, <2>1, <2>2
<1>5. WorldStands(j, store[j], run'[j], ran[j]) /\ run'[j].proc = r.proc
  BY <1>2, <1>4
<1>6. ASSUME NEW ev, Answer(e, ev), ev.type \in AnswersOf(e.kind)
      PROVE  RunsInv'
  BY <1>1, <1>3, <1>4, <1>5, <1>6, OverAnswers
<1>7. failureOf(e) = "FollowFailed" /\ failureOf(e) \in AnswersOf(e.kind) /\ goneOf(e, r).type \in AnswersOf(e.kind)
  <2>1. e.kind \in {"follow", "stop"} /\ failureOf(e) = "FollowFailed"
    BY <1>1, FailureIs
  <2> QED
    BY <2>1, AnswerTypes, SMT
<1>8. CASE Goto(e, "wait")
  <2>1. PICK d : Goes(e, d) /\ d.at = "wait" /\ effects' = (effects \ {e}) \cup {d}
    BY <1>8, GotoIs
  <2>2. Speaks(d) /\ d.at \in {"post", "wait"}
    BY <2>1 DEF Speaks
  <2> QED
    BY <1>1, <1>3, <1>4, <1>5, <2>1, <2>2, CallOver
<1> QED
  BY <1>1, <1>6, <1>7, <1>8

LEMMA WaitOver ==
    ASSUME RunsInv, Shaped, NEW e \in effects, Over(store[e.job]), Wait(e)
    PROVE  RunsInv'
<1> DEFINE j == e.job
           r == run[j]
<1>1. e.kind \in {"follow", "stop"} /\ Beside /\ store' = store /\ run' = run /\ UNCHANGED ran
  BY WaitIs
<1>2. PICK ev : /\ Answer(e, ev)
                /\ \/ ev.type = failureOf(e)
                   \/ ev = FinishedEvent(outcomeOf(r, j \in Rerun))
                   \/ ev = goneOf(e, r)
  BY WaitIs
<1>3. ev.type \in AnswersOf(e.kind)
  <2>1. FinishedEvent(outcomeOf(r, j \in Rerun)).type = "Finished"
    BY DEF FinishedEvent
  <2>2. "Finished" \in AnswersOf(e.kind)
    BY <1>1 DEF AnswersOf
  <2>3. failureOf(e) \in AnswersOf(e.kind) /\ goneOf(e, r).type \in AnswersOf(e.kind)
    BY <1>1, AnswerTypes, SMT
  <2> QED
    BY <1>2, <2>1, <2>2, <2>3
<1>4. WorldStands(j, store[j], run'[j], ran[j]) /\ run'[j].proc = r.proc /\ \A k \in Jobs : k # j => run'[k] = run[k]
  BY <1>1, WorldNow
<1>5. Answer(e, ev) /\ e.kind \in {"follow", "stop", "signal"}
  BY <1>1, <1>2
<1> QED
  BY <1>1, <1>3, <1>4, <1>5, OverAnswers

LEMMA FollowStepStays ==
    ASSUME RunsInv, Shaped, NEW e \in effects, FollowStep(e)
    PROVE  RunsInv'
<1>1. CASE CallCancel(e)
  BY <1>1, CancelOpenStays, SignalOpenStays, CancelOverStays
<1>2. CASE FollowStart(e)
  BY <1>2, FollowStartStays, FollowStartOver
<1>3. CASE FollowTell(e)
  BY <1>3, FollowTellStays, FollowTellOver
<1>4. CASE Wait(e)
  BY <1>4, WaitStays, WaitOver
<1> QED
  BY <1>1, <1>2, <1>3, <1>4 DEF FollowStep

-----------------------------------------------------------------------------
(* A look at a job in doubt. *)

LEMMA LookGoesOn ==
    ASSUME NEW j, NEW c, NEW S, NEW M, NEW job, NEW r, OpenStands(j, c, S, M, job, r), NEW e \in S,
           e.kind = "reexamine", NEW d, d.kind = "reexamine", LookStands(d, job, r)
    PROVE  OpenStands(j, c, (S \ {e}) \cup {d}, M, job, r)
<1> DEFINE T == (S \ {e}) \cup {d}
<1>1. LookFits(e, c, S, r)
  BY DEF OpenStands, SideStands
<1>2. LookFits(d, c, T, r)
  BY <1>1 DEF LookFits
<1>3. ASSUME NEW x \in S \ {e}
      PROVE  SideStands(x, c, T, job, r)
  <2>1. SideStands(x, c, S, job, r)
    BY <1>3 DEF OpenStands
  <2>2. x.kind = "reexamine" => c.cancelAsked
    BY <1>1, <1>3 DEF LookFits
  <2> QED
    BY <2>1, <2>2 DEF SideStands, LookFits
<1>4. SideStands(d, c, T, job, r)
  BY <1>2 DEF SideStands
<1>5. \A x : MainStands(j, x, c, S, job, r) => MainStands(j, x, c, T, job, r)
  BY DEF MainStands, FollowStands
<1> QED
  BY <1>3, <1>4, <1>5 DEF OpenStands

LEMMA LookMoves ==
    ASSUME RunsInv, Shaped, NEW e \in effects, e.kind = "reexamine", Beside, store' = store, run' = run, UNCHANGED ran,
           NEW d, Goes(e, d), effects' = (effects \ {e}) \cup {d}, Speaks(d),
           Over(store[e.job]) => Tame(d, run[e.job]),
           ~Over(store[e.job]) => LookStands(d, store[e.job], run[e.job])
    PROVE  RunsInv'
<1> DEFINE j == e.job
           c == entry[j]
           S == Sides(Mine(j))
           M == Mains(Mine(j))
           job == store[j]
           r == run[j]
<1>1. Shifted(e, {d})
  <2>1. \A k \in Jobs : k # e.job => store'[k] = store[k] /\ run'[k] = run[k]
    OBVIOUS
  <2> QED
    BY <2>1, BesideShifts
<1>2. WorldStands(j, job, run'[j], ran'[j]) /\ store'[j] = job /\ run'[j] = r
  BY WorldNow
<1>3. CASE Over(job)
  <2>1. Tame(d, run'[j]) /\ (run'[j].proc = "parked" => r.proc = "parked")
    BY <1>2, <1>3
  <2> QED
    BY <1>1, <1>2, <1>3, <2>1, OverGoesOn
<1>4. CASE ~Over(job)
  <2>1. e.kind \in SideKinds /\ d.kind \in SideKinds /\ d.kind = "reexamine"
    BY DEF SideKinds, Goes
  <2>2. OpenStands(j, c, S, M, job, r) /\ SideStands(e, c, S, job, r) /\ e \in S
    BY <1>4, <2>1, OpenSide
  <2>3. c.phase # "none"
    BY <2>2 DEF SideStands, LookFits
  <2>4. LookStands(d, job, r)
    BY <1>4
  <2> DEFINE N == {d}
  <2>5. OpenStands(j, c, (S \ {e}) \cup N, M, job, r)
    <3> HIDE DEF c, S, M, job, r
    <3> QED
      BY <2>1, <2>2, <2>4, LookGoesOn
  <2>6. Shifted(e, N) /\ \A x \in N : x.kind \in SideKinds
    BY <1>1, <2>1
  <2>7. OpenStands(j, c, (S \ {e}) \cup N, M, job, run'[j])
    BY <1>2, <2>5
  <2> HIDE DEF N
  <2> QED
    BY <1>2, <1>4, <2>1, <2>3, <2>6, <2>7, SideMoves
<1> QED
  BY <1>3, <1>4

LEMMA ReexamineLookStays ==
    ASSUME RunsInv, Shaped, NEW e \in effects, ReexamineLook(e)
    PROVE  RunsInv'
<1> DEFINE j == e.job
<1>1. e.kind = "reexamine" /\ Beside /\ store' = store /\ run' = run /\ UNCHANGED ran
  BY DEF ReexamineLook, world
<1>2. PICK p \in {Probe(run[j]), found("unknown")} :
         effects' = (effects \ {e}) \cup {[e EXCEPT !.at = "find", !.ev = RecoveredEvent(StoreAway, p)]}
  BY DEF ReexamineLook
<1>3. PICK d : Goes(e, d) /\ d.at = "find" /\ d.ev.p = p /\ effects' = (effects \ {e}) \cup {d}
  <2> DEFINE d == [e EXCEPT !.at = "find", !.ev = RecoveredEvent(StoreAway, p)]
  <2>1. DOMAIN e = {"kind", "job", "at", "h", "settlement", "flag", "ev"}
    BY DEF Shaped, ShellInv, EffectsOK, EffectOK
  <2>2. Goes(e, d) /\ d.at = "find" /\ d.ev = RecoveredEvent(StoreAway, p)
    BY <2>1 DEF Goes
  <2>3. RecoveredEvent(StoreAway, p).p = p
    BY DEF RecoveredEvent
  <2> QED
    BY <1>2, <2>2, <2>3
<1>4. d.kind = "reexamine" /\ Speaks(d) /\ Tame(d, run[j])
  BY <1>1, <1>3 DEF Goes, Speaks, Tame
<1>5. ~Over(store[j]) => LookStands(d, store[j], run[j])
  <2>1. WorldStands(j, store[j], run[j], ran[j]) /\ run[j] \in Run
    BY WorldNow
  <2>2. ~Over(store[j]) => PresenceStands(p, store[j], run[j])
    BY <2>1, ProbeStands
  <2> QED
    BY <1>3, <2>2 DEF LookStands
<1> QED
  BY <1>1, <1>3, <1>4, <1>5, LookMoves

LEMMA ReexamineFindStays ==
    ASSUME RunsInv, Shaped, NEW e \in effects, ReexamineFind(e)
    PROVE  RunsInv'
<1> DEFINE j == e.job
           job == store[j]
<1>1. e.kind = "reexamine" /\ e.at = "find" /\ Beside /\ store' = store /\ run' = run /\ UNCHANGED ran
  BY DEF ReexamineFind, world
<1>2. PICK f \in {InStore(j), StoreAway} : Answer(e, RecoveredEvent(f, e.ev.p))
  BY DEF ReexamineFind
<1>3. PICK d : /\ Goes(e, d) /\ d.at = "post" /\ d.ev = RecoveredEvent(f, e.ev.p)
               /\ effects' = (effects \ {e}) \cup {d}
  BY <1>2, AnswerIs
<1>4. d.ev.type = "Recovered" /\ d.ev.f = f /\ d.ev.p = e.ev.p
  <2>1. \A p : RecoveredEvent(f, p).type = "Recovered" /\ RecoveredEvent(f, p).f = f /\ RecoveredEvent(f, p).p = p
    BY DEF RecoveredEvent
  <2> QED
    BY <1>3, <2>1
<1>5. d.kind = "reexamine" /\ Speaks(d)
  BY <1>1, <1>3, <1>4 DEF Goes, Speaks, AnswersOf
<1>6. job.state # "absent" => f.job \in {"away", job.state} /\ ~f.givenUp
  <2>1. StoreAway.job = "away" /\ StoreAway.givenUp = FALSE
    BY DEF StoreAway
  <2>2. jobIn(job).job = job.state /\ jobIn(job).givenUp = FALSE
    BY DEF jobIn
  <2>3. job.state # "absent" => InStore(j) = jobIn(job)
    BY DEF InStore
  <2> QED
    BY <1>2, <2>1, <2>2, <2>3
<1>7. Over(job) => Tame(d, run[j])
  <2>1. Over(job) => job.state \notin {"absent", "running"}
    BY DEF Over, FinalStates
  <2> QED
    BY <1>4, <1>5, <1>6, <2>1 DEF Tame
<1>8. ~Over(job) => LookStands(d, job, run[j])
  <2>1. SUFFICES ASSUME ~Over(job)
                 PROVE  LookStands(d, job, run[j])
    OBVIOUS
  <2>2. e.kind \in SideKinds
    BY <1>1 DEF SideKinds
  <2>3. /\ OpenStands(j, entry[j], Sides(Mine(j)), Mains(Mine(j)), job, run[j])
        /\ SideStands(e, entry[j], Sides(Mine(j)), job, run[j])
    BY <2>1, <2>2, OpenSide
  <2>4. entry[j].phase # "none" /\ PresenceStands(e.ev.p, job, run[j])
    BY <1>1, <2>3 DEF SideStands, LookFits, LookStands
  <2>5. job.state # "absent"
    BY <2>3, <2>4 DEF OpenStands, EntryStands
  <2> QED
    BY <1>3, <1>4, <1>6, <2>4, <2>5 DEF LookStands, FindingStands
<1> QED
  BY <1>1, <1>3, <1>5, <1>7, <1>8, LookMoves

LEMMA EffectStepStays ==
    ASSUME RunsInv, Shaped, NEW e \in effects, EffectStep(e)
    PROVE  RunsInv'
  BY LaunchStepStays, FollowStepStays, ReleaseStepStays, ReexamineLookStays, ReexamineFindStays DEF EffectStep

-----------------------------------------------------------------------------
(* What happens beside the daemon. *)

LEMMA GentleStart ==
    ASSUME NEW x, NEW j, NEW c, NEW E, NEW job, NEW r, NEW s, StartStands(x, j, c, E, job, r), Gentle(r, s),
           r = NoRun => r.proc = "none", job.state = "running" => r.proc # "starting"
    PROVE  StartStands(x, j, c, E, job, s)
<1>1. \A p : PresenceStands(p, job, r) => PresenceStands(p, job, s)
  BY GentlePresence
<1>2. r = NoRun => s = NoRun
  BY GentleIs
<1> QED
  BY <1>1, <1>2 DEF StartStands

LEMMA OutsideStays ==
    ASSUME RunsInv, Shaped, NEW j \in Jobs, NEW s, SetRun(j, s), Gentle(run[j], s), Outside,
           Over(store[j]) \/ \A e \in Mains(Mine(j)) : e.at # "up"
    PROVE  RunsInv'
<1> DEFINE c == entry[j]
           E == Mine(j)
           job == store[j]
           r == run[j]
<1>1. /\ entry' = entry /\ recovering' = recovering /\ unread' = unread /\ effects' = effects /\ reader' = reader
      /\ caller' = caller /\ store' = store /\ ran' = ran
  BY DEF Outside
<1>2. run'[j] = s /\ \A k \in Jobs : k # j => run'[k] = run[k]
  BY SetRunIs
<1>3. \A k \in Jobs : Mine(k)' = Mine(k)
  BY <1>1 DEF Mine
<1>4. ASSUME NEW k \in Jobs, k # j
      PROVE  JobInv(k)'
  <2>1. JobInv(k)
    BY DEF RunsInv
  <2>2. run'[k] = run[k] /\ Mine(k)' = Mine(k)
    BY <1>2, <1>3, <1>4
  <2> QED
    BY <1>1, <2>1, <2>2 DEF JobInv
<1>5. JobInv(j)'
  <2>1. /\ WorldStands(j, job, r, ran[j]) /\ JobStands(j, c, E, job, r) /\ ParkedWaits(c)
        /\ StartStands(reader["start"], j, c, E, job, r)
        /\ SweepStands(reader["sweep"], j, c, job)
        /\ CallersStand(reader["submit"], j, caller[j], job)
    BY DEF RunsInv, JobInv
  <2>2. r.proc \in Procs /\ (r = NoRun => r.proc = "none") /\ (job.state = "running" => r.proc # "starting")
    BY <2>1, StoredStates, RunFields, NoRunIs DEF WorldStands
  <2>3. Over(job) \/ \A e \in Mains(E) : e.at # "up"
    OBVIOUS
  <2>4. Gentle(r, s)
    OBVIOUS
  <2> HIDE DEF c, E, job, r
  <2>5. WorldStands(j, job, s, ran[j])
    BY <2>1, <2>2, <2>4, GentleWorld
  <2>6. JobStands(j, c, E, job, s)
    <3>1. CASE Over(job)
      <4>1. OverStands(c, E, r) /\ r.proc # "starting"
        BY <2>1, <3>1 DEF JobStands, WorldStands
      <4>2. s.proc = "parked" => r.proc = "parked"
        BY <2>2, <2>4, <4>1 DEF Gentle
      <4>3. OverStands(c, E, s)
        BY <4>1, <4>2 DEF OverStands, Tame
      <4> QED
        BY <3>1, <4>3 DEF JobStands
    <3>2. CASE ~Over(job)
      <4>1. OpenStands(j, c, Sides(E), Mains(E), job, r)
        BY <2>1, <3>2 DEF JobStands
      <4>2. OpenStands(j, c, Sides(E), Mains(E), job, s)
        BY <2>2, <2>3, <2>4, <3>2, <4>1, GentleStands
      <4> QED
        BY <3>2, <4>2 DEF JobStands
    <3> QED
      BY <3>1, <3>2
  <2>7. StartStands(reader["start"], j, c, E, job, s)
    BY <2>1, <2>2, <2>4, GentleStart
  <2>8. Mine(j)' = E /\ entry'[j] = c /\ store'[j] = job /\ run'[j] = s
    BY <1>1, <1>2, <1>3 DEF c, E, job
  <2> QED
    BY <1>1, <2>1, <2>5, <2>6, <2>7, <2>8 DEF JobInv
<1>6. Calm'
  BY <1>1 DEF RunsInv, Calm
<1> QED
  BY <1>1, <1>4, <1>5, <1>6 DEF RunsInv

\* Only the launch of a supervisor that comes up waits for it.
LEMMA UpIsStarting ==
    ASSUME RunsInv, Shaped, NEW j \in Jobs, ~Over(store[j]), NEW e \in Mains(Mine(j)), e.at = "up"
    PROVE  run[j].proc = "starting"
<1> DEFINE c == entry[j]
           S == Sides(Mine(j))
           M == Mains(Mine(j))
           job == store[j]
           r == run[j]
<1>1. OpenStands(j, c, S, M, job, r) /\ Good(c)
  BY StoredStates DEF RunsInv, JobInv, JobStands
<1>2. e \in M
  OBVIOUS
<1> HIDE DEF c, S, M, job, r
<1>3. MainStands(j, e, c, S, job, r)
  BY <1>1, <1>2 DEF OpenStands
<1>4. ~FollowStands(j, e, S, job, r)
  BY DEF FollowStands
<1>5. ~StopStands(j, e, job, r)
  BY DEF StopStands
<1>6. ~MoveStands(e, c, job)
  BY DEF MoveStands
<1>7. ~DiscardStands(e, r)
  BY DEF DiscardStands, Forgets
<1>8. LaunchStands(e, job, r)
  BY <1>3, <1>4, <1>5, <1>6, <1>7 DEF MainStands
<1>9. r.proc = "starting"
  BY <1>8 DEF LaunchStands
<1> QED
  BY <1>9 DEF r

LEMMA WorldStays ==
    ASSUME RunsInv, Shaped, NEW j \in Jobs, CommandEnds(j) \/ ComesUp(j) \/ Exits(j) \/ SupervisorDies(j)
    PROVE  RunsInv'
<1> DEFINE r == run[j]
<1>1. r \in Run /\ (r.end = "cancelled" => r.cancel) /\ (r.proc = "finished" => r.end # "none")
  BY RunNow
<1>2. CASE CommandEnds(j)
  <2>1. PICK s \in Ends(r) : SetRun(j, s)
    BY <1>2 DEF CommandEnds
  <2>2. r.proc = "executing" /\ Outside
    BY <1>2 DEF CommandEnds
  <2>3. /\ s.proc = "finished" /\ s.mark = r.mark /\ s.dir = r.dir /\ s.cancel = r.cancel
        /\ s.end = "done" \/ (s.end = "cancelled" /\ r.cancel)
    <3>1. \/ s = [r EXCEPT !.proc = "finished", !.end = "done"]
          \/ s = [r EXCEPT !.proc = "finished", !.end = "cancelled"] /\ r.cancel
      BY <2>1, <2>2 DEF Ends
    <3> QED
      BY <1>1, <3>1, RunFields
  <2>4. Gentle(r, s)
    BY <2>2, <2>3 DEF Gentle
  <2>5. Over(store[j]) \/ \A e \in Mains(Mine(j)) : e.at # "up"
    BY <2>2, UpIsStarting
  <2> QED
    BY <2>1, <2>2, <2>4, <2>5, OutsideStays
<1>3. CASE ComesUp(j)
  <2>1. /\ r.proc = "starting" /\ Outside
        /\ SetRun(j, comeUp(r)) \/ SetRun(j, die(r))
        /\ \A e \in Mains(Mine(j)) : e.at # "up"
    BY <1>3 DEF ComesUp, Mains, Mine
  <2>2. Gentle(r, comeUp(r)) /\ Gentle(r, die(r))
    BY <1>1, <2>1, ComingUp, Dying DEF Gentle
  <2> QED
    BY <2>1, <2>2, OutsideStays
<1>4. CASE Exits(j) \/ SupervisorDies(j)
  <2>1. r.proc \in {"released", "parked", "executing", "finished"} /\ SetRun(j, die(r)) /\ Outside
    BY <1>4 DEF Exits, SupervisorDies
  <2>2. Gentle(r, die(r))
    BY <1>1, <2>1, Dying
  <2>3. Over(store[j]) \/ \A e \in Mains(Mine(j)) : e.at # "up"
    BY <2>1, UpIsStarting
  <2> QED
    BY <2>1, <2>2, <2>3, OutsideStays
<1> QED
  BY <1>2, <1>3, <1>4

\* A limit that passes while no command executes.
LEMMA TimePassesStays ==
    ASSUME RunsInv, Shaped, NEW j \in Jobs, TimePasses(j)
    PROVE  RunsInv'
<1> DEFINE c == entry[j]
           n == [c EXCEPT !.holdUntil = "passed"]
           E == Mine(j)
           job == store[j]
           r == run[j]
<1>1. /\ recovering' = recovering /\ unread' = unread /\ effects' = effects /\ reader' = reader
      /\ caller' = caller /\ store' = store /\ ran' = ran /\ run' = run
      /\ r.proc # "executing" /\ c.holdUntil = "ahead"
      /\ entry' = [entry EXCEPT ![j] = n]
  BY DEF TimePasses, LimitPasses, shell, world
<1>2. \A k \in Jobs : Mine(k)' = Mine(k)
  BY <1>1 DEF Mine
<1>3. DOMAIN entry = Jobs /\ Good(c)
  BY DEF Shaped, AllGood
<1>4. entry'[j] = n /\ \A k \in Jobs : k # j => entry'[k] = entry[k]
  BY <1>1, <1>3
<1>5. ASSUME NEW k \in Jobs, k # j
      PROVE  JobInv(k)'
  <2>1. JobInv(k)
    BY DEF RunsInv
  <2>2. entry'[k] = entry[k] /\ Mine(k)' = Mine(k)
    BY <1>2, <1>4, <1>5
  <2> QED
    BY <1>1, <2>1, <2>2 DEF JobInv
<1>6. JobInv(j)'
  <2>1. /\ WorldStands(j, job, r, ran[j]) /\ JobStands(j, c, E, job, r) /\ ParkedWaits(c)
        /\ StartStands(reader["start"], j, c, E, job, r)
        /\ SweepStands(reader["sweep"], j, c, job)
        /\ CallersStand(reader["submit"], j, caller[j], job)
    BY DEF RunsInv, JobInv
  <2>2. /\ n.phase = c.phase /\ n.parked = c.parked /\ n.waiting = c.waiting /\ n.leased = c.leased
        /\ n.cancelAsked = c.cancelAsked /\ n.settlement = c.settlement /\ n.release = c.release
    BY <1>3 DEF Good, Entry
  <2>3. c # NoEntry
    <3>1. NoEntry.holdUntil = "zero"
      BY DEF NoEntry
    <3> QED
      BY <1>1, <3>1
  <2>4. r.proc # "executing"
    BY <1>1
  <2>5. Mine(j)' = E /\ entry'[j] = n /\ store'[j] = job /\ run'[j] = r
    BY <1>1, <1>2, <1>4
  <2> HIDE DEF c, n, E, job, r
  <2>6. JobStands(j, n, E, job, r)
    <3>1. OpenStands(j, c, Sides(E), Mains(E), job, r) => OpenStands(j, n, Sides(E), Mains(E), job, r)
      <4> DEFINE S == Sides(E)
                 M == Mains(E)
      <4> HIDE DEF S, M
      <4>1. EntryStands(j, c, job, r) => EntryStands(j, n, job, r)
        BY <2>2, <2>4 DEF EntryStands
      <4>2. EndingStands(j, c, job, r) <=> EndingStands(j, n, job, r)
        BY <2>2 DEF EndingStands
      <4>3. \A e : SideStands(e, c, S, job, r) <=> SideStands(e, n, S, job, r)
        BY <2>2 DEF SideStands, LookFits
      <4>4. \A e : MainStands(j, e, c, S, job, r) <=> MainStands(j, e, n, S, job, r)
        <5>1. \A e : MoveStands(e, c, job) <=> MoveStands(e, n, job)
          BY <2>2 DEF MoveStands
        <5> QED
          BY <2>2, <5>1 DEF MainStands
      <4>5. Idles(c) <=> Idles(n)
        BY <2>2 DEF Idles
      <4>6. OpenStands(j, c, S, M, job, r) => OpenStands(j, n, S, M, job, r)
        BY <2>2, <4>1, <4>2, <4>3, <4>4, <4>5 DEF OpenStands
      <4> QED
        BY <4>6 DEF S, M
    <3>2. OverStands(c, E, r) => OverStands(n, E, r)
      BY <2>2 DEF OverStands
    <3> QED
      BY <2>1, <3>1, <3>2 DEF JobStands
  <2>7. ParkedWaits(n)
    BY <2>1, <2>2 DEF ParkedWaits
  <2>8. StartStands(reader["start"], j, n, E, job, r)
    BY <2>1, <2>2, <2>3 DEF StartStands, Pending
  <2>9. SweepStands(reader["sweep"], j, n, job)
    BY <2>1, <2>2 DEF SweepStands
  <2> QED
    BY <1>1, <2>1, <2>5, <2>6, <2>7, <2>8, <2>9 DEF JobInv
<1>7. Calm'
  BY <1>1 DEF RunsInv, Calm
<1> QED
  BY <1>1, <1>5, <1>6, <1>7 DEF RunsInv

-----------------------------------------------------------------------------
(* The steps of the effects begin no command that was not to begin. *)

LEMMA GoesOn ==
    ASSUME Shaped, NEW e \in effects, NEW at, at # "post", Goto(e, at),
           e.kind = "follow" /\ at \in {"start", "tell"} =>
              e.at = "start" \/ (e.at = "cancel" /\ (run'[e.job].proc = "parked" => run'[e.job].cancel))
    PROVE  Onward(e)
<1>1. PICK d : Goes(e, d) /\ d.at = at /\ effects' = (effects \ {e}) \cup {d}
  BY GotoIs
<1>2. TellsMoved(d)
  BY <1>1 DEF TellsMoved
<1>3. Restarts(e, d, run'[e.job])
  BY <1>1 DEF Restarts, Goes
<1> QED
  BY <1>1, <1>2, <1>3 DEF Onward

LEMMA AnswersOn ==
    ASSUME Shaped, NEW e \in effects, NEW ev, Answer(e, ev), e.kind = "move" /\ ev.type = "Requeued" => Requeues(e.settlement)
    PROVE  Onward(e)
<1>1. PICK d : Goes(e, d) /\ d.at = "post" /\ d.ev = ev /\ effects' = (effects \ {e}) \cup {d}
  BY AnswerIs
<1>2. TellsMoved(d)
  BY <1>1 DEF TellsMoved, Goes
<1>3. Restarts(e, d, run'[e.job])
  BY <1>1 DEF Restarts
<1> QED
  BY <1>1, <1>2, <1>3 DEF Onward

LEMMA LaunchTurnsOn ==
    ASSUME RunsInv, Shaped, NEW e \in effects, LaunchStep(e)
    PROVE  Turns(e)
<1>1. e.job \in Jobs /\ e.kind = "launch" /\ entry' = entry
  BY MineJobs DEF LaunchStep, LaunchRead, LaunchSpawn, LaunchMkdir, LaunchUp, LaunchRecord, Beside
<1>2. \A at : at # "post" /\ Goto(e, at) => Onward(e)
  BY <1>1, GoesOn
<1>3. \A ev : Answer(e, ev) => Onward(e)
  BY <1>1, AnswersOn
<1>4. \A s : SetRun(e.job, s) => \A k \in Jobs : k # e.job => run'[k] = run[k]
  BY <1>1, SetRunIs
<1>5. CASE LaunchRead(e)
  <2>1. Onward(e) /\ store' = store /\ run' = run
    BY <1>2, <1>3, <1>5 DEF LaunchRead, world
  <2> QED
    BY <1>1, <2>1 DEF Turns
<1>6. CASE LaunchSpawn(e)
  <2>1. Onward(e) /\ store' = store /\ \A k \in Jobs : k # e.job => run'[k] = run[k]
    BY <1>2, <1>3, <1>4, <1>6 DEF LaunchSpawn, NotSpawned
  <2> QED
    BY <1>1, <2>1 DEF Turns
<1>7. CASE LaunchMkdir(e)
  <2>1. Onward(e) /\ store' = store /\ \A k \in Jobs : k # e.job => run'[k] = run[k]
    BY <1>2, <1>3, <1>4, <1>7 DEF LaunchMkdir, NotSpawned
  <2> QED
    BY <1>1, <2>1 DEF Turns
<1>8. CASE LaunchUp(e)
  <2>1. store' = store /\ \A k \in Jobs : k # e.job => run'[k] = run[k]
    BY <1>4, <1>8 DEF LaunchUp
  <2>2. Onward(e)
    <3>1. CASE effects' = (effects \ {e}) \cup {[e EXCEPT !.at = "record", !.h = TRUE]}
      <4> DEFINE d == [e EXCEPT !.at = "record", !.h = TRUE]
      <4>1. DOMAIN e = {"kind", "job", "at", "h", "settlement", "flag", "ev"}
        BY DEF Shaped, ShellInv, EffectsOK, EffectOK
      <4>2. Goes(e, d) /\ d.at = "record"
        BY <4>1 DEF Goes
      <4> HIDE DEF d
      <4>3. TellsMoved(d) /\ Restarts(e, d, run'[e.job])
        BY <4>2 DEF TellsMoved, Restarts
      <4>4. effects' = (effects \ {e}) \cup {d}
        BY <3>1 DEF d
      <4> QED
        BY <4>2, <4>3, <4>4 DEF Onward
    <3> QED
      BY <1>3, <1>8, <3>1 DEF LaunchUp, NotSpawned
  <2> QED
    BY <1>1, <2>1, <2>2 DEF Turns
<1>9. CASE LaunchRecord(e)
  <2>1. Onward(e) /\ run' = run
    BY <1>3, <1>9 DEF LaunchRecord
  <2>2. store' \in {store, [store EXCEPT ![e.job] = record(store[e.job], ToRunning)]}
    BY <1>9 DEF LaunchRecord, SetStore
  <2>3. /\ \A k \in Jobs : k # e.job => store'[k] = store[k]
        /\ Over(store[e.job]) => Over(store'[e.job])
    <3>1. DOMAIN store = Jobs
      BY DEF Shaped, ShellInv, WorldOK
    <3>2. Over(store[e.job]) => record(store[e.job], ToRunning) = store[e.job]
      BY RecordOver
    <3>3. store' = store \/ store' = [store EXCEPT ![e.job] = record(store[e.job], ToRunning)]
      BY <2>2
    <3> QED
      BY <1>1, <3>1, <3>2, <3>3
  <2> QED
    BY <1>1, <2>1, <2>3 DEF Turns
<1> QED
  BY <1>5, <1>6, <1>7, <1>8, <1>9 DEF LaunchStep

LEMMA UnbegunSelf ==
    ASSUME NEW e, NEW r
    PROVE  Unbegun(e, r, r)
  BY DEF Unbegun

LEMMA FollowTurnsOn ==
    ASSUME RunsInv, Shaped, NEW e \in effects, FollowStep(e)
    PROVE  Turns(e)
<1> DEFINE r == run[e.job]
           s == run'[e.job]
<1>1. e.job \in Jobs /\ e.kind \in {"follow", "signal", "stop"} /\ entry' = entry /\ store' = store
  BY MineJobs DEF FollowStep, CallCancel, FollowStart, FollowTell, Wait, Beside, world
<1>2. r \in Run /\ (r.end = "cancelled" => r.cancel) /\ (r.proc = "finished" => r.end # "none")
  BY <1>1, RunNow
<1>3. \A ev : Answer(e, ev) => Onward(e)
  BY <1>1, AnswersOn
<1>4. \A at : Goto(e, at) /\ at \in {"wait", "tell"} /\ (at = "tell" => e.at = "start") => Onward(e)
  BY <1>1, GoesOn
<1>5. SUFFICES /\ \A k \in Jobs : k # e.job => run'[k] = run[k]
               /\ Unbegun(e, r, s)
               /\ (e.kind = "signal" /\ effects' = effects \ {e}) \/ Onward(e)
  BY <1>1 DEF Turns
<1> HIDE DEF r, s
<1>6. CASE CallCancel(e)
  <2>1. /\ s \in {r, Cancel(r)} /\ e.at = "cancel"
        /\ \A k \in Jobs : k # e.job => run'[k] = run[k]
        /\ \/ \E ev : Answer(e, ev) /\ ev.type = failureOf(e)
           \/ e.kind = "signal" /\ effects' = effects \ {e}
           \/ /\ e.kind # "signal" /\ s = Cancel(r)
              /\ Goto(e, IF e.kind = "follow" THEN "start" ELSE "wait")
           \/ Answer(e, goneOf(e, r))
    BY <1>6, CancelMoves DEF r, s
  <2>2. Gentle(r, Cancel(r)) /\ Cancel(r).proc = r.proc /\ (r.proc = "parked" => Cancel(r).cancel)
    BY <1>2, Cancelling
  <2>3. Unbegun(e, r, s)
    BY <2>1, <2>2 DEF Unbegun, Gentle
  <2>4. ASSUME s = Cancel(r), Goto(e, IF e.kind = "follow" THEN "start" ELSE "wait")
        PROVE  Onward(e)
    <3>1. CASE e.kind = "follow"
      <4>1. Goto(e, "start") /\ (run'[e.job].proc = "parked" => run'[e.job].cancel)
        BY <2>2, <2>4, <3>1 DEF s
      <4> QED
        BY <2>1, <4>1, GoesOn
    <3>2. CASE e.kind # "follow"
      BY <1>4, <2>4, <3>2
    <3> QED
      BY <3>1, <3>2
  <2> QED
    BY <1>3, <2>1, <2>3, <2>4
<1>7. CASE FollowStart(e)
  <2>1. /\ e.at = "start"
        /\ \/ run' = run /\ \E ev : Answer(e, ev)
           \/ SetRun(e.job, markStartSent(r)) /\ Goto(e, "tell")
    BY <1>7 DEF FollowStart, r
  <2>2. CASE run' = run
    <3>1. s = r
      BY <2>2 DEF r, s
    <3>2. Onward(e)
      BY <1>3, <1>4, <2>1
    <3> QED
      BY <2>2, <3>1, <3>2, UnbegunSelf
  <2>3. CASE SetRun(e.job, markStartSent(r)) /\ Goto(e, "tell")
    <3>1. s = markStartSent(r) /\ \A k \in Jobs : k # e.job => run'[k] = run[k]
      BY <1>1, <2>3, SetRunIs DEF s
    <3>2. Unbegun(e, r, s)
      BY <1>2, <3>1, Marking DEF Unbegun
    <3> QED
      BY <1>4, <2>1, <2>3, <3>1, <3>2
  <2> QED
    BY <2>1, <2>2, <2>3
<1>8. CASE FollowTell(e)
  <2>1. /\ e.kind = "follow" /\ e.at = "tell" /\ (Told(e) \/ run' = run)
        /\ Goto(e, "wait") \/ \E ev : Answer(e, ev)
    BY <1>8, FollowTellIs
  <2>2. Onward(e)
    BY <1>3, <1>4, <2>1
  <2>3. CASE run' = run
    BY <2>2, <2>3, UnbegunSelf DEF r, s
  <2>4. CASE Told(e)
    <3>1. s = Start(r) /\ \A k \in Jobs : k # e.job => run'[k] = run[k]
      BY <2>4, ToldIs DEF r, s
    <3>2. Unbegun(e, r, s)
      BY <1>2, <2>1, <3>1, Starting DEF Unbegun
    <3> QED
      BY <2>2, <3>1, <3>2
  <2> QED
    BY <2>1, <2>3, <2>4
<1>9. CASE Wait(e)
  <2>1. run' = run /\ \E ev : Answer(e, ev)
    BY <1>9 DEF Wait, world
  <2> QED
    BY <1>3, <2>1, UnbegunSelf DEF r, s
<1> QED
  BY <1>6, <1>7, <1>8, <1>9 DEF FollowStep

LEMMA ReleaseTurnsOn ==
    ASSUME RunsInv, Shaped, NEW e \in effects, ReleaseStep(e)
    PROVE  Turns(e)
<1>1. e.job \in Jobs /\ run[e.job] \in Run
  BY WorldNow
<1>2. CASE MoveRecord(e)
  <2>1. entry' = entry /\ run' = run /\ e.kind = "move"
    BY <1>2 DEF MoveRecord, Beside
  <2>2. store' \in {store, [store EXCEPT ![e.job] = record(store[e.job], e.settlement)]}
    BY <1>2 DEF MoveRecord, SetStore
  <2>3. /\ \A k \in Jobs : k # e.job => store'[k] = store[k]
        /\ Over(store[e.job]) => Over(store'[e.job])
    <3>1. DOMAIN store = Jobs
      BY DEF Shaped, ShellInv, WorldOK
    <3>2. Over(store[e.job]) => record(store[e.job], e.settlement) = store[e.job]
      BY RecordOver
    <3>3. store' = store \/ store' = [store EXCEPT ![e.job] = record(store[e.job], e.settlement)]
      BY <2>2
    <3> QED
      BY <1>1, <3>1, <3>2, <3>3
  <2>4. Onward(e)
    <3>1. \/ Goto(e, "release")
          \/ \E ev : Answer(e, ev) /\ ev = Event("MoveFailed")
          \/ \E ev : Answer(e, ev) /\ ev = Event(IF Requeues(e.settlement) THEN "Requeued" ELSE "Closed")
      BY <1>2 DEF MoveRecord
    <3>2. \A type : Event(type).type = type
      BY DEF Event
    <3>3. Event(IF Requeues(e.settlement) THEN "Requeued" ELSE "Closed").type = "Requeued" => Requeues(e.settlement)
      BY DEF Event
    <3>4. CASE Goto(e, "release")
      BY <2>1, <3>4, GoesOn
    <3> QED
      BY <3>1, <3>2, <3>3, <3>4, AnswersOn
  <2> QED
    BY <2>1, <2>3, <2>4, UnbegunSelf DEF Turns
<1>3. CASE ReleaseParts(e)
  <2>1. /\ e.kind \in {"move", "discard"} /\ Beside /\ store' = store
        /\ \A k \in Jobs : k # e.job => run'[k] = run[k]
        /\ Parts(run[e.job], run'[e.job])
        /\ \E d : /\ Goes(e, d) /\ effects' = (effects \ {e}) \cup {d}
                  /\ \/ d.at = "unrecord" \/ Forgets(d)
                     \/ d.at = "post" /\ d.ev = unreleased(e)
                     \/ d.at = "post" /\ d.ev = released(e)
    BY <1>3, ReleaseIs
  <2>2. PICK d : /\ Goes(e, d) /\ effects' = (effects \ {e}) \cup {d}
                 /\ \/ d.at = "unrecord" \/ Forgets(d)
                    \/ d.at = "post" /\ d.ev = unreleased(e)
                    \/ d.at = "post" /\ d.ev = released(e)
    BY <2>1
  <2>3. released(e).type # "Requeued" /\ unreleased(e).type # "Requeued"
    BY EventIs DEF released, unreleased
  <2>4. TellsMoved(d)
    BY <2>2, <2>3 DEF TellsMoved, Forgets
  <2>5. Restarts(e, d, run'[e.job])
    BY <2>1, <2>2 DEF Restarts, Goes
  <2>6. Unbegun(e, run[e.job], run'[e.job])
    <3> DEFINE r == run[e.job]
               s == run'[e.job]
    <3>1. Parts(r, s) /\ r \in Run
      BY <1>1, <2>1
    <3> HIDE DEF r, s
    <3>2. s = r \/ s.proc \in {"released", "none"}
      BY <3>1, Releasing, Removing, NoRunIs DEF Parts
    <3>3. Unbegun(e, r, s)
      BY <3>2, UnbegunSelf DEF Unbegun
    <3> QED
      BY <3>3 DEF r, s
  <2>7. entry' = entry
    BY <2>1 DEF Beside
  <2>8. Onward(e)
    BY <2>2, <2>4, <2>5 DEF Onward
  <2> QED
    BY <2>1, <2>6, <2>7, <2>8 DEF Turns
<1> QED
  BY <1>2, <1>3 DEF ReleaseStep, ReleaseParts

LEMMA LookTurnsOn ==
    ASSUME RunsInv, Shaped, NEW e \in effects, ReexamineLook(e) \/ ReexamineFind(e)
    PROVE  Turns(e)
<1>1. e.kind = "reexamine" /\ entry' = entry /\ store' = store /\ run' = run
  BY DEF ReexamineLook, ReexamineFind, Beside, world
<1>2. CASE ReexamineFind(e)
  <2>1. \E ev : Answer(e, ev)
    BY <1>2 DEF ReexamineFind
  <2>2. Onward(e)
    BY <1>1, <2>1, AnswersOn
  <2> QED
    BY <1>1, <2>2, UnbegunSelf DEF Turns
<1>3. CASE ReexamineLook(e)
  <2>1. PICK p : effects' = (effects \ {e}) \cup {[e EXCEPT !.at = "find", !.ev = RecoveredEvent(StoreAway, p)]}
    BY <1>3 DEF ReexamineLook
  <2> DEFINE d == [e EXCEPT !.at = "find", !.ev = RecoveredEvent(StoreAway, p)]
  <2>2. DOMAIN e = {"kind", "job", "at", "h", "settlement", "flag", "ev"}
    BY DEF Shaped, ShellInv, EffectsOK, EffectOK
  <2>3. Goes(e, d) /\ d.at = "find"
    BY <2>2 DEF Goes
  <2>4. effects' = (effects \ {e}) \cup {d}
    BY <2>1
  <2> HIDE DEF d
  <2>5. TellsMoved(d) /\ Restarts(e, d, run'[e.job])
    BY <2>3 DEF TellsMoved, Restarts
  <2>6. Onward(e)
    BY <2>3, <2>4, <2>5 DEF Onward
  <2> QED
    BY <1>1, <2>6, UnbegunSelf DEF Turns
<1> QED
  BY <1>2, <1>3

LEMMA EffectTurns ==
    ASSUME RunsInv, Shaped, NEW e \in effects, EffectStep(e)
    PROVE  Turns(e)
  BY LaunchTurnsOn, FollowTurnsOn, ReleaseTurnsOn, LookTurnsOn DEF EffectStep

\* What that leaves of the commands that execute or may begin.
LEMMA TurnsLive ==
    ASSUME Shaped, NEW e \in effects, Turns(e)
    PROVE  Live' \subseteq Live
<1>1. SUFFICES ASSUME NEW k \in Jobs, LiveOf(store'[k], run'[k], Mine(k)')
               PROVE  LiveOf(store[k], run[k], Mine(k))
  BY DEF Live
<1>2. e \in Mine(e.job)
  BY MineJobs
<1>3. CASE k # e.job
  <2>1. \A d \in Mine(k)' : d \in Mine(k)
    BY <1>3 DEF Turns, Onward, Goes, Mine
  <2>2. store'[k] = store[k] /\ run'[k] = run[k]
    BY <1>3 DEF Turns
  <2> QED
    BY <1>1, <2>1, <2>2 DEF LiveOf, Begins
<1>4. CASE k = e.job
  <2> DEFINE r == run[k]
             s == run'[k]
             E == Mine(k)
  <2>1. ~Over(store[k]) /\ Begins(s, Mine(k)')
    BY <1>1, <1>4 DEF LiveOf, Turns
  <2>2. e \in E /\ (e.kind # "launch" => Unbegun(e, r, s))
    BY <1>2, <1>4 DEF Turns
  <2>3. \A d \in Mine(k)' : d \in E \/ (d.kind = e.kind /\ Restarts(e, d, s))
    BY <1>4 DEF Turns, Onward, Goes, Mine
  <2> HIDE DEF r, s, E
  <2>4. Begins(r, E)
    <3>1. CASE e.kind = "launch"
      BY <2>2, <3>1 DEF Begins
    <3>2. CASE e.kind # "launch"
      <4>1. CASE s.proc = "executing"
        BY <2>2, <3>2, <4>1 DEF Begins, Unbegun
      <4>2. CASE s.proc # "executing"
        <5>1. PICK d \in Mine(k)' : \/ d.kind = "launch"
                                    \/ d.kind = "follow" /\ d.at \in {"start", "tell"} /\ s.proc = "parked" /\ ~s.cancel
          BY <2>1, <4>2 DEF Begins
        <5>2. s.proc = "parked" /\ ~s.cancel => r.proc = "parked" /\ ~r.cancel
          BY <2>2, <3>2 DEF Unbegun
        <5>3. CASE d \in E
          BY <5>1, <5>2, <5>3 DEF Begins
        <5>4. CASE d \notin E
          <6>1. d.kind = e.kind /\ Restarts(e, d, s)
            BY <2>3, <5>4
          <6>2. e.kind = "follow" /\ e.at = "start"
            BY <3>2, <5>1, <6>1 DEF Restarts
          <6> QED
            BY <2>2, <3>2, <5>1, <5>2, <6>1, <6>2 DEF Begins
        <5> QED
          BY <5>3, <5>4
      <4> QED
        BY <4>1, <4>2
    <3> QED
      BY <3>1, <3>2
  <2> QED
    BY <2>1, <2>4 DEF LiveOf, r, E
<1> QED
  BY <1>3, <1>4

\* What happens beside the daemon begins nothing.
LEMMA BesideLive ==
    ASSUME RunsInv, Shaped, NEW j \in Jobs, NEW s, SetRun(j, s), effects' = effects, store' = store,
           s.proc = "executing" => run[j].proc = "executing",
           s.proc = "parked" => run[j].proc \in {"parked", "starting"} /\ (run[j].cancel => s.cancel)
    PROVE  Live' \subseteq Live
<1>1. run'[j] = s /\ \A k \in Jobs : k # j => run'[k] = run[k]
  BY SetRunIs
<1>2. \A k \in Jobs : Mine(k)' = Mine(k)
  BY DEF Mine
<1>3. SUFFICES ASSUME LiveOf(store[j], s, Mine(j))
               PROVE  LiveOf(store[j], run[j], Mine(j))
  BY <1>1, <1>2 DEF Live
<1> DEFINE c == entry[j]
           E == Mine(j)
           job == store[j]
           r == run[j]
<1>4. WorldStands(j, job, r, ran[j]) /\ JobStands(j, c, E, job, r)
  BY DEF RunsInv, JobInv
<1>5. ~Over(job) /\ Begins(s, E)
  BY <1>3 DEF LiveOf
<1> HIDE DEF c, E, job, r
<1>6. OpenStands(j, c, Sides(E), Mains(E), job, r)
  BY <1>4, <1>5 DEF JobStands
<1>7. (s.proc = "executing" => r.proc = "executing") /\ (s.proc = "parked" => r.proc \in {"parked", "starting"} /\ (r.cancel => s.cancel))
  BY DEF r
<1>8. ASSUME NEW e \in E, e.kind = "follow"
      PROVE  r.proc # "starting"
  <2>1. e \in Mains(E)
    BY <1>8 DEF Mains, SideKinds
  <2>2. MainStands(j, e, c, Sides(E), job, r)
    BY <1>6, <2>1 DEF OpenStands
  <2>3. job.state = "running"
    BY <1>8, <2>2 DEF MainStands, FollowStands
  <2> QED
    BY <1>4, <2>3 DEF WorldStands
<1>9. Begins(r, E)
  BY <1>5, <1>7, <1>8 DEF Begins
<1> QED
  BY <1>5, <1>9 DEF LiveOf, E, job, r

LEMMA OutsideLive ==
    ASSUME RunsInv, Shaped, NEW j \in Jobs, CommandEnds(j) \/ ComesUp(j) \/ Exits(j) \/ SupervisorDies(j)
    PROVE  Live' \subseteq Live
<1> DEFINE r == run[j]
<1>1. r \in Run
  BY RunNow
<1>2. effects' = effects /\ store' = store
  BY DEF CommandEnds, ComesUp, Exits, SupervisorDies, Outside
<1>3. CASE CommandEnds(j)
  <2>1. PICK s \in Ends(r) : SetRun(j, s)
    BY <1>3 DEF CommandEnds
  <2>2. r.proc = "executing"
    BY <1>3 DEF CommandEnds
  <2>3. s.proc = "finished"
    <3>1. s \in {[r EXCEPT !.proc = "finished", !.end = "done"], [r EXCEPT !.proc = "finished", !.end = "cancelled"]}
      BY <2>1, <2>2 DEF Ends
    <3> QED
      BY <1>1, <3>1, RunFields
  <2> QED
    BY <1>2, <2>1, <2>3, BesideLive
<1>4. CASE ComesUp(j)
  <2>1. PICK s \in {comeUp(r), die(r)} : SetRun(j, s)
    BY <1>4 DEF ComesUp
  <2>2. r.proc = "starting"
    BY <1>4 DEF ComesUp
  <2>3. s.proc = "none" \/ (s.proc = "parked" /\ s.cancel = r.cancel)
    BY <1>1, <2>1, ComingUp, RunFields DEF die
  <2> QED
    BY <1>2, <2>1, <2>2, <2>3, BesideLive
<1>5. CASE Exits(j) \/ SupervisorDies(j)
  <2>1. SetRun(j, die(r))
    BY <1>5 DEF Exits, SupervisorDies
  <2>2. die(r).proc = "none"
    BY <1>1, RunFields DEF die
  <2> DEFINE s == die(r)
  <2> HIDE DEF s
  <2>3. SetRun(j, s) /\ s.proc = "none"
    BY <2>1, <2>2 DEF s
  <2> QED
    BY <1>2, <2>3, BesideLive
<1> QED
  BY <1>3, <1>4, <1>5

LEMMA CrashLive ==
    ASSUME Shaped, Crash \/ Reboot
    PROVE  Live' \subseteq Live
<1>1. effects' = {} /\ store' = store
  BY DEF Crash, Reboot, NewDaemon
<1>2. ASSUME NEW k \in Jobs
      PROVE  run'[k].proc = "executing" => run[k].proc = "executing"
  <2>1. run[k] \in Run
    BY StoredStates
  <2>2. reboot(run[k]).proc = "none"
    BY <2>1, RunFields DEF reboot
  <2>3. run' = run \/ run'[k] = reboot(run[k])
    BY DEF Crash, Reboot
  <2> QED
    BY <2>2, <2>3
<1>3. \A k \in Jobs : Mine(k)' = {}
  BY <1>1 DEF Mine
<1> QED
  BY <1>1, <1>2, <1>3 DEF Live, LiveOf, Begins
=============================================================================
