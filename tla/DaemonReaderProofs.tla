------------------------- MODULE DaemonReaderProofs --------------------------
(***************************************************************************)
(* The loop takes messages up: answers of effects, the calls of users, and *)
(* what the reader at the start, the sweep and a submission have to tell.  *)
(* Each such step keeps RunsInv; so does a daemon that begins again.       *)
(***************************************************************************)
EXTENDS DaemonMachineProofs

\* Zenon proves a step that names no prover.
USE Zenon

-----------------------------------------------------------------------------
(* A job that is over. *)

LEMMA OverHandled ==
    ASSUME NEW j, NEW c \in Entry, NEW ev, ev.type = "Recovered" => ev.f \in Finding,
           NEW E, NEW D, D \subseteq E, NEW hs, NEW r, OverStands(c, E, r), r.proc = "parked" => ~Adopting(ev)
    PROVE  LET h == Handler(j, c, ev) IN OverStands(h.e, D \cup New(h.r, hs), r)
<1> DEFINE h == Handler(j, c, ev)
<1>1. Mild(c, h, Adopting(ev), Leaving(c, ev))
  BY MildHandler
<1> HIDE DEF h
<1>2. r.proc = "parked" => ~h.e.parked
  BY <1>1 DEF Mild, OverStands
<1>3. \A q \in h.r : Tame(effectOf(q, hs), r)
  BY <1>1, TameNew DEF Mild
<1>4. \A e \in D \cup New(h.r, hs) : Tame(e, r)
  BY <1>3 DEF New, OverStands
<1>5. OverStands(h.e, D \cup New(h.r, hs), r)
  BY <1>2, <1>4 DEF OverStands
<1> QED
  BY <1>5 DEF h

LEMMA OverAnswered ==
    ASSUME NEW e, e.at = "post", Speaks(e), NEW r, Tame(e, r), r.proc = "parked"
    PROVE  ~Adopting(e.ev)
<1>1. e.ev.type \in AnswersOf(e.kind)
  BY DEF Speaks
<1>2. e.ev.type = "Launched" => e.kind = "launch"
  BY <1>1 DEF AnswersOf
<1>3. e.ev.type = "Recovered" => e.kind = "reexamine"
  BY <1>1 DEF AnswersOf
<1> QED
  BY <1>2, <1>3 DEF Tame, Adopting

-----------------------------------------------------------------------------
(* The loop takes a message up. *)

\* What stands of a job after its handler stands after the step.
LEMMA SteppedStands ==
    ASSUME NEW k, NEW c, Good(c), NEW R, NEW gone, NEW hs, SteppedTo(k, c, R, gone, hs), NEW job, NEW r,
           JobStands(k, c, (Mine(k) \ gone) \cup NewAbout(k, R, hs), job, r)
    PROVE  /\ JobStands(k, entry'[k], Mine(k)', job, r) /\ ParkedWaits(entry'[k])
           /\ entry'[k].phase = "none" <=> c.phase = "none"
<1> DEFINE E == (Mine(k) \ gone) \cup NewAbout(k, R, hs)
<1>1. PICK Q : Scheduled(k, c, entry'[k], Q) /\ Mine(k)' = E \cup New(Q, hs)
  BY DEF SteppedTo
<1> HIDE DEF E
<1>2. JobStands(k, entry'[k], E \cup New(Q, hs), job, r) /\ ParkedWaits(entry'[k]) /\ (entry'[k].phase = "none" <=> c.phase = "none")
  BY <1>1, ScheduledStands, SMT DEF E
<1> QED
  BY <1>1, <1>2

\* A job the machine does not hold and that nothing is under way for stays so.
LEMMA SteppedAlone ==
    ASSUME NEW k, NEW R, NEW gone, NEW hs, SteppedTo(k, NoEntry, R, gone, hs), NewAbout(k, R, hs) = {}, Mine(k) = {}
    PROVE  entry'[k] = NoEntry /\ Mine(k)' = {}
<1>1. PICK Q : /\ Scheduled(k, NoEntry, entry'[k], Q)
               /\ Mine(k)' = ((Mine(k) \ gone) \cup NewAbout(k, R, hs)) \cup New(Q, hs)
  BY DEF SteppedTo
<1>2. ~NoEntry.parked /\ NoEntry.phase = "none"
  BY DEF NoEntry
<1>3. entry'[k] = NoEntry /\ Q = {}
  BY <1>1, <1>2 DEF Scheduled
<1>4. New(Q, hs) = {}
  BY <1>3, NewOf
<1> QED
  BY <1>1, <1>3, <1>4

\* What stands of a job after a step of the machine, whoever brought it about.
Kept(k) ==
    /\ JobStands(k, entry'[k], Mine(k)', store[k], run[k])
    /\ ParkedWaits(entry'[k])
    /\ ~Over(store[k]) /\ entry'[k].phase = "none" => entry[k].phase = "none"

\* A job the machine does not hold, with nothing under way, stays so.
Untouched(k) == entry[k] = NoEntry /\ Mine(k) = {} => entry'[k] = NoEntry /\ Mine(k)' = {}

LEMMA OthersKept ==
    ASSUME RunsInv, AllGood(entry), NEW k \in Jobs, NEW R, NEW gone, NEW hs, SteppedTo(k, entry[k], R, gone, hs),
           NewAbout(k, R, hs) = {}, Mine(k) \ gone = Mine(k)
    PROVE  Kept(k) /\ Untouched(k)
<1>1. JobStands(k, entry[k], Mine(k), store[k], run[k])
  BY DEF RunsInv, JobInv
<1>2. Good(entry[k])
  BY DEF AllGood
<1>3. (Mine(k) \ gone) \cup NewAbout(k, R, hs) = Mine(k)
  OBVIOUS
<1>4. /\ JobStands(k, entry'[k], Mine(k)', store[k], run[k]) /\ ParkedWaits(entry'[k])
      /\ entry'[k].phase = "none" <=> entry[k].phase = "none"
  BY <1>1, <1>2, <1>3, SteppedStands, SMT
<1>6. Untouched(k)
  BY SteppedAlone DEF Untouched
<1> QED
  BY <1>4, <1>6 DEF Kept

LEMMA DeliverKept ==
    ASSUME RunsInv, Shaped, HandlersFit, NEW j \in Jobs, NEW ev, JobMessage(ev), NEW h, NEW gone, gone \subseteq Mine(j),
           Deliver(j, ev, h, gone),
           \A hs : JobStands(j, Handler(j, entry[j], ev).e,
                             (Mine(j) \ gone) \cup New(Handler(j, entry[j], ev).r, hs), store[j], run[j]),
           ~Over(store[j]) => ~Leaving(entry[j], ev)
    PROVE  /\ \A k \in Jobs : Kept(k) /\ (k # j => Untouched(k))
           /\ \A e \in effects' : Speaks(e)
           /\ entry'[j].phase = "none" => Handler(j, entry[j], ev).e.phase = "none"
<1> DEFINE hd == Handler(j, entry[j], ev)
           en == [entry EXCEPT ![j] = hd.e]
<1>1. Good(hd.e) /\ About(j, hd.r) /\ AllGood(entry)
  BY DEF HandlersFit, Shaped
<1>2. AllGood(en) /\ en[j] = hd.e /\ \A k \in Jobs : k # j => en[k] = entry[k]
  BY <1>1 DEF AllGood
<1>3. entry' = schedule(en, recovering', unread')
  BY DEF Deliver, Take, Step
<1>4. PICK brings, drops : AfterStep(j, brings, drops, gone, hd.r \cup scheduleRequests(en, entry'))
  BY DEF Deliver
<1>x. Mild(entry[j], hd, Adopting(ev), Leaving(entry[j], ev))
  <2>1. entry[j] \in Entry /\ (ev.type = "Recovered" => ev.f \in Finding)
    BY <1>1 DEF AllGood, Good, JobMessage, PlainTypes
  <2> QED
    BY <2>1, MildHandler
<1> HIDE DEF hd, en
<1>5. /\ \E hs : \A k \in Jobs : SteppedTo(k, en[k], hd.r, gone, hs)
      /\ \A e \in effects' : e \in effects \/ Speaks(e)
  BY <1>2, <1>3, <1>4, SteppedShape
<1>6. PICK hs : \A k \in Jobs : SteppedTo(k, en[k], hd.r, gone, hs)
  BY <1>5
<1>7. \A e \in effects' : Speaks(e)
  BY <1>5 DEF RunsInv
<1>8. ASSUME NEW k \in Jobs, k # j
      PROVE  Kept(k) /\ Untouched(k)
  <2>1. {q \in hd.r : q.job = k} = {}
    BY <1>1, <1>8 DEF About
  <2>2. NewAbout(k, hd.r, hs) = {}
    BY <2>1, NewOf DEF NewAbout
  <2>3. Mine(k) \ gone = Mine(k)
    BY <1>8 DEF Mine
  <2>4. SteppedTo(k, entry[k], hd.r, gone, hs)
    BY <1>2, <1>6, <1>8
  <2> QED
    BY <1>1, <2>2, <2>3, <2>4, OthersKept
<1>9. Kept(j) /\ (entry'[j].phase = "none" => hd.e.phase = "none")
  <2>1. {q \in hd.r : q.job = j} = hd.r
    BY <1>1 DEF About
  <2>2. NewAbout(j, hd.r, hs) = New(hd.r, hs)
    BY <2>1 DEF NewAbout
  <2>3. JobStands(j, hd.e, (Mine(j) \ gone) \cup NewAbout(j, hd.r, hs), store[j], run[j])
    BY <2>2 DEF hd
  <2>4. SteppedTo(j, hd.e, hd.r, gone, hs)
    BY <1>2, <1>6
  <2>5. /\ JobStands(j, entry'[j], Mine(j)', store[j], run[j]) /\ ParkedWaits(entry'[j])
        /\ entry'[j].phase = "none" <=> hd.e.phase = "none"
    BY <1>1, <2>3, <2>4, SteppedStands, SMT
  <2>6. ~Over(store[j]) /\ hd.e.phase = "none" => entry[j].phase = "none"
    BY <1>x DEF Mild
  <2> QED
    BY <2>5, <2>6 DEF Kept
<1> QED
  BY <1>7, <1>8, <1>9 DEF hd

\* The readers and the callers see a step of the machine as one that changes nothing.
LEMMA KeptForStart ==
    ASSUME NEW k, Kept(k), Untouched(k) \/ (~Pending(reader["start"], k) /\ Posted(reader["start"])),
           StartStands(reader["start"], k, entry[k], Mine(k), store[k], run[k])
    PROVE  StartStands(reader["start"], k, entry'[k], Mine(k)', store[k], run[k])
  BY DEF Kept, Untouched, StartStands

LEMMA KeptForSweep ==
    ASSUME NEW k, Kept(k), NEW x, SweepStands(x, k, entry[k], store[k])
    PROVE  SweepStands(x, k, entry'[k], store[k])
  BY DEF Kept, SweepStands

\* All that a step of the machine leaves to show.
LEMMA MachineStepStays ==
    ASSUME RunsInv, UNCHANGED world, \A k \in Jobs : Kept(k), \A e \in effects' : Speaks(e), Calm',
           \A k \in Jobs : StartStands(reader'["start"], k, entry'[k], Mine(k)', store[k], run[k]),
           \A k \in Jobs : SweepStands(reader'["sweep"], k, entry'[k], store[k]),
           \A k \in Jobs : CallersStand(reader'["submit"], k, caller'[k], store[k])
    PROVE  RunsInv'
<1>1. store' = store /\ run' = run /\ ran' = ran
  BY DEF world
<1>2. ASSUME NEW k \in Jobs
      PROVE  JobInv(k)'
  <2>1. WorldStands(k, store[k], run[k], ran[k])
    BY DEF RunsInv, JobInv
  <2>2. JobStands(k, entry'[k], Mine(k)', store[k], run[k]) /\ ParkedWaits(entry'[k])
    BY DEF Kept
  <2> QED
    BY <1>1, <2>1, <2>2 DEF JobInv
<1> QED
  BY <1>2 DEF RunsInv

\* What the handler of a message has to leave.
Handled(j, ev, gone) ==
    /\ \A hs : JobStands(j, Handler(j, entry[j], ev).e,
                         (Mine(j) \ gone) \cup New(Handler(j, entry[j], ev).r, hs), store[j], run[j])
    /\ ~Over(store[j]) => ~Leaving(entry[j], ev)

LEMMA OpenHandled ==
    ASSUME NEW j, NEW h, NEW E, NEW hs, NEW job, NEW r, ~Over(job), OpenAfter(j, h, Sides(E), Mains(E), hs, job, r)
    PROVE  JobStands(j, h.e, E \cup New(h.r, hs), job, r)
  BY Parted DEF OpenAfter, JobStands

LEMMA EffectHandledWell ==
    ASSUME RunsInv, Shaped, NEW e \in effects, e.at = "post"
    PROVE  Handled(e.job, e.ev, {e})
<1> DEFINE j == e.job
           E == Mine(j)
           c == entry[j]
           job == store[j]
           r == run[j]
<1>1. j \in Jobs /\ e \in E /\ JobMessage(e.ev) /\ Speaks(e)
  BY MineJobs DEF RunsInv
<1>2. /\ JobStands(j, c, E, job, r) /\ ParkedWaits(c) /\ WorldStands(j, job, r, ran[j])
  BY <1>1 DEF RunsInv, JobInv
<1>3. /\ job.state \in {"absent", "queued", "running"} \/ Over(job)
      /\ r \in Run /\ Good(c) /\ c \in Entry
  BY <1>1, StoredStates
<1>4. e.kind = "reexamine" => e.ev.f \in Finding /\ e.ev.p \in Presence
  <2>1. e.kind = "reexamine" => e.ev.type = "Recovered"
    BY <1>1 DEF Speaks, AnswersOf
  <2> QED
    BY <1>1, <2>1, RecoveredMessages
<1> HIDE DEF j, E, c, job, r
<1>5. CASE Over(job)
  <2>1. OverStands(c, E, r) /\ Tame(e, r)
    BY <1>1, <1>2, <1>5 DEF JobStands, OverStands
  <2>2. r.proc = "parked" => ~Adopting(e.ev)
    BY <1>1, <2>1, OverAnswered
  <2>3. e.ev.type = "Recovered" => e.ev.f \in Finding
    BY <1>1, RecoveredMessages
  <2>4. E \ {e} \subseteq E
    OBVIOUS
  <2>5. ASSUME NEW hs
        PROVE  JobStands(j, Handler(j, c, e.ev).e, (E \ {e}) \cup New(Handler(j, c, e.ev).r, hs), job, r)
    <3>1. OverStands(Handler(j, c, e.ev).e, (E \ {e}) \cup New(Handler(j, c, e.ev).r, hs), r)
      BY <1>3, <2>1, <2>2, <2>3, <2>4, OverHandled
    <3> QED
      BY <1>5, <3>1 DEF JobStands
  <2> QED
    BY <1>5, <2>5 DEF Handled, j, E, c, job, r
<1>6. CASE ~Over(job)
  <2>1. OpenStands(j, c, Sides(E), Mains(E), job, r) /\ job.state \in {"absent", "queued", "running"}
    BY <1>2, <1>3, <1>6 DEF JobStands
  <2>2. r.end = "cancelled" => r.cancel
    BY <1>2 DEF WorldStands
  <2>3. ASSUME NEW hs
        PROVE  JobStands(j, Handler(j, c, e.ev).e, (E \ {e}) \cup New(Handler(j, c, e.ev).r, hs), job, r)
    <3>1. OpenAfter(j, Handler(j, c, e.ev), Sides(E \ {e}), Mains(E \ {e}), hs, job, r)
      BY <1>1, <1>2, <1>3, <1>4, <2>1, <2>2, EffectHandled
    <3> QED
      BY <1>6, <3>1, OpenHandled
  <2>4. ~Leaving(c, e.ev)
    <3>1. AnswerFits(j, c, E, e, job, r)
      BY <1>1, <1>3, <2>1, AnswerKinds, SMT
    <3> QED
      BY <3>1 DEF AnswerFits
  <2> QED
    BY <2>3, <2>4 DEF Handled, j, E, c, job, r
<1> QED
  BY <1>5, <1>6

LEMMA HandledKept ==
    ASSUME RunsInv, Shaped, HandlersFit, NEW j \in Jobs, NEW ev, JobMessage(ev), NEW h, NEW gone, gone \subseteq Mine(j),
           Deliver(j, ev, h, gone), Handled(j, ev, gone)
    PROVE  /\ \A k \in Jobs : Kept(k) /\ (k # j => Untouched(k))
           /\ \A e \in effects' : Speaks(e)
           /\ entry'[j].phase = "none" => Handler(j, entry[j], ev).e.phase = "none"
           /\ UNCHANGED <<world, recovering, unread>>
<1>1. UNCHANGED <<world, recovering, unread>>
  BY DEF Deliver, Take
<1>2. /\ \A hs : JobStands(j, Handler(j, entry[j], ev).e,
                         (Mine(j) \ gone) \cup New(Handler(j, entry[j], ev).r, hs), store[j], run[j])
      /\ ~Over(store[j]) => ~Leaving(entry[j], ev)
  BY DEF Handled
<1>3. /\ \A k \in Jobs : Kept(k) /\ (k # j => Untouched(k))
      /\ \A e \in effects' : Speaks(e)
      /\ entry'[j].phase = "none" => Handler(j, entry[j], ev).e.phase = "none"
  BY <1>2, DeliverKept
<1> QED
  BY <1>1, <1>3

LEMMA DeliverEffectStays ==
    ASSUME RunsInv, Shaped, HandlersFit, NEW e \in effects, DeliverEffect(e)
    PROVE  RunsInv'
<1>1. e.at = "post" /\ Deliver(e.job, e.ev, e.h, {e}) /\ reader' = reader /\ caller' = caller
  BY DEF DeliverEffect
<1>2. e.job \in Jobs /\ e \in Mine(e.job) /\ JobMessage(e.ev)
  BY <1>1, MineJobs
<1>3. Handled(e.job, e.ev, {e})
  BY <1>1, EffectHandledWell
<1>4. {e} \subseteq Mine(e.job)
  BY <1>2
<1>5. /\ \A k \in Jobs : Kept(k) /\ (k # e.job => Untouched(k))
      /\ \A d \in effects' : Speaks(d)
      /\ UNCHANGED <<world, recovering, unread>>
  BY <1>1, <1>2, <1>3, <1>4, HandledKept
<1>6. Untouched(e.job)
  BY <1>2 DEF Untouched
<1>7. \A k \in Jobs : /\ StartStands(reader["start"], k, entry[k], Mine(k), store[k], run[k])
                      /\ SweepStands(reader["sweep"], k, entry[k], store[k])
                      /\ CallersStand(reader["submit"], k, caller[k], store[k])
  BY DEF RunsInv, JobInv
<1>8. ASSUME NEW k \in Jobs
      PROVE  /\ StartStands(reader'["start"], k, entry'[k], Mine(k)', store[k], run[k])
             /\ SweepStands(reader'["sweep"], k, entry'[k], store[k])
             /\ CallersStand(reader'["submit"], k, caller'[k], store[k])
  <2>1. Kept(k) /\ Untouched(k)
    BY <1>5, <1>6
  <2> QED
    BY <1>1, <1>7, <2>1, KeptForStart, KeptForSweep
<1>9. Calm'
  <2>1. Calm
    BY DEF RunsInv
  <2> QED
    BY <1>1, <1>5, <2>1 DEF Calm, world
<1> QED
  BY <1>5, <1>8, <1>9, MachineStepStays

-----------------------------------------------------------------------------
(* Callers. *)

LEMMA NobodyPending ==
    ASSUME Calm, reader["start"].at = "done"
    PROVE  /\ \A k : ~Pending(reader["start"], k)
           /\ Posted(reader["start"])
<1>1. reader["start"].todo = {} /\ DOMAIN reader["start"].seen = {}
  BY DEF Calm, Posted
<1>2. \A k : ~Pending(reader["start"], k)
  BY <1>1 DEF Pending, Ahead, Posting
<1> QED
  BY <1>2 DEF Posted

\* A job that was submitted is admitted, or its cancellation asked for.
LEMMA CallHandled ==
    ASSUME RunsInv, Shaped, NEW j \in Jobs, NEW ev, ev.type \in {"Admitted", "CancelAsked"},
           store[j].state # "absent", ~Pending(reader["start"], j)
    PROVE  Handled(j, ev, {})
<1> DEFINE E == Mine(j)
           c == entry[j]
           job == store[j]
           r == run[j]
<1>2. /\ JobStands(j, c, E, job, r) /\ StartStands(reader["start"], j, c, E, job, r)
  BY DEF RunsInv, JobInv
<1>3. /\ job.state \in {"absent", "queued", "running"} \/ Over(job)
      /\ Good(c) /\ c \in Entry
  BY StoredStates
<1>4. ~Over(job) /\ c.phase = "none" => job.state = "queued" /\ r = NoRun
  BY <1>2 DEF StartStands
<1>5. ~Adopting(ev) /\ ~Leaving(c, ev) /\ ev.type # "Recovered"
  BY DEF Adopting, Leaving, JobEvents
<1>6. (E \ {}) = E /\ E \subseteq E
  OBVIOUS
<1>7. Handler(j, c, ev) = IF ev.type = "Admitted" THEN OnAdmitted(c, ev.attempts) ELSE OnCancelAsked(j, c, ev.state)
  BY DEF Handler
<1> HIDE DEF E, c, job, r
<1>8. CASE Over(job)
  <2>1. OverStands(c, E, r)
    BY <1>2, <1>8 DEF JobStands
  <2>2. ASSUME NEW hs
        PROVE  JobStands(j, Handler(j, c, ev).e, E \cup New(Handler(j, c, ev).r, hs), job, r)
    <3>1. OverStands(Handler(j, c, ev).e, E \cup New(Handler(j, c, ev).r, hs), r)
      BY <1>3, <1>5, <1>6, <2>1, OverHandled
    <3> QED
      BY <1>8, <3>1 DEF JobStands
  <2> QED
    BY <1>6, <1>8, <2>2 DEF Handled, E, c, job, r
<1>9. CASE ~Over(job)
  <2>1. OpenStands(j, c, Sides(E), Mains(E), job, r)
    BY <1>2, <1>9 DEF JobStands
  <2>2. ASSUME NEW hs
        PROVE  JobStands(j, Handler(j, c, ev).e, E \cup New(Handler(j, c, ev).r, hs), job, r)
    <3>1. OpenAfter(j, OnAdmitted(c, ev.attempts), Sides(E), Mains(E), hs, job, r)
      BY <1>3, <1>4, <1>9, <2>1, AdmittedStands
    <3>2. OpenAfter(j, OnCancelAsked(j, c, ev.state), Sides(E), Mains(E), hs, job, r)
      BY <1>3, <1>4, <1>9, <2>1, CancelAskedStands
    <3>3. OpenAfter(j, Handler(j, c, ev), Sides(E), Mains(E), hs, job, r)
      BY <1>7, <3>1, <3>2
    <3> QED
      BY <1>9, <3>3, OpenHandled
  <2> QED
    BY <1>5, <1>6, <2>2 DEF Handled, E, c, job, r
<1> QED
  BY <1>8, <1>9

LEMMA CancelPostStays ==
    ASSUME RunsInv, Shaped, HandlersFit, NEW j \in Jobs, CancelPost(j)
    PROVE  RunsInv'
<1> DEFINE ev == CancelEvent(caller[j])
<1>1. /\ caller[j] \in JobStates /\ caller' \in {[caller EXCEPT ![j] = c] : c \in {"ask", "idle"}}
      /\ reader' = reader /\ Deliver(j, ev, FALSE, {})
  BY DEF CancelPost
<1>2. ev.type = "CancelAsked" /\ ev.state = caller[j] /\ JobMessage(ev)
  BY <1>1 DEF CancelEvent, JobMessage
<1> HIDE DEF ev
<1>3. caller[j] # "idle"
  BY <1>1 DEF JobStates, FinalStates
<1>4. Calm /\ JobInv(j)
  BY DEF RunsInv
<1>5. reader["start"].at = "done" /\ store[j].state # "absent"
  BY <1>3, <1>4 DEF Calm, JobInv, CallersStand
<1>6. (\A k : ~Pending(reader["start"], k)) /\ Posted(reader["start"])
  BY <1>4, <1>5, NobodyPending
<1>7. Handled(j, ev, {})
  <2>1. ev.type \in {"Admitted", "CancelAsked"} /\ ~Pending(reader["start"], j)
    BY <1>2, <1>6
  <2> QED
    BY <1>5, <2>1, CallHandled, SMT
<1>8. /\ \A k \in Jobs : Kept(k)
      /\ \A d \in effects' : Speaks(d)
      /\ UNCHANGED <<world, recovering, unread>>
  BY <1>1, <1>2, <1>7, HandledKept
<1>9. \A k \in Jobs : /\ StartStands(reader["start"], k, entry[k], Mine(k), store[k], run[k])
                      /\ SweepStands(reader["sweep"], k, entry[k], store[k])
                      /\ CallersStand(reader["submit"], k, caller[k], store[k])
  BY DEF RunsInv, JobInv
<1>10. caller = [k \in Jobs |-> caller[k]]
  BY <1>4 DEF Calm
<1>11. caller' = [k \in Jobs |-> caller'[k]] /\ \A k \in Jobs : k = j \/ caller'[k] = caller[k]
  BY <1>1, <1>10
<1>12. ASSUME NEW k \in Jobs
       PROVE  /\ StartStands(reader'["start"], k, entry'[k], Mine(k)', store[k], run[k])
              /\ SweepStands(reader'["sweep"], k, entry'[k], store[k])
              /\ CallersStand(reader'["submit"], k, caller'[k], store[k])
  <2>1. Kept(k) /\ ~Pending(reader["start"], k) /\ Posted(reader["start"])
    BY <1>6, <1>8
  <2>2. CallersStand(reader'["submit"], k, caller'[k], store[k])
    BY <1>1, <1>5, <1>9, <1>11 DEF CallersStand
  <2> QED
    BY <1>1, <1>9, <2>1, <2>2, KeptForStart, KeptForSweep
<1>13. Calm'
  BY <1>1, <1>4, <1>5, <1>8, <1>11 DEF Calm, world
<1> QED
  BY <1>8, <1>12, <1>13, MachineStepStays

LEMMA CancelAskStays ==
    ASSUME RunsInv, Shaped, NEW j \in Jobs, CancelCall(j) \/ CancelRead(j)
    PROVE  RunsInv'
<1>1. /\ UNCHANGED <<entry, recovering, unread, handle, effects, reader, world>>
      /\ \E v : caller' = [caller EXCEPT ![j] = v] /\ (v # "idle" => store[j].state # "absent")
      /\ reader["start"].at = "done"
  <2>1. CASE CancelCall(j)
    <3>1. store[j] # Absent
      BY <2>1 DEF CancelCall
    <3>2. store[j].state # "absent"
      <4>1. store[j] \in StoredJob \cup {Absent}
        BY DEF Shaped, ShellInv, WorldOK
      <4> QED
        BY <3>1, <4>1 DEF StoredJob, JobStates, FinalStates
    <3> QED
      BY <2>1, <3>2 DEF CancelCall, Serving
  <2>2. CASE CancelRead(j)
    <3>1. caller[j] # "idle"
      BY <2>2 DEF CancelRead
    <3>2. Calm /\ JobInv(j)
      BY DEF RunsInv
    <3>3. store[j].state # "absent" /\ reader["start"].at = "done"
      BY <3>1, <3>2 DEF JobInv, CallersStand, Calm
    <3> QED
      BY <2>2, <3>3 DEF CancelRead
  <2> QED
    BY <2>1, <2>2
<1>2. PICK v : caller' = [caller EXCEPT ![j] = v] /\ (v # "idle" => store[j].state # "absent")
  BY <1>1
<1>3. Calm /\ \A k \in Jobs : JobInv(k)
  BY DEF RunsInv
<1>4. caller = [k \in Jobs |-> caller[k]]
  BY <1>3 DEF Calm
<1>5. caller' = [k \in Jobs |-> caller'[k]] /\ \A k \in Jobs : (k = j /\ caller'[k] = v) \/ caller'[k] = caller[k]
  BY <1>2, <1>4
<1>6. ASSUME NEW k \in Jobs
      PROVE  JobInv(k)'
  <2>1. CallersStand(reader["submit"], k, caller'[k], store[k])
    BY <1>2, <1>3, <1>5 DEF JobInv, CallersStand
  <2> QED
    BY <1>1, <1>3, <2>1 DEF JobInv, Mine, world
<1>7. Calm'
  BY <1>1, <1>3, <1>5 DEF Calm, world
<1> QED
  BY <1>1, <1>6, <1>7 DEF RunsInv

-----------------------------------------------------------------------------
(* A submission. *)

LEMMA SameReaderStands ==
    ASSUME NEW x, NEW y, SameReader(x, y), NEW k, NEW c, NEW E, NEW job, NEW r
    PROVE  /\ StartStands(x, k, c, E, job, r) => StartStands(y, k, c, E, job, r)
           /\ SweepStands(x, k, c, job) => SweepStands(y, k, c, job)
<1>1. /\ Pending(y, k) <=> Pending(x, k)
      /\ Ahead(y, k) <=> Ahead(x, k)
      /\ Posting(y, k) <=> Posting(x, k)
      /\ Posted(y) <=> Posted(x)
  BY DEF SameReader, Pending, Ahead, Posting, Posted
<1>2. StartStands(x, k, c, E, job, r) => StartStands(y, k, c, E, job, r)
  BY <1>1 DEF SameReader, StartStands
<1>3. SweepStands(x, k, c, job) => SweepStands(y, k, c, job)
  BY DEF SameReader, SweepStands
<1> QED
  BY <1>2, <1>3

LEMMA SupersededIs ==
    ASSUME Shaped, NEW r \in Readers, NEW next, NEW s
    PROVE  /\ DOMAIN Superseded(r, next, s) = Readers
           /\ Superseded(r, next, s)[r] = next
           /\ \A q \in Readers : q # r => SameReader(reader[q], Superseded(r, next, s)[q])
<1>1. DOMAIN reader = Readers
  BY DEF Shaped, ShellInv, ReadersOK
<1>2. \A q \in Readers : q # r => Superseded(r, next, s)[q] = [reader[q] EXCEPT !.stale = reader[q].stale \/ reader[q].store = s]
  BY <1>1 DEF Superseded
<1> QED
  BY <1>1, <1>2, ReaderFields DEF Superseded

LEMMA SetReaderIs ==
    ASSUME Shaped, NEW r \in Readers, NEW x, SetReader(r, x)
    PROVE  reader'[r] = x /\ \A q \in Readers : q # r => reader'[q] = reader[q]
<1>1. DOMAIN reader = Readers
  BY DEF Shaped, ShellInv, ReadersOK
<1> QED
  BY <1>1 DEF SetReader

LEMMA IdleIs ==
    /\ Idle.at = "idle" /\ Idle.again = FALSE /\ Idle.stale = FALSE /\ Idle.todo = {} /\ Idle.away = {}
    /\ DOMAIN Idle.seen = {} /\ Idle.seen = <<>>
    /\ DOMAIN Idle = {"at", "store", "again", "stale", "todo", "away", "runs", "seen", "job", "ev"}
  BY SMT DEF Idle

LEMMA SubmitAdmitStays ==
    ASSUME RunsInv, Shaped, HandlersFit, SubmitAdmit
    PROVE  RunsInv'
<1> DEFINE x == reader["submit"]
           j == firstOf(x.todo)
           ev == [type |-> "Admitted", attempts |-> 0]
<1>1. /\ x.at = "admit" /\ UNCHANGED caller
      /\ reader' = Superseded("submit", Idle, x.store)
      /\ Deliver(j, ev, FALSE, {})
  BY DEF SubmitAdmit
<1>2. Calm
  BY DEF RunsInv
<1>3. x.todo \subseteq Jobs /\ x.todo # {}
  BY <1>1, ReadersAre, ReaderFields DEF ReaderOK
<1>4. j \in x.todo /\ j \in Jobs
  BY <1>3 DEF HandlersFit
<1>5. reader["start"].at = "done"
  BY <1>1, <1>2 DEF Calm
<1>6. store[j].state # "absent"
  BY <1>1, <1>4 DEF RunsInv, JobInv, CallersStand
<1>7. ev.type = "Admitted" /\ JobMessage(ev)
  BY AttemptsAssumption, SMT DEF JobMessage
<1> HIDE DEF ev, j
<1>8. (\A k : ~Pending(reader["start"], k)) /\ Posted(reader["start"])
  BY <1>2, <1>5, NobodyPending
<1>9. Handled(j, ev, {})
  <2>1. ev.type \in {"Admitted", "CancelAsked"} /\ ~Pending(reader["start"], j)
    BY <1>7, <1>8
  <2> QED
    BY <1>4, <1>6, <2>1, CallHandled, SMT
<1>10. /\ \A k \in Jobs : Kept(k)
       /\ \A d \in effects' : Speaks(d)
       /\ UNCHANGED <<world, recovering, unread>>
  BY <1>1, <1>4, <1>7, <1>9, HandledKept
<1>11. /\ SameReader(reader["start"], reader'["start"]) /\ SameReader(reader["sweep"], reader'["sweep"])
       /\ reader'["submit"] = Idle
  <2>1. "start" # "submit" /\ "sweep" # "submit"
    OBVIOUS
  <2> QED
    BY <1>1, <2>1, SupersededIs, ReadersAre
<1>12. \A k \in Jobs : /\ StartStands(reader["start"], k, entry[k], Mine(k), store[k], run[k])
                       /\ SweepStands(reader["sweep"], k, entry[k], store[k])
                       /\ CallersStand(reader["submit"], k, caller[k], store[k])
  BY DEF RunsInv, JobInv
<1>13. ASSUME NEW k \in Jobs
       PROVE  /\ StartStands(reader'["start"], k, entry'[k], Mine(k)', store[k], run[k])
              /\ SweepStands(reader'["sweep"], k, entry'[k], store[k])
              /\ CallersStand(reader'["submit"], k, caller'[k], store[k])
  <2>1. Kept(k) /\ ~Pending(reader["start"], k) /\ Posted(reader["start"])
    BY <1>8, <1>10
  <2>2. CallersStand(reader'["submit"], k, caller'[k], store[k])
    BY <1>1, <1>11, <1>12, IdleIs DEF CallersStand
  <2>3. /\ StartStands(reader["start"], k, entry'[k], Mine(k)', store[k], run[k])
        /\ SweepStands(reader["sweep"], k, entry'[k], store[k])
    BY <1>12, <2>1, KeptForStart, KeptForSweep
  <2> QED
    BY <1>11, <2>2, <2>3, SameReaderStands
<1>14. Calm'
  <2>1. Posted(reader'["start"]) <=> Posted(reader["start"])
    BY <1>11 DEF SameReader, Posted
  <2>2. reader'["submit"].at = "idle" /\ ~reader'["submit"].again
    BY <1>11, IdleIs
  <2> QED
    BY <1>1, <1>2, <1>5, <1>10, <1>11, <2>1, <2>2 DEF Calm, world, SameReader
<1> QED
  BY <1>10, <1>13, <1>14, MachineStepStays

LEMMA SubmitCheckStays ==
    ASSUME RunsInv, Shaped, SubmitCheck
    PROVE  RunsInv'
<1> DEFINE x == reader["submit"]
           y == [x EXCEPT !.at = "admit"]
<1>1. x.at = "written" /\ Reading /\ Calm
  BY DEF SubmitCheck, RunsInv
<1>2. SetReader("submit", y)
  BY <1>1 DEF SubmitCheck, Calm
<1>3. y.at = "admit" /\ y.todo = x.todo /\ y.again = x.again
  BY ReadersAre, ReaderFields DEF ReaderOK
<1> HIDE DEF y
<1>4. reader'["submit"] = y /\ reader'["start"] = reader["start"] /\ reader'["sweep"] = reader["sweep"]
  BY <1>2, ReadersAre, SetReaderIs
<1>5. ASSUME NEW k \in Jobs
      PROVE  JobInv(k)'
  <2>1. JobInv(k)
    BY DEF RunsInv
  <2>2. CallersStand(y, k, caller[k], store[k])
    BY <1>1, <1>3, <2>1 DEF JobInv, CallersStand
  <2> QED
    BY <1>1, <1>4, <2>1, <2>2 DEF JobInv, Mine, Reading, world
<1>6. Calm'
  BY <1>1, <1>3, <1>4 DEF Calm, Reading, world
<1> QED
  BY <1>1, <1>5, <1>6 DEF RunsInv, Reading

LEMMA SubmittedStands ==
    ASSUME NEW j, NEW c, Good(c), NEW E, NEW r, NEW n, NEW old, NEW job, old.state = "absent",
           job.state = "queued", job.attempts = 0, WorldStands(j, old, r, n), JobStands(j, c, E, old, r)
    PROVE  WorldStands(j, job, r, n) /\ JobStands(j, c, E, job, r) /\ r = NoRun /\ c.phase = "none"
<1>1. r = NoRun /\ n = 0
  BY DEF WorldStands
<1>2. ~Over(old) /\ ~Over(job)
  BY DEF Over, FinalStates
<1>3. OpenStands(j, c, Sides(E), Mains(E), old, r)
  BY <1>2 DEF JobStands
<1>4. c.phase = "none" /\ c = NoEntry
  BY <1>3 DEF OpenStands, EntryStands, Good, CoherentEntry
<1>5. WorldStands(j, job, r, n)
  <2>1. NoRun.proc = "none" /\ Unmarked(NoRun) /\ ~Unsent(NoRun) /\ NoRun.end = "none"
    BY NoRunIs
  <2>2. BegunBefore(j, job) = 0
    BY DEF BegunBefore
  <2>3. 0 <= BegunBefore(j, job) /\ 0 \in Nat /\ 0 <= IF j \in Rerun THEN job.attempts + 1 ELSE 1
    BY <2>2, SMT
  <2> QED
    BY <1>1, <1>2, <2>1, <2>3 DEF WorldStands
<1>6. ~c.waiting /\ ~c.parked /\ ~c.cancelAsked
  BY <1>4 DEF NoEntry
<1>7. EntryStands(j, c, job, r) /\ c.phase \notin Ending /\ Idles(c)
  BY <1>4, <1>6, MainOfPhases DEF EntryStands, Ending, Idles
<1>8. \A e \in Sides(E) : SideStands(e, c, Sides(E), job, r)
  BY <1>3, <1>4, <1>6 DEF OpenStands, SideStands, LookFits
<1>9. Mains(E) = {}
  BY <1>3, <1>7 DEF OpenStands
<1> QED
  BY <1>1, <1>2, <1>4, <1>5, <1>7, <1>8, <1>9 DEF JobStands, OpenStands

LEMMA SubmitWriteStays ==
    ASSUME RunsInv, Shaped, NEW j \in Jobs, SubmitWrite(j)
    PROVE  RunsInv'
<1> DEFINE job == [state |-> "queued", attempts |-> 0]
           y == [Idle EXCEPT !.at = "written", !.store = StoreOf[j], !.todo = {j}]
<1>1. /\ reader["start"].at = "done" /\ store[j] = Absent
      /\ store' = [store EXCEPT ![j] = job]
      /\ UNCHANGED <<entry, recovering, unread, handle, effects, caller, run, ran>>
      /\ SetReader("submit", y) \/ reader' = reader
  BY DEF SubmitWrite, Serving, SetStore
<1>2. y.at = "written" /\ y.todo = {j} /\ y.again = FALSE
  BY IdleIs
<1>3. job.state = "queued" /\ job.attempts = 0 /\ Absent.state = "absent"
  BY DEF Absent
<1> HIDE DEF job, y
<1>4. /\ reader'["submit"] \in {y, reader["submit"]}
      /\ reader'["start"] = reader["start"] /\ reader'["sweep"] = reader["sweep"]
  BY <1>1, ReadersAre, SetReaderIs
<1>5. store'[j] = job /\ \A k \in Jobs : k # j => store'[k] = store[k]
  BY <1>1 DEF Shaped, ShellInv, WorldOK
<1>6. Calm /\ \A k \in Jobs : JobInv(k)
  BY DEF RunsInv
<1>7. \A k \in Jobs : Mine(k)' = Mine(k)
  BY <1>1 DEF Mine
<1>8. ASSUME NEW k \in Jobs, k # j
      PROVE  JobInv(k)'
  <2>1. CallersStand(reader'["submit"], k, caller[k], store[k])
    <3>1. CallersStand(reader["submit"], k, caller[k], store[k])
      BY <1>6 DEF JobInv
    <3>2. k \notin y.todo
      BY <1>2, <1>8
    <3> QED
      BY <1>4, <3>1, <3>2 DEF CallersStand
  <2> QED
    BY <1>1, <1>4, <1>5, <1>6, <1>7, <1>8, <2>1 DEF JobInv
<1>9. JobInv(j)'
  <2>1. /\ WorldStands(j, Absent, run[j], ran[j])
        /\ JobStands(j, entry[j], Mine(j), Absent, run[j])
        /\ ParkedWaits(entry[j])
        /\ StartStands(reader["start"], j, entry[j], Mine(j), Absent, run[j])
        /\ SweepStands(reader["sweep"], j, entry[j], Absent)
    BY <1>1, <1>6 DEF JobInv
  <2>2. Good(entry[j])
    BY DEF Shaped, AllGood
  <2>3. WorldStands(j, job, run[j], ran[j]) /\ JobStands(j, entry[j], Mine(j), job, run[j]) /\ run[j] = NoRun
    BY <1>3, <2>1, <2>2, SubmittedStands, SMT
  <2>4. ~Over(Absent)
    BY <1>3 DEF Over, FinalStates
  <2>5. SweepStands(reader["sweep"], j, entry[j], job)
    BY <1>3, <2>1, <2>4 DEF SweepStands
  <2>6. StartStands(reader["start"], j, entry[j], Mine(j), job, run[j])
    <3>1. ~Pending(reader["start"], j) /\ Posted(reader["start"])
      BY <1>1, <1>6, NobodyPending DEF Posted
    <3>2. j \notin DOMAIN reader["start"].seen /\ ~Posting(reader["start"], j)
      BY <3>1 DEF Pending, Ahead
    <3> QED
      BY <1>3, <2>3, <3>1, <3>2 DEF StartStands
  <2>7. CallersStand(reader'["submit"], j, caller[j], job)
    BY <1>3 DEF CallersStand
  <2> QED
    BY <1>1, <1>4, <1>5, <1>7, <2>1, <2>3, <2>5, <2>6, <2>7 DEF JobInv
<1>10. Calm'
  BY <1>1, <1>2, <1>4, <1>6 DEF Calm
<1> QED
  BY <1>1, <1>6, <1>8, <1>9, <1>10 DEF RunsInv

-----------------------------------------------------------------------------
(* The reader at the start. *)

StartCalm(y) ==
    /\ y.away = {} /\ ~y.stale
    /\ y.at \in {"runs", "list", "jobs", "post"}
    /\ y.at = "post" => y.ev.type \in {"Recovered", "RecoveryDone"}
    /\ y.at \in {"runs", "list"} \/ Posted(y) => DOMAIN y.seen = {}
    /\ Posted(y) => y.todo = {}

LEMMA StartingCalm ==
    ASSUME RunsInv, reader["start"].at # "done"
    PROVE  StartCalm(reader["start"])
  BY DEF RunsInv, Calm, StartCalm

\* All that a step of the reader at the start leaves to show.
LEMMA StartTurns ==
    ASSUME RunsInv, Shaped, Reading, NEW y, SetReader("start", y), reader["start"].at # "done", StartCalm(y),
           \A k \in Jobs : StartStands(y, k, entry[k], Mine(k), store[k], run[k])
    PROVE  RunsInv'
<1>1. reader'["start"] = y /\ reader'["sweep"] = reader["sweep"] /\ reader'["submit"] = reader["submit"]
  BY ReadersAre, SetReaderIs
<1>2. Calm
  BY DEF RunsInv
<1>3. y.at # "done"
  BY DEF StartCalm
<1>4. Calm'
  BY <1>1, <1>2, <1>3 DEF Calm, StartCalm, Reading, world
<1>5. ASSUME NEW k \in Jobs
      PROVE  JobInv(k)'
  <2>1. JobInv(k)
    BY DEF RunsInv
  <2> QED
    BY <1>1, <2>1 DEF JobInv, Mine, Reading, world
<1> QED
  BY <1>4, <1>5 DEF RunsInv, Reading

LEMMA StartRunsStays ==
    ASSUME RunsInv, Shaped, StartRuns
    PROVE  RunsInv'
<1> DEFINE x == reader["start"]
           looked(mute) == [j \in Jobs |-> IF j \in mute THEN found("unknown") ELSE Probe(run[j])]
           next(mute) == [x EXCEPT !.at = "list", !.todo = Stores, !.runs = looked(mute)]
<1>1. /\ x.at = "runs" /\ Reading
      /\ \E mute \in SUBSET Jobs : SetReader("start", next(mute)) /\ \A k \in mute : run[k].dir
  <2>1. /\ x.at = "runs" /\ Reading
        /\ SetReader("start", next({})) \/ \E j \in Jobs : run[j].dir /\ SetReader("start", next({j}))
    BY DEF StartRuns
  <2> HIDE DEF next, looked
  <2>2. CASE SetReader("start", next({}))
    <3>1. {} \in SUBSET Jobs /\ \A k \in {} : run[k].dir
      OBVIOUS
    <3> QED
      BY <2>1, <2>2, <3>1
  <2>3. CASE \E j \in Jobs : run[j].dir /\ SetReader("start", next({j}))
    <3>1. PICK j \in Jobs : run[j].dir /\ SetReader("start", next({j}))
      BY <2>3
    <3>2. {j} \in SUBSET Jobs /\ \A k \in {j} : run[k].dir
      BY <3>1
    <3> QED
      BY <2>1, <3>1, <3>2
  <2> QED
    BY <2>1, <2>2, <2>3
<1>2. PICK mute \in SUBSET Jobs : SetReader("start", next(mute)) /\ \A k \in mute : run[k].dir
  BY <1>1
<1> DEFINE y == next(mute)
<1>3. /\ y.at = "list" /\ y.todo = Stores /\ y.away = x.away /\ y.stale = x.stale /\ y.seen = x.seen
      /\ \A k \in Jobs : y.runs[k] = IF k \in mute THEN found("unknown") ELSE Probe(run[k])
  BY ReadersAre, ReaderFields DEF ReaderOK
<1> HIDE DEF y, next, looked
<1>4. StartCalm(x) /\ DOMAIN x.seen = {}
  BY <1>1, StartingCalm DEF StartCalm
<1>5. StartCalm(y)
  BY <1>3, <1>4 DEF StartCalm, Posted
<1>6. ASSUME NEW k \in Jobs
      PROVE  StartStands(y, k, entry[k], Mine(k), store[k], run[k])
  <2>1. /\ StartStands(x, k, entry[k], Mine(k), store[k], run[k])
        /\ WorldStands(k, store[k], run[k], ran[k])
    BY DEF RunsInv, JobInv
  <2>2. entry[k] = NoEntry /\ Mine(k) = {}
    BY <1>1, <2>1 DEF StartStands, Pending
  <2>3. StoreOf[k] \in Stores
    BY DEF Stores
  <2>4. Ahead(y, k) /\ Pending(y, k) /\ ~Posting(y, k) /\ k \notin DOMAIN y.seen
    BY <1>3, <1>4, <2>3 DEF Ahead, Pending, Posting
  <2>5. Over(store[k]) \/ PresenceStands(y.runs[k], store[k], run[k])
    <3>1. run[k] \in Run
      BY StoredStates
    <3> QED
      BY <1>3, <2>1, <3>1, ProbeStands
  <2>6. store[k].state = "absent" => y.runs[k].run = "none"
    <3>1. SUFFICES ASSUME store[k].state = "absent"
                   PROVE  y.runs[k].run = "none"
      OBVIOUS
    <3>2. run[k] = NoRun
      BY <2>1, <3>1 DEF WorldStands
    <3>3. k \notin mute
      BY <1>2, <3>2, NoRunIs
    <3>4. Probe(NoRun).run = "none"
      BY DEF Probe, noDirectory, found, NoRun
    <3> QED
      BY <1>3, <3>2, <3>3, <3>4
  <2> QED
    BY <2>2, <2>4, <2>5, <2>6 DEF StartStands
<1> QED
  BY <1>1, <1>2, <1>5, <1>6, StartTurns DEF y

LEMMA StartListStays ==
    ASSUME RunsInv, Shaped, "unlisted" \notin Troubles, StartList
    PROVE  RunsInv'
<1> DEFINE x == reader["start"]
           y(s) == [x EXCEPT !.at = "jobs", !.store = s, !.todo = @ \ {s}, !.seen = [j \in Unfinished(s) |-> store[j]]]
<1>1. x.at = "list" /\ Reading /\ \E s \in x.todo : SetReader("start", y(s))
  BY DEF StartList, Unlisted, Trouble
<1>2. PICK s \in x.todo : SetReader("start", y(s))
  BY <1>1
<1> DEFINE z == y(s)
<1>3. /\ z.at = "jobs" /\ z.todo = x.todo \ {s} /\ z.away = x.away /\ z.stale = x.stale /\ z.runs = x.runs
      /\ z.seen = [j \in Unfinished(s) |-> store[j]]
  BY ReadersAre, ReaderFields DEF ReaderOK
<1>4. DOMAIN z.seen = Unfinished(s) /\ \A k \in Unfinished(s) : z.seen[k] = store[k]
  BY <1>3
<1> HIDE DEF z, y
<1>5. StartCalm(x) /\ DOMAIN x.seen = {}
  BY <1>1, StartingCalm DEF StartCalm
<1>6. StartCalm(z)
  BY <1>3, <1>5 DEF StartCalm, Posted
<1>7. ASSUME NEW k \in Jobs
      PROVE  StartStands(z, k, entry[k], Mine(k), store[k], run[k])
  <2>1. /\ StartStands(x, k, entry[k], Mine(k), store[k], run[k])
        /\ WorldStands(k, store[k], run[k], ran[k])
    BY DEF RunsInv, JobInv
  <2>2. /\ store[k].state \in {"absent", "queued", "running"} \/ Over(store[k])
    BY StoredStates
  <2>3. k \in Unfinished(s) <=> StoreOf[k] = s /\ store[k].state \in {"queued", "running"}
    BY DEF Unfinished
  <2>4. /\ Ahead(z, k) => Ahead(x, k)
        /\ Pending(z, k) <=> Ahead(z, k)
        /\ Pending(x, k) <=> Ahead(x, k)
        /\ ~Posting(z, k) /\ ~Posted(z) /\ ~Posted(x)
    BY <1>1, <1>2, <1>3, <1>4, <2>3 DEF Ahead, Pending, Posting, Posted
  <2>5. ~Ahead(z, k) /\ Ahead(x, k) => store[k].state = "absent" \/ Over(store[k])
    BY <1>2, <1>3, <1>4, <1>5, <2>2, <2>3 DEF Ahead
  <2>6. Ahead(x, k) => entry[k] = NoEntry /\ Mine(k) = {}
    BY <2>1, <2>4 DEF StartStands
  <2>7. Pending(z, k) => entry[k] = NoEntry /\ Mine(k) = {}
    BY <2>4, <2>6
  <2>8. /\ Ahead(x, k) => Over(store[k]) \/ PresenceStands(x.runs[k], store[k], run[k])
        /\ ~Ahead(x, k) => (x.runs[k].run # "none" => Over(store[k]) /\ entry[k] = NoEntry /\ Mine(k) = {})
        /\ store[k].state = "absent" => x.runs[k].run = "none"
    BY <1>1, <2>1, <2>4 DEF StartStands
  <2>9. /\ Ahead(z, k) => Over(store[k]) \/ PresenceStands(z.runs[k], store[k], run[k])
        /\ ~Ahead(z, k) => (z.runs[k].run # "none" => Over(store[k]) /\ entry[k] = NoEntry /\ Mine(k) = {})
        /\ store[k].state = "absent" => z.runs[k].run = "none"
    BY <1>3, <2>4, <2>5, <2>6, <2>8
  <2>10. k \in DOMAIN z.seen => z.seen[k] = store[k] /\ store[k].state \in {"queued", "running"} /\ StoreOf[k] \notin z.todo
    BY <1>3, <1>4, <2>3
  <2>11. ~Pending(z, k) /\ entry[k].phase = "none" /\ ~Over(store[k]) => store[k].state \in {"absent", "queued"} /\ run[k] = NoRun
    <3>1. CASE Pending(x, k)
      BY <2>1, <2>4, <2>5, <3>1 DEF WorldStands
    <3>2. CASE ~Pending(x, k)
      BY <2>1, <3>2 DEF StartStands
    <3> QED
      BY <3>1, <3>2
  <2> QED
    BY <2>4, <2>7, <2>9, <2>10, <2>11 DEF StartStands
<1> QED
  BY <1>1, <1>2, <1>6, <1>7, StartTurns DEF z

\* The reader goes on to another job, or to another store.
LEMMA StartOnward ==
    ASSUME NEW x, NEW y, x.at \in {"list", "jobs", "post"}, ~Posted(x), y.at \in {"list", "jobs"},
           y.todo = x.todo, y.seen = x.seen, y.runs = x.runs,
           NEW k, NEW c, NEW E, NEW job, NEW r, StartStands(x, k, c, E, job, r), ~Posting(x, k)
    PROVE  StartStands(y, k, c, E, job, r)
<1>1. /\ Ahead(y, k) <=> Ahead(x, k)
      /\ Pending(y, k) <=> Ahead(y, k)
      /\ Pending(x, k) <=> Ahead(x, k)
      /\ ~Posting(y, k) /\ ~Posted(y) /\ y.at # "runs" /\ x.at # "runs"
  BY DEF Pending, Ahead, Posting, Posted
<1> QED
  BY <1>1 DEF StartStands

\* It tells the machine of a job.
TellsTrue(x, y, j, c, E, job, r) ==
    /\ StoreOf[j] \notin x.todo /\ c = NoEntry /\ E = {}
    /\ IF Over(job) THEN y.ev.f = NoSuchJob
       ELSE y.ev.f = jobIn(job) /\ job.state # "absent" /\ PresenceStands(y.ev.p, job, r)

Tells(x, y, j) ==
    /\ x.at \in {"list", "jobs"} /\ y.at = "post" /\ y.job = j /\ y.ev.type = "Recovered" /\ y.todo = x.todo
    /\ DOMAIN y.seen = DOMAIN x.seen \ {j} /\ \A i \in DOMAIN y.seen : y.seen[i] = x.seen[i]
    /\ y.runs[j].run = "none"

LEMMA StartTells ==
    ASSUME NEW x, NEW y, NEW j, Tells(x, y, j), NEW k, k # j => y.runs[k] = x.runs[k],
           NEW c, NEW E, NEW job, NEW r, StartStands(x, k, c, E, job, r),
           k = j => TellsTrue(x, y, j, c, E, job, r)
    PROVE  StartStands(y, k, c, E, job, r)
<1>1. y.at # "runs" /\ x.at # "runs" /\ ~Posted(x) /\ ~Posted(y)
  BY DEF Posted, Tells
<1>2. CASE k = j
  <2>1. ~Ahead(y, k) /\ Pending(y, k) /\ k \notin DOMAIN y.seen
    BY <1>2 DEF Ahead, Pending, Posting, Tells, TellsTrue
  <2> QED
    BY <1>1, <1>2, <2>1 DEF StartStands, TellsTrue, Tells
<1>3. CASE k # j
  <2>1. /\ Ahead(y, k) <=> Ahead(x, k)
        /\ Pending(y, k) <=> Ahead(y, k)
        /\ Pending(x, k) <=> Ahead(x, k)
        /\ ~Posting(y, k) /\ y.runs[k] = x.runs[k] /\ y.todo = x.todo
        /\ k \in DOMAIN y.seen => k \in DOMAIN x.seen /\ y.seen[k] = x.seen[k]
    BY <1>3 DEF Pending, Ahead, Posting, Tells
  <2> QED
    BY <1>1, <2>1 DEF StartStands
<1> QED
  BY <1>2, <1>3

LEMMA RecoveredIs ==
    ASSUME NEW f, NEW p
    PROVE  RecoveredEvent(f, p).type = "Recovered" /\ RecoveredEvent(f, p).f = f /\ RecoveredEvent(f, p).p = p
  BY DEF RecoveredEvent

LEMMA StartJobStays ==
    ASSUME RunsInv, Shaped, HandlersFit, StartJob
    PROVE  RunsInv'
<1> DEFINE x == reader["start"]
           j == firstOf(DOMAIN x.seen)
           y == [x EXCEPT !.at = "list"]
           ev == RecoveredEvent(jobIn(x.seen[j]), x.runs[j])
           z == [x EXCEPT !.at = "post", !.job = j, !.seen = minus(@, j), !.ev = ev,
                          !.runs = [@ EXCEPT ![j] = found("none")]]
<1>1. x.at = "jobs" /\ Reading /\ IF DOMAIN x.seen = {} THEN SetReader("start", y) ELSE SetReader("start", z)
  BY DEF StartJob
<1>2. StartCalm(x) /\ x.at # "done"
  BY <1>1, StartingCalm
<1>3. \A k \in Jobs : StartStands(x, k, entry[k], Mine(k), store[k], run[k])
  BY DEF RunsInv, JobInv
<1>4. /\ DOMAIN x = {"at", "store", "again", "stale", "todo", "away", "runs", "seen", "job", "ev"}
      /\ DOMAIN x.seen \subseteq Jobs /\ x.runs \in [Jobs -> Presence]
  BY <1>1, ReadersAre, ReaderFields DEF ReaderOK
<1>5. CASE DOMAIN x.seen = {}
  <2>1. y.at = "list" /\ y.todo = x.todo /\ y.seen = x.seen /\ y.runs = x.runs /\ y.away = x.away /\ y.stale = x.stale
    BY <1>4
  <2>2. SetReader("start", y)
    BY <1>1, <1>5
  <2> HIDE DEF y
  <2>3. StartCalm(y)
    BY <1>2, <1>5, <2>1 DEF StartCalm, Posted
  <2>4. ASSUME NEW k \in Jobs
        PROVE  StartStands(y, k, entry[k], Mine(k), store[k], run[k])
    <3>1. ~Posted(x) /\ ~Posting(x, k)
      BY <1>1 DEF Posted, Posting
    <3> QED
      BY <1>1, <1>3, <2>1, <3>1, StartOnward, SMT
  <2> QED
    BY <1>1, <1>2, <2>2, <2>3, <2>4, StartTurns
<1>6. CASE DOMAIN x.seen # {}
  <2>1. j \in DOMAIN x.seen /\ j \in Jobs
    BY <1>4, <1>6 DEF HandlersFit
  <2>2. /\ z.at = "post" /\ z.job = j /\ z.ev = ev /\ z.todo = x.todo /\ z.seen = minus(x.seen, j)
        /\ z.away = x.away /\ z.stale = x.stale /\ z.runs = [x.runs EXCEPT ![j] = found("none")]
    BY <1>4
  <2>3. z.runs[j] = found("none") /\ \A k \in Jobs : k # j => z.runs[k] = x.runs[k]
    BY <1>4, <2>1, <2>2
  <2>4. SetReader("start", z)
    BY <1>1, <1>6
  <2>5. ev.type = "Recovered" /\ ev.f = jobIn(x.seen[j]) /\ ev.p = x.runs[j]
    BY RecoveredIs, SMT
  <2> HIDE DEF z, j, ev
  <2>6. StartCalm(z)
    BY <1>2, <2>2, <2>5 DEF StartCalm, Posted
  <2>7. ASSUME NEW k \in Jobs
        PROVE  StartStands(z, k, entry[k], Mine(k), store[k], run[k])
    <3>1. DOMAIN z.seen = DOMAIN x.seen \ {j} /\ \A i \in DOMAIN z.seen : z.seen[i] = x.seen[i]
      BY <2>2 DEF minus
    <3>2. z.runs[j].run = "none" /\ z.ev.type = "Recovered"
      BY <2>2, <2>3, <2>5, FoundIs, SMT
    <3>3. k = j => TellsTrue(x, z, j, entry[k], Mine(k), store[k], run[k])
      <4>1. SUFFICES ASSUME k = j
                     PROVE  /\ StoreOf[j] \notin x.todo /\ entry[j] = NoEntry /\ Mine(j) = {}
                            /\ ~Over(store[j])
                            /\ z.ev.f = jobIn(store[j]) /\ store[j].state # "absent" /\ PresenceStands(z.ev.p, store[j], run[j])
        BY DEF TellsTrue
      <4>2. StartStands(x, j, entry[j], Mine(j), store[j], run[j]) /\ Ahead(x, j) /\ Pending(x, j)
        BY <1>3, <2>1 DEF Ahead, Pending
      <4>3. x.seen[j] = store[j] /\ store[j].state \in {"queued", "running"} /\ StoreOf[j] \notin x.todo
        BY <2>1, <4>2 DEF StartStands
      <4>4. ~Over(store[j]) /\ store[j].state # "absent"
        BY <4>3 DEF Over, FinalStates
      <4>5. ~Posted(x) /\ x.at # "runs"
        BY <1>1 DEF Posted
      <4>6. PresenceStands(x.runs[j], store[j], run[j]) /\ entry[j] = NoEntry /\ Mine(j) = {}
        BY <4>2, <4>4, <4>5 DEF StartStands
      <4> QED
        BY <2>2, <2>5, <4>3, <4>4, <4>6
    <3>4. k # j => z.runs[k] = x.runs[k]
      BY <2>3
    <3>5. StartStands(x, k, entry[k], Mine(k), store[k], run[k]) /\ x.at \in {"list", "jobs"}
      BY <1>1, <1>3
    <3>6. Tells(x, z, j)
      BY <2>2, <3>1, <3>2, <3>5 DEF Tells
    <3> QED
      BY <3>3, <3>4, <3>5, <3>6, StartTells
  <2> QED
    BY <1>1, <1>2, <2>4, <2>6, <2>7, StartTurns
<1> QED
  BY <1>5, <1>6

LEMMA StartLeftoverStays ==
    ASSUME RunsInv, Shaped, HandlersFit, StartLeftover
    PROVE  RunsInv'
<1> DEFINE x == reader["start"]
           rest == {i \in Jobs : x.runs[i].run # "none"}
           j == firstOf(rest)
           y == [Idle EXCEPT !.at = "post", !.ev = Event("RecoveryDone")]
           ev == RecoveredEvent(IF StoreOf[j] \in x.away THEN StoreAway ELSE NoSuchJob, x.runs[j])
           z == [x EXCEPT !.at = "post", !.job = j, !.ev = ev, !.runs = [@ EXCEPT ![j] = found("none")]]
<1>1. /\ x.at = "list" /\ x.todo = {} /\ Reading
      /\ IF rest = {} THEN SetReader("start", y) ELSE SetReader("start", z)
  BY DEF StartLeftover
<1>2. StartCalm(x) /\ x.at # "done" /\ DOMAIN x.seen = {}
  BY <1>1, StartingCalm DEF StartCalm
<1>3. \A k \in Jobs : StartStands(x, k, entry[k], Mine(k), store[k], run[k])
  BY DEF RunsInv, JobInv
<1>4. /\ DOMAIN x = {"at", "store", "again", "stale", "todo", "away", "runs", "seen", "job", "ev"}
      /\ x.runs \in [Jobs -> Presence]
  BY <1>1, ReadersAre, ReaderFields DEF ReaderOK
<1>5. \A k : ~Pending(x, k) /\ ~Ahead(x, k)
  BY <1>1, <1>2 DEF Pending, Ahead, Posting
<1>6. CASE rest = {}
  <2>1. /\ y.at = "post" /\ y.todo = {} /\ DOMAIN y.seen = {} /\ y.away = {} /\ y.stale = FALSE
        /\ y.ev.type = "RecoveryDone"
    BY IdleIs DEF Event
  <2>2. SetReader("start", y)
    BY <1>1, <1>6
  <2> HIDE DEF y
  <2>3. StartCalm(y)
    BY <2>1 DEF StartCalm
  <2>4. ASSUME NEW k \in Jobs
        PROVE  StartStands(y, k, entry[k], Mine(k), store[k], run[k])
    <3>1. ~Pending(y, k) /\ ~Posting(y, k) /\ Posted(y) /\ k \notin DOMAIN y.seen
      BY <2>1 DEF Pending, Ahead, Posting, Posted
    <3>2. entry[k].phase = "none" /\ ~Over(store[k]) => store[k].state \in {"absent", "queued"} /\ run[k] = NoRun
      BY <1>3, <1>5 DEF StartStands
    <3> QED
      BY <3>1, <3>2 DEF StartStands
  <2> QED
    BY <1>1, <1>2, <2>2, <2>3, <2>4, StartTurns
<1>7. CASE rest # {}
  <2>1. j \in rest
    BY <1>7 DEF HandlersFit
  <2>2. j \in Jobs /\ x.runs[j].run # "none"
    BY <2>1
  <2>3. /\ z.at = "post" /\ z.job = j /\ z.ev = ev /\ z.todo = x.todo /\ z.seen = x.seen
        /\ z.away = x.away /\ z.stale = x.stale /\ z.runs = [x.runs EXCEPT ![j] = found("none")]
    BY <1>4
  <2>4. z.runs[j] = found("none") /\ \A k \in Jobs : k # j => z.runs[k] = x.runs[k]
    BY <1>4, <2>2, <2>3
  <2>5. SetReader("start", z)
    BY <1>1, <1>7
  <2>6. ev.type = "Recovered" /\ ev.f = NoSuchJob
    BY <1>2, RecoveredIs, SMT DEF StartCalm
  <2> HIDE DEF z, j, ev, rest
  <2>7. StartCalm(z)
    BY <1>2, <2>3, <2>6 DEF StartCalm, Posted
  <2>8. ASSUME NEW k \in Jobs
        PROVE  StartStands(z, k, entry[k], Mine(k), store[k], run[k])
    <3>1. DOMAIN z.seen = DOMAIN x.seen \ {j} /\ \A i \in DOMAIN z.seen : z.seen[i] = x.seen[i]
      BY <1>2, <2>3
    <3>2. z.runs[j].run = "none" /\ z.ev.type = "Recovered"
      BY <2>3, <2>4, <2>6, FoundIs, SMT
    <3>3. k = j => TellsTrue(x, z, j, entry[k], Mine(k), store[k], run[k])
      <4>1. ~Posted(x) /\ x.at # "runs"
        BY <1>1 DEF Posted
      <4>2. Over(store[j]) /\ entry[j] = NoEntry /\ Mine(j) = {}
        BY <1>3, <1>5, <2>2, <4>1 DEF StartStands
      <4> QED
        BY <1>1, <2>3, <2>6, <4>2 DEF TellsTrue
    <3>4. k # j => z.runs[k] = x.runs[k]
      BY <2>4
    <3>5. StartStands(x, k, entry[k], Mine(k), store[k], run[k]) /\ x.at \in {"list", "jobs"}
      BY <1>1, <1>3
    <3>6. Tells(x, z, j)
      BY <2>3, <3>1, <3>2, <3>5 DEF Tells
    <3> QED
      BY <3>3, <3>4, <3>5, <3>6, StartTells
  <2> QED
    BY <1>1, <1>2, <2>5, <2>7, <2>8, StartTurns
<1> QED
  BY <1>6, <1>7

\* A step of the machine that is about no one job.
LEMMA AloneKept ==
    ASSUME RunsInv, Shaped, entry' = schedule(entry, recovering', unread'),
           AfterStep(0, FALSE, FALSE, {}, scheduleRequests(entry, entry'))
    PROVE  (\A k \in Jobs : Kept(k) /\ Untouched(k)) /\ (\A e \in effects' : Speaks(e))
<1>1. AllGood(entry)
  BY DEF Shaped
<1>2. AfterStep(0, FALSE, FALSE, {}, {} \cup scheduleRequests(entry, entry'))
  <2>1. {} \cup scheduleRequests(entry, entry') = scheduleRequests(entry, entry')
    OBVIOUS
  <2> QED
    BY <2>1
<1>3. /\ \E hs : \A k \in Jobs : SteppedTo(k, entry[k], {}, {}, hs)
      /\ \A e \in effects' : e \in effects \/ Speaks(e)
  BY <1>1, <1>2, SteppedShape
<1>4. PICK hs : \A k \in Jobs : SteppedTo(k, entry[k], {}, {}, hs)
  BY <1>3
<1>5. ASSUME NEW k \in Jobs
      PROVE  Kept(k) /\ Untouched(k)
  <2>1. {q \in {} : q.job = k} = {}
    OBVIOUS
  <2>2. NewAbout(k, {}, hs) = {}
    BY <2>1, NewOf DEF NewAbout
  <2>3. Mine(k) \ {} = Mine(k)
    OBVIOUS
  <2> QED
    BY <1>1, <1>4, <2>2, <2>3, OthersKept
<1> QED
  BY <1>3, <1>5 DEF RunsInv

LEMMA FindingsAre ==
    ASSUME NEW job
    PROVE  /\ jobIn(job).job = job.state /\ jobIn(job).givenUp = FALSE
           /\ NoSuchJob.job = "no such job" /\ NoSuchJob.givenUp = FALSE /\ NoSuchJob.job \notin {"queued", "running"}
           /\ StoreAway.job = "away" /\ StoreAway.givenUp = FALSE
  BY DEF jobIn, NoSuchJob, StoreAway

\* The machine hears at the start of a job that it does not hold.
LEMMA TellHandled ==
    ASSUME RunsInv, Shaped, NEW j \in Jobs, Posting(reader["start"], j), JobMessage(reader["start"].ev)
    PROVE  /\ Handled(j, reader["start"].ev, {})
           /\ ~Over(store[j]) => Handler(j, entry[j], reader["start"].ev).e.phase # "none"
<1> DEFINE x == reader["start"]
           ev == x.ev
           f == ev.f
           p == ev.p
           job == store[j]
           r == run[j]
<1>1. /\ JobStands(j, entry[j], Mine(j), job, r)
      /\ StartStands(x, j, entry[j], Mine(j), job, r)
  BY DEF RunsInv, JobInv
<1>2. entry[j] = NoEntry /\ Mine(j) = {}
  BY <1>1 DEF StartStands, Pending
<1>3. IF Over(job) THEN f = NoSuchJob ELSE f = jobIn(job) /\ job.state # "absent" /\ PresenceStands(p, job, r)
  BY <1>1 DEF StartStands
<1>4. ev.type = "Recovered" /\ f \in Finding /\ p \in Presence
  BY RecoveredMessages DEF Posting
<1>5. job.state \in {"absent", "queued", "running"} \/ Over(job)
  BY StoredStates
<1>6. Good(NoEntry) /\ NoEntry \in Entry /\ NoEntry.phase = "none"
  BY <1>2, StoredStates DEF NoEntry
<1>7. Handler(j, NoEntry, ev) = OnRecovered(j, NoEntry, f, p)
  BY <1>4 DEF Handler
<1>8. ({} \ {}) = {}
  OBVIOUS
<1> HIDE DEF x, job, r
<1>9. CASE Over(job)
  <2>1. ~Adopting(ev)
    BY <1>3, <1>4, <1>9, FindingsAre DEF Adopting
  <2>2. OverStands(NoEntry, {}, r)
    BY <1>1, <1>2, <1>9 DEF JobStands
  <2>3. ASSUME NEW hs
        PROVE  JobStands(j, Handler(j, NoEntry, ev).e, {} \cup New(Handler(j, NoEntry, ev).r, hs), job, r)
    <3>1. OverStands(Handler(j, NoEntry, ev).e, {} \cup New(Handler(j, NoEntry, ev).r, hs), r)
      BY <1>4, <1>6, <2>1, <2>2, OverHandled
    <3> QED
      BY <1>9, <3>1 DEF JobStands
  <2> QED
    BY <1>2, <1>8, <1>9, <2>3 DEF Handled, job, r, x
<1>10. CASE ~Over(job)
  <2>1. job.state \in {"queued", "running"} /\ f.job = job.state /\ f.givenUp = FALSE
    BY <1>3, <1>5, <1>10, FindingsAre
  <2>2. OpenStands(j, NoEntry, Sides({}), Mains({}), job, r)
    BY <1>1, <1>2, <1>10 DEF JobStands
  <2>3. FindingStands(f, p, job, r)
    BY <1>3, <1>10, <2>1 DEF FindingStands
  <2>4. ~Leaving(NoEntry, ev)
    BY <1>4, <1>6, <2>1 DEF Leaving, JobEvents, FinalStates
  <2>5. ASSUME NEW hs
        PROVE  JobStands(j, Handler(j, NoEntry, ev).e, {} \cup New(Handler(j, NoEntry, ev).r, hs), job, r)
    <3>1. OpenAfter(j, OnRecovered(j, NoEntry, f, p), Sides({}), Mains({}), hs, job, r)
      BY <1>4, <1>6, <2>1, <2>2, <2>3, RecoveredStands, SMT
    <3> QED
      BY <1>7, <1>10, <3>1, OpenHandled
  <2>6. Handler(j, NoEntry, ev).e.phase # "none"
    <3> DEFINE w == [phase |-> "queued", parked |-> FALSE]
    <3>1. w.phase # "none"
      OBVIOUS
    <3> HIDE DEF w
    <3>2. Mild(w, recoverQueuedAfresh(j, NoEntry, f, p), TRUE, FALSE) /\ Mild(w, recoverRunning(j, NoEntry, f, p), TRUE, FALSE)
      BY <1>4, <1>6, MildLooks
    <3>3. \/ f.job = "queued" /\ OnRecovered(j, NoEntry, f, p) = recoverQueuedAfresh(j, NoEntry, f, p)
          \/ f.job = "running" /\ OnRecovered(j, NoEntry, f, p) = recoverRunning(j, NoEntry, f, p)
      <4>1. f.job \in {"queued", "running"}
        BY <2>1
      <4> HIDE DEF f, p, ev
      <4>2. f.job = "queued" => OnRecovered(j, NoEntry, f, p) = recoverQueuedAfresh(j, NoEntry, f, p)
        BY <1>6 DEF OnRecovered, FinalStates
      <4>3. f.job = "running" => OnRecovered(j, NoEntry, f, p) = recoverRunning(j, NoEntry, f, p)
        BY <1>6 DEF OnRecovered, FinalStates
      <4> QED
        BY <4>1, <4>2, <4>3
    <3>4. Mild(w, Handler(j, NoEntry, ev), TRUE, FALSE)
      BY <1>7, <3>2, <3>3
    <3> QED
      BY <3>1, <3>4 DEF Mild
  <2> QED
    BY <1>2, <1>8, <2>4, <2>5, <2>6 DEF Handled, job, r, x
<1> QED
  BY <1>9, <1>10

LEMMA StartTellsStays ==
    ASSUME RunsInv, Shaped, HandlersFit, ReaderTaken("start"), reader["start"].ev.type = "Recovered"
    PROVE  RunsInv'
<1> DEFINE x == reader["start"]
           y == [x EXCEPT !.at = "jobs", !.ev = NoEvent, !.job = 0]
           j == x.job
           ev == x.ev
<1>1. /\ x.at = "post" /\ UNCHANGED caller
      /\ SetReader("start", y) /\ Deliver(j, ev, FALSE, {})
  BY DEF ReaderTaken, afterPost
<1>2. /\ y.at = "jobs" /\ y.todo = x.todo /\ y.seen = x.seen /\ y.runs = x.runs /\ y.away = x.away /\ y.stale = x.stale
      /\ j \in Jobs /\ JobMessage(ev)
  BY <1>1, ReadersAre, ReaderFields DEF ReaderOK, ReaderMessage
<1> HIDE DEF y
<1>3. Posting(x, j) /\ ~Posted(x) /\ x.at # "done" /\ x.at # "runs"
  BY <1>1 DEF Posting, Posted
<1>4. StartCalm(x) /\ Calm
  BY <1>3, StartingCalm DEF RunsInv
<1>5. /\ Handled(j, ev, {})
      /\ ~Over(store[j]) => Handler(j, entry[j], ev).e.phase # "none"
  BY <1>2, <1>3, TellHandled
<1>6. {} \subseteq Mine(j)
  OBVIOUS
<1> HIDE DEF ev, j
<1>7. /\ \A k \in Jobs : Kept(k) /\ (k # j => Untouched(k))
      /\ \A d \in effects' : Speaks(d)
      /\ entry'[j].phase = "none" => Handler(j, entry[j], ev).e.phase = "none"
      /\ UNCHANGED <<world, recovering, unread>>
  <2>1. j \in Jobs /\ JobMessage(ev) /\ Deliver(j, ev, FALSE, {}) /\ Handled(j, ev, {})
    BY <1>1, <1>2, <1>5
  <2>2. /\ \A k \in Jobs : Kept(k) /\ (k # j => Untouched(k))
        /\ \A d \in effects' : Speaks(d)
        /\ UNCHANGED <<world, recovering, unread>>
    BY <2>1, HandledKept
  <2>3. entry'[j].phase = "none" => Handler(j, entry[j], ev).e.phase = "none"
    BY <2>1, HandledKept
  <2> QED
    BY <2>2, <2>3
<1> USE DEF ev, j
<1>8. reader'["start"] = y /\ reader'["sweep"] = reader["sweep"] /\ reader'["submit"] = reader["submit"]
  BY <1>1, ReadersAre, SetReaderIs
<1>9. \A k \in Jobs : /\ StartStands(x, k, entry[k], Mine(k), store[k], run[k])
                      /\ SweepStands(reader["sweep"], k, entry[k], store[k])
                      /\ CallersStand(reader["submit"], k, caller[k], store[k])
  BY DEF RunsInv, JobInv
<1>10. ASSUME NEW k \in Jobs
       PROVE  StartStands(y, k, entry'[k], Mine(k)', store[k], run[k])
  <2>1. CASE k # j
    <3>1. StartStands(x, k, entry'[k], Mine(k)', store[k], run[k])
      BY <1>7, <1>9, <2>1, KeptForStart
    <3>2. ~Posting(x, k)
      BY <2>1 DEF Posting
    <3>3. x.at \in {"list", "jobs", "post"} /\ y.at \in {"list", "jobs"}
      BY <1>1, <1>2
    <3> QED
      BY <1>2, <1>3, <3>1, <3>2, <3>3, StartOnward, SMT
  <2>2. CASE k = j
    <3>1. StartStands(x, j, entry[j], Mine(j), store[j], run[j])
      BY <1>2, <1>9
    <3>2. ~Ahead(x, j) /\ x.runs[j].run = "none"
      BY <1>3, <3>1 DEF StartStands
    <3>3. ~Ahead(y, j) /\ ~Posting(y, j) /\ ~Pending(y, j) /\ j \notin DOMAIN y.seen /\ y.runs[j].run = "none"
      BY <1>2, <3>2 DEF Ahead, Posting, Pending
    <3>4. entry'[j].phase = "none" => Over(store[j])
      BY <1>5, <1>7
    <3> QED
      BY <2>2, <3>3, <3>4 DEF StartStands
  <2> QED
    BY <2>1, <2>2
<1>11. ASSUME NEW k \in Jobs
       PROVE  /\ SweepStands(reader'["sweep"], k, entry'[k], store[k])
              /\ CallersStand(reader'["submit"], k, caller'[k], store[k])
  BY <1>1, <1>7, <1>8, <1>9, KeptForSweep
<1>12. Calm'
  <2>1. StartCalm(y) /\ y.at # "done"
    BY <1>2, <1>4 DEF StartCalm, Posted
  <2> QED
    BY <1>1, <1>3, <1>4, <1>7, <1>8, <2>1 DEF Calm, StartCalm, world
<1>13. \A k \in Jobs : StartStands(reader'["start"], k, entry'[k], Mine(k)', store[k], run[k])
  BY <1>8, <1>10
<1>14. \A k \in Jobs : Kept(k)
  BY <1>7
<1> QED
  BY <1>7, <1>11, <1>12, <1>13, <1>14, MachineStepStays

LEMMA StartedStays ==
    ASSUME RunsInv, Shaped, ReaderTaken("start"), reader["start"].ev.type = "RecoveryDone"
    PROVE  RunsInv'
<1> DEFINE x == reader["start"]
           y == [Idle EXCEPT !.at = "done"]
<1>1. x.at = "post" /\ UNCHANGED caller /\ SetReader("start", y) /\ StepAlone(RecoveryDone)
  BY DEF ReaderTaken, afterPost
<1>2. y.at = "done" /\ y.todo = {} /\ DOMAIN y.seen = {} /\ y.away = {}
  BY IdleIs
<1> HIDE DEF y
<1>3. /\ entry' = schedule(entry, recovering', unread') /\ recovering' = FALSE /\ unread' = unread
      /\ AfterStep(0, FALSE, FALSE, {}, scheduleRequests(entry, entry')) /\ UNCHANGED world
  BY <1>1 DEF StepAlone, RecoveryDone, Step
<1>4. (\A k \in Jobs : Kept(k)) /\ (\A e \in effects' : Speaks(e))
  BY <1>3, AloneKept
<1>5. Calm /\ Posted(x) /\ x.at # "done"
  BY <1>1 DEF RunsInv, Posted
<1>6. reader'["start"] = y /\ reader'["sweep"] = reader["sweep"] /\ reader'["submit"] = reader["submit"]
  BY <1>1, ReadersAre, SetReaderIs
<1>7. \A k \in Jobs : /\ StartStands(x, k, entry[k], Mine(k), store[k], run[k])
                      /\ SweepStands(reader["sweep"], k, entry[k], store[k])
                      /\ CallersStand(reader["submit"], k, caller[k], store[k])
  BY DEF RunsInv, JobInv
<1>8. ASSUME NEW k \in Jobs
      PROVE  StartStands(y, k, entry'[k], Mine(k)', store[k], run[k])
  <2>1. ~Pending(x, k)
    BY <1>1, <1>5 DEF Calm, Pending, Ahead, Posting, Posted
  <2>2. ~Pending(y, k) /\ Posted(y) /\ ~Posting(y, k) /\ k \notin DOMAIN y.seen
    BY <1>2 DEF Pending, Ahead, Posting, Posted
  <2>3. ~Over(store[k]) /\ entry'[k].phase = "none" => entry[k].phase = "none"
    BY <1>4 DEF Kept
  <2> QED
    BY <1>7, <2>1, <2>2, <2>3 DEF StartStands
<1>9. ASSUME NEW k \in Jobs
      PROVE  /\ SweepStands(reader'["sweep"], k, entry'[k], store[k])
             /\ CallersStand(reader'["submit"], k, caller'[k], store[k])
  BY <1>1, <1>4, <1>6, <1>7, KeptForSweep
<1>10. Calm'
  BY <1>1, <1>2, <1>3, <1>5, <1>6 DEF Calm, Posted, world
<1> QED
  BY <1>3, <1>4, <1>6, <1>8, <1>9, <1>10, MachineStepStays

LEMMA StartReaderStays ==
    ASSUME RunsInv, Shaped, HandlersFit, ReaderStep("start")
    PROVE  RunsInv'
<1>1. ~ReadList("start") /\ ~ReadJob("start")
  BY DEF ReadList, ReadJob
<1>2. reader["start"].at # "post" \/ (reader["start"].ev.type \in {"Recovered", "RecoveryDone"} /\ ~reader["start"].stale)
  BY DEF RunsInv, Calm
<1>3. ReaderTaken("start") /\ reader["start"].ev.type \in {"Recovered", "RecoveryDone"}
  BY <1>1, <1>2 DEF ReaderStep, ReaderDropped, ReaderTaken
<1> QED
  BY <1>3, StartTellsStays, StartedStays

-----------------------------------------------------------------------------
(* The sweep. *)

SweepCalm(y) ==
    /\ y.at \in {"idle", "list", "held", "jobs", "find", "post"}
    /\ y.at = "post" => y.ev.type \in {"Admitted", "Recovered", "StoreRead"}
    /\ ~y.again

\* All that a step of the sweep leaves to show, and one with which the machine steps.
LEMMA SweepTurns ==
    ASSUME RunsInv, Shaped, Reading, NEW y, SetReader("sweep", y), reader["start"].at = "done", SweepCalm(y),
           \A k \in Jobs : SweepStands(y, k, entry[k], store[k])
    PROVE  RunsInv'
<1>1. reader'["sweep"] = y /\ reader'["start"] = reader["start"] /\ reader'["submit"] = reader["submit"]
  BY ReadersAre, SetReaderIs
<1>2. Calm
  BY DEF RunsInv
<1>3. Calm'
  BY <1>1, <1>2 DEF Calm, SweepCalm, Reading, world
<1>4. ASSUME NEW k \in Jobs
      PROVE  JobInv(k)'
  <2>1. JobInv(k)
    BY DEF RunsInv
  <2> QED
    BY <1>1, <2>1 DEF JobInv, Mine, Reading, world
<1> QED
  BY <1>3, <1>4 DEF RunsInv, Reading

LEMMA SweepMoves ==
    ASSUME RunsInv, Shaped, UNCHANGED <<world, recovering, unread, caller>>, \A k \in Jobs : Kept(k),
           \A e \in effects' : Speaks(e), NEW y, reader'["sweep"] = y, SweepCalm(y),
           SameReader(reader["start"], reader'["start"]), SameReader(reader["submit"], reader'["submit"]),
           reader["start"].at = "done",
           \A k \in Jobs : SweepStands(y, k, entry'[k], store[k])
    PROVE  RunsInv'
<1>1. Calm
  BY DEF RunsInv
<1>2. (\A k : ~Pending(reader["start"], k)) /\ Posted(reader["start"])
  BY <1>1, NobodyPending
<1>3. \A k \in Jobs : /\ StartStands(reader["start"], k, entry[k], Mine(k), store[k], run[k])
                      /\ CallersStand(reader["submit"], k, caller[k], store[k])
  BY DEF RunsInv, JobInv
<1>4. ASSUME NEW k \in Jobs
      PROVE  /\ StartStands(reader'["start"], k, entry'[k], Mine(k)', store[k], run[k])
             /\ CallersStand(reader'["submit"], k, caller'[k], store[k])
  <2>1. StartStands(reader["start"], k, entry'[k], Mine(k)', store[k], run[k])
    BY <1>2, <1>3, KeptForStart
  <2>2. CallersStand(reader'["submit"], k, caller'[k], store[k])
    BY <1>3 DEF CallersStand, SameReader
  <2> QED
    BY <2>1, <2>2, SameReaderStands
<1>5. Calm'
  <2>1. Posted(reader'["start"]) <=> Posted(reader["start"])
    BY DEF SameReader, Posted
  <2> QED
    BY <1>1, <2>1 DEF Calm, world, SameReader, SweepCalm
<1> QED
  BY <1>4, <1>5, MachineStepStays

LEMMA SweepServes ==
    ASSUME RunsInv, reader["sweep"].at # "idle"
    PROVE  reader["start"].at = "done" /\ SweepCalm(reader["sweep"])
  BY DEF RunsInv, Calm, SweepCalm

LEMMA SweepFields ==
    ASSUME Shaped
    PROVE  LET x == reader["sweep"]
           IN  /\ DOMAIN x = {"at", "store", "again", "stale", "todo", "away", "runs", "seen", "job", "ev"}
               /\ DOMAIN x.seen \subseteq Jobs
               /\ x.at = "post" => ReaderMessage("sweep", x)
               /\ x.at = "find" => x.job \in Jobs
<1>1. ReaderOK("sweep", reader["sweep"])
  BY ReadersAre, ReaderFields
<1> QED
  BY <1>1 DEF ReaderOK

LEMMA SweepBeginStays ==
    ASSUME RunsInv, Shaped, SweepBegin
    PROVE  RunsInv'
<1> DEFINE y(s) == [Idle EXCEPT !.at = "list", !.store = s, !.again = (s \in unread)]
<1>1. Reading /\ reader["start"].at = "done" /\ \E s \in Stores : SetReader("sweep", y(s))
  BY DEF SweepBegin
<1>2. PICK s \in Stores : SetReader("sweep", y(s))
  BY <1>1
<1> DEFINE z == y(s)
<1>3. z.at = "list" /\ z.again = (s \in unread) /\ DOMAIN z.seen = {}
  BY IdleIs
<1>4. unread = {}
  BY DEF RunsInv, Calm
<1> HIDE DEF z, y
<1>5. SweepCalm(z)
  BY <1>3, <1>4 DEF SweepCalm
<1>6. \A k \in Jobs : SweepStands(z, k, entry[k], store[k])
  BY <1>3 DEF SweepStands
<1> QED
  BY <1>1, <1>2, <1>5, <1>6, SweepTurns DEF z

LEMMA SweepListStays ==
    ASSUME RunsInv, Shaped, "unlisted" \notin Troubles, ReadList("sweep")
    PROVE  RunsInv'
<1> DEFINE x == reader["sweep"]
           y(stale) == [x EXCEPT !.at = "held", !.stale = stale, !.seen = [j \in Unfinished(x.store) |-> store[j]]]
<1>1. x.at = "list" /\ ~x.again
  BY DEF ReadList, RunsInv, Calm
<1>2. Reading /\ \E stale : SetReader("sweep", y(stale))
  BY <1>1 DEF ReadList, Unlisted, Trouble
<1>3. PICK stale : SetReader("sweep", y(stale))
  BY <1>2
<1> DEFINE z == y(stale)
<1>4. z.at = "held" /\ z.again = x.again /\ z.seen = [j \in Unfinished(x.store) |-> store[j]]
  BY SweepFields
<1>5. DOMAIN z.seen = Unfinished(x.store) /\ \A k \in Unfinished(x.store) : z.seen[k] = store[k]
  BY <1>4
<1> HIDE DEF z, y
<1>6. reader["start"].at = "done" /\ SweepCalm(x)
  BY <1>1, SweepServes
<1>7. SweepCalm(z)
  BY <1>1, <1>4 DEF SweepCalm
<1>8. ASSUME NEW k \in Jobs
      PROVE  SweepStands(z, k, entry[k], store[k])
  <2>1. k \in DOMAIN z.seen => z.seen[k] = store[k] /\ store[k].state \in {"queued", "running"}
    BY <1>5 DEF Unfinished
  <2>2. ~Pending(reader["start"], k)
    BY <1>6, NobodyPending DEF RunsInv
  <2>3. store[k].state = "running" => Over(store[k]) \/ entry[k].phase # "none"
    BY <2>2 DEF RunsInv, JobInv, StartStands
  <2> QED
    BY <1>4, <2>1, <2>3 DEF SweepStands
<1> QED
  BY <1>2, <1>3, <1>6, <1>7, <1>8, SweepTurns DEF z

LEMMA SweepHeldStays ==
    ASSUME RunsInv, Shaped, SweepHeld
    PROVE  RunsInv'
<1> DEFINE x == reader["sweep"]
           news == {j \in DOMAIN x.seen : x.seen[j].state = "queued" \/ entry[j].phase = "none"}
           y == [x EXCEPT !.at = "jobs", !.seen = [j \in news |-> x.seen[j]]]
<1>1. x.at = "held" /\ Reading /\ SetReader("sweep", y)
  BY DEF SweepHeld
<1>2. y.at = "jobs" /\ y.again = x.again /\ y.seen = [j \in news |-> x.seen[j]]
  BY SweepFields
<1>3. DOMAIN y.seen = news /\ \A k \in news : y.seen[k] = x.seen[k]
  BY <1>2
<1> HIDE DEF y
<1>4. reader["start"].at = "done" /\ SweepCalm(x)
  BY <1>1, SweepServes
<1>5. SweepCalm(y)
  BY <1>2, <1>4 DEF SweepCalm
<1>6. ASSUME NEW k \in Jobs
      PROVE  SweepStands(y, k, entry[k], store[k])
  <2>1. SweepStands(x, k, entry[k], store[k])
    BY DEF RunsInv, JobInv
  <2>2. k \in DOMAIN y.seen => k \in DOMAIN x.seen /\ y.seen[k] = x.seen[k] /\ (x.seen[k].state = "queued" \/ entry[k].phase = "none")
    BY <1>3
  <2> QED
    BY <1>2, <2>1, <2>2 DEF SweepStands
<1> QED
  BY <1>1, <1>4, <1>5, <1>6, SweepTurns

LEMMA SweepJobStays ==
    ASSUME RunsInv, Shaped, HandlersFit, ReadJob("sweep")
    PROVE  RunsInv'
<1> DEFINE x == reader["sweep"]
           j == firstOf(DOMAIN x.seen)
           next == [x EXCEPT !.at = "post", !.job = j, !.seen = minus(@, j)]
           u == [x EXCEPT !.at = "post", !.ev = Event("StoreRead")]
           v == [next EXCEPT !.ev = AdmittedEvent(x.seen[j])]
           w(p) == [next EXCEPT !.at = "find", !.ev = RecoveredEvent(jobIn(x.seen[j]), p)]
<1>1. x.at = "jobs" /\ ~x.again
  BY DEF ReadJob, RunsInv, Calm
<1>2. /\ Reading
      /\ IF DOMAIN x.seen = {} THEN SetReader("sweep", u)
         ELSE IF x.seen[j].state = "queued" THEN SetReader("sweep", v)
         ELSE \E p : SetReader("sweep", w(p))
  BY <1>1 DEF ReadJob
<1>3. reader["start"].at = "done" /\ SweepCalm(x)
  BY <1>1, SweepServes
<1>4. \A k \in Jobs : SweepStands(x, k, entry[k], store[k])
  BY DEF RunsInv, JobInv
<1>5. CASE DOMAIN x.seen = {}
  <2>1. u.at = "post" /\ u.again = x.again /\ u.seen = x.seen /\ u.ev.type = "StoreRead"
    BY SweepFields DEF Event
  <2>2. SetReader("sweep", u)
    BY <1>2, <1>5
  <2> HIDE DEF u
  <2>3. SweepCalm(u) /\ \A k \in Jobs : SweepStands(u, k, entry[k], store[k])
    BY <1>3, <1>5, <2>1 DEF SweepCalm, SweepStands
  <2> QED
    BY <1>2, <1>3, <2>2, <2>3, SweepTurns
<1>6. CASE DOMAIN x.seen # {}
  <2>1. j \in DOMAIN x.seen /\ j \in Jobs
    <3>1. DOMAIN x.seen \in SUBSET Jobs
      BY SweepFields
    <3> QED
      BY <1>6, <3>1 DEF HandlersFit
  <2>2. /\ next.at = "post" /\ next.job = j /\ next.seen = minus(x.seen, j) /\ next.again = x.again
        /\ DOMAIN next = {"at", "store", "again", "stale", "todo", "away", "runs", "seen", "job", "ev"}
    BY SweepFields
  <2>3. DOMAIN next.seen = DOMAIN x.seen \ {j} /\ \A k \in DOMAIN next.seen : next.seen[k] = x.seen[k]
    BY <2>2 DEF minus
  <2> HIDE DEF next, j
  <2>4. /\ store[j].state # "absent"
        /\ x.seen[j].state \in {"queued", "running"}
        /\ x.seen[j].state = "running" => Over(store[j])
    BY <1>1, <1>4, <2>1 DEF SweepStands
  <2>5. CASE x.seen[j].state = "queued"
    <3>1. v.at = "post" /\ v.job = j /\ v.seen = next.seen /\ v.again = x.again /\ v.ev.type = "Admitted"
      BY <2>2 DEF AdmittedEvent
    <3>2. SetReader("sweep", v)
      BY <1>2, <1>6, <2>5
    <3> HIDE DEF v
    <3>3. SweepCalm(v)
      BY <1>3, <3>1 DEF SweepCalm
    <3>4. ASSUME NEW k \in Jobs
          PROVE  SweepStands(v, k, entry[k], store[k])
      <4>1. SweepStands(x, k, entry[k], store[k])
        BY <1>4
      <4> QED
        BY <1>1, <2>3, <2>4, <3>1, <4>1 DEF SweepStands
    <3> QED
      BY <1>2, <1>3, <3>2, <3>3, <3>4, SweepTurns
  <2>6. CASE x.seen[j].state # "queued"
    <3>1. PICK p : SetReader("sweep", w(p))
      BY <1>2, <1>6, <2>6
    <3> DEFINE z == w(p)
    <3>2. z.at = "find" /\ z.job = j /\ z.seen = next.seen /\ z.again = x.again
      BY <2>2
    <3> HIDE DEF z, w
    <3>3. SweepCalm(z)
      BY <1>3, <3>2 DEF SweepCalm
    <3>4. ASSUME NEW k \in Jobs
          PROVE  SweepStands(z, k, entry[k], store[k])
      <4>1. SweepStands(x, k, entry[k], store[k])
        BY <1>4
      <4> QED
        BY <1>1, <2>3, <2>4, <2>6, <3>2, <4>1 DEF SweepStands
    <3> QED
      BY <1>2, <1>3, <3>1, <3>3, <3>4, SweepTurns DEF z
  <2> QED
    BY <2>5, <2>6
<1> QED
  BY <1>5, <1>6

LEMMA SweepFindStays ==
    ASSUME RunsInv, Shaped, SweepFind
    PROVE  RunsInv'
<1> DEFINE x == reader["sweep"]
           y(f) == [x EXCEPT !.at = "post", !.ev = RecoveredEvent(f, x.ev.p)]
<1>1. x.at = "find" /\ Reading /\ \E f \in {InStore(x.job), StoreAway} : SetReader("sweep", y(f))
  BY DEF SweepFind
<1>2. PICK f \in {InStore(x.job), StoreAway} : SetReader("sweep", y(f))
  BY <1>1
<1> DEFINE z == y(f)
<1>3. /\ z.at = "post" /\ z.again = x.again /\ z.seen = x.seen /\ z.job = x.job
      /\ z.ev = RecoveredEvent(f, x.ev.p)
  BY SweepFields
<1>4. z.ev.type = "Recovered" /\ z.ev.f = f
  BY <1>3, RecoveredIs, SMT
<1> HIDE DEF z, y
<1>5. reader["start"].at = "done" /\ SweepCalm(x)
  BY <1>1, SweepServes
<1>6. SweepCalm(z)
  BY <1>3, <1>4, <1>5 DEF SweepCalm
<1>7. ASSUME NEW k \in Jobs
      PROVE  SweepStands(z, k, entry[k], store[k])
  <2>1. SweepStands(x, k, entry[k], store[k])
    BY DEF RunsInv, JobInv
  <2>2. x.job = k => Over(store[k]) /\ f.job \notin {"queued", "running"}
    <3>1. x.job = k => Over(store[k])
      BY <1>1, <2>1 DEF SweepStands
    <3>2. InStore(k) \in {NoSuchJob, jobIn(store[k])}
      BY DEF InStore
    <3>3. Over(store[k]) => jobIn(store[k]).job \notin {"queued", "running"}
      BY FindingsAre DEF Over, FinalStates
    <3>4. NoSuchJob.job \notin {"queued", "running"} /\ StoreAway.job \notin {"queued", "running"}
      BY FindingsAre
    <3>5. f = StoreAway \/ f = InStore(x.job)
      BY <1>2
    <3> QED
      BY <3>1, <3>2, <3>3, <3>4, <3>5
  <2> QED
    BY <1>1, <1>3, <1>4, <2>1, <2>2 DEF SweepStands
<1> QED
  BY <1>1, <1>2, <1>5, <1>6, <1>7, SweepTurns DEF z

\* Where the sweep goes on after a message.
LEMMA SweepAfter ==
    ASSUME RunsInv, Shaped, reader["sweep"].at = "post", NEW y, y = afterPost("sweep", reader["sweep"])
    PROVE  /\ SweepCalm(y)
           /\ \A k \in Jobs : \A c : SweepStands(reader["sweep"], k, c, store[k]) => SweepStands(y, k, c, store[k])
<1> DEFINE x == reader["sweep"]
           z == [x EXCEPT !.at = "jobs", !.ev = NoEvent, !.job = 0]
<1>1. SweepCalm(x)
  BY SweepServes
<1>2. x.ev.type \in {"Admitted", "Recovered", "StoreRead"}
  BY <1>1 DEF SweepCalm
<1>3. x.ev.type = "StoreRead" => y = Idle
  BY DEF afterPost
<1>4. x.ev.type \in {"Admitted", "Recovered"} => y = z
  BY DEF afterPost
<1>5. z.at = "jobs" /\ z.again = x.again /\ z.seen = x.seen
  BY SweepFields
<1> HIDE DEF z
<1>6. CASE y = Idle
  BY <1>6, IdleIs DEF SweepCalm, SweepStands
<1>7. CASE y = z
  BY <1>1, <1>5, <1>7 DEF SweepCalm, SweepStands
<1> QED
  BY <1>2, <1>3, <1>4, <1>6, <1>7

LEMMA SweepDroppedStays ==
    ASSUME RunsInv, Shaped, ReaderDropped("sweep")
    PROVE  RunsInv'
<1> DEFINE y == afterPost("sweep", reader["sweep"])
<1>1. reader["sweep"].at = "post" /\ SetReader("sweep", y) /\ Reading
  BY DEF ReaderDropped
<1>2. reader["start"].at = "done"
  BY <1>1, SweepServes
<1>3. \A k \in Jobs : SweepStands(reader["sweep"], k, entry[k], store[k])
  BY DEF RunsInv, JobInv
<1>4. SweepCalm(y) /\ \A k \in Jobs : SweepStands(y, k, entry[k], store[k])
  BY <1>1, <1>3, SweepAfter
<1> HIDE DEF y
<1> QED
  BY <1>1, <1>2, <1>4, SweepTurns

\* A job that is over is looked at once more.
LEMMA SweepHandled ==
    ASSUME RunsInv, Shaped, NEW j \in Jobs, NEW ev, JobMessage(ev), ev.type = "Recovered",
           Over(store[j]), ev.f.job \notin {"queued", "running"}
    PROVE  Handled(j, ev, {})
<1>1. OverStands(entry[j], Mine(j), run[j])
  BY DEF RunsInv, JobInv, JobStands
<1>2. ev.f \in Finding /\ entry[j] \in Entry
  BY RecoveredMessages, StoredStates
<1>3. ~Adopting(ev)
  BY DEF Adopting
<1>4. Mine(j) \ {} = Mine(j) /\ Mine(j) \subseteq Mine(j)
  OBVIOUS
<1>5. ASSUME NEW hs
      PROVE  JobStands(j, Handler(j, entry[j], ev).e, Mine(j) \cup New(Handler(j, entry[j], ev).r, hs), store[j], run[j])
  <2>1. OverStands(Handler(j, entry[j], ev).e, Mine(j) \cup New(Handler(j, entry[j], ev).r, hs), run[j])
    BY <1>1, <1>2, <1>3, <1>4, OverHandled
  <2> QED
    BY <2>1 DEF JobStands
<1> QED
  BY <1>4, <1>5 DEF Handled

LEMMA SweepTakenStays ==
    ASSUME RunsInv, Shaped, HandlersFit, ReaderTaken("sweep")
    PROVE  RunsInv'
<1> DEFINE x == reader["sweep"]
           y == afterPost("sweep", x)
           j == x.job
           ev == x.ev
<1>1. x.at = "post" /\ UNCHANGED caller
  BY DEF ReaderTaken
<1>2. reader["start"].at = "done" /\ ev.type \in {"Admitted", "Recovered", "StoreRead"}
  BY <1>1, SweepServes DEF SweepCalm
<1>3. \A k \in Jobs : SweepStands(x, k, entry[k], store[k])
  BY DEF RunsInv, JobInv
<1>4. SweepCalm(y) /\ \A k \in Jobs : \A c : SweepStands(x, k, c, store[k]) => SweepStands(y, k, c, store[k])
  BY <1>1, SweepAfter
<1>5. ASSUME \A k \in Jobs : Kept(k)
      PROVE  \A k \in Jobs : SweepStands(y, k, entry'[k], store[k])
  BY <1>3, <1>4, <1>5, KeptForSweep
<1>6. \A q : SameReader(q, q)
  BY DEF SameReader
<1>7. CASE ev.type = "StoreRead"
  <2>1. reader' = Superseded("sweep", y, x.store) /\ StepAlone(StoreRead(x.store))
    BY <1>7 DEF ReaderTaken
  <2>2. /\ entry' = schedule(entry, recovering', unread') /\ unread' = unread \ {x.store}
        /\ AfterStep(0, FALSE, FALSE, {}, scheduleRequests(entry, entry')) /\ UNCHANGED <<world, recovering>>
    BY <2>1 DEF StepAlone, StoreRead, Step
  <2>3. unread' = unread
    BY <2>2 DEF RunsInv, Calm
  <2>4. (\A k \in Jobs : Kept(k)) /\ (\A e \in effects' : Speaks(e))
    BY <2>2, AloneKept
  <2> HIDE DEF y
  <2>5. /\ reader'["sweep"] = y
        /\ SameReader(reader["start"], reader'["start"]) /\ SameReader(reader["submit"], reader'["submit"])
    <3>1. "start" # "sweep" /\ "submit" # "sweep"
      OBVIOUS
    <3> QED
      BY <2>1, <3>1, ReadersAre, SupersededIs
  <2> QED
    BY <1>1, <1>2, <1>4, <1>5, <2>2, <2>3, <2>4, <2>5, SweepMoves
<1>8. CASE ev.type \in {"Admitted", "Recovered"}
  <2>1. SetReader("sweep", y) /\ Deliver(j, ev, FALSE, {})
    BY <1>8 DEF ReaderTaken
  <2>2. j \in Jobs /\ JobMessage(ev)
    BY <1>1, <1>8, SweepFields DEF ReaderMessage
  <2>3. Handled(j, ev, {})
    <3>1. CASE ev.type = "Admitted"
      <4>1. store[j].state # "absent"
        BY <1>1, <1>3, <2>2, <3>1 DEF SweepStands
      <4>2. ~Pending(reader["start"], j) /\ ev.type \in {"Admitted", "CancelAsked"}
        BY <1>2, <3>1, NobodyPending DEF RunsInv
      <4> HIDE DEF j, ev
      <4> QED
        BY <2>2, <4>1, <4>2, CallHandled, SMT
    <3>2. CASE ev.type = "Recovered"
      <4>1. Over(store[j]) /\ ev.f.job \notin {"queued", "running"}
        BY <1>1, <1>3, <2>2, <3>2 DEF SweepStands
      <4> HIDE DEF j, ev
      <4> QED
        BY <2>2, <3>2, <4>1, SweepHandled
    <3> QED
      BY <1>8, <3>1, <3>2
  <2> HIDE DEF y, j, ev
  <2>4. /\ \A k \in Jobs : Kept(k)
        /\ \A d \in effects' : Speaks(d)
        /\ UNCHANGED <<world, recovering, unread>>
    BY <2>1, <2>2, <2>3, HandledKept
  <2>5. reader'["sweep"] = y /\ reader'["start"] = reader["start"] /\ reader'["submit"] = reader["submit"]
    BY <2>1, ReadersAre, SetReaderIs
  <2>6. SameReader(reader["start"], reader'["start"]) /\ SameReader(reader["submit"], reader'["submit"])
    BY <1>6, <2>5
  <2>7. UNCHANGED <<world, recovering, unread, caller>>
    BY <1>1, <2>4
  <2>8. \A k \in Jobs : SweepStands(y, k, entry'[k], store[k])
    BY <1>5, <2>4
  <2> QED
    BY <1>2, <1>4, <2>4, <2>5, <2>6, <2>7, <2>8, SweepMoves
<1> QED
  BY <1>2, <1>7, <1>8

LEMMA SweepReaderStays ==
    ASSUME RunsInv, Shaped, HandlersFit, "unlisted" \notin Troubles, ReaderStep("sweep")
    PROVE  RunsInv'
  BY SweepListStays, SweepJobStays, SweepDroppedStays, SweepTakenStays DEF ReaderStep

\* Every step of the readers and of the callers.
LEMMA ReadersKeep ==
    ASSUME RunsInv, Shaped, HandlersFit, "unlisted" \notin Troubles,
           \/ StartStep \/ SweepStep \/ SubmitStep
           \/ \E r \in DOMAIN reader : ReaderStep(r)
           \/ \E j \in Jobs : SubmitWrite(j) \/ CancelCall(j) \/ CancelRead(j) \/ CancelPost(j)
    PROVE  RunsInv'
<1>1. CASE StartStep
  BY <1>1, StartRunsStays, StartListStays, StartJobStays, StartLeftoverStays DEF StartStep
<1>2. CASE SweepStep
  BY <1>2, SweepBeginStays, SweepHeldStays, SweepFindStays DEF SweepStep
<1>3. CASE SubmitStep
  BY <1>3, SubmitCheckStays, SubmitAdmitStays, NothingUnread DEF SubmitStep
<1>4. CASE \E r \in DOMAIN reader : ReaderStep(r)
  <2>1. PICK r \in DOMAIN reader : ReaderStep(r)
    BY <1>4
  <2>2. r \in {"start", "sweep", "submit"}
    BY <2>1 DEF Shaped, ShellInv, ReadersOK, Readers
  <2>3. ~ReaderStep("submit")
    BY NothingUnread DEF ReaderStep
  <2> QED
    BY <2>1, <2>2, <2>3, StartReaderStays, SweepReaderStays
<1>5. CASE \E j \in Jobs : SubmitWrite(j) \/ CancelCall(j) \/ CancelRead(j) \/ CancelPost(j)
  BY <1>5, SubmitWriteStays, CancelAskStays, CancelPostStays
<1> QED
  BY <1>1, <1>2, <1>3, <1>4, <1>5

-----------------------------------------------------------------------------
(* A daemon that begins. *)

LEMMA StartingUpIs ==
    /\ StartingUp["start"].at = "runs" /\ StartingUp["start"].away = {} /\ DOMAIN StartingUp["start"].seen = {}
    /\ StartingUp["start"].stale = FALSE
    /\ StartingUp["sweep"] = Idle /\ StartingUp["submit"] = Idle
<1> DEFINE x == [Idle EXCEPT !.at = "runs"]
<1>1. x.at = "runs" /\ x.away = {} /\ DOMAIN x.seen = {} /\ x.stale = FALSE
  BY IdleIs
<1> HIDE DEF x
<1>2. StartingUp["start"] = x /\ StartingUp["sweep"] = Idle /\ StartingUp["submit"] = Idle
  BY DEF StartingUp, x
<1> QED
  BY <1>1, <1>2

\* The jobs of a daemon that begins.
LEMMA FreshJob ==
    ASSUME NEW j, NEW job, NEW r
    PROVE  /\ JobStands(j, NoEntry, {}, job, r) /\ ParkedWaits(NoEntry)
           /\ StartStands(StartingUp["start"], j, NoEntry, {}, job, r)
           /\ SweepStands(StartingUp["sweep"], j, NoEntry, job)
           /\ CallersStand(StartingUp["submit"], j, "idle", job)
<1> DEFINE c == NoEntry
           x == StartingUp["start"]
<1>1. /\ c.phase = "none" /\ c.parked = FALSE /\ c.waiting = FALSE
  BY DEF NoEntry
<1>2. x.at = "runs" /\ DOMAIN x.seen = {}
  BY StartingUpIs
<1>3. /\ StartingUp["sweep"].at = "idle" /\ DOMAIN StartingUp["sweep"].seen = {}
      /\ StartingUp["submit"].at = "idle"
  BY StartingUpIs, IdleIs
<1>4. StartStands(x, j, NoEntry, {}, job, r)
  <2> HIDE DEF x
  <2>1. ~Posting(x, j) /\ Pending(x, j) /\ j \notin DOMAIN x.seen
    BY <1>2 DEF Posting, Pending
  <2> QED
    BY <1>2, <2>1 DEF StartStands
<1> HIDE DEF c
<1>5. ParkedWaits(c)
  BY <1>1 DEF ParkedWaits
<1>6. OverStands(c, {}, r)
  BY <1>1 DEF OverStands
<1>7. Sides({}) = {} /\ Mains({}) = {}
  BY DEF Sides, Mains
<1>8. OpenStands(j, c, {}, {}, job, r)
  <2>1. Idles(c) /\ c.phase \notin Ending
    BY <1>1 DEF Idles, MainOf, Ending
  <2>2. EntryStands(j, c, job, r)
    BY <1>1 DEF EntryStands
  <2> QED
    BY <2>1, <2>2 DEF OpenStands
<1>9. JobStands(j, c, {}, job, r)
  BY <1>6, <1>7, <1>8 DEF JobStands
<1>10. SweepStands(StartingUp["sweep"], j, NoEntry, job)
  BY <1>3 DEF SweepStands
<1>11. CallersStand(StartingUp["submit"], j, "idle", job)
  BY <1>3 DEF CallersStand
<1> QED
  BY <1>4, <1>5, <1>9, <1>10, <1>11 DEF c

LEMMA FreshCalm ==
    ASSUME ran \in [Jobs -> Nat], recovering = TRUE, unread = {}, reader = StartingUp, caller = [j \in Jobs |-> "idle"]
    PROVE  Calm
<1> DEFINE x == reader["start"]
<1>1. /\ x.at = "runs" /\ x.away = {} /\ DOMAIN x.seen = {} /\ x.stale = FALSE
      /\ reader["sweep"] = Idle /\ reader["submit"] = Idle
  BY StartingUpIs
<1>2. /\ reader["sweep"].at = "idle" /\ reader["submit"].at = "idle"
      /\ reader["sweep"].again = FALSE /\ reader["submit"].again = FALSE
  BY <1>1, IdleIs
<1>3. ~Posted(x)
  BY <1>1 DEF Posted
<1>4. /\ caller = [j \in Jobs |-> caller[j]]
      /\ \A j \in Jobs : caller[j] = "idle"
  OBVIOUS
<1> QED
  BY <1>1, <1>2, <1>3, <1>4 DEF Calm

LEMMA FreshInv ==
    ASSUME ran \in [Jobs -> Nat], recovering = TRUE, unread = {}, reader = StartingUp, caller = [j \in Jobs |-> "idle"],
           effects = {}, entry = [j \in Jobs |-> NoEntry],
           \A j \in Jobs : WorldStands(j, store[j], run[j], ran[j])
    PROVE  RunsInv
<1>1. Calm
  BY FreshCalm
<1>2. ASSUME NEW j \in Jobs
      PROVE  JobInv(j)
  <2>1. entry[j] = NoEntry /\ caller[j] = "idle" /\ Mine(j) = {}
    BY DEF Mine
  <2>2. /\ JobStands(j, NoEntry, {}, store[j], run[j]) /\ ParkedWaits(NoEntry)
        /\ StartStands(StartingUp["start"], j, NoEntry, {}, store[j], run[j])
        /\ SweepStands(StartingUp["sweep"], j, NoEntry, store[j])
        /\ CallersStand(StartingUp["submit"], j, "idle", store[j])
    BY FreshJob
  <2> QED
    BY <2>1, <2>2 DEF JobInv
<1> QED
  BY <1>1, <1>2 DEF RunsInv

LEMMA NoRunWorld ==
    ASSUME NEW j
    PROVE  WorldStands(j, Absent, NoRun, 0)
<1>1. Absent.state = "absent" /\ Absent.attempts = 0
  BY DEF Absent
<1>2. /\ NoRun.proc = "none" /\ NoRun.end = "none"
  BY NoRunIs
<1>3. ~Over(Absent)
  BY <1>1 DEF Over, FinalStates
<1>4. 0 <= (IF j \in Rerun THEN Absent.attempts + 1 ELSE 1)
  BY <1>1, SMT
<1>5. 0 \in Nat
  BY SMT
<1> QED
  BY <1>1, <1>2, <1>3, <1>4, <1>5 DEF WorldStands

LEMMA RunsInit ==
    ASSUME DaemonInit
    PROVE  RunsInv
<1>1. /\ entry = [j \in Jobs |-> NoEntry] /\ recovering = TRUE /\ unread = {}
      /\ store = [j \in Jobs |-> Absent] /\ run = [j \in Jobs |-> NoRun] /\ ran = [j \in Jobs |-> 0]
      /\ effects = {} /\ reader = StartingUp /\ caller = [j \in Jobs |-> "idle"]
  BY DEF DaemonInit, Init
<1>2. ran \in [Jobs -> Nat]
  BY <1>1, SMT
<1>3. ASSUME NEW j \in Jobs
      PROVE  WorldStands(j, store[j], run[j], ran[j])
  <2>1. store[j] = Absent /\ run[j] = NoRun /\ ran[j] = 0
    BY <1>1
  <2> QED
    BY <2>1, NoRunWorld
<1> QED
  BY <1>1, <1>2, <1>3, FreshInv

LEMMA RebootedWorld ==
    ASSUME NEW j, NEW job, NEW r \in Run, NEW n, WorldStands(j, job, r, n)
    PROVE  WorldStands(j, job, reboot(r), n)
<1> DEFINE s == reboot(r)
<1>1. /\ s.proc = "none" /\ s.dir = FALSE /\ s.cancel = r.cancel /\ s.end = r.end /\ s.mark = r.mark
      /\ (Unsent(s) <=> Unsent(r)) /\ (Unmarked(s) <=> Unmarked(r)) /\ (r = NoRun => s = NoRun)
  BY RebootIs
<1> HIDE DEF s
<1>2. WorldStands(j, job, s, n)
  BY <1>1 DEF WorldStands
<1> QED
  BY <1>2 DEF s

\* A daemon that begins again.
LEMMA NewDaemonStays ==
    ASSUME RunsInv, NewDaemon, \A j \in Jobs : WorldStands(j, store[j], run'[j], ran[j])
    PROVE  RunsInv'
<1>1. /\ entry' = [j \in Jobs |-> NoEntry] /\ recovering' = TRUE /\ unread' = {} /\ effects' = {}
      /\ reader' = StartingUp /\ caller' = [j \in Jobs |-> "idle"] /\ store' = store /\ ran' = ran
  BY DEF NewDaemon, Restart
<1>2. ran' \in [Jobs -> Nat]
  BY <1>1 DEF RunsInv, Calm
<1>3. \A j \in Jobs : WorldStands(j, store'[j], run'[j], ran'[j])
  BY <1>1
<1>4. Calm'
  <2> DEFINE x == reader'["start"]
  <2>1. /\ x.at = "runs" /\ x.away = {} /\ DOMAIN x.seen = {} /\ x.stale = FALSE
        /\ reader'["sweep"] = Idle /\ reader'["submit"] = Idle
    BY <1>1, StartingUpIs
  <2>2. /\ reader'["sweep"].at = "idle" /\ reader'["submit"].at = "idle"
        /\ reader'["sweep"].again = FALSE /\ reader'["submit"].again = FALSE
    BY <2>1, IdleIs
  <2>3. ~Posted(x)
    BY <2>1 DEF Posted
  <2>4. /\ caller' = [j \in Jobs |-> caller'[j]]
        /\ \A j \in Jobs : caller'[j] = "idle"
    BY <1>1
  <2> QED
    BY <1>1, <1>2, <2>1, <2>2, <2>3, <2>4 DEF Calm
<1>5. ASSUME NEW j \in Jobs
      PROVE  JobInv(j)'
  <2>1. entry'[j] = NoEntry /\ caller'[j] = "idle" /\ Mine(j)' = {}
    BY <1>1 DEF Mine
  <2>2. /\ JobStands(j, NoEntry, {}, store'[j], run'[j]) /\ ParkedWaits(NoEntry)
        /\ StartStands(StartingUp["start"], j, NoEntry, {}, store'[j], run'[j])
        /\ SweepStands(StartingUp["sweep"], j, NoEntry, store'[j])
        /\ CallersStand(StartingUp["submit"], j, "idle", store'[j])
    BY FreshJob
  <2> QED
    BY <1>1, <1>3, <2>1, <2>2 DEF JobInv
<1> QED
  BY <1>1, <1>4, <1>5 DEF RunsInv

LEMMA CrashStays ==
    ASSUME RunsInv, Shaped, Crash \/ Reboot
    PROVE  RunsInv'
<1>1. \A j \in Jobs : WorldStands(j, store[j], run[j], ran[j]) /\ run[j] \in Run
  BY RunNow
<1>2. CASE Crash
  <2>1. NewDaemon /\ run' = run
    BY <1>2 DEF Crash
  <2> QED
    BY <1>1, <2>1, NewDaemonStays
<1>3. CASE Reboot
  <2>1. NewDaemon /\ run' = [j \in Jobs |-> reboot(run[j])]
    BY <1>3 DEF Reboot
  <2>2. ASSUME NEW j \in Jobs
        PROVE  WorldStands(j, store[j], run'[j], ran[j])
    <3>1. run'[j] = reboot(run[j])
      BY <2>1
    <3> QED
      BY <1>1, <3>1, RebootedWorld
  <2> QED
    BY <2>1, <2>2, NewDaemonStays
<1> QED
  BY <1>2, <1>3
=============================================================================
