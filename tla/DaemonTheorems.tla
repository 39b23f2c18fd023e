---------------------------- MODULE DaemonTheorems ----------------------------
(***************************************************************************)
(* What the proofs of the machine, of its shell and of the runs give       *)
(* together: in every behaviour of the daemon the machine keeps its        *)
(* promises and the state of the daemon its types; and while every list of *)
(* a store's jobs can be read, whatever else fails and whenever the daemon *)
(* or the host goes down, commands run once, only when their store says    *)
(* so, and no more of them at a time than fit the machine.                 *)
(***************************************************************************)
EXTENDS JobDaemonProofs, DaemonReaderProofs, DaemonEffectProofs

\* Zenon proves a step that names no prover.
USE Zenon

\* What holds of the machine with any events holds of it in the daemon.
THEOREM DaemonMachine ==
    DaemonSafety => [](TypeOK /\ Coherent) /\ []NoStranded /\ StartsAlone /\ DecidedEndStands
  BY DaemonRefines, MachineCoherent, NobodyStranded, LaunchesAlone, EndsStand, PTL DEF StepsOfMachine

\* Stores, runs, handles and the machine keep their types through every step.
THEOREM DaemonTyped == DaemonSafety => []DaemonTypeOK
<1> DEFINE Typed == ShellInv /\ handle \in [Jobs -> BOOLEAN] /\ left \in 0 .. MaxTroubles
<1>1. DaemonInit => Typed
  BY ShellStarts, TroublesAssumption, SMT DEF DaemonInit
<1>2. Typed /\ [DaemonNext]_vars => Typed'
  BY ShellStep, HandlesStay, TroublesLeft
<1>3. TypeOK /\ Typed => DaemonTypeOK
  BY DEF DaemonTypeOK, ShellInv, WorldOK
<1> HIDE DEF Typed
<1>4. DaemonSafety => []TypeOK
  BY DaemonRefines, MachineCoherent, PTL DEF StepsOfMachine
<1> QED
  BY <1>1, <1>2, <1>3, <1>4, PTL DEF DaemonSafety

-----------------------------------------------------------------------------
(* The commands that execute or may begin fit the machine. *)

\* A job whose command executes or may begin holds the machine.
LEMMA LiveHolds ==
    ASSUME NEW j, NEW c, Good(c), NEW E, NEW job, NEW r, NEW n, WorldStands(j, job, r, n), JobStands(j, c, E, job, r),
           c.phase = "none" /\ ~Over(job) => r = NoRun, LiveOf(job, r, E)
    PROVE  holdsMachine(c)
<1> DEFINE S == Sides(E)
           M == Mains(E)
<1>1. ~Over(job) /\ Begins(r, E)
  BY DEF LiveOf
<1>2. OpenStands(j, c, S, M, job, r)
  BY <1>1 DEF JobStands
<1>3. c.phase \in Phases
  BY DEF Good, Entry
<1>4. CASE r.proc = "executing"
  <2>1. r # NoRun
    BY <1>4, NoRunIs
  <2>2. EntryStands(j, c, job, r) /\ (c.phase \in Ending => EndingStands(j, c, job, r))
    BY <1>2 DEF OpenStands
  <2>3. c.phase # "none" /\ c.phase # "left" /\ c.phase # "queued"
    BY <1>1, <2>1, <2>2 DEF EntryStands
  <2>4. job.state # "queued"
    BY <1>4 DEF WorldStands
  <2>5. c.phase # "discarding" /\ (c.phase = "indoubt" => c.holds)
    BY <1>4, <2>2, <2>4 DEF EntryStands
  <2>6. c.phase \notin Ending
    BY <1>4, <2>2 DEF EndingStands
  <2> QED
    BY <1>3, <2>3, <2>5, <2>6 DEF holdsMachine, Phases, Ending
<1>5. CASE \E e \in E : e.kind \in {"launch", "follow"}
  <2>1. PICK e \in E : e.kind \in {"launch", "follow"}
    BY <1>5
  <2>2. e \in M
    BY <2>1 DEF Mains, SideKinds
  <2>3. e.kind = MainOf(c.phase)
    BY <1>2, <2>2 DEF OpenStands, MainStands
  <2>4. c.phase \in {"launching", "running"}
    BY <1>3, <2>1, <2>3, PhaseOf
  <2> QED
    BY <2>4 DEF holdsMachine
<1> QED
  BY <1>1, <1>4, <1>5 DEF Begins

\* The kinds of the effects of requests.
LEMMA NewKinds ==
    ASSUME NEW q, NEW hs
    PROVE  /\ effectOf(q, hs).kind = "launch" => q.kind = "launch"
           /\ effectOf(q, hs).kind = "follow" => q.kind = "adopt"
<1> DEFINE d == effectOf(q, hs)
<1>1. q.kind \in {"signal", "stop", "move", "discard", "retry"} => d.kind = q.kind
  BY DEF effectOf, Effect
<1>2. q.kind \notin {"launch", "adopt", "signal", "stop", "move", "discard", "retry"} => d.kind = "reexamine"
  BY DEF effectOf, Effect
<1>3. q.kind = "launch" => d.kind = "launch"
  BY DEF effectOf, Effect
<1>4. q.kind = "adopt" => d.kind = "follow"
  BY DEF effectOf, Effect
<1> HIDE DEF d
<1>5. (d.kind = "launch" => q.kind = "launch") /\ (d.kind = "follow" => q.kind = "adopt")
  BY <1>1, <1>2, <1>3, <1>4
<1> QED
  BY <1>5 DEF d

\* What a handler asks for begins no command, unless one that was to begin is adopted.
LEMMA AskedLive ==
    ASSUME NEW job, NEW r, NEW E, NEW D, D \subseteq E, NEW R, NEW hs,
           \A q \in R : q.kind # "launch",
           \A q \in R : q.kind = "adopt" => Over(job) \/ LiveOf(job, r, E) \/ r.proc # "parked",
           LiveOf(job, r, D \cup New(R, hs))
    PROVE  LiveOf(job, r, E)
<1> SUFFICES ASSUME ~LiveOf(job, r, E)
             PROVE  FALSE
  OBVIOUS
<1>1. ~Over(job) /\ Begins(r, D \cup New(R, hs)) /\ ~Begins(r, E)
  BY DEF LiveOf
<1>2. r.proc # "executing"
  BY <1>1 DEF Begins
<1>3. PICK e \in D \cup New(R, hs) : \/ e.kind = "launch"
                                     \/ e.kind = "follow" /\ e.at \in {"start", "tell"} /\ r.proc = "parked" /\ ~r.cancel
  BY <1>1, <1>2 DEF Begins
<1>4. e \notin D
  BY <1>1, <1>3 DEF Begins
<1>5. PICK q \in R : e = effectOf(q, hs)
  BY <1>3, <1>4 DEF New
<1>6. (e.kind = "launch" => q.kind = "launch") /\ (e.kind = "follow" => q.kind = "adopt")
  BY <1>5, NewKinds
<1>7. q.kind = "adopt" /\ r.proc = "parked"
  BY <1>3, <1>5, <1>6
<1> QED
  BY <1>1, <1>5, <1>7

\* What a step of the machine leaves of a job that the scheduler does not start.
LEMMA UnstartedLive ==
    ASSUME NEW k \in Jobs, NEW en, AllGood(en), NEW R, NEW gone, NEW hs, SteppedTo(k, en[k], R, gone, hs), NEW job, NEW r,
           entry'[k] = adoptCancelled(en)[k], LiveOf(job, r, Mine(k)')
    PROVE  LiveOf(job, r, (Mine(k) \ gone) \cup NewAbout(k, R, hs))
<1> DEFINE c == en[k]
           n == entry'[k]
           E == (Mine(k) \ gone) \cup NewAbout(k, R, hs)
<1>1. PICK Q : Scheduled(k, c, n, Q) /\ Mine(k)' = E \cup New(Q, hs)
  BY DEF SteppedTo
<1>2. n = IF c.parked /\ c.cancelAsked THEN adopt(c) ELSE c
  BY DEF adoptCancelled
<1>3. Good(c)
  BY DEF AllGood
<1> HIDE DEF c, n, E
<1>4. c.parked => adopt(c).parked = FALSE /\ adopt(c).cancelAsked = c.cancelAsked /\ c.phase = "indoubt"
  BY <1>3, AdoptIs
<1>5. CASE Q = {}
  <2>1. E \cup New(Q, hs) = E
    BY <1>5, NewOf
  <2> QED
    BY <1>1, <2>1 DEF E
<1>6. CASE c.parked /\ n = adopt(c) /\ Q = {Adopt(k, n)}
  <2> DEFINE d == effectOf(Adopt(k, n), hs)
  <2>1. New(Q, hs) = {d}
    BY <1>6, NewOf
  <2>2. c.cancelAsked
    BY <1>2, <1>4, <1>6
  <2>3. n.cancelAsked /\ d = effectOf(Adopt(k, n), hs)
    BY <1>4, <1>6, <2>2
  <2> HIDE DEF d
  <2>4. d.kind = "follow" /\ d.at = "cancel"
    BY <2>3, FollowEffect, SMT
  <2>5. LiveOf(job, r, E \cup {d}) => LiveOf(job, r, E)
    BY <2>4 DEF LiveOf, Begins
  <2> QED
    BY <1>1, <2>1, <2>5 DEF E
<1>7. CASE c.phase = "queued" /\ n = [c EXCEPT !.phase = "launching"]
  <2>1. ~c.parked
    BY <1>3, <1>7 DEF Good, CoherentEntry
  <2>2. n.phase = "launching"
    BY <1>3, <1>7 DEF Good, Entry
  <2> QED
    BY <1>2, <1>7, <2>1, <2>2
<1> QED
  BY <1>1, <1>5, <1>6, <1>7 DEF Scheduled

\* A step of the machine keeps the commands within what fits.
LEMMA SteppedFits ==
    ASSUME RunsInv', Shaped', LiveFits, store' = store, run' = run,
           NEW en, AllGood(en), entry' = schedule(en, recovering', unread'),
           NEW R, NEW gone, NEW hs, \A k \in Jobs : SteppedTo(k, en[k], R, gone, hs),
           \A k \in Jobs : LiveOf(store[k], run[k], (Mine(k) \ gone) \cup NewAbout(k, R, hs)) => k \in Live
    PROVE  LiveFits'
<1> DEFINE a == adoptCancelled(en)
           z == startAdmitted(a, unread')
<1>1. CASE \A k \in Jobs : entry'[k] = a[k]
  <2>1. ASSUME NEW k \in Live'
        PROVE  k \in Live
    <3>1. k \in Jobs /\ LiveOf(store[k], run[k], Mine(k)')
      BY <2>1 DEF Live
    <3>2. LiveOf(store[k], run[k], (Mine(k) \ gone) \cup NewAbout(k, R, hs))
      BY <1>1, <3>1, UnstartedLive
    <3> QED
      BY <3>1, <3>2
  <2> QED
    BY <2>1, FewerFit
<1>2. CASE \E k \in Jobs : entry'[k] # a[k]
  <2>1. ~recovering' /\ entry' = z
    BY <1>2 DEF schedule
  <2>2. ASSUME NEW i \in Jobs
        PROVE  a[i].parked \in BOOLEAN /\ a[i].dated \in BOOLEAN
    <3>1. Good(en[i])
      BY DEF AllGood
    <3>2. en[i].parked => adopt(en[i]) \in Entry
      BY <3>1, AdoptIs
    <3>3. a[i] \in Entry
      BY <3>1, <3>2 DEF adoptCancelled, Good
    <3> QED
      BY <3>3 DEF Entry
  <2>3. Starters(a, unread') # {}
    <3>1. PICK k \in Jobs : z[k] # a[k]
      BY <1>2, <2>1
    <3>2. k \in Candidates(a, unread') /\ MayStart(a, unread', k)
      BY <3>1 DEF startAdmitted
    <3> QED
      BY <3>2 DEF Starters
  <2>4. /\ IsFiniteSet(Holders(entry')) /\ Cardinality(Holders(entry')) <= Slots
        /\ \A j \in Holders(entry') \cap Exclusive : Holders(entry') = {j}
    <3> HIDE DEF a
    <3>1. /\ IsFiniteSet(Holders(entry')) /\ Cardinality(Holders(entry')) <= Slots
          /\ \A j \in Holders(entry') : Alone(a, j) => Holders(entry') = {j}
      BY <2>1, <2>2, <2>3, StartsFit
    <3> QED
      BY <3>1 DEF Alone
  <2>5. ASSUME NEW k \in Live'
        PROVE  k \in Holders(entry')
    <3> DEFINE c == entry'[k]
               E == Mine(k)'
               job == store'[k]
               r == run'[k]
               x == reader'["start"]
    <3>1. k \in Jobs /\ LiveOf(job, r, E)
      BY <2>5 DEF Live
    <3>2. Good(c)
      BY <3>1 DEF Shaped, AllGood
    <3>3. WorldStands(k, job, r, ran'[k]) /\ JobStands(k, c, E, job, r) /\ StartStands(x, k, c, E, job, r)
      BY <3>1 DEF RunsInv, JobInv
    <3>4. x.at = "done" /\ x.todo = {} /\ DOMAIN x.seen = {}
      BY <2>1 DEF RunsInv, Calm, Posted
    <3> HIDE DEF c, E, job, r, x
    <3>5. ~Pending(x, k)
      BY <3>4 DEF Pending, Ahead, Posting
    <3>6. c.phase = "none" /\ ~Over(job) => r = NoRun
      BY <3>3, <3>5 DEF StartStands
    <3>7. holdsMachine(c)
      BY <3>1, <3>2, <3>3, <3>6, LiveHolds
    <3> QED
      BY <3>1, <3>7 DEF Holders, c
  <2> QED
    BY <2>4, <2>5, HoldersFit
<1> QED
  BY <1>1, <1>2

\* Only a run that was found to run or to have run is adopted by a look.
LEMMA RecoveredAdopts ==
    ASSUME NEW j, NEW c \in Entry, NEW f \in Finding, NEW p, NEW q \in OnRecovered(j, c, f, p).r, q.kind = "adopt"
    PROVE  p.run \in {"running", "finished", "released"}
<1> SUFFICES ASSUME p.run \notin {"running", "finished", "released"}
             PROVE  \A a \in OnRecovered(j, c, f, p).r : a.kind # "adopt"
  OBVIOUS
<1> DEFINE None(h) == \A a \in h.r : a.kind # "adopt"
           n(phase) == place(c, f, phase)
           k == [n("indoubt") EXCEPT !.parked = TRUE]
<1>1. ASSUME NEW h, Mild(c, h, FALSE, TRUE)
      PROVE  None(h)
  BY <1>1 DEF Mild
<1>2. None(inDoubt(j, c, f, p)) /\ None(recoverQueuedAfresh(j, c, f, p))
  <2>1. Mild(c, inDoubt(j, c, f, p), FALSE, TRUE) /\ Mild(c, recoverQueuedAfresh(j, c, f, p), FALSE, TRUE)
    BY MildLooks
  <2> QED
    BY <1>1, <2>1
<1>3. \A m : None(Ignore(m))
  BY DEF Ignore, Result
<1>4. None(recoverRunning(j, c, f, p))
  <2>r. "running" \in Phases
    BY DEF Phases
  <2>1. n("running") \in Entry /\ n("running").parked = FALSE
    BY <2>r, PlacedIs
  <2>2. recoverRunning(j, c, f, p) \in {Ignore(k), cutOff(j, n("running"), p.proof, p.start),
            settle(j, n("running"), givenUpJob), inDoubt(j, c, f, p)}
    BY DEF recoverRunning, doubtUnlessGivenUp, Answers
  <2> HIDE DEF k, n
  <2>3. Mild(c, cutOff(j, n("running"), p.proof, p.start), FALSE, TRUE) /\ Mild(c, settle(j, n("running"), givenUpJob), FALSE, TRUE)
    BY <2>1, MildSteps
  <2> HIDE DEF None
  <2> QED
    BY <1>1, <1>2, <1>3, <2>2, <2>3
<1>5. None(recoverEnded(j, p))
  <2>1. Discard(j, FALSE).kind = "discard"
    BY DEF Discard
  <2> QED
    BY <2>1 DEF recoverEnded, Result
<1>6. None(recoverLeft(j, c, p))
  <2>1. None(awaitRetry(j, judgeHold(c, p)))
    <3>1. Request("retry", j).kind # "adopt"
      BY DEF Request
    <3> QED
      BY <3>1 DEF awaitRetry, Result
  <2>2. recoverLeft(j, c, p) \in {awaitRetry(j, judgeHold(c, p)), Ignore(NoEntry)}
    BY DEF recoverLeft
  <2> HIDE DEF None
  <2> QED
    BY <1>3, <2>1, <2>2
<1> HIDE DEF None
<1>7. OnRecovered(j, c, f, p) \in {Ignore(c), inDoubt(j, c, f, p), recoverQueuedAfresh(j, c, f, p), recoverRunning(j, c, f, p),
          recoverEnded(j, p), recoverLeft(j, c, p)}
  BY DEF OnRecovered
<1>8. None(OnRecovered(j, c, f, p))
  BY <1>2, <1>3, <1>4, <1>5, <1>6, <1>7
<1> QED
  BY <1>8 DEF None

\* A message has nothing begin that was not to begin.
LEMMA TakenLive ==
    ASSUME Shaped, NEW j, NEW ev, NEW gone, Taken(j, ev, gone), NEW hs,
           NEW E, E = (Mine(j) \ gone) \cup New(Handler(j, entry[j], ev).r, hs), LiveOf(store[j], run[j], E)
    PROVE  LiveOf(store[j], run[j], Mine(j))
<1> DEFINE c == entry[j]
           h == Handler(j, c, ev)
           job == store[j]
           r == run[j]
           M == Mine(j)
<1>1. j \in Jobs /\ JobMessage(ev)
  BY DEF Taken
<1>2. c \in Entry /\ (ev.type = "Recovered" => ev.f \in Finding)
  BY <1>1, StoredStates, RecoveredMessages
<1>3. Mild(c, h, Adopting(ev), Leaving(c, ev))
  BY <1>2, MildHandler
<1>4. \A q \in h.r : q.kind # "launch" /\ (q.kind = "adopt" => Adopting(ev))
  BY <1>3 DEF Mild
<1>5. ASSUME NEW q \in h.r, q.kind = "adopt", ~Over(job)
      PROVE  LiveOf(job, r, M) \/ r.proc # "parked"
  <2>1. Adopting(ev)
    BY <1>4, <1>5
  <2>2. CASE \E e \in M : e.kind = "launch"
    BY <1>5, <2>2 DEF LiveOf, Begins
  <2>3. CASE ev.type = "Recovered" /\ job.state = "running" /\ PresenceStands(ev.p, job, r)
    <3>1. h = OnRecovered(j, c, ev.f, ev.p)
      BY <2>3 DEF Handler
    <3> HIDE DEF c, h, job, r
    <3>2. ev.p.run \in {"running", "finished", "released"}
      BY <1>2, <1>5, <2>3, <3>1, RecoveredAdopts
    <3> QED
      BY <2>3, <3>2 DEF PresenceStands
  <2> QED
    BY <1>5, <2>1, <2>2, <2>3 DEF Taken
<1>6. M \ gone \subseteq M /\ LiveOf(job, r, (M \ gone) \cup New(h.r, hs))
  OBVIOUS
<1> HIDE DEF c, h, job, r, M
<1>7. LiveOf(job, r, M)
  <2>1. \A q \in h.r : q.kind # "launch"
    BY <1>4
  <2>2. \A q \in h.r : q.kind = "adopt" => Over(job) \/ LiveOf(job, r, M) \/ r.proc # "parked"
    BY <1>5
  <2> DEFINE D == M \ gone
             R == h.r
  <2> HIDE DEF D, R
  <2>3. D \subseteq M /\ LiveOf(job, r, D \cup New(R, hs))
    BY <1>6 DEF D, R
  <2> QED
    BY <2>1, <2>2, <2>3, AskedLive DEF R
<1> QED
  BY <1>7 DEF job, r, M

LEMMA DeliverFits ==
    ASSUME Shaped, HandlersFit, RunsInv', Shaped', LiveFits, NEW j, NEW ev, NEW h, NEW gone, Taken(j, ev, gone), Deliver(j, ev, h, gone)
    PROVE  LiveFits'
<1> DEFINE hd == Handler(j, entry[j], ev)
           en == [entry EXCEPT ![j] = hd.e]
<1>1. j \in Jobs /\ JobMessage(ev) /\ gone \subseteq Mine(j)
  BY DEF Taken
<1>2. Good(hd.e) /\ About(j, hd.r) /\ AllGood(entry)
  BY <1>1 DEF HandlersFit, Shaped
<1>3. AllGood(en)
  BY <1>1, <1>2 DEF AllGood
<1>4. entry' = schedule(en, recovering', unread') /\ store' = store /\ run' = run
  BY DEF Deliver, Take, Step, world
<1>5. PICK brings, drops : AfterStep(j, brings, drops, gone, hd.r \cup scheduleRequests(en, entry'))
  BY DEF Deliver
<1> HIDE DEF en
<1>6. PICK hs : \A k \in Jobs : SteppedTo(k, en[k], hd.r, gone, hs)
  <2> HIDE DEF hd
  <2> QED
    BY <1>3, <1>4, <1>5, SteppedShape
<1>7. ASSUME NEW k \in Jobs, LiveOf(store[k], run[k], (Mine(k) \ gone) \cup NewAbout(k, hd.r, hs))
      PROVE  k \in Live
  <2>1. CASE k = j
    <3>1. {q \in hd.r : q.job = j} = hd.r
      BY <1>2 DEF About
    <3>2. NewAbout(k, hd.r, hs) = New(hd.r, hs)
      BY <2>1, <3>1 DEF NewAbout
    <3> DEFINE E == (Mine(j) \ gone) \cup New(hd.r, hs)
    <3>3. LiveOf(store[j], run[j], E)
      BY <1>7, <2>1, <3>2
    <3> HIDE DEF E
    <3>4. LiveOf(store[j], run[j], Mine(j))
      BY <3>3, TakenLive DEF E
    <3> QED
      BY <1>1, <2>1, <3>4 DEF Live
  <2>2. CASE k # j
    <3> HIDE DEF hd
    <3>1. {q \in hd.r : q.job = k} = {}
      BY <1>2, <2>2 DEF About
    <3>2. NewAbout(k, hd.r, hs) = {}
      BY <3>1, NewOf DEF NewAbout
    <3>3. Mine(k) \ gone = Mine(k)
      BY <1>1, <2>2 DEF Mine
    <3>4. LiveOf(store[k], run[k], Mine(k))
      BY <1>7, <3>2, <3>3
    <3> QED
      BY <3>4 DEF Live
  <2> QED
    BY <2>1, <2>2
<1> HIDE DEF hd
<1> QED
  BY <1>3, <1>4, <1>6, <1>7, SteppedFits

LEMMA AloneFits ==
    ASSUME Shaped, RunsInv', Shaped', LiveFits, StepsAlone
    PROVE  LiveFits'
<1>1. AllGood(entry)
  BY DEF Shaped
<1>2. /\ entry' = schedule(entry, recovering', unread') /\ store' = store /\ run' = run
      /\ AfterStep(0, FALSE, FALSE, {}, {} \cup scheduleRequests(entry, entry'))
  <2>1. {} \cup scheduleRequests(entry, entry') = scheduleRequests(entry, entry')
    OBVIOUS
  <2> QED
    BY <2>1 DEF StepsAlone, world
<1>3. PICK hs : \A k \in Jobs : SteppedTo(k, entry[k], {}, {}, hs)
  BY <1>1, <1>2, SteppedShape
<1>4. ASSUME NEW k \in Jobs, LiveOf(store[k], run[k], (Mine(k) \ {}) \cup NewAbout(k, {}, hs))
      PROVE  k \in Live
  <2>1. {q \in {} : q.job = k} = {}
    OBVIOUS
  <2>2. NewAbout(k, {}, hs) = {}
    BY <2>1, NewOf DEF NewAbout
  <2>3. (Mine(k) \ {}) \cup NewAbout(k, {}, hs) = Mine(k)
    BY <2>2
  <2> QED
    BY <1>4, <2>3 DEF Live
<1> QED
  BY <1>1, <1>2, <1>3, <1>4, SteppedFits

LEMMA LiveInit ==
    ASSUME DaemonInit
    PROVE  LiveFits
<1>1. Live = {}
  <2>1. NoRun.proc = "none"
    BY NoRunIs
  <2> QED
    BY <2>1 DEF DaemonInit, Live, LiveOf, Begins, Mine
<1>2. Cardinality({}) = 0
  BY FS_EmptySet
<1>3. 0 <= Slots
  BY SlotsAssumption, SMT
<1> QED
  BY <1>1, <1>2, <1>3 DEF LiveFits

LEMMA OwesAnswers ==
    ASSUME RunsInv, Shaped, OwesInv
    PROVE  AnswersOwed
<1> SUFFICES ASSUME NEW j \in Jobs
             PROVE  LET c == entry[j]
                        only(kind, phase) ==
                            c.phase = phase => /\ Under(j, kind) # {}
                                               /\ store[j].state \notin FinalStates => Cardinality(Under(j, kind)) = 1
                    IN  /\ only("launch", "launching") /\ only("follow", "running") /\ only("stop", "stopping")
                        /\ c.armed => Under(j, "retry") # {}
                        /\ c.phase \in {"settling", "cancelling"} => Under(j, "move") # {}
                        /\ c.phase = "unrecorded" => c.waiting \/ Under(j, "move") # {}
                        /\ c.phase = "discarding" => c.waiting \/ \E e \in Under(j, "discard") : e.flag
                        /\ c.phase = "indoubt" /\ ~c.parked => c.waiting \/ Under(j, "reexamine") # {}
  BY DEF AnswersOwed
<1> DEFINE c == entry[j]
           E == Mine(j)
           job == store[j]
           r == run[j]
<1>1. OwesOf(c, E) /\ JobStands(j, c, E, job, r)
  BY DEF OwesInv, RunsInv, JobInv
<1>2. \A kind : Under(j, kind) = {e \in E : e.kind = kind}
  BY DEF Under, Mine
<1> HIDE DEF c, E, job, r
<1>3. ASSUME NEW kind \in Owed(c)
      PROVE  \E e \in Under(j, kind) : Pays(e, c) /\ e.kind = kind
  BY <1>1, <1>2, <1>3 DEF OwesOf
<1>4. ASSUME NEW phase \in {"launching", "running", "stopping"}, c.phase = phase
      PROVE  /\ Under(j, MainOf(phase)) # {}
             /\ ~Over(job) => Cardinality(Under(j, MainOf(phase))) = 1
  <2> DEFINE kind == MainOf(phase)
  <2>1. kind # "none" /\ ~Idles(c) /\ kind \notin SideKinds
    BY <1>4, MainOfPhases DEF Idles, SideKinds
  <2>2. kind \in Owed(c)
    BY <1>4, <2>1 DEF Owed
  <2> HIDE DEF kind
  <2>3. Under(j, kind) # {}
    BY <1>3, <2>2
  <2>4. ASSUME ~Over(job)
        PROVE  Cardinality(Under(j, kind)) = 1
    <3>1. OpenStands(j, c, Sides(E), Mains(E), job, r)
      BY <1>1, <2>4 DEF JobStands
    <3>2. PICK e : Mains(E) = {e}
      BY <2>1, <3>1 DEF OpenStands
    <3>3. Under(j, kind) \subseteq Mains(E)
      BY <1>2, <2>1 DEF Mains
    <3>4. Under(j, kind) = {e}
      BY <2>3, <3>2, <3>3
    <3> QED
      BY <3>4, FS_Singleton
  <2> QED
    BY <2>3, <2>4 DEF kind
<1>5. c.armed => "retry" \in Owed(c)
  BY DEF Owed
<1>6. c.phase \in {"settling", "cancelling"} => "move" \in Owed(c)
  <2>1. c.phase \in {"settling", "cancelling"} => MainOf(c.phase) = "move"
    BY MainOfPhases
  <2> QED
    BY <2>1 DEF Owed, Idles
<1>7. c.phase = "unrecorded" /\ ~c.waiting => "move" \in Owed(c)
  BY MainOfPhases DEF Owed, Idles
<1>8. c.phase = "discarding" /\ ~c.waiting => "discard" \in Owed(c)
  BY MainOfPhases DEF Owed, Idles
<1>9. c.phase = "indoubt" /\ ~c.parked /\ ~c.waiting => "reexamine" \in Owed(c)
  BY DEF Owed
<1>10. "discard" \in Owed(c) => \E e \in Under(j, "discard") : e.flag
  BY <1>3 DEF Pays
<1>11. \A kind : kind \in Owed(c) => Under(j, kind) # {}
  BY <1>3
<1>12. \A kind, phase : (kind = "launch" /\ phase = "launching") \/ (kind = "follow" /\ phase = "running") \/ (kind = "stop" /\ phase = "stopping") =>
           (c.phase = phase => /\ Under(j, kind) # {}
                               /\ store[j].state \notin FinalStates => Cardinality(Under(j, kind)) = 1)
  <2>1. ~Over(job) <=> store[j].state \notin FinalStates
    BY DEF Over, job
  <2> HIDE DEF Under
  <2> QED
    BY <1>4, <2>1, MainOfPhases
<1> HIDE DEF Under, Owed
<1>13. /\ c.armed => Under(j, "retry") # {}
       /\ c.phase \in {"settling", "cancelling"} => Under(j, "move") # {}
       /\ c.phase = "unrecorded" => c.waiting \/ Under(j, "move") # {}
       /\ c.phase = "discarding" => c.waiting \/ \E e \in Under(j, "discard") : e.flag
       /\ c.phase = "indoubt" /\ ~c.parked => c.waiting \/ Under(j, "reexamine") # {}
  BY <1>5, <1>6, <1>7, <1>8, <1>9, <1>10, <1>11
<1> QED
  BY <1>12, <1>13 DEF c

-----------------------------------------------------------------------------
(* Every step keeps what DaemonRuns says of the runs. *)

\* What every step of the daemon keeps, while every list of a store can be read.
LEMMA RunsStep ==
    ASSUME RunsInv, Shaped, HandlersFit, "unlisted" \notin Troubles, DaemonNext
    PROVE  RunsInv'
<1>1. CASE \E e \in effects : EffectStep(e) \/ DeliverEffect(e)
  BY <1>1, EffectStepStays, DeliverEffectStays
<1>2. CASE \/ StartStep \/ SweepStep \/ SubmitStep
           \/ \E r \in DOMAIN reader : ReaderStep(r)
           \/ \E j \in Jobs : SubmitWrite(j) \/ CancelCall(j) \/ CancelRead(j) \/ CancelPost(j)
  BY <1>2, ReadersKeep
<1>3. CASE \E j \in Jobs : CommandEnds(j) \/ ComesUp(j) \/ Exits(j) \/ SupervisorDies(j) \/ TimePasses(j)
  BY <1>3, WorldStays, TimePassesStays
<1>4. CASE Crash \/ Reboot
  BY <1>4, CrashStays
<1> QED
  BY <1>1, <1>2, <1>3, <1>4 DEF DaemonNext

LEMMA LiveStep ==
    ASSUME RunsInv, Shaped, HandlersFit, RunsInv', Shaped', LiveFits, DaemonNext
    PROVE  LiveFits'
<1>1. CASE \E e \in effects : EffectStep(e)
  BY <1>1, EffectTurns, TurnsLive, FewerFit
<1>2. CASE \E j, ev, h, gone : Taken(j, ev, gone) /\ Deliver(j, ev, h, gone)
  BY <1>2, DeliverFits
<1>3. CASE StepsAlone
  BY <1>3, AloneFits
<1>4. CASE UNCHANGED <<entry, effects, store, run>>
  <2>1. Live' \subseteq Live
    BY <1>4 DEF Live, Mine
  <2> QED
    BY <2>1, FewerFit
<1>5. CASE \E j \in Jobs : CommandEnds(j) \/ ComesUp(j) \/ Exits(j) \/ SupervisorDies(j)
  BY <1>5, OutsideLive, FewerFit
<1>6. CASE \E j \in Jobs : TimePasses(j)
  <2>1. effects' = effects /\ store' = store /\ run' = run
    BY <1>6 DEF TimePasses, shell, world
  <2>2. Live' \subseteq Live
    BY <2>1 DEF Live, Mine
  <2> QED
    BY <2>2, FewerFit
<1>7. CASE \E j \in Jobs : SubmitWrite(j)
  <2>1. PICK j \in Jobs : SubmitWrite(j)
    BY <1>7
  <2>2. effects' = effects /\ run' = run /\ store[j] = Absent /\ SetStore(j, [state |-> "queued", attempts |-> 0])
    BY <2>1 DEF SubmitWrite
  <2>3. ~Over(store[j])
    <3>1. Absent.state = "absent"
      BY DEF Absent
    <3> QED
      BY <2>2, <3>1 DEF Over, FinalStates
  <2>4. \A k \in Jobs : k # j => store'[k] = store[k]
    BY <2>2, SetStoreIs
  <2>5. \A k \in Jobs : Mine(k)' = Mine(k)
    BY <2>2 DEF Mine
  <2>6. Live' \subseteq Live
    BY <2>2, <2>3, <2>4, <2>5 DEF Live, LiveOf
  <2> QED
    BY <2>6, FewerFit
<1>8. CASE Crash \/ Reboot
  BY <1>8, CrashLive, FewerFit
<1> QED
  BY <1>1, <1>2, <1>3, <1>4, <1>5, <1>6, <1>7, <1>8, DaemonSteps

LEMMA OwesStep ==
    ASSUME RunsInv, Shaped, HandlersFit, OwesInv, DaemonNext
    PROVE  OwesInv'
<1>1. CASE \E e \in effects : EffectStep(e)
  BY <1>1, EffectTurns, TurnsOwes
<1>2. CASE \E j, ev, h, gone : Taken(j, ev, gone) /\ Deliver(j, ev, h, gone)
  BY <1>2, DeliverOwes
<1>3. CASE StepsAlone
  BY <1>3, AloneOwes
<1>4. ASSUME entry' = entry, effects' = effects
      PROVE  OwesInv'
  <2>1. \A k \in Jobs : Mine(k)' = Mine(k)
    BY <1>4 DEF Mine
  <2> QED
    BY <1>4, <2>1 DEF OwesInv
<1>5. CASE UNCHANGED <<entry, effects, store, run>>
  BY <1>4, <1>5
<1>6. CASE \E j \in Jobs : SubmitWrite(j) \/ CommandEnds(j) \/ ComesUp(j) \/ Exits(j) \/ SupervisorDies(j)
  BY <1>4, <1>6 DEF SubmitWrite, CommandEnds, ComesUp, Exits, SupervisorDies, Outside, mvars
<1>7. CASE \E j \in Jobs : TimePasses(j)
  <2>1. PICK j \in Jobs : TimePasses(j)
    BY <1>7
  <2>2. effects' = effects /\ entry' = [entry EXCEPT ![j].holdUntil = "passed"]
    BY <2>1 DEF TimePasses, LimitPasses, shell
  <2>3. \A k \in Jobs : Mine(k)' = Mine(k)
    BY <2>2 DEF Mine
  <2>4. ASSUME NEW k \in Jobs
        PROVE  Owed(entry'[k]) = Owed(entry[k]) /\ entry'[k].settlement = entry[k].settlement
    <3>1. entry[k] \in Entry /\ DOMAIN entry = Jobs
      BY StoredStates DEF Shaped, AllGood
    <3> DEFINE n == [entry[k] EXCEPT !.holdUntil = "passed"]
    <3>2. entry'[k] = entry[k] \/ entry'[k] = n
      BY <2>2, <3>1
    <3>3. /\ n.phase = entry[k].phase /\ n.armed = entry[k].armed /\ n.parked = entry[k].parked /\ n.waiting = entry[k].waiting
          /\ n.settlement = entry[k].settlement
      BY <3>1 DEF Entry
    <3> HIDE DEF n
    <3>4. Owed(n) = Owed(entry[k])
      BY <3>3 DEF Owed, Idles
    <3> QED
      BY <3>2, <3>3, <3>4
  <2>5. ASSUME NEW k \in Jobs
        PROVE  OwesOf(entry'[k], Mine(k)')
    <3>1. OwesOf(entry[k], Mine(k))
      BY DEF OwesInv
    <3>2. ASSUME NEW kind \in Owed(entry[k])
          PROVE  \E e \in Mine(k) : e.kind = kind /\ Pays(e, entry'[k])
      <4>1. PICK e \in Mine(k) : e.kind = kind /\ Pays(e, entry[k])
        BY <3>1, <3>2 DEF OwesOf
      <4>2. Pays(e, entry'[k])
        BY <2>4, <4>1 DEF Pays
      <4> QED
        BY <4>1, <4>2
    <3> QED
      BY <2>3, <2>4, <3>2 DEF OwesOf
  <2> QED
    BY <2>2, <2>5 DEF OwesInv
<1>8. CASE Crash \/ Reboot
  <2>1. effects' = {} /\ \A k \in Jobs : entry'[k] = NoEntry
    BY <1>8 DEF Crash, Reboot, NewDaemon, Restart
  <2>2. Owed(NoEntry) = {}
    <3>1. NoEntry.phase = "none" /\ NoEntry.armed = FALSE
      BY DEF NoEntry
    <3> QED
      BY <3>1, MainOfPhases DEF Owed
  <2> QED
    BY <2>1, <2>2 DEF OwesInv, OwesOf
<1> QED
  BY <1>1, <1>2, <1>3, <1>5, <1>6, <1>7, <1>8, DaemonSteps

-----------------------------------------------------------------------------
(* What the daemon promises of the commands, while every list can be read. *)

DaemonInv == Inv /\ ShellInv /\ RunsInv /\ LiveFits /\ OwesInv

LEMMA DaemonInvStarts == DaemonInit => DaemonInv
<1> SUFFICES ASSUME DaemonInit
             PROVE  DaemonInv
  OBVIOUS
<1>1. Inv
  <2>1. Init
    BY DEF DaemonInit
  <2> QED
    BY <2>1, NoEntryGood DEF Init, Inv, TypeOK, Coherent, Good
<1>2. ShellInv /\ RunsInv
  BY ShellStarts, RunsInit
<1>3. LiveFits /\ OwesInv
  BY LiveInit, OwesInit
<1> QED
  BY <1>1, <1>2, <1>3 DEF DaemonInv

LEMMA DaemonInvStays ==
    ASSUME DaemonInv, UNCHANGED vars
    PROVE  DaemonInv'
<1>1. /\ entry' = entry /\ recovering' = recovering /\ unread' = unread /\ store' = store /\ run' = run
      /\ effects' = effects /\ reader' = reader /\ caller' = caller /\ ran' = ran
  BY DEF vars, shell, world
<1>2. Inv'
  BY <1>1 DEF DaemonInv, Inv, TypeOK, Coherent
<1>3. ShellInv'
  BY <1>1 DEF DaemonInv, ShellInv, WorldOK
<1>4. \A j \in Jobs : Mine(j)' = Mine(j)
  BY <1>1 DEF Mine
<1>5. RunsInv'
  BY <1>1, <1>4 DEF DaemonInv, RunsInv, Calm, JobInv
<1>6. LiveFits'
  <2>1. Live' = Live
    BY <1>1, <1>4 DEF Live
  <2> QED
    BY <2>1 DEF DaemonInv, LiveFits
<1>7. OwesInv'
  BY <1>1, <1>4 DEF DaemonInv, OwesInv
<1> QED
  BY <1>2, <1>3, <1>5, <1>6, <1>7 DEF DaemonInv

LEMMA DaemonInvStep ==
    ASSUME "unlisted" \notin Troubles, DaemonInv, [DaemonNext]_vars
    PROVE  DaemonInv'
<1>1. CASE UNCHANGED vars
  BY <1>1, DaemonInvStays
<1>2. CASE DaemonNext
  <2>1. Inv /\ ShellInv /\ RunsInv /\ LiveFits /\ OwesInv
    BY DEF DaemonInv
  <2>2. ShellInv' /\ Inv'
    BY <2>1, ShellStep, InvInductive
  <2>3. Shaped /\ HandlersFit
    BY <2>1, ShapedFits
  <2>4. Shaped'
    BY <2>2 DEF Shaped, Inv, TypeOK, Coherent, AllGood, Good
  <2>5. RunsInv'
    BY <1>2, <2>1, <2>3, RunsStep
  <2>6. LiveFits'
    BY <1>2, <2>1, <2>3, <2>4, <2>5, LiveStep
  <2>7. OwesInv'
    BY <1>2, <2>1, <2>3, OwesStep
  <2> QED
    BY <2>2, <2>5, <2>6, <2>7 DEF DaemonInv
<1> QED
  BY <1>1, <1>2

\* The invariant: through every step of the loop, of an effect, of a reader, of a
\* caller and of a supervisor, and through every crash and reboot, what is under way
\* for a job agrees with its entry, its store and its run.
THEOREM DaemonKeepsInv ==
    ASSUME "unlisted" \notin Troubles
    PROVE  DaemonSafety => []DaemonInv
<1>1. DaemonInit => DaemonInv
  BY DaemonInvStarts
<1>2. DaemonInv /\ [DaemonNext]_vars => DaemonInv'
  BY DaemonInvStep
<1> QED
  BY <1>1, <1>2, PTL DEF DaemonSafety

LEMMA InvGives ==
    ASSUME DaemonInv
    PROVE  /\ RunsInv /\ Shaped /\ OnlyRunningExecutes /\ RunsOncePerAttempt /\ SpawnFindsNoRun
           /\ MachineNotShared /\ AnswersOwed
<1>1. RunsInv /\ LiveFits /\ OwesInv /\ Shaped
  BY ShapedFits DEF DaemonInv
<1>2. OnlyRunningExecutes /\ RunsOncePerAttempt /\ SpawnFindsNoRun
  BY <1>1, RunningExecutes, OncePerAttempt, SpawnsAfresh
<1>3. MachineNotShared /\ AnswersOwed
  BY <1>1, <1>2, NotShared, OwesAnswers
<1> QED
  BY <1>1, <1>2, <1>3

\* A command executes only while its store has the job running (launch.go records the
\* start before it tells the supervisor), through any crash between the two.
THEOREM ExecutesOnlyRunning ==
    ASSUME "unlisted" \notin Troubles
    PROVE  DaemonSafety => []OnlyRunningExecutes
  BY DaemonKeepsInv, InvGives, PTL

\* A command job's command begins at most once, and a check's or measurement's at most
\* once for each attempt its store counts, however often the daemon starts again.
THEOREM BeginsOncePerAttempt ==
    ASSUME "unlisted" \notin Troubles
    PROVE  DaemonSafety => []RunsOncePerAttempt
  BY DaemonKeepsInv, InvGives, PTL

\* A launch writes the record of a new run only where nothing of an earlier run is
\* left.
THEOREM SpawnOverwritesNone ==
    ASSUME "unlisted" \notin Troubles
    PROVE  DaemonSafety => []SpawnFindsNoRun
  BY DaemonKeepsInv, InvGives, PTL

\* The commands that execute at the same time fit the slots of the machine, and a
\* measurement executes alone, those of an earlier daemon included.
THEOREM CommandsFitMachine ==
    ASSUME "unlisted" \notin Troubles
    PROVE  DaemonSafety => []MachineNotShared
  BY DaemonKeepsInv, InvGives, PTL

\* Whatever the machine waits for is under way: no phase of a job is left without the
\* effect, the timer or the look that takes it on.
THEOREM AnswersComing ==
    ASSUME "unlisted" \notin Troubles
    PROVE  DaemonSafety => []AnswersOwed
  BY DaemonKeepsInv, InvGives, PTL

\* A job is recorded as succeeded only if its command ended by itself, and as lost only
\* if nothing of its run can still tell how it ended.
THEOREM EndsAreTrue ==
    ASSUME "unlisted" \notin Troubles
    PROVE  DaemonSafety => EndsTruthfully
<1>1. DaemonInv /\ [DaemonNext]_vars =>
        [\A j \in Jobs : store'[j].state # store[j].state =>
           /\ store'[j].state = "succeeded" => run[j].end = "done"
           /\ store'[j].state = "lost" => ~Alive(run[j])]_vars
  BY InvGives, EndsTruly
<1> QED
  BY <1>1, DaemonKeepsInv, PTL DEF DaemonSafety, EndsTruthfully

\* A supervisor that has the outcome of a command is let go of only once the store has
\* the job's end.
THEOREM OutcomesKept ==
    ASSUME "unlisted" \notin Troubles
    PROVE  DaemonSafety => OutcomeKept
<1>1. DaemonInv /\ [DaemonNext]_vars =>
        [\A j \in Jobs : run[j].proc = "finished" /\ run'[j].proc = "released"
                             => store[j].state \in FinalStates]_vars
  BY InvGives, KeepsOutcomes
<1> QED
  BY <1>1, DaemonKeepsInv, PTL DEF DaemonSafety, OutcomeKept
=============================================================================
