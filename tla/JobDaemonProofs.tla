--------------------------- MODULE JobDaemonProofs --------------------------
(***************************************************************************)
(* The machine, and that the daemon implements it.                         *)
(*                                                                         *)
(* The first part is about Lifecycle alone, for every set of jobs, stores, *)
(* kinds and slots: every entry stays coherent, a decided end stands, an   *)
(* exclusive job starts alone, and no job is stranded.  The second part    *)
(* shows that every step of JobDaemon is a step of Lifecycle, or leaves    *)
(* the machine alone.  What the shell tells the machine has to be an event *)
(* of Lifecycle, so its invariant is about the messages in effects and     *)
(* readers and the state they are made from (ShellInv).                    *)
(***************************************************************************)
EXTENDS DaemonRuns, FiniteSetTheorems, WellFoundedInduction, TLAPS

\* Zenon proves a step that names no prover.
USE Zenon

\* Every nonempty set of naturals has a least element.
LEMMA LeastNatural ==
    ASSUME NEW T, T \subseteq Nat, T # {}
    PROVE  \E x \in T : \A y \in T : x <= y
<1> DEFINE R == OpToRel(<, Nat)
<1>1. IsWellFoundedOn(R, Nat)
  BY NatLessThanWellFounded
<1>2. \A x, y \in Nat : <<y, x>> \in R <=> y < x
  BY DEF OpToRel
<1> HIDE DEF R
<1>3. PICK x \in T : \A y \in T : ~(<<y, x>> \in R)
  BY <1>1, WFMin
<1>4. \A y \in T : ~(y < x)
  BY <1>2, <1>3
<1> QED
  BY <1>4, SMT

-----------------------------------------------------------------------------
(* What a handler leaves of an entry. *)

LEMMA NoEntryGood == Good(NoEntry)
  BY AttemptsAssumption, SMT DEF Good, NoEntry, Entry, CoherentEntry, NoSettlement, Requeues, Phases, Ending

\* The settlements the machine decides are settlements.
LEMMA SettlementsTyped ==
    /\ cancelQueued \in Settlement /\ cancelQueued # NoSettlement /\ ~Requeues(cancelQueued)
    /\ failedToLaunch \in Settlement /\ ~Requeues(failedToLaunch)
    /\ \A to \in FinalStates : Ended(to) \in Settlement /\ ~Requeues(Ended(to))
    /\ NoSettlement \notin Settlement
  BY DEF cancelQueued, NoSettlement, Requeues, Settlement, failedToLaunch, FinalStates, Ended

\* A job whose end is not decided has no settlement and may still be spawned.
LEMMA Undecided ==
    ASSUME NEW c, Good(c), c.phase \notin Ending
    PROVE  /\ c.settlement = NoSettlement
           /\ c.spawnFailures \in 0 .. MaxAttempts /\ c.spawnFailures < MaxAttempts
           /\ c.attempts \in 0 .. MaxAttempts /\ c.attempts < MaxAttempts
           /\ c.leased => c.phase = "queued" /\ c.waiting
<1>1. /\ c.settlement = NoSettlement
      /\ c.spawnFailures \in 0 .. MaxAttempts
      /\ c.attempts \in 0 .. MaxAttempts /\ c.attempts < MaxAttempts
  BY DEF Good, Entry, CoherentEntry
<1>2. /\ c.spawnFailures = MaxAttempts => c.settlement = failedToLaunch
      /\ c.leased => (c.phase = "queued" /\ c.waiting) \/ c.settlement = cancelQueued
  BY DEF Good, CoherentEntry
<1>3. NoSettlement # failedToLaunch /\ NoSettlement # cancelQueued
  BY SettlementsTyped
<1> QED
  BY <1>1, <1>2, <1>3, AttemptsAssumption, SMT

LEMMA SettleGood ==
    ASSUME NEW j, NEW c, Good(c), NEW st \in Settlement, ~Requeues(st), ~c.parked,
           c.phase \in {"launching", "running", "stopping"}
    PROVE  Good(settle(j, c, st).e)
<1> DEFINE n == [c EXCEPT !.phase = "settling", !.settlement = st, !.release = TRUE]
<1>1. ~c.leased /\ c.spawnFailures # MaxAttempts
  BY Undecided, SMT DEF Ending
<1>2. n \in Entry
  BY DEF Good, Entry, Phases
<1>3. CoherentEntry(n)
  BY <1>1, SettlementsTyped DEF Good, Entry, CoherentEntry, Ending
<1> QED
  BY <1>2, <1>3 DEF settle, Result, Good

LEMMA AwaitRetryGood ==
    ASSUME NEW j, NEW c, Good(c), c.phase # "none"
    PROVE  Good(awaitRetry(j, c).e)
  BY ZenonT(60) DEF Good, awaitRetry, Result, Entry, CoherentEntry

LEMMA CancelQueuedGood ==
    ASSUME NEW j, NEW c, Good(c), c.phase \in {"queued", "discarding"}
    PROVE  Good(cancelQueuedJob(j, c).e)
<1> DEFINE n == [c EXCEPT !.phase = "cancelling", !.settlement = cancelQueued, !.release = FALSE]
<1>1. c.spawnFailures # MaxAttempts
  BY Undecided, SMT DEF Ending
<1>2. n \in Entry
  BY SettlementsTyped DEF Good, Entry, Phases
<1>3. CoherentEntry(n)
  BY <1>1, SettlementsTyped DEF Good, Entry, CoherentEntry, Ending
<1> QED
  BY <1>2, <1>3 DEF cancelQueuedJob, Result, Good


LEMMA LaunchFailedGood ==
    ASSUME NEW j \in Jobs, NEW c, Good(c), NEW cause \in Causes
    PROVE  Good(OnLaunchFailed(j, c, cause).e)
<1>1. CASE c.phase # "launching"
  BY <1>1 DEF OnLaunchFailed, Ignore, Result
<1>2. CASE c.phase = "launching" /\ c.cancelAsked
  <2>1. Ended("cancelled") \in Settlement /\ ~Requeues(Ended("cancelled"))
    BY SettlementsTyped DEF FinalStates
  <2> DEFINE st == IF cause = "store away" THEN Ended("cancelled") ELSE cancelQueued
  <2>2. st \in Settlement /\ ~Requeues(st)
    BY <2>1, SettlementsTyped
  <2>3. OnLaunchFailed(j, c, cause).e = settle(j, c, st).e
    BY <1>2 DEF OnLaunchFailed
  <2>4. ~c.parked
    BY <1>2 DEF Good, CoherentEntry
  <2> QED
    BY <1>2, <2>2, <2>3, <2>4, SettleGood
<1>3. CASE c.phase = "launching" /\ ~c.cancelAsked /\ cause = "store away"
  <2> DEFINE d == [c EXCEPT !.phase = "indoubt"]
  <2>1. Good(d) /\ d.phase # "none"
    BY <1>3 DEF Good, Entry, CoherentEntry, Phases, Ending, NoEntry
  <2>2. OnLaunchFailed(j, c, cause).e = awaitRetry(j, d).e
    BY <1>3 DEF OnLaunchFailed
  <2> QED
    BY <2>1, <2>2, AwaitRetryGood
<1>4. CASE c.phase = "launching" /\ ~c.cancelAsked /\ cause = "supervisor silent"
  <2> DEFINE n == c.spawnFailures + 1
             again == [c EXCEPT !.spawnFailures = n]
  <2>1. again.spawnFailures = n /\ n \in 0 .. MaxAttempts
    <3>1. c.spawnFailures \in 0 .. MaxAttempts /\ c.spawnFailures < MaxAttempts
      BY <1>4, Undecided DEF Ending
    <3>2. again.spawnFailures = n
      BY DEF Good, Entry
    <3> QED
      BY <3>1, <3>2, AttemptsAssumption, SMT
  <2>2. CASE n < MaxAttempts
    <3>1. OnLaunchFailed(j, c, cause).e = [c EXCEPT !.spawnFailures = n, !.phase = "discarding"]
      BY <1>4, <2>1, <2>2 DEF OnLaunchFailed, Result
    <3> DEFINE d == [c EXCEPT !.spawnFailures = n, !.phase = "discarding"]
    <3>2. ~c.leased
      BY <1>4, Undecided DEF Ending
    <3> HIDE DEF n, again
    <3>5. n # MaxAttempts
      BY <2>1, <2>2, AttemptsAssumption, SMT
    <3>3. d \in Entry
      BY <2>1 DEF Good, Entry, Phases
    <3>4. CoherentEntry(d)
      BY <1>4, <3>2, <3>5 DEF Good, Entry, CoherentEntry, Ending
    <3> QED
      BY <3>1, <3>3, <3>4 DEF Good
  <2>3. CASE ~(n < MaxAttempts)
    <3>1. OnLaunchFailed(j, c, cause).e =
            [c EXCEPT !.spawnFailures = n, !.phase = "settling",
                      !.settlement = failedToLaunch, !.release = TRUE]
      BY <1>4, <2>1, <2>3 DEF OnLaunchFailed, Result, settle
    <3>2. failedToLaunch \in Settlement /\ ~Requeues(failedToLaunch) /\ failedToLaunch # NoSettlement
      BY SettlementsTyped
    <3> DEFINE d == [c EXCEPT !.spawnFailures = n, !.phase = "settling",
                              !.settlement = failedToLaunch, !.release = TRUE]
    <3> HIDE DEF n, again
    <3>3. d \in Entry
      BY <2>1, <3>2 DEF Good, Entry, Phases
    <3>4. ~c.leased
      BY <1>4, Undecided DEF Ending
    <3>5. CoherentEntry(d)
      BY <1>4, <3>2, <3>4 DEF Good, Entry, CoherentEntry, Ending
    <3> QED
      BY <3>1, <3>3, <3>5 DEF Good
  <2> QED
    BY <2>2, <2>3
<1>5. CASE c.phase = "launching" /\ ~c.cancelAsked /\ cause \in {"refused", "unprepared"}
  <2>1. OnLaunchFailed(j, c, cause).e = settle(j, c, failedToLaunch).e
    BY <1>5 DEF OnLaunchFailed
  <2>2. ~c.parked
    BY <1>5 DEF Good, CoherentEntry
  <2> QED
    BY <1>5, <2>1, <2>2, SettleGood, SettlementsTyped
<1> QED
  BY <1>1, <1>2, <1>3, <1>4, <1>5 DEF Causes

LEMMA PlaceFields ==
    ASSUME NEW c \in Entry, NEW f, NEW phase
    PROVE  LET n == place(c, f, phase) IN
           /\ n.phase = phase /\ ~n.waiting /\ ~n.holds /\ ~n.parked /\ ~n.leased
           /\ n.settlement = c.settlement /\ n.cancelSent = c.cancelSent
           /\ n.cancelAsked = c.cancelAsked /\ n.spawnFailures = c.spawnFailures
           /\ n.attempts = IF JobIn(f) THEN f.attempts ELSE c.attempts
           /\ phase # "indoubt" => n.holdUntil = "zero"
  BY DEF place, Entry

LEMMA FindingAttempts ==
    ASSUME NEW f \in Finding
    PROVE  f.attempts \in 0 .. MaxAttempts - 1
<1>1. f.attempts \in {0} \/ f.attempts \in 0 .. MaxAttempts - 1
  BY DEF Finding
<1> QED
  BY <1>1, AttemptsAssumption, SMT

LEMMA PlaceTyped ==
    ASSUME NEW c \in Entry, NEW f \in Finding,
           NEW phase \in {"queued", "discarding", "running", "indoubt"}
    PROVE  place(c, f, phase) \in Entry
<1> DEFINE n == place(c, f, phase)
           dated == IF c.phase = "none" THEN JobIn(f) ELSE c.dated
           told == c.told \/ JobIn(f)
           attempts == IF JobIn(f) THEN f.attempts ELSE c.attempts
           until == IF phase = "indoubt" THEN c.holdUntil ELSE "zero"
<1>1. dated \in BOOLEAN /\ told \in BOOLEAN
  <2>1. JobIn(f) \in BOOLEAN
    BY SMT DEF JobIn
  <2>2. c.dated \in BOOLEAN /\ c.told \in BOOLEAN
    BY DEF Entry
  <2> QED
    BY <2>1, <2>2
<1>2. attempts \in 0 .. MaxAttempts /\ until \in {"zero", "ahead", "passed"}
  BY FindingAttempts, AttemptsAssumption, SMT DEF Entry
<1>3. n = [c EXCEPT !.phase = phase, !.dated = dated, !.attempts = attempts, !.told = told,
                    !.waiting = FALSE, !.holds = FALSE, !.parked = FALSE, !.leased = FALSE,
                    !.holdUntil = until]
  BY DEF place, Entry
<1> HIDE DEF dated, told, attempts, until, n
<1>4. [c EXCEPT !.phase = phase, !.dated = dated, !.attempts = attempts, !.told = told,
                !.waiting = FALSE, !.holds = FALSE, !.parked = FALSE, !.leased = FALSE,
                !.holdUntil = until] \in Entry
  BY <1>1, <1>2, ZenonT(30) DEF Entry, Phases
<1> QED
  BY <1>3, <1>4 DEF n

LEMMA PlaceGood ==
    ASSUME NEW c, Good(c), NEW f \in Finding, NEW phase \in {"queued", "discarding", "running", "indoubt"},
           c.phase \in {"none", "queued", "indoubt"}, phase = "queued" => ~c.cancelAsked
    PROVE  Good(place(c, f, phase))
<1> DEFINE n == place(c, f, phase)
<1>1. f.attempts \in 0 .. MaxAttempts - 1
  BY FindingAttempts
<1>2. n \in Entry
  BY PlaceTyped DEF Good
<1>3. /\ n.phase = phase /\ ~n.waiting /\ ~n.holds /\ ~n.parked /\ ~n.leased
      /\ n.settlement = c.settlement /\ n.cancelSent = c.cancelSent /\ n.cancelAsked = c.cancelAsked
      /\ n.spawnFailures = c.spawnFailures
      /\ n.attempts = IF JobIn(f) THEN f.attempts ELSE c.attempts
      /\ phase # "indoubt" => n.holdUntil = "zero"
  BY PlaceFields, SMT DEF Good
<1>4. c.settlement = NoSettlement /\ c.spawnFailures < MaxAttempts /\ c.attempts < MaxAttempts
      /\ (c.cancelSent => c.cancelAsked)
  BY Undecided DEF Good, CoherentEntry, Ending
<1> HIDE DEF n
<1>5. ~Requeues(NoSettlement)
  BY DEF Requeues, NoSettlement
<1>6. CoherentEntry(n)
  BY <1>1, <1>2, <1>3, <1>4, <1>5, AttemptsAssumption, SMT DEF CoherentEntry, Ending
<1> QED
  BY <1>2, <1>6 DEF Good, n

LEMMA JudgeHoldGood ==
    ASSUME NEW c, Good(c), NEW p, c.phase \in {"indoubt", "left"}, ~c.parked
    PROVE  Good(judgeHold(c, p))
<1>1. ~c.leased /\ c.spawnFailures # MaxAttempts
  BY Undecided, AttemptsAssumption, SMT DEF Ending
<1>2. CASE p.run \notin {"running", "unknown"}
  BY <1>1, <1>2 DEF Good, judgeHold, Entry, CoherentEntry
<1>3. CASE p.run \in {"running", "unknown"}
  BY <1>1, <1>3, ZenonT(60), SMT DEF Good, judgeHold, Entry, CoherentEntry
<1> QED
  BY <1>2, <1>3

LEMMA SignalCancelGood ==
    ASSUME NEW j, NEW c, Good(c), c.phase # "none"
    PROVE  Good(signalCancel(j, c).e)
<1>1. CASE c.cancelAsked /\ ~c.cancelSent
  <2>1. signalCancel(j, c).e = [c EXCEPT !.cancelSent = TRUE]
    BY <1>1 DEF signalCancel, Result
  <2> QED
    BY <1>1, <2>1, ZenonT(60), SMT DEF Good, Entry, CoherentEntry
<1>2. CASE ~(c.cancelAsked /\ ~c.cancelSent)
  BY <1>2 DEF signalCancel, Ignore, Result
<1> QED
  BY <1>1, <1>2

LEMMA CutOffGood ==
    ASSUME NEW j \in Jobs, NEW c, Good(c), c.phase = "running", NEW proof, NEW started
    PROVE  Good(cutOff(j, c, proof, started).e)
<1> DEFINE st == CutOff(j \in Rerun, c.attempts, proof, started)
<1>1. CASE c.cancelAsked \/ ~Requeues(st)
  <2>1. cutOff(j, c, proof, started).e = settle(j, c, lostJob).e
    BY <1>1 DEF cutOff
  <2>2. ~c.parked
    BY DEF Good, CoherentEntry
  <2>3. lostJob \in Settlement /\ ~Requeues(lostJob)
    BY SettlementsTyped DEF lostJob, FinalStates
  <2> QED
    BY <2>1, <2>2, <2>3, SettleGood
<1>2. CASE ~(c.cancelAsked \/ ~Requeues(st))
  <2>1. cutOff(j, c, proof, started).e =
           [c EXCEPT !.phase = "settling", !.settlement = st, !.release = FALSE]
    BY <1>2 DEF cutOff, Result
  <2>2. st = Ended("queued") /\ c.attempts + 1 < MaxAttempts
    BY <1>2 DEF CutOff, Requeues, lostJob, Ended
  <2>3. st \in Settlement /\ st # NoSettlement /\ st.from = "running"
    BY <2>2, SMT DEF Ended, Settlement, NoSettlement
  <2>4. ~c.leased /\ c.spawnFailures # MaxAttempts
    BY Undecided, AttemptsAssumption, SMT DEF Ending
  <2> DEFINE n == [c EXCEPT !.phase = "settling", !.settlement = st, !.release = FALSE]
  <2> HIDE DEF st
  <2>5. n \in Entry
    BY <2>3 DEF Good, Entry, Phases
  <2>6. CoherentEntry(n)
    BY <2>2, <2>3, <2>4 DEF Good, Entry, CoherentEntry, Ending
  <2> QED
    BY <2>1, <2>5, <2>6 DEF Good
<1> QED
  BY <1>1, <1>2

LEMMA InDoubtGood ==
    ASSUME NEW j, NEW c, Good(c), NEW f \in Finding, NEW p, c.phase \in {"none", "queued", "indoubt"}
    PROVE  Good(inDoubt(j, c, f, p).e)
<1> DEFINE d == place(c, f, "indoubt")
           h == judgeHold(d, p)
           w == awaitRetry(j, h)
<1>1. Good(d) /\ d.phase = "indoubt" /\ ~d.parked
  <2>1. Good(d)
    BY PlaceGood
  <2> QED
    BY <2>1, PlaceFields, SMT DEF Good
<1>2. Good(h) /\ h.phase = "indoubt"
  <2>1. Good(h)
    BY <1>1, JudgeHoldGood, SMT
  <2>2. h.phase = d.phase
    BY <1>1 DEF judgeHold, Good, Entry
  <2> QED
    BY <1>1, <2>1, <2>2
<1>3. Good(w.e) /\ w.e.phase = "indoubt"
  <2>1. Good(w.e)
    BY <1>2, AwaitRetryGood
  <2>2. w.e.phase = h.phase
    BY <1>2 DEF awaitRetry, Result, Good, Entry
  <2> QED
    BY <1>2, <2>1, <2>2
<1>4. Good(signalCancel(j, w.e).e)
  BY <1>3, SignalCancelGood
<1> HIDE DEF d, h
<1> QED
  BY <1>3, <1>4 DEF inDoubt, Result, d, h

LEMMA PlacedGood ==
    ASSUME NEW c, Good(c), NEW f \in Finding, c.phase \in {"none", "indoubt"}
    PROVE  LET n == place(c, f, "running") IN Good(n) /\ n.phase = "running" /\ ~n.parked
<1>1. Good(place(c, f, "running"))
  BY PlaceGood
<1> QED
  BY <1>1, PlaceFields, SMT DEF Good

LEMMA DoubtUnlessGivenUpGood ==
    ASSUME NEW j, NEW c, Good(c), NEW f \in Finding, NEW p, c.phase \in {"none", "indoubt"}
    PROVE  Good(doubtUnlessGivenUp(j, c, f, p).e)
<1>1. Good(inDoubt(j, c, f, p).e)
  BY InDoubtGood, SMT
<1>2. givenUpJob \in Settlement /\ ~Requeues(givenUpJob)
  BY SettlementsTyped DEF givenUpJob, FinalStates
<1>3. Good(settle(j, place(c, f, "running"), givenUpJob).e)
  BY <1>2, PlacedGood, SettleGood
<1> QED
  BY <1>1, <1>3 DEF doubtUnlessGivenUp

LEMMA RecoverRunningGood ==
    ASSUME NEW j \in Jobs, NEW c, Good(c), NEW f \in Finding, f.job = "running", NEW p \in Presence,
           c.phase \in {"none", "indoubt"}
    PROVE  Good(recoverRunning(j, c, f, p).e)
<1> DEFINE n == place(c, f, "running")
<1>1. Good(n) /\ n.phase = "running"
  BY PlacedGood
<1>2. CASE p.run = "parked"
  <2> DEFINE d == place(c, f, "indoubt")
  <2>1. recoverRunning(j, c, f, p).e = [d EXCEPT !.parked = TRUE]
    BY <1>2 DEF recoverRunning, Ignore, Result
  <2>2. Good(d)
    BY PlaceGood
  <2>3. d.phase = "indoubt" /\ ~d.holds /\ d.told
    BY DEF place, Good, Entry, JobIn, JobStates
  <2> HIDE DEF d
  <2>4. Good([d EXCEPT !.parked = TRUE])
    BY <2>2, <2>3, ZenonT(60), SMT DEF Good, Entry, CoherentEntry
  <2> QED
    BY <2>1, <2>4
<1>3. CASE Answers(p) /\ p.run # "parked"
  <2>1. recoverRunning(j, c, f, p).e = [n EXCEPT !.cancelSent = n.cancelAsked]
    BY <1>3 DEF recoverRunning, Result, Answers
  <2> HIDE DEF n
  <2>2. Good([n EXCEPT !.cancelSent = n.cancelAsked])
    BY <1>1, SMT DEF Good, Entry, CoherentEntry
  <2> QED
    BY <2>1, <2>2
<1>4. CASE p.run = "dead" /\ ValidProof(p.proof)
  <2>1. recoverRunning(j, c, f, p).e = cutOff(j, n, p.proof, p.start).e
    BY <1>4 DEF recoverRunning, Answers
  <2> QED
    BY <1>1, <2>1, CutOffGood
<1>5. CASE /\ p.run # "parked" /\ ~(Answers(p) /\ p.run # "parked")
           /\ ~(p.run = "dead" /\ ValidProof(p.proof))
  <2>1. recoverRunning(j, c, f, p).e = doubtUnlessGivenUp(j, c, f, p).e
    BY <1>5 DEF recoverRunning
  <2> QED
    BY <2>1, DoubtUnlessGivenUpGood, SMT
<1> QED
  BY <1>2, <1>3, <1>4, <1>5

LEMMA RecoverQueuedAfreshGood ==
    ASSUME NEW j \in Jobs, NEW c, Good(c), NEW f \in Finding, NEW p \in Presence,
           c.phase \in {"none", "queued", "indoubt"}
    PROVE  Good(recoverQueuedAfresh(j, c, f, p).e)
<1> DEFINE n == place(c, f, "queued")
<1>0. n.phase = "queued" /\ n.cancelAsked = c.cancelAsked /\ c.cancelAsked \in BOOLEAN
  BY DEF place, Good, Entry
<1>1. CASE p.run = "none" /\ ~c.cancelAsked
  <2>1. recoverQueuedAfresh(j, c, f, p).e = n
    BY <1>0, <1>1 DEF recoverQueuedAfresh, Ignore, Result, Answers
  <2> QED
    BY <1>1, <2>1, PlaceGood
<1>2. CASE p.run = "none" /\ c.cancelAsked
  <2>1. recoverQueuedAfresh(j, c, f, p).e = cancelQueuedJob(j, n).e
    BY <1>0, <1>2 DEF recoverQueuedAfresh, Answers
  <2> DEFINE d == place(c, f, "discarding")
  <2>2. Good(d) /\ d.phase = "discarding"
    <3>1. Good(d)
      BY PlaceGood
    <3> QED
      BY <3>1, PlaceFields, SMT DEF Good
  <2>3. Good(cancelQueuedJob(j, d).e)
    BY <2>2, CancelQueuedGood
  <2>4. cancelQueuedJob(j, n).e = cancelQueuedJob(j, d).e
    <3>1. n = [d EXCEPT !.phase = "queued"]
      BY ZenonT(60) DEF place, Good, Entry
    <3>2. d \in Entry
      BY <2>2 DEF Good
    <3> HIDE DEF n, d
    <3> QED
      BY <3>1, <3>2 DEF cancelQueuedJob, Result, Entry
  <2> QED
    BY <2>1, <2>3, <2>4
<1>3. CASE Answers(p) \/ p.run = "dead"
  <2>1. recoverQueuedAfresh(j, c, f, p).e = place(c, f, "discarding")
    BY <1>3 DEF recoverQueuedAfresh, Result, Answers
  <2> QED
    BY <2>1, PlaceGood
<1>4. CASE p.run # "none" /\ ~(Answers(p) \/ p.run = "dead")
  <2>1. recoverQueuedAfresh(j, c, f, p).e = inDoubt(j, c, f, p).e
    BY <1>4 DEF recoverQueuedAfresh
  <2> QED
    BY <2>1, InDoubtGood, SMT
<1> QED
  BY <1>0, <1>1, <1>2, <1>3, <1>4

LEMMA RecoverLeftGood ==
    ASSUME NEW j, NEW c, Good(c), c.phase = "left", NEW p
    PROVE  Good(recoverLeft(j, c, p).e)
<1> DEFINE n == judgeHold(c, p)
<1>1. Good(n) /\ n.phase = "left"
  <2>1. ~c.parked
    BY DEF Good, CoherentEntry
  <2>2. n.phase = c.phase
    BY DEF judgeHold, Good, Entry
  <2> QED
    BY <2>1, <2>2, JudgeHoldGood, SMT
<1>2. Good(awaitRetry(j, n).e)
  BY <1>1, AwaitRetryGood
<1> HIDE DEF n
<1> QED
  BY <1>2, NoEntryGood DEF recoverLeft, Ignore, Result, n

LEMMA RecoveredGood ==
    ASSUME NEW j \in Jobs, NEW c, Good(c), NEW f \in Finding, NEW p \in Presence
    PROVE  Good(OnRecovered(j, c, f, p).e)
<1> DEFINE h == OnRecovered(j, c, f, p).e
<1>1. CASE c.phase = "queued"
  <2>1. h = IF f.job = "queued" THEN recoverQueuedAfresh(j, c, f, p).e ELSE c
    BY <1>1 DEF OnRecovered, Ignore, Result
  <2> QED
    BY <1>1, <2>1, RecoverQueuedAfreshGood
<1>2. CASE c.phase = "left"
  <2>1. h = recoverLeft(j, c, p).e
    BY <1>2 DEF OnRecovered
  <2> QED
    BY <1>2, <2>1, RecoverLeftGood
<1>3. CASE c.phase \in {"none", "indoubt"}
  <2>1. CASE f.job = "queued"
    <3>1. h = recoverQueuedAfresh(j, c, f, p).e
      BY <1>3, <2>1 DEF OnRecovered, FinalStates
    <3> QED
      BY <1>3, <3>1, RecoverQueuedAfreshGood
  <2>2. CASE f.job = "running"
    <3>1. h = recoverRunning(j, c, f, p).e
      BY <1>3, <2>2 DEF OnRecovered, FinalStates
    <3> QED
      BY <1>3, <2>2, <3>1, RecoverRunningGood
  <2>3. CASE f.job \in FinalStates \cup {"no such job"}
    <3>1. h = NoEntry
      BY <1>3, <2>3 DEF OnRecovered, FinalStates, recoverEnded, Result
    <3> QED
      BY <3>1, NoEntryGood
  <2>4. CASE f.job = "away" /\ p.run = "none" /\ c.phase = "none"
    <3>1. h = c
      BY <1>3, <2>4 DEF OnRecovered, FinalStates, Ignore, Result
    <3> QED
      BY <3>1
  <2>5. CASE /\ f.job \notin {"queued", "running"} \cup FinalStates \cup {"no such job"}
             /\ ~(f.job = "away" /\ p.run = "none" /\ c.phase = "none")
    <3>1. h = inDoubt(j, c, f, p).e
      BY <1>3, <2>5 DEF OnRecovered, FinalStates
    <3> QED
      BY <1>3, <3>1, InDoubtGood, SMT
  <2> QED
    BY <2>1, <2>2, <2>3, <2>4, <2>5
<1>4. CASE c.phase \notin {"none", "queued", "indoubt", "left"}
  BY <1>4 DEF OnRecovered, Ignore, Result
<1> QED
  BY <1>1, <1>2, <1>3, <1>4

LEMMA AdmitGood ==
    ASSUME NEW c, Good(c), NEW told \in BOOLEAN, NEW a \in 0 .. MaxAttempts - 1
    PROVE  Good(admit(c, told, a))
<1>1. CASE c.phase = "none"
  <2> DEFINE n == [NoEntry EXCEPT !.phase = "queued", !.dated = TRUE, !.told = told, !.attempts = a]
  <2>1. admit(c, told, a) = n
    BY <1>1 DEF admit
  <2>2. n \in Entry
    <3>1. NoEntry \in Entry /\ a \in 0 .. MaxAttempts
      BY NoEntryGood, AttemptsAssumption, SMT DEF Good
    <3> QED
      BY <3>1 DEF Entry, Phases
  <2>3. CoherentEntry(n)
    BY AttemptsAssumption, SMT DEF CoherentEntry, NoEntry, Ending, Requeues, NoSettlement
  <2> QED
    BY <2>1, <2>2, <2>3 DEF Good
<1>2. CASE c.phase # "none"
  BY <1>2 DEF admit
<1> QED
  BY <1>1, <1>2

LEMMA CancelAskedGood ==
    ASSUME NEW j \in Jobs, NEW c, Good(c), NEW state \in JobStates
    PROVE  Good(OnCancelAsked(j, c, state).e)
<1> DEFINE n == IF state = "queued" THEN admit(c, FALSE, 0) ELSE c
           h == OnCancelAsked(j, c, state).e
<1>1. Good(n)
  <2>1. 0 \in 0 .. MaxAttempts - 1
    BY AttemptsAssumption, SMT
  <2> QED
    BY <2>1, AdmitGood
<1>2. h = (CASE n.phase = "queued" -> cancelQueuedJob(j, markCancel(n))
             [] n.phase \in {"discarding", "launching", "indoubt"} -> Ignore(markCancel(n))
             [] n.phase = "running" -> signalCancel(j, markCancel(n))
             [] n.phase \in {"settling", "unrecorded"} /\ Requeues(n.settlement) -> Ignore(markCancel(n))
             [] OTHER -> Ignore(n)).e
  BY DEF OnCancelAsked
<1> HIDE DEF n, h
<1>3. CASE n.phase = "queued"
  <2> DEFINE d == [n EXCEPT !.phase = "cancelling", !.settlement = cancelQueued,
                            !.release = FALSE, !.cancelAsked = TRUE]
  <2>1. h = d
    BY <1>1, <1>2, <1>3 DEF cancelQueuedJob, markCancel, Result, Good, Entry
  <2>2. d \in Entry
    BY <1>1, SettlementsTyped DEF Good, Entry, Phases
  <2>3. CoherentEntry(d)
    BY <1>1, <1>3, SettlementsTyped DEF Good, Entry, CoherentEntry, Ending
  <2> QED
    BY <2>1, <2>2, <2>3 DEF Good, h
<1>4. n.phase \notin {"none", "queued"} => Good(markCancel(n)) /\ markCancel(n).phase = n.phase
  BY <1>1 DEF Good, Entry, CoherentEntry, markCancel
<1>5. CASE n.phase \in {"discarding", "launching", "indoubt"}
  BY <1>2, <1>4, <1>5 DEF Ignore, Result, h
<1>6. CASE n.phase = "running"
  <2>1. h = signalCancel(j, markCancel(n)).e
    BY <1>2, <1>6
  <2>2. Good(markCancel(n)) /\ markCancel(n).phase # "none"
    BY <1>4, <1>6
  <2> QED
    BY <2>1, <2>2, SignalCancelGood DEF h
<1>7. CASE n.phase \in {"settling", "unrecorded"} /\ Requeues(n.settlement)
  BY <1>2, <1>4, <1>7 DEF Ignore, Result, h
<1>8. CASE /\ n.phase \notin {"queued", "discarding", "launching", "indoubt", "running"}
           /\ ~(n.phase \in {"settling", "unrecorded"} /\ Requeues(n.settlement))
  BY <1>1, <1>2, <1>8 DEF Ignore, Result, h
<1> QED
  BY <1>3, <1>5, <1>6, <1>7, <1>8

LEMMA DiscardedGood ==
    ASSUME NEW j, NEW c, Good(c)
    PROVE  Good(OnDiscarded(j, c).e)
<1> DEFINE n == [c EXCEPT !.phase = "queued"]
<1>1. CASE c.phase # "discarding"
  BY <1>1 DEF OnDiscarded, Ignore, Result
<1>2. CASE c.phase = "discarding" /\ c.cancelAsked
  <2>1. OnDiscarded(j, c).e = cancelQueuedJob(j, c).e
    BY <1>2 DEF OnDiscarded, cancelQueuedJob, Result, Good, Entry
  <2> QED
    BY <1>2, <2>1, CancelQueuedGood
<1>3. CASE c.phase = "discarding" /\ ~c.cancelAsked
  <2>1. OnDiscarded(j, c).e = n
    BY <1>3 DEF OnDiscarded, Ignore, Result
  <2>2. Good(n)
    BY <1>3 DEF Good, Entry, CoherentEntry, Phases, Ending
  <2> QED
    BY <2>1, <2>2
<1> QED
  BY <1>1, <1>2, <1>3

LEMMA LaunchedGood ==
    ASSUME NEW j, NEW c, Good(c)
    PROVE  Good(OnLaunched(j, c).e)
<1> DEFINE n == [c EXCEPT !.phase = "running", !.cancelSent = c.cancelAsked]
<1>1. c.phase = "launching" => Good(n)
  BY DEF Good, Entry, CoherentEntry, Phases, Ending
<1> QED
  BY <1>1 DEF OnLaunched, Ignore, Result

LEMMA LeaseRefusedGood ==
    ASSUME NEW j, NEW c, Good(c)
    PROVE  Good(OnLeaseRefused(j, c).e)
<1>1. CASE c.phase # "launching"
  BY <1>1 DEF OnLeaseRefused, Ignore, Result
<1>2. CASE c.phase = "launching" /\ c.cancelAsked
  <2>1. OnLeaseRefused(j, c).e = settle(j, c, cancelQueued).e
    BY <1>2 DEF OnLeaseRefused
  <2>2. ~c.parked
    BY <1>2 DEF Good, CoherentEntry
  <2> QED
    BY <1>2, <2>1, <2>2, SettleGood, SettlementsTyped
<1>3. CASE c.phase = "launching" /\ ~c.cancelAsked
  <2> DEFINE n == [c EXCEPT !.phase = "queued", !.leased = TRUE, !.waiting = TRUE, !.armed = TRUE]
  <2>1. OnLeaseRefused(j, c).e = n
    BY <1>3 DEF OnLeaseRefused, awaitRetry, Result, Good, Entry
  <2>2. Good(n)
    BY <1>3 DEF Good, Entry, CoherentEntry, Phases, Ending
  <2> QED
    BY <2>1, <2>2
<1> QED
  BY <1>1, <1>2, <1>3

LEMMA OutcomeSettles ==
    ASSUME NEW o \in Outcome
    PROVE  \E to \in FinalStates : SettleOutcome(o) = Ended(to)
  BY SMT DEF SettleOutcome, settleAttempt, settleVerdict, settleRan, FinalStates

LEMMA FinishedGood ==
    ASSUME NEW j, NEW c, Good(c), NEW o \in Outcome
    PROVE  Good(OnFinished(j, c, o).e)
<1>1. CASE c.phase = "running"
  <2>1. OnFinished(j, c, o).e = settle(j, c, SettleOutcome(o)).e
    BY <1>1 DEF OnFinished
  <2>2. SettleOutcome(o) \in Settlement /\ ~Requeues(SettleOutcome(o))
    BY OutcomeSettles, SettlementsTyped
  <2>3. ~c.parked
    BY <1>1 DEF Good, CoherentEntry
  <2> QED
    BY <1>1, <2>1, <2>2, <2>3, SettleGood
<1>2. CASE c.phase = "stopping"
  <2>1. OnFinished(j, c, o).e = settle(j, c, stoppedJob).e
    BY <1>2 DEF OnFinished
  <2>2. stoppedJob \in Settlement /\ ~Requeues(stoppedJob)
    BY SettlementsTyped DEF stoppedJob, FinalStates
  <2>3. ~c.parked
    BY <1>2 DEF Good, CoherentEntry
  <2> QED
    BY <1>2, <2>1, <2>2, <2>3, SettleGood
<1>3. CASE c.phase \notin {"running", "stopping"}
  BY <1>3 DEF OnFinished, Ignore, Result
<1> QED
  BY <1>1, <1>2, <1>3

LEMMA LookAgainGood ==
    ASSUME NEW j, NEW c, Good(c), c.phase \in {"running", "stopping"}
    PROVE  Good(lookAgain(j, c).e)
  BY DEF lookAgain, Result, Good, Entry, CoherentEntry, Phases, Ending

LEMMA SupervisorLostGood ==
    ASSUME NEW j \in Jobs, NEW c, Good(c), NEW proof \in Proofs, NEW started
    PROVE  Good(OnSupervisorLost(j, c, proof, started).e)
<1> DEFINE h == OnSupervisorLost(j, c, proof, started).e
<1>1. CASE c.phase \notin {"running", "stopping"}
  BY <1>1 DEF OnSupervisorLost, Ignore, Result
<1>2. CASE c.phase \in {"running", "stopping"} /\ ~ValidProof(proof)
  <2>1. h = lookAgain(j, c).e
    BY <1>2 DEF OnSupervisorLost
  <2> QED
    BY <1>2, <2>1, LookAgainGood
<1>3. CASE c.phase = "stopping" /\ ValidProof(proof)
  <2>1. h = settle(j, c, lostJob).e
    BY <1>3 DEF OnSupervisorLost
  <2>2. lostJob \in Settlement /\ ~Requeues(lostJob)
    BY SettlementsTyped DEF lostJob, FinalStates
  <2>3. ~c.parked
    BY <1>3 DEF Good, CoherentEntry
  <2> QED
    BY <1>3, <2>1, <2>2, <2>3, SettleGood
<1>4. CASE c.phase = "running" /\ ValidProof(proof)
  <2>1. h = cutOff(j, c, proof, started).e
    BY <1>4 DEF OnSupervisorLost
  <2> QED
    BY <1>4, <2>1, CutOffGood
<1> QED
  BY <1>1, <1>2, <1>3, <1>4

LEMMA FollowFailedGood ==
    ASSUME NEW j, NEW c, Good(c), NEW cause
    PROVE  Good(OnFollowFailed(j, c, cause).e)
<1>1. CASE c.phase # "running"
  BY <1>1 DEF OnFollowFailed, Ignore, Result
<1>2. CASE c.phase = "running" /\ cause = "store away"
  BY <1>2, LookAgainGood DEF OnFollowFailed
<1>3. CASE c.phase = "running" /\ cause # "store away"
  <2>1. OnFollowFailed(j, c, cause).e = [c EXCEPT !.phase = "stopping"]
    BY <1>3 DEF OnFollowFailed, Result
  <2> QED
    BY <1>3, <2>1 DEF Good, Entry, CoherentEntry, Phases, Ending
<1> QED
  BY <1>1, <1>2, <1>3

LEMMA StopFailedGood ==
    ASSUME NEW j, NEW c, Good(c)
    PROVE  Good(OnStopFailed(j, c).e)
<1>1. CASE c.phase # "stopping"
  BY <1>1 DEF OnStopFailed, Ignore, Result
<1>2. CASE c.phase = "stopping"
  <2> DEFINE n == [c EXCEPT !.phase = "indoubt", !.holds = TRUE]
  <2>1. Good(n) /\ n.phase # "none"
    BY <1>2 DEF Good, Entry, CoherentEntry, Phases, Ending
  <2>2. OnStopFailed(j, c).e = awaitRetry(j, n).e
    BY <1>2 DEF OnStopFailed
  <2> QED
    BY <2>1, <2>2, AwaitRetryGood
<1> QED
  BY <1>1, <1>2

LEMMA CancelFailedGood ==
    ASSUME NEW j, NEW c, Good(c)
    PROVE  Good(OnCancelFailed(j, c).e)
<1>1. CASE c.phase \notin {"running", "indoubt"}
  BY <1>1 DEF OnCancelFailed, Ignore, Result
<1>2. CASE c.phase \in {"running", "indoubt"}
  <2> DEFINE n == [c EXCEPT !.cancelSent = FALSE]
  <2>1. Good(n) /\ n.phase # "none"
    BY <1>2, ZenonT(60), SMT DEF Good, Entry, CoherentEntry
  <2>2. OnCancelFailed(j, c).e = awaitRetry(j, n).e
    BY <1>2 DEF OnCancelFailed
  <2> QED
    BY <2>1, <2>2, AwaitRetryGood
<1> QED
  BY <1>1, <1>2

LEMMA MoveFailedGood ==
    ASSUME NEW j, NEW c, Good(c)
    PROVE  Good(OnMoveFailed(j, c).e)
<1>1. CASE c.phase \notin {"settling", "cancelling", "unrecorded"}
  BY <1>1 DEF OnMoveFailed, Ignore, Result
<1>2. CASE c.phase \in {"settling", "cancelling", "unrecorded"}
  <2> DEFINE n == [c EXCEPT !.phase = "unrecorded"]
  <2>1. Good(n) /\ n.phase # "none"
    BY <1>2 DEF Good, Entry, CoherentEntry, Phases, Ending
  <2>2. OnMoveFailed(j, c).e = awaitRetry(j, n).e
    BY <1>2 DEF OnMoveFailed
  <2> QED
    BY <2>1, <2>2, AwaitRetryGood
<1> QED
  BY <1>1, <1>2

LEMMA DiscardFailedGood ==
    ASSUME NEW j, NEW c, Good(c)
    PROVE  Good(OnDiscardFailed(j, c).e)
  BY AwaitRetryGood DEF OnDiscardFailed, Ignore, Result

LEMMA RequeuedGood ==
    ASSUME NEW j, NEW c, Good(c)
    PROVE  Good(OnRequeued(j, c).e)
<1> DEFINE n == [c EXCEPT !.attempts = @ + 1, !.phase = "discarding",
                          !.settlement = NoSettlement, !.cancelSent = FALSE,
                          !.holds = FALSE, !.holdUntil = "zero"]
<1>1. CASE c.phase \in {"settling", "unrecorded"} /\ Requeues(c.settlement)
  <2>1. OnRequeued(j, c).e = n
    BY <1>1 DEF OnRequeued, Result
  <2>2. c.attempts + 1 \in 0 .. MaxAttempts /\ c.attempts + 1 < MaxAttempts
    BY <1>1, AttemptsAssumption, SMT DEF Good, Entry, CoherentEntry
  <2>3. n \in Entry
    BY <2>2 DEF Good, Entry, Phases
  <2>4. ~Requeues(NoSettlement)
    BY DEF Requeues, NoSettlement
  <2>5. CoherentEntry(n)
    <3>1. c.settlement # failedToLaunch /\ c.settlement # cancelQueued
      BY <1>1, SettlementsTyped
    <3>2. c.spawnFailures # MaxAttempts /\ ~c.leased
      BY <1>1, <3>1 DEF Good, CoherentEntry
    <3> QED
      BY <1>1, <2>2, <2>4, <3>2 DEF Good, Entry, CoherentEntry, Ending
  <2> QED
    BY <2>1, <2>3, <2>5 DEF Good
<1>2. CASE ~(c.phase \in {"settling", "unrecorded"} /\ Requeues(c.settlement))
  BY <1>2 DEF OnRequeued, Ignore, Result
<1> QED
  BY <1>1, <1>2

LEMMA RetryDueGood ==
    ASSUME NEW j, NEW c, Good(c)
    PROVE  Good(OnRetryDue(j, c).e)
<1> DEFINE n == [c EXCEPT !.armed = FALSE, !.waiting = FALSE]
           q == [n EXCEPT !.leased = FALSE]
           h == OnRetryDue(j, c).e
<1>1. CASE c.phase = "none"
  <2>1. c = NoEntry
    BY <1>1 DEF Good, CoherentEntry
  <2>2. h = NoEntry
    BY <2>1 DEF OnRetryDue, Ignore, Result, NoEntry
  <2> QED
    BY <2>2, NoEntryGood
<1>2. CASE c.phase = "queued"
  <2>1. c.waiting => h = q
    BY <1>2 DEF OnRetryDue, Ignore, Result
  <2>2. Good(q)
    BY <1>2 DEF Good, Entry, CoherentEntry
  <2>3. ~c.waiting => h = n /\ Good(n)
    BY <1>2 DEF OnRetryDue, Ignore, Result, Good, Entry, CoherentEntry
  <2> QED
    BY <2>1, <2>2, <2>3
<1>3. CASE c.phase \notin {"none", "queued"}
  <2>1. Good(n) /\ n.phase = c.phase
    BY <1>3, ZenonT(60), SMT DEF Good, Entry, CoherentEntry
  <2>2. Good(signalCancel(j, n).e)
    BY <1>3, <2>1, SignalCancelGood
  <2>3. h \in {n, signalCancel(j, n).e}
    BY <1>3 DEF OnRetryDue, Ignore, Result
  <2> HIDE DEF h
  <2> QED
    BY <2>1, <2>2, <2>3 DEF h
<1> QED
  BY <1>1, <1>2, <1>3

-----------------------------------------------------------------------------
(* The scheduler keeps every entry coherent. *)

LEMMA AdoptGood ==
    ASSUME NEW c, Good(c), c.parked
    PROVE  Good(adopt(c))
<1>1. ~c.leased /\ c.spawnFailures # MaxAttempts /\ c.settlement = NoSettlement
  BY Undecided, AttemptsAssumption, SMT DEF Good, CoherentEntry, Ending
<1>2. adopt(c) \in Entry
  BY DEF adopt, Good, Entry, Phases
<1>3. CoherentEntry(adopt(c))
  BY <1>1 DEF adopt, Good, Entry, CoherentEntry, Ending
<1> QED
  BY <1>2, <1>3 DEF Good

LEMMA LaunchGood ==
    ASSUME NEW c, Good(c), c.phase = "queued", ~c.leased
    PROVE  Good([c EXCEPT !.phase = "launching"])
<1>1. c.spawnFailures # MaxAttempts /\ c.settlement = NoSettlement
  BY Undecided, AttemptsAssumption, SMT DEF Ending
<1> QED
  BY <1>1 DEF Good, Entry, CoherentEntry, Phases, Ending

LEMMA ScheduleGood ==
    ASSUME NEW en, AllGood(en), NEW rec, NEW un
    PROVE  AllGood(schedule(en, rec, un))
<1> DEFINE a == adoptCancelled(en)
           z == startAdmitted(a, un)
<1>1. AllGood(a)
  <2>1. \A j \in Jobs : Good(a[j])
    <3> SUFFICES ASSUME NEW j \in Jobs PROVE Good(a[j])
      OBVIOUS
    <3>1. Good(en[j]) /\ (en[j].parked => Good(adopt(en[j])))
      BY AdoptGood DEF AllGood
    <3> QED
      BY <3>1 DEF adoptCancelled
  <2>2. a = [j \in Jobs |-> a[j]]
    BY DEF adoptCancelled
  <2> QED
    BY <2>1, <2>2 DEF AllGood
<1> HIDE DEF a
<1>2. AllGood(z)
  <2>1. \A j \in Jobs : Good(z[j])
    <3> SUFFICES ASSUME NEW j \in Jobs PROVE Good(z[j])
      OBVIOUS
    <3>1. CASE j \in Candidates(a, un) /\ MayStart(a, un, j)
      <4>1. z[j] = start(a[j]) /\ ~a[j].leased
        BY <3>1 DEF startAdmitted, MayStart
      <4>2. Good(a[j]) /\ (a[j].parked \/ a[j].phase = "queued")
        BY <1>1, <3>1 DEF AllGood, Candidates
      <4>3. CASE a[j].parked
        BY <4>1, <4>2, <4>3, AdoptGood DEF start
      <4>4. CASE ~a[j].parked
        BY <4>1, <4>2, <4>4, LaunchGood DEF start
      <4> QED
        BY <4>3, <4>4
    <3>2. CASE ~(j \in Candidates(a, un) /\ MayStart(a, un, j))
      BY <1>1, <3>2 DEF startAdmitted, AllGood
    <3> QED
      BY <3>1, <3>2
  <2>2. z = [j \in Jobs |-> z[j]]
    BY DEF startAdmitted
  <2> QED
    BY <2>1, <2>2 DEF AllGood
<1> QED
  BY <1>1, <1>2 DEF schedule, a

-----------------------------------------------------------------------------
(* Every step keeps the invariant. *)

Inv == TypeOK /\ Coherent

LEMMA InvIsGood == Inv <=> AllGood(entry) /\ recovering \in BOOLEAN /\ unread \subseteq Stores
  BY DEF Inv, TypeOK, Coherent, AllGood, Good

LEMMA StepGood ==
    ASSUME NEW en, AllGood(en), Step(en)
    PROVE  AllGood(entry')
  BY ScheduleGood DEF Step

LEMMA TakeGood ==
    ASSUME Inv, NEW j \in Jobs, NEW h, Good(h.e), Take(j, h)
    PROVE  Inv'
<1> DEFINE en == [entry EXCEPT ![j] = h.e]
<1>1. AllGood(en)
  BY InvIsGood DEF AllGood
<1>2. AllGood(entry')
  BY <1>1, StepGood DEF Take
<1>3. recovering' = recovering /\ unread' = unread
  BY DEF Take
<1> QED
  BY <1>2, <1>3 DEF Inv, TypeOK, Coherent, AllGood, Good

LEMMA JobEventKeepsInv ==
    ASSUME Inv, NEW j \in Jobs, JobEvent(j)
    PROVE  Inv'
<1> DEFINE c == entry[j]
<1>0. Good(c)
  BY InvIsGood DEF AllGood
<1> HIDE DEF c
<1>1. CASE \E a \in 0 .. MaxAttempts - 1 : Admitted(j, a)
  <2> PICK a \in 0 .. MaxAttempts - 1 : Admitted(j, a)
    BY <1>1
  <2>1. Good(OnAdmitted(c, a).e)
    BY <1>0, AdmitGood DEF OnAdmitted, Ignore, Result
  <2> QED
    BY <2>1, TakeGood DEF Admitted, c
<1>2. CASE \E f \in Finding, p \in Presence : Recovered(j, f, p)
  BY <1>0, <1>2, RecoveredGood, TakeGood DEF Recovered, c
<1>3. CASE \E state \in JobStates : CancelAsked(j, state)
  BY <1>0, <1>3, CancelAskedGood, TakeGood DEF CancelAsked, c
<1>4. CASE Discarded(j)
  BY <1>0, <1>4, DiscardedGood, TakeGood DEF Discarded, c
<1>5. CASE Launched(j)
  BY <1>0, <1>5, LaunchedGood, TakeGood DEF Launched, c
<1>6. CASE \E cause \in Causes : LaunchFailed(j, cause) \/ FollowFailed(j, cause)
  BY <1>0, <1>6, LaunchFailedGood, FollowFailedGood, TakeGood DEF LaunchFailed, FollowFailed, c
<1>7. CASE LeaseRefused(j)
  BY <1>0, <1>7, LeaseRefusedGood, TakeGood DEF LeaseRefused, c
<1>8. CASE \E o \in Outcome : Finished(j, o)
  BY <1>0, <1>8, FinishedGood, TakeGood DEF Finished, c
<1>9. CASE \E proof \in Proofs, started \in StartKnown : SupervisorLost(j, proof, started)
  BY <1>0, <1>9, SupervisorLostGood, TakeGood DEF SupervisorLost, c
<1>10. CASE StopFailed(j)
  BY <1>0, <1>10, StopFailedGood, TakeGood DEF StopFailed, c
<1>11. CASE CancelFailed(j)
  BY <1>0, <1>11, CancelFailedGood, TakeGood DEF CancelFailed, c
<1>12. CASE MoveFailed(j)
  BY <1>0, <1>12, MoveFailedGood, TakeGood DEF MoveFailed, c
<1>13. CASE DiscardFailed(j)
  BY <1>0, <1>13, DiscardFailedGood, TakeGood DEF DiscardFailed, c
<1>14. CASE RetryDue(j)
  BY <1>0, <1>14, RetryDueGood, TakeGood DEF RetryDue, c
<1>15. CASE Requeued(j)
  BY <1>0, <1>15, RequeuedGood, TakeGood DEF Requeued, c
<1>16. CASE Closed(j)
  <2>1. Good(Ignore(NoEntry).e)
    BY NoEntryGood DEF Ignore, Result
  <2> QED
    BY <1>16, <2>1, TakeGood DEF Closed
<1>17. CASE LimitPasses(j)
  <2>1. c.holdUntil = "ahead" /\ entry' = [entry EXCEPT ![j].holdUntil = "passed"]
    BY <1>17 DEF LimitPasses, c
  <2>2. Good([c EXCEPT !.holdUntil = "passed"])
    <3>1. c.phase \in {"indoubt", "left"}
      BY <1>0, <2>1 DEF Good, CoherentEntry
    <3> QED
      BY <1>0, <3>1, SMT DEF Good, Entry, CoherentEntry
  <2>3. AllGood(entry')
    BY <2>1, <2>2, InvIsGood DEF AllGood, c
  <2>4. recovering' = recovering /\ unread' = unread
    BY <1>17 DEF LimitPasses
  <2> QED
    BY <2>3, <2>4 DEF Inv, TypeOK, Coherent, AllGood, Good
<1> QED
  BY <1>1, <1>2, <1>3, <1>4, <1>5, <1>6, <1>7, <1>8, <1>9, <1>10, <1>11, <1>12, <1>13, <1>14,
     <1>15, <1>16, <1>17 DEF JobEvent

LEMMA LeftOfGood ==
    ASSUME NEW j, NEW c, Good(c), NEW p
    PROVE  Good(leftOf(j, c, p).e)
<1> DEFINE n == [NoEntry EXCEPT !.phase = "left", !.dated = c.dated,
                                !.told = c.told, !.holdUntil = c.holdUntil]
<1>1. n \in Entry
  BY NoEntryGood DEF Good, Entry, Phases
<1>2. CoherentEntry(n)
  BY AttemptsAssumption, SMT DEF CoherentEntry, NoEntry, Ending, Requeues, NoSettlement
<1>3. n.phase = "left"
  BY DEF NoEntry
<1> HIDE DEF n
<1>4. Good(recoverLeft(j, n, p).e)
  BY <1>1, <1>2, <1>3, RecoverLeftGood DEF Good
<1> QED
  BY <1>4 DEF leftOf, n

LEMMA InvInductive == Inv /\ [Next]_mvars => Inv'
<1> SUFFICES ASSUME Inv, [Next]_mvars PROVE Inv'
  OBVIOUS
<1>0. AllGood(entry) /\ recovering \in BOOLEAN /\ unread \subseteq Stores
  BY InvIsGood
<1>1. CASE \E j \in Jobs : JobEvent(j)
  BY <1>1, JobEventKeepsInv
<1>2. ASSUME AllGood(entry'), recovering' \in BOOLEAN, unread' \subseteq Stores
      PROVE  Inv'
  BY <1>2 DEF Inv, TypeOK, Coherent, AllGood, Good
<1>3. ASSUME NEW s \in Stores, StoreEvent(s)
      PROVE  Inv'
  <2>1. CASE StoreUnread(s) \/ StoreRead(s)
    BY <1>0, <1>2, <2>1, StepGood DEF StoreUnread, StoreRead
  <2>2. ASSUME NEW runs, StoreForgotten(s, runs)
        PROVE  Inv'
    <3> DEFINE en == [j \in Jobs |-> IF StoreOf[j] = s THEN leftOf(j, entry[j], runs[j]).e ELSE entry[j]]
    <3>1. AllGood(en)
      <4>1. \A j \in Jobs : Good(leftOf(j, entry[j], runs[j]).e) /\ Good(entry[j])
        BY <1>0, LeftOfGood DEF AllGood
      <4> QED
        BY <4>1 DEF AllGood
    <3>2. AllGood(entry')
      BY <2>2, <3>1, StepGood DEF StoreForgotten
    <3> QED
      BY <1>0, <1>2, <2>2, <3>2 DEF StoreForgotten
  <2> QED
    BY <1>3, <2>1, <2>2 DEF StoreEvent
<1>4. CASE RecoveryDone
  BY <1>0, <1>2, <1>4, StepGood DEF RecoveryDone
<1>5. CASE Restart
  BY <1>2, <1>5, NoEntryGood DEF Restart, AllGood
<1>6. CASE UNCHANGED mvars
  BY <1>0, <1>2, <1>6 DEF mvars
<1> QED
  BY <1>1, <1>3, <1>4, <1>5, <1>6 DEF Next

\* The entries of the machine keep their types and their coherence (machine.go:
\* Step and every handler it calls), whatever the shell reports and in whatever order.
THEOREM MachineCoherent == Spec => [](TypeOK /\ Coherent)
<1>1. Init => Inv
  BY NoEntryGood DEF Init, Inv, TypeOK, Coherent, Good
<1>2. Inv /\ [Next]_mvars => Inv'
  BY InvInductive
<1> QED
  BY <1>1, <1>2, PTL DEF Spec, Inv

\* No handler (machine.go) counts an attempt or a failed spawn past its limit, or
\* leaves an entry with a phase or a settlement the machine does not know.
THEOREM MachineTyped == Spec => []TypeOK
  BY MachineCoherent, PTL

-----------------------------------------------------------------------------
(* What a handler never does: take back a decided end, or launch. *)

EndKept(c, d) ==
    c.phase \in Ending =>
        \/ d.phase \in Ending /\ d.settlement = c.settlement
        \/ d.phase \in {"none", "left"}
        \/ d.phase = "discarding" /\ Requeues(c.settlement)

NoLaunch(c, d) == d.phase = "launching" => c.phase = "launching"

Quiet(c, d) == EndKept(c, d) /\ NoLaunch(c, d)

LEMMA SettlePhase ==
    ASSUME NEW j, NEW c \in Entry, NEW st
    PROVE  settle(j, c, st).e.phase = "settling"
  BY DEF settle, Result, Entry

LEMMA CutOffPhase ==
    ASSUME NEW j, NEW c \in Entry, NEW proof, NEW started
    PROVE  cutOff(j, c, proof, started).e.phase = "settling"
<1> DEFINE st == CutOff(j \in Rerun, c.attempts, proof, started)
<1>1. CASE c.cancelAsked \/ ~Requeues(st)
  BY <1>1, SettlePhase DEF cutOff
<1>2. CASE ~(c.cancelAsked \/ ~Requeues(st))
  BY <1>2 DEF cutOff, Result, Entry
<1> QED
  BY <1>1, <1>2

LEMMA SmallStepPhases ==
    ASSUME NEW j, NEW c \in Entry
    PROVE  /\ awaitRetry(j, c).e.phase = c.phase /\ awaitRetry(j, c).e.settlement = c.settlement
           /\ awaitRetry(j, c).e \in Entry
           /\ signalCancel(j, c).e.phase = c.phase /\ signalCancel(j, c).e.settlement = c.settlement
           /\ cancelQueuedJob(j, c).e.phase = "cancelling"
           /\ lookAgain(j, c).e.phase = "indoubt"
<1>1. /\ awaitRetry(j, c).e.phase = c.phase /\ awaitRetry(j, c).e.settlement = c.settlement
      /\ awaitRetry(j, c).e \in Entry
  BY DEF awaitRetry, Result, Entry
<1>2. signalCancel(j, c).e.phase = c.phase /\ signalCancel(j, c).e.settlement = c.settlement
  <2>1. CASE c.cancelAsked /\ ~c.cancelSent
    BY <2>1 DEF signalCancel, Result, Entry
  <2>2. CASE ~(c.cancelAsked /\ ~c.cancelSent)
    BY <2>2 DEF signalCancel, Result, Ignore
  <2> QED
    BY <2>1, <2>2
<1>3. cancelQueuedJob(j, c).e.phase = "cancelling" /\ lookAgain(j, c).e.phase = "indoubt"
  BY DEF cancelQueuedJob, lookAgain, Result, Entry
<1> QED
  BY <1>1, <1>2, <1>3

LEMMA RecoverPhases ==
    ASSUME NEW j \in Jobs, NEW c, Good(c), NEW f \in Finding, NEW p \in Presence,
           c.phase \in {"none", "queued", "indoubt"}
    PROVE  /\ inDoubt(j, c, f, p).e.phase = "indoubt"
           /\ recoverQueuedAfresh(j, c, f, p).e.phase \in {"queued", "cancelling", "discarding", "indoubt"}
           /\ recoverRunning(j, c, f, p).e.phase \in {"running", "indoubt", "settling"}
<1> DEFINE d == place(c, f, "indoubt")
           n == place(c, f, "running")
           q == place(c, f, "queued")
<1>1. \A ph \in {"queued", "running", "indoubt", "discarding"} :
        place(c, f, ph) \in Entry /\ place(c, f, ph).phase = ph
  <2> SUFFICES ASSUME NEW ph \in {"queued", "running", "indoubt", "discarding"}
               PROVE  place(c, f, ph) \in Entry /\ place(c, f, ph).phase = ph
    OBVIOUS
  <2>1. place(c, f, ph) \in Entry
    BY PlaceTyped DEF Good
  <2> QED
    BY <2>1, PlaceFields, SMT DEF Good
<1>2. inDoubt(j, c, f, p).e.phase = "indoubt"
  <2> DEFINE h == judgeHold(d, p)
             w == awaitRetry(j, h)
  <2>1. d \in Entry /\ d.phase = "indoubt"
    BY <1>1
  <2> HIDE DEF d
  <2>2. h \in Entry /\ h.phase = "indoubt"
    BY <2>1 DEF judgeHold, Entry
  <2>3. w.e.phase = "indoubt" /\ signalCancel(j, w.e).e.phase = "indoubt"
    BY <2>2, SmallStepPhases, SMT
  <2> HIDE DEF h
  <2> QED
    BY <2>3 DEF inDoubt, Result, d, h
<1>3. doubtUnlessGivenUp(j, c, f, p).e.phase \in {"indoubt", "settling"}
  <2>1. settle(j, n, givenUpJob).e.phase = "settling"
    <3>1. n \in Entry
      BY <1>1
    <3> QED
      BY <3>1, SettlePhase
  <2> QED
    BY <1>2, <2>1 DEF doubtUnlessGivenUp
<1>4. recoverQueuedAfresh(j, c, f, p).e.phase \in {"queued", "cancelling", "discarding", "indoubt"}
  <2>1. cancelQueuedJob(j, q).e.phase = "cancelling" /\ q.phase = "queued"
        /\ place(c, f, "discarding").phase = "discarding"
    BY <1>1, SmallStepPhases
  <2> HIDE DEF q
  <2>2. recoverQueuedAfresh(j, c, f, p).e
          \in {q, cancelQueuedJob(j, q).e, place(c, f, "discarding"), inDoubt(j, c, f, p).e}
    <3>1. CASE p.run = "none"
      BY <3>1 DEF recoverQueuedAfresh, Ignore, Result, Answers, q
    <3>2. CASE Answers(p) \/ p.run = "dead"
      BY <3>2 DEF recoverQueuedAfresh, Ignore, Result, Answers, q
    <3>3. CASE ~(p.run = "none" \/ Answers(p) \/ p.run = "dead")
      BY <3>3 DEF recoverQueuedAfresh, q
    <3> QED
      BY <3>1, <3>2, <3>3
  <2> QED
    BY <1>2, <2>1, <2>2
<1>5. recoverRunning(j, c, f, p).e.phase \in {"running", "indoubt", "settling"}
  <2>1. CASE p.run = "parked"
    BY <1>1, <2>1 DEF recoverRunning, Ignore, Result, Entry
  <2>2. CASE Answers(p) /\ p.run # "parked"
    BY <1>1, <2>2 DEF recoverRunning, Result, Answers, Entry
  <2>3. CASE p.run = "dead" /\ ValidProof(p.proof)
    <3>1. recoverRunning(j, c, f, p).e = cutOff(j, n, p.proof, p.start).e
      BY <2>3 DEF recoverRunning, Answers
    <3>2. n \in Entry
      BY <1>1
    <3> QED
      BY <3>1, <3>2, CutOffPhase, SMT
  <2>4. CASE /\ p.run # "parked" /\ ~(Answers(p) /\ p.run # "parked")
             /\ ~(p.run = "dead" /\ ValidProof(p.proof))
    <3>1. recoverRunning(j, c, f, p).e = doubtUnlessGivenUp(j, c, f, p).e
      BY <2>4 DEF recoverRunning
    <3> QED
      BY <1>3, <3>1
  <2> QED
    BY <2>1, <2>2, <2>3, <2>4
<1> QED
  BY <1>2, <1>4, <1>5

LEMMA RecoveredQuiet ==
    ASSUME NEW j \in Jobs, NEW c, Good(c), NEW f \in Finding, NEW p \in Presence
    PROVE  Quiet(c, OnRecovered(j, c, f, p).e)
<1> DEFINE h == OnRecovered(j, c, f, p).e
<1>1. CASE c.phase = "queued"
  <2>1. h \in {c, recoverQueuedAfresh(j, c, f, p).e}
    BY <1>1 DEF OnRecovered, Ignore, Result
  <2> QED
    BY <1>1, <2>1, RecoverPhases DEF Quiet, EndKept, NoLaunch, Ending
<1>2. CASE c.phase = "left"
  <2>1. h = recoverLeft(j, c, p).e
    BY <1>2 DEF OnRecovered
  <2>2. judgeHold(c, p) \in Entry /\ judgeHold(c, p).phase = "left"
    BY <1>2 DEF judgeHold, Good, Entry
  <2>3. awaitRetry(j, judgeHold(c, p)).e.phase = "left" /\ NoEntry.phase = "none"
    BY <2>2, SmallStepPhases, SMT DEF NoEntry
  <2>4. h.phase \in {"left", "none"}
    BY <2>1, <2>3 DEF recoverLeft, Ignore, Result
  <2> QED
    BY <1>2, <2>4 DEF Quiet, EndKept, NoLaunch, Ending
<1>3. CASE c.phase \in {"none", "indoubt"}
  <2>1. h \in {recoverQueuedAfresh(j, c, f, p).e, recoverRunning(j, c, f, p).e, NoEntry, c,
               inDoubt(j, c, f, p).e}
    <3>1. CASE f.job \in {"queued", "running"} \cup FinalStates \cup {"no such job"}
      BY <1>3, <3>1 DEF OnRecovered, FinalStates, recoverEnded, Result
    <3>2. CASE f.job = "away" /\ p.run = "none" /\ c.phase = "none"
      BY <1>3, <3>2 DEF OnRecovered, FinalStates, Ignore, Result
    <3>3. CASE /\ f.job \notin {"queued", "running"} \cup FinalStates \cup {"no such job"}
               /\ ~(f.job = "away" /\ p.run = "none" /\ c.phase = "none")
      BY <1>3, <3>3 DEF OnRecovered, FinalStates
    <3> QED
      BY <3>1, <3>2, <3>3
  <2>2. NoEntry.phase = "none"
    BY DEF NoEntry
  <2> QED
    BY <1>3, <2>1, <2>2, RecoverPhases, SMT DEF Quiet, EndKept, NoLaunch, Ending
<1>4. CASE c.phase \notin {"none", "queued", "indoubt", "left"}
  <2>1. h = c
    BY <1>4 DEF OnRecovered, Ignore, Result
  <2> QED
    BY <2>1 DEF Quiet, EndKept, NoLaunch
<1> QED
  BY <1>1, <1>2, <1>3, <1>4

LEMMA CancelAskedQuiet ==
    ASSUME NEW j \in Jobs, NEW c, Good(c), NEW state \in JobStates
    PROVE  Quiet(c, OnCancelAsked(j, c, state).e)
<1> DEFINE n == IF state = "queued" THEN admit(c, FALSE, 0) ELSE c
           h == OnCancelAsked(j, c, state).e
           m == markCancel(n)
<1>1. n \in Entry /\ (c.phase # "none" => n = c) /\ n.phase \in {c.phase, "queued"}
  <2>1. 0 \in 0 .. MaxAttempts - 1
    BY AttemptsAssumption, SMT
  <2>2. n \in Entry
    BY <2>1, AdmitGood DEF Good
  <2>3. admit(c, FALSE, 0).phase \in {c.phase, "queued"} /\ (c.phase # "none" => admit(c, FALSE, 0) = c)
    BY DEF admit, NoEntry
  <2> QED
    BY <2>2, <2>3
<1>2. h = (CASE n.phase = "queued" -> cancelQueuedJob(j, markCancel(n))
             [] n.phase \in {"discarding", "launching", "indoubt"} -> Ignore(markCancel(n))
             [] n.phase = "running" -> signalCancel(j, markCancel(n))
             [] n.phase \in {"settling", "unrecorded"} /\ Requeues(n.settlement) -> Ignore(markCancel(n))
             [] OTHER -> Ignore(n)).e
  BY DEF OnCancelAsked
<1> HIDE DEF n, h
<1>3. m \in Entry /\ m.phase = n.phase /\ m.settlement = n.settlement
  BY <1>1 DEF markCancel, Entry
<1> HIDE DEF m
<1>4. CASE n.phase = "queued"
  <2>1. h.phase = "cancelling"
    BY <1>2, <1>3, <1>4, SmallStepPhases DEF m
  <2> QED
    BY <1>1, <1>4, <2>1 DEF Quiet, EndKept, NoLaunch, Ending, h
<1>5. CASE n.phase # "queued"
  <2>1. h \in {n, m, signalCancel(j, m).e}
    BY <1>2, <1>5 DEF Ignore, Result, m
  <2>2. h.phase = n.phase /\ h.settlement = n.settlement
    BY <1>3, <2>1, SmallStepPhases, SMT
  <2>3. c.phase \in Ending => n = c
    BY <1>1 DEF Ending
  <2> QED
    BY <1>1, <1>5, <2>2, <2>3 DEF Quiet, EndKept, NoLaunch, h
<1> QED
  BY <1>4, <1>5

\* The handlers that leave a job on its way out as it is, but for its retry.
LEMMA QuietIf ==
    ASSUME NEW c, NEW d, c.phase \in Ending => d = c,
           c.phase # "launching" => d.phase # "launching"
    PROVE  Quiet(c, d)
  BY DEF Quiet, EndKept, NoLaunch

LEMMA DiscardedQuiet ==
    ASSUME NEW j \in Jobs, NEW c, Good(c)
    PROVE  Quiet(c, OnDiscarded(j, c).e)
<1>0. c \in Entry
  BY DEF Good
<1>1. c.phase \in Ending => OnDiscarded(j, c).e = c
  BY DEF Ending, OnDiscarded, Ignore, Result
<1>2. ASSUME c.phase # "launching" PROVE OnDiscarded(j, c).e.phase # "launching"
  <2> DEFINE n == [c EXCEPT !.phase = "queued"]
  <2>1. n \in Entry /\ n.phase = "queued"
    BY <1>0 DEF Entry, Phases
  <2> HIDE DEF n
  <2>2. OnDiscarded(j, c).e \in {c, n, cancelQueuedJob(j, n).e}
    BY <1>2 DEF OnDiscarded, Ignore, Result, n
  <2> QED
    BY <1>2, <2>1, <2>2, SmallStepPhases
<1> QED
  BY <1>1, <1>2, QuietIf

LEMMA LaunchedQuiet ==
    ASSUME NEW j \in Jobs, NEW c, Good(c)
    PROVE  Quiet(c, OnLaunched(j, c).e)
<1>0. c \in Entry
  BY DEF Good
<1>1. c.phase \in Ending => OnLaunched(j, c).e = c
  BY DEF Ending, OnLaunched, Ignore, Result
<1>2. ASSUME c.phase # "launching" PROVE OnLaunched(j, c).e.phase # "launching"
  BY <1>2 DEF OnLaunched, Ignore, Result
<1> QED
  BY <1>1, <1>2, QuietIf

LEMMA LaunchFailedQuiet ==
    ASSUME NEW j \in Jobs, NEW c, Good(c), NEW cause \in Causes
    PROVE  Quiet(c, OnLaunchFailed(j, c, cause).e)
<1>0. c \in Entry
  BY DEF Good
<1>1. c.phase \in Ending => OnLaunchFailed(j, c, cause).e = c
  BY DEF Ending, OnLaunchFailed, Ignore, Result
<1>2. ASSUME c.phase # "launching" PROVE OnLaunchFailed(j, c, cause).e.phase # "launching"
  BY <1>2 DEF OnLaunchFailed, Ignore, Result
<1> QED
  BY <1>1, <1>2, QuietIf

LEMMA LeaseRefusedQuiet ==
    ASSUME NEW j \in Jobs, NEW c, Good(c)
    PROVE  Quiet(c, OnLeaseRefused(j, c).e)
<1>0. c \in Entry
  BY DEF Good
<1>1. c.phase \in Ending => OnLeaseRefused(j, c).e = c
  BY DEF Ending, OnLeaseRefused, Ignore, Result
<1>2. ASSUME c.phase # "launching" PROVE OnLeaseRefused(j, c).e.phase # "launching"
  BY <1>2 DEF OnLeaseRefused, Ignore, Result
<1> QED
  BY <1>1, <1>2, QuietIf

LEMMA FollowFailedQuiet ==
    ASSUME NEW j \in Jobs, NEW c, Good(c), NEW cause \in Causes
    PROVE  Quiet(c, OnFollowFailed(j, c, cause).e)
<1>0. c \in Entry
  BY DEF Good
<1>1. c.phase \in Ending => OnFollowFailed(j, c, cause).e = c
  BY DEF Ending, OnFollowFailed, Ignore, Result
<1>2. ASSUME c.phase # "launching" PROVE OnFollowFailed(j, c, cause).e.phase # "launching"
  <2> DEFINE n == [c EXCEPT !.phase = "stopping"]
  <2>1. n.phase = "stopping"
    BY <1>0 DEF Entry
  <2>2. OnFollowFailed(j, c, cause).e \in {c, n, lookAgain(j, c).e}
    BY <1>2 DEF OnFollowFailed, Ignore, Result
  <2> HIDE DEF n
  <2> QED
    BY <1>2, <1>0, <2>1, <2>2, SmallStepPhases
<1> QED
  BY <1>1, <1>2, QuietIf

LEMMA FinishedQuiet ==
    ASSUME NEW j \in Jobs, NEW c, Good(c), NEW o
    PROVE  Quiet(c, OnFinished(j, c, o).e)
<1>0. c \in Entry
  BY DEF Good
<1>1. c.phase \in Ending => OnFinished(j, c, o).e = c
  BY DEF Ending, OnFinished, Ignore, Result
<1>2. ASSUME c.phase # "launching" PROVE OnFinished(j, c, o).e.phase # "launching"
  <2>1. OnFinished(j, c, o).e \in {c, settle(j, c, SettleOutcome(o)).e, settle(j, c, stoppedJob).e}
    BY <1>2 DEF OnFinished, Ignore, Result
  <2> QED
    BY <1>2, <1>0, <2>1, SettlePhase
<1> QED
  BY <1>1, <1>2, QuietIf

LEMMA SupervisorLostQuiet ==
    ASSUME NEW j \in Jobs, NEW c, Good(c), NEW proof, NEW started
    PROVE  Quiet(c, OnSupervisorLost(j, c, proof, started).e)
<1>0. c \in Entry
  BY DEF Good
<1>1. c.phase \in Ending => OnSupervisorLost(j, c, proof, started).e = c
  BY DEF Ending, OnSupervisorLost, Ignore, Result
<1>2. ASSUME c.phase # "launching" PROVE OnSupervisorLost(j, c, proof, started).e.phase # "launching"
  <2>1. OnSupervisorLost(j, c, proof, started).e
          \in {c, lookAgain(j, c).e, settle(j, c, lostJob).e, cutOff(j, c, proof, started).e}
    BY <1>2 DEF OnSupervisorLost, Ignore, Result
  <2> QED
    BY <1>2, <1>0, <2>1, SettlePhase, CutOffPhase, SmallStepPhases, SMT
<1> QED
  BY <1>1, <1>2, QuietIf

LEMMA StopFailedQuiet ==
    ASSUME NEW j \in Jobs, NEW c, Good(c)
    PROVE  Quiet(c, OnStopFailed(j, c).e)
<1>0. c \in Entry
  BY DEF Good
<1>1. c.phase \in Ending => OnStopFailed(j, c).e = c
  BY DEF Ending, OnStopFailed, Ignore, Result
<1>2. ASSUME c.phase # "launching" PROVE OnStopFailed(j, c).e.phase # "launching"
  <2> DEFINE n == [c EXCEPT !.phase = "indoubt", !.holds = TRUE]
  <2>1. n \in Entry /\ n.phase = "indoubt"
    BY <1>0 DEF Entry, Phases
  <2> HIDE DEF n
  <2>2. OnStopFailed(j, c).e \in {c, awaitRetry(j, n).e}
    BY <1>2 DEF OnStopFailed, Ignore, Result, n
  <2> QED
    BY <1>2, <2>1, <2>2, SmallStepPhases, SMT
<1> QED
  BY <1>1, <1>2, QuietIf

LEMMA CancelFailedQuiet ==
    ASSUME NEW j \in Jobs, NEW c, Good(c)
    PROVE  Quiet(c, OnCancelFailed(j, c).e)
<1>0. c \in Entry
  BY DEF Good
<1>1. c.phase \in Ending => OnCancelFailed(j, c).e = c
  BY DEF Ending, OnCancelFailed, Ignore, Result
<1>2. ASSUME c.phase # "launching" PROVE OnCancelFailed(j, c).e.phase # "launching"
  <2> DEFINE n == [c EXCEPT !.cancelSent = FALSE]
  <2>1. n \in Entry /\ n.phase = c.phase
    BY <1>0 DEF Entry
  <2> HIDE DEF n
  <2>2. OnCancelFailed(j, c).e \in {c, awaitRetry(j, n).e}
    BY <1>2 DEF OnCancelFailed, Ignore, Result, n
  <2> QED
    BY <1>2, <2>1, <2>2, SmallStepPhases, SMT
<1> QED
  BY <1>1, <1>2, QuietIf

LEMMA DiscardFailedQuiet ==
    ASSUME NEW j \in Jobs, NEW c, Good(c)
    PROVE  Quiet(c, OnDiscardFailed(j, c).e)
<1>0. c \in Entry
  BY DEF Good
<1>1. c.phase \in Ending => OnDiscardFailed(j, c).e = c
  BY DEF Ending, OnDiscardFailed, Ignore, Result
<1>2. ASSUME c.phase # "launching" PROVE OnDiscardFailed(j, c).e.phase # "launching"
  BY <1>0, <1>2, SmallStepPhases DEF OnDiscardFailed, Ignore, Result
<1> QED
  BY <1>1, <1>2, QuietIf

LEMMA MoveFailedQuiet ==
    ASSUME NEW j, NEW c, Good(c)
    PROVE  Quiet(c, OnMoveFailed(j, c).e)
<1> DEFINE n == [c EXCEPT !.phase = "unrecorded"]
<1>1. n \in Entry /\ n.phase = "unrecorded" /\ n.settlement = c.settlement
  BY DEF Good, Entry, Phases
<1> HIDE DEF n
<1>2. OnMoveFailed(j, c).e = IF c.phase \in Ending THEN awaitRetry(j, n).e ELSE c
  BY DEF OnMoveFailed, Ending, Ignore, Result, n
<1> QED
  BY <1>1, <1>2, SmallStepPhases, SMT DEF Quiet, EndKept, NoLaunch, Ending

LEMMA RequeuedQuiet ==
    ASSUME NEW j, NEW c, Good(c)
    PROVE  Quiet(c, OnRequeued(j, c).e)
<1>1. CASE c.phase \in {"settling", "unrecorded"} /\ Requeues(c.settlement)
  <2>1. OnRequeued(j, c).e.phase = "discarding"
    BY <1>1 DEF OnRequeued, Result, Good, Entry
  <2> QED
    BY <1>1, <2>1 DEF Quiet, EndKept, NoLaunch
<1>2. CASE ~(c.phase \in {"settling", "unrecorded"} /\ Requeues(c.settlement))
  BY <1>2 DEF OnRequeued, Ignore, Result, Quiet, EndKept, NoLaunch
<1> QED
  BY <1>1, <1>2

LEMMA RetryDueQuiet ==
    ASSUME NEW j, NEW c, Good(c)
    PROVE  Quiet(c, OnRetryDue(j, c).e)
<1> DEFINE n == [c EXCEPT !.armed = FALSE, !.waiting = FALSE]
           q == [n EXCEPT !.leased = FALSE]
           h == OnRetryDue(j, c).e
<1>1. /\ n \in Entry /\ n.phase = c.phase /\ n.settlement = c.settlement
      /\ q.phase = c.phase /\ q.settlement = c.settlement
  BY DEF Good, Entry
<1> HIDE DEF n
<1> HIDE DEF q
<1>2. h \in {n, q, signalCancel(j, n).e}
  BY DEF OnRetryDue, Ignore, Result, n, q
<1>3. h.phase = c.phase /\ h.settlement = c.settlement
  BY <1>1, <1>2, SmallStepPhases, SMT
<1> HIDE DEF h
<1> QED
  BY <1>3 DEF Quiet, EndKept, NoLaunch, h

-----------------------------------------------------------------------------
(* A step is a quiet change of entries, and then the scheduler. *)

QuietStep(en) ==
    /\ AllGood(en)
    /\ \A k \in Jobs : Quiet(entry[k], en[k])
    /\ Step(en)

LEMMA TakeIsQuiet ==
    ASSUME Inv, NEW j \in Jobs, NEW h, Good(h.e), Quiet(entry[j], h.e), Take(j, h)
    PROVE  \E en : QuietStep(en)
<1> DEFINE en == [entry EXCEPT ![j] = h.e]
<1>1. AllGood(en)
  BY InvIsGood DEF AllGood
<1>2. \A k \in Jobs : en[k] = IF k = j THEN h.e ELSE entry[k]
  BY InvIsGood DEF AllGood
<1>3. \A k \in Jobs : Quiet(entry[k], en[k])
  BY <1>2 DEF Quiet, EndKept, NoLaunch
<1>4. Step(en)
  BY DEF Take
<1> QED
  BY <1>1, <1>3, <1>4 DEF QuietStep

\* What an event about a job makes of its entry.
Takes(j) == \E h : Good(h.e) /\ Quiet(entry[j], h.e) /\ Take(j, h)

LEMMA TakenUp ==
    ASSUME NEW j, NEW h, Good(h.e), Quiet(entry[j], h.e), Take(j, h)
    PROVE  Takes(j)
  BY DEF Takes

LEMMA JobEventTakes ==
    ASSUME Inv, NEW j \in Jobs, JobEvent(j), ~LimitPasses(j)
    PROVE  Takes(j)
<1> DEFINE c == entry[j]
<1>0. Good(c)
  BY InvIsGood DEF AllGood
<1> HIDE DEF c
<1>q. ASSUME NEW d, c.phase \in Ending => d = c, NoLaunch(c, d)
      PROVE  Quiet(c, d)
  BY <1>q DEF Quiet, EndKept
<1>1. CASE \E a \in 0 .. MaxAttempts - 1 : Admitted(j, a)
  <2> PICK a \in 0 .. MaxAttempts - 1 : Admitted(j, a)
    BY <1>1
  <2>1. Good(OnAdmitted(c, a).e)
    BY <1>0, AdmitGood DEF OnAdmitted, Ignore, Result
  <2>2. c.phase \in Ending => OnAdmitted(c, a).e = c
    BY DEF Ending, OnAdmitted, admit, Ignore, Result
  <2>3. NoLaunch(c, OnAdmitted(c, a).e)
    BY DEF NoLaunch, OnAdmitted, admit, Ignore, Result, NoEntry
  <2> QED
    BY <1>q, <2>1, <2>2, <2>3, TakenUp DEF Admitted, c
<1>2. CASE \E f \in Finding, p \in Presence : Recovered(j, f, p)
  BY <1>0, <1>2, RecoveredGood, RecoveredQuiet, TakenUp DEF Recovered, c
<1>3. CASE \E state \in JobStates : CancelAsked(j, state)
  BY <1>0, <1>3, CancelAskedGood, CancelAskedQuiet, TakenUp DEF CancelAsked, c
<1>4. CASE Discarded(j)
  BY <1>0, <1>4, DiscardedGood, DiscardedQuiet, TakenUp DEF Discarded, c
<1>5. CASE Launched(j)
  BY <1>0, <1>5, LaunchedGood, LaunchedQuiet, TakenUp DEF Launched, c
<1>6. CASE \E cause \in Causes : LaunchFailed(j, cause) \/ FollowFailed(j, cause)
  <2> PICK cause \in Causes : LaunchFailed(j, cause) \/ FollowFailed(j, cause)
    BY <1>6
  <2>1. Quiet(c, OnLaunchFailed(j, c, cause).e) /\ Quiet(c, OnFollowFailed(j, c, cause).e)
    BY <1>0, LaunchFailedQuiet, FollowFailedQuiet
  <2>2. Good(OnLaunchFailed(j, c, cause).e) /\ Good(OnFollowFailed(j, c, cause).e)
    BY <1>0, LaunchFailedGood, FollowFailedGood
  <2>3. CASE LaunchFailed(j, cause)
    BY <2>1, <2>2, <2>3, TakenUp DEF LaunchFailed, c
  <2>4. CASE FollowFailed(j, cause)
    BY <2>1, <2>2, <2>4, TakenUp DEF FollowFailed, c
  <2> QED
    BY <2>3, <2>4
<1>7. CASE LeaseRefused(j)
  BY <1>0, <1>7, LeaseRefusedGood, LeaseRefusedQuiet, TakenUp DEF LeaseRefused, c
<1>8. CASE \E o \in Outcome : Finished(j, o)
  <2> PICK o \in Outcome : Finished(j, o)
    BY <1>8
  <2> QED
    BY <1>0, FinishedQuiet, FinishedGood, TakenUp DEF Finished, c
<1>9. CASE \E proof \in Proofs, started \in StartKnown : SupervisorLost(j, proof, started)
  <2> PICK proof \in Proofs, started \in StartKnown : SupervisorLost(j, proof, started)
    BY <1>9
  <2> QED
    BY <1>0, SupervisorLostQuiet, SupervisorLostGood, TakenUp DEF SupervisorLost, c
<1>10. CASE StopFailed(j)
  BY <1>0, <1>10, StopFailedGood, StopFailedQuiet, TakenUp DEF StopFailed, c
<1>11. CASE CancelFailed(j)
  BY <1>0, <1>11, CancelFailedGood, CancelFailedQuiet, TakenUp DEF CancelFailed, c
<1>12. CASE MoveFailed(j)
  BY <1>0, <1>12, MoveFailedGood, MoveFailedQuiet, TakenUp DEF MoveFailed, c
<1>13. CASE DiscardFailed(j)
  BY <1>0, <1>13, DiscardFailedGood, DiscardFailedQuiet, TakenUp DEF DiscardFailed, c
<1>14. CASE RetryDue(j)
  BY <1>0, <1>14, RetryDueGood, RetryDueQuiet, TakenUp DEF RetryDue, c
<1>15. CASE Requeued(j)
  BY <1>0, <1>15, RequeuedGood, RequeuedQuiet, TakenUp DEF Requeued, c
<1>16. CASE Closed(j)
  <2>1. Good(Ignore(NoEntry).e) /\ Quiet(c, Ignore(NoEntry).e)
    BY NoEntryGood DEF Ignore, Result, Quiet, EndKept, NoLaunch, NoEntry
  <2> QED
    BY <1>16, <2>1, TakenUp DEF Closed, c
<1> QED
  BY <1>1, <1>2, <1>3, <1>4, <1>5, <1>6, <1>7, <1>8, <1>9, <1>10, <1>11, <1>12, <1>13, <1>14,
     <1>15, <1>16 DEF JobEvent

LEMMA JobEventIsQuiet ==
    ASSUME Inv, NEW j \in Jobs, JobEvent(j), ~LimitPasses(j)
    PROVE  \E en : QuietStep(en)
  BY JobEventTakes, TakeIsQuiet DEF Takes

\* Of a store that is forgotten, nothing is kept but a run that may execute.
LEMMA ForgottenIs ==
    ASSUME Inv, NEW s, NEW runs, StoreForgotten(s, runs)
    PROVE  \E en : /\ AllGood(en) /\ Step(en)
                   /\ \A j \in Jobs : en[j] = entry[j] \/ en[j].phase \in {"left", "none"}
<1>0. AllGood(entry)
  BY InvIsGood
<1> DEFINE en == [j \in Jobs |-> IF StoreOf[j] = s THEN leftOf(j, entry[j], runs[j]).e ELSE entry[j]]
<1>1. \A j \in Jobs : Good(leftOf(j, entry[j], runs[j]).e) /\ Good(entry[j])
  BY <1>0, LeftOfGood DEF AllGood
<1>2. AllGood(en)
  BY <1>1 DEF AllGood
<1>3. \A j \in Jobs : leftOf(j, entry[j], runs[j]).e.phase \in {"left", "none"}
  <2> SUFFICES ASSUME NEW j \in Jobs PROVE leftOf(j, entry[j], runs[j]).e.phase \in {"left", "none"}
    OBVIOUS
  <2> DEFINE n == [NoEntry EXCEPT !.phase = "left", !.dated = entry[j].dated,
                                  !.told = entry[j].told, !.holdUntil = entry[j].holdUntil]
             d == judgeHold(n, runs[j])
  <2>1. n \in Entry /\ n.phase = "left"
    BY <1>1, NoEntryGood DEF Good, Entry, Phases
  <2> HIDE DEF n
  <2>2. d \in Entry /\ d.phase = "left"
    BY <2>1, ZenonT(60) DEF judgeHold, Entry
  <2>3. awaitRetry(j, d).e.phase = "left" /\ NoEntry.phase = "none"
    BY <2>2, SmallStepPhases DEF NoEntry
  <2> HIDE DEF d
  <2> QED
    BY <2>3 DEF leftOf, recoverLeft, Ignore, Result, n, d
<1>4. \A j \in Jobs : en[j] = entry[j] \/ en[j].phase \in {"left", "none"}
  BY <1>3
<1>5. Step(en)
  BY DEF StoreForgotten
<1> QED
  BY <1>2, <1>4, <1>5

LEMMA NextShape ==
    ASSUME Inv, [Next]_mvars
    PROVE  \/ \E en : QuietStep(en)
           \/ \E j \in Jobs : LimitPasses(j)
           \/ Restart
           \/ UNCHANGED mvars
<1>0. AllGood(entry)
  BY InvIsGood
<1>r. \A k \in Jobs : Quiet(entry[k], entry[k])
  BY DEF Quiet, EndKept, NoLaunch
<1>1. ASSUME NEW j \in Jobs, JobEvent(j), ~LimitPasses(j)
      PROVE  \E en : QuietStep(en)
  BY <1>1, JobEventIsQuiet
<1>3. ASSUME NEW s \in Stores, StoreEvent(s)
      PROVE  \E en : QuietStep(en)
  <2>1. CASE StoreUnread(s) \/ StoreRead(s)
    BY <1>0, <1>r, <2>1 DEF StoreUnread, StoreRead, QuietStep
  <2>2. ASSUME NEW runs, StoreForgotten(s, runs)
        PROVE  \E en : QuietStep(en)
    <3>1. PICK en : /\ AllGood(en) /\ Step(en)
                    /\ \A k \in Jobs : en[k] = entry[k] \/ en[k].phase \in {"left", "none"}
      BY <2>2, ForgottenIs
    <3>2. \A k \in Jobs : Quiet(entry[k], en[k])
      BY <3>1 DEF Quiet, EndKept, NoLaunch
    <3> QED
      BY <3>1, <3>2 DEF QuietStep
  <2> QED
    BY <1>3, <2>1, <2>2 DEF StoreEvent
<1>4. CASE RecoveryDone
  BY <1>0, <1>r, <1>4 DEF RecoveryDone, QuietStep
<1> QED
  BY <1>1, <1>3, <1>4 DEF Next

LEMMA NextIsQuiet ==
    ASSUME Inv, [Next]_mvars
    PROVE  (\E en : QuietStep(en)) \/ (\A k \in Jobs : Quiet(entry[k], entry'[k]))
<1>0. AllGood(entry)
  BY InvIsGood
<1>1. ASSUME NEW j \in Jobs, LimitPasses(j)
      PROVE  \A k \in Jobs : Quiet(entry[k], entry'[k])
  <2>1. \A k \in Jobs : entry'[k].phase = entry[k].phase /\ entry'[k].settlement = entry[k].settlement
    BY <1>0, <1>1 DEF LimitPasses, AllGood, Good, Entry
  <2> QED
    BY <2>1 DEF Quiet, EndKept, NoLaunch
<1>2. CASE Restart
  BY <1>2 DEF Restart, Quiet, EndKept, NoLaunch, NoEntry
<1>3. CASE UNCHANGED mvars
  BY <1>3 DEF mvars, Quiet, EndKept, NoLaunch
<1> QED
  BY <1>1, <1>2, <1>3, NextShape

\* The scheduler only touches queued jobs and parked ones, which are in doubt.
LEMMA ScheduleKeeps ==
    ASSUME NEW en, AllGood(en), NEW rec, NEW un, NEW k \in Jobs,
           en[k].phase \notin {"queued", "indoubt"}
    PROVE  schedule(en, rec, un)[k] = en[k]
<1> DEFINE a == adoptCancelled(en)
<1>1. ~en[k].parked
  BY DEF AllGood, Good, CoherentEntry
<1>2. a[k] = en[k]
  BY <1>1 DEF adoptCancelled
<1> HIDE DEF a
<1>3. k \notin Candidates(a, un)
  BY <1>1, <1>2 DEF Candidates
<1>4. startAdmitted(a, un)[k] = a[k]
  BY <1>3 DEF startAdmitted
<1> QED
  BY <1>2, <1>4 DEF schedule, a

\* No event takes back the end of a job once it is decided (machine.go: the guards
\* of every handler, and settle, cutOff, moveFailed, requeued, retryDue).
THEOREM EndsStand == Spec => DecidedEndStands
<1>1. ASSUME Inv, [Next]_mvars, NEW j \in Jobs
      PROVE  EndKept(entry[j], entry'[j])
  <2>1. CASE \A k \in Jobs : Quiet(entry[k], entry'[k])
    BY <2>1 DEF Quiet
  <2>2. ASSUME NEW en, QuietStep(en)
        PROVE  EndKept(entry[j], entry'[j])
    <3>1. EndKept(entry[j], en[j]) /\ AllGood(en) /\ entry' = schedule(en, recovering', unread')
      BY <2>2 DEF QuietStep, Quiet, Step
    <3>2. en[j].phase \notin {"queued", "indoubt"} => entry'[j] = en[j]
      BY <3>1, ScheduleKeeps, SMT
    <3> QED
      BY <3>1, <3>2 DEF EndKept, Ending
  <2> QED
    BY <1>1, <2>1, <2>2, NextIsQuiet
<1>2. Inv /\ [Next]_mvars => [\A j \in Jobs : EndKept(entry[j], entry'[j])]_mvars
  BY <1>1
<1>3. Spec => []Inv
  BY MachineCoherent, PTL DEF Inv
<1> QED
  BY <1>2, <1>3, PTL DEF Spec, DecidedEndStands, EndKept

-----------------------------------------------------------------------------
(* No job is stranded: the candidate that comes first starts on a free machine. *)

LEMMA FirstCandidate ==
    ASSUME NEW a, AllGood(a), NEW C, C \subseteq Jobs, C # {}
    PROVE  \E m \in C : \A i \in C : ~Before(a, i, m)
<1>0. \A i \in Jobs : a[i].parked \in BOOLEAN /\ a[i].dated \in BOOLEAN
  BY DEF AllGood, Good, Entry
<1> DEFINE P == {i \in C : a[i].parked}
           F == IF P # {} THEN P ELSE C
           U == {i \in F : ~a[i].dated}
           G == IF U # {} THEN U ELSE F
<1>1. F # {} /\ F \subseteq C /\ G # {} /\ G \subseteq F
  OBVIOUS
<1>2. G \subseteq Nat
  BY <1>1, JobsAssumption
<1>3. PICK m \in G : \A i \in G : m <= i
  <2> HIDE DEF G
  <2> QED
    BY <1>1, <1>2, LeastNatural, ZenonT(60)
<1>4. ASSUME NEW i \in C, Before(a, i, m)
      PROVE  FALSE
  <2>1. i \in F
    BY <1>0, <1>1, <1>3, <1>4 DEF Before
  <2>2. i \in F /\ m \in F => a[i].parked = a[m].parked
    BY <1>0, <1>1
  <2>3. i \in G
    BY <1>0, <1>1, <1>3, <1>4, <2>1, <2>2 DEF Before
  <2>4. i < m
    BY <1>0, <1>1, <1>3, <1>4, <2>2, <2>3 DEF Before
  <2> QED
    BY <1>2, <1>3, <2>3, <2>4, SMT
<1> QED
  BY <1>1, <1>3, <1>4

LEMMA StartAdmittedOwes ==
    ASSUME NEW a, AllGood(a), NEW un, NEW z, z = startAdmitted(a, un),
           NEW q \in Jobs, z[q].phase = "queued", ~storeBlocked(z, un, StoreOf[q])
    PROVE  \E j \in Jobs : owed(z[j]) \/ (holdsMachine(z[j]) /\ z[j].holdUntil = "passed")
<1> DEFINE C == Candidates(a, un)
<1>0. \A k \in Jobs : z[k] = IF k \in C /\ MayStart(a, un, k) THEN start(a[k]) ELSE a[k]
  BY DEF startAdmitted
<1>1. \A k \in Jobs : start(a[k]).phase \in {"running", "launching"}
  BY DEF start, adopt, AllGood, Good, Entry
<1>2. z[q] = a[q] /\ a[q].phase = "queued"
  BY <1>0, <1>1
<1>3. ~storeBlocked(a, un, StoreOf[q])
  <2>1. ASSUME NEW k \in Jobs, blocksStore(a[k])
        PROVE  blocksStore(z[k])
    <3>1. k \notin C
      BY <2>1 DEF Candidates, blocksStore, AllGood, Good, CoherentEntry
    <3> QED
      BY <1>0, <2>1, <3>1
  <2> QED
    BY <2>1 DEF storeBlocked
<1>4. CASE Holders(a) # {}
  <2>1. PICK k \in Jobs : k \in Holders(a) /\ holdsMachine(a[k])
    BY <1>4 DEF Holders
  <2>2. z[k] = a[k]
    BY <1>0, <2>1 DEF Candidates
  <2> QED
    BY <2>1, <2>2 DEF owed
<1>5. CASE Holders(a) = {}
  <2>1. q \in C /\ C \subseteq Jobs
    BY <1>2, <1>3, <1>5 DEF Candidates
  <2>2. PICK m \in C : \A i \in C : ~Before(a, i, m)
    <3> HIDE DEF C
    <3> QED
      BY <2>1, FirstCandidate
  <2>3. Earlier(a, un, m) = {}
    BY <2>2 DEF Earlier
  <2>4. m \in Jobs /\ Good(a[m]) /\ (a[m].parked \/ a[m].phase = "queued")
    BY <2>1, <2>2 DEF AllGood, Candidates
  <2>5. CASE a[m].leased
    <3>1. a[m].phase = "queued" /\ a[m].waiting /\ a[m].armed
      BY <2>4, <2>5, Undecided DEF Good, CoherentEntry, Ending
    <3>2. ~MayStart(a, un, m)
      BY <2>5 DEF MayStart
    <3>3. z[m] = a[m]
      BY <1>0, <2>4, <3>2
    <3> QED
      BY <2>4, <2>5, <3>1, <3>3 DEF owed
  <2>6. CASE ~a[m].leased
    <3>1. Holders(a) \cup Earlier(a, un, m) = {}
      BY <1>5, <2>3
    <3>2. Cardinality({}) = 0
      BY FS_EmptySet
    <3>3. MayStart(a, un, m)
      BY <2>3, <2>6, <3>1, <3>2, SlotsAssumption, SMT DEF MayStart
    <3>4. z[m].phase \in {"running", "launching"}
      BY <1>0, <1>1, <2>2, <2>4, <3>3
    <3> QED
      BY <2>4, <3>4 DEF owed, holdsMachine
  <2> QED
    BY <2>5, <2>6
<1> QED
  BY <1>4, <1>5

\* A step of the scheduler leaves nobody stranded.
LEMMA StepStrandsNobody ==
    ASSUME NEW en, AllGood(en), Step(en), recovering' \in BOOLEAN
    PROVE  NoStranded'
<1>1. CASE recovering'
  BY <1>1 DEF NoStranded, Stranded
<1>2. CASE ~recovering'
  <2> DEFINE a == adoptCancelled(en)
  <2>1. AllGood(a)
    <3>1. AllGood(schedule(en, TRUE, unread'))
      BY ScheduleGood
    <3> QED
      BY <3>1 DEF schedule
  <2> HIDE DEF a
  <2>2. entry' = startAdmitted(a, unread')
    BY <1>2 DEF Step, schedule, a
  <2>3. ASSUME NEW q \in Jobs, entry'[q].phase = "queued", ~storeBlocked(entry', unread', StoreOf[q])
        PROVE  \E j \in Jobs : owed(entry'[j]) \/ (holdsMachine(entry'[j]) /\ entry'[j].holdUntil = "passed")
    BY <2>1, <2>2, <2>3, StartAdmittedOwes
  <2> QED
    BY <2>3 DEF NoStranded, Stranded
<1> QED
  BY <1>1, <1>2

\* No queued job waits for a machine nobody holds (machine.go: Stranded is empty
\* after every step, until the limit of a job in doubt passes).
THEOREM NobodyStranded == Spec => []NoStranded
<1>1. Init => NoStranded
  BY DEF Init, NoStranded, Stranded
<1>2. ASSUME Inv, NoStranded, [Next]_mvars
      PROVE  NoStranded'
  <2>0. Inv' /\ recovering' \in BOOLEAN
    BY <1>2, InvInductive DEF Inv, TypeOK
  <2>1. CASE \E en : AllGood(en) /\ Step(en)
    BY <2>0, <2>1, StepStrandsNobody
  <2>2. ASSUME NEW j \in Jobs, LimitPasses(j)
        PROVE  NoStranded'
    <3>0. AllGood(entry)
      BY <1>2, InvIsGood
    <3>1. /\ entry[j].holdUntil = "ahead" /\ entry' = [entry EXCEPT ![j].holdUntil = "passed"]
          /\ recovering' = recovering /\ unread' = unread
      BY <2>2 DEF LimitPasses
    <3>2. \A k \in Jobs : /\ k # j => entry'[k] = entry[k]
                          /\ entry'[k].phase = entry[k].phase /\ entry'[k].holds = entry[k].holds
                          /\ entry'[k].parked = entry[k].parked
                          /\ entry'[k].settlement = entry[k].settlement
                          /\ entry'[k].leased = entry[k].leased /\ entry'[k].armed = entry[k].armed
                          /\ entry'[k].waiting = entry[k].waiting
      BY <3>0, <3>1 DEF AllGood, Good, Entry
    <3>3. entry'[j].holdUntil = "passed"
      BY <3>0, <3>1 DEF AllGood, Good, Entry
    <3>4. \A k \in Jobs : holdsMachine(entry'[k]) <=> holdsMachine(entry[k])
      BY <3>2 DEF holdsMachine
    <3>5. \A k \in Jobs : blocksStore(entry'[k]) <=> blocksStore(entry[k])
      BY <3>2 DEF blocksStore
    <3>6. \A s : storeBlocked(entry', unread', s) <=> storeBlocked(entry, unread, s)
      BY <3>1, <3>5 DEF storeBlocked
    <3>7. CASE holdsMachine(entry[j])
      BY <3>3, <3>4, <3>7 DEF NoStranded
    <3>8. CASE ~holdsMachine(entry[j])
      <4>1. \A k \in Jobs : owed(entry'[k]) <=> owed(entry[k])
        BY <3>2, <3>4, <3>8 DEF owed
      <4>2. ASSUME NEW q \in Stranded' PROVE q \in Stranded
        <5>1. /\ ~recovering' /\ ~ \E k \in Jobs : owed(entry'[k])
              /\ q \in Jobs /\ entry'[q].phase = "queued"
              /\ ~storeBlocked(entry', unread', StoreOf[q])
          BY <4>2 DEF Stranded
        <5>2. ~recovering /\ ~ \E k \in Jobs : owed(entry[k])
          BY <3>1, <4>1, <5>1
        <5>3. entry[q].phase = "queued" /\ ~storeBlocked(entry, unread, StoreOf[q])
          BY <3>2, <3>6, <5>1
        <5> QED
          BY <5>1, <5>2, <5>3 DEF Stranded
      <4>3. \A k \in Jobs : holdsMachine(entry[k]) => entry'[k] = entry[k]
        BY <3>2, <3>8
      <4>4. CASE Stranded # {}
        <5>1. PICK k \in Jobs : holdsMachine(entry[k]) /\ entry[k].holdUntil = "passed"
          BY <1>2, <4>4 DEF NoStranded
        <5>2. holdsMachine(entry'[k]) /\ entry'[k].holdUntil = "passed"
          BY <4>3, <5>1
        <5> QED
          BY <5>2 DEF NoStranded
      <4>5. CASE Stranded = {}
        BY <4>2, <4>5 DEF NoStranded
      <4> QED
        BY <4>4, <4>5
    <3> QED
      BY <3>7, <3>8
  <2>3. CASE Restart
    BY <2>3 DEF Restart, NoStranded, Stranded
  <2>4. CASE UNCHANGED mvars
    BY <1>2, <2>4 DEF mvars, NoStranded, Stranded
  <2> QED
    BY <1>2, <2>1, <2>2, <2>3, <2>4, NextShape DEF QuietStep
<1>3. Spec => []Inv
  BY MachineCoherent, PTL DEF Inv
<1> QED
  BY <1>1, <1>2, <1>3, PTL DEF Spec

-----------------------------------------------------------------------------
(* The scheduler starts no more than fits. *)

\* The order of the candidates.
LEMMA BeforeOrders ==
    ASSUME NEW en, \A i \in Jobs : en[i].parked \in BOOLEAN /\ en[i].dated \in BOOLEAN
    PROVE  /\ \A i \in Jobs : ~Before(en, i, i)
           /\ \A i, k \in Jobs : i # k => Before(en, i, k) \/ Before(en, k, i)
           /\ \A i, k, m \in Jobs : Before(en, i, k) /\ Before(en, k, m) => Before(en, i, m)
<1>1. /\ \A i \in Jobs : ~(i < i)
      /\ \A i, k \in Jobs : i # k => i < k \/ k < i
      /\ \A i, k, m \in Jobs : i < k /\ k < m => i < m
  BY JobsAssumption, SMT
<1>2. \A i \in Jobs : ~Before(en, i, i)
  BY <1>1 DEF Before
<1>3. \A i, k \in Jobs : i # k => Before(en, i, k) \/ Before(en, k, i)
  BY <1>1 DEF Before
<1>4. ASSUME NEW i \in Jobs, NEW k \in Jobs, NEW m \in Jobs, Before(en, i, k), Before(en, k, m)
      PROVE  Before(en, i, m)
  BY <1>1, <1>4 DEF Before
<1> QED
  BY <1>2, <1>3, <1>4

\* The jobs that start.
Starters(en, un) == {j \in Candidates(en, un) : MayStart(en, un, j)}

LEMMA EarlierFinite ==
    ASSUME NEW en, NEW un, NEW j \in Jobs
    PROVE  /\ IsFiniteSet(Earlier(en, un, j)) /\ Cardinality(Earlier(en, un, j)) \in Nat
           /\ IsFiniteSet(Holders(en) \cup Earlier(en, un, j)) /\ Cardinality(Holders(en) \cup Earlier(en, un, j)) \in Nat
           /\ Cardinality(Earlier(en, un, j)) <= Cardinality(Holders(en) \cup Earlier(en, un, j))
<1> DEFINE A == Earlier(en, un, j)
           H == Holders(en) \cup A
<1>1. H \in SUBSET Jobs /\ A \in SUBSET H
  BY DEF Earlier, Candidates, Holders
<1> HIDE DEF A, H
<1>2. IsFiniteSet(H)
  BY <1>1, JobsAssumption, FS_Subset
<1>3. IsFiniteSet(A) /\ Cardinality(A) <= Cardinality(H)
  BY <1>1, <1>2, FS_Subset
<1>4. Cardinality(A) \in Nat /\ Cardinality(H) \in Nat
  BY <1>2, <1>3, FS_CardinalityType
<1> QED
  BY <1>2, <1>3, <1>4 DEF A, H

LEMMA LastStarter ==
    ASSUME NEW en, \A i \in Jobs : en[i].parked \in BOOLEAN /\ en[i].dated \in BOOLEAN,
           NEW un, Starters(en, un) # {}
    PROVE  \E d \in Starters(en, un) : \A i \in Starters(en, un) : i = d \/ i \in Earlier(en, un, d)
<1> DEFINE T == Starters(en, un)
           C == Candidates(en, un)
           room(i) == Slots - Cardinality(Earlier(en, un, i))
           N == {room(i) : i \in T}
<1>1. T \subseteq C /\ C \subseteq Jobs
  BY DEF Starters, Candidates
<1>2. \A i \in T : Cardinality(Holders(en) \cup Earlier(en, un, i)) < Slots
  BY DEF Starters, MayStart
<1>3. \A i \in T : /\ IsFiniteSet(Earlier(en, un, i)) /\ Cardinality(Earlier(en, un, i)) \in Nat
                   /\ Cardinality(Holders(en) \cup Earlier(en, un, i)) \in Nat
                   /\ Cardinality(Earlier(en, un, i)) <= Cardinality(Holders(en) \cup Earlier(en, un, i))
  BY <1>1, EarlierFinite
<1> HIDE DEF T, C
<1>4. \A i \in T : room(i) \in Nat
  <2> TAKE i \in T
  <2> DEFINE x == Cardinality(Earlier(en, un, i))
             y == Cardinality(Holders(en) \cup Earlier(en, un, i))
  <2>1. x \in Nat /\ y \in Nat /\ x <= y /\ y < Slots
    BY <1>2, <1>3
  <2> HIDE DEF x, y
  <2>2. Slots - x \in Nat
    BY <2>1, SlotsAssumption, SMT
  <2> QED
    BY <2>2 DEF x
<1>5. T # {}
  BY DEF T
<1>6. N \subseteq Nat /\ N # {}
  BY <1>4, <1>5
<1>7. PICK m \in N : \A y \in N : m <= y
  BY <1>6, LeastNatural
<1>8. PICK d \in T : m = room(d)
  BY <1>7
<1>9. ASSUME NEW i \in T, i # d
      PROVE  i \in Earlier(en, un, d)
  <2>1. i \in Jobs /\ d \in Jobs /\ i \in C /\ d \in C
    BY <1>1, <1>9
  <2>2. SUFFICES ASSUME ~Before(en, i, d)
                 PROVE  FALSE
    BY <2>1 DEF Earlier, C
  <2>3. Before(en, d, i)
    BY <1>9, <2>1, <2>2, BeforeOrders
  <2> DEFINE A == Earlier(en, un, d)
             B == Earlier(en, un, i)
  <2>4. A \cup {d} \subseteq B /\ d \notin A
    BY <1>1, <2>1, <2>3, BeforeOrders DEF Earlier, C
  <2>5. IsFiniteSet(A) /\ IsFiniteSet(B) /\ Cardinality(A) \in Nat /\ Cardinality(B) \in Nat
    BY <1>3, <1>9
  <2>6. room(d) <= room(i)
    BY <1>7, <1>8, <1>9
  <2>7. Slots - Cardinality(A) <= Slots - Cardinality(B)
    BY <2>6
  <2> HIDE DEF A, B
  <2>8. Cardinality(A \cup {d}) = Cardinality(A) + 1
    BY <2>4, <2>5, FS_AddElement
  <2>9. A \cup {d} \in SUBSET B
    BY <2>4
  <2>10. Cardinality(A \cup {d}) <= Cardinality(B)
    BY <2>5, <2>9, FS_Subset
  <2> QED
    BY <2>5, <2>7, <2>8, <2>10, SlotsAssumption, SMT
<1> QED
  BY <1>9 DEF T

\* Once a job starts, the jobs that hold the machine fit it.
LEMMA StartsFit ==
    ASSUME NEW en, \A i \in Jobs : en[i].parked \in BOOLEAN /\ en[i].dated \in BOOLEAN, NEW un, Starters(en, un) # {}
    PROVE  LET H == Holders(startAdmitted(en, un))
           IN  /\ IsFiniteSet(H) /\ Cardinality(H) <= Slots
               /\ \A i \in H : Alone(en, i) => H = {i}
<1> DEFINE z == startAdmitted(en, un)
           H == Holders(z)
<1>2. PICK d \in Starters(en, un) : \A i \in Starters(en, un) : i = d \/ i \in Earlier(en, un, d)
  BY LastStarter
<1> DEFINE A == Holders(en) \cup Earlier(en, un, d)
<1>3. d \in Jobs /\ MayStart(en, un, d)
  BY <1>2 DEF Starters, Candidates
<1>4. /\ Cardinality(A) < Slots /\ (\A i \in A : ~Alone(en, i)) /\ (Alone(en, d) => A = {})
  BY <1>3 DEF MayStart
<1>5. H \subseteq A \cup {d}
  <2>1. SUFFICES ASSUME NEW k \in Jobs, holdsMachine(z[k])
                 PROVE  k \in A \cup {d}
    BY DEF Holders
  <2>2. z[k] = en[k] \/ k \in Starters(en, un)
    BY DEF startAdmitted, Starters
  <2>3. CASE z[k] = en[k]
    BY <2>1, <2>3 DEF Holders
  <2>4. CASE k \in Starters(en, un)
    BY <1>2, <2>4
  <2> QED
    BY <2>2, <2>3, <2>4
<1>6. IsFiniteSet(A) /\ Cardinality(A) \in Nat
  BY <1>3, EarlierFinite
<1> HIDE DEF A, H, z
<1>7. IsFiniteSet(A \cup {d}) /\ Cardinality(A \cup {d}) = IF d \in A THEN Cardinality(A) ELSE Cardinality(A) + 1
  BY <1>6, FS_AddElement
<1>8. Cardinality(A \cup {d}) <= Slots /\ Cardinality(A \cup {d}) \in Nat
  BY <1>4, <1>6, <1>7, SlotsAssumption, SMT
<1>9. H \in SUBSET (A \cup {d})
  BY <1>5
<1>10. IsFiniteSet(H) /\ Cardinality(H) <= Cardinality(A \cup {d})
  BY <1>7, <1>9, FS_Subset
<1>11. Cardinality(H) \in Nat
  BY <1>10, FS_CardinalityType
<1>12. Cardinality(H) <= Slots
  BY <1>8, <1>10, <1>11, SlotsAssumption, SMT
<1>13. ASSUME NEW i \in H, Alone(en, i)
       PROVE  H = {i}
  <2>2. i = d
    BY <1>4, <1>5, <1>13
  <2>3. A = {}
    BY <1>4, <1>13, <2>2
  <2> QED
    BY <1>5, <2>2, <2>3
<1> QED
  BY <1>10, <1>12, <1>13 DEF H, z

-----------------------------------------------------------------------------
(* What the scheduler starts. *)

LEMMA LaunchIsAdmitted ==
    ASSUME NEW en, AllGood(en), NEW rec, NEW un, NEW j \in Jobs, en[j].phase # "launching",
           schedule(en, rec, un)[j].phase = "launching"
    PROVE  LET a == adoptCancelled(en) IN
           /\ ~rec /\ AllGood(a) /\ schedule(en, rec, un) = startAdmitted(a, un)
           /\ j \in Candidates(a, un) /\ MayStart(a, un, j)
           /\ a[j].phase = "queued" /\ ~a[j].parked
<1> DEFINE a == adoptCancelled(en)
<1>1. AllGood(a)
  <2>1. AllGood(schedule(en, TRUE, un))
    BY ScheduleGood
  <2> QED
    BY <2>1 DEF schedule
<1>2. a[j].phase # "launching"
  BY DEF adoptCancelled, adopt, AllGood, Good, Entry
<1> HIDE DEF a
<1>3. ~rec /\ schedule(en, rec, un) = startAdmitted(a, un)
  BY <1>2 DEF schedule, a
<1>4. j \in Candidates(a, un) /\ MayStart(a, un, j) /\ start(a[j]).phase = "launching"
  BY <1>2, <1>3 DEF startAdmitted
<1>5. ~a[j].parked
  BY <1>1, <1>4 DEF start, adopt, AllGood, Good, Entry
<1>6. a[j].phase = "queued"
  BY <1>4, <1>5 DEF Candidates
<1> QED
  BY <1>1, <1>3, <1>4, <1>5, <1>6 DEF a

\* A job the scheduler takes up without a cancel was parked.
LEMMA TakeUpIsAdmitted ==
    ASSUME NEW en, AllGood(en), NEW rec, NEW un, NEW j \in Jobs, en[j].phase # "running",
           schedule(en, rec, un)[j].phase = "running", ~schedule(en, rec, un)[j].cancelAsked
    PROVE  LET a == adoptCancelled(en) IN
           /\ ~rec /\ AllGood(a) /\ schedule(en, rec, un) = startAdmitted(a, un)
           /\ j \in Candidates(a, un) /\ MayStart(a, un, j)
<1> DEFINE a == adoptCancelled(en)
<1>1. AllGood(a)
  <2>1. AllGood(schedule(en, TRUE, un))
    BY ScheduleGood
  <2> QED
    BY <2>1 DEF schedule
<1>2. CASE en[j].parked /\ en[j].cancelAsked
  <2>1. a[j] = adopt(en[j])
    BY <1>2 DEF adoptCancelled
  <2>2. a[j].phase = "running" /\ a[j].cancelAsked
    BY <1>2, <2>1 DEF adopt, AllGood, Good, Entry
  <2> HIDE DEF a
  <2>3. j \notin Candidates(a, un)
    BY <2>2 DEF Candidates, Holders, holdsMachine
  <2>4. startAdmitted(a, un)[j] = a[j]
    BY <2>3 DEF startAdmitted
  <2>5. schedule(en, rec, un)[j] = a[j]
    BY <2>4 DEF schedule, a
  <2> QED
    BY <2>2, <2>5
<1>3. CASE ~(en[j].parked /\ en[j].cancelAsked)
  <2>1. a[j].phase # "running"
    BY <1>3 DEF adoptCancelled
  <2> HIDE DEF a
  <2>2. ~rec /\ schedule(en, rec, un) = startAdmitted(a, un)
    BY <2>1 DEF schedule, a
  <2>3. j \in Candidates(a, un) /\ MayStart(a, un, j)
    BY <2>1, <2>2 DEF startAdmitted
  <2> QED
    BY <1>1, <2>2, <2>3 DEF a
<1> QED
  BY <1>2, <1>3

\* Whatever is admitted, the machine fits.
LEMMA AdmittedFits ==
    ASSUME NEW a, AllGood(a), NEW un, NEW j \in Candidates(a, un), MayStart(a, un, j)
    PROVE  MachineFits(startAdmitted(a, un))
<1> DEFINE z == startAdmitted(a, un)
<1>1. \A i \in Jobs : a[i].parked \in BOOLEAN /\ a[i].dated \in BOOLEAN
  BY DEF AllGood, Good, Entry
<1>2. Starters(a, un) # {}
  BY DEF Starters
<1>3. /\ Cardinality(Holders(z)) <= Slots
      /\ \A i \in Holders(z) : Alone(a, i) => Holders(z) = {i}
  BY <1>1, <1>2, StartsFit
<1>4. ASSUME NEW i \in Jobs
      PROVE  Alone(z, i) => Alone(a, i)
  <2>1. a[i] \in Entry
    BY DEF AllGood, Good
  <2>2. start(a[i]).told = a[i].told
    BY <2>1 DEF start, adopt, Entry
  <2>3. z[i].told = a[i].told
    BY <2>2 DEF startAdmitted
  <2> QED
    BY <2>3 DEF Alone
<1>5. Holders(z) \subseteq Jobs
  BY DEF Holders
<1> QED
  BY <1>3, <1>4, <1>5 DEF MachineFits

\* A look that finds a job parked takes up nothing by itself.
LEMMA ParkedFound ==
    ASSUME NEW j \in Jobs, NEW c, Good(c), c.phase # "running",
           NEW f \in Finding, NEW p \in Presence, p.run = "parked"
    PROVE  OnRecovered(j, c, f, p).e.phase # "running"
<1> DEFINE h == OnRecovered(j, c, f, p).e
<1>0. c \in Entry /\ Answers(p)
  BY DEF Good, Answers
<1>1. CASE c.phase = "queued"
  <2>1. h \in {c, recoverQueuedAfresh(j, c, f, p).e}
    BY <1>1 DEF OnRecovered, Ignore, Result
  <2> QED
    BY <1>1, <2>1, RecoverPhases
<1>2. CASE c.phase = "left"
  <2>1. h = recoverLeft(j, c, p).e
    BY <1>2 DEF OnRecovered
  <2>2. judgeHold(c, p) \in Entry /\ judgeHold(c, p).phase = "left"
    BY <1>2 DEF judgeHold, Good, Entry
  <2>3. awaitRetry(j, judgeHold(c, p)).e.phase = "left" /\ NoEntry.phase = "none"
    BY <2>2, SmallStepPhases, SMT DEF NoEntry
  <2> QED
    BY <2>1, <2>3 DEF recoverLeft, Ignore, Result
<1>3. CASE c.phase \in {"none", "indoubt"}
  <2> DEFINE d == place(c, f, "indoubt")
             u == [d EXCEPT !.parked = TRUE]
  <2>1. recoverRunning(j, c, f, p).e = u
    BY DEF recoverRunning, Ignore, Result
  <2>2. u.phase = "indoubt"
    <3>1. d \in Entry
      BY PlaceTyped DEF Good
    <3>2. d.phase = "indoubt"
      BY PlaceFields, SMT DEF Good
    <3> HIDE DEF d
    <3> QED
      BY <3>1, <3>2 DEF Entry
  <2> HIDE DEF u
  <2>3. h \in {recoverQueuedAfresh(j, c, f, p).e, u, NoEntry, c, inDoubt(j, c, f, p).e}
    <3>1. CASE f.job \in {"queued", "running"} \cup FinalStates \cup {"no such job"}
      BY <1>3, <2>1, <3>1 DEF OnRecovered, FinalStates, recoverEnded, Result
    <3>3. CASE f.job \notin {"queued", "running"} \cup FinalStates \cup {"no such job"}
      BY <1>3, <3>3 DEF OnRecovered, FinalStates
    <3> QED
      BY <3>1, <3>3
  <2>4. NoEntry.phase = "none"
    BY DEF NoEntry
  <2>5. /\ recoverQueuedAfresh(j, c, f, p).e.phase # "running"
        /\ inDoubt(j, c, f, p).e.phase # "running"
    BY <1>3, RecoverPhases
  <2> QED
    BY <2>2, <2>3, <2>4, <2>5
<1>4. CASE c.phase \notin {"none", "queued", "indoubt", "left"}
  BY <1>4 DEF OnRecovered, Ignore, Result
<1> QED
  BY <1>1, <1>2, <1>3, <1>4

\* Nothing but a look takes a job in doubt up before the scheduler does.
Waits(j, h) == Good(h.e) /\ h.e.phase # "running" /\ Take(j, h)

LEMMA DoubtTakes ==
    ASSUME Inv, NEW j \in Jobs, JobEvent(j), ~LimitPasses(j), entry[j].phase = "indoubt",
           ~ \E f \in Finding, p \in Presence : Recovered(j, f, p)
    PROVE  \E h : Waits(j, h)
<1> DEFINE c == entry[j]
<1>i. ASSUME NEW h, h.e = c, Take(j, h) PROVE Waits(j, h)
  BY <1>i, InvIsGood DEF AllGood, Waits
<1>0. Good(c) /\ c \in Entry /\ c.phase = "indoubt"
  BY InvIsGood DEF AllGood, Good
<1> HIDE DEF c
<1>1. CASE \E a \in 0 .. MaxAttempts - 1 : Admitted(j, a)
  <2> PICK a \in 0 .. MaxAttempts - 1 : Admitted(j, a)
    BY <1>1
  <2>1. OnAdmitted(c, a).e = c
    BY <1>0 DEF OnAdmitted, admit, Ignore, Result
  <2> QED
    BY <1>i, <2>1 DEF Admitted, c
<1>3. CASE \E state \in JobStates : CancelAsked(j, state)
  <2> PICK state \in JobStates : CancelAsked(j, state)
    BY <1>3
  <2> DEFINE h == OnCancelAsked(j, c, state)
  <2>1. Good(h.e)
    BY <1>0, CancelAskedGood
  <2>2. h.e = markCancel(c)
    BY <1>0 DEF OnCancelAsked, admit, Ignore, Result
  <2>3. h.e.phase # "running"
    BY <1>0, <2>2 DEF markCancel, Entry
  <2>4. Take(j, h)
    BY DEF CancelAsked, c
  <2> HIDE DEF h
  <2> QED
    BY <2>1, <2>3, <2>4 DEF Waits
<1>4. CASE Discarded(j)
  <2>1. OnDiscarded(j, c).e = c
    BY <1>0 DEF OnDiscarded, Ignore, Result
  <2> QED
    BY <1>4, <1>i, <2>1 DEF Discarded, c
<1>5. CASE Launched(j)
  <2>1. OnLaunched(j, c).e = c
    BY <1>0 DEF OnLaunched, Ignore, Result
  <2> QED
    BY <1>5, <1>i, <2>1 DEF Launched, c
<1>6. CASE \E cause \in Causes : LaunchFailed(j, cause) \/ FollowFailed(j, cause)
  <2> PICK cause \in Causes : LaunchFailed(j, cause) \/ FollowFailed(j, cause)
    BY <1>6
  <2>1. OnLaunchFailed(j, c, cause).e = c /\ OnFollowFailed(j, c, cause).e = c
    BY <1>0 DEF OnLaunchFailed, OnFollowFailed, Ignore, Result
  <2>3. CASE LaunchFailed(j, cause)
    BY <1>i, <2>1, <2>3 DEF LaunchFailed, c
  <2>4. CASE FollowFailed(j, cause)
    BY <1>i, <2>1, <2>4 DEF FollowFailed, c
  <2> QED
    BY <2>3, <2>4
<1>7. CASE LeaseRefused(j)
  <2>1. OnLeaseRefused(j, c).e = c
    BY <1>0 DEF OnLeaseRefused, Ignore, Result
  <2> QED
    BY <1>7, <1>i, <2>1 DEF LeaseRefused, c
<1>8. CASE \E o \in Outcome : Finished(j, o)
  <2> PICK o \in Outcome : Finished(j, o)
    BY <1>8
  <2>1. OnFinished(j, c, o).e = c
    BY <1>0 DEF OnFinished, Ignore, Result
  <2> QED
    BY <1>i, <2>1 DEF Finished, c
<1>9. CASE \E proof \in Proofs, started \in StartKnown : SupervisorLost(j, proof, started)
  <2> PICK proof \in Proofs, started \in StartKnown : SupervisorLost(j, proof, started)
    BY <1>9
  <2>1. OnSupervisorLost(j, c, proof, started).e = c
    BY <1>0 DEF OnSupervisorLost, Ignore, Result
  <2> QED
    BY <1>i, <2>1 DEF SupervisorLost, c
<1>10. CASE StopFailed(j)
  <2>1. OnStopFailed(j, c).e = c
    BY <1>0 DEF OnStopFailed, Ignore, Result
  <2> QED
    BY <1>10, <1>i, <2>1 DEF StopFailed, c
<1>11. CASE CancelFailed(j)
  <2> DEFINE n == [c EXCEPT !.cancelSent = FALSE]
             h == OnCancelFailed(j, c)
  <2>1. n \in Entry /\ n.phase = "indoubt"
    BY <1>0 DEF Entry
  <2>2. c.phase \in {"running", "indoubt"}
    BY <1>0
  <2>5. h.e = awaitRetry(j, n).e
    BY <2>2 DEF OnCancelFailed
  <2> HIDE DEF n, h
  <2>3. h.e.phase # "running"
    <3>1. awaitRetry(j, n).e.phase = n.phase
      BY <2>1, SmallStepPhases
    <3> QED
      BY <2>1, <2>5, <3>1
  <2>4. Good(h.e) /\ Take(j, h)
    BY <1>0, <1>11, CancelFailedGood DEF CancelFailed, c, h
  <2> QED
    BY <2>3, <2>4 DEF Waits
<1>12. CASE MoveFailed(j)
  <2>1. OnMoveFailed(j, c).e = c
    BY <1>0 DEF OnMoveFailed, Ignore, Result
  <2> QED
    BY <1>12, <1>i, <2>1 DEF MoveFailed, c
<1>13. CASE DiscardFailed(j)
  <2>1. OnDiscardFailed(j, c).e = c
    BY <1>0 DEF OnDiscardFailed, Ignore, Result
  <2> QED
    BY <1>13, <1>i, <2>1 DEF DiscardFailed, c
<1>14. CASE RetryDue(j)
  <2> DEFINE n == [c EXCEPT !.armed = FALSE, !.waiting = FALSE]
             h == OnRetryDue(j, c)
  <2>1. n.phase = "indoubt"
    BY <1>0 DEF Entry
  <2>2. h.e = n
    BY <1>0 DEF OnRetryDue, Ignore, Result
  <2>3. h.e.phase # "running"
    BY <2>1, <2>2
  <2>4. Good(h.e) /\ Take(j, h)
    BY <1>0, <1>14, RetryDueGood DEF RetryDue, c
  <2> HIDE DEF h
  <2> QED
    BY <2>3, <2>4 DEF Waits
<1>15. CASE Requeued(j)
  <2>1. OnRequeued(j, c).e = c
    BY <1>0 DEF OnRequeued, Ignore, Result
  <2> QED
    BY <1>15, <1>i, <2>1 DEF Requeued, c
<1>16. CASE Closed(j)
  <2> DEFINE h == Ignore(NoEntry)
  <2>1. Good(h.e) /\ h.e.phase # "running"
    BY NoEntryGood DEF Ignore, Result, NoEntry
  <2>2. Take(j, h)
    BY <1>16 DEF Closed
  <2> HIDE DEF h
  <2> QED
    BY <2>1, <2>2 DEF Waits
<1> QED
  BY <1>1, <1>3, <1>4, <1>5, <1>6, <1>7, <1>8, <1>9, <1>10, <1>11, <1>12, <1>13, <1>14,
     <1>15, <1>16 DEF JobEvent

\* A step that takes a parked job up is a change of entries that leaves the job
\* waiting, and then the scheduler.
LEMMA TakesUpIsStep ==
    ASSUME Inv, [Next]_mvars, NEW j \in Jobs, TakesUp(j)
    PROVE  \E en : AllGood(en) /\ Step(en) /\ en[j].phase # "running"
<1>0. AllGood(entry)
  BY InvIsGood
<1>1. ASSUME NEW k \in Jobs, NEW h, Good(h.e), Take(k, h), k = j => h.e.phase # "running"
      PROVE  \E en : AllGood(en) /\ Step(en) /\ en[j].phase # "running"
  <2> DEFINE en == [entry EXCEPT ![k] = h.e]
  <2>1. AllGood(en)
    BY <1>0, <1>1 DEF AllGood
  <2>2. en[j].phase # "running"
    BY <1>0, <1>1 DEF AllGood, TakesUp
  <2>3. Step(en)
    BY <1>1 DEF Take
  <2> QED
    BY <2>1, <2>2, <2>3
<1>2. CASE \E f \in Finding, p \in Presence : p.run = "parked" /\ Recovered(j, f, p)
  <2> PICK f \in Finding, p \in Presence : p.run = "parked" /\ Recovered(j, f, p)
    BY <1>2
  <2> DEFINE h == OnRecovered(j, entry[j], f, p)
  <2>1. Good(entry[j]) /\ entry[j].phase # "running"
    BY <1>0 DEF AllGood, TakesUp
  <2>2. Good(h.e) /\ h.e.phase # "running"
    BY <2>1, RecoveredGood, ParkedFound
  <2>3. Take(j, h)
    BY DEF Recovered
  <2> HIDE DEF h
  <2> QED
    BY <1>1, <2>2, <2>3
<1>3. CASE /\ entry[j].parked
           /\ ~ \E f \in Finding, p \in Presence : Recovered(j, f, p)
  <2>0. entry[j].phase = "indoubt"
    BY <1>0, <1>3 DEF AllGood, Good, CoherentEntry
  <2>1. ASSUME NEW k \in Jobs, JobEvent(k), ~LimitPasses(k)
        PROVE  \E en : AllGood(en) /\ Step(en) /\ en[j].phase # "running"
    <3>1. CASE k = j
      <4>1. PICK h : Good(h.e) /\ h.e.phase # "running" /\ Take(j, h)
        BY <1>3, <2>0, <2>1, <3>1, DoubtTakes DEF Waits
      <4> QED
        BY <1>1, <4>1
    <3>2. CASE k # j
      <4>1. PICK h : Good(h.e) /\ Take(k, h)
        BY <2>1, JobEventTakes DEF Takes
      <4> QED
        BY <1>1, <3>2, <4>1
    <3> QED
      BY <3>1, <3>2
  <2>2. ASSUME NEW k \in Jobs, LimitPasses(k)
        PROVE  FALSE
    <3>1. entry'[j].phase = entry[j].phase
      BY <1>0, <2>2 DEF LimitPasses, AllGood, Good, Entry
    <3> QED
      BY <3>1 DEF TakesUp
  <2>3. ASSUME NEW s \in Stores, StoreEvent(s)
        PROVE  \E en : AllGood(en) /\ Step(en) /\ en[j].phase # "running"
    <3>1. CASE StoreUnread(s) \/ StoreRead(s)
      BY <1>0, <2>0, <3>1 DEF StoreUnread, StoreRead
    <3>2. ASSUME NEW runs, StoreForgotten(s, runs)
          PROVE  \E en : AllGood(en) /\ Step(en) /\ en[j].phase # "running"
      <4>1. PICK en : /\ AllGood(en) /\ Step(en)
                      /\ \A k \in Jobs : en[k] = entry[k] \/ en[k].phase \in {"left", "none"}
        BY <3>2, ForgottenIs
      <4> QED
        BY <2>0, <4>1
    <3> QED
      BY <2>3, <3>1, <3>2 DEF StoreEvent
  <2>4. CASE RecoveryDone
    BY <1>0, <2>0, <2>4 DEF RecoveryDone
  <2>5. ~Restart /\ ~UNCHANGED mvars
    <3>1. Restart => entry'[j] = NoEntry
      BY DEF Restart
    <3>2. NoEntry.phase = "none"
      BY DEF NoEntry
    <3> QED
      BY <3>1, <3>2 DEF TakesUp, mvars
  <2> QED
    BY <2>1, <2>2, <2>3, <2>4, <2>5 DEF Next
<1> QED
  BY <1>2, <1>3 DEF TakesUp

\* A job is launched, and a parked one that nobody cancelled is taken up, only after
\* recovery, and only if the machine fits it with all that starts in the same step;
\* a launched job was not cancelled, and its store has no job of unknown state
\* (machine.go: schedule, and schedule.go: Step).
THEOREM LaunchesAlone == Spec => StartsAlone
<1> DEFINE Fits == ~recovering' /\ MachineFits(entry')
           Free(j) == /\ ~entry'[j].cancelAsked
                      /\ ~storeBlocked(entry', unread', StoreOf[j])
<1>1. ASSUME Inv, [Next]_mvars, NEW j \in Jobs, Launches(j)
      PROVE  Fits /\ Free(j)
  <2>1. PICK en : QuietStep(en)
    BY <1>1, NextIsQuiet DEF Quiet, NoLaunch, Launches
  <2> DEFINE a == adoptCancelled(en)
             un == unread'
  <2>2. AllGood(en) /\ en[j].phase # "launching" /\ entry' = schedule(en, recovering', un)
    BY <1>1, <2>1 DEF QuietStep, Quiet, NoLaunch, Step, Launches
  <2>0. entry'[j].phase = "launching"
    BY <1>1 DEF Launches
  <2>3. /\ ~recovering' /\ AllGood(a) /\ entry' = startAdmitted(a, un)
        /\ j \in Candidates(a, un) /\ MayStart(a, un, j)
        /\ a[j].phase = "queued" /\ ~a[j].parked
    BY <2>0, <2>2, LaunchIsAdmitted, SMT
  <2> HIDE DEF a, un
  <2>4. \A k \in Jobs : entry'[k] = IF k \in Candidates(a, un) /\ MayStart(a, un, k)
                                    THEN start(a[k]) ELSE a[k]
    BY <2>3 DEF startAdmitted
  <2>5. entry'[j] = [a[j] EXCEPT !.phase = "launching"]
    BY <2>3, <2>4 DEF start
  <2>6. ~entry'[j].cancelAsked
    BY <2>3, <2>5 DEF AllGood, Good, CoherentEntry, Entry
  <2>7. ~storeBlocked(entry', un, StoreOf[j])
    <3>1. ~storeBlocked(a, un, StoreOf[j])
      BY <2>3 DEF Candidates
    <3>2. ASSUME NEW k \in Jobs, blocksStore(entry'[k])
          PROVE  blocksStore(a[k])
      <4>1. CASE k \in Candidates(a, un) /\ MayStart(a, un, k)
        <5>1. start(a[k]).phase \in {"running", "launching"}
          BY <2>3 DEF start, adopt, AllGood, Good, Entry
        <5> QED
          BY <2>4, <3>2, <4>1, <5>1 DEF blocksStore
      <4>2. CASE ~(k \in Candidates(a, un) /\ MayStart(a, un, k))
        BY <2>4, <3>2, <4>2
      <4> QED
        BY <4>1, <4>2
    <3> QED
      BY <3>1, <3>2 DEF storeBlocked
  <2>8. MachineFits(entry')
    BY <2>3, AdmittedFits
  <2> QED
    BY <2>3, <2>6, <2>7, <2>8 DEF un
<1>2. ASSUME Inv, [Next]_mvars, NEW j \in Jobs, TakesUp(j)
      PROVE  Fits
  <2>1. PICK en : AllGood(en) /\ Step(en) /\ en[j].phase # "running"
    BY <1>2, TakesUpIsStep
  <2> DEFINE a == adoptCancelled(en)
             un == unread'
  <2>2. entry' = schedule(en, recovering', un) /\ entry'[j].phase = "running" /\ ~entry'[j].cancelAsked
    BY <1>2, <2>1 DEF Step, TakesUp
  <2>3. /\ ~recovering' /\ AllGood(a) /\ entry' = startAdmitted(a, un)
        /\ j \in Candidates(a, un) /\ MayStart(a, un, j)
    BY <2>1, <2>2, TakeUpIsAdmitted, SMT
  <2> HIDE DEF a, un
  <2>4. MachineFits(entry')
    BY <2>3, AdmittedFits
  <2> QED
    BY <2>3, <2>4
<1>3. Inv /\ [Next]_mvars => [\A j \in Jobs : /\ Launches(j) \/ TakesUp(j) => Fits
                                              /\ Launches(j) => Free(j)]_mvars
  BY <1>1, <1>2
<1>4. Spec => []Inv
  BY MachineCoherent, PTL DEF Inv
<1> QED
  BY <1>3, <1>4, PTL DEF Spec, StartsAlone

-----------------------------------------------------------------------------
(* Commands that may run fit the machine if the jobs that hold it do. *)

LEMMA LiveFinite ==
    ASSUME NEW S \in SUBSET Jobs
    PROVE  IsFiniteSet(S) /\ Cardinality(S) \in Nat
  BY JobsAssumption, FS_Subset, FS_CardinalityType

LEMMA FewerFit ==
    ASSUME LiveFits, Live' \subseteq Live
    PROVE  LiveFits'
<1> DEFINE L == Live
           M == Live'
<1>1. L \in SUBSET Jobs /\ M \in SUBSET L
  BY DEF Live
<1>2. Cardinality(L) <= Slots /\ \A j \in L \cap Exclusive : L = {j}
  BY DEF LiveFits
<1> HIDE DEF L, M
<1>3. IsFiniteSet(L) /\ Cardinality(L) \in Nat
  BY <1>1, LiveFinite
<1>4. M \in SUBSET Jobs
  BY <1>1
<1>5. Cardinality(M) \in Nat
  BY <1>4, LiveFinite
<1>6. Cardinality(M) <= Cardinality(L)
  BY <1>1, <1>3, FS_Subset
<1>7. Cardinality(M) <= Slots
  BY <1>2, <1>3, <1>5, <1>6, SlotsAssumption, SMT
<1>8. \A j \in M \cap Exclusive : M = {j}
  <2> TAKE j \in M \cap Exclusive
  <2>1. L = {j}
    BY <1>1, <1>2
  <2> QED
    BY <1>1, <2>1
<1> QED
  BY <1>7, <1>8 DEF LiveFits, M

LEMMA HoldersFit ==
    ASSUME Live' \subseteq Holders(entry'), IsFiniteSet(Holders(entry')), Cardinality(Holders(entry')) <= Slots,
           \A j \in Holders(entry') \cap Exclusive : Holders(entry') = {j}
    PROVE  LiveFits'
<1> DEFINE L == Holders(entry')
           M == Live'
<1>1. L \in SUBSET Jobs /\ M \in SUBSET L
  BY DEF Holders
<1>2. Cardinality(L) <= Slots /\ \A j \in L \cap Exclusive : L = {j}
  OBVIOUS
<1> HIDE DEF L, M
<1>3. IsFiniteSet(L) /\ Cardinality(L) \in Nat
  BY <1>1, LiveFinite
<1>4. M \in SUBSET Jobs
  BY <1>1
<1>5. Cardinality(M) \in Nat
  BY <1>4, LiveFinite
<1>6. Cardinality(M) <= Cardinality(L)
  BY <1>1, <1>3, FS_Subset
<1>7. Cardinality(M) <= Slots
  BY <1>2, <1>3, <1>5, <1>6, SlotsAssumption, SMT
<1>8. \A j \in M \cap Exclusive : M = {j}
  <2> TAKE j \in M \cap Exclusive
  <2>1. L = {j}
    BY <1>1, <1>2
  <2> QED
    BY <1>1, <2>1
<1> QED
  BY <1>7, <1>8 DEF LiveFits, M

LEMMA NotShared ==
    ASSUME OnlyRunningExecutes, LiveFits
    PROVE  MachineNotShared
<1> DEFINE L == Live
           M == Executing
<1>2. L \in SUBSET Jobs /\ M \in SUBSET L
  BY DEF Live, LiveOf, Begins, Over, FinalStates, Executing, OnlyRunningExecutes
<1>3. Cardinality(L) <= Slots /\ \A j \in L \cap Exclusive : L = {j}
  BY DEF LiveFits
<1> HIDE DEF L, M
<1>4. IsFiniteSet(L) /\ Cardinality(L) \in Nat /\ M \in SUBSET Jobs
  BY <1>2, LiveFinite
<1>5. Cardinality(M) \in Nat
  BY <1>4, LiveFinite
<1>6. Cardinality(M) <= Cardinality(L)
  BY <1>2, <1>4, FS_Subset
<1>7. Cardinality(M) <= Slots
  BY <1>3, <1>4, <1>5, <1>6, SlotsAssumption, SMT
<1>8. \A j \in M \cap Exclusive : M = {j}
  <2> TAKE j \in M \cap Exclusive
  <2>1. L = {j}
    BY <1>2, <1>3
  <2> QED
    BY <1>2, <2>1
<1> QED
  BY <1>7, <1>8 DEF MachineNotShared, M

-----------------------------------------------------------------------------
(* Messages. *)

LEMMA PlainMessages ==
    ASSUME NEW type \in PlainTypes
    PROVE  JobMessage(Event(type))
  BY DEF JobMessage, Event, PlainTypes

LEMMA FailedMessages ==
    ASSUME NEW type \in {"LaunchFailed", "FollowFailed"}, NEW cause \in Causes
    PROVE  JobMessage(Failed(type, cause))
  BY DEF JobMessage, Failed

\* The loop taking a message up is an event of the machine.
LEMMA DeliverIsEvent ==
    ASSUME NEW j \in Jobs, NEW ev, NEW h, NEW gone, JobMessage(ev), Deliver(j, ev, h, gone)
    PROVE  JobEvent(j)
<1>1. Take(j, Handler(j, entry[j], ev))
  BY DEF Deliver
<1>2. CASE ev.type = "Admitted" /\ ev.attempts \in 0 .. MaxAttempts - 1
  BY <1>1, <1>2 DEF Handler, JobEvent, Admitted
<1>3. CASE ev.type = "Recovered" /\ ev.f \in Finding /\ ev.p \in Presence
  BY <1>1, <1>3 DEF Handler, JobEvent, Recovered
<1>4. CASE ev.type = "CancelAsked" /\ ev.state \in JobStates
  BY <1>1, <1>4 DEF Handler, JobEvent, CancelAsked
<1>5. CASE ev.type \in {"LaunchFailed", "FollowFailed"} /\ ev.cause \in Causes
  BY <1>1, <1>5 DEF Handler, JobEvent, LaunchFailed, FollowFailed
<1>6. CASE ev.type = "Finished" /\ ev.o \in Outcome
  BY <1>1, <1>6 DEF Handler, JobEvent, Finished
<1>7. CASE ev.type = "SupervisorLost" /\ ev.proof \in Proofs /\ ev.start \in StartKnown
  BY <1>1, <1>7 DEF Handler, JobEvent, SupervisorLost
<1>8. CASE ev.type \in PlainTypes
  BY <1>1, <1>8 DEF PlainTypes, Handler, JobEvent, Launched, LeaseRefused, StopFailed, CancelFailed,
     MoveFailed, DiscardFailed, Discarded, Requeued, RetryDue, Closed
<1> QED
  BY <1>2, <1>3, <1>4, <1>5, <1>6, <1>7, <1>8 DEF JobMessage

-----------------------------------------------------------------------------
(* Every request of a handler is about the job of the event. *)

LEMMA RequestsAbout ==
    ASSUME NEW j
    PROVE  /\ About(j, {})
           /\ \A kind : About(j, {Request(kind, j)})
           /\ \A c : About(j, {Adopt(j, c)}) /\ About(j, {Move(j, c)})
           /\ \A b : About(j, {Discard(j, b)})
           /\ \A c, r : Result(c, r).r = r
           /\ \A c : Ignore(c).r = {}
  BY SMT DEF About, Request, Adopt, Move, Discard, Result, Ignore

LEMMA SmallStepsAbout ==
    ASSUME NEW j
    PROVE  /\ \A c : About(j, awaitRetry(j, c).r)
           /\ \A c, st : About(j, settle(j, c, st).r)
           /\ \A c : About(j, cancelQueuedJob(j, c).r)
           /\ \A c : About(j, lookAgain(j, c).r)
           /\ \A c : About(j, signalCancel(j, c).r)
<1>1. \A c : About(j, awaitRetry(j, c).r)
  BY SMT DEF awaitRetry, About, Request, Result
<1>2. \A c, st : About(j, settle(j, c, st).r)
  BY SMT DEF settle, About, Move, Result
<1>3. \A c : About(j, cancelQueuedJob(j, c).r)
  BY SMT DEF cancelQueuedJob, About, Move, Result
<1>4. \A c : About(j, lookAgain(j, c).r)
  BY SMT DEF lookAgain, About, Request, Result
<1>5. \A c : About(j, signalCancel(j, c).r)
  BY SMT DEF signalCancel, About, Request, Result, Ignore
<1> QED
  BY <1>1, <1>2, <1>3, <1>4, <1>5

LEMMA CutOffAbout ==
    ASSUME NEW j, NEW c, NEW proof, NEW begun
    PROVE  About(j, cutOff(j, c, proof, begun).r)
  BY SmallStepsAbout, SMT DEF cutOff, About, Move, Result

LEMMA InDoubtAbout ==
    ASSUME NEW j, NEW c, NEW f, NEW p
    PROVE  About(j, inDoubt(j, c, f, p).r) /\ About(j, doubtUnlessGivenUp(j, c, f, p).r)
<1>1. About(j, inDoubt(j, c, f, p).r)
  BY RequestsAbout, SmallStepsAbout, SMT DEF inDoubt, About
<1> QED
  BY <1>1, SmallStepsAbout DEF doubtUnlessGivenUp

LEMMA RecoveredAbout ==
    ASSUME NEW j, NEW c, NEW f, NEW p
    PROVE  About(j, OnRecovered(j, c, f, p).r)
<1>1. About(j, recoverRunning(j, c, f, p).r)
  <2>1. \A n : About(j, cutOff(j, n, p.proof, p.start).r)
    BY CutOffAbout
  <2> QED
    BY <2>1, RequestsAbout, InDoubtAbout DEF recoverRunning
<1>2. About(j, recoverQueuedAfresh(j, c, f, p).r)
  BY SmallStepsAbout, InDoubtAbout, SMT DEF recoverQueuedAfresh, About, Result, Discard, Ignore
<1>3. About(j, recoverEnded(j, p).r)
  BY SMT DEF recoverEnded, About, Discard, Result
<1>4. About(j, recoverLeft(j, c, p).r)
  BY RequestsAbout, SmallStepsAbout DEF recoverLeft
<1> QED
  BY <1>1, <1>2, <1>3, <1>4, RequestsAbout, InDoubtAbout DEF OnRecovered

LEMMA HandlerAbout ==
    ASSUME NEW j, NEW c, NEW ev
    PROVE  About(j, Handler(j, c, ev).r)
<1> USE RequestsAbout, SmallStepsAbout
<1>1. \A a : About(j, OnAdmitted(c, a).r)
  BY DEF OnAdmitted
<1>2. \A state : About(j, OnCancelAsked(j, c, state).r)
  BY DEF OnCancelAsked
<1>3. About(j, OnDiscarded(j, c).r) /\ About(j, OnLaunched(j, c).r)
  BY DEF OnDiscarded, OnLaunched
<1>4. \A cause : About(j, OnLaunchFailed(j, c, cause).r)
  BY DEF OnLaunchFailed
<1>5. About(j, OnLeaseRefused(j, c).r)
  BY DEF OnLeaseRefused
<1>6. \A o : About(j, OnFinished(j, c, o).r)
  BY DEF OnFinished
<1>7. \A proof, begun : About(j, OnSupervisorLost(j, c, proof, begun).r)
  BY CutOffAbout DEF OnSupervisorLost
<1>8. \A cause : About(j, OnFollowFailed(j, c, cause).r)
  <2> TAKE cause
  <2>1. CASE c.phase # "running"
    BY <2>1 DEF OnFollowFailed
  <2>2. CASE c.phase = "running" /\ cause = "store away"
    BY <2>2 DEF OnFollowFailed
  <2>3. CASE c.phase = "running" /\ cause # "store away"
    <3>1. OnFollowFailed(j, c, cause) = Result([c EXCEPT !.phase = "stopping"], {Request("stop", j)})
      BY <2>3 DEF OnFollowFailed
    <3>2. OnFollowFailed(j, c, cause).r = {Request("stop", j)}
      BY <3>1 DEF Result
    <3> QED
      BY <3>2, SMT
  <2> QED
    BY <2>1, <2>2, <2>3
<1>9. About(j, OnStopFailed(j, c).r) /\ About(j, OnCancelFailed(j, c).r)
  BY DEF OnStopFailed, OnCancelFailed
<1>10. About(j, OnMoveFailed(j, c).r) /\ About(j, OnDiscardFailed(j, c).r)
  BY DEF OnMoveFailed, OnDiscardFailed
<1>11. About(j, OnRequeued(j, c).r) /\ About(j, OnRetryDue(j, c).r)
  BY DEF OnRequeued, OnRetryDue
<1> QED
  BY <1>1, <1>2, <1>3, <1>4, <1>5, <1>6, <1>7, <1>8, <1>9, <1>10, <1>11, RecoveredAbout DEF Handler

-----------------------------------------------------------------------------
(* The invariant. *)

LEMMA GotoOK ==
    ASSUME NEW e, EffectOK(e), NEW at, at \notin {"post", "find"}
    PROVE  EffectOK([e EXCEPT !.at = at])
  BY DEF EffectOK

LEMMA AnswerOK ==
    ASSUME NEW e, EffectOK(e), NEW ev, JobMessage(ev)
    PROVE  EffectOK([e EXCEPT !.at = "post", !.ev = ev])
<1> DEFINE n == [e EXCEPT !.at = "post", !.ev = ev]
<1>1. DOMAIN n = DOMAIN e /\ n.job = e.job /\ n.at = "post" /\ n.ev = ev
  BY DEF EffectOK
<1> QED
  BY <1>1 DEF EffectOK

\* An effect that moves on or answers leaves the others as they are.
LEMMA EffectMoves ==
    ASSUME EffectsOK(effects), NEW e \in effects
    PROVE  /\ \A at : at \notin {"post", "find"} /\ Goto(e, at) => EffectsOK(effects')
           /\ \A ev : JobMessage(ev) /\ Answer(e, ev) => EffectsOK(effects')
<1>1. EffectOK(e)
  BY DEF EffectsOK
<1>2. ASSUME NEW at, at \notin {"post", "find"}, Goto(e, at)
      PROVE  EffectsOK(effects')
  BY <1>1, <1>2, GotoOK, SMT DEF Goto, EffectsOK
<1>3. ASSUME NEW ev, JobMessage(ev), Answer(e, ev)
      PROVE  EffectsOK(effects')
  <2>1. EffectOK([e EXCEPT !.at = "post", !.ev = ev])
    BY <1>1, <1>3, AnswerOK
  <2> QED
    BY <1>3, <2>1 DEF Answer, EffectsOK
<1> QED
  BY <1>2, <1>3

LEMMA EffectOfOK ==
    ASSUME NEW q, q.job \in Jobs, NEW handles
    PROVE  EffectOK(effectOf(q, handles))
<1>1. \A kind, at : at \notin {"post", "find"} => EffectOK(Effect(kind, q.job, at))
  BY DEF EffectOK, Effect
<1>2. \A e, h : EffectOK(e) => EffectOK([e EXCEPT !.h = h])
  BY DEF EffectOK
<1>3. \A e, h, b : EffectOK(e) => EffectOK([e EXCEPT !.h = h, !.flag = b])
  BY DEF EffectOK
<1>4. \A e, h, b, st : EffectOK(e) => EffectOK([e EXCEPT !.h = h, !.settlement = st, !.flag = b])
  BY SMT DEF EffectOK
<1>5. EffectOK([Effect("retry", q.job, "post") EXCEPT !.ev = Event("RetryDue")])
  BY PlainMessages DEF EffectOK, Effect, PlainTypes
<1> QED
  BY <1>1, <1>2, <1>3, <1>4, <1>5 DEF effectOf

LEMMA AfterStepOK ==
    ASSUME NEW j, NEW brings, NEW drops, NEW gone, NEW reqs, EffectsOK(effects),
           \A q \in reqs : q.job \in Jobs, AfterStep(j, brings, drops, gone, reqs)
    PROVE  EffectsOK(effects')
<1> DEFINE handles == keepHandle(j, brings, reqs)
<1>1. effects' = (effects \ gone) \cup {effectOf(q, handles) : q \in reqs}
  BY DEF AfterStep
<1>2. \A q \in reqs : EffectOK(effectOf(q, handles))
  BY EffectOfOK
<1> HIDE DEF handles
<1> QED
  BY <1>1, <1>2 DEF EffectsOK

LEMMA ScheduleAbout ==
    ASSUME NEW en, NEW sch
    PROVE  \A q \in scheduleRequests(en, sch) : q.job \in Jobs
  BY SMT DEF scheduleRequests, Adopt, Request

LEMMA DeliverOK ==
    ASSUME NEW j \in Jobs, NEW ev, NEW h, NEW gone, EffectsOK(effects), Deliver(j, ev, h, gone)
    PROVE  EffectsOK(effects')
<1> DEFINE r == Handler(j, entry[j], ev)
           reqs == r.r \cup scheduleRequests([entry EXCEPT ![j] = r.e], entry')
<1>1. AfterStep(j, bringsHandle(ev, h), ev.type \in {"Closed", "Discarded"}, gone, reqs)
  BY DEF Deliver
<1>2. \A q \in reqs : q.job \in Jobs
  BY HandlerAbout, ScheduleAbout DEF About
<1> HIDE DEF reqs
<1> QED
  BY <1>1, <1>2, AfterStepOK

-----------------------------------------------------------------------------
(* What is read of the stores and the runs has its type. *)

LEMMA ProbeType ==
    ASSUME NEW r \in Run
    PROVE  Probe(r) \in Presence /\ foundDead(r, "lock free") \in Presence
<1>1. \A what \in {"none", "parked", "running", "finished", "released", "unknown"} : found(what) \in Presence
  BY DEF found, Presence
<1>2. \A proof \in Proofs : foundDead(r, proof) \in Presence
  BY DEF foundDead, startOf, Presence, StartKnown
<1>3. noDirectory(r) \in Presence
  BY <1>1, <1>2 DEF noDirectory, Proofs
<1>4. r.dir /\ Alive(r) => (IF r.proc = "executing" THEN "running" ELSE r.proc)
                              \in {"parked", "running", "finished", "released"}
  BY DEF Run, Procs, Alive
<1> QED
  BY <1>1, <1>2, <1>3, <1>4 DEF Probe, Proofs

LEMMA FindingType ==
    /\ StoreAway \in Finding /\ NoSuchJob \in Finding
    /\ \A job \in StoredJob : jobIn(job) \in Finding
  BY DEF StoreAway, NoSuchJob, jobIn, Finding, StoredJob

LEMMA InStoreType ==
    ASSUME WorldOK, NEW j \in Jobs
    PROVE  InStore(j) \in Finding
<1>1. store[j] \in StoredJob \cup {Absent}
  BY DEF WorldOK
<1> QED
  BY <1>1, FindingType, SMT DEF InStore, Absent

LEMMA RecoveredMessage ==
    ASSUME NEW f \in Finding, NEW p \in Presence
    PROVE  JobMessage(RecoveredEvent(f, p))
  BY DEF JobMessage, RecoveredEvent

LEMMA UnknownType == found("unknown") \in Presence /\ found("none") \in Presence
  BY DEF found, Presence

\* What a store has after a record is a job.
LEMMA RecordType ==
    ASSUME NEW job \in StoredJob \cup {Absent}, NEW t
    PROVE  record(job, t) \in StoredJob \cup {Absent}
<1> DEFINE m == follow(job, t)
<1>1. CASE ~Applies(job, m)
  BY <1>1 DEF record
<1>2. CASE Applies(job, m)
  <2>1. CanMoveTo(job.state, m.to) /\ (m.to = "queued" => job.attempts + 1 < MaxAttempts)
    BY <1>2 DEF Applies
  <2> HIDE DEF m
  <2>2. job \in StoredJob
    BY <2>1, SMT DEF CanMoveTo, Absent
  <2>3. m.to \in JobStates
    BY <2>1 DEF CanMoveTo, JobStates, FinalStates
  <2>4. Apply(job, m) \in StoredJob
    BY <2>1, <2>2, <2>3, AttemptsAssumption, SMT DEF Apply, StoredJob
  <2> QED
    BY <1>2, <2>4 DEF record, m
<1> QED
  BY <1>1, <1>2

\* What becomes of a run is a run.
LEMMA RunType ==
    ASSUME NEW r \in Run
    PROVE  /\ writeRecord(r) \in Run /\ begin(makeDirectory(r)) \in Run /\ comeUp(r) \in Run
           /\ markStartSent(r) \in Run /\ Start(r) \in Run /\ Cancel(r) \in Run /\ Release(r) \in Run
           /\ removeDirectory(r) \in Run /\ removeRecord(r) \in Run /\ NoRun \in Run
           /\ die(r) \in Run /\ reboot(r) \in Run /\ \A e \in Ends(r) : e \in Run
<1> USE DEF Run, Procs, Marks
<1>1. writeRecord(r) \in Run
  BY DEF writeRecord
<1>2. begin(makeDirectory(r)) \in Run
  BY DEF begin, makeDirectory
<1>3. comeUp(r) \in Run /\ markStartSent(r) \in Run /\ Cancel(r) \in Run /\ Release(r) \in Run
  BY DEF comeUp, markStartSent, Cancel, Release
<1>4. Start(r) \in Run
  BY DEF Start
<1>5. removeDirectory(r) \in Run /\ die(r) \in Run
  BY DEF removeDirectory, die
<1>6. NoRun \in Run
  BY DEF NoRun
<1>7. reboot(r) \in Run
  BY DEF reboot
<1>8. \A e \in Ends(r) : e \in Run
  BY DEF Ends
<1> QED
  BY <1>1, <1>2, <1>3, <1>4, <1>5, <1>6, <1>7, <1>8 DEF removeRecord

\* The world keeps its type if one run or one stored job of it is replaced by another.
LEMMA WorldKept ==
    ASSUME WorldOK, NEW j \in Jobs
    PROVE  /\ run[j] \in Run /\ store[j] \in StoredJob \cup {Absent}
           /\ UNCHANGED <<store, run>> => WorldOK'
           /\ \A r \in Run : SetRun(j, r) /\ UNCHANGED store => WorldOK'
           /\ \A job \in StoredJob \cup {Absent} : SetStore(j, job) /\ UNCHANGED run => WorldOK'
  BY DEF WorldOK, SetRun, SetStore

-----------------------------------------------------------------------------
(* The effects. *)

LEMMA LaunchKeeps ==
    ASSUME ShellInv, NEW e \in effects, LaunchStep(e)
    PROVE  WorldOK' /\ EffectsOK(effects')
<1>1. EffectsOK(effects) /\ WorldOK /\ e.job \in Jobs
  BY DEF ShellInv, EffectsOK, EffectOK
<1> DEFINE r == run[e.job]
           job == store[e.job]
<1>2. r \in Run /\ job \in StoredJob \cup {Absent} /\ record(job, ToRunning) \in StoredJob \cup {Absent}
  BY <1>1, WorldKept, RecordType
<1>3. /\ JobMessage(Event("Closed")) /\ JobMessage(Event("LeaseRefused")) /\ JobMessage(Event("Launched"))
      /\ \A cause \in Causes : JobMessage(Failed("LaunchFailed", cause))
  BY PlainMessages, FailedMessages DEF PlainTypes
<1>4. CASE LaunchRead(e)
  BY <1>1, <1>3, <1>4, WorldKept, EffectMoves DEF LaunchRead, world, Causes
<1>5. CASE LaunchSpawn(e)
  BY <1>1, <1>2, <1>3, <1>5, WorldKept, EffectMoves, RunType DEF LaunchSpawn, NotSpawned, Causes
<1>6. CASE LaunchMkdir(e)
  BY <1>1, <1>2, <1>3, <1>6, WorldKept, EffectMoves, RunType DEF LaunchMkdir, NotSpawned, Causes
<1>7. CASE LaunchUp(e)
  <2>1. CASE Answer(e, Failed("LaunchFailed", "supervisor silent")) /\ SetRun(e.job, NoRun)
    BY <1>1, <1>2, <1>3, <1>7, <2>1, WorldKept, EffectMoves, RunType DEF LaunchUp, Causes
  <2>2. CASE /\ SetRun(e.job, comeUp(r))
             /\ effects' = (effects \ {e}) \cup {[e EXCEPT !.at = "record", !.h = TRUE]}
    <3>1. EffectOK([e EXCEPT !.at = "record", !.h = TRUE])
      BY <1>1 DEF EffectsOK, EffectOK
    <3>2. EffectsOK(effects')
      BY <1>1, <2>2, <3>1 DEF EffectsOK
    <3> QED
      BY <1>1, <1>2, <1>7, <2>2, <3>2, WorldKept, RunType DEF LaunchUp
  <2> QED
    BY <1>7, <2>1, <2>2 DEF LaunchUp, NotSpawned
<1>8. CASE LaunchRecord(e)
  <2>1. WorldOK'
    BY <1>1, <1>2, <1>8, WorldKept DEF LaunchRecord, SetStore
  <2>2. EffectsOK(effects')
    BY <1>1, <1>3, <1>8, EffectMoves DEF LaunchRecord, Causes
  <2> QED
    BY <2>1, <2>2
<1> QED
  BY <1>4, <1>5, <1>6, <1>7, <1>8 DEF LaunchStep

\* What a call to a supervisor that does not answer, or is gone, is reported as.
LEMMA SilentMessages ==
    ASSUME NEW e, NEW r \in Run
    PROVE  /\ JobMessage(Silent("FollowFailed")) /\ JobMessage(Silent(failureOf(e)))
           /\ JobMessage(goneOf(e, r))
<1>1. JobMessage(Silent("FollowFailed"))
  BY FailedMessages DEF Silent, Causes
<1>2. failureOf(e) \in {"FollowFailed", "StopFailed", "CancelFailed"}
  BY DEF failureOf
<1>3. JobMessage(Silent(failureOf(e)))
  BY <1>2, FailedMessages, PlainMessages DEF Silent, Causes, PlainTypes
<1>4. JobMessage(LostEvent(foundDead(r, "lock free")))
  BY DEF JobMessage, LostEvent, foundDead, startOf, Proofs, StartKnown
<1>5. JobMessage([type |-> "SupervisorLost", proof |-> "released", start |-> "may"])
  BY DEF JobMessage, Proofs, StartKnown
<1> QED
  BY <1>1, <1>3, <1>4, <1>5 DEF goneOf

LEMMA OutcomeMessage ==
    ASSUME NEW r \in Run, NEW rerun \in BOOLEAN
    PROVE  JobMessage(FinishedEvent(outcomeOf(r, rerun)))
<1>1. outcomeOf(r, rerun) \in Outcome
  BY DEF outcomeOf, Outcome, Run, Execs
<1> QED
  BY <1>1 DEF JobMessage, FinishedEvent

LEMMA FollowKeeps ==
    ASSUME ShellInv, NEW e \in effects, FollowStep(e)
    PROVE  WorldOK' /\ EffectsOK(effects')
<1>1. EffectsOK(effects) /\ WorldOK /\ e.job \in Jobs
  BY DEF ShellInv, EffectsOK, EffectOK
<1> DEFINE r == run[e.job]
<1>2. r \in Run
  BY <1>1, WorldKept
<1>3. /\ Cancel(r) \in Run /\ markStartSent(r) \in Run /\ Start(r) \in Run
      /\ JobMessage(Silent("FollowFailed")) /\ JobMessage(Silent(failureOf(e))) /\ JobMessage(goneOf(e, r))
      /\ JobMessage(Event("CancelFailed")) /\ JobMessage(Event("StopFailed"))
      /\ JobMessage(Failed("FollowFailed", "store away")) /\ JobMessage(Failed("FollowFailed", "refused"))
  BY <1>2, RunType, SilentMessages, PlainMessages, FailedMessages DEF PlainTypes, Causes
<1>8. JobMessage(FinishedEvent(outcomeOf(r, e.job \in Rerun)))
  <2>1. (e.job \in Rerun) \in BOOLEAN
    BY SMT
  <2> QED
    BY <1>2, <2>1, OutcomeMessage
<1>4. CASE CallCancel(e)
  <2>1. WorldOK'
    BY <1>1, <1>3, <1>4, WorldKept DEF CallCancel, SetRun
  <2>2. effects' = effects \ {e} => EffectsOK(effects')
    BY <1>1 DEF EffectsOK
  <2>3. EffectsOK(effects')
    BY <1>1, <1>3, <1>4, <2>2, EffectMoves DEF CallCancel
  <2> QED
    BY <2>1, <2>3
<1>5. CASE FollowStart(e)
  <2>1. WorldOK'
    BY <1>1, <1>3, <1>5, WorldKept DEF FollowStart, SetRun
  <2>2. EffectsOK(effects')
    BY <1>1, <1>3, <1>5, EffectMoves DEF FollowStart
  <2> QED
    BY <2>1, <2>2
<1>6. CASE FollowTell(e)
  <2>1. WorldOK'
    BY <1>1, <1>3, <1>6, WorldKept DEF FollowTell, SetRun
  <2>2. EffectsOK(effects')
    BY <1>1, <1>3, <1>6, EffectMoves DEF FollowTell
  <2> QED
    BY <2>1, <2>2
<1>7. CASE Wait(e)
  <2>1. WorldOK'
    BY <1>1, <1>7, WorldKept DEF Wait, world
  <2>2. EffectsOK(effects')
    BY <1>1, <1>3, <1>7, <1>8, EffectMoves DEF Wait
  <2> QED
    BY <2>1, <2>2
<1> QED
  BY <1>4, <1>5, <1>6, <1>7 DEF FollowStep

LEMMA ReleaseKeeps ==
    ASSUME ShellInv, NEW e \in effects, ReleaseStep(e)
    PROVE  WorldOK' /\ EffectsOK(effects')
<1>1. EffectsOK(effects) /\ WorldOK /\ e.job \in Jobs
  BY DEF ShellInv, EffectsOK, EffectOK
<1> DEFINE r == run[e.job]
           job == store[e.job]
<1>2. r \in Run /\ job \in StoredJob \cup {Absent} /\ record(job, e.settlement) \in StoredJob \cup {Absent}
  BY <1>1, WorldKept, RecordType
<1>3. /\ JobMessage(released(e)) /\ JobMessage(unreleased(e)) /\ JobMessage(Event("MoveFailed"))
      /\ JobMessage(Event(IF Requeues(e.settlement) THEN "Requeued" ELSE "Closed"))
  BY PlainMessages DEF PlainTypes, released, unreleased
<1>4. CASE MoveRecord(e)
  <2>1. WorldOK'
    BY <1>1, <1>2, <1>4, WorldKept DEF MoveRecord, SetStore
  <2>2. EffectsOK(effects')
    BY <1>1, <1>3, <1>4, EffectMoves DEF MoveRecord
  <2> QED
    BY <2>1, <2>2
<1>5. CASE ReleaseRun(e)
  <2>1. WorldOK'
    BY <1>1, <1>2, <1>5, WorldKept, RunType DEF ReleaseRun
  <2>2. EffectsOK(effects')
    BY <1>1, <1>3, <1>5, EffectMoves DEF ReleaseRun
  <2> QED
    BY <2>1, <2>2
<1>6. CASE Forget(e)
  BY <1>1, <1>2, <1>3, <1>6, WorldKept, RunType, EffectMoves DEF Forget
<1>7. CASE Unrecord(e)
  BY <1>1, <1>2, <1>3, <1>7, WorldKept, RunType, EffectMoves DEF Unrecord
<1> QED
  BY <1>4, <1>5, <1>6, <1>7 DEF ReleaseStep

LEMMA ReexamineKeeps ==
    ASSUME ShellInv, NEW e \in effects, ReexamineLook(e) \/ ReexamineFind(e)
    PROVE  WorldOK' /\ EffectsOK(effects')
<1>1. EffectsOK(effects) /\ WorldOK /\ EffectOK(e) /\ e.job \in Jobs
  BY DEF ShellInv, EffectsOK, EffectOK
<1>2. WorldOK'
  BY <1>1, WorldKept DEF ReexamineLook, ReexamineFind, world
<1>3. CASE ReexamineLook(e)
  <2>1. PICK p \in {Probe(run[e.job]), found("unknown")} :
           effects' = (effects \ {e}) \cup {[e EXCEPT !.at = "find", !.ev = RecoveredEvent(StoreAway, p)]}
    BY <1>3 DEF ReexamineLook
  <2>2. p \in Presence
    BY <1>1, WorldKept, ProbeType, UnknownType
  <2> DEFINE n == [e EXCEPT !.at = "find", !.ev = RecoveredEvent(StoreAway, p)]
  <2>3. DOMAIN n = DOMAIN e /\ n.job = e.job /\ n.at = "find" /\ n.ev = RecoveredEvent(StoreAway, p)
    BY <1>1 DEF EffectOK
  <2> HIDE DEF n
  <2>4. EffectOK(n)
    BY <1>1, <2>2, <2>3, SMT DEF EffectOK, RecoveredEvent
  <2>5. EffectsOK(effects')
    BY <1>1, <2>1, <2>4 DEF EffectsOK, n
  <2> QED
    BY <1>2, <2>5
<1>4. CASE ReexamineFind(e)
  <2>1. PICK f \in {InStore(e.job), StoreAway} : Answer(e, RecoveredEvent(f, e.ev.p))
    BY <1>4 DEF ReexamineFind
  <2>2. JobMessage(RecoveredEvent(f, e.ev.p))
    BY <1>1, <1>4, InStoreType, FindingType, RecoveredMessage DEF EffectOK, ReexamineFind
  <2> QED
    BY <1>1, <1>2, <2>1, <2>2, EffectMoves
<1> QED
  BY <1>3, <1>4

-----------------------------------------------------------------------------
(* The readers. *)

LEMMA FirstOf ==
    ASSUME NEW S, S \subseteq Jobs, S # {}
    PROVE  firstOf(S) \in S
<1>1. \E j \in S : \A k \in S : j <= k
  BY LeastNatural, JobsAssumption
<1> QED
  BY <1>1 DEF firstOf

LEMMA IdleOK == ReaderOK("sweep", Idle) /\ ReaderOK("submit", Idle) /\ ReadersOK(StartingUp)
<1>1. /\ DOMAIN Idle = {"at", "store", "again", "stale", "todo", "away", "runs", "seen", "job", "ev"}
      /\ Idle.at = "idle" /\ Idle.todo = {} /\ DOMAIN Idle.seen = {}
  BY SMT DEF Idle
<1>2. ReaderOK("sweep", Idle) /\ ReaderOK("submit", Idle)
  BY <1>1 DEF ReaderOK
<1>3. ReaderOK("start", [Idle EXCEPT !.at = "runs"])
  BY <1>1 DEF ReaderOK
<1>4. DOMAIN StartingUp = Readers
  BY DEF StartingUp, Readers
<1>5. ASSUME NEW r \in Readers
      PROVE  ReaderOK(r, StartingUp[r])
  BY <1>2, <1>3 DEF StartingUp, Readers
<1> QED
  BY <1>2, <1>4, <1>5 DEF ReadersOK

\* Readers keep what they have to if one is replaced by one that does.
LEMMA ReaderSet ==
    ASSUME ReadersOK(reader), NEW r \in Readers, NEW x, ReaderOK(r, x), SetReader(r, x)
    PROVE  ReadersOK(reader')
  BY DEF ReadersOK, SetReader

LEMMA StaleOK ==
    ASSUME NEW r \in Readers, NEW x, ReaderOK(r, x), NEW b
    PROVE  ReaderOK(r, [x EXCEPT !.stale = b])
<1> DEFINE n == [x EXCEPT !.stale = b]
<1>1. /\ DOMAIN n = DOMAIN x /\ n.at = x.at /\ n.store = x.store /\ n.todo = x.todo /\ n.runs = x.runs
      /\ n.seen = x.seen /\ n.job = x.job /\ n.ev = x.ev
  BY DEF ReaderOK
<1> HIDE DEF n
<1> QED
  BY <1>1 DEF ReaderOK, ReaderMessage

LEMMA SupersededOK ==
    ASSUME ReadersOK(reader), NEW r \in Readers, NEW x, ReaderOK(r, x), NEW s,
           reader' = Superseded(r, x, s)
    PROVE  ReadersOK(reader')
<1>1. DOMAIN reader' = Readers
  BY DEF Superseded, ReadersOK
<1>2. ASSUME NEW q \in Readers
      PROVE  ReaderOK(q, reader'[q])
  <2>1. CASE q = r
    BY <2>1 DEF Superseded, ReadersOK
  <2>2. CASE q # r
    <3> DEFINE b == reader[q].stale \/ reader[q].store = s
    <3>1. reader'[q] = [reader[q] EXCEPT !.stale = b]
      BY <2>2, <1>2 DEF Superseded, ReadersOK
    <3> HIDE DEF b
    <3>2. ReaderOK(q, reader[q])
      BY DEF ReadersOK
    <3> QED
      BY <3>1, <3>2, StaleOK, SMT
  <2> QED
    BY <2>1, <2>2
<1> QED
  BY <1>1, <1>2 DEF ReadersOK

LEMMA UnfinishedSeen ==
    ASSUME WorldOK, NEW s
    PROVE  LET seen == [j \in Unfinished(s) |-> store[j]]
           IN  DOMAIN seen \subseteq Jobs /\ \A j \in DOMAIN seen : seen[j] \in StoredJob
  BY SMT DEF WorldOK, Unfinished, Absent

LEMMA MinusSeen ==
    ASSUME NEW f, DOMAIN f \subseteq Jobs, \A j \in DOMAIN f : f[j] \in StoredJob, NEW i
    PROVE  DOMAIN minus(f, i) \subseteq Jobs /\ \A j \in DOMAIN minus(f, i) : minus(f, i)[j] \in StoredJob
  BY DEF minus

\* The runs are read as they are, or as unknown.
LEMMA StartRunsKeeps ==
    ASSUME ShellInv, StartRuns
    PROVE  ReadersOK(reader')
<1> DEFINE x == reader["start"]
           looked(mute) == [j \in Jobs |-> IF j \in mute THEN found("unknown") ELSE Probe(run[j])]
           next(mute) == [x EXCEPT !.at = "list", !.todo = Stores, !.runs = looked(mute)]
<1>1. \E mute : SetReader("start", next(mute))
  <2>1. SetReader("start", next({})) \/ \E j \in Jobs : SetReader("start", next({j}))
    BY DEF StartRuns
  <2> HIDE DEF next
  <2> QED
    BY <2>1
<1> PICK mute : SetReader("start", next(mute))
  BY <1>1
<1>2. ReaderOK("start", x) /\ ReadersOK(reader)
  BY DEF ShellInv, ReadersOK, Readers
<1>3. looked(mute) \in [Jobs -> Presence]
  BY ProbeType, UnknownType DEF ShellInv, WorldOK
<1> DEFINE n == next(mute)
<1>4. DOMAIN n = DOMAIN x /\ n.at = "list" /\ n.todo = Stores /\ n.runs = looked(mute) /\ n.seen = x.seen
  <2> HIDE DEF x, looked
  <2> QED
    BY <1>2 DEF ReaderOK
<1> HIDE DEF x, looked, next
<1>5. ReaderOK("start", next(mute))
  BY <1>2, <1>3, <1>4 DEF ReaderOK
<1> QED
  BY <1>2, <1>5, ReaderSet DEF Readers

LEMMA StartListKeeps ==
    ASSUME ShellInv, StartList
    PROVE  ReadersOK(reader')
<1> DEFINE x == reader["start"]
           seen(s) == [j \in Unfinished(s) |-> store[j]]
           told(s) == [x EXCEPT !.at = "jobs", !.store = s, !.todo = @ \ {s}, !.seen = seen(s)]
           mute(s) == [x EXCEPT !.at = "post", !.store = s, !.todo = @ \ {s}, !.away = @ \cup {s},
                                !.ev = Event("StoreUnread")]
<1>1. PICK s \in x.todo : x.at = "list" /\ (SetReader("start", told(s)) \/ SetReader("start", mute(s)))
  BY DEF StartList
<1>2. ReaderOK("start", x) /\ ReadersOK(reader) /\ WorldOK
  BY DEF ShellInv, ReadersOK, Readers
<1>3. /\ s \in Stores /\ x.todo \subseteq Stores /\ x.runs \in [Jobs -> Presence]
      /\ DOMAIN seen(s) \subseteq Jobs /\ \A j \in DOMAIN seen(s) : seen(s)[j] \in StoredJob
  BY <1>1, <1>2, UnfinishedSeen DEF ReaderOK
<1> HIDE DEF x, seen
<1>4. CASE SetReader("start", told(s))
  <2> DEFINE n == told(s)
  <2>1. DOMAIN n = DOMAIN x /\ n.at = "jobs" /\ n.todo = x.todo \ {s} /\ n.runs = x.runs /\ n.seen = seen(s)
    BY <1>2 DEF ReaderOK
  <2> HIDE DEF n
  <2>2. ReaderOK("start", n)
    BY <1>2, <1>3, <2>1 DEF ReaderOK
  <2> QED
    BY <1>2, <1>4, <2>2, ReaderSet DEF Readers, n
<1>5. CASE SetReader("start", mute(s))
  <2> DEFINE n == mute(s)
  <2>1. /\ DOMAIN n = DOMAIN x /\ n.at = "post" /\ n.todo = x.todo \ {s} /\ n.runs = x.runs /\ n.seen = x.seen
        /\ n.store = s /\ n.ev.type = "StoreUnread"
    BY <1>2 DEF ReaderOK, Event
  <2> HIDE DEF n
  <2>2. ReaderOK("start", n)
    BY <1>2, <1>3, <2>1 DEF ReaderOK, ReaderMessage
  <2> QED
    BY <1>2, <1>5, <2>2, ReaderSet DEF Readers, n
<1> QED
  BY <1>1, <1>4, <1>5

\* The first job of a list, or of what is left of the runs, is told of as it was found.
LEMMA StartJobKeeps ==
    ASSUME ShellInv, StartJob
    PROVE  ReadersOK(reader')
<1> DEFINE x == reader["start"]
           j == firstOf(DOMAIN x.seen)
           n == [x EXCEPT !.at = "post", !.job = j, !.seen = minus(@, j),
                          !.ev = RecoveredEvent(jobIn(x.seen[j]), x.runs[j]),
                          !.runs = [@ EXCEPT ![j] = found("none")]]
<1>1. /\ x.at = "jobs"
      /\ IF DOMAIN x.seen = {} THEN SetReader("start", [x EXCEPT !.at = "list"]) ELSE SetReader("start", n)
  BY DEF StartJob
<1>2. ReaderOK("start", x) /\ ReadersOK(reader) /\ x.runs \in [Jobs -> Presence] /\ DOMAIN x.seen \subseteq Jobs
  BY <1>1 DEF ShellInv, ReadersOK, Readers, ReaderOK
<1> HIDE DEF x
<1>3. CASE DOMAIN x.seen = {}
  <2>1. ReaderOK("start", [x EXCEPT !.at = "list"])
    BY <1>1, <1>2 DEF ReaderOK
  <2> QED
    BY <1>1, <1>2, <1>3, <2>1, ReaderSet DEF Readers
<1>4. CASE DOMAIN x.seen # {}
  <2>1. j \in DOMAIN x.seen /\ j \in Jobs
    BY <1>2, <1>4, FirstOf
  <2> HIDE DEF j
  <2>2. JobMessage(RecoveredEvent(jobIn(x.seen[j]), x.runs[j]))
    BY <1>2, <2>1, FindingType, RecoveredMessage DEF ReaderOK
  <2>3. /\ DOMAIN n = DOMAIN x /\ n.at = "post" /\ n.job = j /\ n.seen = minus(x.seen, j) /\ n.todo = x.todo
        /\ n.ev = RecoveredEvent(jobIn(x.seen[j]), x.runs[j]) /\ n.runs = [x.runs EXCEPT ![j] = found("none")]
    BY <1>2 DEF ReaderOK
  <2>4. n.runs \in [Jobs -> Presence]
    BY <1>2, <2>1, <2>3, UnknownType, SMT
  <2>5. DOMAIN n.seen \subseteq Jobs /\ \A k \in DOMAIN n.seen : n.seen[k] \in StoredJob
    BY <1>2, <2>3, MinusSeen DEF ReaderOK
  <2> HIDE DEF n
  <2>6. ReaderOK("start", n)
    BY <1>2, <2>1, <2>2, <2>3, <2>4, <2>5 DEF ReaderOK, ReaderMessage
  <2> QED
    BY <1>1, <1>2, <1>4, <2>6, ReaderSet DEF Readers
<1> QED
  BY <1>3, <1>4

LEMMA StartLeftoverKeeps ==
    ASSUME ShellInv, StartLeftover
    PROVE  ReadersOK(reader')
<1> DEFINE x == reader["start"]
           rest == {i \in Jobs : x.runs[i].run # "none"}
           j == firstOf(rest)
           f == IF StoreOf[j] \in x.away THEN StoreAway ELSE NoSuchJob
           n == [x EXCEPT !.at = "post", !.job = j, !.ev = RecoveredEvent(f, x.runs[j]),
                          !.runs = [@ EXCEPT ![j] = found("none")]]
           done == [Idle EXCEPT !.at = "post", !.ev = Event("RecoveryDone")]
<1>1. x.at = "list" /\ IF rest = {} THEN SetReader("start", done) ELSE SetReader("start", n)
  BY DEF StartLeftover
<1>2. ReaderOK("start", x) /\ ReadersOK(reader) /\ x.runs \in [Jobs -> Presence]
  BY <1>1 DEF ShellInv, ReadersOK, Readers, ReaderOK
<1> HIDE DEF x
<1>3. CASE rest = {}
  <2>1. /\ DOMAIN done = {"at", "store", "again", "stale", "todo", "away", "runs", "seen", "job", "ev"}
        /\ done.at = "post" /\ done.todo = {} /\ DOMAIN done.seen = {} /\ done.ev.type = "RecoveryDone"
    BY SMT DEF Idle, Event
  <2> HIDE DEF done
  <2>2. ReaderOK("start", done)
    BY <2>1 DEF ReaderOK, ReaderMessage
  <2> QED
    BY <1>1, <1>2, <1>3, <2>2, ReaderSet DEF Readers
<1>4. CASE rest # {}
  <2>1. j \in Jobs
    BY <1>4, FirstOf
  <2> HIDE DEF j
  <2>2. f \in Finding
    BY FindingType
  <2> HIDE DEF f
  <2>3. JobMessage(RecoveredEvent(f, x.runs[j]))
    BY <1>2, <2>1, <2>2, RecoveredMessage
  <2>4. /\ DOMAIN n = DOMAIN x /\ n.at = "post" /\ n.job = j /\ n.seen = x.seen /\ n.todo = x.todo
        /\ n.ev = RecoveredEvent(f, x.runs[j]) /\ n.runs = [x.runs EXCEPT ![j] = found("none")]
    BY <1>2 DEF ReaderOK
  <2>5. n.runs \in [Jobs -> Presence]
    BY <1>2, <2>1, <2>4, UnknownType
  <2> HIDE DEF n
  <2>6. ReaderOK("start", n)
    BY <1>2, <2>1, <2>3, <2>4, <2>5 DEF ReaderOK, ReaderMessage
  <2> QED
    BY <1>1, <1>2, <1>4, <2>6, ReaderSet DEF Readers
<1> QED
  BY <1>3, <1>4

LEMMA SweepBeginKeeps ==
    ASSUME ShellInv, SweepBegin
    PROVE  ReadersOK(reader')
<1> DEFINE next(s) == [Idle EXCEPT !.at = "list", !.store = s, !.again = (s \in unread)]
<1>1. PICK s \in Stores : SetReader("sweep", next(s))
  BY DEF SweepBegin
<1> DEFINE n == next(s)
<1>2. /\ DOMAIN n = {"at", "store", "again", "stale", "todo", "away", "runs", "seen", "job", "ev"}
      /\ n.at = "list" /\ n.store = s /\ DOMAIN n.seen = {}
  BY SMT DEF Idle
<1> HIDE DEF next
<1>3. ReaderOK("sweep", n)
  BY <1>2 DEF ReaderOK
<1> QED
  BY <1>1, <1>3, ReaderSet DEF ShellInv, Readers

LEMMA ReadListKeeps ==
    ASSUME ShellInv, NEW r \in Readers, ReadList(r)
    PROVE  ReadersOK(reader')
<1> DEFINE x == reader[r]
           seen == [j \in Unfinished(x.store) |-> store[j]]
           told(at, stale) == [x EXCEPT !.at = at, !.stale = stale, !.seen = seen]
           mute(stale) == [x EXCEPT !.at = "post", !.stale = stale, !.ev = Event("StoreUnread")]
<1>1. ReaderOK(r, x) /\ ReadersOK(reader) /\ WorldOK
  BY DEF ShellInv, ReadersOK
<1>2. r # "start" /\ x.at = "list"
  BY DEF ReadList
<1>3. x.store \in Stores
  BY <1>1, <1>2 DEF ReaderOK
<1>4. DOMAIN seen \subseteq Jobs /\ \A j \in DOMAIN seen : seen[j] \in StoredJob
  BY <1>1, UnfinishedSeen
<1>5. PICK stale :
         \/ SetReader(r, told(IF x.again THEN "jobs" ELSE "held", stale))
         \/ SetReader(r, CASE r = "submit" -> [x EXCEPT !.at = "admit"]
                           [] r = "sweep" /\ x.again -> Idle
                           [] OTHER -> mute(stale))
  BY DEF ReadList
<1> HIDE DEF x, seen
<1>6. ASSUME NEW at \in {"jobs", "held"}
      PROVE  ReaderOK(r, told(at, stale))
  <2> DEFINE n == told(at, stale)
  <2>1. /\ DOMAIN n = DOMAIN x /\ n.at = at /\ n.store = x.store /\ n.todo = x.todo /\ n.seen = seen
    BY <1>1 DEF ReaderOK
  <2> HIDE DEF n
  <2>2. ReaderOK(r, n)
    BY <1>1, <1>2, <1>3, <1>4, <1>6, <2>1 DEF ReaderOK
  <2> QED
    BY <2>2 DEF n
<1>7. ReaderOK(r, mute(stale))
  <2> DEFINE n == mute(stale)
  <2>1. /\ DOMAIN n = DOMAIN x /\ n.at = "post" /\ n.store = x.store /\ n.todo = x.todo /\ n.seen = x.seen
        /\ n.ev.type = "StoreUnread"
    BY <1>1 DEF ReaderOK, Event
  <2> HIDE DEF n
  <2>2. ReaderOK(r, n)
    BY <1>1, <1>2, <1>3, <2>1 DEF ReaderOK, ReaderMessage
  <2> QED
    BY <2>2 DEF n
<1>8. r = "submit" => ReaderOK(r, [x EXCEPT !.at = "admit"])
  BY <1>1, <1>2 DEF ReaderOK
<1>9. r = "sweep" => ReaderOK(r, Idle)
  BY IdleOK
<1> HIDE DEF told, mute
<1>10. PICK n : ReaderOK(r, n) /\ SetReader(r, n)
  <2>1. CASE SetReader(r, told(IF x.again THEN "jobs" ELSE "held", stale))
    BY <1>6, <2>1
  <2>2. CASE r = "submit" /\ ~SetReader(r, told(IF x.again THEN "jobs" ELSE "held", stale))
    BY <1>5, <1>8, <2>2
  <2>3. CASE r # "submit" /\ ~SetReader(r, told(IF x.again THEN "jobs" ELSE "held", stale))
    BY <1>2, <1>5, <1>7, <1>9, <2>3 DEF Readers
  <2> QED
    BY <2>1, <2>2, <2>3
<1> QED
  BY <1>1, <1>10, ReaderSet

LEMMA SweepHeldKeeps ==
    ASSUME ShellInv, SweepHeld
    PROVE  ReadersOK(reader')
<1> DEFINE x == reader["sweep"]
           news == {j \in DOMAIN x.seen : x.seen[j].state = "queued" \/ entry[j].phase = "none"}
           n == [x EXCEPT !.at = "jobs", !.seen = [j \in news |-> x.seen[j]]]
<1>1. ReaderOK("sweep", x) /\ ReadersOK(reader)
  BY DEF ShellInv, ReadersOK, Readers
<1>2. x.at = "held" /\ SetReader("sweep", n)
  BY DEF SweepHeld
<1> HIDE DEF x
<1>3. DOMAIN n = DOMAIN x /\ n.at = "jobs" /\ n.store = x.store /\ n.seen = [j \in news |-> x.seen[j]]
  BY <1>1 DEF ReaderOK
<1>4. news \subseteq DOMAIN x.seen
  OBVIOUS
<1> HIDE DEF n, news
<1>5. ReaderOK("sweep", n)
  BY <1>1, <1>2, <1>3, <1>4 DEF ReaderOK
<1> QED
  BY <1>1, <1>2, <1>5, ReaderSet DEF Readers

LEMMA SweepFindKeeps ==
    ASSUME ShellInv, SweepFind
    PROVE  ReadersOK(reader')
<1> DEFINE x == reader["sweep"]
           next(f) == [x EXCEPT !.at = "post", !.ev = RecoveredEvent(f, x.ev.p)]
<1>1. ReaderOK("sweep", x) /\ ReadersOK(reader) /\ WorldOK
  BY DEF ShellInv, ReadersOK, Readers
<1>2. PICK f \in {InStore(x.job), StoreAway} : x.at = "find" /\ SetReader("sweep", next(f))
  BY DEF SweepFind
<1> HIDE DEF x
<1>3. x.job \in Jobs /\ JobMessage(RecoveredEvent(f, x.ev.p))
  BY <1>1, <1>2, InStoreType, FindingType, RecoveredMessage DEF ReaderOK
<1> DEFINE n == next(f)
<1>4. /\ DOMAIN n = DOMAIN x /\ n.at = "post" /\ n.store = x.store /\ n.seen = x.seen /\ n.job = x.job
      /\ n.ev = RecoveredEvent(f, x.ev.p)
  BY <1>1 DEF ReaderOK
<1> HIDE DEF next
<1>5. ReaderOK("sweep", n)
  BY <1>1, <1>2, <1>3, <1>4 DEF ReaderOK, ReaderMessage
<1> QED
  BY <1>1, <1>2, <1>5, ReaderSet DEF Readers

LEMMA ReadJobKeeps ==
    ASSUME ShellInv, NEW r \in Readers, ReadJob(r)
    PROVE  ReadersOK(reader')
<1> DEFINE x == reader[r]
           j == firstOf(DOMAIN x.seen)
           next == [x EXCEPT !.at = "post", !.job = j, !.seen = minus(@, j)]
           over == [x EXCEPT !.at = "post", !.ev = Event("StoreRead")]
           admitted == [next EXCEPT !.ev = AdmittedEvent(x.seen[j])]
           found1(at, p) == [next EXCEPT !.at = at, !.ev = RecoveredEvent(jobIn(x.seen[j]), p)]
<1>1. ReaderOK(r, x) /\ ReadersOK(reader) /\ WorldOK
  BY DEF ShellInv, ReadersOK
<1>2. r # "start" /\ x.at = "jobs"
  BY DEF ReadJob
<1>3. /\ DOMAIN x.seen = {} => SetReader(r, over)
      /\ DOMAIN x.seen # {} =>
            \/ SetReader(r, admitted)
            \/ \E p \in {Probe(run[j]), found("unknown")} :
                  SetReader(r, found1(IF x.again THEN "post" ELSE "find", p))
  BY DEF ReadJob
<1>4. x.store \in Stores
  BY <1>1, <1>2 DEF ReaderOK
<1> HIDE DEF x
<1>5. CASE DOMAIN x.seen = {}
  <2>1. /\ DOMAIN over = DOMAIN x /\ over.at = "post" /\ over.store = x.store /\ over.todo = x.todo
        /\ over.seen = x.seen /\ over.ev.type = "StoreRead"
    BY <1>1 DEF ReaderOK, Event
  <2> HIDE DEF over
  <2>2. ReaderOK(r, over)
    BY <1>1, <1>2, <1>4, <2>1 DEF ReaderOK, ReaderMessage
  <2> QED
    BY <1>1, <1>3, <1>5, <2>2, ReaderSet
<1>6. CASE DOMAIN x.seen # {}
  <2>1. j \in DOMAIN x.seen /\ j \in Jobs /\ x.seen[j] \in StoredJob
    BY <1>1, <1>6, FirstOf DEF ReaderOK
  <2> HIDE DEF j
  <2>2. /\ DOMAIN next = DOMAIN x /\ next.at = "post" /\ next.store = x.store /\ next.todo = x.todo
        /\ next.seen = minus(x.seen, j) /\ next.job = j
    BY <1>1 DEF ReaderOK
  <2> HIDE DEF next
  <2>3. DOMAIN next.seen \subseteq Jobs /\ \A k \in DOMAIN next.seen : next.seen[k] \in StoredJob
    BY <1>1, <2>2, MinusSeen DEF ReaderOK
  <2>4. ASSUME NEW n, DOMAIN n = DOMAIN x, n.store = x.store, n.todo = x.todo, n.seen = next.seen, n.job = j,
               \/ n.at = "post" /\ JobMessage(n.ev)
               \/ n.at = "find" /\ n.ev.p \in Presence
        PROVE  ReaderOK(r, n)
    BY <1>1, <1>2, <1>4, <2>1, <2>3, <2>4 DEF ReaderOK, ReaderMessage
  <2>5. CASE SetReader(r, admitted)
    <3>1. JobMessage(AdmittedEvent(x.seen[j]))
      BY <2>1 DEF JobMessage, AdmittedEvent, StoredJob
    <3>2. /\ DOMAIN admitted = DOMAIN x /\ admitted.store = x.store /\ admitted.todo = x.todo
          /\ admitted.seen = next.seen /\ admitted.job = j /\ admitted.at = "post"
          /\ admitted.ev = AdmittedEvent(x.seen[j])
      BY <1>1, <2>2 DEF ReaderOK
    <3> HIDE DEF admitted
    <3>3. ReaderOK(r, admitted)
      BY <2>4, <3>1, <3>2
    <3> QED
      BY <1>1, <2>5, <3>3, ReaderSet
  <2>6. ASSUME NEW p \in {Probe(run[j]), found("unknown")}, NEW at \in {"post", "find"},
               SetReader(r, found1(at, p))
        PROVE  ReadersOK(reader')
    <3>1. p \in Presence
      BY <1>1, <2>1, <2>6, WorldKept, ProbeType, UnknownType
    <3>2. JobMessage(RecoveredEvent(jobIn(x.seen[j]), p)) /\ RecoveredEvent(jobIn(x.seen[j]), p).p = p
      BY <2>1, <3>1, FindingType, RecoveredMessage DEF RecoveredEvent
    <3> DEFINE n == found1(at, p)
    <3>3. /\ DOMAIN n = DOMAIN x /\ n.store = x.store /\ n.todo = x.todo /\ n.seen = next.seen /\ n.job = j
          /\ n.at = at /\ n.ev = RecoveredEvent(jobIn(x.seen[j]), p)
      BY <1>1, <2>2 DEF ReaderOK
    <3> HIDE DEF found1
    <3>4. ReaderOK(r, n)
      BY <2>4, <2>6, <3>1, <3>2, <3>3
    <3> QED
      BY <1>1, <2>6, <3>4, ReaderSet
  <2> HIDE DEF admitted, found1
  <2> QED
    BY <1>3, <1>6, <2>5, <2>6
<1> QED
  BY <1>5, <1>6

\* A reader whose message was taken up, or dropped, goes on in order.
LEMMA AfterPostOK ==
    ASSUME NEW r \in Readers, NEW x, ReaderOK(r, x), x.at = "post"
    PROVE  ReaderOK(r, afterPost(r, x))
<1> DEFINE done == [Idle EXCEPT !.at = "done"]
           admit1 == [x EXCEPT !.at = "admit", !.again = FALSE, !.ev = NoEvent, !.job = 0]
           list == [x EXCEPT !.at = "list", !.ev = NoEvent]
           jobs == [x EXCEPT !.at = "jobs", !.ev = NoEvent, !.job = 0]
<1>1. ReaderMessage(r, x)
  BY DEF ReaderOK
<1>2. CASE x.ev.type = "RecoveryDone"
  <2>1. r = "start"
    BY <1>1, <1>2 DEF ReaderMessage, JobMessage, PlainTypes
  <2>2. /\ DOMAIN done = {"at", "store", "again", "stale", "todo", "away", "runs", "seen", "job", "ev"}
        /\ done.at = "done" /\ done.todo = {} /\ DOMAIN done.seen = {}
    BY SMT DEF Idle
  <2>3. afterPost(r, x) = done
    BY <1>2 DEF afterPost
  <2> HIDE DEF done
  <2> QED
    BY <2>1, <2>2, <2>3 DEF ReaderOK
<1>3. CASE x.ev.type = "StoreRead" /\ r = "submit"
  <2>1. /\ DOMAIN admit1 = DOMAIN x /\ admit1.at = "admit" /\ admit1.store = x.store /\ admit1.todo = x.todo
        /\ admit1.seen = x.seen
    BY DEF ReaderOK
  <2>2. afterPost(r, x) = admit1
    BY <1>3 DEF afterPost
  <2> HIDE DEF admit1
  <2> QED
    BY <1>3, <2>1, <2>2 DEF ReaderOK
<1>4. CASE x.ev.type \in {"StoreRead", "StoreUnread"} /\ r = "sweep"
  <2>1. afterPost(r, x) = Idle
    BY <1>4 DEF afterPost
  <2> QED
    BY <1>4, <2>1, IdleOK
<1>5. CASE x.ev.type = "StoreUnread" /\ r = "start"
  <2>1. DOMAIN list = DOMAIN x /\ list.at = "list" /\ list.todo = x.todo /\ list.seen = x.seen /\ list.runs = x.runs
    BY DEF ReaderOK
  <2>2. afterPost(r, x) = list
    BY <1>5 DEF afterPost
  <2> HIDE DEF list
  <2> QED
    BY <1>5, <2>1, <2>2 DEF ReaderOK
<1>6. CASE /\ x.ev.type # "RecoveryDone"
           /\ ~(x.ev.type = "StoreRead" /\ r = "submit")
           /\ ~(x.ev.type \in {"StoreRead", "StoreUnread"} /\ r = "sweep")
           /\ ~(x.ev.type = "StoreUnread" /\ r = "start")
  <2>1. /\ DOMAIN jobs = DOMAIN x /\ jobs.at = "jobs" /\ jobs.store = x.store /\ jobs.todo = x.todo
        /\ jobs.seen = x.seen /\ jobs.runs = x.runs
    BY DEF ReaderOK
  <2>2. afterPost(r, x) = jobs
    BY <1>6 DEF afterPost
  <2> HIDE DEF jobs
  <2> QED
    BY <1>6, <2>1, <2>2 DEF ReaderOK
<1> QED
  BY <1>2, <1>3, <1>4, <1>5, <1>6

LEMMA ScheduledOK ==
    ASSUME EffectsOK(effects), AfterStep(0, FALSE, FALSE, {}, scheduleRequests(entry, entry'))
    PROVE  EffectsOK(effects')
  BY ScheduleAbout, AfterStepOK

LEMMA ReaderTakenKeeps ==
    ASSUME ShellInv, NEW r \in Readers, ReaderTaken(r)
    PROVE  ReadersOK(reader') /\ EffectsOK(effects') /\ UNCHANGED <<store, run>> /\ Next
<1> DEFINE x == reader[r]
           next == afterPost(r, x)
<1>1. ReaderOK(r, x) /\ ReadersOK(reader) /\ EffectsOK(effects)
  BY DEF ShellInv, ReadersOK
<1>2. x.at = "post" /\ ReaderMessage(r, x)
  BY <1>1 DEF ReaderTaken, ReaderOK
<1>3. ReaderOK(r, next)
  BY <1>1, <1>2, AfterPostOK
<1>4. CASE x.ev.type = "StoreRead"
  <2>1. reader' = Superseded(r, next, x.store) /\ StepAlone(StoreRead(x.store))
    BY <1>4 DEF ReaderTaken
  <2>2. x.store \in Stores
    BY <1>2, <1>4 DEF ReaderMessage, JobMessage, PlainTypes
  <2>3. ReadersOK(reader')
    BY <1>1, <1>3, <2>1, SupersededOK
  <2>4. EffectsOK(effects') /\ UNCHANGED <<store, run>> /\ StoreRead(x.store)
    BY <1>1, <2>1, ScheduledOK DEF StepAlone, world
  <2> QED
    BY <2>2, <2>3, <2>4 DEF Next, StoreEvent
<1>5. CASE x.ev.type = "StoreUnread"
  <2>1. SetReader(r, next) /\ StepAlone(StoreUnread(x.store))
    BY <1>5 DEF ReaderTaken
  <2>2. x.store \in Stores
    BY <1>2, <1>5 DEF ReaderMessage, JobMessage, PlainTypes
  <2>3. ReadersOK(reader')
    BY <1>1, <1>3, <2>1, ReaderSet
  <2>4. EffectsOK(effects') /\ UNCHANGED <<store, run>> /\ StoreUnread(x.store)
    BY <1>1, <2>1, ScheduledOK DEF StepAlone, world
  <2> QED
    BY <2>2, <2>3, <2>4 DEF Next, StoreEvent
<1>6. CASE x.ev.type = "RecoveryDone"
  <2>1. SetReader(r, next) /\ StepAlone(RecoveryDone)
    BY <1>6 DEF ReaderTaken
  <2>2. ReadersOK(reader')
    BY <1>1, <1>3, <2>1, ReaderSet
  <2>3. EffectsOK(effects') /\ UNCHANGED <<store, run>> /\ RecoveryDone
    BY <1>1, <2>1, ScheduledOK DEF StepAlone, world
  <2> QED
    BY <2>2, <2>3 DEF Next
<1>7. CASE x.ev.type \notin {"StoreRead", "StoreUnread", "RecoveryDone"}
  <2>1. SetReader(r, next) /\ Deliver(x.job, x.ev, FALSE, {})
    BY <1>7 DEF ReaderTaken
  <2>2. x.job \in Jobs /\ JobMessage(x.ev)
    BY <1>2, <1>7 DEF ReaderMessage
  <2>3. ReadersOK(reader')
    BY <1>1, <1>3, <2>1, ReaderSet
  <2> HIDE DEF x
  <2>4. EffectsOK(effects') /\ UNCHANGED <<store, run>>
    <3>1. EffectsOK(effects')
      BY <1>1, <2>1, <2>2, DeliverOK
    <3>2. UNCHANGED <<store, run>>
      BY <2>1 DEF Deliver, world
    <3> QED
      BY <3>1, <3>2
  <2>5. JobEvent(x.job)
    BY <2>1, <2>2, DeliverIsEvent
  <2> QED
    BY <2>2, <2>3, <2>4, <2>5 DEF Next
<1> QED
  BY <1>4, <1>5, <1>6, <1>7

LEMMA ReaderStepKeeps ==
    ASSUME ShellInv, NEW r \in DOMAIN reader, ReaderStep(r)
    PROVE  ShellInv' /\ [Next]_mvars
<1>1. r \in Readers /\ ReaderOK(r, reader[r]) /\ ReadersOK(reader)
  BY DEF ShellInv, ReadersOK
<1>2. UNCHANGED <<store, run>> => WorldOK'
  BY DEF ShellInv, WorldOK
<1>3. CASE ReadList(r)
  BY <1>1, <1>2, <1>3, ReadListKeeps DEF ShellInv, ReadList, Reading, world, mvars
<1>4. CASE ReadJob(r)
  BY <1>1, <1>2, <1>4, ReadJobKeeps DEF ShellInv, ReadJob, Reading, world, mvars
<1>5. CASE ReaderDropped(r)
  <2>1. ReadersOK(reader')
    BY <1>1, <1>5, AfterPostOK, ReaderSet DEF ReaderDropped
  <2> QED
    BY <1>2, <1>5, <2>1 DEF ShellInv, ReaderDropped, Reading, world, mvars
<1>6. CASE ReaderTaken(r)
  BY <1>1, <1>2, <1>6, ReaderTakenKeeps DEF ShellInv
<1> QED
  BY <1>3, <1>4, <1>5, <1>6 DEF ReaderStep

LEMMA StartSweepKeep ==
    ASSUME ShellInv, StartStep \/ SweepStep
    PROVE  ShellInv' /\ [Next]_mvars
<1>1. Reading
  BY DEF StartStep, SweepStep, StartRuns, StartList, StartJob, StartLeftover, SweepBegin, SweepHeld, SweepFind
<1>2. WorldOK' /\ EffectsOK(effects') /\ UNCHANGED mvars
  BY <1>1 DEF ShellInv, WorldOK, Reading, world, mvars
<1>3. ReadersOK(reader')
  BY StartRunsKeeps, StartListKeeps, StartJobKeeps, StartLeftoverKeeps, SweepBeginKeeps, SweepHeldKeeps,
     SweepFindKeeps DEF StartStep, SweepStep
<1> QED
  BY <1>2, <1>3 DEF ShellInv

-----------------------------------------------------------------------------
(* Submissions and cancels. *)

LEMMA SubmitKeeps ==
    ASSUME ShellInv, SubmitStep
    PROVE  ShellInv' /\ [Next]_mvars
<1> DEFINE x == reader["submit"]
<1>1. ReaderOK("submit", x) /\ ReadersOK(reader) /\ EffectsOK(effects) /\ WorldOK
  BY DEF ShellInv, ReadersOK, Readers
<1>2. UNCHANGED <<store, run>> => WorldOK'
  BY DEF ShellInv, WorldOK
<1>3. x.at # "idle" => x.store \in Stores
  BY <1>1 DEF ReaderOK
<1>4. CASE SubmitCheck
  <2>1. ReaderOK("submit", [x EXCEPT !.at = "admit"])
    BY <1>1, <1>4 DEF ReaderOK, SubmitCheck
  <2> DEFINE n == [x EXCEPT !.at = "list", !.again = TRUE]
  <2>2. DOMAIN n = DOMAIN x /\ n.at = "list" /\ n.store = x.store /\ n.todo = x.todo /\ n.seen = x.seen
    BY <1>1 DEF ReaderOK
  <2>3. SetReader("submit", n) \/ SetReader("submit", [x EXCEPT !.at = "admit"])
    BY <1>4 DEF SubmitCheck
  <2>4. x.at = "written"
    BY <1>4 DEF SubmitCheck
  <2> HIDE DEF n, x
  <2>5. ReaderOK("submit", n)
    BY <1>1, <2>2, <2>4 DEF ReaderOK
  <2>6. ReadersOK(reader')
    BY <1>1, <2>1, <2>3, <2>5, ReaderSet DEF Readers
  <2> QED
    BY <1>1, <1>2, <1>4, <2>6 DEF ShellInv, SubmitCheck, Reading, world, mvars
<1>5. CASE SubmitRead
  <2>1. ReadersOK(reader')
    BY <1>1, <1>5, SupersededOK DEF SubmitRead, Readers
  <2>2. EffectsOK(effects') /\ UNCHANGED <<store, run>> /\ StoreRead(x.store)
    BY <1>1, <1>5, ScheduledOK DEF SubmitRead, StepAlone, world
  <2>3. x.store \in Stores
    BY <1>3, <1>5 DEF SubmitRead
  <2> QED
    BY <1>2, <2>1, <2>2, <2>3 DEF ShellInv, Next, StoreEvent
<1>6. CASE SubmitAdmit
  <2> DEFINE j == firstOf(x.todo)
             ev == [type |-> "Admitted", attempts |-> 0]
  <2>1. j \in Jobs
    <3>1. x.todo \subseteq Jobs /\ x.todo # {}
      BY <1>1, <1>6 DEF ReaderOK, SubmitAdmit
    <3> QED
      BY <3>1, FirstOf
  <2>2. Deliver(j, ev, FALSE, {}) /\ reader' = Superseded("submit", Idle, x.store)
    BY <1>6 DEF SubmitAdmit
  <2>3. ReadersOK(reader')
    BY <1>1, <2>2, SupersededOK, IdleOK DEF Readers
  <2>4. JobMessage(ev)
    BY AttemptsAssumption, SMT DEF JobMessage
  <2> HIDE DEF j, ev
  <2>5. EffectsOK(effects') /\ JobEvent(j)
    BY <1>1, <2>1, <2>2, <2>4, DeliverOK, DeliverIsEvent
  <2>6. UNCHANGED <<store, run>>
    BY <2>2 DEF Deliver, world
  <2> QED
    BY <1>2, <2>1, <2>3, <2>5, <2>6 DEF ShellInv, Next
<1> QED
  BY <1>4, <1>5, <1>6 DEF SubmitStep

LEMMA CallersKeep ==
    ASSUME ShellInv, NEW j \in Jobs, SubmitWrite(j) \/ CancelCall(j) \/ CancelRead(j) \/ CancelPost(j)
    PROVE  ShellInv' /\ [Next]_mvars
<1>1. ReadersOK(reader) /\ EffectsOK(effects) /\ WorldOK
  BY DEF ShellInv
<1>2. UNCHANGED <<store, run>> => WorldOK'
  BY <1>1 DEF WorldOK
<1>3. CASE SubmitWrite(j)
  <2> DEFINE n == [Idle EXCEPT !.at = "written", !.store = StoreOf[j], !.todo = {j}]
             job == [state |-> "queued", attempts |-> 0]
  <2>1. SetStore(j, job) /\ UNCHANGED <<entry, recovering, unread, effects, run>>
        /\ (SetReader("submit", n) \/ UNCHANGED reader)
    BY <1>3 DEF SubmitWrite
  <2>2. job \in StoredJob
    BY AttemptsAssumption, SMT DEF StoredJob, JobStates
  <2>3. WorldOK'
    <3> HIDE DEF job
    <3> QED
      BY <1>1, <2>1, <2>2, WorldKept
  <2>4. /\ DOMAIN n = {"at", "store", "again", "stale", "todo", "away", "runs", "seen", "job", "ev"}
        /\ n.at = "written" /\ n.store = StoreOf[j] /\ n.todo = {j} /\ DOMAIN n.seen = {}
    BY SMT DEF Idle
  <2>5. StoreOf[j] \in Stores
    BY DEF Stores
  <2> HIDE DEF n, job
  <2>6. ReaderOK("submit", n)
    BY <2>4, <2>5 DEF ReaderOK
  <2>7. ReadersOK(reader')
    BY <1>1, <2>1, <2>6, ReaderSet DEF Readers
  <2> QED
    BY <1>1, <2>1, <2>3, <2>7 DEF ShellInv, mvars
<1>4. CASE CancelCall(j) \/ CancelRead(j)
  BY <1>1, <1>2, <1>4 DEF CancelCall, CancelRead, ShellInv, world, mvars
<1>5. CASE CancelPost(j)
  <2>1. Deliver(j, CancelEvent(caller[j]), FALSE, {}) /\ UNCHANGED reader
    BY <1>5 DEF CancelPost
  <2>2. JobMessage(CancelEvent(caller[j]))
    BY <1>5 DEF CancelPost, JobMessage, CancelEvent
  <2>3. EffectsOK(effects') /\ JobEvent(j)
    BY <1>1, <2>1, <2>2, DeliverOK, DeliverIsEvent
  <2>4. UNCHANGED <<store, run>>
    BY <2>1 DEF Deliver, world
  <2> QED
    BY <1>1, <1>2, <2>1, <2>3, <2>4 DEF ShellInv, Next
<1> QED
  BY <1>3, <1>4, <1>5

-----------------------------------------------------------------------------
(* Every step. *)

LEMMA EffectKeeps ==
    ASSUME ShellInv, NEW e \in effects, EffectStep(e) \/ DeliverEffect(e)
    PROVE  ShellInv' /\ [Next]_mvars
<1>1. EffectsOK(effects) /\ EffectOK(e) /\ e.job \in Jobs
  BY DEF ShellInv, EffectsOK, EffectOK
<1>2. CASE EffectStep(e)
  <2>1. WorldOK' /\ EffectsOK(effects')
    BY <1>2, LaunchKeeps, FollowKeeps, ReleaseKeeps, ReexamineKeeps DEF EffectStep
  <2>2. Beside
    BY <1>2 DEF EffectStep, LaunchStep, LaunchRead, LaunchSpawn, LaunchMkdir, LaunchUp, LaunchRecord,
       FollowStep, CallCancel, FollowStart, FollowTell, Wait, ReleaseStep, MoveRecord, ReleaseRun, Forget,
       Unrecord, ReexamineLook, ReexamineFind
  <2> QED
    BY <2>1, <2>2 DEF ShellInv, Beside, mvars
<1>3. CASE DeliverEffect(e)
  <2>1. Deliver(e.job, e.ev, e.h, {e}) /\ JobMessage(e.ev) /\ UNCHANGED reader
    BY <1>1, <1>3 DEF DeliverEffect, EffectOK
  <2>2. EffectsOK(effects') /\ JobEvent(e.job)
    BY <1>1, <2>1, DeliverOK, DeliverIsEvent
  <2>3. UNCHANGED <<store, run>>
    BY <2>1 DEF Deliver, world
  <2> QED
    BY <1>1, <2>1, <2>2, <2>3 DEF ShellInv, WorldOK, Next
<1> QED
  BY <1>2, <1>3

LEMMA OutsideKeeps ==
    ASSUME ShellInv, NEW j \in Jobs,
           CommandEnds(j) \/ ComesUp(j) \/ Exits(j) \/ SupervisorDies(j) \/ TimePasses(j)
    PROVE  ShellInv' /\ [Next]_mvars
<1>1. WorldOK /\ run[j] \in Run
  BY WorldKept DEF ShellInv
<1>2. CASE TimePasses(j)
  BY <1>1, <1>2 DEF TimePasses, shell, world, ShellInv, WorldOK, Next, JobEvent
<1>3. CASE CommandEnds(j) \/ ComesUp(j) \/ Exits(j) \/ SupervisorDies(j)
  <2>1. Outside /\ \E r \in Run : SetRun(j, r)
    BY <1>1, <1>3, RunType DEF CommandEnds, ComesUp, Exits, SupervisorDies
  <2> QED
    BY <1>1, <2>1, WorldKept DEF Outside, ShellInv, mvars
<1> QED
  BY <1>2, <1>3

LEMMA NewDaemonKeeps ==
    ASSUME ShellInv, Crash \/ Reboot
    PROVE  ShellInv' /\ [Next]_mvars
<1>1. WorldOK'
  BY RunType DEF ShellInv, WorldOK, Crash, Reboot, NewDaemon
<1>2. EffectsOK(effects') /\ ReadersOK(reader') /\ Restart
  BY IdleOK DEF Crash, Reboot, NewDaemon, EffectsOK
<1> QED
  BY <1>1, <1>2 DEF ShellInv, Next

LEMMA ShellStep ==
    ASSUME ShellInv, [DaemonNext]_vars
    PROVE  ShellInv' /\ [Next]_mvars
<1>1. CASE UNCHANGED vars
  BY <1>1 DEF vars, shell, world, mvars, ShellInv, WorldOK
<1>2. CASE DaemonNext
  BY <1>2, EffectKeeps, StartSweepKeep, SubmitKeeps, ReaderStepKeeps, CallersKeep, OutsideKeeps,
     NewDaemonKeeps DEF DaemonNext
<1> QED
  BY <1>1, <1>2

LEMMA ShellStarts == DaemonInit => ShellInv
<1>1. NoRun \in Run
  BY DEF NoRun, Run, Procs, Marks
<1> SUFFICES ASSUME DaemonInit PROVE ShellInv
  OBVIOUS
<1>2. WorldOK
  BY <1>1 DEF DaemonInit, WorldOK
<1>3. EffectsOK(effects) /\ ReadersOK(reader)
  BY IdleOK DEF DaemonInit, EffectsOK
<1> QED
  BY <1>2, <1>3 DEF ShellInv

-----------------------------------------------------------------------------
(* The refinement. *)

\* The daemon implements the machine: every step of the shell, crashes, late messages
\* and failed calls included, is an event of the machine or leaves the machine as it is.
THEOREM DaemonRefines == DaemonSafety => StepsOfMachine
<1>1. DaemonInit => Init /\ ShellInv
  BY ShellStarts DEF DaemonInit
<1>2. ShellInv /\ [DaemonNext]_vars => ShellInv' /\ [Next]_mvars
  BY ShellStep
<1> QED
  BY <1>1, <1>2, PTL DEF DaemonSafety, StepsOfMachine, Spec

-----------------------------------------------------------------------------
(* The handles and the count of troubles keep their types. *)

LEMMA HandlesAfter ==
    ASSUME NEW j, NEW brings, NEW drops, NEW gone, NEW reqs, AfterStep(j, brings, drops, gone, reqs)
    PROVE  handle' \in [Jobs -> BOOLEAN]
  BY DEF AfterStep

LEMMA HandlesStay ==
    ASSUME handle \in [Jobs -> BOOLEAN], [DaemonNext]_vars
    PROVE  handle' \in [Jobs -> BOOLEAN]
<1>1. \A j, ev, h, gone : Deliver(j, ev, h, gone) => handle' \in [Jobs -> BOOLEAN]
  BY HandlesAfter DEF Deliver
<1>2. AfterStep(0, FALSE, FALSE, {}, scheduleRequests(entry, entry')) => handle' \in [Jobs -> BOOLEAN]
  BY HandlesAfter
<1>3. CASE UNCHANGED handle
  BY <1>3
<1>4. CASE \E e \in effects : DeliverEffect(e)
  BY <1>1, <1>4 DEF DeliverEffect
<1>5. CASE \E r \in DOMAIN reader : ReaderTaken(r)
  <2> PICK r \in DOMAIN reader : ReaderTaken(r)
    BY <1>5
  <2>1. \/ AfterStep(0, FALSE, FALSE, {}, scheduleRequests(entry, entry'))
        \/ Deliver(reader[r].job, reader[r].ev, FALSE, {})
    BY DEF ReaderTaken, StepAlone
  <2> QED
    BY <1>1, <1>2, <2>1
<1>6. CASE SubmitRead \/ SubmitAdmit \/ \E j \in Jobs : CancelPost(j)
  BY <1>1, <1>2, <1>6 DEF SubmitRead, SubmitAdmit, CancelPost, StepAlone
<1>7. CASE Crash \/ Reboot
  BY <1>7 DEF Crash, Reboot, NewDaemon
<1>8. \A e : EffectStep(e) => UNCHANGED handle
  BY ZenonT(30) DEF EffectStep, LaunchStep, LaunchRead, LaunchSpawn, LaunchMkdir, LaunchUp, LaunchRecord,
     FollowStep, CallCancel, FollowStart, FollowTell, Wait, ReleaseStep, MoveRecord, ReleaseRun, Forget,
     Unrecord, ReexamineLook, ReexamineFind, Beside
<1>9. StartStep \/ SweepStep \/ SubmitCheck => UNCHANGED handle
  BY DEF StartStep, SweepStep, StartRuns, StartList, StartJob, StartLeftover, SweepBegin, SweepHeld, SweepFind,
     SubmitCheck, Reading
<1>10. \A r : ReadList(r) \/ ReadJob(r) \/ ReaderDropped(r) => UNCHANGED handle
  BY DEF ReadList, ReadJob, ReaderDropped, Reading
<1>11. \A j : \/ SubmitWrite(j) \/ CancelCall(j) \/ CancelRead(j) \/ CommandEnds(j) \/ ComesUp(j) \/ Exits(j)
              \/ SupervisorDies(j) \/ TimePasses(j)
              => UNCHANGED handle
  BY DEF SubmitWrite, CancelCall, CancelRead, CommandEnds, ComesUp, Exits, SupervisorDies, TimePasses,
     Outside, shell
<1>12. UNCHANGED vars => UNCHANGED handle
  BY DEF vars, shell
<1> QED
  BY <1>3, <1>4, <1>5, <1>6, <1>7, <1>8, <1>9, <1>10, <1>11, <1>12 DEF DaemonNext, ReaderStep, SubmitStep

LEMMA TroublesLeft ==
    ASSUME left \in 0 .. MaxTroubles, [DaemonNext]_vars
    PROVE  left' \in 0 .. MaxTroubles
<1> DEFINE Less == UNCHANGED left \/ (left > 0 /\ left' = left - 1)
<1>1. (NoFault => Less) /\ (Fault => Less) /\ (DiskFault => Less) /\ (Unlisted => Less)
      /\ \A kind : Trouble(kind) => Less
  BY DEF NoFault, Fault, DiskFault, Unlisted, Trouble
<1>2. Less => left' \in 0 .. MaxTroubles
  BY TroublesAssumption, SMT
<1> HIDE DEF Less
<1>3. UNCHANGED left => Less
  BY DEF Less
<1>4. \A e : LaunchStep(e) => Less
  BY <1>1 DEF LaunchStep, LaunchRead, LaunchSpawn, LaunchMkdir, LaunchUp, LaunchRecord
<1>5. \A e : FollowStep(e) => Less
  BY <1>1 DEF FollowStep, CallCancel, FollowStart, FollowTell, Wait
<1>6. \A e : ReleaseStep(e) => Less
  BY <1>1 DEF ReleaseStep, MoveRecord, ReleaseRun, Forget, Unrecord
<1>7. \A e : ReexamineLook(e) \/ ReexamineFind(e) => Less
  BY <1>1 DEF ReexamineLook, ReexamineFind, Look, Find
<1>8. StartStep \/ SweepStep \/ SubmitCheck => Less
  BY <1>1 DEF StartStep, SweepStep, StartRuns, StartList, StartJob, StartLeftover, SweepBegin, SweepHeld,
     SweepFind, SubmitCheck, Find
<1>9. \A r : ReadList(r) \/ ReadJob(r) \/ ReaderDropped(r) => Less
  BY <1>1 DEF ReadList, ReadJob, ReaderDropped, Look
<1>10. \A j, ev, h, gone : Deliver(j, ev, h, gone) => Less
  BY <1>3 DEF Deliver
<1>11. \A e : DeliverEffect(e) => Less
  BY <1>10 DEF DeliverEffect
<1>12. \A r : ReaderTaken(r) => Less
  <2> SUFFICES ASSUME NEW r, ReaderTaken(r) PROVE Less
    OBVIOUS
  <2>1. UNCHANGED left \/ Deliver(reader[r].job, reader[r].ev, FALSE, {})
    BY DEF ReaderTaken, StepAlone
  <2> QED
    BY <1>3, <1>10, <2>1
<1>13. SubmitRead \/ SubmitAdmit => Less
  BY <1>3, <1>10 DEF SubmitRead, SubmitAdmit, StepAlone
<1>14. \A j : SubmitWrite(j) \/ CancelCall(j) \/ CancelRead(j) \/ CancelPost(j) => Less
  BY <1>1, <1>3, <1>10 DEF SubmitWrite, CancelCall, CancelRead, CancelPost
<1>15. \A j : CommandEnds(j) \/ ComesUp(j) \/ Exits(j) \/ SupervisorDies(j) \/ TimePasses(j) => Less
  BY <1>1, <1>3 DEF CommandEnds, ComesUp, Exits, SupervisorDies, TimePasses
<1>16. Crash \/ Reboot => Less
  BY <1>1 DEF Crash, Reboot
<1>17. UNCHANGED vars => Less
  BY <1>3 DEF vars
<1>18. Less
  BY <1>4, <1>5, <1>6, <1>7, <1>8, <1>9, <1>11, <1>12, <1>13, <1>14, <1>15, <1>16, <1>17
     DEF DaemonNext, EffectStep, ReaderStep, SubmitStep
<1> QED
  BY <1>2, <1>18

-----------------------------------------------------------------------------
(* The shape of the daemon's state. *)

LEMMA HandlerGood ==
    ASSUME NEW j \in Jobs, NEW c, Good(c), NEW ev, JobMessage(ev)
    PROVE  Good(Handler(j, c, ev).e)
<1>1. CASE ev.type = "Admitted" /\ ev.attempts \in 0 .. MaxAttempts - 1
  <2>1. Good(OnAdmitted(c, ev.attempts).e)
    BY <1>1, AdmitGood DEF OnAdmitted, Ignore, Result
  <2> QED
    BY <1>1, <2>1 DEF Handler
<1>2. CASE ev.type = "Recovered" /\ ev.f \in Finding /\ ev.p \in Presence
  BY <1>2, RecoveredGood DEF Handler
<1>3. CASE ev.type = "CancelAsked" /\ ev.state \in JobStates
  BY <1>3, CancelAskedGood DEF Handler
<1>4. CASE ev.type \in {"LaunchFailed", "FollowFailed"} /\ ev.cause \in Causes
  BY <1>4, LaunchFailedGood, FollowFailedGood DEF Handler
<1>5. CASE ev.type = "Finished" /\ ev.o \in Outcome
  BY <1>5, FinishedGood DEF Handler
<1>6. CASE ev.type = "SupervisorLost" /\ ev.proof \in Proofs /\ ev.start \in StartKnown
  BY <1>6, SupervisorLostGood DEF Handler
<1>7. CASE ev.type \in {"Launched", "LeaseRefused", "StopFailed", "CancelFailed", "MoveFailed"}
  BY <1>7, LaunchedGood, LeaseRefusedGood, StopFailedGood, CancelFailedGood, MoveFailedGood DEF Handler
<1>8. CASE ev.type \in {"DiscardFailed", "Discarded", "Requeued", "RetryDue"}
  BY <1>8, DiscardFailedGood, DiscardedGood, RequeuedGood, RetryDueGood DEF Handler
<1>9. CASE ev.type = "Closed"
  BY <1>9, NoEntryGood DEF Handler, Ignore, Result
<1> QED
  BY <1>1, <1>2, <1>3, <1>4, <1>5, <1>6, <1>7, <1>8, <1>9 DEF JobMessage, PlainTypes

LEMMA ShapedFits ==
    ASSUME Inv, ShellInv
    PROVE  Shaped /\ HandlersFit
<1>1. AllGood(entry)
  BY InvIsGood
<1>2. ASSUME NEW j \in Jobs, NEW ev, JobMessage(ev)
      PROVE  Good(Handler(j, entry[j], ev).e) /\ About(j, Handler(j, entry[j], ev).r)
  BY <1>1, <1>2, HandlerGood, HandlerAbout DEF AllGood
<1>3. \A S \in SUBSET Jobs : S # {} => firstOf(S) \in S
  BY FirstOf
<1> QED
  BY <1>1, <1>2, <1>3 DEF Shaped, HandlersFit
=============================================================================
