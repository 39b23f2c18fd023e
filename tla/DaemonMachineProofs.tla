------------------------- MODULE DaemonMachineProofs -------------------------
(***************************************************************************)
(* The machine in the daemon.  What a handler leaves of a job that is not  *)
(* over (JobStands), what a step of the machine asks for, and that every   *)
(* effect the machine waits for is under way (OwesInv).                    *)
(***************************************************************************)
EXTENDS DaemonRunLemmas

\* Zenon proves a step that names no prover.
USE Zenon

-----------------------------------------------------------------------------
(* The settlements that the machine decides. *)

\* The settlements the machine decides are settlements.
LEMMA SettlementsAre ==
    /\ cancelQueued \in Settlement /\ cancelQueued # NoSettlement /\ ~Requeues(cancelQueued)
    /\ failedToLaunch \in Settlement /\ ~Requeues(failedToLaunch)
    /\ \A to \in FinalStates : Ended(to) \in Settlement /\ ~Requeues(Ended(to))
    /\ NoSettlement \notin Settlement
  BY DEF cancelQueued, NoSettlement, Requeues, Settlement, failedToLaunch, FinalStates, Ended

\* A job whose end is not decided may still be spawned.
LEMMA UndecidedYet ==
    ASSUME NEW c, Good(c), c.phase \notin Ending
    PROVE  c.settlement = NoSettlement /\ c.spawnFailures \in 0 .. MaxAttempts /\ c.spawnFailures < MaxAttempts
<1>1. c.settlement = NoSettlement /\ c.spawnFailures \in 0 .. MaxAttempts
  BY DEF Good, Entry, CoherentEntry
<1>2. NoSettlement # failedToLaunch
  BY DEF NoSettlement, failedToLaunch
<1> QED
  BY <1>1, <1>2, AttemptsAssumption, SMT DEF Good, CoherentEntry

LEMMA AdmitTyped ==
    ASSUME NEW c \in Entry
    PROVE  admit(c, FALSE, 0) \in Entry
<1>1. NoEntry \in Entry /\ 0 \in 0 .. MaxAttempts
  BY AttemptsAssumption, SMT DEF Entry, NoEntry, Phases
<1>2. [NoEntry EXCEPT !.phase = "queued", !.dated = TRUE, !.told = FALSE, !.attempts = 0] \in Entry
  BY <1>1 DEF Entry, Phases
<1> QED
  BY <1>2 DEF admit

-----------------------------------------------------------------------------
(* The effects that the requests of the machine start. *)

New(reqs, hs) == {effectOf(q, hs) : q \in reqs}

LEMMA MoveEffect ==
    ASSUME NEW j, NEW hs, NEW c, NEW m, m = effectOf(Move(j, c), hs)
    PROVE  m.kind = "move" /\ m.job = j /\ m.at = "record" /\ m.settlement = c.settlement /\ m.flag = c.release
  BY DEF effectOf, Move, Effect

LEMMA FollowEffect ==
    ASSUME NEW j, NEW hs, NEW c, NEW f, f = effectOf(Adopt(j, c), hs)
    PROVE  f.kind = "follow" /\ f.job = j /\ f.at = IF c.cancelAsked THEN "cancel" ELSE "start"
  BY DEF effectOf, Adopt, Effect

LEMMA PlainEffects ==
    ASSUME NEW j, NEW hs, NEW kind, NEW e, e = effectOf(Request(kind, j), hs)
    PROVE  /\ kind = "launch" => e.kind = "launch" /\ e.job = j /\ e.at = "read"
           /\ kind = "stop" => e.kind = "stop" /\ e.job = j /\ e.at = "cancel"
           /\ kind = "signal" => e.kind = "signal" /\ e.job = j /\ e.at = "cancel"
           /\ kind = "retry" => e.kind = "retry" /\ e.job = j /\ e.at = "post" /\ e.ev.type = "RetryDue"
           /\ kind = "reexamine" => e.kind = "reexamine" /\ e.job = j /\ e.at = "look"
  BY DEF effectOf, Request, Effect, Event

LEMMA NewOf ==
    ASSUME NEW hs
    PROVE  /\ New({}, hs) = {}
           /\ \A q : New({q}, hs) = {effectOf(q, hs)}
           /\ \A P, Q : New(P \cup Q, hs) = New(P, hs) \cup New(Q, hs)
  BY DEF New

-----------------------------------------------------------------------------
(* What the handlers leave of a job that is not over. *)

OpenAfter(j, h, S, M, hs, job, r) ==
    OpenStands(j, h.e, S \cup Sides(New(h.r, hs)), M \cup Mains(New(h.r, hs)), job, r)

\* The effects beside stand with the entry as it is after a step.
LEMMA SidesTurn ==
    ASSUME NEW c, NEW n, NEW S, NEW job, NEW r, SidesStand(c, S, job, r),
           c.cancelAsked => n.cancelAsked,
           \A e \in S : e.kind = "reexamine" => LookFits(e, n, S, r)
    PROVE  SidesStand(n, S, job, r)
  BY DEF SidesStand, SideStands

\* A handler that asks for nothing, for the effect its phase waits for, or for one beside.
LEMMA AfterNone ==
    ASSUME NEW j, NEW n, NEW S, NEW M, NEW hs, NEW job, NEW r, OpenStands(j, n, S, M, job, r)
    PROVE  OpenAfter(j, Ignore(n), S, M, hs, job, r)
<1>1. Ignore(n).e = n /\ Ignore(n).r = {}
  BY DEF Ignore, Result
<1>2. Sides(New({}, hs)) = {} /\ Mains(New({}, hs)) = {}
  BY NewOf, PartedOne
<1>3. S \cup {} = S /\ M \cup {} = M
  OBVIOUS
<1> QED
  BY <1>1, <1>2, <1>3 DEF OpenAfter

LEMMA AfterMain ==
    ASSUME NEW j, NEW n, NEW q, NEW S, NEW hs, NEW job, NEW r,
           effectOf(q, hs).kind \notin SideKinds, OpenStands(j, n, S, {effectOf(q, hs)}, job, r)
    PROVE  OpenAfter(j, Result(n, {q}), S, {}, hs, job, r)
<1>1. Result(n, {q}).e = n /\ Result(n, {q}).r = {q}
  BY DEF Result
<1>2. Sides(New({q}, hs)) = {} /\ Mains(New({q}, hs)) = {effectOf(q, hs)}
  BY NewOf, PartedOne
<1>3. S \cup {} = S /\ {} \cup {effectOf(q, hs)} = {effectOf(q, hs)}
  OBVIOUS
<1> QED
  BY <1>1, <1>2, <1>3 DEF OpenAfter

LEMMA AfterSide ==
    ASSUME NEW j, NEW n, NEW q, NEW S, NEW M, NEW hs, NEW job, NEW r,
           effectOf(q, hs).kind \in SideKinds, OpenStands(j, n, S \cup {effectOf(q, hs)}, M, job, r)
    PROVE  OpenAfter(j, Result(n, {q}), S, M, hs, job, r)
<1>1. Result(n, {q}).e = n /\ Result(n, {q}).r = {q}
  BY DEF Result
<1>2. Sides(New({q}, hs)) = {effectOf(q, hs)} /\ Mains(New({q}, hs)) = {}
  BY NewOf, PartedOne
<1>3. M \cup {} = M
  OBVIOUS
<1> QED
  BY <1>1, <1>2, <1>3 DEF OpenAfter

LEMMA OpenNow ==
    ASSUME NEW j, NEW n, NEW S, NEW d, NEW job, NEW r,
           EntryStands(j, n, job, r), n.phase \in Ending => EndingStands(j, n, job, r),
           SidesStand(n, S, job, r)
    PROVE  /\ Idles(n) => OpenStands(j, n, S, {}, job, r)
           /\ ~Idles(n) /\ MainStands(j, d, n, S, job, r) => OpenStands(j, n, S, {d}, job, r)
  BY DEF OpenStands, SidesStand

\* All that the invariant says of an entry is said of these fields.
Alike(c, n) ==
    /\ n.phase = c.phase /\ n.waiting = c.waiting /\ n.cancelAsked = c.cancelAsked /\ n.parked = c.parked
    /\ n.leased = c.leased /\ n.holds = c.holds /\ n.holdUntil = c.holdUntil
    /\ n.settlement = c.settlement /\ n.release = c.release

LEMMA AlikeStands ==
    ASSUME NEW j, NEW c, NEW n, Alike(c, n), NEW S, NEW M, NEW job, NEW r, OpenStands(j, c, S, M, job, r)
    PROVE  OpenStands(j, n, S, M, job, r)
<1>1. EntryStands(j, n, job, r) /\ (n.phase \in Ending => EndingStands(j, n, job, r))
  BY DEF Alike, OpenStands, EntryStands, EndingStands
<1>2. \A e \in S : SideStands(e, n, S, job, r)
  BY DEF Alike, OpenStands, SideStands, LookFits
<1>3. (Idles(n) <=> Idles(c)) /\ \A e : MainStands(j, e, c, S, job, r) => MainStands(j, e, n, S, job, r)
  BY DEF Alike, Idles, MainStands, MoveStands
<1> QED
  BY <1>1, <1>2, <1>3 DEF OpenStands

\* An end is decided.
LEMMA SettleStands ==
    ASSUME NEW j, NEW c \in Entry, ~c.parked, NEW S, NEW hs, NEW job, NEW r,
           c.phase \in {"launching", "running", "stopping"},
           EntryStands(j, c, job, r), SidesStand(c, S, job, r),
           NEW st \in Settlement, ~Requeues(st),
           r.proc \in {"none", "parked", "finished"},
           r.proc = "parked" => \A e \in S : e.kind # "reexamine",
           st.to = "succeeded" => r.end = "done",
           st.to = "lost" => r.proc = "none"
    PROVE  OpenAfter(j, settle(j, c, st), S, {}, hs, job, r)
<1> DEFINE n == [c EXCEPT !.phase = "settling", !.settlement = st, !.release = TRUE]
           d == effectOf(Move(j, n), hs)
<1>1. settle(j, c, st) = Result(n, {Move(j, n)})
  BY DEF settle
<1>2. /\ n.phase = "settling" /\ n.settlement = st /\ n.release = TRUE /\ n.cancelAsked = c.cancelAsked
      /\ n.waiting = c.waiting /\ ~n.parked
  BY DEF Entry
<1>3. EntryStands(j, n, job, r) /\ EndingStands(j, n, job, r)
  BY <1>2 DEF EntryStands, EndingStands
<1>4. SidesStand(n, S, job, r)
  <2>1. \A e \in S : e.kind = "reexamine" => LookFits(e, n, S, r)
    BY <1>2 DEF SidesStand, SideStands, LookFits
  <2> QED
    BY <1>2, <2>1, SidesTurn
<1> HIDE DEF n, d
<1>5. d.kind = "move" /\ d.at = "record" /\ d.settlement = n.settlement /\ d.flag = n.release
  BY MoveEffect, SMT DEF d
<1>6. MainStands(j, d, n, S, job, r) /\ ~Idles(n)
  BY <1>2, <1>5, MainOfPhases DEF MainStands, MoveStands, Idles
<1>7. OpenStands(j, n, S, {d}, job, r)
  BY <1>3, <1>4, <1>6, OpenNow
<1> QED
  BY <1>1, <1>5, <1>7, AfterMain, SMT DEF SideKinds, d

LEMMA AwaitStands ==
    ASSUME NEW j, NEW c, NEW S, NEW M, NEW hs, NEW job, NEW r,
           OpenStands(j, [c EXCEPT !.waiting = TRUE, !.armed = TRUE], S, M, job, r)
    PROVE  OpenAfter(j, awaitRetry(j, c), S, M, hs, job, r)
<1> DEFINE n == [c EXCEPT !.waiting = TRUE, !.armed = TRUE]
           d == effectOf(Request("retry", j), hs)
<1>1. awaitRetry(j, c) = IF c.armed THEN Ignore(n) ELSE Result(n, {Request("retry", j)})
  BY DEF awaitRetry, Ignore
<1> HIDE DEF n, d
<1>2. OpenStands(j, n, S, M, job, r)
  BY DEF n
<1>3. d.kind = "retry" /\ d.at = "post" /\ d.ev.type = "RetryDue"
  BY PlainEffects, SMT DEF d
<1>4. OpenStands(j, n, S \cup {d}, M, job, r)
  BY <1>2, <1>3, AddSide, SMT DEF SideStands
<1> QED
  BY <1>1, <1>2, <1>3, <1>4, AfterNone, AfterSide, SMT DEF SideKinds, d

LEMMA SignalStands ==
    ASSUME NEW j, NEW c \in Entry, NEW S, NEW M, NEW hs, NEW job, NEW r, OpenStands(j, c, S, M, job, r)
    PROVE  OpenAfter(j, signalCancel(j, c), S, M, hs, job, r)
<1> DEFINE n == [c EXCEPT !.cancelSent = TRUE]
           d == effectOf(Request("signal", j), hs)
<1>1. CASE ~(c.cancelAsked /\ ~c.cancelSent)
  BY <1>1, AfterNone DEF signalCancel
<1>2. CASE c.cancelAsked /\ ~c.cancelSent
  <2>1. signalCancel(j, c) = Result(n, {Request("signal", j)})
    BY <1>2 DEF signalCancel
  <2>2. OpenStands(j, n, S, M, job, r)
    <3>1. Alike(c, n)
      BY DEF Entry, Alike
    <3> QED
      BY <3>1, AlikeStands
  <2> HIDE DEF n, d
  <2>3. d.kind = "signal" /\ d.at = "cancel" /\ n.cancelAsked
    BY <1>2, PlainEffects, SMT DEF d, n, Entry
  <2>4. OpenStands(j, n, S \cup {d}, M, job, r)
    BY <2>2, <2>3, AddSide, SMT DEF SideStands
  <2> QED
    BY <2>1, <2>3, <2>4, AfterSide, SMT DEF SideKinds, d
<1> QED
  BY <1>1, <1>2

\* A cancel only adds to what may be under way.
LEMMA MarkStands ==
    ASSUME NEW j, NEW c \in Entry, NEW S, NEW M, NEW job, NEW r, OpenStands(j, c, S, M, job, r)
    PROVE  OpenStands(j, markCancel(c), S, M, job, r)
<1> DEFINE n == markCancel(c)
<1>1. /\ n.cancelAsked
      /\ n.phase = c.phase /\ n.waiting = c.waiting /\ n.parked = c.parked
      /\ n.leased = c.leased /\ n.holds = c.holds /\ n.holdUntil = c.holdUntil
      /\ n.settlement = c.settlement /\ n.release = c.release
  BY DEF Entry, markCancel
<1> HIDE DEF n
<1>2. EntryStands(j, n, job, r) /\ (n.phase \in Ending => EndingStands(j, n, job, r))
  BY <1>1 DEF OpenStands, EntryStands, EndingStands
<1>3. \A e \in S : SideStands(e, n, S, job, r)
  BY <1>1 DEF OpenStands, SideStands, LookFits
<1>4. (Idles(n) <=> Idles(c)) /\ \A e : MainStands(j, e, c, S, job, r) => MainStands(j, e, n, S, job, r)
  BY <1>1 DEF Idles, MainStands, MoveStands
<1> QED
  BY <1>2, <1>3, <1>4 DEF OpenStands, n

\* A job to be discarded, or that waits to be.
LEMMA DiscardingStands ==
    ASSUME NEW j, NEW n, NEW S, NEW hs, NEW job, NEW r, n.phase = "discarding", ~n.waiting, ~n.parked,
           job.state = "queued", SidesStand(n, S, job, r)
    PROVE  OpenAfter(j, Result(n, {Discard(j, TRUE)}), S, {}, hs, job, r)
<1> DEFINE d == effectOf(Discard(j, TRUE), hs)
<1> HIDE DEF d
<1>1. d.kind = "discard" /\ d.at = "release" /\ d.flag = TRUE
  BY DEF d, effectOf, Discard, Effect
<1>2. EntryStands(j, n, job, r)
  BY DEF EntryStands
<1>3. ~Idles(n) /\ MainStands(j, d, n, S, job, r)
  BY <1>1, MainOfPhases DEF Idles, MainStands, DiscardStands
<1>4. OpenStands(j, n, S, {d}, job, r)
  BY <1>2, <1>3, OpenNow DEF Ending
<1> QED
  BY <1>1, <1>4, AfterMain DEF SideKinds, d

-----------------------------------------------------------------------------
(* The answers of the effects that the phases wait for. *)

LEMMA LaunchAnswered ==
    ASSUME NEW j, NEW c, Good(c), NEW S, NEW e, NEW hs, NEW job, NEW r \in Run,
           OpenStands(j, c, S, {e}, job, r), e.kind = "launch", e.at = "post"
    PROVE  OpenAfter(j, Handler(j, c, e.ev), S, {}, hs, job, r)
<1>1. c.phase = "launching" /\ LaunchedStands(e.ev, job, r)
  BY Answering DEF LaunchStands
<1>2. c \in Entry /\ ~c.parked /\ ~c.waiting /\ c.settlement = NoSettlement
  BY <1>1 DEF OpenStands, EntryStands, Good, CoherentEntry, Ending
<1>3. EntryStands(j, c, job, r) /\ SidesStand(c, S, job, r) /\ \A d \in S : d.kind # "reexamine"
  BY <1>1 DEF OpenStands, SidesStand, SideStands, LookFits
<1>4. /\ cancelQueued \in Settlement /\ ~Requeues(cancelQueued) /\ cancelQueued.to = "cancelled"
      /\ failedToLaunch \in Settlement /\ ~Requeues(failedToLaunch) /\ failedToLaunch.to = "failed"
      /\ Ended("cancelled") \in Settlement /\ ~Requeues(Ended("cancelled")) /\ Ended("cancelled").to = "cancelled"
  BY SettlementsAre DEF cancelQueued, failedToLaunch, Ended, FinalStates
<1>5. \A n, st : /\ n \in Entry /\ n.phase = "launching" /\ n.cancelAsked = c.cancelAsked
                 /\ ~n.parked /\ ~n.waiting /\ n.settlement = NoSettlement
                 /\ r.proc \in {"none", "parked"} /\ st \in {cancelQueued, failedToLaunch, Ended("cancelled")}
                 => OpenAfter(j, settle(j, n, st), S, {}, hs, job, r)
  <2> TAKE n, st
  <2> HAVE /\ n \in Entry /\ n.phase = "launching" /\ n.cancelAsked = c.cancelAsked
           /\ ~n.parked /\ ~n.waiting /\ n.settlement = NoSettlement
           /\ r.proc \in {"none", "parked"} /\ st \in {cancelQueued, failedToLaunch, Ended("cancelled")}
  <2>1. EntryStands(j, n, job, r) /\ SidesStand(n, S, job, r)
    BY <1>1, <1>3 DEF EntryStands, SidesStand, SideStands
  <2> QED
    BY <1>3, <1>4, <2>1, SettleStands, SMT
<1>6. CASE e.ev.type = "Launched"
  <2> DEFINE n == [c EXCEPT !.phase = "running", !.cancelSent = c.cancelAsked]
             d == effectOf(Adopt(j, n), hs)
  <2>1. Handler(j, c, e.ev) = Result(n, {Adopt(j, n)})
    BY <1>1, <1>6 DEF Handler, OnLaunched
  <2>2. n.phase = "running" /\ n.cancelAsked = c.cancelAsked /\ n.waiting = c.waiting /\ n.parked = c.parked
    BY <1>2 DEF Entry
  <2> HIDE DEF n, d
  <2>3. d.kind = "follow" /\ d.at \in {"cancel", "start"}
    BY FollowEffect, SMT DEF d
  <2>4. EntryStands(j, n, job, r) /\ SidesStand(n, S, job, r)
    BY <1>1, <1>2, <1>3, <2>2, <1>6 DEF EntryStands, SidesStand, SideStands, LaunchedStands
  <2>5. ~Idles(n) /\ MainStands(j, d, n, S, job, r)
    BY <1>1, <1>3, <1>6, <2>2, <2>3, MainOfPhases DEF Idles, MainStands, FollowStands, LaunchedStands
  <2>6. OpenStands(j, n, S, {d}, job, r)
    BY <2>2, <2>4, <2>5, OpenNow DEF Ending
  <2> QED
    BY <2>1, <2>3, <2>6, AfterMain, SMT DEF SideKinds, d
<1>7. CASE e.ev.type = "LaunchFailed" /\ c.cancelAsked
  <2>1. r.proc \in {"none", "parked"}
    BY <1>1, <1>7, NoRunIs DEF LaunchedStands
  <2>2. Handler(j, c, e.ev) = settle(j, c, IF StoreSilent(e.ev) THEN Ended("cancelled") ELSE cancelQueued)
    BY <1>1, <1>7 DEF Handler, OnLaunchFailed, StoreSilent
  <2> QED
    BY <1>1, <1>2, <1>5, <2>1, <2>2
<1>8. CASE e.ev.type = "LaunchFailed" /\ ~c.cancelAsked /\ StoreSilent(e.ev)
  <2> DEFINE n == [c EXCEPT !.phase = "indoubt"]
             w == [n EXCEPT !.waiting = TRUE, !.armed = TRUE]
  <2>1. Handler(j, c, e.ev) = awaitRetry(j, n)
    BY <1>1, <1>8 DEF Handler, OnLaunchFailed, StoreSilent
  <2>2. w.phase = "indoubt" /\ w.cancelAsked = c.cancelAsked /\ ~w.parked
    BY <1>2 DEF Entry
  <2>3. OpenStands(j, w, S, {}, job, r)
    <3> HIDE DEF w
    <3>1. EntryStands(j, w, job, r) /\ SidesStand(w, S, job, r) /\ Idles(w) /\ w.phase \notin Ending
      BY <1>1, <1>2, <1>3, <1>8, <2>2, MainOfPhases, NoRunIs
         DEF EntryStands, SidesStand, SideStands, LaunchedStands, Idles, Ending
    <3> QED
      BY <3>1, OpenNow
  <2> QED
    BY <2>1, <2>3, AwaitStands
<1>9. CASE e.ev.type = "LaunchFailed" /\ ~c.cancelAsked /\ ~StoreSilent(e.ev)
  <2> DEFINE again == [c EXCEPT !.spawnFailures = @ + 1]
             n == [again EXCEPT !.phase = "discarding"]
  <2>1. job.state = "queued" /\ r.proc = "none" /\ Unstarted(e.ev)
    BY <1>1, <1>9, NoRunIs DEF LaunchedStands
  <2>2. /\ again \in Entry /\ again.phase = "launching" /\ again.cancelAsked = c.cancelAsked
        /\ ~again.parked /\ ~again.waiting /\ again.settlement = NoSettlement
    BY <1>1, <1>2, UndecidedYet, AttemptsAssumption, SMT DEF Entry, Ending
  <2>3. CASE e.ev.cause = "supervisor silent" /\ again.spawnFailures < MaxAttempts
    <3>1. Handler(j, c, e.ev) = Result(n, {Discard(j, TRUE)})
      BY <1>1, <1>9, <2>3 DEF Handler, OnLaunchFailed, StoreSilent
    <3>2. n.phase = "discarding" /\ n.cancelAsked = c.cancelAsked /\ ~n.waiting /\ ~n.parked
      BY <2>2 DEF Entry
    <3> HIDE DEF n
    <3>3. SidesStand(n, S, job, r)
      BY <1>3, <3>2 DEF SidesStand, SideStands
    <3> QED
      BY <2>1, <3>1, <3>2, <3>3, DiscardingStands
  <2>4. CASE e.ev.cause = "supervisor silent" /\ ~(again.spawnFailures < MaxAttempts)
    <3>1. Handler(j, c, e.ev) = settle(j, again, failedToLaunch)
      BY <1>1, <1>9, <2>4 DEF Handler, OnLaunchFailed, StoreSilent
    <3> HIDE DEF again
    <3> QED
      BY <1>5, <2>1, <2>2, <3>1
  <2>5. CASE e.ev.cause = "unprepared"
    <3>1. Handler(j, c, e.ev) = settle(j, c, failedToLaunch)
      BY <1>1, <1>9, <2>5 DEF Handler, OnLaunchFailed, StoreSilent
    <3> QED
      BY <1>1, <1>2, <1>5, <2>1, <3>1
  <2>6. e.ev.cause \in {"supervisor silent", "unprepared"}
    BY <2>1 DEF Unstarted
  <2> QED
    BY <2>3, <2>4, <2>5, <2>6
<1>10. CASE e.ev.type = "LeaseRefused"
  <2>1. job.state = "queued" /\ r = NoRun /\ r.proc = "none"
    BY <1>1, <1>10, NoRunIs DEF LaunchedStands
  <2>2. CASE c.cancelAsked
    <3>1. Handler(j, c, e.ev) = settle(j, c, cancelQueued)
      BY <1>1, <1>10, <2>2 DEF Handler, OnLeaseRefused
    <3> QED
      BY <1>1, <1>2, <1>5, <2>1, <3>1
  <2>3. CASE ~c.cancelAsked
    <3> DEFINE n == [c EXCEPT !.phase = "queued", !.leased = TRUE]
               w == [n EXCEPT !.waiting = TRUE, !.armed = TRUE]
    <3>1. Handler(j, c, e.ev) = awaitRetry(j, n)
      BY <1>1, <1>10, <2>3 DEF Handler, OnLeaseRefused
    <3>2. w.phase = "queued" /\ w.cancelAsked = c.cancelAsked /\ ~w.parked /\ w.leased
      BY <1>2 DEF Entry
    <3>3. OpenStands(j, w, S, {}, job, r)
      <4> HIDE DEF w
      <4>1. EntryStands(j, w, job, r) /\ SidesStand(w, S, job, r) /\ Idles(w) /\ w.phase \notin Ending
        BY <1>3, <2>1, <3>2, MainOfPhases DEF EntryStands, SidesStand, SideStands, Idles, Ending
      <4> QED
        BY <4>1, OpenNow
    <3> QED
      BY <3>1, <3>3, AwaitStands
  <2> QED
    BY <2>2, <2>3
<1> QED
  BY <1>1, <1>6, <1>7, <1>8, <1>9, <1>10 DEF LaunchedStands

\* A queued job that is cancelled.
LEMMA CancelStands ==
    ASSUME NEW j, NEW c \in Entry, ~c.parked, c.cancelAsked, NEW S, NEW hs, NEW job, NEW r,
           job.state = "queued", r = NoRun,
           \A e \in S : /\ e.kind = "retry" => e.at = "post" /\ e.ev.type = "RetryDue"
                        /\ e.kind = "signal" => e.at \in {"cancel", "post"} /\ (e.at = "post" => e.ev.type = "CancelFailed")
                        /\ e.kind = "reexamine" => LookStands(e, job, r)
    PROVE  OpenAfter(j, cancelQueuedJob(j, c), S, {}, hs, job, r)
<1> DEFINE n == [c EXCEPT !.phase = "cancelling", !.settlement = cancelQueued, !.release = FALSE]
           d == effectOf(Move(j, n), hs)
<1>1. cancelQueuedJob(j, c) = Result(n, {Move(j, n)})
  BY DEF cancelQueuedJob
<1>2. /\ n.phase = "cancelling" /\ n.settlement = cancelQueued /\ n.cancelAsked /\ ~n.parked
      /\ ~Requeues(cancelQueued) /\ cancelQueued.to = "cancelled"
  BY DEF Entry, cancelQueued, Requeues
<1> HIDE DEF n, d
<1>3. r.proc = "none"
  BY NoRunIs
<1>4. EntryStands(j, n, job, r) /\ EndingStands(j, n, job, r)
  BY <1>2, <1>3 DEF EntryStands, EndingStands
<1>5. SidesStand(n, S, job, r)
  BY <1>2, <1>3 DEF SidesStand, SideStands, LookFits
<1>6. d.kind = "move" /\ d.at = "record" /\ d.settlement = n.settlement /\ d.flag = n.release
  BY MoveEffect, SMT DEF d
<1>7. MainStands(j, d, n, S, job, r) /\ ~Idles(n)
  BY <1>2, <1>6, MainOfPhases DEF MainStands, MoveStands, Idles
<1>8. OpenStands(j, n, S, {d}, job, r)
  BY <1>4, <1>5, <1>7, OpenNow
<1> QED
  BY <1>1, <1>6, <1>8, AfterMain DEF SideKinds, d

\* What a proof that the supervisor is gone comes to.
LEMMA CutOffStands ==
    ASSUME NEW j, NEW c \in Entry, ~c.parked, c.phase = "running", NEW S, NEW hs, NEW job, NEW r,
           job.state = "running", r.proc = "none",
           EntryStands(j, c, job, r), SidesStand(c, S, job, r),
           ~c.cancelAsked => ~c.waiting /\ (\A e \in S : e.kind # "reexamine"),
           NEW proof, NEW began, began = "never" => Unsent(r)
    PROVE  OpenAfter(j, cutOff(j, c, proof, began), S, {}, hs, job, r)
<1> DEFINE st == CutOff(j \in Rerun, c.attempts, proof, began)
           n == [c EXCEPT !.phase = "settling", !.settlement = st, !.release = FALSE]
           d == effectOf(Move(j, n), hs)
<1>1. CASE c.cancelAsked \/ ~Requeues(st)
  <2>1. cutOff(j, c, proof, began) = settle(j, c, lostJob)
    BY <1>1 DEF cutOff
  <2>2. lostJob \in Settlement /\ ~Requeues(lostJob) /\ lostJob.to = "lost"
    BY SettlementsAre DEF lostJob, Ended, FinalStates
  <2> HIDE DEF st, n, d
  <2>3. OpenAfter(j, settle(j, c, lostJob), S, {}, hs, job, r)
    BY <2>2, SettleStands, SMT
  <2> QED
    BY <2>1, <2>3
<1>2. CASE ~c.cancelAsked /\ Requeues(st)
  <2>1. cutOff(j, c, proof, began) = Result(n, {Move(j, n)})
    BY <1>2 DEF cutOff
  <2>2. began = "never" \/ j \in Rerun
    BY <1>2 DEF CutOff, Requeues, lostJob, Ended
  <2> HIDE DEF st
  <2>3. /\ n.phase = "settling" /\ n.settlement = st /\ n.cancelAsked = c.cancelAsked
        /\ ~n.parked /\ ~n.waiting /\ st.to = "queued"
    BY <1>2 DEF Entry, Requeues
  <2> HIDE DEF n, d
  <2>4. EntryStands(j, n, job, r) /\ EndingStands(j, n, job, r)
    BY <2>2, <2>3 DEF EntryStands, EndingStands
  <2>5. SidesStand(n, S, job, r)
    BY <1>2, <2>3 DEF SidesStand, SideStands
  <2>6. d.kind = "move" /\ d.at = "record" /\ d.settlement = n.settlement /\ d.flag = n.release
    BY MoveEffect, SMT DEF d
  <2>7. MainStands(j, d, n, S, job, r) /\ ~Idles(n)
    BY <2>3, <2>6, MainOfPhases DEF MainStands, MoveStands, Idles
  <2>8. OpenStands(j, n, S, {d}, job, r)
    BY <2>4, <2>5, <2>7, OpenNow
  <2> QED
    BY <2>1, <2>6, <2>8, AfterMain DEF SideKinds, d
<1> QED
  BY <1>1, <1>2

\* An outcome that a supervisor has tells how its command ended.
LEMMA OutcomeTrue ==
    ASSUME NEW r \in Run, r.end # "none", r.end = "cancelled" => r.cancel, NEW j,
           NEW o, o = outcomeOf(r, j \in Rerun)
    PROVE  /\ SettleOutcome(o) \in Settlement /\ ~Requeues(SettleOutcome(o))
           /\ SettleOutcome(o).to = "succeeded" => r.end = "done"
           /\ SettleOutcome(o).to # "lost"
<1>1. r.end \in {"done", "cancelled"}
  BY DEF Run
<1>2. SettleOutcome(o) = Ended(IF r.end = "done" THEN "succeeded" ELSE "cancelled")
  BY <1>1 DEF outcomeOf, SettleOutcome, settleAttempt, settleVerdict, settleRan, Execs
<1>3. "succeeded" \in FinalStates /\ "cancelled" \in FinalStates
  BY DEF FinalStates
<1> QED
  BY <1>1, <1>2, <1>3, SettlementsAre, SMT DEF Ended

\* No look at a job goes on beside its follow, unless the job was cancelled.
LEMMA NoLooks ==
    ASSUME NEW c, NEW S, NEW job, NEW r, SidesStand(c, S, job, r), c.phase # "indoubt", ~c.cancelAsked
    PROVE  \A e \in S : e.kind # "reexamine"
  BY DEF SidesStand, SideStands, LookFits

\* The answers of a follow, a stop, a move and a discard.
LEMMA LookStarts ==
    ASSUME NEW j, NEW n, n.phase = "indoubt", n.settlement = NoSettlement, NEW S, NEW hs, NEW job, NEW r,
           EntryStands(j, n, job, r), SidesStand(n, S, job, r),
           ~n.cancelAsked => ~n.waiting /\ ~n.parked /\ (\A e \in S : e.kind # "reexamine")
    PROVE  OpenAfter(j, Result(n, {Request("reexamine", j)}), S, {}, hs, job, r)
<1> DEFINE d == effectOf(Request("reexamine", j), hs)
           T == S \cup {d}
<1> HIDE DEF d
<1>1. d.kind = "reexamine" /\ d.at = "look"
  BY PlainEffects, SMT DEF d
<1>2. Idles(n) /\ n.phase \notin Ending /\ ~Requeues(NoSettlement)
  BY MainOfPhases DEF Idles, Ending, Requeues, NoSettlement
<1>3. SidesStand(n, T, job, r)
  <2>1. ASSUME NEW e \in T PROVE SideStands(e, n, T, job, r)
    <3>1. e.kind = "reexamine" => LookFits(e, n, T, r)
      BY <1>1, <1>2, <2>1 DEF LookFits
    <3>2. e.kind = "reexamine" => LookStands(e, job, r)
      BY <1>1, <2>1 DEF SidesStand, SideStands, LookStands
    <3> QED
      BY <1>1, <2>1, <3>1, <3>2 DEF SidesStand, SideStands
  <2> QED
    BY <2>1 DEF SidesStand
<1>4. OpenStands(j, n, T, {}, job, r)
  BY <1>2, <1>3, OpenNow
<1> QED
  BY <1>1, <1>4, AfterSide, SMT DEF SideKinds, d

LEMMA LookAgainStands ==
    ASSUME NEW j, NEW c, Good(c), c.phase = "running", NEW S, NEW hs, NEW job, NEW r,
           EntryStands(j, c, job, r), SidesStand(c, S, job, r)
    PROVE  OpenAfter(j, lookAgain(j, c), S, {}, hs, job, r)
<1> DEFINE n == [c EXCEPT !.phase = "indoubt", !.holds = TRUE]
<1>1. lookAgain(j, c) = Result(n, {Request("reexamine", j)})
  BY DEF lookAgain
<1>2. c \in Entry /\ ~c.parked /\ c.settlement = NoSettlement /\ c.holdUntil = "zero"
  BY DEF Good, CoherentEntry, Ending
<1>3. /\ n.phase = "indoubt" /\ n.holds /\ n.holdUntil = "zero" /\ n.cancelAsked = c.cancelAsked
      /\ n.waiting = c.waiting /\ ~n.parked /\ n.settlement = NoSettlement
  BY <1>2 DEF Entry
<1> HIDE DEF n
<1>4. ~c.cancelAsked => ~c.waiting /\ \A e \in S : e.kind # "reexamine"
  BY NoLooks DEF EntryStands
<1>5. EntryStands(j, n, job, r)
  BY <1>3 DEF EntryStands
<1>6. SidesStand(n, S, job, r)
  BY <1>2, <1>3, <1>4 DEF SidesStand, SideStands, LookFits, Ending
<1> QED
  BY <1>1, <1>3, <1>4, <1>5, <1>6, LookStarts

LEMMA FollowAnswered ==
    ASSUME NEW j, NEW c, Good(c), NEW S, NEW e, NEW hs, NEW job, NEW r \in Run,
           r.end = "cancelled" => r.cancel,
           OpenStands(j, c, S, {e}, job, r), e.kind = "follow", e.at = "post"
    PROVE  OpenAfter(j, Handler(j, c, e.ev), S, {}, hs, job, r)
<1>1. /\ c.phase = "running" /\ FollowStands(j, e, S, job, r) /\ job.state = "running"
      /\ EntryStands(j, c, job, r) /\ SidesStand(c, S, job, r)
  BY Answering DEF FollowStands
<1>2. c \in Entry /\ ~c.parked
  BY <1>1 DEF Good, CoherentEntry
<1>3. ~c.cancelAsked => ~c.waiting /\ \A d \in S : d.kind # "reexamine"
  BY <1>1, NoLooks DEF EntryStands
<1>4. CASE e.ev.type = "FollowFailed" /\ StoreSilent(e.ev)
  <2>1. Handler(j, c, e.ev) = lookAgain(j, c)
    BY <1>1, <1>4 DEF Handler, OnFollowFailed, StoreSilent
  <2> QED
    BY <1>1, <2>1, LookAgainStands
<1>5. CASE e.ev.type = "FollowFailed" /\ ~StoreSilent(e.ev)
  <2> DEFINE n == [c EXCEPT !.phase = "stopping"]
             d == effectOf(Request("stop", j), hs)
  <2>1. Handler(j, c, e.ev) = Result(n, {Request("stop", j)})
    BY <1>1, <1>5 DEF Handler, OnFollowFailed, StoreSilent
  <2>2. /\ n.phase = "stopping" /\ n.cancelAsked = c.cancelAsked /\ n.waiting = c.waiting /\ ~n.parked
        /\ n.settlement = c.settlement
    BY <1>2 DEF Entry
  <2> HIDE DEF n, d
  <2>3. d.kind = "stop" /\ d.at = "cancel"
    BY PlainEffects, SMT DEF d
  <2>4. EntryStands(j, n, job, r)
    BY <1>1, <2>2 DEF EntryStands
  <2>5. SidesStand(n, S, job, r)
    BY <1>1, <1>3, <2>2 DEF SidesStand, SideStands, LookFits, Ending
  <2>6. ~Idles(n) /\ MainStands(j, d, n, S, job, r)
    BY <1>1, <2>2, <2>3, MainOfPhases DEF Idles, MainStands, StopStands
  <2>7. OpenStands(j, n, S, {d}, job, r)
    BY <2>2, <2>4, <2>5, <2>6, OpenNow DEF Ending
  <2> QED
    BY <2>1, <2>3, <2>7, AfterMain DEF SideKinds, d
<1>6. CASE e.ev.type = "SupervisorLost" /\ LostStands(e.ev, r)
  <2>1. Handler(j, c, e.ev) = cutOff(j, c, e.ev.proof, e.ev.start)
    BY <1>1, <1>6 DEF Handler, OnSupervisorLost, LostStands, LockFree, ValidProof
  <2>2. r.proc = "none" /\ (e.ev.start = "never" => Unsent(r))
    BY <1>6 DEF LostStands
  <2> QED
    BY <1>1, <1>2, <1>3, <2>1, <2>2, CutOffStands
<1>7. CASE e.ev.type = "Finished" /\ EndStands(j, e.ev, r)
  <2> DEFINE st == SettleOutcome(e.ev.o)
  <2>1. Handler(j, c, e.ev) = settle(j, c, st)
    BY <1>1, <1>7 DEF Handler, OnFinished
  <2>2. r.proc \in {"finished", "none"} /\ r.end # "none" /\ e.ev.o = outcomeOf(r, j \in Rerun)
    BY <1>7 DEF EndStands
  <2>3. st \in Settlement /\ ~Requeues(st) /\ (st.to = "succeeded" => r.end = "done") /\ st.to # "lost"
    BY <2>2, OutcomeTrue
  <2> HIDE DEF st
  <2> QED
    BY <1>1, <1>2, <2>1, <2>2, <2>3, SettleStands, SMT
<1> QED
  BY <1>1, <1>4, <1>5, <1>6, <1>7 DEF FollowStands

LEMMA StopAnswered ==
    ASSUME NEW j, NEW c, Good(c), NEW S, NEW e, NEW hs, NEW job, NEW r,
           OpenStands(j, c, S, {e}, job, r), e.kind = "stop", e.at = "post"
    PROVE  OpenAfter(j, Handler(j, c, e.ev), S, {}, hs, job, r)
<1>1. /\ c.phase = "stopping" /\ StopStands(j, e, job, r) /\ job.state = "running"
      /\ EntryStands(j, c, job, r) /\ SidesStand(c, S, job, r)
  BY Answering DEF StopStands
<1>2. c \in Entry /\ ~c.parked /\ c.settlement = NoSettlement /\ c.holdUntil = "zero"
  BY <1>1 DEF Good, CoherentEntry, Ending
<1>3. ~c.cancelAsked => \A d \in S : d.kind # "reexamine"
  BY <1>1, NoLooks
<1>4. CASE e.ev.type = "StopFailed"
  <2> DEFINE n == [c EXCEPT !.phase = "indoubt", !.holds = TRUE]
             w == [n EXCEPT !.waiting = TRUE, !.armed = TRUE]
  <2>1. Handler(j, c, e.ev) = awaitRetry(j, n)
    BY <1>1, <1>4 DEF Handler, OnStopFailed
  <2>2. /\ w.phase = "indoubt" /\ w.holds /\ w.holdUntil = "zero" /\ w.cancelAsked = c.cancelAsked
        /\ ~w.parked /\ w.settlement = c.settlement
    BY <1>2 DEF Entry
  <2>3. OpenStands(j, w, S, {}, job, r)
    <3> HIDE DEF w
    <3>1. EntryStands(j, w, job, r) /\ Idles(w) /\ w.phase \notin Ending
      BY <1>1, <2>2, MainOfPhases DEF EntryStands, Idles, Ending
    <3>2. SidesStand(w, S, job, r)
      BY <1>1, <1>3, <2>2 DEF SidesStand, SideStands, LookFits, Ending
    <3> QED
      BY <3>1, <3>2, OpenNow
  <2> QED
    BY <2>1, <2>3, AwaitStands
<1>5. CASE e.ev.type = "SupervisorLost" /\ LostStands(e.ev, r)
  <2>1. Handler(j, c, e.ev) = settle(j, c, lostJob)
    BY <1>1, <1>5 DEF Handler, OnSupervisorLost, LostStands, LockFree, ValidProof
  <2>2. r.proc = "none"
    BY <1>5 DEF LostStands
  <2>3. lostJob \in Settlement /\ ~Requeues(lostJob) /\ lostJob.to = "lost"
    BY SettlementsAre DEF lostJob, Ended, FinalStates
  <2> QED
    BY <1>1, <1>2, <2>1, <2>2, <2>3, SettleStands, SMT
<1>6. CASE e.ev.type = "Finished" /\ EndStands(j, e.ev, r)
  <2>1. Handler(j, c, e.ev) = settle(j, c, stoppedJob)
    BY <1>1, <1>6 DEF Handler, OnFinished
  <2>2. r.proc \in {"finished", "none"}
    BY <1>6 DEF EndStands
  <2>3. stoppedJob \in Settlement /\ ~Requeues(stoppedJob) /\ stoppedJob.to = "failed"
    BY SettlementsAre DEF stoppedJob, Ended, FinalStates
  <2> QED
    BY <1>1, <1>2, <2>1, <2>2, <2>3, SettleStands, SMT
<1> QED
  BY <1>1, <1>4, <1>5, <1>6 DEF StopStands

LEMMA MoveAnswered ==
    ASSUME NEW j, NEW c, Good(c), NEW S, NEW e, NEW hs, NEW job, NEW r,
           OpenStands(j, c, S, {e}, job, r), e.kind = "move", e.at = "post"
    PROVE  OpenAfter(j, Handler(j, c, e.ev), S, {}, hs, job, r)
<1>1. /\ c.phase \in Ending /\ MoveStands(e, c, job) /\ c \in Entry /\ ~(c.phase = "unrecorded" /\ c.waiting)
      /\ EntryStands(j, c, job, r) /\ EndingStands(j, c, job, r) /\ SidesStand(c, S, job, r)
  BY Answering
<1>2. /\ ~c.parked /\ c.phase \in {"settling", "cancelling", "unrecorded"}
      /\ c.phase = "cancelling" => ~Requeues(c.settlement)
  BY <1>1, SettlementsAre DEF Good, CoherentEntry, Ending
<1>3. CASE e.ev.type = "MoveFailed"
  <2> DEFINE n == [c EXCEPT !.phase = "unrecorded"]
             w == [n EXCEPT !.waiting = TRUE, !.armed = TRUE]
  <2>1. Handler(j, c, e.ev) = awaitRetry(j, n)
    BY <1>2, <1>3 DEF Handler, OnMoveFailed
  <2>2. /\ w.phase = "unrecorded" /\ w.waiting /\ w.cancelAsked = c.cancelAsked
        /\ ~w.parked /\ w.settlement = c.settlement
    BY <1>1, <1>2 DEF Entry
  <2>3. OpenStands(j, w, S, {}, job, r)
    <3> HIDE DEF w
    <3>1. EntryStands(j, w, job, r) /\ Idles(w)
      BY <1>1, <2>2, MainOfPhases DEF EntryStands, Idles, Ending
    <3>2. EndingStands(j, w, job, r)
      BY <1>1, <2>2 DEF EndingStands
    <3>3. SidesStand(w, S, job, r)
      BY <1>1, <2>2 DEF SidesStand, SideStands, LookFits, Ending
    <3> QED
      BY <3>1, <3>2, <3>3, OpenNow
  <2> QED
    BY <2>1, <2>3, AwaitStands
<1>4. CASE e.ev.type = "Requeued" /\ Requeues(c.settlement) /\ job.state = "queued"
  <2> DEFINE n == [c EXCEPT !.attempts = @ + 1, !.phase = "discarding",
                            !.settlement = NoSettlement, !.cancelSent = FALSE,
                            !.holds = FALSE, !.holdUntil = "zero"]
  <2>1. Handler(j, c, e.ev) = Result(n, {Discard(j, TRUE)})
    BY <1>2, <1>4 DEF Handler, OnRequeued
  <2>2. n.phase = "discarding" /\ n.cancelAsked = c.cancelAsked /\ n.waiting = c.waiting /\ ~n.parked /\ ~c.waiting
    BY <1>1, <1>2, <1>4 DEF Entry, EntryStands
  <2> HIDE DEF n
  <2>3. SidesStand(n, S, job, r)
    BY <1>1, <1>4, <2>2 DEF SidesStand, SideStands, LookFits
  <2> QED
    BY <1>4, <2>1, <2>2, <2>3, DiscardingStands
<1> QED
  BY <1>1, <1>3, <1>4 DEF MoveStands

LEMMA DiscardAnswered ==
    ASSUME NEW j, NEW c, Good(c), NEW S, NEW e, NEW hs, NEW job, NEW r,
           OpenStands(j, c, S, {e}, job, r), e.kind = "discard", e.at = "post"
    PROVE  OpenAfter(j, Handler(j, c, e.ev), S, {}, hs, job, r)
<1>1. /\ c.phase = "discarding" /\ ~c.waiting /\ DiscardStands(e, r) /\ c \in Entry
      /\ EntryStands(j, c, job, r) /\ SidesStand(c, S, job, r) /\ job.state = "queued"
  BY Answering DEF EntryStands
<1>2. ~c.parked
  BY <1>1 DEF Good, CoherentEntry
<1>3. CASE e.ev.type = "DiscardFailed"
  <2> DEFINE w == [c EXCEPT !.waiting = TRUE, !.armed = TRUE]
  <2>1. Handler(j, c, e.ev) = awaitRetry(j, c)
    BY <1>1, <1>3 DEF Handler, OnDiscardFailed
  <2>2. w.phase = "discarding" /\ w.waiting /\ w.cancelAsked = c.cancelAsked /\ ~w.parked /\ w.settlement = c.settlement
    BY <1>1, <1>2 DEF Entry
  <2>3. OpenStands(j, w, S, {}, job, r)
    <3> HIDE DEF w
    <3>1. EntryStands(j, w, job, r) /\ Idles(w) /\ w.phase \notin Ending
      BY <1>1, <2>2 DEF EntryStands, Idles, Ending
    <3>2. SidesStand(w, S, job, r)
      BY <1>1, <2>2 DEF SidesStand, SideStands, LookFits, Ending
    <3> QED
      BY <3>1, <3>2, OpenNow
  <2> QED
    BY <2>1, <2>3, AwaitStands
<1>4. CASE e.ev.type = "Discarded" /\ r = NoRun
  <2> DEFINE n == [c EXCEPT !.phase = "queued"]
  <2>1. /\ n.phase = "queued" /\ n.cancelAsked = c.cancelAsked /\ ~n.waiting /\ ~n.parked /\ n \in Entry
    BY <1>1, <1>2 DEF Entry, Phases
  <2>2. CASE c.cancelAsked
    <3>1. Handler(j, c, e.ev) = cancelQueuedJob(j, n)
      BY <1>1, <1>4, <2>2 DEF Handler, OnDiscarded
    <3> HIDE DEF n
    <3>2. OpenAfter(j, cancelQueuedJob(j, n), S, {}, hs, job, r)
      BY <1>1, <1>4, <2>1, <2>2, CancelStands DEF SidesStand, SideStands
    <3> QED
      BY <3>1, <3>2
  <2>3. CASE ~c.cancelAsked
    <3>1. Handler(j, c, e.ev) = Ignore(n)
      BY <1>1, <1>4, <2>3 DEF Handler, OnDiscarded
    <3> HIDE DEF n
    <3>2. EntryStands(j, n, job, r) /\ Idles(n) /\ n.phase \notin Ending
      BY <1>1, <1>4, <2>1, MainOfPhases DEF EntryStands, Idles, Ending
    <3>3. SidesStand(n, S, job, r)
      BY <1>1, <2>1, <2>3, NoLooks DEF SidesStand, SideStands
    <3>4. OpenStands(j, n, S, {}, job, r)
      BY <3>2, <3>3, OpenNow
    <3> QED
      BY <3>1, <3>4, AfterNone
  <2> QED
    BY <2>2, <2>3
<1> QED
  BY <1>1, <1>3, <1>4 DEF DiscardStands

-----------------------------------------------------------------------------
(* A timer, a lost cancel and a caller. *)

LEMMA RetryDueStands ==
    ASSUME NEW j, NEW c, Good(c), NEW S, NEW M, NEW hs, NEW job, NEW r, OpenStands(j, c, S, M, job, r)
    PROVE  OpenAfter(j, OnRetryDue(j, c), S, M, hs, job, r)
<1> DEFINE n == [c EXCEPT !.armed = FALSE, !.waiting = FALSE]
<1>1. /\ n \in Entry /\ n.phase = c.phase /\ n.waiting = FALSE /\ n.cancelAsked = c.cancelAsked /\ n.parked = c.parked
      /\ n.leased = c.leased /\ n.holds = c.holds /\ n.holdUntil = c.holdUntil
      /\ n.settlement = c.settlement /\ n.release = c.release /\ c.waiting \in BOOLEAN
  BY DEF Good, Entry
<1>2. CASE ~c.waiting
  <2>1. OnRetryDue(j, c) = Ignore(n)
    BY <1>2 DEF OnRetryDue
  <2>2. OpenStands(j, n, S, M, job, r)
    <3>1. Alike(c, n)
      BY <1>1, <1>2 DEF Alike
    <3> QED
      BY <3>1, AlikeStands
  <2> QED
    BY <2>1, <2>2, AfterNone
<1>3. CASE c.waiting
  <2>1. /\ EntryStands(j, c, job, r) /\ SidesStand(c, S, job, r)
        /\ c.phase \in Ending => EndingStands(j, c, job, r)
    BY DEF OpenStands, SidesStand
  <2>2. ~c.cancelAsked => \A e \in S : e.kind # "reexamine"
    BY <1>3, <2>1 DEF SidesStand, SideStands, LookFits
  <2>3. ASSUME NEW m, m.phase = c.phase, m.waiting = FALSE, m.cancelAsked = c.cancelAsked, m.parked = c.parked,
               m.holds = c.holds, m.holdUntil = c.holdUntil, m.settlement = c.settlement
        PROVE  /\ EntryStands(j, m, job, r) /\ SidesStand(m, S, job, r)
               /\ m.phase \in Ending => EndingStands(j, m, job, r)
    <3>1. EntryStands(j, m, job, r)
      BY <2>1, <2>3 DEF EntryStands
    <3>2. SidesStand(m, S, job, r)
      BY <2>1, <2>2, <2>3 DEF SidesStand, SideStands, LookFits
    <3>3. m.phase \in Ending => EndingStands(j, m, job, r)
      BY <2>1, <2>3 DEF EndingStands
    <3> QED
      BY <3>1, <3>2, <3>3
  <2>4. /\ EntryStands(j, n, job, r) /\ SidesStand(n, S, job, r)
        /\ n.phase \in Ending => EndingStands(j, n, job, r)
    BY <1>1, <2>3
  <2>5. c.phase # "left" /\ c.phase # "launching"
    BY <1>3, <2>1 DEF EntryStands
  <2>6. CASE c.phase = "unrecorded"
    <3> DEFINE d == effectOf(Move(j, n), hs)
    <3>1. OnRetryDue(j, c) = Result(n, {Move(j, n)})
      BY <1>3, <2>6 DEF OnRetryDue
    <3> HIDE DEF n, d
    <3>2. d.kind = "move" /\ d.at = "record" /\ d.settlement = n.settlement /\ d.flag = n.release
      BY MoveEffect, SMT DEF d
    <3>3. MainStands(j, d, n, S, job, r) /\ ~Idles(n)
      BY <1>1, <2>6, <3>2, MainOfPhases DEF MainStands, MoveStands, Idles
    <3>4. OpenStands(j, n, S, {d}, job, r)
      BY <2>4, <3>3, OpenNow
    <3>5. M = {}
      BY <1>3, <2>6 DEF OpenStands, Idles
    <3> QED
      BY <3>1, <3>2, <3>4, <3>5, AfterMain DEF SideKinds, d
  <2>7. CASE c.phase = "indoubt"
    <3>1. OnRetryDue(j, c) = Result(n, {Request("reexamine", j)})
      BY <1>3, <2>7 DEF OnRetryDue
    <3>2. n.settlement = NoSettlement /\ ~n.parked /\ M = {}
      BY <1>1, <1>3, <2>1, <2>7, MainOfPhases DEF Good, CoherentEntry, Ending, EntryStands, OpenStands, Idles
    <3> HIDE DEF n
    <3> QED
      BY <1>1, <2>2, <2>4, <2>7, <3>1, <3>2, LookStarts
  <2>8. CASE c.phase = "discarding"
    <3>1. OnRetryDue(j, c) = Result(n, {Discard(j, TRUE)})
      BY <1>3, <2>8 DEF OnRetryDue
    <3>2. ~n.parked /\ M = {} /\ job.state = "queued"
      BY <1>1, <1>3, <2>1, <2>8 DEF Good, CoherentEntry, EntryStands, OpenStands, Idles
    <3> HIDE DEF n
    <3> QED
      BY <1>1, <2>4, <2>8, <3>1, <3>2, DiscardingStands
  <2>9. CASE c.phase = "queued"
    <3> DEFINE m == [n EXCEPT !.leased = FALSE]
    <3>1. OnRetryDue(j, c) = Ignore(m)
      BY <1>3, <2>9 DEF OnRetryDue
    <3> HIDE DEF n
    <3>2. /\ m.phase = c.phase /\ m.waiting = FALSE /\ m.cancelAsked = c.cancelAsked /\ m.parked = c.parked
          /\ m.holds = c.holds /\ m.holdUntil = c.holdUntil /\ m.settlement = c.settlement
      BY <1>1 DEF Entry
    <3> HIDE DEF m
    <3>3. EntryStands(j, m, job, r) /\ SidesStand(m, S, job, r)
      BY <2>3, <3>2
    <3>4. Idles(m) /\ M = {} /\ m.phase \notin Ending
      BY <2>9, <3>2, MainOfPhases DEF Idles, OpenStands, Ending
    <3> QED
      BY <3>1, <3>3, <3>4, OpenNow, AfterNone
  <2>10. CASE c.phase \notin {"unrecorded", "indoubt", "discarding", "queued"}
    <3>1. OpenStands(j, n, S, M, job, r)
      <4>1. Idles(n) <=> Idles(c)
        BY <1>1, <2>10 DEF Idles
      <4>2. \A e : MainStands(j, e, c, S, job, r) => MainStands(j, e, n, S, job, r)
        BY <1>1 DEF MainStands, MoveStands
      <4> QED
        BY <2>4, <4>1, <4>2 DEF OpenStands, SidesStand
    <3>2. OnRetryDue(j, c) = IF c.phase = "running" THEN signalCancel(j, n) ELSE Ignore(n)
      BY <1>3, <2>5, <2>10 DEF OnRetryDue
    <3> HIDE DEF n
    <3> QED
      BY <1>1, <3>1, <3>2, AfterNone, SignalStands
  <2> QED
    BY <2>6, <2>7, <2>8, <2>9, <2>10
<1> QED
  BY <1>2, <1>3

LEMMA CancelFailedStands ==
    ASSUME NEW j, NEW c, Good(c), c.cancelAsked, ParkedWaits(c), NEW S, NEW M, NEW hs, NEW job, NEW r,
           OpenStands(j, c, S, M, job, r)
    PROVE  OpenAfter(j, OnCancelFailed(j, c), S, M, hs, job, r)
<1>1. CASE c.phase \notin {"running", "indoubt"}
  BY <1>1, AfterNone DEF OnCancelFailed
<1>2. CASE c.phase \in {"running", "indoubt"}
  <2> DEFINE n == [c EXCEPT !.cancelSent = FALSE]
             w == [n EXCEPT !.waiting = TRUE, !.armed = TRUE]
  <2>1. OnCancelFailed(j, c) = awaitRetry(j, n)
    BY <1>2 DEF OnCancelFailed
  <2>2. /\ w.phase = c.phase /\ w.cancelAsked /\ ~w.parked /\ w.waiting
        /\ w.holds = c.holds /\ w.holdUntil = c.holdUntil /\ w.settlement = c.settlement
        /\ w.release = c.release
    BY DEF Good, Entry, ParkedWaits
  <2>3. OpenStands(j, w, S, M, job, r)
    <3> HIDE DEF w
    <3>1. EntryStands(j, w, job, r)
      BY <1>2, <2>2 DEF OpenStands, EntryStands
    <3>2. SidesStand(w, S, job, r)
      BY <2>2 DEF OpenStands, SidesStand, SideStands, LookFits
    <3>3. (Idles(w) <=> Idles(c)) /\ w.phase \notin Ending
      BY <1>2, <2>2 DEF Idles, Ending
    <3>4. \A e : MainStands(j, e, c, S, job, r) => MainStands(j, e, w, S, job, r)
      BY <2>2 DEF MainStands, MoveStands
    <3> QED
      BY <3>1, <3>2, <3>3, <3>4 DEF OpenStands, SidesStand
  <2> QED
    BY <2>1, <2>3, AwaitStands
<1> QED
  BY <1>1, <1>2

\* What a caller finds the machine has yet to hear of is queued, with nothing run.
LEMMA AdmitStands ==
    ASSUME NEW j, NEW c, Good(c), NEW S, NEW M, NEW job, NEW r, OpenStands(j, c, S, M, job, r),
           c.phase = "none" => job.state = "queued" /\ r = NoRun, NEW told, NEW attempts
    PROVE  OpenStands(j, admit(c, told, attempts), S, M, job, r)
<1> DEFINE n == [NoEntry EXCEPT !.phase = "queued", !.dated = TRUE, !.told = told, !.attempts = attempts]
<1>1. CASE c.phase # "none"
  BY <1>1 DEF admit
<1>2. CASE c.phase = "none"
  <2>1. admit(c, told, attempts) = n
    BY <1>2 DEF admit
  <2>2. n.phase = "queued" /\ n.waiting = FALSE /\ n.parked = FALSE /\ n.cancelAsked = FALSE
    BY DEF NoEntry
  <2> HIDE DEF n
  <2>3. c.cancelAsked = FALSE
    <3>1. c = NoEntry
      BY <1>2 DEF Good, CoherentEntry
    <3> QED
      BY <3>1 DEF NoEntry
  <2>4. EntryStands(j, n, job, r) /\ Idles(n) /\ n.phase \notin Ending
    BY <1>2, <2>2, MainOfPhases DEF EntryStands, Idles, Ending
  <2>5. SidesStand(n, S, job, r)
    BY <1>2, <2>3 DEF OpenStands, SidesStand, SideStands, LookFits
  <2>6. M = {}
    BY <1>2, MainOfPhases DEF OpenStands, Idles
  <2> QED
    BY <2>1, <2>4, <2>5, <2>6, OpenNow
<1> QED
  BY <1>1, <1>2

LEMMA AdmittedStands ==
    ASSUME NEW j, NEW c, Good(c), NEW S, NEW M, NEW hs, NEW job, NEW r, OpenStands(j, c, S, M, job, r),
           c.phase = "none" => job.state = "queued" /\ r = NoRun, NEW attempts
    PROVE  OpenAfter(j, OnAdmitted(c, attempts), S, M, hs, job, r)
  BY AdmitStands, AfterNone DEF OnAdmitted

LEMMA CancelAskedStands ==
    ASSUME NEW j, NEW c, Good(c), NEW S, NEW M, NEW hs, NEW job, NEW r, OpenStands(j, c, S, M, job, r),
           c.phase = "none" => job.state = "queued" /\ r = NoRun, NEW state
    PROVE  OpenAfter(j, OnCancelAsked(j, c, state), S, M, hs, job, r)
<1> DEFINE n == IF state = "queued" THEN admit(c, FALSE, 0) ELSE c
           m == markCancel(n)
<1>1. OpenStands(j, n, S, M, job, r) /\ n \in Entry
  BY AdmitStands, AdmitTyped DEF Good
<1>2. OnCancelAsked(j, c, state) =
        CASE n.phase = "queued" -> cancelQueuedJob(j, m)
          [] n.phase \in {"discarding", "launching", "indoubt"} -> Ignore(m)
          [] n.phase = "running" -> signalCancel(j, m)
          [] n.phase \in {"settling", "unrecorded"} /\ Requeues(n.settlement) -> Ignore(m)
          [] OTHER -> Ignore(n)
  BY DEF OnCancelAsked
<1> HIDE DEF n
<1>3. OpenStands(j, m, S, M, job, r)
  BY <1>1, MarkStands
<1>4. m \in Entry /\ m.cancelAsked /\ m.parked = n.parked
  BY <1>1 DEF Entry, markCancel
<1> HIDE DEF m
<1>5. CASE n.phase = "queued"
  <2>1. job.state = "queued" /\ r = NoRun /\ ~m.parked /\ M = {}
    BY <1>1, <1>4, <1>5, MainOfPhases DEF OpenStands, EntryStands, Idles
  <2>2. \A e \in S : /\ e.kind = "retry" => e.at = "post" /\ e.ev.type = "RetryDue"
                     /\ e.kind = "signal" => e.at \in {"cancel", "post"} /\ (e.at = "post" => e.ev.type = "CancelFailed")
                     /\ e.kind = "reexamine" => LookStands(e, job, r)
    BY <1>1 DEF OpenStands, SideStands
  <2> QED
    BY <1>2, <1>4, <1>5, <2>1, <2>2, CancelStands
<1>6. CASE n.phase = "running"
  BY <1>2, <1>3, <1>4, <1>6, SignalStands
<1>7. CASE n.phase \notin {"queued", "running"}
  <2>1. OnCancelAsked(j, c, state) \in {Ignore(m), Ignore(n)}
    BY <1>2, <1>7
  <2> QED
    BY <1>1, <1>3, <2>1, AfterNone
<1> QED
  BY <1>5, <1>6, <1>7

-----------------------------------------------------------------------------
(* A look at a job, once it is taken up. *)

LEMMA AfterBoth ==
    ASSUME NEW j, NEW h, NEW g, NEW S, NEW M, NEW hs, NEW job, NEW r,
           OpenAfter(j, g, S \cup Sides(New(h.r, hs)), M \cup Mains(New(h.r, hs)), hs, job, r)
    PROVE  OpenAfter(j, Result(g.e, h.r \cup g.r), S, M, hs, job, r)
<1> DEFINE x == Result(g.e, h.r \cup g.r)
<1>1. x.e = g.e /\ x.r = h.r \cup g.r
  BY DEF Result
<1> HIDE DEF x
<1>2. New(x.r, hs) = New(h.r, hs) \cup New(g.r, hs)
  BY <1>1, NewOf, SMT
<1>3. /\ Sides(New(x.r, hs)) = Sides(New(h.r, hs)) \cup Sides(New(g.r, hs))
      /\ Mains(New(x.r, hs)) = Mains(New(h.r, hs)) \cup Mains(New(g.r, hs))
  BY <1>2 DEF Sides, Mains
<1>4. /\ S \cup Sides(New(x.r, hs)) = (S \cup Sides(New(h.r, hs))) \cup Sides(New(g.r, hs))
      /\ M \cup Mains(New(x.r, hs)) = (M \cup Mains(New(h.r, hs))) \cup Mains(New(g.r, hs))
  BY <1>3
<1>5. OpenAfter(j, x, S, M, hs, job, r)
  BY <1>1, <1>4 DEF OpenAfter
<1> QED
  BY <1>5 DEF x

LEMMA PlacedIs ==
    ASSUME NEW c \in Entry, NEW f \in Finding, NEW phase \in Phases
    PROVE  LET n == place(c, f, phase)
           IN  /\ n \in Entry /\ n.phase = phase /\ n.cancelAsked = c.cancelAsked /\ n.waiting = FALSE
               /\ n.holds = FALSE /\ n.parked = FALSE /\ n.leased = FALSE /\ n.settlement = c.settlement
               /\ n.holdUntil = IF phase = "indoubt" THEN c.holdUntil ELSE "zero"
<1> DEFINE n == place(c, f, phase)
           dated == IF c.phase = "none" THEN JobIn(f) ELSE c.dated
           told == c.told \/ JobIn(f)
           attempts == IF JobIn(f) THEN f.attempts ELSE c.attempts
           until == IF phase = "indoubt" THEN c.holdUntil ELSE "zero"
<1>1. dated \in BOOLEAN /\ told \in BOOLEAN
  <2>1. JobIn(f) \in BOOLEAN
    BY SMT DEF JobIn
  <2>2. c.dated \in BOOLEAN /\ c.told \in BOOLEAN
    BY DEF Entry
  <2> QED
    BY <2>1, <2>2
<1>2. attempts \in 0 .. MaxAttempts /\ until \in {"zero", "ahead", "passed"}
  <2>1. f.attempts \in {0} \/ f.attempts \in 0 .. MaxAttempts - 1
    BY DEF Finding
  <2> QED
    BY <2>1, AttemptsAssumption, SMT DEF Entry
<1>3. n = [c EXCEPT !.phase = phase, !.dated = dated, !.attempts = attempts, !.told = told,
                    !.waiting = FALSE, !.holds = FALSE, !.parked = FALSE, !.leased = FALSE,
                    !.holdUntil = until]
  BY DEF place, Entry
<1>4. /\ n.phase = phase /\ n.cancelAsked = c.cancelAsked /\ n.waiting = FALSE
      /\ n.holds = FALSE /\ n.parked = FALSE /\ n.leased = FALSE /\ n.settlement = c.settlement
      /\ n.holdUntil = until
  BY <1>3 DEF Entry
<1> HIDE DEF dated, told, attempts, until, n
<1>5. n \in Entry
  BY <1>1, <1>2, <1>3, ZenonT(30) DEF Entry
<1> QED
  BY <1>4, <1>5 DEF n, until

\* What a look decides of a command that may run, and what is put off.
LEMMA InDoubtStands ==
    ASSUME NEW j, NEW c, Good(c), c.phase \in {"none", "indoubt"}, NEW f \in Finding, NEW p, NEW S, NEW hs, NEW job, NEW r,
           job.state # "absent", PresenceStands(p, job, r),
           EntryStands(j, c, job, r), SidesStand(c, S, job, r),
           ~c.cancelAsked => \A e \in S : e.kind # "reexamine"
    PROVE  OpenAfter(j, inDoubt(j, c, f, p), S, {}, hs, job, r)
<1> DEFINE n == place(c, f, "indoubt")
           b == judgeHold(n, p)
           w == [b EXCEPT !.waiting = TRUE, !.armed = TRUE]
           a == awaitRetry(j, b)
           s == signalCancel(j, a.e)
<1>1. c \in Entry /\ c.settlement = NoSettlement /\ (c.phase = "none" => c.holdUntil = "zero")
  BY UndecidedYet DEF Good, CoherentEntry, Ending
<1>2. /\ n \in Entry /\ n.phase = "indoubt" /\ n.cancelAsked = c.cancelAsked /\ n.parked = FALSE
      /\ n.settlement = NoSettlement /\ n.holdUntil = c.holdUntil
  <2>1. {"indoubt", "queued", "discarding"} \subseteq Phases
    BY DEF Phases
  <2> QED
    BY <1>1, <2>1, PlacedIs
<1> HIDE DEF n
<1>3. /\ b \in Entry /\ b.phase = "indoubt" /\ b.cancelAsked = c.cancelAsked /\ b.parked = FALSE
      /\ b.settlement = NoSettlement
      /\ r.proc = "executing" => b.holds /\ b.holdUntil # "passed"
  <2>1. CASE p.run \notin {"running", "unknown"}
    <3>1. b = [n EXCEPT !.holds = FALSE] /\ r.proc # "executing"
      BY <2>1 DEF judgeHold, PresenceStands
    <3> QED
      BY <1>2, <3>1 DEF Entry
  <2>2. CASE p.run \in {"running", "unknown"}
    <3> DEFINE until == IF n.holdUntil = "zero" THEN "ahead" ELSE n.holdUntil
    <3>1. b = [n EXCEPT !.holdUntil = until, !.holds = (until = "ahead")]
      BY <2>2 DEF judgeHold
    <3>2. until \in {"zero", "ahead", "passed"} /\ (until = "ahead") \in BOOLEAN /\ until # "zero"
      BY <1>2 DEF Entry
    <3>3. r.proc = "executing" => until # "passed"
      BY <1>1, <1>2 DEF EntryStands
    <3> HIDE DEF until
    <3> QED
      BY <1>2, <3>1, <3>2, <3>3 DEF Entry
  <2> QED
    BY <2>1, <2>2
<1> HIDE DEF b
<1>4. /\ w \in Entry /\ w.phase = "indoubt" /\ w.cancelAsked = c.cancelAsked /\ w.parked = FALSE
      /\ w.settlement = NoSettlement /\ a.e = w
      /\ r.proc = "executing" => w.holds /\ w.holdUntil # "passed"
  BY <1>3 DEF Entry, awaitRetry, Result
<1>5. inDoubt(j, c, f, p) = IF Answers(p) THEN Result(s.e, a.r \cup s.r) ELSE a
  BY DEF inDoubt, n, b
<1>6. OpenStands(j, w, S, {}, job, r)
  <2> HIDE DEF w
  <2>1. EntryStands(j, w, job, r) /\ Idles(w) /\ w.phase \notin Ending
    BY <1>4, MainOfPhases DEF EntryStands, Idles, Ending
  <2>2. ~Requeues(NoSettlement)
    BY DEF Requeues, NoSettlement
  <2>3. SidesStand(w, S, job, r)
    BY <1>4, <2>2 DEF SidesStand, SideStands, LookFits, Ending
  <2> QED
    BY <2>1, <2>3, OpenNow
<1>7. OpenAfter(j, a, S, {}, hs, job, r)
  BY <1>6, AwaitStands
<1>8. CASE Answers(p)
  <2> HIDE DEF w, a
  <2>1. OpenStands(j, a.e, S \cup Sides(New(a.r, hs)), {} \cup Mains(New(a.r, hs)), job, r)
    BY <1>7 DEF OpenAfter
  <2>2. OpenAfter(j, s, S \cup Sides(New(a.r, hs)), {} \cup Mains(New(a.r, hs)), hs, job, r)
    BY <1>4, <2>1, SignalStands
  <2> HIDE DEF s
  <2>3. OpenAfter(j, Result(s.e, a.r \cup s.r), S, {}, hs, job, r)
    BY <2>2, AfterBoth
  <2> QED
    BY <1>5, <1>8, <2>3
<1> QED
  BY <1>5, <1>7, <1>8

LEMMA FoundQueuedStands ==
    ASSUME NEW j, NEW c, Good(c), c.phase \in {"none", "indoubt"}, NEW f \in Finding, NEW p, NEW S, NEW hs, NEW job, NEW r,
           job.state = "queued", PresenceStands(p, job, r),
           EntryStands(j, c, job, r), SidesStand(c, S, job, r),
           ~c.cancelAsked => \A e \in S : e.kind # "reexamine"
    PROVE  OpenAfter(j, recoverQueuedAfresh(j, c, f, p), S, {}, hs, job, r)
<1> DEFINE n == place(c, f, "queued")
           d == place(c, f, "discarding")
<1>1. c \in Entry /\ c.settlement = NoSettlement /\ ~Requeues(NoSettlement)
  BY UndecidedYet DEF Good, Ending, Requeues, NoSettlement
<1>2. /\ n \in Entry /\ n.phase = "queued" /\ n.cancelAsked = c.cancelAsked /\ n.parked = FALSE /\ n.waiting = FALSE
      /\ d.phase = "discarding" /\ d.cancelAsked = c.cancelAsked /\ d.parked = FALSE /\ d.waiting = FALSE
      /\ d.settlement = NoSettlement
  <2>1. {"indoubt", "queued", "discarding"} \subseteq Phases
    BY DEF Phases
  <2>2. n \in Entry /\ n.phase = "queued" /\ n.cancelAsked = c.cancelAsked /\ n.parked = FALSE /\ n.waiting = FALSE
    BY <1>1, <2>1, PlacedIs
  <2>3. /\ d.phase = "discarding" /\ d.cancelAsked = c.cancelAsked /\ d.parked = FALSE /\ d.waiting = FALSE
        /\ d.settlement = NoSettlement
    BY <1>1, <2>1, PlacedIs
  <2> QED
    BY <2>2, <2>3
<1>3. recoverQueuedAfresh(j, c, f, p) =
        CASE p.run = "none" -> IF n.cancelAsked THEN cancelQueuedJob(j, n) ELSE Ignore(n)
          [] Answers(p) \/ p.run = "dead" -> Result(d, {Discard(j, TRUE)})
          [] OTHER -> inDoubt(j, c, f, p)
  BY DEF recoverQueuedAfresh
<1> HIDE DEF n, d
<1>4. CASE p.run = "none" /\ c.cancelAsked
  <2>1. recoverQueuedAfresh(j, c, f, p) = cancelQueuedJob(j, n)
    BY <1>2, <1>3, <1>4 DEF Answers
  <2>2. r = NoRun
    BY <1>4 DEF PresenceStands
  <2>3. \A e \in S : /\ e.kind = "retry" => e.at = "post" /\ e.ev.type = "RetryDue"
                     /\ e.kind = "signal" => e.at \in {"cancel", "post"} /\ (e.at = "post" => e.ev.type = "CancelFailed")
                     /\ e.kind = "reexamine" => LookStands(e, job, r)
    BY DEF SidesStand, SideStands
  <2> QED
    BY <1>2, <1>4, <2>1, <2>2, <2>3, CancelStands
<1>5. CASE p.run = "none" /\ ~c.cancelAsked
  <2>1. recoverQueuedAfresh(j, c, f, p) = Ignore(n)
    BY <1>2, <1>3, <1>5 DEF Answers
  <2>2. EntryStands(j, n, job, r) /\ Idles(n) /\ n.phase \notin Ending
    BY <1>2, <1>5, MainOfPhases DEF EntryStands, Idles, Ending, PresenceStands
  <2>3. SidesStand(n, S, job, r)
    BY <1>2, <1>5 DEF SidesStand, SideStands
  <2> QED
    BY <2>1, <2>2, <2>3, OpenNow, AfterNone
<1>6. CASE Answers(p) \/ p.run = "dead"
  <2>1. recoverQueuedAfresh(j, c, f, p) = Result(d, {Discard(j, TRUE)})
    BY <1>3, <1>6 DEF Answers
  <2>2. SidesStand(d, S, job, r)
    BY <1>1, <1>2 DEF SidesStand, SideStands, LookFits, Ending
  <2> QED
    BY <1>2, <2>1, <2>2, DiscardingStands
<1>7. CASE ~(Answers(p) \/ p.run \in {"none", "dead"})
  <2>1. recoverQueuedAfresh(j, c, f, p) = inDoubt(j, c, f, p)
    BY <1>3, <1>7
  <2> QED
    BY <2>1, InDoubtStands
<1> QED
  BY <1>4, <1>5, <1>6, <1>7

LEMMA FoundRunningStands ==
    ASSUME NEW j, NEW c, Good(c), c.phase \in {"none", "indoubt"}, NEW f \in Finding, ~f.givenUp,
           NEW p \in Presence, NEW S, NEW hs, NEW job, NEW r,
           job.state = "running", PresenceStands(p, job, r),
           EntryStands(j, c, job, r), SidesStand(c, S, job, r),
           ~c.cancelAsked => \A e \in S : e.kind # "reexamine"
    PROVE  OpenAfter(j, recoverRunning(j, c, f, p), S, {}, hs, job, r)
<1> DEFINE n == place(c, f, "running")
           a == [n EXCEPT !.cancelSent = n.cancelAsked]
           b == place(c, f, "indoubt")
           k == [b EXCEPT !.parked = TRUE]
<1>1. c \in Entry /\ c.settlement = NoSettlement /\ ~Requeues(NoSettlement)
  BY UndecidedYet DEF Good, Ending, Requeues, NoSettlement
<1>2. {"running", "indoubt"} \subseteq Phases
  BY DEF Phases
<1>3. /\ n \in Entry /\ n.phase = "running" /\ n.cancelAsked = c.cancelAsked /\ n.parked = FALSE
      /\ n.waiting = FALSE /\ n.settlement = NoSettlement
  BY <1>1, <1>2, PlacedIs
<1>4. /\ b \in Entry /\ b.phase = "indoubt" /\ b.cancelAsked = c.cancelAsked /\ b.waiting = FALSE
      /\ b.settlement = NoSettlement
  BY <1>1, <1>2, PlacedIs
<1>5. recoverRunning(j, c, f, p) =
        CASE p.run = "parked" -> Ignore(k)
          [] Answers(p) /\ p.run # "parked" -> Result(a, {Adopt(j, a)})
          [] p.run = "dead" /\ ValidProof(p.proof) -> cutOff(j, n, p.proof, p.start)
          [] OTHER -> doubtUnlessGivenUp(j, c, f, p)
  BY DEF recoverRunning
<1> HIDE DEF n, b
<1>6. CASE p.run = "parked"
  <2>1. recoverRunning(j, c, f, p) = Ignore(k)
    BY <1>5, <1>6
  <2>2. /\ k.phase = "indoubt" /\ k.cancelAsked = c.cancelAsked /\ k.waiting = FALSE /\ k.settlement = NoSettlement
    BY <1>4 DEF Entry
  <2> HIDE DEF k
  <2>3. EntryStands(j, k, job, r) /\ Idles(k) /\ k.phase \notin Ending
    BY <1>6, <2>2, MainOfPhases DEF EntryStands, Idles, Ending, PresenceStands
  <2>4. SidesStand(k, S, job, r)
    BY <1>1, <2>2 DEF SidesStand, SideStands, LookFits, Ending
  <2> QED
    BY <2>1, <2>3, <2>4, OpenNow, AfterNone
<1>7. CASE Answers(p) /\ p.run # "parked"
  <2> DEFINE d == effectOf(Adopt(j, a), hs)
  <2>1. recoverRunning(j, c, f, p) = Result(a, {Adopt(j, a)})
    BY <1>5, <1>7 DEF Answers
  <2>2. /\ a.phase = "running" /\ a.cancelAsked = c.cancelAsked /\ a.parked = FALSE
        /\ a.waiting = FALSE /\ a.settlement = NoSettlement
    BY <1>3 DEF Entry
  <2> HIDE DEF a, d
  <2>3. d.kind = "follow" /\ d.at \in {"cancel", "start"}
    BY FollowEffect, SMT DEF d
  <2>4. r.proc # "parked"
    BY <1>7 DEF PresenceStands, Answers
  <2>5. EntryStands(j, a, job, r) /\ ~Idles(a) /\ a.phase \notin Ending /\ MainStands(j, d, a, S, job, r)
    BY <2>2, <2>3, <2>4, MainOfPhases DEF EntryStands, Idles, MainStands, FollowStands, Ending
  <2>6. SidesStand(a, S, job, r)
    BY <1>1, <2>2 DEF SidesStand, SideStands, LookFits, Ending
  <2>7. OpenStands(j, a, S, {d}, job, r)
    BY <2>5, <2>6, OpenNow
  <2> QED
    BY <2>1, <2>3, <2>7, AfterMain, SMT DEF SideKinds, d
<1>8. CASE p.run = "dead" /\ ValidProof(p.proof)
  <2>1. recoverRunning(j, c, f, p) = cutOff(j, n, p.proof, p.start)
    BY <1>5, <1>8 DEF Answers
  <2>2. r.proc = "none" /\ (p.start = "never" => Unsent(r))
    BY <1>8 DEF PresenceStands
  <2>3. EntryStands(j, n, job, r)
    BY <1>3 DEF EntryStands
  <2>4. SidesStand(n, S, job, r)
    BY <1>1, <1>3 DEF SidesStand, SideStands, LookFits, Ending
  <2> QED
    BY <1>3, <2>1, <2>2, <2>3, <2>4, CutOffStands
<1>9. CASE ~Answers(p) /\ ~(p.run = "dead" /\ ValidProof(p.proof))
  <2>1. recoverRunning(j, c, f, p) = doubtUnlessGivenUp(j, c, f, p)
    BY <1>5, <1>9 DEF Answers
  <2>2. doubtUnlessGivenUp(j, c, f, p) = inDoubt(j, c, f, p)
    BY DEF doubtUnlessGivenUp
  <2>3. job.state # "absent"
    OBVIOUS
  <2> QED
    BY <2>1, <2>2, <2>3, InDoubtStands
<1> QED
  BY <1>6, <1>7, <1>8, <1>9 DEF Answers

LEMMA RecoveredStands ==
    ASSUME NEW j, NEW c, Good(c), c.phase # "queued", NEW S, NEW M, NEW hs, NEW job, NEW r,
           OpenStands(j, c, S, M, job, r),
           NEW f \in Finding, NEW p \in Presence, FindingStands(f, p, job, r),
           job.state \in {"queued", "running"},
           c.phase = "indoubt" /\ ~c.cancelAsked => \A e \in S : e.kind # "reexamine"
    PROVE  OpenAfter(j, OnRecovered(j, c, f, p), S, M, hs, job, r)
<1>1. /\ EntryStands(j, c, job, r) /\ SidesStand(c, S, job, r) /\ c.phase # "left"
      /\ f.job \in {"away", job.state} /\ ~f.givenUp /\ PresenceStands(p, job, r)
  BY DEF OpenStands, SidesStand, EntryStands, FindingStands
<1>2. CASE c.phase \notin {"none", "indoubt"}
  <2>1. OnRecovered(j, c, f, p) = Ignore(c)
    BY <1>1, <1>2 DEF OnRecovered
  <2> QED
    BY <2>1, AfterNone
<1>3. CASE c.phase \in {"none", "indoubt"}
  <2>1. M = {}
    BY <1>3, MainOfPhases DEF OpenStands, Idles
  <2>2. ~c.cancelAsked => \A e \in S : e.kind # "reexamine"
    BY <1>1, <1>3 DEF SidesStand, SideStands, LookFits
  <2>3. CASE f.job = "queued"
    <3>1. OnRecovered(j, c, f, p) = recoverQueuedAfresh(j, c, f, p)
      BY <1>3, <2>3 DEF OnRecovered, FinalStates
    <3>2. job.state = "queued"
      BY <1>1, <2>3
    <3> QED
      BY <1>1, <1>3, <2>1, <2>2, <3>1, <3>2, FoundQueuedStands
  <2>4. CASE f.job = "running"
    <3>1. OnRecovered(j, c, f, p) = recoverRunning(j, c, f, p)
      BY <1>3, <2>4 DEF OnRecovered, FinalStates
    <3>2. job.state = "running"
      BY <1>1, <2>4
    <3> QED
      BY <1>1, <1>3, <2>1, <2>2, <3>1, <3>2, FoundRunningStands
  <2>5. CASE f.job = "away" /\ p.run = "none" /\ c.phase = "none"
    <3>1. OnRecovered(j, c, f, p) = Ignore(c)
      BY <2>5 DEF OnRecovered, FinalStates
    <3> QED
      BY <3>1, AfterNone
  <2>6. CASE f.job = "away" /\ ~(p.run = "none" /\ c.phase = "none")
    <3>1. OnRecovered(j, c, f, p) = inDoubt(j, c, f, p)
      BY <1>3, <2>6 DEF OnRecovered, FinalStates
    <3>2. job.state # "absent"
      OBVIOUS
    <3> QED
      BY <1>1, <1>3, <2>1, <2>2, <3>1, <3>2, InDoubtStands
  <2> QED
    BY <1>1, <2>3, <2>4, <2>5, <2>6
<1> QED
  BY <1>2, <1>3

JobEvents == {"Admitted", "Recovered", "CancelAsked", "Launched", "LaunchFailed", "LeaseRefused", "Finished",
              "SupervisorLost", "FollowFailed", "StopFailed", "CancelFailed", "MoveFailed", "DiscardFailed",
              "Discarded", "Requeued", "RetryDue"}

Leaving(c, ev) ==
    \/ ev.type \notin JobEvents
    \/ ev.type = "Recovered" /\ (c.phase = "left" \/ ev.f.job \in FinalStates \cup {"no such job"})

-----------------------------------------------------------------------------
(* An answer is taken up. *)

\* What kind of answer the effects of a job that is not over have.
AnswerFits(j, c, E, e, job, r) ==
    /\ ~Leaving(c, e.ev)
    /\ e.kind = "reexamine" => job.state # "absent"
    /\ e.kind \notin SideKinds => Mains(E) = {e} /\ OpenStands(j, c, Sides(E), {e}, job, r)
    /\ e.kind \in SideKinds => SideStands(e, c, Sides(E), job, r)
    /\ c.phase # "left"
    /\ e.kind = "retry" => e.ev.type = "RetryDue"
    /\ e.kind = "signal" => e.ev.type = "CancelFailed"
    /\ e.kind = "reexamine" => e.ev.type = "Recovered"
    /\ e.kind \notin SideKinds => e.ev.type \notin {"Recovered", "Admitted", "CancelAsked"}

LEMMA AnswerKinds ==
    ASSUME NEW j, NEW c, Good(c), NEW E, NEW e \in E, e.at = "post", NEW job, NEW r,
           job.state \in {"absent", "queued", "running"},
           OpenStands(j, c, Sides(E), Mains(E), job, r)
    PROVE  AnswerFits(j, c, E, e, job, r)
<1>1. c.phase # "left" /\ (c.phase # "none" => job.state # "absent")
  BY DEF OpenStands, EntryStands
<1>2. CASE e.kind \notin SideKinds
  <2>1. e \in Mains(E)
    BY <1>2 DEF Mains
  <2>2. Mains(E) = {e}
    BY <2>1 DEF OpenStands
  <2>3. OpenStands(j, c, Sides(E), {e}, job, r)
    BY <2>2
  <2>4. /\ e.kind \in {"launch", "follow", "stop", "discard", "move"}
        /\ e.kind = "launch" => c.phase = "launching" /\ LaunchStands(e, job, r)
        /\ e.kind = "follow" => c.phase = "running" /\ FollowStands(j, e, Sides(E), job, r)
        /\ e.kind = "stop" => c.phase = "stopping" /\ StopStands(j, e, job, r)
        /\ e.kind = "discard" => c.phase = "discarding" /\ DiscardStands(e, r)
        /\ e.kind = "move" => c.phase \in Ending /\ MoveStands(e, c, job)
    BY <2>3, Answering
  <2>5. c.phase # "none"
    BY <2>4 DEF Ending
  <2>6. e.ev.type \in JobEvents \ {"Recovered", "Admitted", "CancelAsked"}
    <3>1. CASE e.kind = "launch"
      BY <2>4, <3>1 DEF LaunchStands, LaunchedStands, JobEvents
    <3>2. CASE e.kind = "follow"
      BY <2>4, <3>2 DEF FollowStands, JobEvents
    <3>3. CASE e.kind = "stop"
      BY <2>4, <3>3 DEF StopStands, JobEvents
    <3>4. CASE e.kind = "discard"
      BY <2>4, <3>4 DEF DiscardStands, JobEvents
    <3>5. CASE e.kind = "move"
      BY <2>4, <3>5 DEF MoveStands, JobEvents
    <3> QED
      BY <2>4, <3>1, <3>2, <3>3, <3>4, <3>5
  <2> QED
    BY <1>1, <1>2, <2>2, <2>3, <2>5, <2>6 DEF AnswerFits, Leaving, SideKinds
<1>3. CASE e.kind \in SideKinds
  <2>1. SideStands(e, c, Sides(E), job, r)
    BY <1>3 DEF OpenStands, Sides
  <2>2. CASE e.kind = "retry"
    BY <1>1, <2>1, <2>2 DEF AnswerFits, SideStands, SideKinds, Leaving, JobEvents
  <2>3. CASE e.kind = "signal"
    <3>1. c.cancelAsked /\ e.ev.type = "CancelFailed"
      BY <2>1, <2>3 DEF SideStands
    <3> QED
      BY <1>1, <2>1, <2>3, <3>1 DEF AnswerFits, SideKinds, Leaving, JobEvents
  <2>4. CASE e.kind = "reexamine"
    <3>1. /\ e.ev.type = "Recovered" /\ e.ev.f.job \in {"away", job.state}
          /\ c.phase # "none"
      BY <2>1, <2>4 DEF SideStands, LookFits, LookStands, FindingStands
    <3> QED
      BY <1>1, <2>1, <2>4, <3>1 DEF AnswerFits, SideKinds, Leaving, JobEvents, FinalStates
  <2> QED
    BY <1>3, <2>2, <2>3, <2>4 DEF SideKinds
<1> QED
  BY <1>2, <1>3

LEMMA EffectHandled ==
    ASSUME NEW j, NEW c, Good(c), ParkedWaits(c), NEW E, NEW e \in E, e.at = "post", NEW hs, NEW job, NEW r \in Run,
           r.end = "cancelled" => r.cancel,
           job.state \in {"absent", "queued", "running"},
           OpenStands(j, c, Sides(E), Mains(E), job, r),
           e.kind = "reexamine" => e.ev.f \in Finding /\ e.ev.p \in Presence
    PROVE  OpenAfter(j, Handler(j, c, e.ev), Sides(E \ {e}), Mains(E \ {e}), hs, job, r)
<1>0. AnswerFits(j, c, E, e, job, r)
  BY AnswerKinds, SMT
<1>1. /\ e.kind = "reexamine" => job.state # "absent"
      /\ e.kind \notin SideKinds => Mains(E) = {e} /\ OpenStands(j, c, Sides(E), {e}, job, r)
      /\ e.kind \in SideKinds => SideStands(e, c, Sides(E), job, r)
      /\ e.kind = "retry" => e.ev.type = "RetryDue"
      /\ e.kind = "signal" => e.ev.type = "CancelFailed"
      /\ e.kind = "reexamine" => e.ev.type = "Recovered"
  BY <1>0 DEF AnswerFits
<1>2. CASE e.kind \notin SideKinds
  <2>1. Sides(E \ {e}) = Sides(E) /\ Mains(E \ {e}) = {}
    <3>1. {e} \ {e} = {}
      OBVIOUS
    <3> QED
      BY <1>1, <1>2, <3>1, PartedLess, SMT
  <2>2. OpenStands(j, c, Sides(E), {e}, job, r)
    BY <1>1, <1>2
  <2>3. e.kind \in {"launch", "follow", "stop", "discard", "move"}
    BY <2>2, Answering
  <2>4. OpenAfter(j, Handler(j, c, e.ev), Sides(E), {}, hs, job, r)
    BY <2>2, <2>3, LaunchAnswered, FollowAnswered, StopAnswered, DiscardAnswered, MoveAnswered
  <2> QED
    BY <2>1, <2>4
<1>3. CASE e.kind \in SideKinds
  <2> DEFINE S == Sides(E) \ {e}
             M == Mains(E)
  <2>1. Sides(E \ {e}) = S /\ Mains(E \ {e}) = M
    BY <1>3, PartedLess
  <2>2. OpenStands(j, c, S, M, job, r)
    BY DropSide
  <2>3. SideStands(e, c, Sides(E), job, r) /\ e \in Sides(E)
    BY <1>1, <1>3 DEF Sides
  <2> SUFFICES OpenAfter(j, Handler(j, c, e.ev), S, M, hs, job, r)
    BY <2>1
  <2>x. \A d \in S : d \in Sides(E) /\ d # e
    OBVIOUS
  <2> HIDE DEF S, M
  <2>4. CASE e.kind = "retry"
    <3>1. Handler(j, c, e.ev) = OnRetryDue(j, c)
      BY <1>1, <2>4 DEF Handler
    <3> QED
      BY <2>2, <3>1, RetryDueStands
  <2>5. CASE e.kind = "signal"
    <3>1. Handler(j, c, e.ev) = OnCancelFailed(j, c)
      BY <1>1, <2>5 DEF Handler
    <3>2. c.cancelAsked
      BY <2>3, <2>5 DEF SideStands
    <3> QED
      BY <2>2, <3>1, <3>2, CancelFailedStands
  <2>6. CASE e.kind = "reexamine"
    <3>1. Handler(j, c, e.ev) = OnRecovered(j, c, e.ev.f, e.ev.p)
      BY <1>1, <2>6 DEF Handler
    <3>2. LookFits(e, c, Sides(E), r) /\ FindingStands(e.ev.f, e.ev.p, job, r)
      BY <2>3, <2>6 DEF SideStands, LookStands
    <3>3. c.phase # "queued" /\ (~c.cancelAsked => \A d \in S : d.kind # "reexamine")
      BY <2>x, <3>2 DEF LookFits
    <3>4. job.state \in {"queued", "running"}
      BY <1>1, <2>6
    <3> QED
      BY <2>2, <2>6, <3>1, <3>2, <3>3, <3>4, RecoveredStands
  <2> QED
    BY <1>3, <2>4, <2>5, <2>6 DEF SideKinds
<1> QED
  BY <1>2, <1>3

LEMMA RecoveredMessages ==
    ASSUME NEW ev, JobMessage(ev), ev.type = "Recovered"
    PROVE  ev.f \in Finding /\ ev.p \in Presence
  BY DEF JobMessage, PlainTypes

-----------------------------------------------------------------------------
(* Every answer that the machine waits for is owed to it. *)

\* A request for an effect of a kind that an entry waits for.
Meets(q, kind, n) ==
    /\ q.kind = IF kind = "follow" THEN "adopt" ELSE kind
    /\ kind \in {"launch", "follow", "stop", "discard", "move", "retry", "reexamine"}
    /\ kind = "discard" => q.queued = TRUE
    /\ kind = "move" => q.settlement = n.settlement

\* What a handler waits for it asked for, or the entry waited for it before and the
\* effect that the message came from is not the one.
OwedAfter(c, h, used) ==
    \A kind \in Owed(h.e) :
        \/ \E q \in h.r : Meets(q, kind, h.e)
        \/ kind \in Owed(c) /\ kind # used /\ (kind = "move" => h.e.settlement = c.settlement)

LEMMA OwedNot ==
    ASSUME NEW c
    PROVE  /\ "none" \notin Owed(c) /\ "signal" \notin Owed(c)
           /\ c.phase # "launching" => "launch" \notin Owed(c)
           /\ c.phase # "running" => "follow" \notin Owed(c)
           /\ c.phase # "stopping" => "stop" \notin Owed(c)
           /\ c.phase # "discarding" => "discard" \notin Owed(c)
           /\ c.phase \notin Ending => "move" \notin Owed(c)
           /\ c.phase # "indoubt" => "reexamine" \notin Owed(c)
  BY DEF Owed, MainOf

LEMMA OwedSame ==
    ASSUME NEW c, NEW used, used \notin Owed(c)
    PROVE  OwedAfter(c, Ignore(c), used)
  BY DEF OwedAfter, Ignore, Result

LEMMA OwedNow ==
    ASSUME NEW c, NEW n, NEW R, NEW used,
           n.armed => (c.armed /\ used # "retry") \/ \E q \in R : q.kind = "retry",
           MainOf(n.phase) # "none" /\ ~Idles(n) =>
              \/ \E q \in R : Meets(q, MainOf(n.phase), n)
              \/ /\ MainOf(n.phase) = MainOf(c.phase) /\ ~Idles(c) /\ used # MainOf(n.phase)
                 /\ MainOf(n.phase) = "move" => n.settlement = c.settlement,
           n.phase = "indoubt" /\ ~n.parked /\ ~n.waiting => \E q \in R : q.kind = "reexamine"
    PROVE  OwedAfter(c, Result(n, R), used)
<1>1. Result(n, R).e = n /\ Result(n, R).r = R
  BY DEF Result
<1> SUFFICES ASSUME NEW kind \in Owed(n)
             PROVE  \/ \E q \in R : Meets(q, kind, n)
                    \/ kind \in Owed(c) /\ kind # used /\ (kind = "move" => n.settlement = c.settlement)
  BY <1>1 DEF OwedAfter
<1>2. CASE kind = MainOf(n.phase) /\ kind # "none" /\ ~Idles(n)
  BY <1>2 DEF Owed
<1>3. CASE kind = "retry" /\ n.armed
  <2>1. \A q : q.kind = "retry" => Meets(q, "retry", n)
    BY DEF Meets
  <2>2. c.armed => "retry" \in Owed(c)
    BY DEF Owed
  <2> QED
    BY <1>3, <2>1, <2>2
<1>4. CASE kind = "reexamine" /\ n.phase = "indoubt" /\ ~n.parked /\ ~n.waiting
  <2>1. \A q : q.kind = "reexamine" => Meets(q, "reexamine", n)
    BY DEF Meets
  <2> QED
    BY <1>4, <2>1
<1> QED
  BY <1>2, <1>3, <1>4 DEF Owed

\* An entry that waits for nothing but a timer.
LEMMA OwedIdle ==
    ASSUME NEW c, NEW n, NEW R, NEW used, n.armed => c.armed, used # "retry",
           n.phase \in {"none", "queued", "left"} \/ (n.phase = "indoubt" /\ n.parked)
    PROVE  OwedAfter(c, Result(n, R), used)
<1>1. MainOf(n.phase) = "none"
  BY DEF MainOf, Ending
<1> QED
  BY <1>1, OwedNow

LEMMA OwedSteps ==
    ASSUME NEW j, NEW c, NEW n \in Entry, NEW used, n.armed = c.armed, used # "retry"
    PROVE  /\ \A st : OwedAfter(c, settle(j, n, st), used)
           /\ OwedAfter(c, cancelQueuedJob(j, n), used)
           /\ \A proof, began : OwedAfter(c, cutOff(j, n, proof, began), used)
           /\ OwedAfter(c, lookAgain(j, n), used)
           /\ ~n.parked => OwedAfter(c, Result([n EXCEPT !.phase = "discarding"], {Discard(j, TRUE)}), used)
<1>1. ASSUME NEW m, m.phase \in {"settling", "cancelling"}, m.armed = n.armed
      PROVE  OwedAfter(c, Result(m, {Move(j, m)}), used)
  <2>1. MainOf(m.phase) = "move"
    BY <1>1, MainOfPhases
  <2>2. Meets(Move(j, m), "move", m)
    BY DEF Meets, Move
  <2>3. Move(j, m) \in {Move(j, m)}
    OBVIOUS
  <2> QED
    BY <1>1, <2>1, <2>2, <2>3, OwedNow
<1>2. ASSUME NEW st
      PROVE  OwedAfter(c, settle(j, n, st), used)
  <2> DEFINE m == [n EXCEPT !.phase = "settling", !.settlement = st, !.release = TRUE]
  <2>1. m.armed = n.armed /\ m.phase = "settling" /\ settle(j, n, st) = Result(m, {Move(j, m)})
    BY DEF Entry, settle
  <2> HIDE DEF m
  <2> QED
    BY <1>1, <2>1, SMT
<1>3. OwedAfter(c, cancelQueuedJob(j, n), used)
  <2> DEFINE m == [n EXCEPT !.phase = "cancelling", !.settlement = cancelQueued, !.release = FALSE]
  <2>1. m.armed = n.armed /\ m.phase = "cancelling" /\ cancelQueuedJob(j, n) = Result(m, {Move(j, m)})
    BY DEF Entry, cancelQueuedJob
  <2> HIDE DEF m
  <2> QED
    BY <1>1, <2>1, SMT
<1>4. ASSUME NEW proof, NEW began
      PROVE  OwedAfter(c, cutOff(j, n, proof, began), used)
  <2> DEFINE st == CutOff(j \in Rerun, n.attempts, proof, began)
             m == [n EXCEPT !.phase = "settling", !.settlement = st, !.release = FALSE]
  <2>1. m.armed = n.armed /\ m.phase = "settling"
    BY DEF Entry
  <2>2. cutOff(j, n, proof, began) = settle(j, n, lostJob) \/ cutOff(j, n, proof, began) = Result(m, {Move(j, m)})
    BY DEF cutOff
  <2> HIDE DEF m
  <2>3. OwedAfter(c, Result(m, {Move(j, m)}), used)
    BY <1>1, <2>1, SMT
  <2> QED
    BY <1>2, <2>2, <2>3
<1>5. OwedAfter(c, lookAgain(j, n), used)
  <2> DEFINE m == [n EXCEPT !.phase = "indoubt", !.holds = TRUE]
             q == Request("reexamine", j)
  <2>1. m.armed = n.armed /\ m.phase = "indoubt" /\ lookAgain(j, n) = Result(m, {q})
    BY DEF Entry, lookAgain
  <2>2. q.kind = "reexamine" /\ q \in {q}
    BY DEF Request
  <2> HIDE DEF m, q
  <2>3. MainOf(m.phase) = "none"
    BY <2>1, MainOfPhases
  <2>4. OwedAfter(c, Result(m, {q}), used)
    BY <2>1, <2>2, <2>3, OwedNow
  <2> QED
    BY <2>1, <2>4
<1>6. OwedAfter(c, Result([n EXCEPT !.phase = "discarding"], {Discard(j, TRUE)}), used)
  <2> DEFINE m == [n EXCEPT !.phase = "discarding"]
             q == Discard(j, TRUE)
  <2>1. m.armed = n.armed /\ m.phase = "discarding"
    BY DEF Entry
  <2>2. Meets(q, "discard", m) /\ q \in {q}
    BY DEF Meets, Discard
  <2> HIDE DEF m, q
  <2>3. MainOf(m.phase) = "discard"
    BY <2>1, MainOfPhases
  <2>4. OwedAfter(c, Result(m, {q}), used)
    BY <2>1, <2>2, <2>3, OwedNow
  <2> QED
    BY <2>4 DEF m, q
<1> QED
  BY <1>2, <1>3, <1>4, <1>5, <1>6

LEMMA OwedWaits ==
    ASSUME NEW j, NEW c, NEW n \in Entry, NEW used, n.armed = c.armed, used # "retry",
           \/ n.phase \in {"queued", "indoubt", "left", "discarding", "unrecorded"}
           \/ n.phase = c.phase /\ ~Idles(c) /\ used # MainOf(n.phase) /\ n.settlement = c.settlement
    PROVE  OwedAfter(c, awaitRetry(j, n), used)
<1> DEFINE m == [n EXCEPT !.waiting = TRUE, !.armed = TRUE]
           R == IF n.armed THEN {} ELSE {Request("retry", j)}
<1>1. m.phase = n.phase /\ m.waiting = TRUE /\ m.settlement = n.settlement /\ awaitRetry(j, n) = Result(m, R)
  BY DEF Entry, awaitRetry
<1>2. c.armed \/ \E q \in R : q.kind = "retry"
  BY DEF Request
<1> HIDE DEF m, R
<1>3. MainOf(m.phase) # "none" /\ ~Idles(m) =>
         MainOf(m.phase) = MainOf(c.phase) /\ ~Idles(c) /\ used # MainOf(m.phase) /\ m.settlement = c.settlement
  <2>1. CASE n.phase \in {"queued", "indoubt", "left", "discarding", "unrecorded"}
    <3>1. n.phase \in {"discarding", "unrecorded"} => Idles(m)
      BY <1>1 DEF Idles
    <3>2. n.phase \in {"queued", "indoubt", "left"} => MainOf(m.phase) = "none"
      BY <1>1 DEF MainOf, Ending
    <3> QED
      BY <2>1, <3>1, <3>2
  <2> QED
    BY <1>1, <2>1
<1>4. OwedAfter(c, Result(m, R), used)
  BY <1>1, <1>2, <1>3, OwedNow
<1> QED
  BY <1>1, <1>4

\* A look at a job.
LEMMA OwedLooks ==
    ASSUME NEW j, NEW c \in Entry, NEW f \in Finding, NEW p, NEW used, used # "retry"
    PROVE  /\ OwedAfter(c, inDoubt(j, c, f, p), used)
           /\ OwedAfter(c, recoverQueuedAfresh(j, c, f, p), used)
           /\ OwedAfter(c, recoverRunning(j, c, f, p), used)
<1> DEFINE n(phase) == place(c, f, phase)
<1>1. ASSUME NEW phase \in Phases
      PROVE  n(phase) \in Entry /\ n(phase).phase = phase /\ n(phase).parked = FALSE /\ n(phase).armed = c.armed
  <2>1. n(phase).armed = c.armed
    BY DEF place, Entry
  <2> QED
    BY <2>1, <1>1, PlacedIs
<1>2. {"indoubt", "queued", "running", "discarding"} \subseteq Phases
  BY DEF Phases
<1> HIDE DEF n
<1>3. OwedAfter(c, inDoubt(j, c, f, p), used)
  <2> DEFINE b == judgeHold(n("indoubt"), p)
             a == awaitRetry(j, b)
             s == signalCancel(j, a.e)
  <2>1. n("indoubt") \in Entry /\ n("indoubt").phase = "indoubt" /\ n("indoubt").armed = c.armed
    BY <1>1, <1>2
  <2>2. b \in Entry /\ b.phase = "indoubt" /\ b.armed = c.armed
    BY <2>1 DEF judgeHold, Entry
  <2> HIDE DEF b
  <2>3. OwedAfter(c, a, used)
    BY <2>2, OwedWaits
  <2>4. a.e \in Entry /\ a.e.phase = "indoubt"
    BY <2>2 DEF awaitRetry, Result, Entry
  <2> HIDE DEF a
  <2>5. /\ s.e.phase = a.e.phase /\ s.e.parked = a.e.parked /\ s.e.waiting = a.e.waiting /\ s.e.armed = a.e.armed
        /\ s.e.settlement = a.e.settlement
    BY <2>4 DEF signalCancel, Ignore, Result, Entry
  <2> HIDE DEF s
  <2>6. Owed(s.e) = Owed(a.e)
    BY <2>5 DEF Owed, Idles
  <2>7. \A q, kind : Meets(q, kind, a.e) => Meets(q, kind, s.e)
    BY <2>5 DEF Meets
  <2>8. Result(s.e, a.r \cup s.r).e = s.e /\ Result(s.e, a.r \cup s.r).r = a.r \cup s.r
    BY DEF Result
  <2>9. OwedAfter(c, Result(s.e, a.r \cup s.r), used)
    BY <2>3, <2>5, <2>6, <2>7, <2>8 DEF OwedAfter
  <2>10. inDoubt(j, c, f, p) \in {Result(s.e, a.r \cup s.r), a}
    BY DEF inDoubt, s, a, b, n
  <2> QED
    BY <2>3, <2>9, <2>10
<1>4. OwedAfter(c, recoverQueuedAfresh(j, c, f, p), used)
  <2>1. OwedAfter(c, Ignore(n("queued")), used)
    BY <1>1, <1>2, OwedIdle DEF Ignore
  <2>2. OwedAfter(c, cancelQueuedJob(j, n("queued")), used)
    BY <1>1, <1>2, OwedSteps
  <2>3. OwedAfter(c, Result(n("discarding"), {Discard(j, TRUE)}), used)
    <3> DEFINE m == n("discarding")
               q == Discard(j, TRUE)
    <3>1. m.armed = c.armed /\ m.phase = "discarding"
      BY <1>1, <1>2
    <3>2. Meets(q, "discard", m) /\ q \in {q}
      BY DEF Meets, Discard
    <3> HIDE DEF m, q
    <3>3. MainOf(m.phase) = "discard"
      BY <3>1, MainOfPhases
    <3>4. OwedAfter(c, Result(m, {q}), used)
      BY <3>1, <3>2, <3>3, OwedNow
    <3> QED
      BY <3>4 DEF m, q
  <2>4. recoverQueuedAfresh(j, c, f, p) \in {Ignore(n("queued")), cancelQueuedJob(j, n("queued")),
            Result(n("discarding"), {Discard(j, TRUE)}), inDoubt(j, c, f, p)}
    BY DEF recoverQueuedAfresh, n, Answers
  <2> QED
    BY <1>3, <2>1, <2>2, <2>3, <2>4
<1>5. OwedAfter(c, recoverRunning(j, c, f, p), used)
  <2> DEFINE a == [n("running") EXCEPT !.cancelSent = n("running").cancelAsked]
             k == [n("indoubt") EXCEPT !.parked = TRUE]
             q == Adopt(j, a)
  <2>1. a.phase = "running" /\ a.armed = c.armed /\ k.phase = "indoubt" /\ k.parked = TRUE /\ k.armed = c.armed
    BY <1>1, <1>2 DEF Entry
  <2>2. recoverRunning(j, c, f, p) \in {Ignore(k), Result(a, {q}), cutOff(j, n("running"), p.proof, p.start),
            settle(j, n("running"), givenUpJob), inDoubt(j, c, f, p)}
    BY DEF recoverRunning, doubtUnlessGivenUp, n, Answers
  <2>3. Meets(q, "follow", a) /\ q \in {q}
    BY DEF Meets, Adopt
  <2> HIDE DEF a, k, q
  <2>4. OwedAfter(c, Ignore(k), used)
    BY <2>1, OwedIdle DEF Ignore
  <2>5. MainOf(a.phase) = "follow"
    BY <2>1, MainOfPhases
  <2>6. OwedAfter(c, Result(a, {q}), used)
    BY <2>1, <2>3, <2>5, OwedNow
  <2>7. OwedAfter(c, cutOff(j, n("running"), p.proof, p.start), used) /\ OwedAfter(c, settle(j, n("running"), givenUpJob), used)
    BY <1>1, <1>2, OwedSteps
  <2> QED
    BY <1>3, <2>2, <2>4, <2>6, <2>7
<1> QED
  BY <1>3, <1>4, <1>5

LEMMA OwedRecovered ==
    ASSUME NEW j, NEW c \in Entry, NEW f \in Finding, NEW p, NEW used, used \in {"none", "reexamine"}
    PROVE  OwedAfter(c, OnRecovered(j, c, f, p), used)
<1>1. used # "retry"
  OBVIOUS
<1>2. c.phase # "indoubt" => OwedAfter(c, Ignore(c), used)
  BY OwedNot, OwedSame
<1>3. OwedAfter(c, inDoubt(j, c, f, p), used) /\ OwedAfter(c, recoverQueuedAfresh(j, c, f, p), used)
      /\ OwedAfter(c, recoverRunning(j, c, f, p), used)
  BY <1>1, OwedLooks
<1>4. NoEntry.armed = FALSE /\ NoEntry.phase = "none"
  BY DEF NoEntry
<1>5. OwedAfter(c, recoverEnded(j, p), used) /\ OwedAfter(c, Ignore(NoEntry), used)
  BY <1>1, <1>4, OwedIdle DEF recoverEnded, Ignore
<1>6. c.phase = "left" => OwedAfter(c, recoverLeft(j, c, p), used)
  <2> DEFINE n == judgeHold(c, p)
  <2>1. c.phase = "left" => n \in Entry /\ n.phase = "left" /\ n.armed = c.armed
    BY DEF judgeHold, Entry
  <2> HIDE DEF n
  <2>2. c.phase = "left" => OwedAfter(c, awaitRetry(j, n), used)
    BY <1>1, <2>1, OwedWaits
  <2>3. recoverLeft(j, c, p) \in {awaitRetry(j, n), Ignore(NoEntry)}
    BY DEF recoverLeft, n
  <2> QED
    BY <1>5, <2>2, <2>3
<1>7. \/ OnRecovered(j, c, f, p) \in {inDoubt(j, c, f, p), recoverQueuedAfresh(j, c, f, p), recoverRunning(j, c, f, p), recoverEnded(j, p)}
      \/ OnRecovered(j, c, f, p) = Ignore(c) /\ c.phase # "indoubt"
      \/ OnRecovered(j, c, f, p) = recoverLeft(j, c, p) /\ c.phase = "left"
  <2>1. CASE c.phase = "queued"
    BY <2>1 DEF OnRecovered
  <2>2. CASE c.phase = "left"
    BY <2>2 DEF OnRecovered
  <2>3. CASE c.phase = "none"
    <3>1. OnRecovered(j, c, f, p) \in {Ignore(c), inDoubt(j, c, f, p), recoverQueuedAfresh(j, c, f, p), recoverRunning(j, c, f, p),
              recoverEnded(j, p)}
      BY <2>3 DEF OnRecovered
    <3> QED
      BY <2>3, <3>1
  <2>4. CASE c.phase = "indoubt"
    <3>1. OnRecovered(j, c, f, p) =
             (CASE f.job = "queued" -> recoverQueuedAfresh(j, c, f, p)
               [] f.job = "running" -> recoverRunning(j, c, f, p)
               [] f.job \in FinalStates \cup {"no such job"} -> recoverEnded(j, p)
               [] f.job = "away" /\ p.run = "none" /\ c.phase = "none" -> Ignore(c)
               [] OTHER -> inDoubt(j, c, f, p))
      BY <2>4 DEF OnRecovered
    <3>2. ~(f.job = "away" /\ p.run = "none" /\ c.phase = "none")
      BY <2>4
    <3> QED
      BY <3>1, <3>2
  <2>5. CASE c.phase \notin {"queued", "left", "none", "indoubt"}
    BY <2>5 DEF OnRecovered
  <2> QED
    BY <2>1, <2>2, <2>3, <2>4, <2>5
<1> QED
  BY <1>2, <1>3, <1>5, <1>6, <1>7

LEMMA OwesInit ==
    ASSUME DaemonInit
    PROVE  OwesInv
<1>1. effects = {} /\ \A k \in Jobs : entry[k] = NoEntry
  BY DEF DaemonInit, Init
<1>2. Owed(NoEntry) = {}
  <2>1. NoEntry.phase = "none" /\ NoEntry.armed = FALSE
    BY DEF NoEntry
  <2> QED
    BY <2>1, MainOfPhases DEF Owed
<1> QED
  BY <1>1, <1>2 DEF OwesInv, OwesOf

\* What becomes of an effect's own answer.
LEMMA UsedBy ==
    ASSUME NEW ev, NEW used, used # "none" => ev.type \in AnswersOf(used)
    PROVE  /\ ev.type \in {"Admitted", "CancelAsked"} => used = "none"
           /\ ev.type \in {"Launched", "LaunchFailed", "LeaseRefused"} => used \in {"none", "launch"}
           /\ ev.type \in {"Finished", "SupervisorLost"} => used \in {"none", "follow", "stop"}
           /\ ev.type = "FollowFailed" => used \in {"none", "follow"}
           /\ ev.type = "StopFailed" => used \in {"none", "stop"}
           /\ ev.type = "CancelFailed" => used \in {"none", "signal"}
           /\ ev.type \in {"MoveFailed", "Requeued"} => used \in {"none", "move"}
           /\ ev.type \in {"DiscardFailed", "Discarded"} => used \in {"none", "discard"}
           /\ ev.type = "Recovered" => used \in {"none", "reexamine"}
           /\ ev.type = "RetryDue" => used \in {"none", "retry"}
<1>1. CASE used = "none"
  BY <1>1
<1>2. CASE used \in {"launch", "follow", "stop", "signal"}
  BY <1>2 DEF AnswersOf
<1>3. CASE used \in {"move", "discard", "retry", "reexamine"}
  BY <1>3 DEF AnswersOf
<1>4. CASE used \notin {"none", "launch", "follow", "stop", "signal", "move", "discard", "retry", "reexamine"}
  BY <1>4 DEF AnswersOf
<1> QED
  BY <1>1, <1>2, <1>3, <1>4

LEMMA OwedCalls ==
    ASSUME NEW j, NEW c \in Entry
    PROVE  /\ \A a : OwedAfter(c, OnAdmitted(c, a), "none")
           /\ \A state : OwedAfter(c, OnCancelAsked(j, c, state), "none")
<1>1. OwedAfter(c, Ignore(c), "none")
  BY OwedNot, OwedSame
<1>2. ASSUME NEW told, NEW a
      PROVE  OwedAfter(c, Ignore(admit(c, told, a)), "none")
  <2>1. CASE c.phase = "none"
    <3>1. admit(c, told, a).phase = "queued" /\ admit(c, told, a).armed = FALSE
      BY <2>1 DEF admit, NoEntry
    <3> HIDE DEF admit
    <3> QED
      BY <3>1, OwedIdle DEF Ignore
  <2>2. CASE c.phase # "none"
    BY <1>1, <2>2 DEF admit
  <2> QED
    BY <2>1, <2>2
<1>3. ASSUME NEW state
      PROVE  OwedAfter(c, OnCancelAsked(j, c, state), "none")
  <2> DEFINE n == IF state = "queued" THEN admit(c, FALSE, 0) ELSE c
             m == markCancel(n)
             s == [m EXCEPT !.cancelSent = TRUE]
  <2>1. n \in Entry
    BY AdmitTyped
  <2>2. OwedAfter(c, Ignore(n), "none")
    BY <1>1, <1>2
  <2>3. n.armed => c.armed
    BY DEF admit, NoEntry
  <2>4. n = c \/ n.phase = "queued"
    BY DEF admit, NoEntry
  <2>5. n.phase = "queued" => n.armed = c.armed \/ n.armed = FALSE
    BY DEF admit, NoEntry
  <2> HIDE DEF n
  <2>6. m \in Entry /\ m.phase = n.phase /\ m.armed = n.armed /\ m.parked = n.parked /\ m.waiting = n.waiting /\ m.settlement = n.settlement
    BY <2>1 DEF markCancel, Entry
  <2> HIDE DEF m
  <2>7. s \in Entry /\ s.phase = n.phase /\ s.armed = n.armed /\ s.parked = n.parked /\ s.waiting = n.waiting /\ s.settlement = n.settlement
    BY <2>6 DEF Entry
  <2> HIDE DEF s
  <2>8. ASSUME NEW k, NEW R, k.phase = n.phase, k.armed = n.armed, k.parked = n.parked, k.waiting = n.waiting, k.settlement = n.settlement
        PROVE  OwedAfter(c, Result(k, R), "none")
    <3>1. Owed(k) = Owed(n)
      BY <2>8 DEF Owed, Idles
    <3>2. Ignore(n).e = n /\ Ignore(n).r = {} /\ Result(k, R).e = k
      BY DEF Ignore, Result
    <3> QED
      BY <2>2, <2>8, <3>1, <3>2 DEF OwedAfter
  <2>9. OwedAfter(c, Ignore(m), "none") /\ OwedAfter(c, signalCancel(j, m), "none")
    BY <2>6, <2>7, <2>8 DEF Ignore, signalCancel, s
  <2>10. n.phase = "queued" => OwedAfter(c, cancelQueuedJob(j, m), "none")
    <3> DEFINE k == [m EXCEPT !.phase = "cancelling", !.settlement = cancelQueued, !.release = FALSE]
    <3>1. k.armed = n.armed /\ k.phase = "cancelling" /\ cancelQueuedJob(j, m) = Result(k, {Move(j, k)})
      BY <2>6 DEF Entry, cancelQueuedJob
    <3>2. Meets(Move(j, k), "move", k) /\ Move(j, k) \in {Move(j, k)}
      BY DEF Meets, Move
    <3> HIDE DEF k
    <3>3. MainOf(k.phase) = "move"
      BY <3>1, MainOfPhases
    <3>4. OwedAfter(c, Result(k, {Move(j, k)}), "none")
      BY <2>3, <3>1, <3>2, <3>3, OwedNow
    <3> QED
      BY <3>1, <3>4
  <2> QED
    BY <2>2, <2>9, <2>10 DEF OnCancelAsked, n, m
<1> QED
  BY <1>2, <1>3 DEF OnAdmitted

LEMMA OwedLaunches ==
    ASSUME NEW j, NEW c \in Entry, NEW used, used \in {"none", "launch"}
    PROVE  /\ OwedAfter(c, OnLaunched(j, c), used)
           /\ \A cause : OwedAfter(c, OnLaunchFailed(j, c, cause), used)
           /\ OwedAfter(c, OnLeaseRefused(j, c), used)
<1>0. used # "retry"
  OBVIOUS
<1>1. c.phase # "launching" => OwedAfter(c, Ignore(c), used)
  BY OwedNot, OwedSame
<1>2. \A st : OwedAfter(c, settle(j, c, st), used)
  BY <1>0, OwedSteps
<1>3. OwedAfter(c, OnLaunched(j, c), used)
  <2> DEFINE n == [c EXCEPT !.phase = "running", !.cancelSent = c.cancelAsked]
             q == Adopt(j, n)
  <2>1. n.phase = "running" /\ n.armed = c.armed
    BY DEF Entry
  <2>2. Meets(q, "follow", n) /\ q \in {q}
    BY DEF Meets, Adopt
  <2> HIDE DEF n, q
  <2>3. MainOf(n.phase) = "follow"
    BY <2>1, MainOfPhases
  <2>4. OwedAfter(c, Result(n, {q}), used)
    BY <1>0, <2>1, <2>2, <2>3, OwedNow
  <2> QED
    BY <1>1, <2>4 DEF OnLaunched, n, q
<1>4. ASSUME NEW cause
      PROVE  OwedAfter(c, OnLaunchFailed(j, c, cause), used)
  <2> DEFINE n == [c EXCEPT !.phase = "indoubt"]
             again == [c EXCEPT !.spawnFailures = @ + 1]
             d == [again EXCEPT !.phase = "discarding"]
             m == [again EXCEPT !.phase = "settling", !.settlement = failedToLaunch, !.release = TRUE]
             q == Discard(j, TRUE)
             o == Move(j, m)
  <2>1. n \in Entry /\ n.phase = "indoubt" /\ n.armed = c.armed
    BY DEF Entry, Phases
  <2>2. d.phase = "discarding" /\ d.armed = c.armed /\ m.phase = "settling" /\ m.armed = c.armed
    BY DEF Entry
  <2>3. settle(j, again, failedToLaunch) = Result(m, {o})
    BY DEF settle
  <2>4. Meets(q, "discard", d) /\ q \in {q} /\ Meets(o, "move", m) /\ o \in {o}
    BY DEF Meets, Discard, Move
  <2>5. \/ OnLaunchFailed(j, c, cause) = Ignore(c) /\ c.phase # "launching"
        \/ OnLaunchFailed(j, c, cause) \in {awaitRetry(j, n), Result(d, {q}), settle(j, again, failedToLaunch)}
        \/ \E st : OnLaunchFailed(j, c, cause) = settle(j, c, st)
    BY DEF OnLaunchFailed
  <2> HIDE DEF n, d, again, m, q, o
  <2>6. OwedAfter(c, awaitRetry(j, n), used)
    BY <1>0, <2>1, OwedWaits
  <2>7. MainOf(d.phase) = "discard" /\ MainOf(m.phase) = "move"
    BY <2>2, MainOfPhases
  <2>8. OwedAfter(c, Result(d, {q}), used)
    BY <1>0, <2>2, <2>4, <2>7, OwedNow
  <2>9. OwedAfter(c, Result(m, {o}), used)
    BY <1>0, <2>2, <2>4, <2>7, OwedNow
  <2> QED
    BY <1>1, <1>2, <2>3, <2>5, <2>6, <2>8, <2>9
<1>5. OwedAfter(c, OnLeaseRefused(j, c), used)
  <2> DEFINE n == [c EXCEPT !.phase = "queued", !.leased = TRUE]
  <2>1. n \in Entry /\ n.phase = "queued" /\ n.armed = c.armed
    BY DEF Entry, Phases
  <2>2. \/ OnLeaseRefused(j, c) = Ignore(c) /\ c.phase # "launching"
        \/ OnLeaseRefused(j, c) \in {settle(j, c, cancelQueued), awaitRetry(j, n)}
    BY DEF OnLeaseRefused
  <2> HIDE DEF n
  <2>3. OwedAfter(c, awaitRetry(j, n), used)
    BY <1>0, <2>1, OwedWaits
  <2> QED
    BY <1>1, <1>2, <2>2, <2>3
<1> QED
  BY <1>3, <1>4, <1>5

LEMMA OwedFollows ==
    ASSUME NEW j, NEW c \in Entry, NEW used
    PROVE  /\ \A o : used \in {"none", "follow", "stop"} => OwedAfter(c, OnFinished(j, c, o), used)
           /\ \A proof, began : used \in {"none", "follow", "stop"} => OwedAfter(c, OnSupervisorLost(j, c, proof, began), used)
           /\ \A cause : used \in {"none", "follow"} => OwedAfter(c, OnFollowFailed(j, c, cause), used)
           /\ used \in {"none", "stop"} => OwedAfter(c, OnStopFailed(j, c), used)
           /\ used \in {"none", "signal"} => OwedAfter(c, OnCancelFailed(j, c), used)
<1>1. used \in {"none", "follow", "stop"} /\ c.phase \notin {"running", "stopping"} => OwedAfter(c, Ignore(c), used)
  BY OwedNot, OwedSame
<1>2. ASSUME used # "retry"
      PROVE  /\ \A st : OwedAfter(c, settle(j, c, st), used)
             /\ \A proof, began : OwedAfter(c, cutOff(j, c, proof, began), used)
             /\ OwedAfter(c, lookAgain(j, c), used)
  BY <1>2, OwedSteps
<1>3. ASSUME NEW o, used \in {"none", "follow", "stop"}
      PROVE  OwedAfter(c, OnFinished(j, c, o), used)
  <2>1. used # "retry"
    BY <1>3
  <2>2. \/ OnFinished(j, c, o) = Ignore(c) /\ c.phase \notin {"running", "stopping"}
        \/ \E st : OnFinished(j, c, o) = settle(j, c, st)
    BY DEF OnFinished
  <2> QED
    BY <1>1, <1>2, <1>3, <2>1, <2>2
<1>4. ASSUME NEW proof, NEW began, used \in {"none", "follow", "stop"}
      PROVE  OwedAfter(c, OnSupervisorLost(j, c, proof, began), used)
  <2>1. used # "retry"
    BY <1>4
  <2>2. \/ OnSupervisorLost(j, c, proof, began) = Ignore(c) /\ c.phase \notin {"running", "stopping"}
        \/ OnSupervisorLost(j, c, proof, began) \in {settle(j, c, lostJob), lookAgain(j, c), cutOff(j, c, proof, began)}
    BY DEF OnSupervisorLost
  <2> QED
    BY <1>1, <1>2, <1>4, <2>1, <2>2
<1>5. ASSUME NEW cause, used \in {"none", "follow"}
      PROVE  OwedAfter(c, OnFollowFailed(j, c, cause), used)
  <2> DEFINE n == [c EXCEPT !.phase = "stopping"]
             q == Request("stop", j)
  <2>1. used # "retry"
    BY <1>5
  <2>2. n.phase = "stopping" /\ n.armed = c.armed
    BY DEF Entry
  <2>3. Meets(q, "stop", n) /\ q \in {q}
    BY DEF Meets, Request
  <2>4. \/ OnFollowFailed(j, c, cause) = Ignore(c) /\ c.phase # "running"
        \/ OnFollowFailed(j, c, cause) \in {lookAgain(j, c), Result(n, {q})}
    BY DEF OnFollowFailed
  <2> HIDE DEF n, q
  <2>5. MainOf(n.phase) = "stop"
    BY <2>2, MainOfPhases
  <2>6. OwedAfter(c, Result(n, {q}), used)
    BY <2>1, <2>2, <2>3, <2>5, OwedNow
  <2>7. c.phase # "running" => OwedAfter(c, Ignore(c), used)
    BY <1>5, OwedNot, OwedSame
  <2> QED
    BY <1>2, <2>1, <2>4, <2>6, <2>7
<1>6. ASSUME used \in {"none", "stop"}
      PROVE  OwedAfter(c, OnStopFailed(j, c), used)
  <2> DEFINE n == [c EXCEPT !.phase = "indoubt", !.holds = TRUE]
  <2>1. n \in Entry /\ n.phase = "indoubt" /\ n.armed = c.armed
    BY DEF Entry, Phases
  <2>2. c.phase # "stopping" => OwedAfter(c, Ignore(c), used)
    BY <1>6, OwedNot, OwedSame
  <2>3. used # "retry"
    BY <1>6
  <2> HIDE DEF n
  <2>4. OwedAfter(c, awaitRetry(j, n), used)
    BY <2>1, <2>3, OwedWaits
  <2> QED
    BY <2>2, <2>4 DEF OnStopFailed, n
<1>7. ASSUME used \in {"none", "signal"}
      PROVE  OwedAfter(c, OnCancelFailed(j, c), used)
  <2> DEFINE n == [c EXCEPT !.cancelSent = FALSE]
  <2>1. n \in Entry /\ n.phase = c.phase /\ n.armed = c.armed /\ n.settlement = c.settlement
    BY DEF Entry
  <2>2. OwedAfter(c, Ignore(c), used)
    BY <1>7, OwedNot, OwedSame
  <2>3. used # "retry" /\ used # "follow"
    BY <1>7
  <2> HIDE DEF n
  <2>4. c.phase = "indoubt" => OwedAfter(c, awaitRetry(j, n), used)
    BY <2>1, <2>3, OwedWaits
  <2>5. c.phase = "running" => OwedAfter(c, awaitRetry(j, n), used)
    <3>1. c.phase = "running" => MainOf(n.phase) = "follow" /\ ~Idles(c)
      BY <2>1, MainOfPhases DEF Idles
    <3> QED
      BY <2>1, <2>3, <3>1, OwedWaits
  <2> QED
    BY <2>2, <2>4, <2>5 DEF OnCancelFailed, n
<1> QED
  BY <1>3, <1>4, <1>5, <1>6, <1>7

LEMMA OwedEnds ==
    ASSUME NEW j, NEW c \in Entry, NEW used
    PROVE  /\ used \in {"none", "move"} => OwedAfter(c, OnMoveFailed(j, c), used)
           /\ used \in {"none", "move"} /\ (used = "move" => Requeues(c.settlement) /\ c.phase # "cancelling") => OwedAfter(c, OnRequeued(j, c), used)
           /\ used \in {"none", "discard"} => OwedAfter(c, OnDiscardFailed(j, c), used)
           /\ used \in {"none", "discard"} => OwedAfter(c, OnDiscarded(j, c), used)
<1>1. ASSUME used \in {"none", "move"}
      PROVE  OwedAfter(c, OnMoveFailed(j, c), used)
  <2> DEFINE n == [c EXCEPT !.phase = "unrecorded"]
  <2>1. n \in Entry /\ n.phase = "unrecorded" /\ n.armed = c.armed
    BY DEF Entry, Phases
  <2>2. c.phase \notin Ending => OwedAfter(c, Ignore(c), used)
    BY <1>1, OwedNot, OwedSame
  <2>3. used # "retry"
    BY <1>1
  <2> HIDE DEF n
  <2>4. OwedAfter(c, awaitRetry(j, n), used)
    BY <2>1, <2>3, OwedWaits
  <2> QED
    BY <2>2, <2>4 DEF OnMoveFailed, n, Ending
<1>2. ASSUME used \in {"none", "move"}, used = "move" => Requeues(c.settlement) /\ c.phase # "cancelling"
      PROVE  OwedAfter(c, OnRequeued(j, c), used)
  <2> DEFINE n == [c EXCEPT !.attempts = @ + 1, !.phase = "discarding",
                            !.settlement = NoSettlement, !.cancelSent = FALSE,
                            !.holds = FALSE, !.holdUntil = "zero"]
             q == Discard(j, TRUE)
  <2>1. n.phase = "discarding" /\ n.armed = c.armed
    BY DEF Entry
  <2>2. Meets(q, "discard", n) /\ q \in {q}
    BY DEF Meets, Discard
  <2>3. used # "retry"
    BY <1>2
  <2>4. used = "none" \/ c.phase \notin Ending => OwedAfter(c, Ignore(c), used)
    BY <1>2, OwedNot, OwedSame
  <2>5. \/ OnRequeued(j, c) = Result(n, {q})
        \/ OnRequeued(j, c) = Ignore(c) /\ ~(c.phase \in {"settling", "unrecorded"} /\ Requeues(c.settlement))
    BY DEF OnRequeued
  <2> HIDE DEF n, q
  <2>6. MainOf(n.phase) = "discard"
    BY <2>1, MainOfPhases
  <2>7. OwedAfter(c, Result(n, {q}), used)
    BY <2>1, <2>2, <2>3, <2>6, OwedNow
  <2>8. used # "none" /\ ~(c.phase \in {"settling", "unrecorded"} /\ Requeues(c.settlement)) => c.phase \notin Ending
    BY <1>2 DEF Ending
  <2> QED
    BY <2>4, <2>5, <2>7, <2>8
<1>3. ASSUME used \in {"none", "discard"}
      PROVE  OwedAfter(c, OnDiscardFailed(j, c), used)
  <2>1. c.phase # "discarding" => OwedAfter(c, Ignore(c), used)
    BY <1>3, OwedNot, OwedSame
  <2>2. used # "retry"
    BY <1>3
  <2>3. c.phase = "discarding" => OwedAfter(c, awaitRetry(j, c), used)
    BY <2>2, OwedWaits
  <2> QED
    BY <2>1, <2>3 DEF OnDiscardFailed
<1>4. ASSUME used \in {"none", "discard"}
      PROVE  OwedAfter(c, OnDiscarded(j, c), used)
  <2> DEFINE n == [c EXCEPT !.phase = "queued"]
  <2>1. n \in Entry /\ n.phase = "queued" /\ n.armed = c.armed
    BY DEF Entry, Phases
  <2>2. c.phase # "discarding" => OwedAfter(c, Ignore(c), used)
    BY <1>4, OwedNot, OwedSame
  <2>3. used # "retry"
    BY <1>4
  <2>4. \/ OnDiscarded(j, c) = Ignore(c) /\ c.phase # "discarding"
        \/ OnDiscarded(j, c) \in {cancelQueuedJob(j, n), Ignore(n)}
    BY DEF OnDiscarded
  <2> HIDE DEF n
  <2>5. OwedAfter(c, cancelQueuedJob(j, n), used)
    BY <2>1, <2>3, OwedSteps
  <2>6. OwedAfter(c, Ignore(n), used)
    BY <2>1, <2>3, OwedIdle DEF Ignore
  <2> QED
    BY <2>2, <2>4, <2>5, <2>6
<1> QED
  BY <1>1, <1>2, <1>3, <1>4

LEMMA OwedRetries ==
    ASSUME NEW j, NEW c \in Entry, NEW used, used \in {"none", "retry"}
    PROVE  OwedAfter(c, OnRetryDue(j, c), used)
<1> DEFINE n == [c EXCEPT !.armed = FALSE, !.waiting = FALSE]
           l == [n EXCEPT !.leased = FALSE]
           s == [n EXCEPT !.cancelSent = TRUE]
           m == MainOf(c.phase)
<1>1. /\ n \in Entry /\ n.phase = c.phase /\ n.armed = FALSE /\ n.waiting = FALSE /\ n.settlement = c.settlement /\ n.parked = c.parked
      /\ l.phase = c.phase /\ l.armed = FALSE /\ s.phase = c.phase /\ s.armed = FALSE /\ s.settlement = c.settlement
  BY DEF Entry
<1>2. OnRetryDue(j, c) =
        (CASE ~c.waiting -> Ignore(n)
          [] c.waiting /\ c.phase = "unrecorded" -> Result(n, {Move(j, n)})
          [] c.waiting /\ c.phase \in {"indoubt", "left"} -> Result(n, {Request("reexamine", j)})
          [] c.waiting /\ c.phase = "discarding" -> Result(n, {Discard(j, TRUE)})
          [] c.waiting /\ c.phase = "running" -> signalCancel(j, n)
          [] c.waiting /\ c.phase = "queued" -> Ignore(l)
          [] OTHER -> Ignore(n))
  BY DEF OnRetryDue
<1>3. signalCancel(j, n) \in {Result(s, {Request("signal", j)}), Ignore(n)}
  BY DEF signalCancel
<1>4. m \notin {"retry", "reexamine"}
  BY DEF MainOf, Ending
<1> HIDE DEF n, l, s
<1>5. m # "none" => m # used
  BY <1>4
<1>6. CASE ~c.waiting
  <2>1. ~Idles(n) => ~Idles(c)
    BY <1>1, <1>6 DEF Idles
  <2>2. Owed(n) \subseteq Owed(c) \ {"retry", "none"}
    BY <1>1, <1>4, <1>6, <2>1 DEF Owed
  <2>3. Ignore(n).e = n
    BY DEF Ignore, Result
  <2>4. OwedAfter(c, Ignore(n), used)
    BY <1>1, <2>2, <2>3 DEF OwedAfter
  <2> QED
    BY <1>2, <1>6, <2>4
<1>7. CASE c.waiting /\ c.phase \in {"unrecorded", "indoubt", "left", "discarding"}
  <2> DEFINE q == Move(j, n)
             a == Request("reexamine", j)
             d == Discard(j, TRUE)
  <2>1. Meets(q, "move", n) /\ Meets(d, "discard", n) /\ a.kind = "reexamine"
    BY DEF Meets, Move, Discard, Request
  <2> HIDE DEF q, a, d
  <2>2. c.phase = "unrecorded" => OwedAfter(c, Result(n, {q}), used)
    <3>1. c.phase = "unrecorded" => MainOf(n.phase) = "move"
      BY <1>1, MainOfPhases
    <3>2. q \in {q}
      OBVIOUS
    <3> QED
      BY <1>1, <2>1, <3>1, <3>2, OwedNow
  <2>3. c.phase = "discarding" => OwedAfter(c, Result(n, {d}), used)
    <3>1. c.phase = "discarding" => MainOf(n.phase) = "discard"
      BY <1>1, MainOfPhases
    <3>2. d \in {d}
      OBVIOUS
    <3> QED
      BY <1>1, <2>1, <3>1, <3>2, OwedNow
  <2>4. c.phase \in {"indoubt", "left"} => OwedAfter(c, Result(n, {a}), used)
    <3>1. c.phase \in {"indoubt", "left"} => MainOf(n.phase) = "none"
      BY <1>1 DEF MainOf, Ending
    <3>2. a \in {a}
      OBVIOUS
    <3> QED
      BY <1>1, <2>1, <3>1, <3>2, OwedNow
  <2> QED
    BY <1>2, <1>7, <2>2, <2>3, <2>4 DEF q, a, d
<1>8. CASE c.waiting /\ c.phase \notin {"unrecorded", "indoubt", "left", "discarding"}
  <2>1. m # "none" => ~Idles(c)
    BY <1>8 DEF Idles
  <2>2. ASSUME NEW k, NEW R, k.phase = c.phase, k.armed = FALSE, c.phase = "queued" \/ k.settlement = c.settlement
        PROVE  OwedAfter(c, Result(k, R), used)
    <3>1. c.phase = "queued" => m = "none"
      BY MainOfPhases
    <3>2. MainOf(k.phase) = m
      BY <2>2
    <3>3. MainOf(k.phase) # "none" => ~Idles(c) /\ used # MainOf(k.phase) /\ MainOf(k.phase) = MainOf(c.phase) /\ k.settlement = c.settlement
      BY <1>5, <2>1, <2>2, <3>1, <3>2
    <3>4. k.phase # "indoubt"
      BY <1>8, <2>2
    <3> QED
      BY <2>2, <3>3, <3>4, OwedNow
  <2>3. OwedAfter(c, Ignore(n), used) /\ OwedAfter(c, Result(s, {Request("signal", j)}), used)
    BY <1>1, <2>2 DEF Ignore
  <2>4. c.phase = "queued" => OwedAfter(c, Ignore(l), used)
    BY <1>1, <2>2 DEF Ignore
  <2>5. OnRetryDue(j, c) \in {signalCancel(j, n), Ignore(n)} \/ (c.phase = "queued" /\ OnRetryDue(j, c) = Ignore(l))
    BY <1>2, <1>8
  <2> QED
    BY <1>3, <2>3, <2>4, <2>5
<1> QED
  BY <1>6, <1>7, <1>8

\* The message that the machine takes up, and the effect that brought it.
LEMMA OwedHandler ==
    ASSUME NEW j, NEW c, Good(c), NEW ev, JobMessage(ev), NEW used, used # "none" => ev.type \in AnswersOf(used),
           used = "move" /\ ev.type = "Requeued" => Requeues(c.settlement)
    PROVE  OwedAfter(c, Handler(j, c, ev), used)
<1>1. c \in Entry /\ (Requeues(c.settlement) => c.phase # "cancelling") /\ (ev.type = "Recovered" => ev.f \in Finding)
  <2>1. Requeues(c.settlement) => c.phase # "cancelling"
    BY SettlementsAre DEF Good, CoherentEntry
  <2> QED
    BY <2>1, RecoveredMessages DEF Good
<1>2. CASE ev.type \in {"Admitted", "CancelAsked"}
  <2>1. used = "none"
    BY <1>2, UsedBy
  <2> QED
    BY <1>1, <1>2, <2>1, OwedCalls DEF Handler
<1>3. CASE ev.type = "Recovered"
  <2>1. used \in {"none", "reexamine"}
    BY <1>3, UsedBy
  <2>2. OwedAfter(c, OnRecovered(j, c, ev.f, ev.p), used)
    BY <1>1, <1>3, <2>1, OwedRecovered, SMT
  <2> QED
    BY <1>3, <2>2 DEF Handler
<1>4. CASE ev.type \in {"Launched", "LaunchFailed", "LeaseRefused"}
  <2>1. used \in {"none", "launch"}
    BY <1>4, UsedBy
  <2>2. OwedAfter(c, OnLaunched(j, c), used) /\ OwedAfter(c, OnLaunchFailed(j, c, ev.cause), used) /\ OwedAfter(c, OnLeaseRefused(j, c), used)
    BY <1>1, <2>1, OwedLaunches, SMT
  <2> QED
    BY <1>4, <2>2 DEF Handler
<1>5. CASE ev.type \in {"Finished", "SupervisorLost", "FollowFailed", "StopFailed", "CancelFailed"}
  <2>1. /\ ev.type \in {"Finished", "SupervisorLost"} => used \in {"none", "follow", "stop"}
        /\ ev.type = "FollowFailed" => used \in {"none", "follow"}
        /\ ev.type = "StopFailed" => used \in {"none", "stop"}
        /\ ev.type = "CancelFailed" => used \in {"none", "signal"}
    BY UsedBy
  <2>2. /\ \A o : used \in {"none", "follow", "stop"} => OwedAfter(c, OnFinished(j, c, o), used)
        /\ \A proof, began : used \in {"none", "follow", "stop"} => OwedAfter(c, OnSupervisorLost(j, c, proof, began), used)
        /\ \A cause : used \in {"none", "follow"} => OwedAfter(c, OnFollowFailed(j, c, cause), used)
        /\ used \in {"none", "stop"} => OwedAfter(c, OnStopFailed(j, c), used)
        /\ used \in {"none", "signal"} => OwedAfter(c, OnCancelFailed(j, c), used)
    BY <1>1, OwedFollows
  <2>3. CASE ev.type \in {"Finished", "SupervisorLost"}
    <3>1. (\A o : OwedAfter(c, OnFinished(j, c, o), used)) /\ \A proof, began : OwedAfter(c, OnSupervisorLost(j, c, proof, began), used)
      BY <2>1, <2>2, <2>3, SMT
    <3> QED
      BY <2>3, <3>1 DEF Handler
  <2>5. CASE ev.type = "FollowFailed"
    <3>1. \A cause : OwedAfter(c, OnFollowFailed(j, c, cause), used)
      BY <2>1, <2>2, <2>5, SMT
    <3> QED
      BY <2>5, <3>1 DEF Handler
  <2>6. CASE ev.type \in {"StopFailed", "CancelFailed"}
    BY <2>1, <2>2, <2>6 DEF Handler
  <2> QED
    BY <1>5, <2>3, <2>5, <2>6
<1>6. CASE ev.type \in {"MoveFailed", "Requeued", "DiscardFailed", "Discarded"}
  <2>1. /\ ev.type \in {"MoveFailed", "Requeued"} => used \in {"none", "move"}
        /\ ev.type \in {"DiscardFailed", "Discarded"} => used \in {"none", "discard"}
    BY UsedBy
  <2> QED
    BY <1>1, <1>6, <2>1, OwedEnds DEF Handler
<1>7. CASE ev.type = "RetryDue"
  <2>1. used \in {"none", "retry"}
    BY <1>7, UsedBy
  <2>2. OwedAfter(c, OnRetryDue(j, c), used)
    BY <1>1, <2>1, OwedRetries, SMT
  <2> QED
    BY <1>7, <2>2 DEF Handler
<1>8. CASE ev.type \notin JobEvents
  <2>1. Handler(j, c, ev) = Ignore(NoEntry)
    BY <1>8 DEF Handler, JobEvents
  <2>2. NoEntry.phase = "none" /\ NoEntry.armed = FALSE
    BY DEF NoEntry
  <2>3. Owed(NoEntry) = {}
    BY <2>2, MainOfPhases DEF Owed
  <2>4. Ignore(NoEntry).e = NoEntry
    BY DEF Ignore, Result
  <2> QED
    BY <2>1, <2>3, <2>4 DEF OwedAfter
<1> QED
  BY <1>2, <1>3, <1>4, <1>5, <1>6, <1>7, <1>8 DEF JobEvents

\* A request that meets what an entry waits for becomes an effect that pays it.
LEMMA MeetsPays ==
    ASSUME NEW q, NEW kind, NEW n, NEW hs, Meets(q, kind, n)
    PROVE  effectOf(q, hs).kind = kind /\ Pays(effectOf(q, hs), n)
<1> DEFINE d == effectOf(q, hs)
<1>1. CASE kind \in {"launch", "follow", "stop", "retry", "reexamine"}
  <2>1. d.kind = kind
    BY <1>1 DEF Meets, effectOf, Effect
  <2> HIDE DEF d
  <2>2. d.kind # "discard" /\ d.kind # "move"
    BY <1>1, <2>1
  <2>3. Pays(d, n)
    BY <2>2 DEF Pays
  <2> QED
    BY <2>1, <2>3 DEF d
<1>2. CASE kind = "discard"
  <2>1. q.kind = "discard" /\ q.queued = TRUE
    BY <1>2 DEF Meets
  <2>2. d.kind = "discard" /\ d.flag = TRUE
    BY <2>1 DEF effectOf, Effect
  <2> HIDE DEF d
  <2>3. Pays(d, n)
    BY <2>2 DEF Pays
  <2> QED
    BY <1>2, <2>2, <2>3 DEF d
<1>3. CASE kind = "move"
  <2>1. q.kind = "move" /\ q.settlement = n.settlement
    BY <1>3 DEF Meets
  <2>2. d.kind = "move" /\ d.settlement = n.settlement
    BY <2>1 DEF effectOf, Effect
  <2> HIDE DEF d
  <2>3. Pays(d, n)
    BY <2>2 DEF Pays
  <2> QED
    BY <1>3, <2>2, <2>3 DEF d
<1> QED
  BY <1>1, <1>2, <1>3 DEF Meets

\* After the handler.
LEMMA HandlerOwes ==
    ASSUME NEW c, NEW h, NEW used, OwedAfter(c, h, used), NEW E, NEW D, NEW hs, OwesOf(c, E),
           \A e \in E : e \in D \/ e.kind = used \/ ~Pays(e, c) \/ e.kind \notin Owed(c)
    PROVE  OwesOf(h.e, D \cup New(h.r, hs))
<1> SUFFICES ASSUME NEW kind \in Owed(h.e)
             PROVE  \E e \in D \cup New(h.r, hs) : e.kind = kind /\ Pays(e, h.e)
  BY DEF OwesOf
<1>1. CASE \E q \in h.r : Meets(q, kind, h.e)
  <2>1. PICK q \in h.r : Meets(q, kind, h.e)
    BY <1>1
  <2>2. effectOf(q, hs).kind = kind /\ Pays(effectOf(q, hs), h.e)
    BY <2>1, MeetsPays
  <2>3. effectOf(q, hs) \in New(h.r, hs)
    BY DEF New
  <2> QED
    BY <2>2, <2>3
<1>2. CASE kind \in Owed(c) /\ kind # used /\ (kind = "move" => h.e.settlement = c.settlement)
  <2>1. PICK e \in E : e.kind = kind /\ Pays(e, c)
    BY <1>2 DEF OwesOf
  <2>2. e \in D
    BY <1>2, <2>1
  <2>3. Pays(e, h.e)
    BY <1>2, <2>1 DEF Pays
  <2> QED
    BY <2>1, <2>2, <2>3
<1> QED
  BY <1>1, <1>2 DEF OwedAfter

LEMMA TurnsOwes ==
    ASSUME Shaped, OwesInv, NEW e \in effects, Turns(e)
    PROVE  OwesInv'
<1>1. entry' = entry
  BY DEF Turns
<1>2. ASSUME NEW k \in Jobs, NEW kind \in Owed(entry[k])
      PROVE  \E x \in Mine(k)' : x.kind = kind /\ Pays(x, entry[k])
  <2>1. PICK x \in Mine(k) : x.kind = kind /\ Pays(x, entry[k])
    BY <1>2 DEF OwesInv, OwesOf
  <2>2. x \in effects /\ x.job = k
    BY <2>1 DEF Mine
  <2>3. CASE x = e
    <3>1. e.kind # "signal"
      BY <1>2, <2>1, <2>3, OwedNot
    <3>2. PICK d : Goes(e, d) /\ effects' = (effects \ {e}) \cup {d}
      BY <3>1 DEF Turns, Onward
    <3>3. d.kind = kind /\ d.job = k /\ Pays(d, entry[k])
      BY <2>1, <2>2, <2>3, <3>2 DEF Goes, Pays
    <3>4. d \in Mine(k)'
      BY <3>2, <3>3 DEF Mine
    <3> QED
      BY <3>3, <3>4
  <2>4. CASE x # e
    <3>1. x \in effects'
      BY <2>2, <2>4 DEF Turns, Onward
    <3>2. x \in Mine(k)'
      BY <2>2, <3>1 DEF Mine
    <3> QED
      BY <2>1, <3>2
  <2> QED
    BY <2>3, <2>4
<1>3. \A x \in effects' : TellsMoved(x)
  BY DEF Turns, Onward, OwesInv
<1> QED
  BY <1>1, <1>2, <1>3 DEF OwesInv, OwesOf

-----------------------------------------------------------------------------
(* The scheduler, at the end of every step of the machine. *)

LEMMA TameNew ==
    ASSUME NEW q, NEW hs, NEW r, q.kind = "adopt" => r.proc # "parked"
    PROVE  Tame(effectOf(q, hs), r)
<1> DEFINE d == effectOf(q, hs)
<1>1. q.kind = "launch" => d.kind = "launch" /\ d.at = "read"
  BY DEF effectOf, Effect
<1>2. q.kind = "adopt" => d.kind = "follow"
  BY DEF effectOf, Effect
<1>3. q.kind \in {"signal", "stop", "move", "discard", "retry"} => d.kind = q.kind
  BY DEF effectOf, Effect
<1>4. q.kind \notin {"launch", "adopt", "signal", "stop", "move", "discard", "retry"} => d.kind = "reexamine" /\ d.at = "look"
  BY DEF effectOf, Effect
<1> HIDE DEF d
<1>5. Tame(d, r)
  BY <1>1, <1>2, <1>3, <1>4 DEF Tame
<1> QED
  BY <1>5 DEF d

\* What it makes of a job: it leaves it, adopts its run, or launches it.  Q is what
\* it asks for.
Scheduled(j, c, n, Q) ==
    \/ n = c /\ Q = {} /\ ParkedWaits(c)
    \/ c.parked /\ n = adopt(c) /\ Q = {Adopt(j, n)}
    \/ c.phase = "queued" /\ ~c.leased /\ n = [c EXCEPT !.phase = "launching"] /\ Q = {Request("launch", j)}

LEMMA AdoptIs ==
    ASSUME NEW c, Good(c), c.parked
    PROVE  /\ c.phase = "indoubt" /\ c.settlement = NoSettlement /\ ~c.holds
           /\ adopt(c).phase = "running" /\ adopt(c).parked = FALSE /\ adopt(c).cancelAsked = c.cancelAsked
           /\ adopt(c).waiting = c.waiting /\ adopt(c).settlement = c.settlement /\ adopt(c).holds = c.holds
           /\ adopt(c).holdUntil = "zero" /\ adopt(c).leased = c.leased /\ adopt(c).told = c.told
           /\ adopt(c) \in Entry
<1>1. c.phase = "indoubt" /\ c.settlement = NoSettlement /\ ~c.holds
  BY UndecidedYet DEF Good, CoherentEntry, Ending
<1> QED
  BY <1>1 DEF adopt, Good, Entry, Phases

\* One job after the scheduler.
LEMMA ScheduleOne ==
    ASSUME NEW en, AllGood(en), NEW rec, NEW un, NEW j \in Jobs
    PROVE  LET c == en[j]
               n == schedule(en, rec, un)[j]
           IN  \/ n = c /\ ParkedWaits(c)
               \/ c.parked /\ n = adopt(c)
               \/ c.phase = "queued" /\ ~c.leased /\ ~c.parked /\ n = [c EXCEPT !.phase = "launching"]
<1> DEFINE c == en[j]
           a == adoptCancelled(en)
           z == startAdmitted(a, un)
<1>0. Good(c)
  BY DEF AllGood
<1>1. \/ a[j] = c /\ ParkedWaits(c)
      \/ c.parked /\ a[j] = adopt(c)
  BY DEF adoptCancelled, ParkedWaits
<1>2. c.parked => adopt(c).phase = "running" /\ adopt(c).parked = FALSE
  BY <1>0, AdoptIs
<1>3. c.parked => c.phase # "queued"
  BY <1>0 DEF Good, CoherentEntry
<1>4. z[j] = a[j] \/ (j \in Candidates(a, un) /\ MayStart(a, un, j) /\ z[j] = start(a[j]))
  BY DEF startAdmitted
<1>5. j \in Candidates(a, un) => a[j].parked \/ a[j].phase = "queued"
  BY DEF Candidates
<1>6. MayStart(a, un, j) => ~a[j].leased
  BY DEF MayStart
<1>7. schedule(en, rec, un) = a \/ schedule(en, rec, un) = z
  BY DEF schedule
<1> HIDE DEF c, a, z
<1>8. \/ z[j] = a[j]
      \/ a[j].parked /\ z[j] = adopt(a[j])
      \/ a[j].phase = "queued" /\ ~a[j].leased /\ ~a[j].parked /\ z[j] = [a[j] EXCEPT !.phase = "launching"]
  BY <1>4, <1>5, <1>6 DEF start
<1>9. \A n \in {a[j], z[j]} :
         \/ n = c /\ ParkedWaits(c)
         \/ c.parked /\ n = adopt(c)
         \/ c.phase = "queued" /\ ~c.leased /\ ~c.parked /\ n = [c EXCEPT !.phase = "launching"]
  BY <1>1, <1>2, <1>8
<1> QED
  BY <1>7, <1>9 DEF c

LEMMA ScheduleShape ==
    ASSUME NEW en, AllGood(en), NEW rec, NEW un, NEW j \in Jobs, NEW sch, sch = schedule(en, rec, un)
    PROVE  Scheduled(j, en[j], sch[j], {q \in scheduleRequests(en, sch) : q.job = j})
<1> DEFINE c == en[j]
           n == sch[j]
           Q == {q \in scheduleRequests(en, sch) : q.job = j}
<1>0. Good(c)
  BY DEF AllGood
<1>1. \/ n = c /\ ParkedWaits(c)
      \/ c.parked /\ n = adopt(c)
      \/ c.phase = "queued" /\ ~c.leased /\ ~c.parked /\ n = [c EXCEPT !.phase = "launching"]
  BY ScheduleOne, SMT
<1>2. Q = {q \in {Adopt(j, n)} : c.parked /\ ~n.parked} \cup {q \in {Request("launch", j)} : c.phase = "queued" /\ n.phase = "launching"}
  <2>1. \A i : Adopt(i, sch[i]).job = i /\ Request("launch", i).job = i
    BY DEF Adopt, Request
  <2> QED
    BY <2>1, SMT DEF scheduleRequests
<1>3. c.parked => c.phase = "indoubt" /\ adopt(c).phase = "running" /\ adopt(c).parked = FALSE
  BY <1>0, AdoptIs
<1>4. c.phase = "queued" => [c EXCEPT !.phase = "launching"].phase = "launching" /\ [c EXCEPT !.phase = "launching"].parked = c.parked
  BY <1>0 DEF Good, Entry
<1> HIDE DEF c, n, Q
<1>5. CASE n = c /\ ParkedWaits(c)
  <2>1. Q = {}
    BY <1>2, <1>5
  <2> QED
    BY <1>5, <2>1 DEF Scheduled, c, n, Q
<1>6. CASE c.parked /\ n = adopt(c)
  <2>1. Q = {Adopt(j, n)}
    BY <1>2, <1>3, <1>6
  <2> QED
    BY <1>6, <2>1 DEF Scheduled, c, n, Q
<1>7. CASE c.phase = "queued" /\ ~c.leased /\ ~c.parked /\ n = [c EXCEPT !.phase = "launching"]
  <2>1. Q = {Request("launch", j)}
    BY <1>2, <1>4, <1>7
  <2> QED
    BY <1>7, <2>1 DEF Scheduled, c, n, Q
<1> QED
  BY <1>1, <1>5, <1>6, <1>7

\* What the scheduler does keeps what stands of a job.
LEMMA AdoptedStands ==
    ASSUME NEW j, NEW c, Good(c), c.parked, NEW S, NEW M, NEW hs, NEW job, NEW r, OpenStands(j, c, S, M, job, r)
    PROVE  M = {} /\ OpenStands(j, adopt(c), S, {effectOf(Adopt(j, adopt(c)), hs)}, job, r)
<1> DEFINE n == adopt(c)
           d == effectOf(Adopt(j, n), hs)
<1>1. /\ c.phase = "indoubt" /\ c.settlement = NoSettlement
      /\ n.phase = "running" /\ n.parked = FALSE /\ n.cancelAsked = c.cancelAsked
      /\ n.waiting = c.waiting /\ n.settlement = c.settlement
  BY AdoptIs
<1> HIDE DEF n
<1>2. d.kind = "follow" /\ d.at = IF n.cancelAsked THEN "cancel" ELSE "start"
  BY FollowEffect, SMT DEF d
<1> HIDE DEF d
<1>3. Idles(c) /\ ~Idles(n) /\ MainOf(n.phase) = "follow" /\ n.phase \notin Ending
  BY <1>1, MainOfPhases DEF Idles, Ending
<1>4. M = {}
  BY <1>3 DEF OpenStands
<1>5. EntryStands(j, c, job, r) /\ SidesStand(c, S, job, r)
  BY DEF OpenStands, SidesStand
<1>6. EntryStands(j, n, job, r)
  BY <1>1, <1>5 DEF EntryStands
<1>7. ~n.cancelAsked => \A e \in S : e.kind # "reexamine"
  BY <1>1, <1>5 DEF SidesStand, SideStands, LookFits
<1>8. SidesStand(n, S, job, r)
  <2>1. ~Requeues(NoSettlement)
    BY DEF Requeues, NoSettlement
  <2>2. \A e \in S : e.kind = "reexamine" => LookFits(e, n, S, r)
    BY <1>1, <1>7, <2>1 DEF LookFits, Ending
  <2> QED
    BY <1>1, <1>5, <2>2, SidesTurn
<1>9. MainStands(j, d, n, S, job, r)
  BY <1>2, <1>3, <1>5, <1>7 DEF MainStands, FollowStands, EntryStands
<1>10. OpenStands(j, n, S, {d}, job, r)
  BY <1>3, <1>6, <1>8, <1>9, OpenNow
<1> QED
  BY <1>4, <1>10 DEF n, d

LEMMA LaunchingStands ==
    ASSUME NEW j, NEW c, Good(c), c.phase = "queued", ~c.leased, NEW S, NEW M, NEW hs, NEW job, NEW r, OpenStands(j, c, S, M, job, r)
    PROVE  M = {} /\ OpenStands(j, [c EXCEPT !.phase = "launching"], S, {effectOf(Request("launch", j), hs)}, job, r)
<1> DEFINE n == [c EXCEPT !.phase = "launching"]
           d == effectOf(Request("launch", j), hs)
<1>1. /\ n.phase = "launching" /\ n.parked = c.parked /\ n.cancelAsked = c.cancelAsked
      /\ n.waiting = c.waiting /\ n.settlement = c.settlement
  BY DEF Good, Entry
<1>0. ~c.parked
  BY DEF Good, CoherentEntry
<1> HIDE DEF n
<1>2. d.kind = "launch" /\ d.at = "read"
  BY PlainEffects, SMT DEF d
<1> HIDE DEF d
<1>3. Idles(c) /\ ~Idles(n) /\ MainOf(n.phase) = "launch" /\ n.phase \notin Ending
  BY <1>1, MainOfPhases DEF Idles, Ending
<1>4. M = {}
  BY <1>3 DEF OpenStands
<1>5. EntryStands(j, c, job, r) /\ SidesStand(c, S, job, r)
  BY DEF OpenStands, SidesStand
<1>6. EntryStands(j, n, job, r)
  BY <1>0, <1>1, <1>5 DEF EntryStands
<1>7. \A e \in S : e.kind # "reexamine"
  BY <1>5 DEF SidesStand, SideStands, LookFits
<1>8. SidesStand(n, S, job, r)
  BY <1>1, <1>5, <1>7, SidesTurn
<1>9. MainStands(j, d, n, S, job, r)
  BY <1>2, <1>3, <1>5 DEF MainStands, LaunchStands, EntryStands
<1>10. OpenStands(j, n, S, {d}, job, r)
  BY <1>3, <1>6, <1>8, <1>9, OpenNow
<1> QED
  BY <1>4, <1>10 DEF n, d

LEMMA ScheduledStands ==
    ASSUME NEW j, NEW c, Good(c), NEW n, NEW Q, Scheduled(j, c, n, Q), NEW E, NEW hs, NEW job, NEW r,
           JobStands(j, c, E, job, r)
    PROVE  JobStands(j, n, E \cup New(Q, hs), job, r) /\ ParkedWaits(n) /\ (n.phase = "none" <=> c.phase = "none")
<1>1. CASE n = c /\ Q = {} /\ ParkedWaits(c)
  <2>1. E \cup New(Q, hs) = E
    BY <1>1, NewOf
  <2> QED
    BY <1>1, <2>1
<1>2. CASE c.parked /\ n = adopt(c) /\ Q = {Adopt(j, n)}
  <2> DEFINE d == effectOf(Adopt(j, n), hs)
  <2>1. n.parked = FALSE /\ n.phase = "running" /\ c.phase = "indoubt"
    BY <1>2, AdoptIs
  <2>2. New(Q, hs) = {d}
    BY <1>2, NewOf
  <2>3. d.kind = "follow"
    BY FollowEffect, SMT DEF d
  <2>x. Adopt(j, n).kind = "adopt"
    BY DEF Adopt
  <2>4. CASE Over(job)
    <3>1. OverStands(c, E, r) /\ r.proc # "parked"
      BY <1>2, <2>4 DEF JobStands, OverStands
    <3>2. Tame(d, r)
      BY <3>1, TameNew
    <3>3. OverStands(n, E \cup {d}, r)
      BY <2>1, <3>1, <3>2 DEF OverStands
    <3> QED
      BY <2>1, <2>2, <2>4, <3>3 DEF JobStands, ParkedWaits
  <2>5. CASE ~Over(job)
    <3>1. OpenStands(j, c, Sides(E), Mains(E), job, r)
      BY <2>5 DEF JobStands
    <3>2. Mains(E) = {} /\ OpenStands(j, n, Sides(E), {d}, job, r)
      BY <1>2, <3>1, AdoptedStands
    <3>3. d.kind \notin SideKinds
      BY <2>3 DEF SideKinds
    <3>4. Sides(E \cup {d}) = Sides(E) /\ Mains(E \cup {d}) = {d}
      BY <3>2, <3>3 DEF Sides, Mains
    <3> QED
      BY <2>1, <2>2, <2>5, <3>2, <3>4 DEF JobStands, ParkedWaits
  <2> QED
    BY <2>4, <2>5
<1>3. CASE c.phase = "queued" /\ ~c.leased /\ n = [c EXCEPT !.phase = "launching"] /\ Q = {Request("launch", j)}
  <2> DEFINE d == effectOf(Request("launch", j), hs)
  <2>1. n.parked = c.parked /\ n.phase = "launching" /\ ~c.parked
    BY <1>3 DEF Good, Entry, CoherentEntry
  <2>2. New(Q, hs) = {d}
    BY <1>3, NewOf
  <2>3. d.kind = "launch"
    BY PlainEffects, SMT DEF d
  <2>x. Request("launch", j).kind = "launch"
    BY DEF Request
  <2>4. CASE Over(job)
    <3>1. OverStands(c, E, r)
      BY <1>3, <2>4 DEF JobStands, OverStands
    <3>2. Tame(d, r)
      BY <2>x, TameNew
    <3>3. OverStands(n, E \cup {d}, r)
      BY <2>1, <3>1, <3>2 DEF OverStands
    <3> QED
      BY <1>3, <2>1, <2>2, <2>4, <3>3 DEF JobStands, ParkedWaits
  <2>5. CASE ~Over(job)
    <3>1. OpenStands(j, c, Sides(E), Mains(E), job, r)
      BY <2>5 DEF JobStands
    <3>2. Mains(E) = {} /\ OpenStands(j, n, Sides(E), {d}, job, r)
      BY <1>3, <3>1, LaunchingStands
    <3>3. d.kind \notin SideKinds
      BY <2>3 DEF SideKinds
    <3>4. Sides(E \cup {d}) = Sides(E) /\ Mains(E \cup {d}) = {d}
      BY <3>2, <3>3 DEF Sides, Mains
    <3> QED
      BY <1>3, <2>1, <2>2, <2>5, <3>2, <3>4 DEF JobStands, ParkedWaits
  <2> QED
    BY <2>4, <2>5
<1> QED
  BY <1>1, <1>2, <1>3 DEF Scheduled

-----------------------------------------------------------------------------
(* A step of the machine: a handler or none, the scheduler, and the effects of what *)
(* they ask for.                                                                    *)

LEMMA EffectOfIs ==
    ASSUME NEW q, NEW hs
    PROVE  effectOf(q, hs).job = q.job /\ Speaks(effectOf(q, hs))
<1> DEFINE d == effectOf(q, hs)
<1>1. CASE q.kind = "retry"
  <2>1. d.kind = "retry" /\ d.job = q.job /\ d.ev.type = "RetryDue"
    BY <1>1 DEF effectOf, Effect, Event
  <2> HIDE DEF d
  <2>2. d.job = q.job /\ Speaks(d)
    BY <2>1 DEF Speaks, AnswersOf
  <2> QED
    BY <2>2 DEF d
<1>2. CASE q.kind # "retry"
  <2>1. d.job = q.job /\ d.at # "post"
    BY <1>2 DEF effectOf, Effect
  <2> HIDE DEF d
  <2>2. d.job = q.job /\ Speaks(d)
    BY <2>1 DEF Speaks
  <2> QED
    BY <2>2 DEF d
<1> QED
  BY <1>1, <1>2

NewAbout(k, R, hs) == New({q \in R : q.job = k}, hs)

\* The effects of a job after a step of the machine.
SteppedTo(k, c, R, gone, hs) ==
    \E Q : /\ Scheduled(k, c, entry'[k], Q)
           /\ Mine(k)' = ((Mine(k) \ gone) \cup NewAbout(k, R, hs)) \cup New(Q, hs)

LEMMA SteppedShape ==
    ASSUME NEW en, AllGood(en), entry' = schedule(en, recovering', unread'),
           NEW R, NEW i, NEW brings, NEW drops, NEW gone,
           AfterStep(i, brings, drops, gone, R \cup scheduleRequests(en, entry'))
    PROVE  /\ \E hs : \A k \in Jobs : SteppedTo(k, en[k], R, gone, hs)
           /\ \A e \in effects' : e \in effects \/ Speaks(e)
<1> DEFINE T == scheduleRequests(en, entry')
           hs == keepHandle(i, brings, R \cup T)
<1>1. effects' = (effects \ gone) \cup New(R \cup T, hs)
  BY DEF AfterStep, New
<1> HIDE DEF T, hs
<1>2. ASSUME NEW k \in Jobs
      PROVE  SteppedTo(k, en[k], R, gone, hs)
  <2> DEFINE Q == {q \in T : q.job = k}
  <2>1. Scheduled(k, en[k], entry'[k], Q)
    BY ScheduleShape, SMT DEF T
  <2>2. \A q : effectOf(q, hs).job = q.job
    BY EffectOfIs
  <2>3. Mine(k)' = {e \in effects' : e.job = k} /\ Mine(k) = {e \in effects : e.job = k}
    BY DEF Mine
  <2>4. Mine(k)' = ((Mine(k) \ gone) \cup NewAbout(k, R, hs)) \cup New(Q, hs)
    BY <1>1, <2>2, <2>3, SMT DEF New, NewAbout
  <2> QED
    BY <2>1, <2>4 DEF SteppedTo
<1>3. \A e \in effects' : e \in effects \/ Speaks(e)
  BY <1>1, EffectOfIs DEF New
<1> QED
  BY <1>2, <1>3

\* After the scheduler.
LEMMA ScheduledOwes ==
    ASSUME NEW j, NEW c, Good(c), NEW n, NEW Q, Scheduled(j, c, n, Q), NEW E, NEW hs, OwesOf(c, E)
    PROVE  OwesOf(n, E \cup New(Q, hs))
<1>1. c \in Entry
  BY DEF Good
<1>2. \A e \in E : e \in E \/ e.kind = "none" \/ ~Pays(e, c) \/ e.kind \notin Owed(c)
  OBVIOUS
<1>3. ASSUME OwedAfter(c, Result(n, Q), "none")
      PROVE  OwesOf(n, E \cup New(Q, hs))
  <2> DEFINE h == Result(n, Q)
  <2>1. h.e = n /\ h.r = Q /\ OwedAfter(c, h, "none")
    BY <1>3 DEF Result
  <2> HIDE DEF h
  <2>2. OwesOf(h.e, E \cup New(h.r, hs))
    BY <1>2, <2>1, HandlerOwes
  <2> QED
    BY <2>1, <2>2
<1>4. CASE n = c /\ Q = {}
  <2>1. OwedAfter(c, Result(n, Q), "none")
    BY <1>4, OwedNot, OwedSame DEF Ignore
  <2> QED
    BY <1>3, <2>1
<1>5. CASE c.parked /\ n = adopt(c) /\ Q = {Adopt(j, n)}
  <2> DEFINE q == Adopt(j, n)
  <2>1. n.phase = "running" /\ n.armed = c.armed
    BY <1>1, <1>5 DEF adopt, Entry
  <2>2. Meets(q, "follow", n) /\ q \in Q
    BY <1>5 DEF Meets, Adopt
  <2> HIDE DEF q
  <2>3. MainOf(n.phase) = "follow"
    BY <2>1, MainOfPhases
  <2>4. OwedAfter(c, Result(n, Q), "none")
    BY <2>1, <2>2, <2>3, OwedNow
  <2> QED
    BY <1>3, <2>4
<1>6. CASE c.phase = "queued" /\ n = [c EXCEPT !.phase = "launching"] /\ Q = {Request("launch", j)}
  <2> DEFINE q == Request("launch", j)
  <2>1. n.phase = "launching" /\ n.armed = c.armed
    BY <1>1, <1>6 DEF Entry
  <2>2. Meets(q, "launch", n) /\ q \in Q
    BY <1>6 DEF Meets, Request
  <2> HIDE DEF q
  <2>3. MainOf(n.phase) = "launch"
    BY <2>1, MainOfPhases
  <2>4. OwedAfter(c, Result(n, Q), "none")
    BY <2>1, <2>2, <2>3, OwedNow
  <2> QED
    BY <1>3, <2>4
<1> QED
  BY <1>4, <1>5, <1>6 DEF Scheduled

\* A step of the machine, of every job.
LEMMA SteppedOwes ==
    ASSUME OwesInv, NEW en, AllGood(en), NEW R, NEW gone, NEW hs,
           \A k \in Jobs : SteppedTo(k, en[k], R, gone, hs),
           \A k \in Jobs : OwesOf(en[k], (Mine(k) \ gone) \cup NewAbout(k, R, hs)),
           NEW T, NEW gs, effects' = (effects \ gone) \cup New(T, gs)
    PROVE  OwesInv'
<1>1. ASSUME NEW k \in Jobs
      PROVE  OwesOf(entry'[k], Mine(k)')
  <2>1. PICK Q : /\ Scheduled(k, en[k], entry'[k], Q)
                 /\ Mine(k)' = ((Mine(k) \ gone) \cup NewAbout(k, R, hs)) \cup New(Q, hs)
    BY DEF SteppedTo
  <2>2. Good(en[k]) /\ OwesOf(en[k], (Mine(k) \ gone) \cup NewAbout(k, R, hs))
    BY DEF AllGood
  <2> DEFINE E == (Mine(k) \ gone) \cup NewAbout(k, R, hs)
             n == entry'[k]
             c == en[k]
  <2> HIDE DEF E, n, c
  <2>3. Scheduled(k, c, n, Q) /\ Good(c) /\ OwesOf(c, E) /\ Mine(k)' = E \cup New(Q, hs)
    BY <2>1, <2>2 DEF E, n, c
  <2>4. OwesOf(n, E \cup New(Q, hs))
    BY <2>3, ScheduledOwes
  <2> QED
    BY <2>3, <2>4 DEF n
<1>2. ASSUME NEW e \in effects'
      PROVE  TellsMoved(e)
  <2>1. CASE e \in effects
    BY <2>1 DEF OwesInv
  <2>2. CASE e \notin effects
    <3>1. PICK q \in T : e = effectOf(q, gs)
      BY <2>2 DEF New
    <3>2. e.kind = "move" => e.at = "record"
      BY <3>1 DEF effectOf, Effect
    <3> QED
      BY <3>2 DEF TellsMoved
  <2> QED
    BY <2>1, <2>2
<1>3. (\A k \in Jobs : OwesOf(entry[k], Mine(k)))' <=> \A k \in Jobs : OwesOf(entry'[k], Mine(k)')
  OBVIOUS
<1> QED
  BY <1>1, <1>2 DEF OwesInv

-----------------------------------------------------------------------------
(* What a message may make of any job: only a launch that worked, and a look that *)
(* found the job running, have its run adopted, and only an end takes the job out *)
(* of the machine.                                                                *)

Mild(c, h, adopts, ends) ==
    /\ \A q \in h.r : q.kind # "launch" /\ (q.kind = "adopt" => adopts)
    /\ h.e.parked => c.parked \/ adopts
    /\ h.e.phase = "none" => c.phase = "none" \/ ends

LEMMA MildNone ==
    ASSUME NEW c, NEW n, NEW adopts, NEW ends,
           n.parked => c.parked \/ adopts, n.phase = "none" => c.phase = "none" \/ ends
    PROVE  Mild(c, Ignore(n), adopts, ends)
  BY DEF Mild, Ignore, Result

LEMMA MildOne ==
    ASSUME NEW c, NEW n, NEW q, NEW adopts, NEW ends,
           n.parked => c.parked \/ adopts, n.phase = "none" => c.phase = "none" \/ ends,
           q.kind # "launch", q.kind = "adopt" => adopts
    PROVE  Mild(c, Result(n, {q}), adopts, ends)
  BY DEF Mild, Result

LEMMA RequestKinds ==
    ASSUME NEW j, NEW c, NEW b, NEW kind
    PROVE  /\ Request(kind, j).kind = kind /\ Move(j, c).kind = "move"
           /\ Discard(j, b).kind = "discard" /\ Adopt(j, c).kind = "adopt"
  BY DEF Request, Move, Discard, Adopt

LEMMA MildSteps ==
    ASSUME NEW j, NEW c, NEW n \in Entry, NEW adopts, NEW ends,
           n.parked => c.parked \/ adopts
    PROVE  /\ \A st : Mild(c, settle(j, n, st), adopts, ends)
           /\ Mild(c, cancelQueuedJob(j, n), adopts, ends)
           /\ \A proof, began : Mild(c, cutOff(j, n, proof, began), adopts, ends)
           /\ Mild(c, lookAgain(j, n), adopts, ends)
           /\ n.phase # "none" => Mild(c, awaitRetry(j, n), adopts, ends)
           /\ n.phase # "none" => Mild(c, signalCancel(j, n), adopts, ends)
<1>1. ASSUME NEW st
      PROVE  Mild(c, settle(j, n, st), adopts, ends)
  <2> DEFINE m == [n EXCEPT !.phase = "settling", !.settlement = st, !.release = TRUE]
  <2>1. m.parked = n.parked /\ m.phase = "settling" /\ settle(j, n, st) = Result(m, {Move(j, m)})
    BY DEF Entry, settle
  <2> HIDE DEF m
  <2>2. Mild(c, Result(m, {Move(j, m)}), adopts, ends)
    BY <2>1, MildOne, RequestKinds
  <2> QED
    BY <2>1, <2>2
<1>2. Mild(c, cancelQueuedJob(j, n), adopts, ends)
  <2> DEFINE m == [n EXCEPT !.phase = "cancelling", !.settlement = cancelQueued, !.release = FALSE]
  <2>1. m.parked = n.parked /\ m.phase = "cancelling" /\ cancelQueuedJob(j, n) = Result(m, {Move(j, m)})
    BY DEF Entry, cancelQueuedJob
  <2> HIDE DEF m
  <2>2. Mild(c, Result(m, {Move(j, m)}), adopts, ends)
    BY <2>1, MildOne, RequestKinds
  <2> QED
    BY <2>1, <2>2
<1>3. ASSUME NEW proof, NEW began
      PROVE  Mild(c, cutOff(j, n, proof, began), adopts, ends)
  <2> DEFINE st == CutOff(j \in Rerun, n.attempts, proof, began)
             m == [n EXCEPT !.phase = "settling", !.settlement = st, !.release = FALSE]
  <2>1. m.parked = n.parked /\ m.phase = "settling"
    BY DEF Entry
  <2>2. cutOff(j, n, proof, began) = settle(j, n, lostJob) \/ cutOff(j, n, proof, began) = Result(m, {Move(j, m)})
    BY DEF cutOff
  <2> HIDE DEF m
  <2>3. Mild(c, Result(m, {Move(j, m)}), adopts, ends)
    BY <2>1, MildOne, RequestKinds
  <2> QED
    BY <1>1, <2>2, <2>3
<1>4. Mild(c, lookAgain(j, n), adopts, ends)
  <2> DEFINE m == [n EXCEPT !.phase = "indoubt", !.holds = TRUE]
  <2>1. m.parked = n.parked /\ m.phase = "indoubt" /\ lookAgain(j, n) = Result(m, {Request("reexamine", j)})
    BY DEF Entry, lookAgain
  <2> HIDE DEF m
  <2>2. Mild(c, Result(m, {Request("reexamine", j)}), adopts, ends)
    BY <2>1, MildOne, RequestKinds
  <2> QED
    BY <2>1, <2>2
<1>5. ASSUME n.phase # "none"
      PROVE  Mild(c, awaitRetry(j, n), adopts, ends)
  <2> DEFINE m == [n EXCEPT !.waiting = TRUE, !.armed = TRUE]
  <2>1. m.parked = n.parked /\ m.phase = n.phase
    BY DEF Entry
  <2>2. awaitRetry(j, n) \in {Ignore(m), Result(m, {Request("retry", j)})}
    BY DEF awaitRetry, Ignore
  <2> HIDE DEF m
  <2>3. Mild(c, Ignore(m), adopts, ends)
    BY <1>5, <2>1, MildNone
  <2>4. Request("retry", j).kind = "retry" /\ (m.parked => c.parked \/ adopts) /\ m.phase # "none"
    BY <1>5, <2>1 DEF Request
  <2>5. Mild(c, Result(m, {Request("retry", j)}), adopts, ends)
    BY <2>4, MildOne
  <2> QED
    BY <2>2, <2>3, <2>5
<1>6. ASSUME n.phase # "none"
      PROVE  Mild(c, signalCancel(j, n), adopts, ends)
  <2> DEFINE m == [n EXCEPT !.cancelSent = TRUE]
  <2>1. m.parked = n.parked /\ m.phase = n.phase
    BY DEF Entry
  <2>2. signalCancel(j, n) \in {Ignore(n), Result(m, {Request("signal", j)})}
    BY DEF signalCancel
  <2> HIDE DEF m
  <2>3. Mild(c, Ignore(n), adopts, ends)
    BY <1>6, <2>1, MildNone
  <2>4. Request("signal", j).kind = "signal" /\ (m.parked => c.parked \/ adopts) /\ m.phase # "none"
    BY <1>6, <2>1 DEF Request
  <2>5. Mild(c, Result(m, {Request("signal", j)}), adopts, ends)
    BY <2>4, MildOne
  <2> QED
    BY <2>2, <2>3, <2>5
<1> QED
  BY <1>1, <1>2, <1>3, <1>4, <1>5, <1>6

LEMMA MildLooks ==
    ASSUME NEW j, NEW w, NEW c \in Entry, NEW f \in Finding, NEW p, NEW adopts, NEW ends
    PROVE  /\ Mild(w, inDoubt(j, c, f, p), adopts, ends)
           /\ Mild(w, recoverQueuedAfresh(j, c, f, p), adopts, ends)
           /\ adopts => Mild(w, recoverRunning(j, c, f, p), adopts, ends)
<1> DEFINE n(phase) == place(c, f, phase)
<1>1. ASSUME NEW phase \in Phases
      PROVE  n(phase) \in Entry /\ n(phase).phase = phase /\ n(phase).parked = FALSE
  BY <1>1, PlacedIs
<1>2. {"indoubt", "queued", "running", "discarding"} \subseteq Phases
  BY DEF Phases
<1> HIDE DEF n
<1>3. Mild(w, inDoubt(j, c, f, p), adopts, ends)
  <2> DEFINE b == judgeHold(n("indoubt"), p)
             a == awaitRetry(j, b)
             s == signalCancel(j, a.e)
  <2>1. n("indoubt") \in Entry /\ n("indoubt").phase = "indoubt" /\ n("indoubt").parked = FALSE
    BY <1>1, <1>2
  <2>2. b \in Entry /\ b.phase = "indoubt" /\ b.parked = FALSE
    BY <2>1 DEF judgeHold, Entry
  <2> HIDE DEF b
  <2>3. Mild(w, a, adopts, ends)
    BY <2>2, MildSteps
  <2>4. a.e \in Entry /\ a.e.phase = "indoubt" /\ a.e.parked = FALSE
    BY <2>2 DEF awaitRetry, Result, Entry
  <2> HIDE DEF a
  <2>5. Mild(w, s, adopts, ends)
    BY <2>4, MildSteps
  <2> HIDE DEF s
  <2>6. Mild(w, Result(s.e, a.r \cup s.r), adopts, ends)
    BY <2>3, <2>5 DEF Mild, Result
  <2>7. inDoubt(j, c, f, p) \in {Result(s.e, a.r \cup s.r), a}
    BY DEF inDoubt, s, a, b, n
  <2> QED
    BY <2>3, <2>6, <2>7
<1>4. Mild(w, recoverQueuedAfresh(j, c, f, p), adopts, ends)
  <2>1. Mild(w, Ignore(n("queued")), adopts, ends)
    BY <1>1, <1>2, MildNone
  <2>2. Mild(w, cancelQueuedJob(j, n("queued")), adopts, ends)
    BY <1>1, <1>2, MildSteps
  <2>3. Discard(j, TRUE).kind = "discard"
    BY DEF Discard
  <2>4. Mild(w, Result(n("discarding"), {Discard(j, TRUE)}), adopts, ends)
    BY <1>1, <1>2, <2>3, MildOne
  <2>5. recoverQueuedAfresh(j, c, f, p) \in {Ignore(n("queued")), cancelQueuedJob(j, n("queued")),
            Result(n("discarding"), {Discard(j, TRUE)}), inDoubt(j, c, f, p)}
    BY DEF recoverQueuedAfresh, n, Answers
  <2> QED
    BY <1>3, <2>1, <2>2, <2>4, <2>5
<1>5. ASSUME adopts
      PROVE  Mild(w, recoverRunning(j, c, f, p), adopts, ends)
  <2> DEFINE a == [n("running") EXCEPT !.cancelSent = n("running").cancelAsked]
             k == [n("indoubt") EXCEPT !.parked = TRUE]
  <2>1. a.phase = "running" /\ a.parked = FALSE /\ k.phase = "indoubt"
    BY <1>1, <1>2 DEF Entry
  <2>2. recoverRunning(j, c, f, p) \in {Ignore(k), Result(a, {Adopt(j, a)}), cutOff(j, n("running"), p.proof, p.start),
            settle(j, n("running"), givenUpJob), inDoubt(j, c, f, p)}
    BY DEF recoverRunning, doubtUnlessGivenUp, n, Answers
  <2> HIDE DEF a, k
  <2>3. Mild(w, Ignore(k), adopts, ends)
    BY <1>5, <2>1, MildNone
  <2>4. Adopt(j, a).kind = "adopt"
    BY DEF Adopt
  <2>5. Mild(w, Result(a, {Adopt(j, a)}), adopts, ends)
    BY <1>5, <2>1, <2>4, MildOne
  <2>6. Mild(w, cutOff(j, n("running"), p.proof, p.start), adopts, ends) /\ Mild(w, settle(j, n("running"), givenUpJob), adopts, ends)
    BY <1>1, <1>2, MildSteps
  <2> QED
    BY <1>3, <2>2, <2>3, <2>5, <2>6
<1> QED
  BY <1>3, <1>4, <1>5

Adopting(ev) == ev.type = "Launched" \/ (ev.type = "Recovered" /\ ev.f.job = "running")

LEMMA MildRecovered ==
    ASSUME NEW j, NEW c \in Entry, NEW ev, ev.type = "Recovered", ev.f \in Finding
    PROVE  Mild(c, OnRecovered(j, c, ev.f, ev.p), Adopting(ev), Leaving(c, ev))
<1> DEFINE f == ev.f
           p == ev.p
           adopts == Adopting(ev)
           ends == Leaving(c, ev)
           n == judgeHold(c, p)
<1>1. Mild(c, Ignore(c), adopts, ends)
  BY MildNone
<1>2. Mild(c, inDoubt(j, c, f, p), adopts, ends) /\ Mild(c, recoverQueuedAfresh(j, c, f, p), adopts, ends)
  BY MildLooks
<1>3. f.job = "running" => Mild(c, recoverRunning(j, c, f, p), adopts, ends)
  BY MildLooks DEF Adopting
<1>4. f.job \in FinalStates \cup {"no such job"} => Mild(c, recoverEnded(j, p), adopts, ends)
  <2>1. NoEntry.parked = FALSE
    BY DEF NoEntry
  <2>2. Discard(j, FALSE).kind = "discard"
    BY DEF Discard
  <2> QED
    BY <2>1, <2>2 DEF Mild, recoverEnded, Result, Leaving
<1>5. c.phase = "left" => Mild(c, recoverLeft(j, c, p), adopts, ends)
  <2>1. NoEntry.parked = FALSE
    BY DEF NoEntry
  <2>2. n \in Entry /\ n.parked = c.parked /\ n.phase = c.phase
    BY DEF judgeHold, Entry
  <2> HIDE DEF n
  <2>3. c.phase = "left" => Mild(c, awaitRetry(j, n), adopts, ends)
    BY <2>2, MildSteps
  <2>4. c.phase = "left" => Mild(c, Ignore(NoEntry), adopts, ends)
    BY <2>1, MildNone DEF Leaving
  <2>5. recoverLeft(j, c, p) \in {awaitRetry(j, n), Ignore(NoEntry)}
    BY DEF recoverLeft, n
  <2> QED
    BY <2>3, <2>4, <2>5
<1> QED
  BY <1>1, <1>2, <1>3, <1>4, <1>5 DEF OnRecovered

\* The answers of the effects.
LEMMA MildAnswers ==
    ASSUME NEW j, NEW c \in Entry, NEW adopts, NEW ends
    PROVE  /\ \A a : Mild(c, OnAdmitted(c, a), adopts, ends)
           /\ \A state : Mild(c, OnCancelAsked(j, c, state), adopts, ends)
           /\ Mild(c, OnDiscarded(j, c), adopts, ends)
           /\ adopts => Mild(c, OnLaunched(j, c), adopts, ends)
           /\ \A cause : Mild(c, OnLaunchFailed(j, c, cause), adopts, ends)
           /\ Mild(c, OnLeaseRefused(j, c), adopts, ends)
           /\ \A o : Mild(c, OnFinished(j, c, o), adopts, ends)
           /\ \A proof, began : Mild(c, OnSupervisorLost(j, c, proof, began), adopts, ends)
           /\ \A cause : Mild(c, OnFollowFailed(j, c, cause), adopts, ends)
           /\ Mild(c, OnStopFailed(j, c), adopts, ends)
           /\ Mild(c, OnCancelFailed(j, c), adopts, ends)
           /\ Mild(c, OnMoveFailed(j, c), adopts, ends)
           /\ Mild(c, OnDiscardFailed(j, c), adopts, ends)
           /\ Mild(c, OnRequeued(j, c), adopts, ends)
           /\ Mild(c, OnRetryDue(j, c), adopts, ends)
<1>0. Mild(c, Ignore(c), adopts, ends)
  BY MildNone
<1>r. Discard(j, TRUE).kind = "discard" /\ Request("stop", j).kind = "stop" /\ Request("reexamine", j).kind = "reexamine"
  BY DEF Discard, Request
<1>1. ASSUME NEW a PROVE Mild(c, OnAdmitted(c, a), adopts, ends)
  <2>1. admit(c, TRUE, a).parked => c.parked
    BY DEF admit, NoEntry
  <2>2. admit(c, TRUE, a).phase # "none"
    BY DEF admit, NoEntry
  <2> QED
    BY <2>1, <2>2, MildNone DEF OnAdmitted
<1>2. ASSUME NEW state PROVE Mild(c, OnCancelAsked(j, c, state), adopts, ends)
  <2> DEFINE n == IF state = "queued" THEN admit(c, FALSE, 0) ELSE c
             m == markCancel(n)
  <2>1. n \in Entry
    BY AdmitTyped
  <2>2. (n.parked => c.parked) /\ (n.phase = "none" => c.phase = "none")
    BY DEF admit, NoEntry
  <2> HIDE DEF n
  <2>3. m \in Entry /\ m.phase = n.phase /\ m.parked = n.parked
    BY <2>1 DEF markCancel, Entry
  <2> HIDE DEF m
  <2>4. Mild(c, cancelQueuedJob(j, m), adopts, ends)
    BY <2>2, <2>3, MildSteps
  <2>5. Mild(c, Ignore(m), adopts, ends) /\ Mild(c, Ignore(n), adopts, ends)
    BY <2>2, <2>3, MildNone
  <2>6. n.phase = "running" => Mild(c, signalCancel(j, m), adopts, ends)
    BY <2>2, <2>3, MildSteps
  <2> QED
    BY <2>4, <2>5, <2>6 DEF OnCancelAsked, n, m
<1>3. Mild(c, OnDiscarded(j, c), adopts, ends)
  <2> DEFINE n == [c EXCEPT !.phase = "queued"]
  <2>1. n \in Entry /\ n.phase = "queued" /\ n.parked = c.parked
    BY DEF Entry, Phases
  <2>2. OnDiscarded(j, c) \in {Ignore(c), cancelQueuedJob(j, n), Ignore(n)}
    BY DEF OnDiscarded
  <2> HIDE DEF n
  <2>3. Mild(c, cancelQueuedJob(j, n), adopts, ends)
    BY <2>1, MildSteps
  <2>4. Mild(c, Ignore(n), adopts, ends)
    BY <2>1, MildNone
  <2> QED
    BY <1>0, <2>2, <2>3, <2>4
<1>4. ASSUME adopts PROVE Mild(c, OnLaunched(j, c), adopts, ends)
  <2> DEFINE n == [c EXCEPT !.phase = "running", !.cancelSent = c.cancelAsked]
  <2>1. n.phase = "running" /\ n.parked = c.parked /\ Adopt(j, n).kind = "adopt"
    BY DEF Entry, Adopt
  <2>2. OnLaunched(j, c) \in {Ignore(c), Result(n, {Adopt(j, n)})}
    BY DEF OnLaunched
  <2> HIDE DEF n
  <2>3. Mild(c, Result(n, {Adopt(j, n)}), adopts, ends)
    BY <1>4, <2>1, MildOne
  <2> QED
    BY <1>0, <2>2, <2>3
<1>5. ASSUME NEW cause PROVE Mild(c, OnLaunchFailed(j, c, cause), adopts, ends)
  <2> DEFINE n == [c EXCEPT !.phase = "indoubt"]
             again == [c EXCEPT !.spawnFailures = @ + 1]
             d == [again EXCEPT !.phase = "discarding"]
  <2>1. n \in Entry /\ n.phase = "indoubt" /\ n.parked = c.parked
    BY DEF Entry, Phases
  <2>2. d.phase = "discarding" /\ d.parked = c.parked /\ again.parked = c.parked
    BY DEF Entry
  <2>3. again.spawnFailures < MaxAttempts \/ Mild(c, settle(j, again, failedToLaunch), adopts, ends)
    <3> DEFINE m == [again EXCEPT !.phase = "settling", !.settlement = failedToLaunch, !.release = TRUE]
    <3>1. m.phase = "settling" /\ m.parked = c.parked /\ Move(j, m).kind = "move"
      BY DEF Entry, Move
    <3>2. settle(j, again, failedToLaunch) = Result(m, {Move(j, m)})
      BY DEF settle
    <3> HIDE DEF m
    <3>3. Mild(c, Result(m, {Move(j, m)}), adopts, ends)
      BY <3>1, MildOne
    <3> QED
      BY <3>2, <3>3
  <2> HIDE DEF n, d, again
  <2>4. Mild(c, awaitRetry(j, n), adopts, ends)
    BY <2>1, MildSteps
  <2>5. Mild(c, Result(d, {Discard(j, TRUE)}), adopts, ends)
    BY <1>r, <2>2, MildOne
  <2>6. \A st : Mild(c, settle(j, c, st), adopts, ends)
    BY MildSteps
  <2>7. OnLaunchFailed(j, c, cause) \in {Ignore(c), awaitRetry(j, n), Result(d, {Discard(j, TRUE)})}
        \/ (\E st : OnLaunchFailed(j, c, cause) = settle(j, c, st))
        \/ (~(again.spawnFailures < MaxAttempts) /\ OnLaunchFailed(j, c, cause) = settle(j, again, failedToLaunch))
    BY DEF OnLaunchFailed, n, d, again
  <2> QED
    BY <1>0, <2>3, <2>4, <2>5, <2>6, <2>7
<1>6. Mild(c, OnLeaseRefused(j, c), adopts, ends)
  <2> DEFINE n == [c EXCEPT !.phase = "queued", !.leased = TRUE]
  <2>1. n \in Entry /\ n.phase = "queued" /\ n.parked = c.parked
    BY DEF Entry, Phases
  <2>2. OnLeaseRefused(j, c) \in {Ignore(c), settle(j, c, cancelQueued), awaitRetry(j, n)}
    BY DEF OnLeaseRefused
  <2> HIDE DEF n
  <2>3. Mild(c, awaitRetry(j, n), adopts, ends)
    BY <2>1, MildSteps
  <2>4. Mild(c, settle(j, c, cancelQueued), adopts, ends)
    BY MildSteps
  <2> QED
    BY <1>0, <2>2, <2>3, <2>4
<1>7. ASSUME NEW o PROVE Mild(c, OnFinished(j, c, o), adopts, ends)
  <2>1. \A st : Mild(c, settle(j, c, st), adopts, ends)
    BY MildSteps
  <2> QED
    BY <1>0, <2>1 DEF OnFinished
<1>8. ASSUME NEW proof, NEW began PROVE Mild(c, OnSupervisorLost(j, c, proof, began), adopts, ends)
  <2>1. /\ Mild(c, settle(j, c, lostJob), adopts, ends) /\ Mild(c, lookAgain(j, c), adopts, ends)
        /\ Mild(c, cutOff(j, c, proof, began), adopts, ends)
    BY MildSteps
  <2> QED
    BY <1>0, <2>1 DEF OnSupervisorLost
<1>9. ASSUME NEW cause PROVE Mild(c, OnFollowFailed(j, c, cause), adopts, ends)
  <2> DEFINE n == [c EXCEPT !.phase = "stopping"]
  <2>1. n.phase = "stopping" /\ n.parked = c.parked
    BY DEF Entry
  <2>2. OnFollowFailed(j, c, cause) \in {Ignore(c), lookAgain(j, c), Result(n, {Request("stop", j)})}
    BY DEF OnFollowFailed
  <2> HIDE DEF n
  <2>3. Mild(c, Result(n, {Request("stop", j)}), adopts, ends)
    BY <1>r, <2>1, MildOne
  <2>4. Mild(c, lookAgain(j, c), adopts, ends)
    BY MildSteps
  <2> QED
    BY <1>0, <2>2, <2>3, <2>4
<1>10. Mild(c, OnStopFailed(j, c), adopts, ends)
  <2> DEFINE n == [c EXCEPT !.phase = "indoubt", !.holds = TRUE]
  <2>1. n \in Entry /\ n.phase = "indoubt" /\ n.parked = c.parked
    BY DEF Entry, Phases
  <2> HIDE DEF n
  <2>2. Mild(c, awaitRetry(j, n), adopts, ends)
    BY <2>1, MildSteps
  <2> QED
    BY <1>0, <2>2 DEF OnStopFailed, n
<1>11. Mild(c, OnCancelFailed(j, c), adopts, ends)
  <2> DEFINE n == [c EXCEPT !.cancelSent = FALSE]
  <2>1. n \in Entry /\ n.phase = c.phase /\ n.parked = c.parked
    BY DEF Entry
  <2> HIDE DEF n
  <2>2. c.phase # "none" => Mild(c, awaitRetry(j, n), adopts, ends)
    BY <2>1, MildSteps
  <2> QED
    BY <1>0, <2>2 DEF OnCancelFailed, n
<1>12. Mild(c, OnMoveFailed(j, c), adopts, ends)
  <2> DEFINE n == [c EXCEPT !.phase = "unrecorded"]
  <2>1. n \in Entry /\ n.phase = "unrecorded" /\ n.parked = c.parked
    BY DEF Entry, Phases
  <2> HIDE DEF n
  <2>2. Mild(c, awaitRetry(j, n), adopts, ends)
    BY <2>1, MildSteps
  <2> QED
    BY <1>0, <2>2 DEF OnMoveFailed, n
<1>13. Mild(c, OnDiscardFailed(j, c), adopts, ends)
  <2>1. c.phase # "none" => Mild(c, awaitRetry(j, c), adopts, ends)
    BY MildSteps
  <2> QED
    BY <1>0, <2>1 DEF OnDiscardFailed
<1>14. Mild(c, OnRequeued(j, c), adopts, ends)
  <2> DEFINE n == [c EXCEPT !.attempts = @ + 1, !.phase = "discarding", !.settlement = NoSettlement,
                            !.cancelSent = FALSE, !.holds = FALSE, !.holdUntil = "zero"]
  <2>1. n.phase = "discarding" /\ n.parked = c.parked
    BY DEF Entry
  <2>2. OnRequeued(j, c) \in {Ignore(c), Result(n, {Discard(j, TRUE)})}
    BY DEF OnRequeued
  <2> HIDE DEF n
  <2>3. Mild(c, Result(n, {Discard(j, TRUE)}), adopts, ends)
    BY <1>r, <2>1, MildOne
  <2> QED
    BY <1>0, <2>2, <2>3
<1>15. Mild(c, OnRetryDue(j, c), adopts, ends)
  <2> DEFINE n == [c EXCEPT !.armed = FALSE, !.waiting = FALSE]
             l == [n EXCEPT !.leased = FALSE]
  <2>1. n \in Entry /\ n.phase = c.phase /\ n.parked = c.parked /\ l.phase = c.phase /\ l.parked = c.parked
    BY DEF Entry
  <2>2. OnRetryDue(j, c) \in {Ignore(n), Ignore(l)}
        \/ (c.phase # "none" /\ OnRetryDue(j, c) \in {Result(n, {Move(j, n)}), Result(n, {Request("reexamine", j)}),
                                  Result(n, {Discard(j, TRUE)}), signalCancel(j, n)})
    BY DEF OnRetryDue
  <2> HIDE DEF n, l
  <2>3. Mild(c, Ignore(n), adopts, ends) /\ Mild(c, Ignore(l), adopts, ends)
    BY <2>1, MildNone
  <2>4. Move(j, n).kind = "move"
    BY DEF Move
  <2>5. /\ Mild(c, Result(n, {Move(j, n)}), adopts, ends) /\ Mild(c, Result(n, {Request("reexamine", j)}), adopts, ends)
        /\ Mild(c, Result(n, {Discard(j, TRUE)}), adopts, ends)
    BY <1>r, <2>1, <2>4, MildOne
  <2>6. c.phase # "none" => Mild(c, signalCancel(j, n), adopts, ends)
    BY <2>1, MildSteps
  <2> QED
    BY <2>2, <2>3, <2>5, <2>6
<1> QED
  BY <1>1, <1>2, <1>3, <1>4, <1>5, <1>6, <1>7, <1>8, <1>9, <1>10, <1>11, <1>12, <1>13, <1>14, <1>15

LEMMA MildHandler ==
    ASSUME NEW j, NEW c \in Entry, NEW ev, ev.type = "Recovered" => ev.f \in Finding
    PROVE  Mild(c, Handler(j, c, ev), Adopting(ev), Leaving(c, ev))
<1>1. ev.type = "Recovered" => Mild(c, OnRecovered(j, c, ev.f, ev.p), Adopting(ev), Leaving(c, ev))
  BY MildRecovered
<1>2. ev.type = "Launched" => Adopting(ev)
  BY DEF Adopting
<1>3. ev.type \notin JobEvents => Mild(c, Ignore(NoEntry), Adopting(ev), Leaving(c, ev))
  <2>1. NoEntry.parked = FALSE
    BY DEF NoEntry
  <2> QED
    BY <2>1, MildNone DEF Leaving
<1>4. ev.type \notin JobEvents => Handler(j, c, ev) = Ignore(NoEntry)
  BY DEF Handler, JobEvents
<1>5. ev.type \in JobEvents \ {"Recovered"} => Mild(c, Handler(j, c, ev), Adopting(ev), Leaving(c, ev))
  BY <1>2, MildAnswers DEF Handler, JobEvents
<1> QED
  BY <1>1, <1>3, <1>4, <1>5 DEF Handler

\* A reader whose read was superseded is as it was.
SameReader(x, y) ==
    /\ y.at = x.at /\ y.store = x.store /\ y.again = x.again /\ y.todo = x.todo /\ y.away = x.away
    /\ y.runs = x.runs /\ y.seen = x.seen /\ y.job = x.job /\ y.ev = x.ev

LEMMA ReaderFields ==
    ASSUME Shaped, NEW q \in Readers
    PROVE  /\ ReaderOK(q, reader[q])
           /\ \A b : SameReader(reader[q], [reader[q] EXCEPT !.stale = b])
<1>1. ReaderOK(q, reader[q])
  BY DEF Shaped, ShellInv, ReadersOK
<1>2. DOMAIN reader[q] = {"at", "store", "again", "stale", "todo", "away", "runs", "seen", "job", "ev"}
  BY <1>1 DEF ReaderOK
<1> QED
  BY <1>1, <1>2 DEF SameReader

LEMMA ReadersAre == "start" \in Readers /\ "sweep" \in Readers /\ "submit" \in Readers
  BY DEF Readers

LEMMA NothingUnread ==
    ASSUME RunsInv
    PROVE  ~SubmitRead /\ ~ReadList("submit") /\ ~ReadJob("submit") /\ ~ReaderDropped("submit") /\ ~ReaderTaken("submit")
<1>1. unread = {} /\ reader["submit"].at \in {"idle", "written", "admit"}
  BY DEF RunsInv, Calm
<1> QED
  BY <1>1 DEF SubmitRead, ReadList, ReadJob, ReaderDropped, ReaderTaken

-----------------------------------------------------------------------------
(* The steps of the daemon, by what they do to the machine. *)

\* A message that the loop takes up, with the effect that brought it.
Taken(j, ev, gone) ==
    /\ j \in Jobs /\ JobMessage(ev) /\ gone \subseteq Mine(j)
    /\ \/ gone = {} /\ ev.type \in {"Admitted", "CancelAsked", "Recovered"}
       \/ \E e \in Mine(j) : gone = {e} /\ e.at = "post" /\ ev = e.ev
    /\ Adopting(ev) /\ ~Over(store[j]) =>
         \/ \E e \in Mine(j) : e.kind = "launch"
         \/ ev.type = "Recovered" /\ store[j].state = "running" /\ PresenceStands(ev.p, store[j], run[j])

StepsAlone ==
    /\ entry' = schedule(entry, recovering', unread')
    /\ AfterStep(0, FALSE, FALSE, {}, scheduleRequests(entry, entry'))
    /\ UNCHANGED world

LEMMA EffectTaken ==
    ASSUME RunsInv, Shaped, NEW e \in effects, e.at = "post"
    PROVE  Taken(e.job, e.ev, {e})
<1> DEFINE j == e.job
           c == entry[j]
           S == Sides(Mine(j))
           job == store[j]
           r == run[j]
           ev == e.ev
<1>1. j \in Jobs /\ e \in Mine(j) /\ JobMessage(ev) /\ ev.type \in AnswersOf(e.kind)
  BY MineJobs DEF RunsInv, Speaks
<1>2. ASSUME Adopting(ev), ~Over(job)
      PROVE  \/ \E d \in Mine(j) : d.kind = "launch"
             \/ ev.type = "Recovered" /\ job.state = "running" /\ PresenceStands(ev.p, job, r)
  <2>1. CASE ev.type = "Launched"
    <3>1. e.kind = "launch"
      BY <1>1, <2>1 DEF AnswersOf
    <3> QED
      BY <1>1, <3>1
  <2>2. CASE ev.type = "Recovered" /\ ev.f.job = "running"
    <3>1. e.kind = "reexamine"
      BY <1>1, <2>2 DEF AnswersOf
    <3>2. e \in S
      BY <1>1, <3>1 DEF Sides, SideKinds
    <3>3. OpenStands(j, c, S, Mains(Mine(j)), job, r)
      BY <1>1, <1>2 DEF RunsInv, JobInv, JobStands
    <3> HIDE DEF j, c, S, job, r
    <3>4. SideStands(e, c, S, job, r)
      BY <3>2, <3>3 DEF OpenStands
    <3>5. FindingStands(ev.f, ev.p, job, r)
      BY <3>1, <3>4 DEF SideStands, LookStands
    <3> QED
      BY <2>2, <3>5 DEF FindingStands
  <2> QED
    BY <1>2, <2>1, <2>2 DEF Adopting
<1>3. {e} \subseteq Mine(j)
  BY <1>1
<1> QED
  BY <1>1, <1>2, <1>3 DEF Taken

LEMMA ReaderTakes ==
    ASSUME RunsInv, Shaped, NEW r \in Readers, ReaderTaken(r)
    PROVE  StepsAlone \/ \E j, ev : Taken(j, ev, {}) /\ Deliver(j, ev, FALSE, {})
<1> DEFINE x == reader[r]
           j == x.job
           ev == x.ev
<1>1. r # "submit" /\ x.at = "post"
  BY NothingUnread DEF ReaderTaken
<1>2. r \in {"start", "sweep"}
  BY <1>1 DEF Readers
<1>3. ReaderOK(r, x)
  BY DEF Shaped, ShellInv, ReadersOK
<1>4. /\ r = "start" => ev.type \in {"Recovered", "RecoveryDone"}
      /\ r = "sweep" => ev.type \in {"Admitted", "Recovered", "StoreRead"}
  BY <1>1 DEF RunsInv, Calm
<1>5. CASE ev.type = "RecoveryDone"
  <2>1. StepAlone(RecoveryDone)
    BY <1>5 DEF ReaderTaken
  <2> QED
    BY <2>1 DEF StepAlone, RecoveryDone, Step, StepsAlone
<1>6. CASE ev.type = "StoreRead"
  <2>1. StepAlone(StoreRead(x.store))
    BY <1>6 DEF ReaderTaken
  <2> QED
    BY <2>1 DEF StepAlone, StoreRead, Step, StepsAlone
<1>7. CASE ev.type \in {"Admitted", "Recovered"}
  <2>1. Deliver(j, ev, FALSE, {})
    BY <1>7 DEF ReaderTaken
  <2>2. j \in Jobs /\ JobMessage(ev)
    BY <1>1, <1>3, <1>7 DEF ReaderOK, ReaderMessage
  <2>3. ASSUME Adopting(ev), ~Over(store[j])
        PROVE  ev.type = "Recovered" /\ store[j].state = "running" /\ PresenceStands(ev.p, store[j], run[j])
    <3>1. ev.type = "Recovered" /\ ev.f.job = "running"
      BY <1>7, <2>3 DEF Adopting
    <3>2. r = "start"
      <4>1. ASSUME r = "sweep"
            PROVE  FALSE
        <5>1. SweepStands(x, j, entry[j], store[j])
          BY <2>2, <4>1 DEF RunsInv, JobInv
        <5> QED
          BY <1>1, <2>3, <3>1, <5>1 DEF SweepStands
      <4> QED
        BY <1>2, <4>1
    <3>3. StartStands(x, j, entry[j], Mine(j), store[j], run[j])
      BY <2>2, <3>2 DEF RunsInv, JobInv
    <3>4. Posting(x, j)
      BY <1>1, <3>1 DEF Posting
    <3>5. ev.f = jobIn(store[j]) /\ PresenceStands(ev.p, store[j], run[j])
      BY <2>3, <3>3, <3>4 DEF StartStands
    <3>6. jobIn(store[j]).job = store[j].state
      BY DEF jobIn
    <3> QED
      BY <3>1, <3>5, <3>6
  <2>4. Taken(j, ev, {})
    BY <1>7, <2>2, <2>3 DEF Taken
  <2> QED
    BY <2>1, <2>4
<1> QED
  BY <1>2, <1>4, <1>5, <1>6, <1>7

LEMMA CallTaken ==
    ASSUME NEW j \in Jobs, NEW ev, JobMessage(ev), ev.type \in {"Admitted", "CancelAsked"}
    PROVE  Taken(j, ev, {})
  BY DEF Taken, Adopting

\* Every step of the daemon.
LEMMA DaemonSteps ==
    ASSUME RunsInv, Shaped, HandlersFit, DaemonNext
    PROVE  \/ \E e \in effects : EffectStep(e)
           \/ \E j, ev, h, gone : Taken(j, ev, gone) /\ Deliver(j, ev, h, gone)
           \/ StepsAlone
           \/ UNCHANGED <<entry, effects, store, run>>
           \/ \E j \in Jobs : SubmitWrite(j) \/ CommandEnds(j) \/ ComesUp(j) \/ Exits(j) \/ SupervisorDies(j) \/ TimePasses(j)
           \/ Crash \/ Reboot
<1>1. ASSUME NEW e \in effects, DeliverEffect(e)
      PROVE  \E j, ev, h, gone : Taken(j, ev, gone) /\ Deliver(j, ev, h, gone)
  BY <1>1, EffectTaken DEF DeliverEffect
<1>2. ASSUME StartStep \/ SweepStep
      PROVE  UNCHANGED <<entry, effects, store, run>>
  BY <1>2 DEF StartStep, StartRuns, StartList, StartJob, StartLeftover, SweepStep, SweepBegin, SweepHeld, SweepFind, Reading, world
<1>3. ASSUME SubmitStep
      PROVE  \/ UNCHANGED <<entry, effects, store, run>>
             \/ \E j, ev, h, gone : Taken(j, ev, gone) /\ Deliver(j, ev, h, gone)
  <2>1. CASE SubmitCheck
    BY <2>1 DEF SubmitCheck, Reading, world
  <2>2. CASE SubmitAdmit
    <3> DEFINE x == reader["submit"]
               j == firstOf(x.todo)
               ev == [type |-> "Admitted", attempts |-> 0]
    <3>1. x.at = "admit" /\ Deliver(j, ev, FALSE, {})
      BY <2>2 DEF SubmitAdmit
    <3>2. x.todo \subseteq Jobs /\ x.todo # {}
      BY <3>1, ReadersAre, ReaderFields DEF ReaderOK
    <3>3. j \in Jobs
      BY <3>2 DEF HandlersFit
    <3>4. ev.type = "Admitted" /\ JobMessage(ev)
      BY AttemptsAssumption, SMT DEF JobMessage
    <3> HIDE DEF j, ev
    <3>5. Taken(j, ev, {})
      BY <3>3, <3>4, CallTaken
    <3> QED
      BY <3>1, <3>5
  <2> QED
    BY <1>3, <2>1, <2>2, NothingUnread DEF SubmitStep
<1>4. ASSUME NEW r \in DOMAIN reader, ReaderStep(r)
      PROVE  \/ UNCHANGED <<entry, effects, store, run>> \/ StepsAlone
             \/ \E j, ev, h, gone : Taken(j, ev, gone) /\ Deliver(j, ev, h, gone)
  <2>1. r \in Readers
    BY DEF Shaped, ShellInv, ReadersOK
  <2>2. CASE ReadList(r) \/ ReadJob(r) \/ ReaderDropped(r)
    BY <2>2 DEF ReadList, ReadJob, ReaderDropped, Reading, world
  <2>3. CASE ReaderTaken(r)
    BY <2>1, <2>3, ReaderTakes
  <2> QED
    BY <1>4, <2>2, <2>3 DEF ReaderStep
<1>5. ASSUME NEW j \in Jobs, CancelCall(j) \/ CancelRead(j)
      PROVE  UNCHANGED <<entry, effects, store, run>>
  BY <1>5 DEF CancelCall, CancelRead, world
<1>6. ASSUME NEW j \in Jobs, CancelPost(j)
      PROVE  \E i, ev, h, gone : Taken(i, ev, gone) /\ Deliver(i, ev, h, gone)
  <2> DEFINE ev == CancelEvent(caller[j])
  <2>1. caller[j] \in JobStates /\ Deliver(j, ev, FALSE, {})
    BY <1>6 DEF CancelPost
  <2>2. ev.type = "CancelAsked" /\ JobMessage(ev)
    BY <2>1 DEF CancelEvent, JobMessage
  <2> HIDE DEF ev
  <2>3. Taken(j, ev, {})
    BY <2>2, CallTaken
  <2> QED
    BY <2>1, <2>3
<1>7. CASE \E e \in effects : EffectStep(e) \/ DeliverEffect(e)
  BY <1>1, <1>7
<1>8. CASE StartStep \/ SweepStep \/ SubmitStep
  BY <1>2, <1>3, <1>8
<1>9. CASE \E r \in DOMAIN reader : ReaderStep(r)
  BY <1>4, <1>9
<1>10. CASE \E j \in Jobs : SubmitWrite(j) \/ CancelCall(j) \/ CancelRead(j) \/ CancelPost(j)
  BY <1>5, <1>6, <1>10
<1> QED
  BY <1>7, <1>8, <1>9, <1>10 DEF DaemonNext

-----------------------------------------------------------------------------
(* A message that is taken up leaves every answer owed. *)

\* The message that the loop takes up.
LEMMA TakenOwes ==
    ASSUME Shaped, OwesInv, RunsInv, NEW j, NEW ev, NEW gone, Taken(j, ev, gone), NEW hs
    PROVE  OwesOf(Handler(j, entry[j], ev).e, (Mine(j) \ gone) \cup New(Handler(j, entry[j], ev).r, hs))
<1> DEFINE c == entry[j]
           M == Mine(j)
           h == Handler(j, c, ev)
<1>1. j \in Jobs /\ JobMessage(ev) /\ Good(c) /\ OwesOf(c, M)
  BY StoredStates DEF Taken, OwesInv
<1>2. CASE gone = {}
  <2>1. OwedAfter(c, h, "none")
    BY <1>1, OwedHandler
  <2>2. \A e \in M : e \in M \ gone
    BY <1>2
  <2> DEFINE D == M \ gone
  <2> HIDE DEF c, M, h, D
  <2>3. OwesOf(h.e, D \cup New(h.r, hs))
    BY <1>1, <2>1, <2>2, HandlerOwes DEF D
  <2> QED
    BY <2>3 DEF c, M, h, D
<1>3. CASE \E e \in M : gone = {e} /\ e.at = "post" /\ ev = e.ev
  <2>1. PICK e \in M : gone = {e} /\ e.at = "post" /\ ev = e.ev
    BY <1>3
  <2>2. e \in effects
    BY <2>1 DEF Mine
  <2>3. ev.type \in AnswersOf(e.kind) /\ TellsMoved(e)
    BY <2>1, <2>2 DEF RunsInv, Speaks, OwesInv
  <2>4. CASE Pays(e, c)
    <3>1. e.kind = "move" /\ ev.type = "Requeued" => Requeues(c.settlement)
      BY <2>1, <2>3, <2>4 DEF TellsMoved, Pays
    <3>2. OwedAfter(c, h, e.kind)
      BY <1>1, <2>3, <3>1, OwedHandler
    <3>3. \A d \in M : d \in M \ gone \/ d.kind = e.kind
      BY <2>1
    <3> DEFINE D == M \ gone
               used == e.kind
    <3>4. OwesOf(c, M) /\ OwedAfter(c, h, used) /\ \A d \in M : d \in D \/ d.kind = used
      BY <1>1, <3>2, <3>3
    <3> HIDE DEF c, M, h, D, used
    <3>5. OwesOf(h.e, D \cup New(h.r, hs))
      BY <3>4, HandlerOwes
    <3> QED
      BY <3>5 DEF c, M, h, D
  <2>5. CASE ~Pays(e, c)
    <3>1. OwedAfter(c, h, "none")
      BY <1>1, OwedHandler
    <3>2. \A d \in M : d \in M \ gone \/ ~Pays(d, c)
      BY <2>1, <2>5
    <3> DEFINE D == M \ gone
    <3> HIDE DEF c, M, h, D
    <3>3. OwesOf(h.e, D \cup New(h.r, hs))
      BY <1>1, <3>1, <3>2, HandlerOwes DEF D
    <3> QED
      BY <3>3 DEF c, M, h, D
  <2> QED
    BY <2>4, <2>5
<1> QED
  BY <1>2, <1>3 DEF Taken

LEMMA DeliverOwes ==
    ASSUME Shaped, HandlersFit, RunsInv, OwesInv, NEW j, NEW ev, NEW h, NEW gone, Taken(j, ev, gone), Deliver(j, ev, h, gone)
    PROVE  OwesInv'
<1> DEFINE hd == Handler(j, entry[j], ev)
           en == [entry EXCEPT ![j] = hd.e]
<1>1. j \in Jobs /\ JobMessage(ev) /\ gone \subseteq Mine(j)
  BY DEF Taken
<1>2. Good(hd.e) /\ About(j, hd.r) /\ AllGood(entry)
  BY <1>1 DEF HandlersFit, Shaped
<1>3. AllGood(en) /\ en[j] = hd.e /\ \A k \in Jobs : k # j => en[k] = entry[k]
  BY <1>1, <1>2 DEF AllGood
<1>4. entry' = schedule(en, recovering', unread')
  BY DEF Deliver, Take, Step
<1>5. PICK brings, drops : AfterStep(j, brings, drops, gone, hd.r \cup scheduleRequests(en, entry'))
  BY DEF Deliver
<1> HIDE DEF en
<1>6. PICK hs : \A k \in Jobs : SteppedTo(k, en[k], hd.r, gone, hs)
  <2> HIDE DEF hd
  <2> QED
    BY <1>3, <1>4, <1>5, SteppedShape
<1>7. ASSUME NEW k \in Jobs
      PROVE  OwesOf(en[k], (Mine(k) \ gone) \cup NewAbout(k, hd.r, hs))
  <2>1. CASE k = j
    <3>1. {q \in hd.r : q.job = j} = hd.r
      BY <1>2 DEF About
    <3>2. NewAbout(k, hd.r, hs) = New(hd.r, hs)
      BY <2>1, <3>1 DEF NewAbout
    <3>3. OwesOf(hd.e, (Mine(j) \ gone) \cup New(hd.r, hs))
      BY TakenOwes
    <3> QED
      BY <1>3, <2>1, <3>2, <3>3
  <2>2. CASE k # j
    <3> HIDE DEF hd
    <3>1. {q \in hd.r : q.job = k} = {}
      BY <1>2, <2>2 DEF About
    <3>2. NewAbout(k, hd.r, hs) = {}
      BY <3>1, NewOf DEF NewAbout
    <3>3. Mine(k) \ gone = Mine(k)
      BY <1>1, <2>2 DEF Mine
    <3>4. (Mine(k) \ gone) \cup NewAbout(k, hd.r, hs) = Mine(k)
      BY <3>2, <3>3
    <3> QED
      BY <1>3, <2>2, <3>4 DEF OwesInv
  <2> QED
    BY <2>1, <2>2
<1>8. \E T, gs : effects' = (effects \ gone) \cup New(T, gs)
  BY <1>5 DEF AfterStep, New
<1> HIDE DEF hd
<1> QED
  BY <1>3, <1>6, <1>7, <1>8, SteppedOwes

LEMMA AloneOwes ==
    ASSUME Shaped, OwesInv, StepsAlone
    PROVE  OwesInv'
<1>1. AllGood(entry)
  BY DEF Shaped
<1>2. /\ entry' = schedule(entry, recovering', unread')
      /\ AfterStep(0, FALSE, FALSE, {}, {} \cup scheduleRequests(entry, entry'))
  <2>1. {} \cup scheduleRequests(entry, entry') = scheduleRequests(entry, entry')
    OBVIOUS
  <2> QED
    BY <2>1 DEF StepsAlone
<1>3. PICK hs : \A k \in Jobs : SteppedTo(k, entry[k], {}, {}, hs)
  BY <1>1, <1>2, SteppedShape
<1>4. ASSUME NEW k \in Jobs
      PROVE  OwesOf(entry[k], (Mine(k) \ {}) \cup NewAbout(k, {}, hs))
  <2>1. {q \in {} : q.job = k} = {}
    OBVIOUS
  <2>2. NewAbout(k, {}, hs) = {}
    BY <2>1, NewOf DEF NewAbout
  <2>3. (Mine(k) \ {}) \cup NewAbout(k, {}, hs) = Mine(k)
    BY <2>2
  <2> QED
    BY <2>3 DEF OwesInv
<1> DEFINE T == {} \cup scheduleRequests(entry, entry')
           gs == keepHandle(0, FALSE, T)
           none == {}
<1>5. effects' = (effects \ none) \cup New(T, gs)
  BY <1>2 DEF AfterStep, New
<1>6. /\ \A k \in Jobs : SteppedTo(k, entry[k], {}, none, hs)
      /\ \A k \in Jobs : OwesOf(entry[k], (Mine(k) \ none) \cup NewAbout(k, {}, hs))
  BY <1>3, <1>4
<1> HIDE DEF T, gs, none
<1> QED
  BY <1>1, <1>5, <1>6, SteppedOwes
=============================================================================
