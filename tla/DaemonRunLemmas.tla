--------------------------- MODULE DaemonRunLemmas ---------------------------
(***************************************************************************)
(* What the proofs about the effects and the proofs about the machine and  *)
(* its readers share: facts about the parts of the invariant of DaemonRuns *)
(* and about the runs, and what a step of an effect may do at most.        *)
(***************************************************************************)
EXTENDS DaemonRuns, TLAPS

\* Zenon proves a step that names no prover.
USE Zenon

-----------------------------------------------------------------------------
(* Entries and runs. *)

LEMMA NoRunIs ==
    /\ NoRun.proc = "none" /\ Unmarked(NoRun) /\ ~Unsent(NoRun) /\ NoRun.dir = FALSE
    /\ NoRun.end = "none" /\ NoRun.cancel = FALSE
  BY DEF NoRun, Unmarked, Unsent

LEMMA Marked ==
    ASSUME NEW r
    PROVE  /\ r.mark = "sent" => ~Unsent(r) /\ ~Unmarked(r)
           /\ ~(Unsent(r) /\ Unmarked(r))
  BY DEF Unmarked, Unsent

-----------------------------------------------------------------------------
(* The effects of a job, and the one that its phase waits for. *)

\* The effects of a job are those beside and the one that its phase waits for.
LEMMA Parted ==
    ASSUME NEW E, NEW D
    PROVE  Sides(E \cup D) = Sides(E) \cup Sides(D) /\ Mains(E \cup D) = Mains(E) \cup Mains(D)
  BY DEF Sides, Mains

LEMMA PartedOne ==
    ASSUME NEW e
    PROVE  /\ Sides({}) = {} /\ Mains({}) = {}
           /\ e.kind \in SideKinds => Sides({e}) = {e} /\ Mains({e}) = {}
           /\ e.kind \notin SideKinds => Sides({e}) = {} /\ Mains({e}) = {e}
  BY DEF Sides, Mains

LEMMA PartedLess ==
    ASSUME NEW E, NEW e
    PROVE  /\ e.kind \in SideKinds => Sides(E \ {e}) = Sides(E) \ {e} /\ Mains(E \ {e}) = Mains(E)
           /\ e.kind \notin SideKinds => Sides(E \ {e}) = Sides(E) /\ Mains(E \ {e}) = Mains(E) \ {e}
  BY DEF Sides, Mains

SidesStand(c, S, job, r) == \A e \in S : SideStands(e, c, S, job, r)

\* One effect that a phase waits for.
LEMMA OpenWith ==
    ASSUME NEW j, NEW c, NEW S, NEW e, NEW job, NEW r, OpenStands(j, c, S, {e}, job, r)
    PROVE  ~Idles(c) /\ MainStands(j, e, c, S, job, r) /\ e.kind = MainOf(c.phase)
  BY DEF OpenStands, MainStands

LEMMA MainOfPhases ==
    /\ MainOf("launching") = "launch" /\ MainOf("running") = "follow" /\ MainOf("stopping") = "stop"
    /\ MainOf("discarding") = "discard" /\ MainOf("settling") = "move" /\ MainOf("cancelling") = "move"
    /\ MainOf("unrecorded") = "move" /\ MainOf("queued") = "none" /\ MainOf("indoubt") = "none"
    /\ MainOf("none") = "none"
  BY DEF MainOf, Ending

\* A timer or a signal beside the others.
LEMMA AddSide ==
    ASSUME NEW j, NEW c, NEW S, NEW M, NEW job, NEW r, OpenStands(j, c, S, M, job, r),
           NEW d, d.kind \in {"retry", "signal"}, SideStands(d, c, S, job, r)
    PROVE  OpenStands(j, c, S \cup {d}, M, job, r)
<1> DEFINE T == S \cup {d}
<1>1. \A e \in T : SideStands(e, c, T, job, r)
  BY DEF OpenStands, SideStands, LookFits
<1>2. \A e : MainStands(j, e, c, S, job, r) => MainStands(j, e, c, T, job, r)
  BY DEF MainStands, FollowStands
<1> QED
  BY <1>1, <1>2 DEF OpenStands

\* One effect beside the others is over.
LEMMA DropSide ==
    ASSUME NEW j, NEW c, NEW S, NEW M, NEW job, NEW r, OpenStands(j, c, S, M, job, r), NEW e
    PROVE  OpenStands(j, c, S \ {e}, M, job, r)
<1> DEFINE T == S \ {e}
<1>1. \A x \in T : SideStands(x, c, T, job, r)
  BY DEF OpenStands, SideStands, LookFits
<1>2. \A x : MainStands(j, x, c, S, job, r) => MainStands(j, x, c, T, job, r)
  BY DEF MainStands, FollowStands
<1> QED
  BY <1>1, <1>2 DEF OpenStands

\* The phase of a job that an effect is waited for by, and what is beside it.
LEMMA PhaseOf ==
    ASSUME NEW c, c.phase \in Phases, NEW kind, kind = MainOf(c.phase)
    PROVE  /\ kind = "launch" => c.phase = "launching"
           /\ kind = "follow" => c.phase = "running"
           /\ kind = "stop" => c.phase = "stopping"
           /\ kind = "discard" => c.phase = "discarding"
           /\ kind = "move" => c.phase \in Ending
           /\ kind \in {"launch", "follow", "stop", "discard", "move", "none"}
  BY DEF MainOf, Phases, Ending

LEMMA Answering ==
    ASSUME NEW j, NEW c, Good(c), NEW S, NEW e, NEW job, NEW r, OpenStands(j, c, S, {e}, job, r)
    PROVE  /\ c \in Entry /\ EntryStands(j, c, job, r) /\ SidesStand(c, S, job, r)
           /\ c.phase \in Ending => EndingStands(j, c, job, r)
           /\ e.kind \in {"launch", "follow", "stop", "discard", "move"}
           /\ e.kind = "launch" => c.phase = "launching" /\ LaunchStands(e, job, r)
           /\ e.kind = "follow" => c.phase = "running" /\ FollowStands(j, e, S, job, r)
           /\ e.kind = "stop" => c.phase = "stopping" /\ StopStands(j, e, job, r)
           /\ e.kind = "discard" => c.phase = "discarding" /\ ~c.waiting /\ DiscardStands(e, r)
           /\ e.kind = "move" => c.phase \in Ending /\ ~(c.phase = "unrecorded" /\ c.waiting) /\ MoveStands(e, c, job)
<1>1. ~Idles(c) /\ MainStands(j, e, c, S, job, r)
  BY OpenWith
<1>2. c.phase \in Phases /\ e.kind = MainOf(c.phase) /\ e.kind # "none"
  BY <1>1 DEF Good, Entry, MainStands, Idles
<1>3. /\ e.kind = "launch" => c.phase = "launching"
      /\ e.kind = "follow" => c.phase = "running"
      /\ e.kind = "stop" => c.phase = "stopping"
      /\ e.kind = "discard" => c.phase = "discarding"
      /\ e.kind = "move" => c.phase \in Ending
      /\ e.kind \in {"launch", "follow", "stop", "discard", "move"}
  BY <1>2, PhaseOf
<1>4. /\ e.kind = "launch" => LaunchStands(e, job, r)
      /\ e.kind = "follow" => FollowStands(j, e, S, job, r)
      /\ e.kind = "stop" => StopStands(j, e, job, r)
      /\ e.kind = "discard" => DiscardStands(e, r)
      /\ e.kind = "move" => MoveStands(e, c, job)
  BY <1>1 DEF MainStands
<1> QED
  BY <1>1, <1>3, <1>4 DEF OpenStands, SidesStand, Good, Idles

-----------------------------------------------------------------------------
(* A state of the right shape. *)

LEMMA StoredStates ==
    ASSUME Shaped, NEW j \in Jobs
    PROVE  /\ store[j].state \in {"absent", "queued", "running"} \/ Over(store[j])
           /\ run[j] \in Run /\ Good(entry[j]) /\ entry[j] \in Entry
<1>1. store[j] \in StoredJob \cup {Absent} /\ run[j] \in Run
  BY DEF Shaped, ShellInv, WorldOK
<1>2. store[j].state \in JobStates \cup {"absent"}
  BY <1>1, SMT DEF StoredJob, Absent
<1> QED
  BY <1>1, <1>2 DEF JobStates, Over, Shaped, AllGood, Good

LEMMA MineJobs ==
    ASSUME Shaped, NEW e \in effects
    PROVE  e.job \in Jobs /\ e \in Mine(e.job) /\ (e.at = "post" => JobMessage(e.ev))
  BY DEF Shaped, ShellInv, EffectsOK, EffectOK, Mine

-----------------------------------------------------------------------------
(* What a look finds is true. *)

\* What a look at the run of a job that is not over finds stands.
LEMMA FoundIs ==
    ASSUME NEW what, NEW r, NEW proof
    PROVE  /\ found(what).run = what /\ found(what).start = "may"
           /\ foundDead(r, proof).run = "dead" /\ foundDead(r, proof).proof = proof
           /\ foundDead(r, proof).start = "never" => Unsent(r)
<1>1. found(what).run = what /\ found(what).start = "may"
  BY DEF found
<1>2. foundDead(r, proof).run = "dead" /\ foundDead(r, proof).proof = proof /\ foundDead(r, proof).start = startOf(r)
  BY DEF foundDead
<1>3. startOf(r) = "never" => Unsent(r)
  BY DEF startOf, Unsent
<1> QED
  BY <1>1, <1>2, <1>3

LEMMA ProbeIs ==
    ASSUME NEW r \in Run
    PROVE  /\ ~r.dir => \/ Unmarked(r) /\ Probe(r) = found("none")
                        \/ Probe(r) = foundDead(r, "rebooted")
                        \/ Probe(r) = found("unknown")
           /\ r.dir /\ Alive(r) => Probe(r) = found(IF r.proc = "executing" THEN "running" ELSE r.proc)
           /\ r.dir /\ ~Alive(r) => Probe(r) = foundDead(r, "lock free")
<1>1. r.dir \in BOOLEAN
  BY DEF Run
<1>2. ~r.dir => Probe(r) = noDirectory(r)
  BY DEF Probe
<1>3. \/ Unmarked(r) /\ noDirectory(r) = found("none")
      \/ noDirectory(r) = foundDead(r, "rebooted")
      \/ noDirectory(r) = found("unknown")
  BY DEF noDirectory, Unmarked
<1>4. /\ r.dir /\ Alive(r) => Probe(r) = found(IF r.proc = "executing" THEN "running" ELSE r.proc)
      /\ r.dir /\ ~Alive(r) => Probe(r) = foundDead(r, "lock free")
  BY <1>1 DEF Probe
<1> QED
  BY <1>2, <1>3, <1>4

LEMMA ProbeStands ==
    ASSUME NEW j, NEW job, NEW r \in Run, NEW n, WorldStands(j, job, r, n), ~Over(job)
    PROVE  PresenceStands(Probe(r), job, r) /\ PresenceStands(found("unknown"), job, r)
<1>1. /\ Unmarked(r) => r = NoRun
      /\ r.proc # "none" => r.dir
      /\ job.state = "running" => r.proc # "starting"
  BY DEF WorldStands
<1>2. r.proc \in Procs /\ r.dir \in BOOLEAN
  BY DEF Run
<1>3. PresenceStands(found("unknown"), job, r)
  BY FoundIs DEF PresenceStands
<1>4. ASSUME r.proc \in {"none", "starting"}, NEW proof
      PROVE  PresenceStands(foundDead(r, proof), job, r)
  BY <1>1, <1>4, FoundIs DEF PresenceStands
<1>5. CASE ~r.dir
  <2>1. r.proc = "none"
    BY <1>1, <1>5
  <2>2. Unmarked(r) => PresenceStands(found("none"), job, r)
    BY <1>1, <2>1, FoundIs DEF PresenceStands
  <2> QED
    BY <1>3, <1>4, <1>5, <2>1, <2>2, ProbeIs
<1>6. CASE r.dir /\ Alive(r)
  <2> DEFINE what == IF r.proc = "executing" THEN "running" ELSE r.proc
  <2>1. r.proc \in {"parked", "executing", "finished", "released"}
    BY <1>2, <1>6 DEF Alive, Procs
  <2>2. found(what).run = what
    BY FoundIs
  <2>3. PresenceStands(found(what), job, r)
    <3> DEFINE p == found(what)
    <3> HIDE DEF p
    <3>1. p.run = IF r.proc = "executing" THEN "running" ELSE r.proc
      BY <2>2 DEF p
    <3>2. PresenceStands(p, job, r)
      BY <2>1, <3>1 DEF PresenceStands
    <3> QED
      BY <3>2 DEF p
  <2>4. Probe(r) = found(what)
    BY <1>6, ProbeIs
  <2> QED
    BY <1>3, <2>3, <2>4
<1>7. CASE r.dir /\ ~Alive(r)
  <2>1. r.proc \in {"none", "starting"}
    BY <1>7 DEF Alive
  <2>2. Probe(r) = foundDead(r, "lock free")
    BY <1>7, ProbeIs
  <2> QED
    BY <1>3, <1>4, <1>7, <2>1, <2>2
<1> QED
  BY <1>2, <1>3, <1>5, <1>6, <1>7

LEMMA RunFields ==
    ASSUME NEW r \in Run
    PROVE  /\ r.proc \in Procs /\ r.dir \in BOOLEAN /\ r.cancel \in BOOLEAN
           /\ DOMAIN r = {"proc", "dir", "mark", "rebooted", "cancel", "end"}
  BY DEF Run

-----------------------------------------------------------------------------
(* What a step of an effect may do at most. *)

\* d is the effect e, further on.
Goes(e, d) == d.kind = e.kind /\ d.job = e.job /\ d.settlement = e.settlement /\ d.flag = e.flag

LEMMA RunNow ==
    ASSUME RunsInv, Shaped, NEW j \in Jobs
    PROVE  /\ WorldStands(j, store[j], run[j], ran[j]) /\ run[j] \in Run
           /\ (run[j].end = "cancelled" => run[j].cancel) /\ (run[j].proc = "finished" => run[j].end # "none")
<1>1. WorldStands(j, store[j], run[j], ran[j]) /\ run[j] \in Run
  BY StoredStates DEF RunsInv, JobInv
<1> QED
  BY <1>1 DEF WorldStands

LEMMA RebootIs ==
    ASSUME NEW r \in Run
    PROVE  /\ reboot(r).proc = "none" /\ reboot(r).dir = FALSE /\ reboot(r).cancel = r.cancel
           /\ reboot(r).end = r.end /\ reboot(r).mark = r.mark
           /\ (Unsent(reboot(r)) <=> Unsent(r)) /\ (Unmarked(reboot(r)) <=> Unmarked(r))
           /\ (r = NoRun => reboot(r) = NoRun)
<1>1. /\ reboot(r).proc = "none" /\ reboot(r).dir = FALSE /\ reboot(r).cancel = r.cancel
      /\ reboot(r).end = r.end /\ reboot(r).mark = r.mark
  BY RunFields DEF reboot
<1>2. reboot(NoRun) = NoRun
  <2>1. (NoRun.mark # "no record") = FALSE
    BY DEF NoRun
  <2>2. /\ NoRun.proc = "none" /\ NoRun.dir = FALSE /\ NoRun.rebooted = FALSE
        /\ NoRun = [z \in DOMAIN NoRun |-> NoRun[z]]
    BY DEF NoRun
  <2>4. [NoRun EXCEPT !.proc = "none"] = NoRun
    BY <2>2
  <2>5. [NoRun EXCEPT !.dir = FALSE] = NoRun
    BY <2>2
  <2>6. [NoRun EXCEPT !.rebooted = FALSE] = NoRun
    BY <2>2
  <2>3. reboot(NoRun) = [[[NoRun EXCEPT !.proc = "none"] EXCEPT !.dir = FALSE] EXCEPT !.rebooted = FALSE]
    BY <2>1 DEF reboot
  <2> QED
    BY <2>3, <2>4, <2>5, <2>6
<1> QED
  BY <1>1, <1>2 DEF Unsent, Unmarked

Unbegun(e, r, s) ==
    /\ s.proc = "parked" => r.proc = "parked" /\ (r.cancel => s.cancel)
    /\ s.proc = "executing" => r.proc = "executing" \/ (e.kind = "follow" /\ e.at = "tell" /\ r.proc = "parked" /\ ~r.cancel)

Restarts(e, d, s) ==
    d.kind = "follow" /\ d.at \in {"start", "tell"} => e.at = "start" \/ (e.at = "cancel" /\ (s.proc = "parked" => s.cancel))

\* The effect that e becomes.
Onward(e) ==
    \E d : Goes(e, d) /\ effects' = (effects \ {e}) \cup {d} /\ TellsMoved(d) /\ Restarts(e, d, run'[e.job])

Turns(e) ==
    /\ entry' = entry
    /\ \A k \in Jobs : k # e.job => store'[k] = store[k] /\ run'[k] = run[k]
    /\ Over(store[e.job]) => Over(store'[e.job])
    /\ e.kind # "launch" => Unbegun(e, run[e.job], run'[e.job])
    /\ (e.kind = "signal" /\ effects' = effects \ {e}) \/ Onward(e)
=============================================================================
