---------------------------- MODULE RunLogProofs ----------------------------
(***************************************************************************)
(* What the run's log promises of its durable records, for any cadence of  *)
(* the cache and of the checkpoints, any number of records and of          *)
(* processes.  The argument is one of order: a batch is taken of records   *)
(* already written, synced before anything of it is published, and told    *)
(* to a caller only when published, so what is told, named by the head or  *)
(* folded in a keyframe is always within what a loss of power leaves.      *)
(***************************************************************************)
EXTENDS RunLog, WellFoundedInduction, SequenceTheorems, TLAPS

\* Zenon proves a step that names no prover.
USE Zenon

\* Every nonempty set of naturals has a least element.
LEMMA LeastNatural ==
    ASSUME NEW T, T \subseteq Nat, T # {}
    PROVE  \E x \in T : \A y \in T : x <= y
<1> DEFINE R == OpToRel(<, Nat)
<1>1. IsWellFoundedOn(R, Nat)
  BY NatLessThanWellFounded
<1>2. \A x, y \in Nat : <<y, x>> \in R <=> y < x
  BY DEF OpToRel
<1> HIDE DEF R
<1>3. PICK x \in T : \A y \in T : ~(<<y, x>> \in R)
  BY <1>1, WFMin
<1>4. \A y \in T : ~(y < x)
  BY <1>2, <1>3
<1> QED
  BY <1>4, SMT

WriterFields == {"seq", "due", "urgent", "wanted", "closing", "failed", "done",
                 "committed", "ckpt"}
BatchFields == {"at", "from", "upto", "ckpt"}

FieldsOK ==
  /\ DOMAIN w = WriterFields /\ w.seq \in Nat /\ w.committed \in Nat
  /\ DOMAIN c = BatchFields /\ c.from \in Nat /\ c.upto \in Nat
  /\ loop.target \in Nat /\ show.target \in Nat

DiskOK ==
  /\ log \in Seq(Records) /\ life \in Nat /\ up \in BOOLEAN
  /\ synced \in Nat /\ head \in Nat /\ acked \in Nat
  /\ \A f \in frames : f \in Seq(Records)

(* The writer numbers the records of the file, but for one whose write failed, *)
(* and goes no further after an incomplete frame; what it published is synced, *)
(* and so is the batch from its sync on.                                       *)
BatchInOrder ==
  up => /\ w.seq = Len(log) \/ (w.failed /\ w.seq + 1 = Len(log))
        /\ torn => w.failed
        /\ w.committed <= synced /\ c.upto <= w.seq
        /\ c.at \in {"take", "frames", "head", "publish"} => c.upto <= synced

LogInv == DiskOK /\ FieldsOK /\ BatchInOrder /\ ToldTruth /\ FramesTrue /\ Reopens

(* The durable records are in the log after a step as they were before. *)
Kept1 == synced <= synced' /\ \A i \in 1 .. synced : log'[i] = log[i]

-----------------------------------------------------------------------------
(* Facts of sequences. *)

(* A first part of the log has its length and its records. *)
LEMMA PrefixIs ==
  ASSUME NEW s \in Seq(Records), NEW n \in 0 .. Len(s)
  PROVE  /\ SubSeq(s, 1, n) \in Seq(Records) /\ Len(SubSeq(s, 1, n)) = n
         /\ \A i \in 1 .. n : SubSeq(s, 1, n)[i] = s[i]
BY SMT

(* A keyframe that agrees with the log in each record is a first part of it. *)
LEMMA FrameIsPrefix ==
  ASSUME NEW s \in Seq(Records), NEW f \in Seq(Records), Len(f) <= Len(s),
         \A i \in 1 .. Len(f) : f[i] = s[i]
  PROVE  f = SubSeq(s, 1, Len(f))
<1>1. /\ SubSeq(s, 1, Len(f)) \in Seq(Records) /\ Len(SubSeq(s, 1, Len(f))) = Len(f)
      /\ \A i \in 1 .. Len(f) : SubSeq(s, 1, Len(f))[i] = s[i]
  BY PrefixIs, SMT
<1> QED
  BY <1>1, SMT

(* One more record leaves those before it. *)
LEMMA AppendKeeps ==
  ASSUME NEW s \in Seq(Records), NEW r \in Records
  PROVE  /\ Append(s, r) \in Seq(Records) /\ Len(Append(s, r)) = Len(s) + 1
         /\ \A i \in 1 .. Len(s) : Append(s, r)[i] = s[i]
BY SMT

-----------------------------------------------------------------------------
(* What every step does to the disk and to the writer. *)

(* Records are only added or lost past the durable ones, and what is published *)
(* or told is durable by then.                                                 *)
LEMMA DiskStep ==
  ASSUME LogInv,
         log' \in Seq(Records), life' \in Nat, up' \in BOOLEAN,
         synced' \in Nat, synced <= synced', synced' <= Len(log'),
         \A i \in 1 .. synced : log'[i] = log[i],
         frames' = frames, unopened' = unopened,
         head' \in Nat, head' <= synced', acked' \in Nat, acked' <= synced'
  PROVE  DiskOK' /\ ToldTruth' /\ FramesTrue' /\ Reopens' /\ Kept1
<1>1. DiskOK'
  BY DEF LogInv, DiskOK
<1>2. ToldTruth' /\ Reopens' /\ Kept1
  BY DEF LogInv, ToldTruth, Reopens, Kept1
<1>3. FramesTrue'
  <2> SUFFICES ASSUME NEW f \in frames
               PROVE  Len(f) <= synced' /\ \A i \in 1 .. Len(f) : f[i] = log'[i]
    BY DEF FramesTrue
  <2>1. f \in Seq(Records) /\ Len(f) \in Nat /\ synced \in Nat
    BY SMT DEF LogInv, DiskOK
  <2>2. Len(f) <= synced /\ \A i \in 1 .. Len(f) : f[i] = log[i]
    BY DEF LogInv, FramesTrue
  <2> QED
    BY <2>1, <2>2, SMT
<1> QED
  BY <1>1, <1>2, <1>3

(* What a thread does to the log and the writer: it adds one record, none, or   *)
(* one that is not counted as its write fails; a writer that failed gets none. *)
ThreadWrites ==
  /\ DOMAIN w' = WriterFields /\ w'.committed = w.committed
  /\ w.failed => w'.failed
  /\ torn' = torn \/ w'.failed
  /\ \/ log' = log /\ w'.seq = w.seq
     \/ /\ ~w.failed
        /\ \E r \in Records : log' = Append(log, r)
        /\ w'.seq = w.seq + 1 \/ (w'.failed /\ w'.seq = w.seq)

(* A thread that records or waits: it publishes nothing, and is told of no more *)
(* than the committer published.                                               *)
ThreadStep ==
  /\ UNCHANGED <<synced, head, frames, life, up, c, unopened>>
  /\ ThreadWrites
  /\ acked' = acked \/ (acked' \in Nat /\ acked' <= w.committed)
  /\ loop'.target \in Nat /\ show'.target \in Nat

LEMMA ThreadKeeps ==
  ASSUME LogInv, up, ThreadStep
  PROVE  LogInv' /\ Kept1
<1>1. /\ log \in Seq(Records) /\ Len(log) \in Nat /\ synced \in Nat /\ head \in Nat
      /\ acked \in Nat /\ life \in Nat /\ up \in BOOLEAN /\ w.committed \in Nat
      /\ w.seq \in Nat /\ c.upto \in Nat
      /\ synced <= Len(log) /\ head <= synced /\ acked <= synced
      /\ w.committed <= synced /\ c.upto <= w.seq
  <2>1. Len(log) \in Nat
    BY SMT DEF LogInv, DiskOK
  <2> QED
    BY <2>1 DEF LogInv, DiskOK, FieldsOK, ToldTruth, BatchInOrder
<1>11. (w.seq = Len(log) \/ (w.failed /\ w.seq + 1 = Len(log))) /\ (torn => w.failed)
  BY DEF LogInv, BatchInOrder
<1> DEFINE Longer ==
      /\ log' \in Seq(Records) /\ Len(log) <= Len(log')
      /\ w'.seq \in Nat /\ w.seq <= w'.seq
      /\ \A i \in 1 .. synced : log'[i] = log[i]
           Numbered == w'.seq = Len(log') \/ (w'.failed /\ w'.seq + 1 = Len(log'))
<1>2. Longer /\ Numbered
  <2>1. CASE log' = log /\ w'.seq = w.seq
    <3>1. Longer
      BY <1>1, <2>1, SMT
    <3>2. w.failed => w'.failed
      BY DEF ThreadStep, ThreadWrites
    <3>3. Numbered
      BY <1>11, <2>1, <3>2
    <3> QED
      BY <3>1, <3>3
  <2>2. ASSUME NEW r \in Records, log' = Append(log, r), ~w.failed,
               w'.seq = w.seq + 1 \/ (w'.failed /\ w'.seq = w.seq)
        PROVE  Longer /\ Numbered
    <3>1. /\ Append(log, r) \in Seq(Records) /\ Len(Append(log, r)) = Len(log) + 1
          /\ \A i \in 1 .. Len(log) : Append(log, r)[i] = log[i]
      BY <1>1, AppendKeeps
    <3>2. w'.seq = w.seq + 1 \/ w'.seq = w.seq
      BY <2>2
    <3>3. Longer
      BY <1>1, <2>2, <3>1, <3>2, SMT
    <3>4. w.seq = Len(log)
      BY <1>11, <2>2
    <3>5. Numbered
      BY <2>2, <3>1, <3>4
    <3> QED
      BY <3>3, <3>5
  <2> HIDE DEF Longer, Numbered
  <2> QED
    BY <2>1, <2>2 DEF ThreadStep, ThreadWrites
<1>3. synced' = synced /\ head' = head /\ frames' = frames /\ life' = life
      /\ up' = up /\ c' = c /\ unopened' = unopened
  BY DEF ThreadStep
<1>4. acked' \in Nat /\ acked' <= synced
  BY <1>1, SMT DEF ThreadStep
<1>5. DiskOK' /\ ToldTruth' /\ FramesTrue' /\ Reopens' /\ Kept1
  BY <1>1, <1>2, <1>3, <1>4, DiskStep, SMT
<1>6. FieldsOK'
  BY <1>1, <1>2, <1>3 DEF LogInv, FieldsOK, ThreadStep, ThreadWrites
<1>7. BatchInOrder'
  <2>1. w'.committed = w.committed
    BY DEF ThreadStep, ThreadWrites
  <2>2. c.at \in {"take", "frames", "head", "publish"} => c.upto <= synced
    BY DEF LogInv, BatchInOrder
  <2>3. torn' => w'.failed
    BY <1>11 DEF ThreadStep, ThreadWrites
  <2>4. c.upto <= w'.seq
    BY <1>1, <1>2, SMT
  <2> QED
    BY <1>1, <1>2, <1>3, <2>1, <2>2, <2>3, <2>4 DEF BatchInOrder
<1> QED
  BY <1>5, <1>6, <1>7 DEF LogInv

(* A record adds one to the writer's numbers; a request leaves them alone. *)
LEMMA QueuedFields ==
  ASSUME NEW x, DOMAIN x = WriterFields
  PROVE  /\ DOMAIN Queued(x) = WriterFields
         /\ Queued(x).seq = x.seq + 1 /\ Queued(x).committed = x.committed
         /\ Queued(x).failed = x.failed
BY DEF Queued, WriterFields

(* The ways a thread writes. *)
LEMMA Unwritten ==
  ASSUME LogInv, log' = log, torn' = torn, w' = w
  PROVE  ThreadWrites
BY DEF LogInv, FieldsOK, ThreadWrites

LEMMA FailWrites ==
  ASSUME LogInv, NEW by \in Kinds, WriteFails(by), ~w.failed
  PROVE  ThreadWrites
<1>1. [by |-> by, life |-> life] \in Records
  BY DEF LogInv, DiskOK, Records
<1>2. /\ DOMAIN w' = WriterFields /\ w'.committed = w.committed /\ w'.failed
      /\ w'.seq = w.seq
  BY DEF LogInv, FieldsOK, WriteFails, WriterFields
<1>3. log' = log \/ log' = Append(log, [by |-> by, life |-> life])
  BY DEF WriteFails, Leaves, Write
<1> QED
  BY <1>1, <1>2, <1>3 DEF ThreadWrites

LEMMA ShutWrites ==
  ASSUME LogInv, log' = log, torn' = torn, Shut
  PROVE  ThreadWrites
BY DEF LogInv, FieldsOK, ThreadWrites, Shut, Requested, WriterFields

LEMMA RequestWrites ==
  ASSUME LogInv, log' = log, torn' = torn, w' = Requested(w, w.seq, FALSE, FALSE)
  PROVE  ThreadWrites
BY DEF LogInv, FieldsOK, ThreadWrites, Requested, WriterFields

LEMMA QueueWrites ==
  ASSUME LogInv, NEW by \in Kinds, Write(by), w' = Queued(w), torn' = torn, ~w.failed
  PROVE  ThreadWrites
<1>1. [by |-> by, life |-> life] \in Records
  BY DEF LogInv, DiskOK, Records
<1> QED
  BY <1>1, QueuedFields DEF LogInv, FieldsOK, ThreadWrites, Write

LEMMA StageWrites ==
  ASSUME LogInv, NEW by \in Kinds, StageOk(by)
  PROVE  ThreadWrites
<1>3. ~w.failed /\ torn' = torn
  BY DEF StageOk, Follows, Takes
<1>1. CASE by # "edge"
  BY <1>1, <1>3, QueueWrites DEF StageOk
<1>2. CASE by = "edge"
  <2>1. [by |-> by, life |-> life] \in Records
    BY DEF LogInv, DiskOK, Records
  <2>2. /\ DOMAIN Queued(w) = WriterFields
        /\ Queued(w).seq = w.seq + 1 /\ Queued(w).committed = w.committed
    BY QueuedFields DEF LogInv, FieldsOK
  <2>3. w' = Requested(Queued(w), w.seq + 1, TRUE, FALSE)
    BY <1>2 DEF StageOk
  <2>4. DOMAIN w' = WriterFields /\ w'.seq = w.seq + 1 /\ w'.committed = w.committed
    BY <2>2, <2>3 DEF Requested, WriterFields
  <2> QED
    BY <1>3, <2>1, <2>4 DEF ThreadWrites, StageOk, Write
<1> QED
  BY <1>1, <1>2

LEMMA StageFailWrites ==
  ASSUME LogInv, NEW by \in Kinds, StageFails(by)
  PROVE  ThreadWrites
BY Unwritten, FailWrites DEF StageFails, Follows, Takes

(* Who is told is told of a record the committer published. *)
LEMMA Told ==
  ASSUME LogInv, NEW t \in Nat, NEW k \in BOOLEAN, Reached(t, k), Acknowledge(t)
  PROVE  /\ acked' = acked \/ (acked' \in Nat /\ acked' <= w.committed)
         /\ unopened' = unopened
BY DEF LogInv, DiskOK, FieldsOK, Reached, Acknowledge, Larger

(* A step of the thread that shows events. *)
LEMMA ShowIsThread ==
  ASSUME LogInv, ShowSteps \/ ShowCommits
  PROVE  up /\ ThreadStep
<1>1. loop.target \in Nat /\ show.target \in Nat /\ w.seq + 1 \in Nat /\ w.seq \in Nat
  BY SMT DEF LogInv, FieldsOK
<1>2. ASSUME up, ThreadWrites, show'.target \in Nat,
             UNCHANGED <<synced, head, frames, cache, process, c, loop, keeper>>,
             acked' = acked \/ (acked' \in Nat /\ acked' <= w.committed),
             unopened' = unopened
      PROVE  up /\ ThreadStep
  BY <1>1, <1>2 DEF ThreadStep, ThreadWrites, process
<1>3. ASSUME NEW at, Shows(at)
      PROVE  up /\ UNCHANGED <<synced, head, frames, cache, process, c, loop, keeper>>
  BY <1>3 DEF Shows
<1>4. ASSUME NEW at, Shown(at)
      PROVE  show'.target \in Nat
  BY <1>4 DEF Shown
<1>5. CASE ShowEmits
  <2>1. ThreadWrites
    BY <1>5, Unwritten DEF ShowEmits
  <2> QED
    BY <1>2, <1>3, <1>4, <1>5, <2>1 DEF ShowEmits, ghosts
<1>6. CASE ShowStages
  <2>1. ThreadWrites
    BY <1>6, StageWrites, StageFailWrites DEF ShowStages, Kinds
  <2>2. show'.target \in Nat
    <3>1. Mirrored => show'.target \in Nat
      BY <1>4 DEF Mirrored
    <3>2. show' = [at |-> "edge", target |-> w.seq + 1] => show'.target \in Nat
      <4>1. w.seq + 1 \in Nat
        BY <1>1, SMT
      <4>2. [at |-> "edge", target |-> w.seq + 1].target = w.seq + 1
        OBVIOUS
      <4> QED
        BY <4>1, <4>2
    <3>3. Shown("shuts") => show'.target \in Nat
      BY <1>4
    <3> QED
      BY <1>6, <3>1, <3>2, <3>3 DEF ShowStages
  <2> QED
    BY <1>2, <1>3, <1>6, <2>1, <2>2 DEF ShowStages, ghosts
<1>7. CASE ShowEdges
  <2>1. ThreadWrites
    BY <1>7, Unwritten DEF ShowEdges
  <2>2. show'.target \in Nat
    BY <1>4, <1>7 DEF ShowEdges, Mirrored
  <2>3. /\ acked' = acked \/ (acked' \in Nat /\ acked' <= w.committed)
        /\ unopened' = unopened
    BY <1>1, <1>7, Told DEF ShowEdges, ghosts
  <2> QED
    BY <1>2, <1>3, <1>7, <2>1, <2>2, <2>3 DEF ShowEdges
<1>8. CASE ShowShuts
  <2>1. ThreadWrites
    BY <1>8, ShutWrites DEF ShowShuts
  <2> QED
    BY <1>2, <1>3, <1>4, <1>8, <2>1 DEF ShowShuts, ghosts
<1>9. CASE ShowCloses
  <2>1. ThreadWrites
    BY <1>9, Unwritten DEF ShowCloses
  <2> QED
    BY <1>2, <1>3, <1>4, <1>9, <2>1 DEF ShowCloses, ghosts
<1>10. CASE ShowCommitted
  <2>1. ThreadWrites
    BY <1>10, Unwritten DEF ShowCommitted
  <2>2. /\ acked' = acked \/ (acked' \in Nat /\ acked' <= w.committed)
        /\ unopened' = unopened
    BY <1>1, <1>10, Told DEF ShowCommitted, ghosts
  <2> QED
    BY <1>2, <1>3, <1>4, <1>10, <2>1, <2>2 DEF ShowCommitted
<1>11. CASE ShowCommits
  <2>1. ThreadWrites
    BY <1>11, RequestWrites DEF ShowCommits
  <2>2. show'.target \in Nat
    BY <1>1, <1>11 DEF ShowCommits
  <2> QED
    BY <1>2, <1>3, <1>11, <2>1, <2>2 DEF ShowCommits, ghosts
<1> QED
  BY <1>5, <1>6, <1>7, <1>8, <1>9, <1>10, <1>11 DEF ShowSteps

(* A step of the loop's thread. *)
LEMMA LoopIsThread ==
  ASSUME LogInv, LoopSteps \/ LoopBegins \/ LoopHears \/ LoopQuits
  PROVE  up /\ ThreadStep
<1>1. loop.target \in Nat /\ show.target \in Nat /\ w.seq + 1 \in Nat /\ w.seq \in Nat
  BY SMT DEF LogInv, FieldsOK
<1>2. ASSUME up, ThreadWrites, loop'.target \in Nat,
             UNCHANGED <<synced, head, frames, process, c, show>>,
             acked' = acked \/ (acked' \in Nat /\ acked' <= w.committed),
             unopened' = unopened
      PROVE  up /\ ThreadStep
  BY <1>1, <1>2 DEF ThreadStep, ThreadWrites, process
<1>3. ASSUME NEW at, Loops(at)
      PROVE  up /\ UNCHANGED <<synced, head, frames, process, c, show>>
  BY <1>3 DEF Loops
<1>4. ASSUME NEW at, LoopLater(at)
      PROVE  loop'.target \in Nat
  BY <1>4 DEF LoopLater, LoopAt
<1>5. ASSUME NEW at, NEW does, NEW t \in Nat, LoopAt(at, does, t)
      PROVE  loop'.target \in Nat
  BY <1>5 DEF LoopAt
<1>6. CASE LoopStarts
  <2>1. ThreadWrites
    BY <1>6, Unwritten DEF LoopStarts
  <2>2. loop'.target \in Nat
    BY <1>4, <1>5, <1>6 DEF LoopStarts, LoopFails
  <2> QED
    BY <1>2, <1>3, <1>6, <2>1, <2>2 DEF LoopStarts, ghosts
<1>7. CASE LoopBegins
  <2>1. ThreadWrites
    BY <1>7, Unwritten DEF LoopBegins
  <2>2. loop'.target \in Nat
    BY <1>4, <1>5, <1>7 DEF LoopBegins, LoopFails
  <2> QED
    BY <1>2, <1>3, <1>7, <2>1, <2>2 DEF LoopBegins, ghosts
<1>8. CASE LoopShows
  <2>1. ThreadWrites
    BY <1>8, Unwritten, StageWrites, StageFailWrites DEF LoopShows, Kinds
  <2>2. loop'.target \in Nat
    BY <1>1, <1>4, <1>5, <1>8 DEF LoopShows, LoopFails
  <2> QED
    BY <1>2, <1>3, <1>8, <2>1, <2>2 DEF LoopShows, ghosts
<1>9. CASE LoopEdges
  <2>1. ThreadWrites
    BY <1>9, Unwritten DEF LoopEdges
  <2>2. loop'.target \in Nat
    BY <1>4, <1>9 DEF LoopEdges
  <2>3. /\ acked' = acked \/ (acked' \in Nat /\ acked' <= w.committed)
        /\ unopened' = unopened
    BY <1>1, <1>9, Told DEF LoopEdges, ghosts
  <2> QED
    BY <1>2, <1>3, <1>9, <2>1, <2>2, <2>3 DEF LoopEdges
<1>10. CASE LoopShuts \/ LoopLeaves
  <2>1. ThreadWrites
    BY <1>10, ShutWrites DEF LoopShuts, LoopLeaves
  <2> QED
    BY <1>2, <1>3, <1>4, <1>10, <2>1 DEF LoopShuts, LoopLeaves, ghosts
<1>11. CASE LoopCloses \/ LoopQuits
  <2>1. ThreadWrites
    BY <1>11, Unwritten DEF LoopCloses, LoopQuits
  <2> QED
    BY <1>2, <1>3, <1>4, <1>11, <2>1 DEF LoopCloses, LoopQuits, ghosts
<1>12. CASE LoopAppends
  <2>1. ThreadWrites
    BY <1>12, Unwritten, FailWrites, QueueWrites DEF LoopAppends, Kinds, Follows, Takes
  <2>2. loop'.target \in Nat
    BY <1>4, <1>12 DEF LoopAppends, LoopFails
  <2> QED
    BY <1>2, <1>3, <1>12, <2>1, <2>2 DEF LoopAppends, ghosts
<1>13. CASE LoopCommits
  <2>1. ThreadWrites
    BY <1>13, Unwritten, RequestWrites DEF LoopCommits
  <2>2. loop'.target \in Nat
    BY <1>1, <1>4, <1>5, <1>13 DEF LoopCommits, LoopFails
  <2> QED
    BY <1>2, <1>3, <1>13, <2>1, <2>2 DEF LoopCommits, ghosts
<1>14. CASE LoopConfirms
  <2>1. ThreadWrites
    BY <1>14, Unwritten DEF LoopConfirms
  <2>2. loop'.target \in Nat
    BY <1>4, <1>14 DEF LoopConfirms, LoopFails
  <2>3. /\ acked' = acked \/ (acked' \in Nat /\ acked' <= w.committed)
        /\ unopened' = unopened
    BY <1>1, <1>14, Told DEF LoopConfirms, ghosts
  <2> QED
    BY <1>2, <1>3, <1>14, <2>1, <2>2, <2>3 DEF LoopConfirms
<1>15. CASE LoopKeeps
  <2>1. ThreadWrites
    BY <1>15, Unwritten DEF LoopKeeps
  <2>2. loop'.target \in Nat
    BY <1>4, <1>15 DEF LoopKeeps
  <2> QED
    BY <1>2, <1>3, <1>15, <2>1, <2>2 DEF LoopKeeps, ghosts
<1>16. CASE LoopHears
  <2>1. ThreadWrites
    BY <1>16, Unwritten DEF LoopHears
  <2>2. loop'.target \in Nat
    BY <1>4, <1>5, <1>16 DEF LoopHears, LoopFails
  <2> QED
    BY <1>2, <1>3, <1>16, <2>1, <2>2 DEF LoopHears, ghosts
<1> QED
  BY <1>6, <1>7, <1>8, <1>9, <1>10, <1>11, <1>12, <1>13, <1>14, <1>15, <1>16 DEF LoopSteps

(* A keyframe is published of a record of the batch, and so of a durable one. *)
LEMMA CheckpointsDurable ==
  ASSUME LogInv, up, c.at = "frames", NEW n \in Checkpoints
  PROVE  n \in 0 .. synced
BY SMT DEF LogInv, FieldsOK, DiskOK, BatchInOrder, Checkpoints, Edges, Batch

LEMMA FramesKept ==
  ASSUME LogInv, up, c.at = "frames", NEW S \in SUBSET Checkpoints,
         frames' = frames \cup {Prefix(n) : n \in S},
         UNCHANGED <<log, synced>>
  PROVE  FramesTrue' /\ \A f \in frames' : f \in Seq(Records)
<1>1. log \in Seq(Records) /\ synced \in Nat /\ synced <= Len(log) /\ Len(log) \in Nat
  BY SMT DEF LogInv, DiskOK, ToldTruth
<1>2. ASSUME NEW f \in frames
      PROVE  /\ f \in Seq(Records)
             /\ Len(f) <= synced /\ \A i \in 1 .. Len(f) : f[i] = log[i]
  BY DEF LogInv, DiskOK, FramesTrue
<1>3. ASSUME NEW n \in S
      PROVE  /\ Prefix(n) \in Seq(Records)
             /\ Len(Prefix(n)) <= synced
             /\ \A i \in 1 .. Len(Prefix(n)) : Prefix(n)[i] = log[i]
  <2>1. n \in 0 .. synced /\ n \in 0 .. Len(log)
    BY <1>1, CheckpointsDurable, SMT
  <2> QED
    BY <1>1, <2>1, PrefixIs, SMT DEF Prefix
<1> QED
  BY <1>2, <1>3 DEF FramesTrue

(* Every step of the committer thread. *)
LEMMA CommitterKeeps ==
  ASSUME LogInv, CommitterSteps \/ DeadlinePasses
  PROVE  LogInv' /\ Kept1
<1>1. /\ log \in Seq(Records) /\ Len(log) \in Nat /\ synced \in Nat /\ head \in Nat
      /\ acked \in Nat /\ life \in Nat /\ up \in BOOLEAN
      /\ synced <= Len(log) /\ head <= synced /\ acked <= synced
  BY SMT DEF LogInv, DiskOK, ToldTruth
<1>2. /\ DOMAIN w = WriterFields /\ w.committed \in Nat /\ w.seq \in Nat
      /\ DOMAIN c = BatchFields /\ c.from \in Nat /\ c.upto \in Nat
  BY DEF LogInv, FieldsOK
<1>3. /\ up /\ life' = life /\ up' = up /\ loop' = loop /\ show' = show
      /\ acked' = acked /\ unopened' = unopened /\ log' = log /\ torn' = torn
  BY DEF CommitterSteps, TakeBatch, TakeNothing, SyncLog, PublishFrames, PublishHead,
         PublishCommit, CommitterStops, DeadlinePasses, Committer, process, ghosts, disk
<1>4. /\ w.seq \in Nat /\ w.seq <= Len(log) /\ w.committed <= synced /\ c.upto <= w.seq
      /\ c.at \in {"take", "frames", "head", "publish"} => c.upto <= synced
  <2>1. /\ w.seq = Len(log) \/ w.seq + 1 = Len(log)
        /\ w.committed <= synced /\ c.upto <= w.seq
        /\ c.at \in {"take", "frames", "head", "publish"} => c.upto <= synced
    BY <1>3 DEF LogInv, BatchInOrder
  <2> QED
    BY <1>1, <1>2, <2>1, SMT
<1>15. (w.seq = Len(log) \/ (w.failed /\ w.seq + 1 = Len(log))) /\ (torn => w.failed)
  BY <1>3 DEF LogInv, BatchInOrder
<1>16. w.failed => w'.failed
  BY <1>2 DEF CommitterSteps, TakeBatch, Taken, TakeNothing, SyncLog, PublishFrames,
              PublishHead, PublishCommit, CommitterStops, DeadlinePasses, CommitterFails,
              WriterFields
<1> DEFINE Batched ==
      /\ DOMAIN w' = WriterFields /\ w'.seq = w.seq
      /\ w'.committed \in Nat /\ w'.committed <= synced'
      /\ DOMAIN c' = BatchFields /\ c'.from \in Nat /\ c'.upto \in Nat
      /\ c'.upto <= w.seq
      /\ c'.at \in {"take", "frames", "head", "publish"} => c'.upto <= synced'
<1>5. ASSUME Batched, synced' \in Nat, synced <= synced', synced' <= Len(log),
             frames' = frames, head' \in Nat, head' <= synced'
      PROVE  LogInv' /\ Kept1
  <2>1. DiskOK' /\ ToldTruth' /\ FramesTrue' /\ Reopens' /\ Kept1
    BY <1>1, <1>3, <1>5, DiskStep, SMT
  <2>2. FieldsOK'
    BY <1>2, <1>3, <1>5 DEF LogInv, FieldsOK
  <2>3. BatchInOrder'
    BY <1>3, <1>4, <1>5, <1>15, <1>16 DEF BatchInOrder
  <2> QED
    BY <2>1, <2>2, <2>3 DEF LogInv
<1>6. CASE TakeBatch
  <2>1. synced' = synced /\ head' = head /\ frames' = frames
    BY <1>6 DEF TakeBatch, disk
  <2>2. DOMAIN w' = WriterFields /\ w'.seq = w.seq /\ w'.committed = w.committed
    BY <1>2, <1>6 DEF TakeBatch, Taken, WriterFields
  <2>3. /\ DOMAIN c' = BatchFields /\ c'.from = c.upto /\ c'.upto = w.seq
        /\ c'.at = IF c.upto = w.seq THEN "frames" ELSE "sync"
    BY <1>6 DEF TakeBatch, BatchFields
  <2>4. c.upto <= synced
    BY <1>4, <1>6 DEF TakeBatch
  <2>5. Batched
    BY <1>1, <1>2, <1>4, <2>1, <2>2, <2>3, <2>4, SMT
  <2> QED
    BY <1>1, <1>5, <2>1, <2>5, SMT
<1>7. CASE TakeNothing
  <2>1. synced' = synced /\ head' = head /\ frames' = frames /\ w' = w
    BY <1>7 DEF TakeNothing, disk
  <2>2. c' = c \/ c' = [c EXCEPT !.at = "stop"]
    BY <1>7 DEF TakeNothing
  <2>3. Batched
    BY <1>1, <1>2, <1>4, <2>1, <2>2 DEF BatchFields
  <2> QED
    BY <1>1, <1>5, <2>1, <2>3, SMT
<1>8. CASE DeadlinePasses
  <2>1. /\ synced' = synced /\ head' = head /\ frames' = frames /\ c' = c
        /\ w' = [w EXCEPT !.due = "now"]
    BY <1>8 DEF DeadlinePasses, disk
  <2>2. Batched
    BY <1>1, <1>2, <1>4, <2>1 DEF WriterFields
  <2> QED
    BY <1>1, <1>5, <2>1, <2>2, SMT
<1>9. ASSUME CommitterFails, synced' = synced
      PROVE  Batched
  BY <1>1, <1>2, <1>4, <1>9 DEF CommitterFails, WriterFields, BatchFields
<1>10. CASE SyncLog
  <2>1. head' = head /\ frames' = frames
    BY <1>10 DEF SyncLog
  <2>2. CASE CommitterFails /\ UNCHANGED synced
    BY <1>1, <1>5, <1>9, <2>1, <2>2, SMT
  <2>3. CASE synced' = Len(log) /\ c' = [c EXCEPT !.at = "frames"] /\ w' = w
    <3>1. Batched
      BY <1>1, <1>2, <1>4, <2>3, SMT DEF BatchFields
    <3> QED
      BY <1>1, <1>5, <2>1, <2>3, <3>1, SMT
  <2> QED
    BY <1>10, <2>2, <2>3 DEF SyncLog
<1>11. CASE PublishHead
  <2>1. /\ synced' = synced /\ frames' = frames /\ head' \in {head, c.upto}
    BY <1>1, <1>11, SMT DEF PublishHead, Headlines
  <2>2. c.upto <= synced
    BY <1>4, <1>11 DEF PublishHead
  <2>3. CASE CommitterFails
    BY <1>1, <1>2, <1>5, <1>9, <2>1, <2>2, <2>3, SMT
  <2>4. CASE c' = [c EXCEPT !.at = "publish"] /\ w' = w
    <3>1. Batched
      BY <1>1, <1>2, <1>4, <2>1, <2>2, <2>4 DEF BatchFields
    <3> QED
      BY <1>1, <1>2, <1>5, <2>1, <2>2, <3>1, SMT
  <2> QED
    BY <1>11, <2>3, <2>4 DEF PublishHead
<1>12. CASE PublishCommit
  <2>1. /\ synced' = synced /\ head' = head /\ frames' = frames
        /\ w' = [w EXCEPT !.committed = c.upto] /\ c' = [c EXCEPT !.at = "take"]
    BY <1>12 DEF PublishCommit, disk
  <2>2. c.upto <= synced
    BY <1>4, <1>12 DEF PublishCommit
  <2>3. Batched
    BY <1>1, <1>2, <1>4, <2>1, <2>2 DEF WriterFields, BatchFields
  <2> QED
    BY <1>1, <1>5, <2>1, <2>3, SMT
<1>13. CASE CommitterStops
  <2>1. /\ synced' = synced /\ head' = head /\ frames' = frames
        /\ c' = [c EXCEPT !.at = "gone"]
    BY <1>13 DEF CommitterStops, disk
  <2>2. PICK failed \in {w.failed, TRUE} :
          w' = [w EXCEPT !.done = TRUE, !.failed = failed]
    BY <1>13 DEF CommitterStops
  <2>3. Batched
    BY <1>1, <1>2, <1>4, <2>1, <2>2 DEF WriterFields, BatchFields
  <2> QED
    BY <1>1, <1>5, <2>1, <2>3, SMT
<1>14. CASE PublishFrames
  <2>1. c.at = "frames" /\ synced' = synced /\ head' = head
    BY <1>14 DEF PublishFrames
  <2>2. \E S \in SUBSET Checkpoints : frames' = frames \cup {Prefix(n) : n \in S}
    BY <1>14 DEF PublishFrames
  <2>3. FramesTrue' /\ \A f \in frames' : f \in Seq(Records)
    BY <1>3, <2>1, <2>2, FramesKept
  <2>4. DiskOK' /\ ToldTruth' /\ Reopens' /\ Kept1
    BY <1>1, <1>3, <2>1, <2>3, SMT DEF LogInv, DiskOK, ToldTruth, Reopens, Kept1
  <2>5. Batched
    <3>1. CASE CommitterFails
      BY <1>9, <2>1, <3>1
    <3>2. ASSUME NEW at, NEW k, c' = [c EXCEPT !.at = at], w' = [w EXCEPT !.ckpt = k]
          PROVE  Batched
      BY <1>1, <1>2, <1>4, <2>1, <3>2 DEF WriterFields, BatchFields
    <3> HIDE DEF Batched
    <3> QED
      BY <1>14, <3>1, <3>2 DEF PublishFrames
  <2>6. FieldsOK'
    BY <1>2, <1>3, <2>5 DEF LogInv, FieldsOK
  <2>7. BatchInOrder'
    BY <1>3, <1>4, <1>15, <1>16, <2>5 DEF BatchInOrder
  <2> QED
    BY <2>3, <2>4, <2>6, <2>7 DEF LogInv
<1> QED
  BY <1>6, <1>7, <1>8, <1>10, <1>11, <1>12, <1>13, <1>14 DEF CommitterSteps

(* A process that ends, by itself, by a crash or by a loss of power, leaves    *)
(* at least what was synced.                                                   *)
LEMMA GoneKeeps ==
  ASSUME LogInv, LoopExits \/ Crash \/ PowerLoss
  PROVE  LogInv' /\ Kept1
<1>1. /\ log \in Seq(Records) /\ Len(log) \in Nat /\ synced \in Nat /\ head \in Nat
      /\ acked \in Nat /\ life \in Nat
      /\ synced <= Len(log) /\ head <= synced /\ acked <= synced
  BY SMT DEF LogInv, DiskOK, ToldTruth
<1>2. Gone /\ synced' = synced
  BY DEF LoopExits, Crash, PowerLoss
<1>3. \E n \in synced .. Len(log) : log' = SubSeq(log, 1, n)
  <2>1. CASE LoopExits \/ Crash
    <3>1. log' = log
      BY <2>1 DEF LoopExits, Crash
    <3>2. log = SubSeq(log, 1, Len(log))
      BY <1>1, FrameIsPrefix, SMT
    <3>3. Len(log) \in synced .. Len(log)
      BY <1>1, SMT
    <3> QED
      BY <3>1, <3>2, <3>3
  <2>2. CASE PowerLoss
    BY <2>2 DEF PowerLoss, Prefix
  <2> QED
    BY <2>1, <2>2
<1>4. PICK n \in synced .. Len(log) : log' = SubSeq(log, 1, n)
  BY <1>3
<1>5. /\ log' \in Seq(Records) /\ Len(log') = n
      /\ \A i \in 1 .. synced : log'[i] = log[i]
  <2>1. n \in 0 .. Len(log)
    BY <1>1, SMT
  <2> QED
    BY <1>1, <1>4, <2>1, PrefixIs, SMT
<1>6. DiskOK' /\ ToldTruth' /\ FramesTrue' /\ Reopens' /\ Kept1
  <2>1. up' = FALSE /\ head' = head /\ frames' = frames /\ life' = life
        /\ acked' = acked /\ unopened' = unopened
    BY <1>2 DEF Gone, ghosts
  <2> QED
    <3>1. up' \in BOOLEAN
      BY <2>1
    <3>2. /\ synced' \in Nat /\ synced <= synced' /\ synced' <= Len(log')
          /\ head' \in Nat /\ head' <= synced' /\ acked' \in Nat /\ acked' <= synced'
          /\ life' \in Nat
      BY <1>1, <1>2, <1>4, <1>5, <2>1, SMT
    <3> QED
      BY <1>5, <2>1, <3>1, <3>2, DiskStep
<1>7. FieldsOK' /\ BatchInOrder'
  BY <1>2 DEF Gone, FieldsOK, BatchInOrder, NoWriter, NoBatch, WriterFields, BatchFields
<1> QED
  BY <1>6, <1>7 DEF LogInv

(* A log that is opened is accepted, and all that is read of it made durable. *)
LEMMA OpensKeeps ==
  ASSUME LogInv, Opens
  PROVE  LogInv' /\ Kept1
<1>1. /\ log \in Seq(Records) /\ Len(log) \in Nat /\ synced \in Nat /\ head \in Nat
      /\ acked \in Nat /\ life \in Nat
      /\ synced <= Len(log) /\ head <= synced /\ acked <= synced
  BY SMT DEF LogInv, DiskOK, ToldTruth
<1>2. ASSUME NEW f \in frames
      PROVE  /\ f \in Seq(Records) /\ Len(f) \in Nat
             /\ Len(f) <= synced /\ \A i \in 1 .. Len(f) : f[i] = log[i]
  BY SMT DEF LogInv, DiskOK, FramesTrue
<1>3. ~Conflicts(Len(log))
  <2> SUFFICES ASSUME NEW f \in frames, Len(f) = Len(log)
               PROVE  f = SubSeq(log, 1, Len(f))
    BY DEF Conflicts, Prefix
  <2> QED
    BY <1>1, <1>2, FrameIsPrefix, SMT
<1>4. ~(Len(log) < head)
  BY <1>1, SMT
<1>5. /\ log' = log /\ synced' = Len(log) /\ head' \in {0, Len(log)} /\ torn' = FALSE
      /\ frames' = IF log = << >> THEN frames ELSE frames \cup {log}
      /\ unopened' = unopened /\ acked' = acked /\ loop' = loop /\ show' = show
      /\ Opened
  BY <1>3, <1>4 DEF Opens, Complete, Headlines
<1>6. up' = TRUE /\ life' \in Nat
  BY <1>1, <1>5, SMT DEF Opened
<1>7. /\ \A f \in frames' : f \in Seq(Records)
      /\ FramesTrue'
  BY <1>1, <1>2, <1>5, SMT DEF FramesTrue
<1>8. DiskOK' /\ ToldTruth' /\ Reopens' /\ Kept1
  BY <1>1, <1>5, <1>6, <1>7, SMT DEF LogInv, DiskOK, ToldTruth, Reopens, Kept1
<1>9. FieldsOK' /\ BatchInOrder'
  <2>1. /\ DOMAIN w' = WriterFields /\ w'.seq = Len(log) /\ w'.committed = Len(log)
    BY <1>5 DEF Opened, NoWriter, WriterFields
  <2>2. /\ DOMAIN c' = BatchFields /\ c'.from = Len(log) /\ c'.upto = Len(log)
    BY <1>5 DEF Opened, BatchFields
  <2> QED
    BY <1>1, <1>5, <1>6, <2>1, <2>2, SMT DEF LogInv, FieldsOK, BatchInOrder
<1> QED
  BY <1>7, <1>8, <1>9 DEF LogInv

(* An opening that fails on the way has published nothing it did not sync. *)
LEMMA OpenFailsKeeps ==
  ASSUME LogInv, OpenFails
  PROVE  LogInv' /\ Kept1
<1>1. /\ log \in Seq(Records) /\ Len(log) \in Nat /\ synced \in Nat /\ head \in Nat
      /\ acked \in Nat /\ life \in Nat /\ up \in BOOLEAN
      /\ synced <= Len(log) /\ head <= synced /\ acked <= synced
  BY SMT DEF LogInv, DiskOK, ToldTruth
<1>2. /\ ~up /\ log' = log /\ life' = life /\ up' = up
      /\ w' = w /\ c' = c /\ loop' = loop /\ show' = show
      /\ acked' = acked /\ unopened' = unopened
  BY DEF OpenFails, process, ghosts
<1>3. /\ synced' \in Nat /\ synced <= synced' /\ synced' <= Len(log)
      /\ head' \in Nat /\ head' <= synced'
      /\ frames' = frames \/ (frames' = frames \cup {log} /\ synced' = Len(log))
  BY <1>1, SMT DEF OpenFails
<1>4. ASSUME NEW f \in frames'
      PROVE  /\ f \in Seq(Records)
             /\ Len(f) <= synced' /\ \A i \in 1 .. Len(f) : f[i] = log[i]
  <2>1. CASE f \in frames
    <3>1. f \in Seq(Records) /\ Len(f) \in Nat
          /\ Len(f) <= synced /\ \A i \in 1 .. Len(f) : f[i] = log[i]
      BY <2>1, SMT DEF LogInv, DiskOK, FramesTrue
    <3> QED
      BY <1>1, <1>3, <3>1, SMT
  <2>2. CASE f = log /\ synced' = Len(log)
    BY <1>1, <2>2, SMT
  <2> QED
    BY <1>3, <1>4, <2>1, <2>2
<1>5. FramesTrue' /\ \A f \in frames' : f \in Seq(Records)
  BY <1>2, <1>4 DEF FramesTrue
<1>6. DiskOK' /\ ToldTruth' /\ Reopens' /\ Kept1
  BY <1>1, <1>2, <1>3, <1>5, SMT DEF LogInv, DiskOK, ToldTruth, Reopens, Kept1
<1>7. FieldsOK' /\ BatchInOrder'
  BY <1>2 DEF LogInv, FieldsOK, BatchInOrder
<1> QED
  BY <1>5, <1>6, <1>7 DEF LogInv

-----------------------------------------------------------------------------
(* The theorems. *)

(* Every step keeps the invariant and the durable records. *)
LEMMA StepKeeps ==
  ASSUME LogInv, [Next]_vars
  PROVE  LogInv' /\ Kept1
<1>1. ASSUME UNCHANGED <<disk, life, up, w, c, loop, show, ghosts>>
      PROVE  LogInv' /\ Kept1
  <2>1. DiskOK' /\ FieldsOK' /\ BatchInOrder'
    BY <1>1 DEF LogInv, DiskOK, FieldsOK, BatchInOrder, disk, ghosts
  <2>2. ToldTruth' /\ FramesTrue' /\ Reopens'
    BY <1>1 DEF LogInv, ToldTruth, FramesTrue, Reopens, disk, ghosts
  <2>3. Kept1
    BY <1>1, SMT DEF LogInv, DiskOK, Kept1, disk
  <2> QED
    BY <2>1, <2>2, <2>3 DEF LogInv
<1>2. CASE SleepsAgain \/ UNCHANGED vars
  BY <1>1, <1>2 DEF SleepsAgain, vars, process
<1>3. CASE CommitterSteps \/ DeadlinePasses
  BY <1>3, CommitterKeeps
<1>4. CASE ShowSteps \/ ShowCommits
  BY <1>4, ShowIsThread, ThreadKeeps
<1>5. CASE LoopSteps \/ LoopBegins \/ LoopHears \/ LoopQuits
  BY <1>5, LoopIsThread, ThreadKeeps
<1>6. CASE LoopExits \/ Crash \/ PowerLoss
  BY <1>6, GoneKeeps
<1> QED
  BY <1>2, <1>3, <1>4, <1>5, <1>6, OpensKeeps, OpenFailsKeeps DEF Next

LEMMA InitInv == Init => LogInv
<1> SUFFICES ASSUME Init PROVE LogInv
  OBVIOUS
<1>1. DiskOK
  <2>1. up \in BOOLEAN
    BY DEF Init
  <2>2. /\ log \in Seq(Records) /\ life \in Nat
        /\ synced \in Nat /\ head \in Nat /\ acked \in Nat /\ frames = {}
    BY SMT DEF Init
  <2> QED
    BY <2>1, <2>2 DEF DiskOK
<1>2. FieldsOK
  BY DEF Init, FieldsOK, NoWriter, NoBatch, WriterFields, BatchFields
<1>3. BatchInOrder
  BY DEF Init, BatchInOrder
<1>4. ToldTruth /\ FramesTrue /\ Reopens
  BY SMT DEF Init, ToldTruth, FramesTrue, Reopens
<1> QED
  BY <1>1, <1>2, <1>3, <1>4 DEF LogInv

(* Whatever fails, dies or loses power, and whenever: what a caller was told is  *)
(* durable and what the head names are synced, every keyframe is a fold of the   *)
(* log's own durable records, and a later process can open the log (append,      *)
(* commit, _commit_batch and _recover of the file writer).                       *)
THEOREM LogDurable == Spec => [](ToldTruth /\ FramesTrue /\ Reopens)
<1>1. Init => LogInv
  BY InitInv
<1>2. LogInv /\ [Next]_vars => LogInv'
  BY StepKeeps
<1>3. LogInv => ToldTruth /\ FramesTrue /\ Reopens
  BY DEF LogInv
<1> QED
  BY <1>1, <1>2, <1>3, PTL DEF Spec

(* No step takes a durable record back or changes it: not a failed write, a      *)
(* crash, a loss of power, a refused start or the recovery of a torn log.        *)
THEOREM DurableKept == Spec => DurableStays
<1>1. Init => LogInv
  BY InitInv
<1>2. LogInv /\ [Next]_vars => LogInv'
  BY StepKeeps
<1>3. LogInv /\ [Next]_vars => [synced <= synced' /\ \A i \in 1 .. synced : log'[i] = log[i]]_vars
  BY StepKeeps DEF Kept1
<1> QED
  BY <1>1, <1>2, <1>3, PTL DEF Spec, DurableStays

-----------------------------------------------------------------------------
(* The types of what the threads share. *)

Writers == [seq : Nat, due : {"no", "later", "now"}, urgent : Nat, wanted : Nat,
            closing : BOOLEAN, failed : BOOLEAN, done : BOOLEAN,
            committed : Nat, ckpt : Nat]
Batches == [at : {"take", "sync", "frames", "head", "publish", "stop", "gone"},
            from : Nat, upto : Nat, ckpt : BOOLEAN]
Loopers == [at : {"start", "idle", "announce", "edge", "shuts", "closes", "append",
                  "commit", "wait", "keep", "leave", "exits"},
            does : {"opens", "goes", "parks", "ends"}, target : Nat]
Showers == [at : {"idle", "emits", "edge", "shuts", "closes", "wait"}, target : Nat]
Keepers == [digest : Seq(Records), fold : Seq(Records), rules : Nat, since : Nat]
Caches == [digest : Seq(Records), state : Seq(Records), rules : Nat]
Prefixes == [read : BOOLEAN, prefix : Seq(Records)]

WriterOK == w \in Writers /\ c \in Batches /\ woken \subseteq Threads
            /\ (up => w.committed <= c.upto)
SharedOK == /\ confirmed \in Prefixes /\ torn \in BOOLEAN /\ sink \in BOOLEAN
            /\ lock \in {"none", "loop", "show"} /\ journal \in {"none", "loop", "show"}
ThreadsOK == loop \in Loopers /\ show \in Showers
FoldOK == keeper \in Keepers /\ cache \in Caches /\ code \in {1, 2}
TypesOK == WriterOK /\ SharedOK /\ ThreadsOK /\ FoldOK

(* What a call does to the writer's fields. *)
LEMMA QueuedIs ==
  ASSUME NEW x \in Writers
  PROVE  /\ Queued(x) \in Writers
         /\ Queued(x).seq = x.seq + 1 /\ Queued(x).committed = x.committed
         /\ Queued(x).failed = x.failed /\ Queued(x).closing = x.closing
<1> DEFINE due == IF x.due = "no" THEN "later" ELSE x.due
<1>1. x.seq + 1 \in Nat /\ due \in {"no", "later", "now"}
  BY SMT DEF Writers
<1> HIDE DEF due
<1>2. Queued(x) = [x EXCEPT !.seq = x.seq + 1, !.due = due]
  BY DEF Queued, due
<1> QED
  BY <1>1, <1>2 DEF Writers

LEMMA RequestedIs ==
  ASSUME NEW x \in Writers, NEW t \in Nat, NEW k \in BOOLEAN, NEW cl \in BOOLEAN
  PROVE  /\ Requested(x, t, k, cl) \in Writers
         /\ Requested(x, t, k, cl).seq = x.seq
         /\ Requested(x, t, k, cl).committed = x.committed
         /\ Requested(x, t, k, cl).failed = x.failed
         /\ cl => Requested(x, t, k, cl).closing
         /\ ~cl => Requested(x, t, k, cl).closing = x.closing
<1> DEFINE urgent == Larger(x.urgent, t)
           wanted == IF k THEN Larger(x.wanted, t) ELSE x.wanted
           closing == x.closing \/ cl
<1>1. urgent \in Nat /\ wanted \in Nat
  BY DEF Larger, Writers
<1>2. closing \in BOOLEAN /\ (cl => closing) /\ (~cl => closing = x.closing)
  BY DEF Writers
<1> HIDE DEF urgent, wanted, closing
<1>3. Requested(x, t, k, cl) =
        [x EXCEPT !.urgent = urgent, !.wanted = wanted, !.closing = closing]
  BY DEF Requested, urgent, wanted, closing
<1>4. /\ Requested(x, t, k, cl) \in Writers
      /\ Requested(x, t, k, cl).seq = x.seq
      /\ Requested(x, t, k, cl).committed = x.committed
      /\ Requested(x, t, k, cl).failed = x.failed
      /\ Requested(x, t, k, cl).closing = closing
  BY <1>1, <1>2, <1>3 DEF Writers
<1> QED
  BY <1>2, <1>4

LEMMA ShutIs ==
  ASSUME WriterOK, Shut
  PROVE  /\ w' \in Writers /\ w'.seq = w.seq /\ w'.committed = w.committed
         /\ w'.failed = w.failed /\ w'.closing /\ woken' \subseteq Threads
<1>1. w \in Writers /\ w.seq \in Nat
  BY DEF WriterOK, Writers
<1>2. w' = Requested(w, w.seq, TRUE, TRUE) /\ TRUE \in BOOLEAN
  BY DEF Shut
<1>3. w' \in Writers /\ w'.seq = w.seq /\ w'.committed = w.committed /\ w'.failed = w.failed
  BY <1>1, <1>2, RequestedIs
<1>4. w'.closing
  BY <1>1, <1>2, RequestedIs
<1> QED
  BY <1>3, <1>4 DEF Shut, Notified

(* What a step may do to the file: leave it, or add a record. *)
Grown == log' = log \/ \E r \in Records : log' = Append(log, r)

LEMMA WriteFailsIs ==
  ASSUME LogInv, TypesOK, NEW by \in Kinds, WriteFails(by)
  PROVE  /\ w' \in Writers /\ w'.seq = w.seq /\ w'.committed = w.committed
         /\ w'.failed /\ woken' \subseteq Threads /\ Grown
         /\ torn' \in BOOLEAN
<1>1. [by |-> by, life |-> life] \in Records /\ w \in Writers /\ torn \in BOOLEAN
  BY DEF LogInv, DiskOK, Records, TypesOK, WriterOK, SharedOK
<1>2. Grown /\ torn' \in BOOLEAN
  BY <1>1 DEF WriteFails, Leaves, Write, Grown
<1> QED
  BY <1>1, <1>2 DEF WriteFails, Notified, Writers

(* The prefix the appender reads, or holds, is a sequence of records. *)
LEMMA PrefixNowIs ==
  ASSUME LogInv, TypesOK, up
  PROVE  PrefixNow \in Seq(Records)
<1>1. w.committed \in 0 .. Len(log) /\ log \in Seq(Records)
  BY SMT DEF LogInv, DiskOK, FieldsOK, BatchInOrder, ToldTruth
<1>2. confirmed.prefix \in Seq(Records)
  BY DEF TypesOK, SharedOK, Prefixes
<1>3. Prefix(w.committed) \in Seq(Records)
  BY <1>1, PrefixIs DEF Prefix
<1> QED
  BY <1>2, <1>3 DEF PrefixNow

LEMMA StageIs ==
  ASSUME LogInv, TypesOK, up, NEW by \in Kinds, StageOk(by)
  PROVE  /\ w' \in Writers /\ w'.seq = w.seq + 1 /\ w'.committed = w.committed
         /\ w'.failed = w.failed /\ w'.closing = w.closing
         /\ woken' \subseteq Threads /\ torn' = torn /\ Follows
         /\ log' = Append(log, [by |-> by, life |-> life])
         /\ confirmed' = [read |-> by # "edge",
                          prefix |-> Append(PrefixNow, [by |-> by, life |-> life])]
         /\ confirmed' \in Prefixes
<1>1. w \in Writers /\ w.seq + 1 \in Nat
  BY SMT DEF TypesOK, WriterOK, Writers
<1>2. /\ Queued(w) \in Writers /\ Queued(w).seq = w.seq + 1
      /\ Queued(w).committed = w.committed
      /\ Queued(w).failed = w.failed /\ Queued(w).closing = w.closing
  BY <1>1, QueuedIs
<1>3. /\ w' \in Writers /\ w'.seq = w.seq + 1 /\ w'.committed = w.committed
      /\ w'.failed = w.failed /\ w'.closing = w.closing
  <2>1. CASE by # "edge"
    BY <1>2, <2>1 DEF StageOk
  <2>2. CASE by = "edge"
    <3>1. w' = Requested(Queued(w), w.seq + 1, TRUE, FALSE)
      BY <2>2 DEF StageOk
    <3>2. TRUE \in BOOLEAN /\ FALSE \in BOOLEAN /\ ~FALSE
      OBVIOUS
    <3> QED
      BY <1>1, <1>2, <3>1, <3>2, RequestedIs
  <2> QED
    BY <2>1, <2>2
<1>4. [by |-> by, life |-> life] \in Records
  BY DEF LogInv, DiskOK, Records
<1>5. Append(PrefixNow, [by |-> by, life |-> life]) \in Seq(Records)
  BY <1>4, PrefixNowIs, AppendKeeps
<1> QED
  BY <1>3, <1>5 DEF StageOk, Write, Extended, Notified, Prefixes

LEMMA StageFailsIs ==
  ASSUME LogInv, TypesOK, NEW by \in Kinds, StageFails(by)
  PROVE  /\ w' \in Writers /\ w'.seq = w.seq /\ w'.committed = w.committed
         /\ woken' \subseteq Threads /\ torn' \in BOOLEAN /\ Grown
         /\ confirmed' \in Prefixes /\ confirmed' \in {confirmed, Unread}
         /\ \/ w' = w /\ log' = log
            \/ w'.failed /\ confirmed' = Unread
<1>1. confirmed \in Prefixes /\ Unread \in Prefixes /\ WriterOK /\ torn \in BOOLEAN
  BY SMT DEF TypesOK, SharedOK, Prefixes, Unread
<1>2. CASE /\ confirmed' \in {confirmed, Unread}
           /\ UNCHANGED <<log, torn, w, woken>>
  BY <1>1, <1>2 DEF WriterOK, Grown
<1>3. CASE Follows /\ WriteFails(by) /\ confirmed' = Unread
  BY <1>1, <1>3, WriteFailsIs
<1> QED
  BY <1>2, <1>3 DEF StageFails

(* The last boundary of a batch is one of its records. *)
LEMMA AfterEdgesIs ==
  ASSUME LogInv, TypesOK
  PROVE  AfterEdges \in Nat
<1>1. c.from \in Nat /\ c.upto \in Nat /\ w.ckpt \in Nat
  BY DEF TypesOK, WriterOK, Writers, Batches
<1>2. CASE Edges = {}
  BY <1>1, <1>2 DEF AfterEdges
<1>3. CASE Edges # {}
  <2>1. Edges \subseteq 0 .. c.upto
    BY <1>1, SMT DEF Edges, Batch
  <2> DEFINE T == {c.upto - n : n \in Edges}
  <2>2. T \subseteq Nat /\ T # {}
    <3>1. \A n \in Edges : c.upto - n \in Nat
      BY <1>1, <2>1, SMT
    <3> QED
      BY <1>3, <3>1
  <2>3. PICK x \in T : \A y \in T : x <= y
    BY <2>2, LeastNatural
  <2>4. PICK n \in Edges : x = c.upto - n
    BY <2>3
  <2>5. \A m \in Edges : m <= n
    <3> SUFFICES ASSUME NEW m \in Edges PROVE m <= n
      OBVIOUS
    <3>1. c.upto - n <= c.upto - m
      BY <2>3, <2>4
    <3> QED
      BY <1>1, <2>1, <3>1, SMT
  <2>6. AfterEdges \in Edges
    BY <1>3, <2>5 DEF AfterEdges
  <2> QED
    BY <2>1, <2>6, SMT
<1> QED
  BY <1>2, <1>3

(* A prefix that was read, or confirmed, or that is to be read again. *)
LEMMA PrefixesIs ==
  /\ Unread \in Prefixes
  /\ \A p \in Seq(Records) : Read(p) \in Prefixes /\ Read(p).read /\ Read(p).prefix = p
  /\ \A p \in Prefixes : /\ [p EXCEPT !.read = TRUE] \in Prefixes
                         /\ [p EXCEPT !.read = TRUE].read
                         /\ [p EXCEPT !.read = TRUE].prefix = p.prefix
<1>1. Unread \in Prefixes
  BY SMT DEF Unread, Prefixes
<1>2. ASSUME NEW p \in Seq(Records)
      PROVE  Read(p) \in Prefixes /\ Read(p).read /\ Read(p).prefix = p
  BY DEF Read, Prefixes
<1>3. ASSUME NEW p \in Prefixes
      PROVE  /\ [p EXCEPT !.read = TRUE] \in Prefixes
             /\ [p EXCEPT !.read = TRUE].read
             /\ [p EXCEPT !.read = TRUE].prefix = p.prefix
  <2>1. ASSUME NEW b \in BOOLEAN
        PROVE  /\ [p EXCEPT !.read = b] \in Prefixes
               /\ [p EXCEPT !.read = b].read = b
               /\ [p EXCEPT !.read = b].prefix = p.prefix
    BY DEF Prefixes
  <2>2. TRUE \in BOOLEAN
    OBVIOUS
  <2> QED
    BY <2>1, <2>2
<1> QED
  BY <1>1, <1>2, <1>3

(* A step of a thread leaves the committer's part alone. *)
LEMMA ThreadWriter ==
  ASSUME WriterOK, w' \in Writers, w'.committed = w.committed, woken' \subseteq Threads,
         UNCHANGED <<c, up>>
  PROVE  WriterOK'
BY DEF WriterOK

LEMMA ShowTypes ==
  ASSUME LogInv, TypesOK, ShowSteps \/ ShowCommits
  PROVE  TypesOK'
<1>1. /\ WriterOK /\ SharedOK /\ ThreadsOK /\ FoldOK /\ show.target \in Nat
      /\ w \in Writers /\ w.seq \in Nat /\ w.seq + 1 \in Nat /\ woken \subseteq Threads
  BY SMT DEF TypesOK, ThreadsOK, Showers, WriterOK, Writers
<1>2. up /\ UNCHANGED <<cache, up, code, c, loop, keeper>>
  BY DEF ShowSteps, ShowEmits, ShowStages, ShowEdges, ShowShuts, ShowCloses, ShowCommits,
         ShowCommitted, Shows, process
<1>3. FoldOK' /\ loop' \in Loopers
  BY <1>1, <1>2 DEF FoldOK, ThreadsOK
<1>4. /\ Unread \in Prefixes /\ confirmed \in Prefixes
      /\ [confirmed EXCEPT !.read = TRUE] \in Prefixes
  BY <1>1, PrefixesIs DEF SharedOK
<1>5. ASSUME WriterOK', SharedOK', show' \in Showers
      PROVE  TypesOK'
  BY <1>3, <1>5 DEF TypesOK, ThreadsOK
<1>6. \A at \in {"idle", "emits", "edge", "shuts", "closes", "wait"} : \A t \in Nat :
        [at |-> at, target |-> t] \in Showers
  BY DEF Showers
<1>7. UNCHANGED <<w, woken>> => WriterOK'
  BY <1>1, <1>2, ThreadWriter
<1>8. CASE ShowEmits
  <2>1. show' \in Showers
    BY <1>6, <1>8 DEF ShowEmits, Shown
  <2> QED
    BY <1>1, <1>5, <1>7, <1>8, <2>1 DEF ShowEmits, SharedOK
<1>9. CASE ShowStages
  <2>1. show' \in Showers
    BY <1>1, <1>6, <1>9 DEF ShowStages, Shown, Mirrored
  <2>4. lock' \in {"none", "loop", "show"} /\ journal' \in {"none", "loop", "show"}
        /\ sink' = sink
    BY <1>1, <1>9 DEF ShowStages, Mirrored, SharedOK, locks
  <2>2. CASE \E by \in {"shown", "edge"} : StageOk(by)
    <3>1. PICK by \in Kinds : StageOk(by)
      BY <2>2 DEF Kinds
    <3>2. /\ w' \in Writers /\ w'.committed = w.committed /\ woken' \subseteq Threads
          /\ torn' = torn /\ confirmed' \in Prefixes
      BY <1>2, <3>1, StageIs
    <3>3. WriterOK'
      BY <1>1, <1>2, <3>2, ThreadWriter
    <3> QED
      BY <1>1, <1>5, <1>9, <2>1, <2>4, <3>2, <3>3 DEF SharedOK
  <2>3. CASE \E by \in {"shown", "edge"} : StageFails(by)
    <3>1. /\ w' \in Writers /\ w'.committed = w.committed /\ woken' \subseteq Threads
          /\ torn' \in BOOLEAN /\ confirmed' \in Prefixes
      BY <2>3, StageFailsIs DEF Kinds
    <3>2. WriterOK'
      BY <1>1, <1>2, <3>1, ThreadWriter
    <3> QED
      BY <1>1, <1>5, <1>9, <2>1, <2>4, <3>1, <3>2 DEF SharedOK
  <2> QED
    BY <1>9, <2>2, <2>3 DEF ShowStages
<1>10. CASE ShowEdges
  <2>1. show' \in Showers
    BY <1>6, <1>10 DEF ShowEdges, Shown, Mirrored
  <2>2. SharedOK'
    BY <1>1, <1>4, <1>10 DEF ShowEdges, SharedOK, Confirm, Mirrored
  <2> QED
    BY <1>5, <1>7, <1>10, <2>1, <2>2 DEF ShowEdges
<1>11. CASE ShowShuts
  <2>1. show' \in Showers
    BY <1>6, <1>11 DEF ShowShuts, Shown
  <2>2. WriterOK'
    BY <1>1, <1>2, <1>11, ShutIs, ThreadWriter DEF ShowShuts
  <2> QED
    BY <1>1, <1>5, <1>11, <2>1, <2>2 DEF ShowShuts, SharedOK, locks
<1>12. CASE ShowCloses
  <2>1. show' \in Showers
    BY <1>6, <1>12 DEF ShowCloses, Shown
  <2>2. sink' \in BOOLEAN
    BY <1>12 DEF ShowCloses
  <2> QED
    BY <1>1, <1>5, <1>7, <1>12, <2>1, <2>2 DEF ShowCloses, SharedOK
<1>13. CASE ShowCommitted
  <2>1. show' \in Showers
    BY <1>6, <1>13 DEF ShowCommitted, Shown
  <2> QED
    BY <1>1, <1>5, <1>7, <1>13, <2>1 DEF ShowCommitted, SharedOK
<1>14. CASE ShowCommits
  <2>1. show' \in Showers
    BY <1>1, <1>6, <1>14 DEF ShowCommits
  <2>2. /\ w' = Requested(w, w.seq, FALSE, FALSE) /\ woken' \subseteq Threads
        /\ FALSE \in BOOLEAN
    BY <1>14 DEF ShowCommits, Notified
  <2>3. w' \in Writers /\ w'.committed = w.committed
    BY <1>1, <2>2, RequestedIs
  <2>4. WriterOK'
    BY <1>1, <1>2, <2>2, <2>3, ThreadWriter
  <2> QED
    BY <1>1, <1>5, <1>14, <2>1, <2>4 DEF ShowCommits, SharedOK
<1> QED
  BY <1>8, <1>9, <1>10, <1>11, <1>12, <1>13, <1>14 DEF ShowSteps

(* A fold that goes on from a digest is one of records. *)
LEMMA ExtendsIs ==
  ASSUME NEW s \in Seq(Records), NEW d \in Seq(Records), NEW f \in Seq(Records)
  PROVE  f \o SubSeq(s, Len(d) + 1, Len(s)) \in Seq(Records)
<1>1. SubSeq(s, Len(d) + 1, Len(s)) \in Seq(Records)
  <2>1. Len(d) + 1 \in Int /\ Len(s) \in Int /\ \A i \in Len(d) + 1 .. Len(s) : s[i] \in Records
    BY SMT
  <2> QED
    BY <2>1, SubSeqProperties
<1> QED
  BY <1>1, ConcatProperties

LEMMA FoldsTyped ==
  ASSUME FoldOK, NEW p \in Seq(Records)
  PROVE  StartFold(p) \in Keepers /\ Kept(p) \in Keepers
<1>1. /\ cache.digest \in Seq(Records) /\ cache.state \in Seq(Records) /\ cache.rules \in Nat
      /\ keeper.digest \in Seq(Records) /\ keeper.fold \in Seq(Records)
      /\ keeper.rules \in Nat /\ code \in Nat
  BY SMT DEF FoldOK, Caches, Keepers
<1>2. /\ cache.state \o SubSeq(p, Len(cache.digest) + 1, Len(p)) \in Seq(Records)
      /\ keeper.fold \o SubSeq(p, Len(keeper.digest) + 1, Len(p)) \in Seq(Records)
  BY <1>1, ExtendsIs
<1>3. StartFold(p) \in Keepers
  <2> HIDE DEF Judged
  <2>1. CASE Judged(p)
    BY <1>1, <1>2, <2>1 DEF StartFold, Keepers
  <2>2. CASE ~Judged(p)
    BY <1>1, <2>2 DEF StartFold, Keepers
  <2> QED
    BY <2>1, <2>2
<1> QED
  BY <1>1, <1>2, <1>3 DEF Kept, Keepers

LEMMA LoopTypes ==
  ASSUME LogInv, TypesOK, LoopSteps \/ LoopBegins \/ LoopHears \/ LoopQuits
  PROVE  TypesOK'
<1>1. /\ WriterOK /\ SharedOK /\ ThreadsOK /\ FoldOK /\ loop.target \in Nat
      /\ loop.does \in {"opens", "goes", "parks", "ends"}
      /\ w \in Writers /\ w.seq \in Nat /\ w.seq + 1 \in Nat /\ woken \subseteq Threads
  BY SMT DEF TypesOK, ThreadsOK, Loopers, WriterOK, Writers
<1>2. up /\ UNCHANGED <<up, code, c, show>>
  BY DEF LoopSteps, LoopStarts, LoopBegins, LoopShows, LoopEdges, LoopShuts, LoopCloses,
         LoopAppends, LoopCommits, LoopConfirms, LoopKeeps, LoopLeaves, LoopHears,
         LoopQuits, Loops, process
<1>3. /\ Unread \in Prefixes /\ confirmed \in Prefixes
      /\ [confirmed EXCEPT !.read = TRUE] \in Prefixes
      /\ PrefixNow \in Seq(Records) /\ Read(PrefixNow) \in Prefixes
  BY <1>1, <1>2, PrefixesIs, PrefixNowIs DEF SharedOK
<1>4. ASSUME WriterOK', SharedOK', loop' \in Loopers, FoldOK'
      PROVE  TypesOK'
  BY <1>1, <1>2, <1>4 DEF TypesOK, ThreadsOK
<1>5. \A at \in {"start", "idle", "announce", "edge", "shuts", "closes", "append",
                 "commit", "wait", "keep", "leave", "exits"} :
        /\ LoopLater(at) => loop' \in Loopers
        /\ \A does \in {"opens", "goes", "parks", "ends"} : \A t \in Nat :
             LoopAt(at, does, t) => loop' \in Loopers
  BY <1>1, SMT DEF LoopLater, LoopAt, Loopers
<1>6. LoopFails => loop' \in Loopers /\ lock' = "none"
  BY <1>5 DEF LoopFails
<1>7. UNCHANGED <<w, woken>> => WriterOK'
  BY <1>1, <1>2, ThreadWriter
<1>8. UNCHANGED <<keeper, cache>> => FoldOK'
  BY <1>1, <1>2 DEF FoldOK
<1>9. CASE LoopStarts
  <2>1. loop' \in Loopers
    BY <1>5, <1>6, <1>9 DEF LoopStarts
  <2>2. FoldOK'
    BY <1>1, <1>2, <1>3, <1>9, FoldsTyped DEF LoopStarts, FoldOK
  <2>3. SharedOK'
    BY <1>1, <1>3, <1>6, <1>9 DEF LoopStarts, SharedOK
  <2> QED
    BY <1>4, <1>7, <1>9, <2>1, <2>2, <2>3 DEF LoopStarts
<1>10. CASE LoopBegins \/ LoopHears
  <2>1. loop' \in Loopers
    BY <1>5, <1>6, <1>10 DEF LoopBegins, LoopHears
  <2>2. SharedOK'
    BY <1>1, <1>3, <1>6, <1>10 DEF LoopBegins, LoopHears, SharedOK
  <2> QED
    BY <1>4, <1>7, <1>8, <1>10, <2>1, <2>2 DEF LoopBegins, LoopHears
<1>11. CASE LoopShows
  <2>1. loop' \in Loopers
    BY <1>1, <1>5, <1>6, <1>11 DEF LoopShows
  <2>2. WriterOK' /\ confirmed' \in Prefixes /\ torn' \in BOOLEAN
    <3>1. CASE UNCHANGED <<log, torn, w, woken, confirmed>>
      BY <1>1, <1>7, <3>1 DEF SharedOK
    <3>2. CASE StageOk("edge")
      <4>1. /\ w' \in Writers /\ w'.committed = w.committed /\ woken' \subseteq Threads
            /\ torn' = torn /\ confirmed' \in Prefixes
        BY <1>2, <3>2, StageIs DEF Kinds
      <4> QED
        BY <1>1, <1>2, <4>1, ThreadWriter DEF SharedOK
    <3>3. CASE StageFails("edge")
      <4>1. /\ w' \in Writers /\ w'.committed = w.committed /\ woken' \subseteq Threads
            /\ torn' \in BOOLEAN /\ confirmed' \in Prefixes
        BY <3>3, StageFailsIs DEF Kinds
      <4> QED
        BY <1>1, <1>2, <4>1, ThreadWriter
    <3> QED
      BY <1>11, <3>1, <3>2, <3>3 DEF LoopShows
  <2> QED
    BY <1>1, <1>4, <1>6, <1>8, <1>11, <2>1, <2>2 DEF LoopShows, SharedOK, locks
<1>12. CASE LoopEdges
  <2>1. loop' \in Loopers
    BY <1>5, <1>12 DEF LoopEdges
  <2>2. SharedOK'
    BY <1>1, <1>3, <1>12 DEF LoopEdges, SharedOK, Confirm
  <2> QED
    BY <1>4, <1>7, <1>8, <1>12, <2>1, <2>2 DEF LoopEdges
<1>13. CASE LoopShuts \/ LoopLeaves
  <2>1. loop' \in Loopers
    BY <1>5, <1>13 DEF LoopShuts, LoopLeaves
  <2>2. WriterOK'
    BY <1>1, <1>2, <1>13, ShutIs, ThreadWriter DEF LoopShuts, LoopLeaves
  <2> QED
    BY <1>1, <1>4, <1>8, <1>13, <2>1, <2>2 DEF LoopShuts, LoopLeaves, SharedOK, locks
<1>14. CASE LoopCloses
  <2>1. loop' \in Loopers
    BY <1>5, <1>14 DEF LoopCloses
  <2>2. sink' \in BOOLEAN
    BY <1>14 DEF LoopCloses
  <2> QED
    BY <1>1, <1>4, <1>7, <1>8, <1>14, <2>1, <2>2 DEF LoopCloses, SharedOK
<1>15. CASE LoopAppends
  <2>1. loop' \in Loopers
    BY <1>5, <1>6, <1>15 DEF LoopAppends
  <2>2. WriterOK' /\ confirmed' \in Prefixes /\ torn' \in BOOLEAN
    <3>1. CASE /\ Write("core") /\ w' = Queued(w) /\ Notified
               /\ confirmed' = [read |-> FALSE, prefix |-> Extended("core")]
               /\ UNCHANGED torn
      <4>1. [by |-> "core", life |-> life] \in Records
        BY DEF LogInv, DiskOK, Records, Kinds
      <4>2. Extended("core") \in Seq(Records)
        BY <1>3, <4>1, AppendKeeps DEF Extended
      <4>3. w' \in Writers /\ w'.committed = w.committed
        BY <1>1, <3>1, QueuedIs
      <4>4. WriterOK'
        BY <1>1, <1>2, <3>1, <4>3, ThreadWriter DEF Notified
      <4>5. confirmed' \in Prefixes
        BY <3>1, <4>2 DEF Prefixes
      <4> QED
        BY <1>1, <3>1, <4>4, <4>5 DEF SharedOK
    <3>2. CASE WriteFails("core") /\ confirmed' = Unread
      BY <1>1, <1>2, <1>3, <3>2, WriteFailsIs, ThreadWriter DEF Kinds
    <3>3. CASE confirmed' = Unread /\ UNCHANGED <<log, torn, w, woken>>
      BY <1>1, <1>3, <1>7, <3>3 DEF SharedOK
    <3> QED
      BY <1>15, <3>1, <3>2, <3>3 DEF LoopAppends
  <2> QED
    BY <1>1, <1>4, <1>6, <1>8, <1>15, <2>1, <2>2 DEF LoopAppends, SharedOK
<1>16. CASE LoopCommits
  <2>1. loop' \in Loopers
    BY <1>1, <1>5, <1>6, <1>16 DEF LoopCommits
  <2>2. WriterOK'
    <3>1. CASE w' = Requested(w, w.seq, FALSE, FALSE) /\ Notified
      <4>1. FALSE \in BOOLEAN
        OBVIOUS
      <4>2. w' \in Writers /\ w'.committed = w.committed
        BY <1>1, <3>1, <4>1, RequestedIs
      <4> QED
        BY <1>1, <1>2, <3>1, <4>2, ThreadWriter DEF Notified
    <3> QED
      BY <1>7, <1>16, <3>1 DEF LoopCommits
  <2>3. SharedOK'
    BY <1>1, <1>3, <1>6, <1>16 DEF LoopCommits, SharedOK
  <2> QED
    BY <1>4, <1>8, <1>16, <2>1, <2>2, <2>3 DEF LoopCommits
<1>17. CASE LoopConfirms
  <2>1. loop' \in Loopers
    BY <1>5, <1>6, <1>17 DEF LoopConfirms
  <2>2. SharedOK'
    BY <1>1, <1>3, <1>6, <1>17 DEF LoopConfirms, SharedOK, Confirm
  <2>3. FoldOK'
    <3>1. [keeper EXCEPT !.since = keeper.since + 1] \in Keepers
      BY <1>1, SMT DEF FoldOK, Keepers
    <3> QED
      BY <1>1, <1>2, <1>17, <3>1 DEF LoopConfirms, FoldOK
  <2> QED
    BY <1>4, <1>7, <1>17, <2>1, <2>2, <2>3 DEF LoopConfirms
<1>18. CASE LoopKeeps
  <2>1. loop' \in Loopers
    BY <1>5, <1>18 DEF LoopKeeps, AfterKeep
  <2>2. FoldOK'
    <3>1. CASE CacheDue
      <4>1. keeper' = Kept(confirmed.prefix) /\ keeper' \in Keepers
        BY <1>1, <1>18, <3>1, FoldsTyped DEF LoopKeeps, SharedOK, Prefixes
      <4>2. cache' \in {cache, [digest |-> keeper'.digest, state |-> keeper'.fold,
                                rules |-> keeper'.rules]}
        BY <1>18, <3>1 DEF LoopKeeps
      <4> QED
        BY <1>1, <1>2, <4>1, <4>2, SMT DEF FoldOK, Keepers, Caches
    <3>2. CASE ~CacheDue
      BY <1>8, <1>18, <3>2 DEF LoopKeeps
    <3> QED
      BY <3>1, <3>2
  <2> QED
    BY <1>1, <1>4, <1>7, <1>18, <2>1, <2>2 DEF LoopKeeps, SharedOK
<1>19. CASE LoopQuits
  <2>1. loop' \in Loopers
    BY <1>5, <1>19 DEF LoopQuits
  <2> QED
    BY <1>1, <1>4, <1>7, <1>8, <1>19, <2>1 DEF LoopQuits, SharedOK, locks
<1> QED
  BY <1>9, <1>10, <1>11, <1>12, <1>13, <1>14, <1>15, <1>16, <1>17, <1>18, <1>19
  DEF LoopSteps

LEMMA CommitterTypes ==
  ASSUME LogInv, TypesOK, CommitterSteps \/ DeadlinePasses
  PROVE  TypesOK'
<1>1. /\ w \in Writers /\ c \in Batches /\ woken \subseteq Threads
      /\ w.seq \in Nat /\ c.upto \in Nat
  BY DEF TypesOK, WriterOK, Writers, Batches
<1>2. /\ up /\ up' = up
      /\ UNCHANGED <<code, confirmed, lock, journal, sink, loop, show, keeper, torn, cache>>
  BY DEF CommitterSteps, TakeBatch, TakeNothing, SyncLog, PublishFrames, PublishHead,
         PublishCommit, CommitterStops, DeadlinePasses, Committer, process, disk, locks
<1>3. w.committed <= c.upto /\ c.upto <= w.seq
  BY <1>2 DEF TypesOK, WriterOK, LogInv, BatchInOrder
<1>4. ASSUME w' \in Writers, c' \in Batches, woken' \subseteq Threads,
             w'.committed <= c'.upto
      PROVE  TypesOK'
  BY <1>2, <1>4 DEF TypesOK, WriterOK, SharedOK, ThreadsOK, FoldOK
<1>5. CommitterFails => TypesOK'
  <2> SUFFICES ASSUME CommitterFails PROVE TypesOK'
    OBVIOUS
  <2>1. /\ w' \in Writers /\ w'.committed = w.committed
        /\ c' \in Batches /\ c'.upto = c.upto /\ woken' = woken
    BY <1>1 DEF CommitterFails, Writers, Batches
  <2> QED
    BY <1>1, <1>3, <1>4, <2>1
<1>6. CASE TakeBatch
  <2>1. w' \in Writers /\ w'.committed = w.committed
    BY <1>1, <1>6 DEF TakeBatch, Taken, Writers
  <2>2. c' \in Batches /\ c'.upto = w.seq
    <3>1. CheckpointDue \in BOOLEAN
      BY SMT DEF CheckpointDue
    <3> QED
      BY <1>1, <1>6, <3>1 DEF TakeBatch, Batches
  <2>3. w'.committed <= c'.upto
    BY <1>1, <1>3, <2>1, <2>2, SMT DEF Writers
  <2> QED
    BY <1>1, <1>4, <1>6, <2>1, <2>2, <2>3 DEF TakeBatch
<1>7. CASE TakeNothing
  <2>1. w' = w /\ c' \in Batches /\ c'.upto = c.upto /\ woken' \subseteq Threads
    BY <1>1, <1>7 DEF TakeNothing, Batches
  <2> QED
    BY <1>1, <1>3, <1>4, <2>1
<1>8. CASE DeadlinePasses
  <2>1. /\ w' \in Writers /\ w'.committed = w.committed /\ c' = c
        /\ woken' \subseteq Threads
    BY <1>1, <1>8 DEF DeadlinePasses, Writers, Threads
  <2> QED
    BY <1>1, <1>3, <1>4, <2>1
<1>9. CASE SyncLog
  <2>1. CASE c' = [c EXCEPT !.at = "frames"] /\ UNCHANGED <<w, woken>>
    <3>1. c' \in Batches /\ c'.upto = c.upto
      BY <1>1, <2>1 DEF Batches
    <3> QED
      BY <1>1, <1>3, <1>4, <2>1, <3>1
  <2> QED
    BY <1>5, <1>9, <2>1 DEF SyncLog
<1>10. CASE PublishFrames
  <2>1. CASE /\ w' = [w EXCEPT !.ckpt = IF LastDue THEN c.upto ELSE AfterEdges]
             /\ c' = [c EXCEPT !.at = IF Batch = {} THEN "publish" ELSE "head"]
             /\ UNCHANGED woken
    <3> DEFINE k == IF LastDue THEN c.upto ELSE AfterEdges
               at == IF Batch = {} THEN "publish" ELSE "head"
    <3>1. k \in Nat /\ at \in {"publish", "head"}
      BY <1>1, AfterEdgesIs
    <3> HIDE DEF k, at
    <3>2. w' = [w EXCEPT !.ckpt = k] /\ c' = [c EXCEPT !.at = at]
      BY <2>1 DEF k, at
    <3>3. /\ w' \in Writers /\ w'.committed = w.committed
          /\ c' \in Batches /\ c'.upto = c.upto
      BY <1>1, <3>1, <3>2 DEF Writers, Batches
    <3> QED
      BY <1>1, <1>3, <1>4, <2>1, <3>3
  <2> QED
    BY <1>5, <1>10, <2>1 DEF PublishFrames
<1>11. CASE PublishHead
  <2>1. CASE c' = [c EXCEPT !.at = "publish"] /\ UNCHANGED <<w, woken>>
    <3>1. c' \in Batches /\ c'.upto = c.upto
      BY <1>1, <2>1 DEF Batches
    <3> QED
      BY <1>1, <1>3, <1>4, <2>1, <3>1
  <2> QED
    BY <1>5, <1>11, <2>1 DEF PublishHead
<1>12. CASE PublishCommit
  <2>1. /\ w' \in Writers /\ w'.committed = c.upto /\ c' \in Batches /\ c'.upto = c.upto
        /\ woken' \subseteq Threads
    BY <1>1, <1>12 DEF PublishCommit, Writers, Batches, Notified
  <2> QED
    BY <1>1, <1>4, <2>1, SMT
<1>13. CASE CommitterStops
  <2>1. PICK failed \in {w.failed, TRUE} :
          w' = [w EXCEPT !.done = TRUE, !.failed = failed]
    BY <1>13 DEF CommitterStops
  <2>2. failed \in BOOLEAN
    BY <1>1, <2>1 DEF Writers
  <2>3. w' \in Writers /\ w'.committed = w.committed
    BY <1>1, <2>1, <2>2 DEF Writers
  <2>4. c' \in Batches /\ c'.upto = c.upto /\ woken' \subseteq Threads
    BY <1>1, <1>13 DEF CommitterStops, Batches, Notified
  <2> QED
    BY <1>1, <1>3, <1>4, <2>3, <2>4
<1> QED
  BY <1>6, <1>7, <1>8, <1>9, <1>10, <1>11, <1>12, <1>13 DEF CommitterSteps

(* A process that is gone, and one that has opened the log. *)
LEMMA GoneTypes ==
  ASSUME TypesOK, Gone, torn' \in BOOLEAN
  PROVE  TypesOK'
<1>1. WriterOK'
  <2>1. NoWriter \in Writers /\ NoBatch \in Batches
    BY DEF NoWriter, NoBatch, Writers, Batches
  <2> QED
    BY <2>1 DEF Gone, WriterOK
<1>2. SharedOK'
  <2>1. sink' \in BOOLEAN
    BY DEF Gone
  <2> QED
    BY <2>1, PrefixesIs DEF Gone, SharedOK
<1>3. ThreadsOK'
  BY DEF Gone, ThreadsOK, Loopers, Showers
<1>4. FoldOK'
  <2>1. NoKeeper \in Keepers
    BY SMT DEF NoKeeper, Keepers
  <2> QED
    BY <2>1 DEF Gone, TypesOK, FoldOK
<1> QED
  BY <1>1, <1>2, <1>3, <1>4 DEF TypesOK

LEMMA OpensTypes ==
  ASSUME LogInv, LogInv', TypesOK, Opens \/ OpenFails
  PROVE  TypesOK'
<1>1. /\ UNCHANGED <<confirmed, lock, journal, sink, loop, show, keeper, cache>>
      /\ torn' \in {torn, FALSE}
  BY DEF Opens, OpenFails, locks, disk
<1>2. torn' \in BOOLEAN
  BY <1>1 DEF TypesOK, SharedOK
<1>3. SharedOK' /\ ThreadsOK'
  BY <1>1, <1>2 DEF TypesOK, SharedOK, ThreadsOK
<1>4. CASE UNCHANGED <<process, w, c, woken>>
  BY <1>1, <1>3, <1>4 DEF TypesOK, WriterOK, FoldOK, process
<1>5. CASE Opened
  <2>1. Len(log') \in Nat
    BY SMT DEF LogInv, DiskOK
  <2>2. w' \in Writers /\ w'.committed = Len(log')
    BY <1>5, <2>1 DEF Opened, NoWriter, Writers
  <2>3. c' \in Batches /\ c'.upto = Len(log')
    BY <1>5, <2>1 DEF Opened, Batches
  <2>4. WriterOK'
    BY <1>5, <2>1, <2>2, <2>3, SMT DEF Opened, WriterOK
  <2>5. FoldOK'
    BY <1>1, <1>5 DEF Opened, Codes, TypesOK, FoldOK
  <2> QED
    BY <1>3, <2>4, <2>5 DEF TypesOK
<1> QED
  BY <1>4, <1>5 DEF Opens, OpenFails, process

LEMMA StepTypes ==
  ASSUME LogInv, LogInv', TypesOK, [Next]_vars
  PROVE  TypesOK'
<1>1. CASE SleepsAgain \/ UNCHANGED vars
  <2>1. /\ UNCHANGED <<disk, process, w, c, confirmed, locks, sink, loop, show, keeper>>
        /\ woken' \subseteq woken
    BY <1>1 DEF SleepsAgain, vars
  <2> QED
    BY <2>1 DEF TypesOK, WriterOK, SharedOK, ThreadsOK, FoldOK, disk, process, locks
<1>2. CASE CommitterSteps \/ DeadlinePasses
  BY <1>2, CommitterTypes
<1>3. CASE ShowSteps \/ ShowCommits
  BY <1>3, ShowTypes
<1>4. CASE LoopSteps \/ LoopBegins \/ LoopHears \/ LoopQuits
  BY <1>4, LoopTypes
<1>5. CASE LoopExits \/ Crash \/ PowerLoss
  <2>1. Gone /\ (torn' = torn \/ torn' \in BOOLEAN)
    BY <1>5 DEF LoopExits, Crash, PowerLoss
  <2>2. torn' \in BOOLEAN
    BY <2>1 DEF TypesOK, SharedOK
  <2> QED
    BY <2>1, <2>2, GoneTypes
<1>6. CASE Opens \/ OpenFails
  BY <1>6, OpensTypes
<1> QED
  BY <1>1, <1>2, <1>3, <1>4, <1>5, <1>6 DEF Next

LEMMA InitTypes == Init => TypesOK
<1> SUFFICES ASSUME Init PROVE TypesOK
  OBVIOUS
<1>1. torn \in BOOLEAN /\ sink \in BOOLEAN
  BY DEF Init
<1>2. WriterOK
  BY DEF Init, WriterOK, NoWriter, NoBatch, Writers, Batches
<1>3. SharedOK
  BY <1>1, PrefixesIs DEF Init, SharedOK
<1>4. ThreadsOK /\ FoldOK
  BY SMT DEF Init, ThreadsOK, FoldOK, Loopers, Showers, NoKeeper, NoCache, Keepers, Caches
<1> QED
  BY <1>2, <1>3, <1>4 DEF TypesOK

(* No step sets the flag of a start refused to anything but TRUE. *)
NoneRefused == unopened = FALSE

LEMMA StepOpens ==
  ASSUME LogInv', NoneRefused, [Next]_vars
  PROVE  NoneRefused'
<1> USE DEF NoneRefused
<1>1. ~unopened'
  BY DEF LogInv, Reopens
<1>2. CASE CommitterSteps \/ DeadlinePasses \/ SleepsAgain \/ UNCHANGED vars
  BY <1>2 DEF CommitterSteps, TakeBatch, TakeNothing, SyncLog, PublishFrames, PublishHead,
       PublishCommit, CommitterStops, DeadlinePasses, Committer, SleepsAgain, ghosts, vars
<1>3. CASE ShowSteps \/ ShowCommits
  BY <1>3 DEF ShowSteps, ShowEmits, ShowStages, ShowEdges, ShowShuts, ShowCloses,
       ShowCommitted, ShowCommits, Acknowledge, ghosts
<1>4. CASE LoopSteps \/ LoopBegins \/ LoopHears \/ LoopQuits
  BY <1>4 DEF LoopSteps, LoopStarts, LoopShows, LoopEdges, LoopShuts, LoopCloses,
       LoopAppends, LoopCommits, LoopConfirms, LoopKeeps, LoopLeaves, LoopBegins, LoopHears,
       LoopQuits, Acknowledge, ghosts
<1>5. CASE LoopExits \/ Crash \/ PowerLoss \/ OpenFails
  BY <1>5 DEF LoopExits, Crash, PowerLoss, OpenFails, Gone, ghosts
<1>6. CASE Opens
  BY <1>1, <1>6 DEF Opens
<1> QED
  BY <1>2, <1>3, <1>4, <1>5, <1>6 DEF Next

LEMMA LogTypesAlways == Spec => [](LogInv /\ TypesOK /\ NoneRefused)
<1>1. LogInv /\ [Next]_vars => LogInv'
  BY StepKeeps
<1>2. LogInv /\ LogInv' /\ TypesOK /\ [Next]_vars => TypesOK'
  BY StepTypes
<1>3. LogInv' /\ NoneRefused /\ [Next]_vars => NoneRefused'
  BY StepOpens
<1>4. Init => NoneRefused
  BY DEF Init, NoneRefused
<1> QED
  BY <1>1, <1>2, <1>3, <1>4, InitInv, InitTypes, PTL DEF Spec

(* Every variable keeps its type, and the writer's counts their order: what is   *)
(* committed is within the batch taken, that within the numbers given, and these *)
(* are the file's, but for one record whose write failed.                        *)
THEOREM LogTyped == Spec => []LogTypeOK
<1>1. LogInv /\ TypesOK /\ NoneRefused => LogTypeOK
  BY DEF NoneRefused, LogInv, DiskOK, BatchInOrder, TypesOK, WriterOK, SharedOK, ThreadsOK, FoldOK,
         Writers, Batches, Loopers, Showers, Keepers, Caches, Prefixes, LogTypeOK
<1> QED
  BY <1>1, LogTypesAlways, PTL

-----------------------------------------------------------------------------
(* Core and the display append to one file, and the fold is of that file.  The   *)
(* appender's lock makes it so: between the append of a record and its           *)
(* confirmation the lock is held, the prefix in memory is the whole file and     *)
(* nobody else appends; a prefix that is read again is read when all of the      *)
(* file is committed, or the writer is broken and takes no more.                 *)

LoopLocks == {"announce", "edge", "shuts", "closes", "append", "commit", "wait", "keep"}

Owners ==
  /\ lock = "loop" <=> loop.at \in LoopLocks
  /\ lock = "show" <=> show.at \in {"edge", "wait"}

Down ==
  ~up => /\ lock = "none" /\ loop.at = "start" /\ show.at = "idle"
         /\ confirmed = Unread /\ keeper = NoKeeper

(* A record is written and not yet confirmed. *)
Pending == loop.at \in {"commit", "wait", "edge"} \/ show.at = "edge"
Broken == w.failed \/ w.closing \/ show.at = "shuts"

FirstOf(s, l) == Len(s) <= Len(l) /\ s = SubSeq(l, 1, Len(s))

PrefixOK ==
  /\ FirstOf(confirmed.prefix, log)
  /\ Pending => ~confirmed.read /\ confirmed.prefix = log
  /\ loop.at = "keep" => confirmed.read
  /\ loop.at = "wait" => loop.target = w.seq
  /\ up /\ confirmed.read => confirmed.prefix = log \/ Broken
  /\ up /\ ~confirmed.read /\ ~Pending /\ loop.at # "shuts" => Broken \/ w.committed = w.seq

(* A keeper that is to write the cache has folded no more than is confirmed. *)
Unkept ==
  keeper.since > 0 =>
    /\ Len(keeper.digest) <= w.committed
    /\ confirmed.read => Len(keeper.digest) <= Len(confirmed.prefix)

Folded ==
  keeper # NoKeeper =>
    /\ keeper.rules = code /\ FirstOf(keeper.digest, log) /\ keeper.fold = keeper.digest

KeeperOK ==
  /\ cache.state = cache.digest
  /\ keeper = NoKeeper => loop.at \in {"start", "leave", "exits"}
  /\ Folded /\ Unkept

AppendInv == Owners /\ Down /\ PrefixOK /\ KeeperOK

LEMMA FirstIs ==
  ASSUME NEW l \in Seq(Records)
  PROVE  /\ FirstOf(<< >>, l) /\ FirstOf(l, l)
         /\ \A n \in 0 .. Len(l) : /\ FirstOf(SubSeq(l, 1, n), l)
                                   /\ Len(SubSeq(l, 1, n)) = n
         /\ \A s : FirstOf(s, l) /\ Len(s) = Len(l) => s = l
<1>1. SubSeq(l, 1, Len(l)) = l
  BY SubSeqFull
<1>2. FirstOf(l, l)
  BY <1>1, SMT DEF FirstOf
<1>3. ASSUME NEW n \in 0 .. Len(l)
      PROVE  FirstOf(SubSeq(l, 1, n), l) /\ Len(SubSeq(l, 1, n)) = n
  BY PrefixIs, SMT DEF FirstOf
<1>4. FirstOf(<< >>, l)
  <2>1. SubSeq(l, 1, 0) = << >>
    <3>1. SubSeq(l, 1, 0) \in Seq(Records) /\ Len(SubSeq(l, 1, 0)) = 0
      BY PrefixIs, SMT
    <3> QED
      BY <3>1, SMT
  <2> QED
    BY <2>1, SMT DEF FirstOf
<1>5. ASSUME NEW s, FirstOf(s, l), Len(s) = Len(l)
      PROVE  s = l
  BY <1>1, <1>5 DEF FirstOf
<1> QED
  BY <1>2, <1>3, <1>4, <1>5

LEMMA FirstGrows ==
  ASSUME NEW l \in Seq(Records), NEW r \in Records, NEW s \in Seq(Records), FirstOf(s, l)
  PROVE  FirstOf(s, Append(l, r))
<1>1. /\ Append(l, r) \in Seq(Records) /\ Len(Append(l, r)) = Len(l) + 1
      /\ \A i \in 1 .. Len(l) : Append(l, r)[i] = l[i]
  BY AppendKeeps
<1>2. Len(s) \in 0 .. Len(l)
  BY SMT DEF FirstOf
<1>3. \A i \in 1 .. Len(s) : s[i] = l[i]
  BY <1>2, PrefixIs DEF FirstOf
<1>4. s = SubSeq(Append(l, r), 1, Len(s))
  <2>1. Len(s) <= Len(Append(l, r)) /\ \A i \in 1 .. Len(s) : s[i] = Append(l, r)[i]
    BY <1>1, <1>2, <1>3, SMT
  <2> QED
    BY <1>1, <2>1, FrameIsPrefix
<1> QED
  BY <1>1, <1>2, <1>4, SMT DEF FirstOf

(* A fold that goes on from a first part of the records to all of them. *)
LEMMA FirstExtends ==
  ASSUME NEW l \in Seq(Records), NEW s \in Seq(Records), FirstOf(s, l)
  PROVE  s \o SubSeq(l, Len(s) + 1, Len(l)) = l
<1>1. /\ 1 \in 1 .. Len(l) + 1 /\ Len(s) \in 1 - 1 .. Len(l)
      /\ Len(l) \in Len(s) .. Len(l)
  BY SMT DEF FirstOf
<1>2. SubSeq(l, 1, Len(s)) \o SubSeq(l, Len(s) + 1, Len(l)) = SubSeq(l, 1, Len(l))
  BY <1>1, ConcatAdjacentSubSeq
<1> QED
  BY <1>2, SubSeqFull DEF FirstOf

(* Of two first parts the shorter is a first part of the longer. *)
LEMMA FirstOfFirst ==
  ASSUME NEW l \in Seq(Records), NEW s \in Seq(Records), NEW p \in Seq(Records),
         FirstOf(s, l), FirstOf(p, l), Len(s) <= Len(p)
  PROVE  FirstOf(s, p)
<1>1. Len(s) \in 0 .. Len(l) /\ Len(p) \in 0 .. Len(l)
  BY SMT DEF FirstOf
<1>2. /\ \A i \in 1 .. Len(s) : s[i] = l[i]
      /\ \A i \in 1 .. Len(p) : p[i] = l[i]
  BY <1>1, PrefixIs, SMT DEF FirstOf
<1>3. \A i \in 1 .. Len(s) : s[i] = p[i]
  BY <1>1, <1>2, SMT
<1> QED
  BY <1>3, FrameIsPrefix DEF FirstOf

(* What the appender goes on from is a first part of the file, and all of it     *)
(* while the writer takes records and none is pending.                           *)
LEMMA NowIs ==
  ASSUME LogInv, TypesOK, AppendInv, up
  PROVE  /\ PrefixNow \in Seq(Records) /\ FirstOf(PrefixNow, log)
         /\ ~w.failed /\ Len(PrefixNow) = w.seq => PrefixNow = log
         /\ ~Pending /\ loop.at # "shuts" => PrefixNow = log \/ Broken
         /\ keeper.since > 0 => Len(keeper.digest) <= Len(PrefixNow)
<1>1. log \in Seq(Records) /\ w.committed \in 0 .. Len(log)
  BY SMT DEF LogInv, DiskOK, FieldsOK, BatchInOrder, ToldTruth
<1>5. ~w.failed => w.seq = Len(log)
  BY DEF LogInv, BatchInOrder
<1>2. PrefixNow \in Seq(Records)
  BY PrefixNowIs
<1>3. CASE confirmed.read
  <2>1. PrefixNow = confirmed.prefix /\ FirstOf(confirmed.prefix, log)
    BY <1>3 DEF PrefixNow, AppendInv, PrefixOK
  <2>2. ~w.failed /\ Len(PrefixNow) = w.seq => PrefixNow = log
    <3>1. FirstOf(PrefixNow, log) /\ Len(PrefixNow) = Len(log) => PrefixNow = log
      BY <1>1, FirstIs
    <3> QED
      BY <1>5, <2>1, <3>1
  <2>3. ~Pending /\ loop.at # "shuts" => PrefixNow = log \/ Broken
    BY <1>3, <2>1 DEF AppendInv, PrefixOK
  <2>4. keeper.since > 0 => Len(keeper.digest) <= Len(PrefixNow)
    BY <1>3, <2>1 DEF AppendInv, KeeperOK, Unkept
  <2> QED
    BY <1>2, <2>1, <2>2, <2>3, <2>4
<1>4. CASE ~confirmed.read
  <2>1. PrefixNow = SubSeq(log, 1, w.committed)
    BY <1>4 DEF PrefixNow, Prefix
  <2>2. FirstOf(PrefixNow, log) /\ Len(PrefixNow) = w.committed
    BY <1>1, <2>1, FirstIs
  <2>3. ~w.failed /\ Len(PrefixNow) = w.seq => PrefixNow = log
    BY <1>1, <1>5, <2>2, FirstIs
  <2>4. ~Pending /\ loop.at # "shuts" => PrefixNow = log \/ Broken
    BY <1>4, <2>2, <2>3 DEF AppendInv, PrefixOK, Broken
  <2>5. keeper.since > 0 => Len(keeper.digest) <= Len(PrefixNow)
    BY <2>2 DEF AppendInv, KeeperOK, Unkept
  <2> QED
    BY <1>2, <2>2, <2>3, <2>4, <2>5
<1> QED
  BY <1>3, <1>4

(* A fold begun from the cache is that of the whole prefix, as one without it. *)
LEMMA StartsWhole ==
  ASSUME FoldOK, cache.state = cache.digest, NEW p \in Seq(Records)
  PROVE  /\ StartFold(p).digest = p /\ StartFold(p).fold = p
         /\ StartFold(p).rules = code /\ StartFold(p).since = 0
         /\ StartFold(p) # NoKeeper
<1>1. cache.digest \in Seq(Records) /\ code \in {1, 2}
  BY DEF FoldOK, Caches
<1>2. Judged(p) => cache.digest \o SubSeq(p, Len(cache.digest) + 1, Len(p)) = p
  <2>1. Judged(p) => FirstOf(cache.digest, p)
    BY DEF Judged, FirstOf
  <2> QED
    BY <1>1, <2>1, FirstExtends
<1>3. /\ StartFold(p).digest = p /\ StartFold(p).since = 0
      /\ StartFold(p).rules = IF Judged(p) THEN cache.rules ELSE code
      /\ StartFold(p).fold =
           IF Judged(p) THEN cache.state \o SubSeq(p, Len(cache.digest) + 1, Len(p)) ELSE p
  BY DEF StartFold
<1>4. StartFold(p).rules = code
  BY <1>3 DEF Judged
<1>5. StartFold(p).fold = p
  BY <1>2, <1>3
<1>6. StartFold(p) # NoKeeper
  <2>1. NoKeeper.rules = 0
    BY DEF NoKeeper
  <2> QED
    BY <1>1, <1>4, <2>1, SMT
<1> QED
  BY <1>3, <1>4, <1>5, <1>6

LEMMA KeepsWhole ==
  ASSUME FoldOK, keeper.fold = keeper.digest, keeper.rules = code,
         NEW p \in Seq(Records), FirstOf(keeper.digest, p)
  PROVE  /\ Kept(p).digest = p /\ Kept(p).fold = p
         /\ Kept(p).rules = code /\ Kept(p).since = 0
         /\ Kept(p) # NoKeeper
<1>1. keeper.digest \in Seq(Records) /\ code \in {1, 2}
  BY DEF FoldOK, Keepers
<1>2. keeper.digest \o SubSeq(p, Len(keeper.digest) + 1, Len(p)) = p
  BY <1>1, FirstExtends
<1>3. /\ Kept(p).digest = p /\ Kept(p).fold = p /\ Kept(p).rules = code
      /\ Kept(p).since = 0
  BY <1>2 DEF Kept
<1> QED
  BY <1>1, <1>3, SMT DEF NoKeeper

(* A record appended after the prefix of the appender: the prefix is the file.   *)
LEMMA StageHolds ==
  ASSUME LogInv, TypesOK, AppendInv, up, Follows, NEW by \in Kinds,
         log' = Append(log, [by |-> by, life |-> life]),
         confirmed'.prefix = Append(PrefixNow, [by |-> by, life |-> life]),
         w'.committed = w.committed, UNCHANGED <<keeper, code>>
  PROVE  /\ confirmed'.prefix = log' /\ FirstOf(log', log')
         /\ Folded' /\ Unkept'
<1>1. log \in Seq(Records) /\ [by |-> by, life |-> life] \in Records
  BY DEF LogInv, DiskOK, Records
<1>2. log' \in Seq(Records) /\ Len(log') = Len(log) + 1
  BY <1>1, AppendKeeps
<1>3. confirmed'.prefix = log'
  BY NowIs DEF Follows, Takes
<1>4. FirstOf(log', log')
  BY <1>2, FirstIs
<1>5. keeper.digest \in Seq(Records) /\ Folded /\ Unkept
  BY DEF TypesOK, FoldOK, Keepers, AppendInv, KeeperOK
<1>6. Folded'
  <2>1. keeper # NoKeeper => FirstOf(keeper.digest, log')
    BY <1>1, <1>5, FirstGrows DEF Folded
  <2> QED
    BY <1>5, <2>1 DEF Folded
<1>7. w.committed <= Len(log) /\ w.committed \in Nat
  BY SMT DEF LogInv, DiskOK, FieldsOK, BatchInOrder, ToldTruth
<1>8. Unkept'
  <2>1. Len(keeper.digest) <= w.committed => Len(keeper.digest) <= Len(log')
    BY <1>1, <1>2, <1>5, <1>7, SMT
  <2> QED
    BY <1>3, <1>5, <2>1 DEF Unkept
<1> QED
  BY <1>3, <1>4, <1>6, <1>8

(* A record that is written though its write fails, or one that is refused, is   *)
(* in no fold.                                                                   *)
LEMMA FoldGrows ==
  ASSUME LogInv, TypesOK, AppendInv, Grown, UNCHANGED <<keeper, code>>,
         w'.committed = w.committed, ~confirmed'.read \/ confirmed' = confirmed
  PROVE  Folded' /\ Unkept'
<1>1. /\ log \in Seq(Records) /\ keeper.digest \in Seq(Records) /\ Folded /\ Unkept
  BY DEF LogInv, DiskOK, TypesOK, FoldOK, Keepers, AppendInv, KeeperOK
<1>2. keeper # NoKeeper => FirstOf(keeper.digest, log')
  BY <1>1, FirstGrows DEF Folded, Grown
<1>3. Folded'
  BY <1>1, <1>2 DEF Folded
<1>4. Unkept'
  BY <1>1 DEF Unkept
<1> QED
  BY <1>3, <1>4

(* A step that appends nothing and leaves the prefix and the fold as they are. *)
LEMMA QuietHolds ==
  ASSUME LogInv, TypesOK, AppendInv, UNCHANGED <<log, confirmed, keeper, cache, code, up>>,
         w'.seq = w.seq, w'.committed \in Nat, w.committed <= w'.committed,
         w'.committed <= w.seq,
         Broken => Broken', Pending <=> Pending',
         loop'.at = "keep" => loop.at = "keep",
         loop'.at = "wait" => loop'.target = w.seq,
         loop'.at # "shuts" => loop.at # "shuts" \/ Broken',
         keeper = NoKeeper => loop'.at \in {"start", "leave", "exits"}
  PROVE  PrefixOK' /\ KeeperOK'
<1>1. /\ PrefixOK /\ KeeperOK /\ keeper.digest \in Seq(Records)
      /\ w.committed \in Nat /\ w.seq \in Nat
  BY DEF AppendInv, TypesOK, FoldOK, Keepers, LogInv, FieldsOK
<1>2. PrefixOK'
  <2>1. FirstOf(confirmed.prefix, log)'
    BY <1>1 DEF PrefixOK
  <2>2. Pending' => ~confirmed'.read /\ confirmed'.prefix = log'
    BY <1>1 DEF PrefixOK
  <2>3. /\ loop'.at = "keep" => confirmed'.read
        /\ up' /\ confirmed'.read => confirmed'.prefix = log' \/ Broken'
    BY <1>1 DEF PrefixOK
  <2>4. up' /\ ~confirmed'.read /\ ~Pending' /\ loop'.at # "shuts"
        => Broken' \/ w'.committed = w'.seq
    BY <1>1, SMT DEF PrefixOK
  <2> QED
    BY <2>1, <2>2, <2>3, <2>4 DEF PrefixOK
<1>3. Folded' /\ Unkept'
  BY <1>1, SMT DEF KeeperOK, Folded, Unkept
<1> QED
  BY <1>1, <1>2, <1>3 DEF KeeperOK

LEMMA CommitterHolds ==
  ASSUME LogInv, TypesOK, AppendInv, CommitterSteps \/ DeadlinePasses
  PROVE  AppendInv'
<1>1. /\ UNCHANGED <<log, cache, life, up, code, confirmed, lock, loop, show, keeper>> /\ up
  BY DEF CommitterSteps, TakeBatch, TakeNothing, SyncLog, PublishFrames, PublishHead,
         PublishCommit, CommitterStops, DeadlinePasses, Committer, disk, process, locks
<1>2. w \in Writers /\ c.upto \in Nat /\ w.committed <= c.upto /\ c.upto <= w.seq
  BY <1>1 DEF TypesOK, WriterOK, Batches, LogInv, BatchInOrder
<1>3. /\ w'.seq = w.seq /\ w'.committed \in {w.committed, c.upto}
      /\ w.failed => w'.failed
      /\ w.closing => w'.closing
  <2>1. CommitterFails => w'.seq = w.seq /\ w'.committed = w.committed /\ w'.failed
                          /\ w'.closing = w.closing
    BY <1>2 DEF CommitterFails, Writers
  <2>2. CASE TakeBatch \/ TakeNothing \/ DeadlinePasses
    BY <1>2, <2>2 DEF TakeBatch, TakeNothing, DeadlinePasses, Taken, Writers
  <2>3. CASE SyncLog \/ PublishHead
    BY <2>1, <2>3 DEF SyncLog, PublishHead
  <2>4. CASE PublishFrames
    <3>1. CASE CommitterFails
      BY <2>1, <3>1
    <3>2. CASE w' = [w EXCEPT !.ckpt = IF LastDue THEN c.upto ELSE AfterEdges]
      BY <1>2, <3>2 DEF Writers
    <3> QED
      BY <2>4, <3>1, <3>2 DEF PublishFrames
  <2>5. CASE PublishCommit
    BY <1>2, <2>5 DEF PublishCommit, Writers
  <2>6. CASE CommitterStops
    <3>1. PICK failed \in {w.failed, TRUE} :
            w' = [w EXCEPT !.done = TRUE, !.failed = failed]
      BY <2>6 DEF CommitterStops
    <3>2. /\ w'.seq = w.seq /\ w'.committed = w.committed /\ w'.closing = w.closing
          /\ w'.failed = failed
      BY <1>2, <3>1 DEF Writers
    <3>3. w.failed => failed
      BY <3>1
    <3> QED
      BY <3>2, <3>3
  <2> QED
    BY <2>2, <2>3, <2>4, <2>5, <2>6 DEF CommitterSteps
<1>4. w'.committed \in Nat /\ w.committed <= w'.committed /\ w'.committed <= w.seq
  BY <1>2, <1>3, SMT DEF Writers
<1>5. (Broken => Broken') /\ (Pending <=> Pending')
  BY <1>1, <1>3 DEF Broken, Pending
<1>6. /\ loop.at = "wait" => loop.target = w.seq
      /\ keeper = NoKeeper => loop.at \in {"start", "leave", "exits"}
  BY DEF AppendInv, PrefixOK, KeeperOK
<1>7. PrefixOK' /\ KeeperOK'
  BY <1>1, <1>3, <1>4, <1>5, <1>6, QuietHolds
<1>8. Owners' /\ Down'
  BY <1>1 DEF AppendInv, Owners, Down
<1> QED
  BY <1>7, <1>8 DEF AppendInv

LEMMA ShowHolds ==
  ASSUME LogInv, TypesOK, AppendInv, ShowSteps \/ ShowCommits
  PROVE  AppendInv'
<1>1. up /\ UNCHANGED <<cache, up, code, loop, keeper>>
  BY DEF ShowSteps, ShowEmits, ShowStages, ShowEdges, ShowShuts, ShowCloses, ShowCommits,
         ShowCommitted, Shows, process
<1>2. /\ w \in Writers /\ w.seq \in Nat /\ w.committed \in Nat /\ w.committed <= w.seq
      /\ WriterOK /\ log \in Seq(Records) /\ confirmed \in Prefixes
  BY <1>1, SMT DEF TypesOK, WriterOK, SharedOK, Writers, LogInv, DiskOK, FieldsOK, BatchInOrder,
              ToldTruth
<1>20. w.committed <= Len(log) /\ Len(log) \in Nat
  BY <1>1, SMT DEF LogInv, DiskOK, FieldsOK, BatchInOrder, ToldTruth
<1>21. ~w.failed => w.seq = Len(log)
  BY <1>1 DEF LogInv, BatchInOrder
<1>3. Owners /\ PrefixOK /\ KeeperOK /\ Down'
  BY <1>1 DEF AppendInv, Down
<1>4. /\ loop.at = "wait" => loop.target = w.seq
      /\ keeper = NoKeeper => loop.at \in {"start", "leave", "exits"}
  BY <1>3 DEF PrefixOK, KeeperOK
<1>5. ASSUME UNCHANGED <<log, confirmed>>, w'.seq = w.seq, w'.committed = w.committed,
             w.failed => w'.failed, w.closing => w'.closing,
             show.at = "shuts" => w'.closing, show.at # "edge", show'.at # "edge", Owners'
      PROVE  AppendInv'
  <2>1. (Broken => Broken') /\ (Pending <=> Pending')
    BY <1>1, <1>5 DEF Broken, Pending
  <2>2. PrefixOK' /\ KeeperOK'
    BY <1>1, <1>2, <1>4, <1>5, <2>1, QuietHolds, SMT
  <2> QED
    BY <1>3, <1>5, <2>2 DEF AppendInv
<1>6. \A at : Shown(at) => show'.at = at
  BY SMT DEF Shown
<1>7. CASE ShowEmits \/ ShowCloses \/ ShowCommitted
  <2>1. /\ UNCHANGED <<log, confirmed, w>> /\ show.at \in {"idle", "closes", "wait"}
        /\ show'.at \in {"idle", "emits"}
    BY <1>6, <1>7 DEF ShowEmits, ShowCloses, ShowCommitted, Shows
  <2>2. Owners'
    BY <1>1, <1>3, <1>6, <1>7 DEF ShowEmits, ShowCloses, ShowCommitted, Shows, Owners
  <2> QED
    BY <1>5, <2>1, <2>2
<1>8. CASE ShowShuts
  <2>1. /\ UNCHANGED <<log, confirmed, lock>> /\ show.at = "shuts" /\ show'.at = "closes"
        /\ Shut
    BY <1>6, <1>8 DEF ShowShuts, Shows, locks
  <2>2. /\ w'.seq = w.seq /\ w'.committed = w.committed /\ w'.failed = w.failed /\ w'.closing
    BY <1>2, <2>1, ShutIs
  <2>3. Owners'
    BY <1>1, <1>3, <2>1 DEF Owners
  <2> QED
    BY <1>5, <2>1, <2>2, <2>3
<1>9. CASE ShowCommits
  <2>1. /\ UNCHANGED <<log, confirmed>> /\ show.at = "idle" /\ show'.at = "wait"
        /\ lock = "none" /\ lock' = "show" /\ w' = Requested(w, w.seq, FALSE, FALSE)
    BY <1>9 DEF ShowCommits, Shows
  <2>2. /\ w'.seq = w.seq /\ w'.committed = w.committed /\ w'.failed = w.failed
        /\ w'.closing = w.closing
    BY <1>2, <2>1, RequestedIs
  <2>3. Owners'
    BY <1>1, <1>3, <2>1 DEF Owners, LoopLocks
  <2> QED
    BY <1>5, <2>1, <2>2, <2>3
<1>10. CASE ShowStages
  <2>1. /\ show.at = "emits" /\ lock = "none" /\ loop.at \notin LoopLocks /\ ~Pending
    BY <1>3, <1>10 DEF ShowStages, Shows, Owners, LoopLocks, Pending
  <2>2. CASE \E by \in {"shown", "edge"} :
               StageOk(by) /\ (by = "shown" => show'.at \in {"idle", "emits"} /\ lock' = lock)
                           /\ (by = "edge" => show'.at = "edge" /\ lock' = "show")
    <3>1. PICK by \in {"shown", "edge"} :
               StageOk(by) /\ (by = "shown" => show'.at \in {"idle", "emits"} /\ lock' = lock)
                           /\ (by = "edge" => show'.at = "edge" /\ lock' = "show")
      BY <2>2
    <3>2. by \in Kinds
      BY DEF Kinds
    <3>3. /\ Follows /\ log' = Append(log, [by |-> by, life |-> life])
          /\ confirmed' = [read |-> by # "edge",
                           prefix |-> Append(PrefixNow, [by |-> by, life |-> life])]
          /\ w'.committed = w.committed
      BY <1>1, <3>1, <3>2, StageIs
    <3>4. /\ confirmed'.prefix = Append(PrefixNow, [by |-> by, life |-> life])
          /\ confirmed'.read = (by # "edge")
      BY <3>3
    <3>5. confirmed'.prefix = log' /\ FirstOf(log', log') /\ Folded' /\ Unkept'
      BY <1>1, <3>2, <3>3, <3>4, StageHolds
    <3>6. Pending' <=> by = "edge"
      BY <1>1, <2>1, <3>1 DEF Pending
    <3>7. PrefixOK'
      BY <1>1, <2>1, <3>4, <3>5, <3>6 DEF PrefixOK, LoopLocks
    <3>8. KeeperOK'
      BY <1>1, <1>3, <3>5 DEF KeeperOK
    <3>9. Owners'
      BY <1>1, <1>3, <2>1, <3>1 DEF Owners, LoopLocks
    <3> QED
      BY <1>3, <3>7, <3>8, <3>9 DEF AppendInv
  <2>3. CASE /\ \E by \in {"shown", "edge"} : StageFails(by)
             /\ show'.at = "shuts" /\ lock' = lock
    <3>1. /\ w'.seq = w.seq /\ w'.committed = w.committed /\ Grown
          /\ confirmed' \in {confirmed, Unread}
          /\ log' = log \/ confirmed' = Unread
      BY <2>3, StageFailsIs DEF Kinds
    <3>2. Broken' /\ ~Pending'
      BY <1>1, <2>1, <2>3 DEF Broken, Pending
    <3>3. ~Unread.read /\ Unread.prefix = << >>
      BY DEF Unread
    <3>8. log' \in Seq(Records)
      BY <1>2, <3>1, AppendKeeps DEF Grown
    <3>4. FirstOf(confirmed.prefix, log)'
      <4>1. FirstOf(<< >>, log')
        BY <3>8, FirstIs
      <4>2. FirstOf(confirmed.prefix, log)
        BY <1>3 DEF PrefixOK
      <4>3. CASE confirmed' = Unread
        BY <3>3, <4>1, <4>3
      <4>4. CASE confirmed' = confirmed /\ log' = log
        BY <4>2, <4>4
      <4> QED
        BY <3>1, <4>3, <4>4
    <3>5. PrefixOK'
      BY <1>1, <2>1, <3>2, <3>4 DEF PrefixOK, LoopLocks
    <3>9. Folded' /\ Unkept'
      BY <1>1, <3>1, <3>3, FoldGrows
    <3>6. KeeperOK'
      BY <1>1, <1>3, <3>9 DEF KeeperOK
    <3>7. Owners'
      BY <1>1, <1>3, <2>1, <2>3 DEF Owners, LoopLocks
    <3> QED
      BY <1>3, <3>5, <3>6, <3>7 DEF AppendInv
  <2> QED
    <3>1. CASE StageOk("shown") /\ Mirrored /\ UNCHANGED lock
      BY <1>6, <2>2, <3>1 DEF Mirrored
    <3>2. CASE /\ StageOk("edge") /\ lock' = "show"
               /\ show' = [at |-> "edge", target |-> w.seq + 1]
      BY <2>2, <3>2
    <3>3. CASE /\ \E by \in {"shown", "edge"} : StageFails(by)
               /\ Shown("shuts") /\ UNCHANGED locks
      BY <1>6, <2>3, <3>3 DEF locks
    <3> QED
      BY <1>10, <3>1, <3>2, <3>3 DEF ShowStages
<1>11. CASE ShowEdges
  <2>1. /\ show.at = "edge" /\ lock = "show" /\ loop.at \notin LoopLocks /\ Pending
        /\ UNCHANGED <<log, w>> /\ lock' = "none"
    BY <1>3, <1>11 DEF ShowEdges, Shows, Owners, LoopLocks, Pending
  <2>2. ~confirmed.read /\ confirmed.prefix = log
    BY <1>3, <2>1 DEF PrefixOK
  <2>3. CASE Confirm /\ show'.at \in {"idle", "emits"}
    <3>1. confirmed'.read /\ confirmed'.prefix = log
      BY <1>2, <2>2, <2>3, PrefixesIs DEF Confirm
    <3>2. ~Pending'
      BY <1>1, <2>1, <2>3 DEF Pending, LoopLocks
    <3>3. PrefixOK'
      BY <1>1, <1>2, <2>1, <3>1, <3>2, FirstIs DEF PrefixOK, LoopLocks
    <3>4. Unkept'
      <4>1. keeper.digest \in Seq(Records)
        BY DEF TypesOK, FoldOK, Keepers
      <4> QED
        BY <1>1, <1>2, <1>3, <1>20, <2>1, <3>1, <4>1, SMT DEF KeeperOK, Unkept
    <3>5. KeeperOK'
      BY <1>1, <1>3, <2>1, <3>4 DEF KeeperOK, Folded
    <3>6. Owners'
      BY <1>1, <2>1, <2>3 DEF Owners
    <3> QED
      BY <1>3, <3>3, <3>5, <3>6 DEF AppendInv
  <2>4. CASE confirmed' = Unread /\ show'.at = "shuts"
    <3>1. ~confirmed'.read /\ confirmed'.prefix = << >>
      BY <2>4 DEF Unread
    <3>2. Broken' /\ ~Pending'
      BY <1>1, <2>1, <2>4 DEF Broken, Pending, LoopLocks
    <3>3. PrefixOK'
      BY <1>1, <1>2, <2>1, <3>1, <3>2, FirstIs DEF PrefixOK, LoopLocks
    <3>4. KeeperOK'
      BY <1>1, <1>3, <2>1, <3>1 DEF KeeperOK, Folded, Unkept
    <3>5. Owners'
      BY <1>1, <2>1, <2>4 DEF Owners
    <3> QED
      BY <1>3, <3>3, <3>4, <3>5 DEF AppendInv
  <2> QED
    BY <1>6, <1>11, <2>3, <2>4 DEF ShowEdges, Mirrored
<1> QED
  BY <1>7, <1>8, <1>9, <1>10, <1>11 DEF ShowSteps

LEMMA LoopHolds ==
  ASSUME LogInv, TypesOK, AppendInv, LoopSteps \/ LoopBegins \/ LoopHears \/ LoopQuits
  PROVE  AppendInv'
<1>1. up /\ UNCHANGED <<up, code, show>>
  BY DEF LoopSteps, LoopStarts, LoopShows, LoopEdges, LoopShuts, LoopCloses, LoopAppends,
         LoopCommits, LoopConfirms, LoopKeeps, LoopLeaves, LoopBegins, LoopHears, LoopQuits,
         Loops, process
<1>2. /\ w \in Writers /\ w.seq \in Nat /\ w.committed \in Nat /\ w.committed <= w.seq
      /\ WriterOK /\ log \in Seq(Records) /\ confirmed \in Prefixes
  BY <1>1, SMT DEF TypesOK, WriterOK, SharedOK, Writers, LogInv, DiskOK, FieldsOK, BatchInOrder,
              ToldTruth
<1>20. w.committed <= Len(log) /\ Len(log) \in Nat
  BY <1>1, SMT DEF LogInv, DiskOK, FieldsOK, BatchInOrder, ToldTruth
<1>21. ~w.failed => w.seq = Len(log)
  BY <1>1 DEF LogInv, BatchInOrder
<1>3. /\ Owners /\ PrefixOK /\ KeeperOK /\ Down' /\ FoldOK
      /\ keeper.digest \in Seq(Records) /\ keeper.since \in Nat
  BY <1>1 DEF AppendInv, Down, TypesOK, FoldOK, Keepers
<1>4. /\ \A at : LoopLater(at) => loop'.at = at /\ loop'.target = 0
      /\ \A at, does, t : LoopAt(at, does, t) => loop'.at = at /\ loop'.target = t
  BY SMT DEF LoopLater, LoopAt
<1>5. ASSUME UNCHANGED <<log, confirmed, keeper, cache>>,
             w'.seq = w.seq, w'.committed = w.committed,
             w.failed => w'.failed, w.closing => w'.closing,
             Pending <=> Pending', loop'.at # "keep", loop'.at = "wait" => loop'.target = w.seq,
             loop.at = "shuts" => w'.closing,
             keeper = NoKeeper => loop'.at \in {"start", "leave", "exits"}, Owners'
      PROVE  AppendInv'
  <2>1. Broken => Broken'
    BY <1>1, <1>5 DEF Broken
  <2>2. loop.at = "shuts" => Broken'
    BY <1>5 DEF Broken
  <2>3. PrefixOK' /\ KeeperOK'
    BY <1>1, <1>2, <1>5, <2>1, <2>2, QuietHolds, SMT
  <2> QED
    BY <1>3, <1>5, <2>3 DEF AppendInv
<1>6. ASSUME Grown, UNCHANGED <<keeper, cache>>, w'.committed = w.committed,
             confirmed' = Unread, Broken' \/ loop'.at = "shuts",
             ~Pending', loop'.at \notin {"keep", "wait"},
             keeper = NoKeeper => loop'.at \in {"start", "leave", "exits"}, Owners'
      PROVE  AppendInv'
  <2>1. ~confirmed'.read /\ confirmed'.prefix = << >>
    BY <1>6 DEF Unread
  <2>4. log' \in Seq(Records)
    BY <1>2, <1>6, AppendKeeps DEF Grown
  <2>2. PrefixOK'
    BY <1>6, <2>1, <2>4, FirstIs DEF PrefixOK
  <2>5. Folded' /\ Unkept'
    BY <1>1, <1>6, <2>1, FoldGrows
  <2>3. KeeperOK'
    BY <1>1, <1>3, <1>6, <2>5 DEF KeeperOK
  <2> QED
    BY <1>3, <1>6, <2>2, <2>3 DEF AppendInv
<1>22. log' = log => Grown
  BY DEF Grown
<1>7. ASSUME UNCHANGED <<log, w, keeper, cache>>,
             confirmed' = Read(PrefixNow), PrefixNow = log \/ Broken,
             ~Pending', loop'.at # "wait",
             keeper = NoKeeper => loop'.at \in {"start", "leave", "exits"}, Owners'
      PROVE  AppendInv'
  <2>1. PrefixNow \in Seq(Records) /\ FirstOf(PrefixNow, log)
        /\ (keeper.since > 0 => Len(keeper.digest) <= Len(PrefixNow))
    BY <1>1, NowIs
  <2>2. confirmed'.read /\ confirmed'.prefix = PrefixNow
    BY <1>7, <2>1, PrefixesIs
  <2>3. Broken => Broken'
    BY <1>1, <1>7 DEF Broken
  <2>4. PrefixOK'
    BY <1>7, <2>1, <2>2, <2>3 DEF PrefixOK
  <2>5. KeeperOK'
    BY <1>1, <1>3, <1>7, <2>1, <2>2 DEF KeeperOK, Folded, Unkept
  <2> QED
    BY <1>3, <1>7, <2>4, <2>5 DEF AppendInv
<1>8. CASE LoopBegins \/ LoopHears
  <2>1. /\ UNCHANGED <<log, w, keeper, cache>> /\ loop.at = "idle" /\ lock = "none"
        /\ show.at \notin {"edge", "wait"} /\ keeper # NoKeeper
    BY <1>3, <1>8 DEF LoopBegins, LoopHears, Loops, Owners, KeeperOK
  <2>2. CASE Known
    <3>1. /\ confirmed' = Read(PrefixNow) /\ lock' = "loop"
          /\ loop'.at \in {"announce", "append", "keep"}
      BY <1>4, <1>8, <2>2 DEF LoopBegins, LoopHears
    <3>2. ~Pending /\ ~Pending'
      BY <1>1, <2>1, <3>1 DEF Pending
    <3>3. PrefixNow = log \/ Broken
      BY <1>1, <2>1, <3>2, NowIs
    <3>4. Owners'
      BY <1>1, <2>1, <3>1 DEF Owners, LoopLocks
    <3> QED
      BY <1>7, <2>1, <3>1, <3>2, <3>3, <3>4
  <2>3. CASE ~Known
    <3>1. UNCHANGED confirmed /\ loop'.at = "leave" /\ lock' = "none"
      BY <1>4, <1>8, <2>3 DEF LoopBegins, LoopHears, LoopFails
    <3>2. Pending <=> Pending'
      BY <1>1, <2>1, <3>1 DEF Pending
    <3>3. Owners'
      BY <1>1, <2>1, <3>1 DEF Owners, LoopLocks
    <3> QED
      BY <1>5, <2>1, <3>1, <3>2, <3>3
  <2> QED
    BY <2>2, <2>3
<1>9. CASE LoopStarts
  <2>1. /\ UNCHANGED <<log, w, cache>> /\ loop.at = "start" /\ lock = "none"
        /\ show.at \notin {"edge", "wait"}
    BY <1>3, <1>9 DEF LoopStarts, Loops, Owners
  <2>2. CASE Known
    <3>1. /\ confirmed' = Read(PrefixNow) /\ keeper' = StartFold(PrefixNow)
          /\ \/ loop'.at = "idle" /\ lock' = "none"
             \/ loop'.at = "append" /\ lock' = "loop"
      BY <1>4, <1>9, <2>1, <2>2 DEF LoopStarts
    <3>2. ~Pending /\ ~Pending'
      BY <1>1, <2>1, <3>1 DEF Pending
    <3>3. /\ PrefixNow = log \/ Broken
          /\ PrefixNow \in Seq(Records) /\ FirstOf(PrefixNow, log)
      BY <1>1, <2>1, <3>2, NowIs
    <3>4. confirmed'.read /\ confirmed'.prefix = PrefixNow
      BY <3>1, <3>3, PrefixesIs
    <3>5. Broken => Broken'
      BY <1>1, <2>1 DEF Broken
    <3>6. PrefixOK'
      BY <2>1, <3>1, <3>2, <3>3, <3>4, <3>5 DEF PrefixOK
    <3>7. cache.state = cache.digest
      BY <1>3 DEF KeeperOK
    <3>8. /\ keeper'.digest = PrefixNow /\ keeper'.fold = PrefixNow
          /\ keeper'.rules = code /\ keeper'.since = 0 /\ keeper' # NoKeeper
      BY <1>3, <3>1, <3>3, <3>7, StartsWhole
    <3>9. KeeperOK'
      BY <1>1, <2>1, <3>3, <3>7, <3>8, SMT DEF KeeperOK, Folded, Unkept
    <3>10. Owners'
      BY <1>1, <2>1, <3>1 DEF Owners, LoopLocks
    <3> QED
      BY <1>3, <3>6, <3>9, <3>10 DEF AppendInv
  <2>3. CASE ~Known
    <3>1. UNCHANGED <<confirmed, keeper>> /\ loop'.at = "leave" /\ lock' = "none"
      BY <1>4, <1>9, <2>3 DEF LoopStarts, LoopFails
    <3>2. Pending <=> Pending'
      BY <1>1, <2>1, <3>1 DEF Pending
    <3>3. Owners'
      BY <1>1, <2>1, <3>1 DEF Owners, LoopLocks
    <3> QED
      BY <1>5, <2>1, <3>1, <3>2, <3>3
  <2> QED
    BY <2>2, <2>3
<1>10. CASE LoopQuits
  <2>1. /\ UNCHANGED <<log, confirmed, keeper, cache, w, lock>> /\ loop.at = "idle"
        /\ loop'.at = "leave"
    BY <1>4, <1>10 DEF LoopQuits, Loops, locks
  <2>2. (Pending <=> Pending') /\ Owners'
    BY <1>1, <1>3, <2>1 DEF Pending, Owners, LoopLocks
  <2> QED
    BY <1>5, <2>1, <2>2
<1>11. CASE LoopShuts \/ LoopLeaves
  <2>1. /\ UNCHANGED <<log, confirmed, keeper, cache, lock>> /\ Shut
        /\ \/ loop.at = "shuts" /\ loop'.at = "closes"
           \/ loop.at = "leave" /\ loop'.at = "exits"
    BY <1>4, <1>11 DEF LoopShuts, LoopLeaves, Loops, locks
  <2>2. w'.seq = w.seq /\ w'.committed = w.committed /\ w'.failed = w.failed /\ w'.closing
    BY <1>2, <2>1, ShutIs
  <2>3. (Pending <=> Pending') /\ Owners'
    BY <1>1, <1>3, <2>1 DEF Pending, Owners, LoopLocks
  <2>4. keeper = NoKeeper => loop'.at \in {"start", "leave", "exits"}
    BY <1>3, <2>1 DEF KeeperOK
  <2> QED
    BY <1>5, <2>1, <2>2, <2>3, <2>4
<1>12. CASE LoopCloses
  <2>1. /\ UNCHANGED <<log, confirmed, keeper, cache, w, lock>> /\ loop.at = "closes"
        /\ loop'.at = "append"
    BY <1>4, <1>12 DEF LoopCloses, Loops
  <2>2. (Pending <=> Pending') /\ Owners' /\ keeper # NoKeeper
    BY <1>1, <1>3, <2>1 DEF Pending, Owners, LoopLocks, KeeperOK
  <2> QED
    BY <1>5, <2>1, <2>2
<1>13. CASE LoopShows
  <2>1. /\ UNCHANGED <<keeper, cache>> /\ loop.at = "announce" /\ lock = "loop"
        /\ show.at \notin {"edge", "wait"} /\ ~Pending /\ keeper # NoKeeper
    BY <1>3, <1>13 DEF LoopShows, Loops, Owners, LoopLocks, Pending, KeeperOK
  <2>2. CASE /\ UNCHANGED <<log, w, confirmed>>
             /\ \/ loop'.at = "append" /\ lock' = lock
                \/ loop'.at = "leave" /\ lock' = "none"
    <3>1. (Pending <=> Pending') /\ Owners'
      BY <1>1, <1>3, <2>1, <2>2 DEF Pending, Owners, LoopLocks
    <3> QED
      BY <1>5, <2>1, <2>2, <3>1
  <2>3. CASE StageOk("edge") /\ loop'.at = "edge" /\ lock' = lock
    <3>1. "edge" \in Kinds
      BY DEF Kinds
    <3>2. /\ Follows /\ log' = Append(log, [by |-> "edge", life |-> life])
          /\ confirmed' = [read |-> "edge" # "edge",
                           prefix |-> Append(PrefixNow, [by |-> "edge", life |-> life])]
          /\ w'.committed = w.committed
      BY <1>1, <2>3, <3>1, StageIs
    <3>3. /\ confirmed'.prefix = Append(PrefixNow, [by |-> "edge", life |-> life])
          /\ ~confirmed'.read
      BY <3>2
    <3>4. confirmed'.prefix = log' /\ FirstOf(log', log') /\ Folded' /\ Unkept'
      BY <1>1, <2>1, <3>1, <3>2, <3>3, StageHolds
    <3>5. Pending' /\ Owners'
      BY <1>1, <2>1, <2>3 DEF Pending, Owners, LoopLocks
    <3>6. PrefixOK'
      BY <2>3, <3>3, <3>4, <3>5 DEF PrefixOK
    <3>7. KeeperOK'
      BY <1>1, <1>3, <2>1, <3>4 DEF KeeperOK
    <3> QED
      BY <1>3, <3>5, <3>6, <3>7 DEF AppendInv
  <2>4. CASE StageFails("edge") /\ loop'.at = "shuts" /\ lock' = lock
    <3>1. /\ w'.seq = w.seq /\ w'.committed = w.committed /\ Grown
          /\ confirmed' \in {confirmed, Unread}
          /\ (w' = w /\ log' = log) \/ (w'.failed /\ confirmed' = Unread)
      BY <2>4, StageFailsIs DEF Kinds
    <3>2. ~Pending' /\ Owners'
      BY <1>1, <2>1, <2>4 DEF Pending, Owners, LoopLocks
    <3>3. CASE confirmed' = Unread
      BY <1>6, <2>1, <2>4, <3>1, <3>2, <3>3
    <3>4. CASE w' = w /\ log' = log /\ confirmed' = confirmed
      <4>1. Broken => Broken'
        BY <1>1, <3>4 DEF Broken
      <4>2. PrefixOK'
        BY <1>1, <1>3, <2>4, <3>1, <3>2, <3>4, <4>1 DEF PrefixOK
      <4>3. KeeperOK'
        BY <1>1, <1>3, <2>1, <3>1, <3>4 DEF KeeperOK, Folded, Unkept
      <4> QED
        BY <1>3, <3>2, <4>2, <4>3 DEF AppendInv
    <3> QED
      BY <3>1, <3>3, <3>4
  <2> QED
    BY <1>4, <1>13, <2>2, <2>3, <2>4 DEF LoopShows, LoopFails, locks
<1>14. CASE LoopEdges
  <2>1. /\ UNCHANGED <<log, w, keeper, cache, lock>> /\ loop.at = "edge" /\ lock = "loop"
        /\ show.at \notin {"edge", "wait"} /\ Pending /\ keeper # NoKeeper
    BY <1>3, <1>14 DEF LoopEdges, Loops, Owners, LoopLocks, Pending, KeeperOK
  <2>2. ~confirmed.read /\ confirmed.prefix = log
    BY <1>3, <2>1 DEF PrefixOK
  <2>3. CASE Confirm /\ loop'.at = "append"
    <3>1. confirmed'.read /\ confirmed'.prefix = log
      BY <1>2, <2>2, <2>3, PrefixesIs DEF Confirm
    <3>2. ~Pending' /\ Owners'
      BY <1>1, <2>1, <2>3 DEF Pending, Owners, LoopLocks
    <3>3. PrefixOK'
      BY <1>2, <2>1, <2>3, <3>1, <3>2, FirstIs DEF PrefixOK
    <3>4. Unkept'
      BY <1>2, <1>3, <1>20, <2>1, <3>1, SMT DEF KeeperOK, Unkept
    <3>5. KeeperOK'
      BY <1>1, <1>3, <2>1, <3>4 DEF KeeperOK, Folded
    <3> QED
      BY <1>3, <3>2, <3>3, <3>5 DEF AppendInv
  <2>4. CASE confirmed' = Unread /\ loop'.at = "shuts"
    <3>1. ~Pending' /\ Owners'
      BY <1>1, <2>1, <2>4 DEF Pending, Owners, LoopLocks
    <3> QED
      BY <1>6, <1>22, <2>1, <2>4, <3>1
  <2> QED
    BY <1>4, <1>14, <2>3, <2>4 DEF LoopEdges
<1>15. CASE LoopAppends
  <2>1. /\ UNCHANGED <<keeper, cache>> /\ loop.at = "append" /\ lock = "loop"
        /\ show.at \notin {"edge", "wait"} /\ ~Pending /\ keeper # NoKeeper
    BY <1>3, <1>15 DEF LoopAppends, Loops, Owners, LoopLocks, Pending, KeeperOK
  <2>2. CASE /\ Follows /\ Write("core") /\ w' = Queued(w)
             /\ confirmed' = [read |-> FALSE, prefix |-> Extended("core")]
             /\ loop'.at = "commit" /\ UNCHANGED lock
    <3>1. /\ "core" \in Kinds /\ log' = Append(log, [by |-> "core", life |-> life])
          /\ confirmed'.prefix = Append(PrefixNow, [by |-> "core", life |-> life])
          /\ ~confirmed'.read
      BY <2>2 DEF Kinds, Write, Extended
    <3>2. w'.committed = w.committed
      BY <1>2, <2>2, QueuedIs
    <3>3. confirmed'.prefix = log' /\ FirstOf(log', log') /\ Folded' /\ Unkept'
      BY <1>1, <2>1, <2>2, <3>1, <3>2, StageHolds
    <3>4. Pending' /\ Owners'
      BY <1>1, <2>1, <2>2 DEF Pending, Owners, LoopLocks
    <3>5. PrefixOK'
      BY <2>2, <3>1, <3>3, <3>4 DEF PrefixOK
    <3>6. KeeperOK'
      BY <1>1, <1>3, <2>1, <3>3 DEF KeeperOK
    <3> QED
      BY <1>3, <3>4, <3>5, <3>6 DEF AppendInv
  <2>3. CASE WriteFails("core") /\ confirmed' = Unread /\ LoopFails
    <3>1. w'.committed = w.committed /\ w'.failed /\ Grown
      BY <2>3, WriteFailsIs DEF Kinds
    <3>2. loop'.at = "leave" /\ lock' = "none"
      BY <1>4, <2>3 DEF LoopFails
    <3>3. Broken' /\ ~Pending' /\ Owners'
      BY <1>1, <2>1, <3>1, <3>2 DEF Broken, Pending, Owners, LoopLocks
    <3> QED
      BY <1>6, <2>1, <2>3, <3>1, <3>2, <3>3
  <2>4. CASE ~Follows /\ confirmed' = Unread /\ LoopFails /\ UNCHANGED <<log, w>>
    <3>1. loop'.at = "leave" /\ lock' = "none"
      BY <1>4, <2>4 DEF LoopFails
    <3>2. Broken
      <4>1. PrefixNow = log \/ Broken
        BY <1>1, <2>1, NowIs
      <4>2. PrefixNow = log => ~Takes
        BY <1>21, <2>4 DEF Follows, Known, Takes
      <4> QED
        BY <4>1, <4>2 DEF Takes, Broken
    <3>3. Broken' /\ ~Pending' /\ Owners'
      BY <1>1, <2>1, <2>4, <3>1, <3>2 DEF Broken, Pending, Owners, LoopLocks
    <3> QED
      BY <1>6, <1>22, <2>1, <2>4, <3>1, <3>3
  <2> QED
    BY <1>4, <1>15, <2>2, <2>3, <2>4 DEF LoopAppends
<1>16. CASE LoopCommits
  <2>1. /\ UNCHANGED <<log, keeper, cache>> /\ loop.at = "commit" /\ lock = "loop"
        /\ show.at \notin {"edge", "wait"} /\ Pending /\ keeper # NoKeeper
    BY <1>3, <1>16 DEF LoopCommits, Loops, Owners, LoopLocks, Pending, KeeperOK
  <2>2. CASE Takes
    <3>1. /\ w' = Requested(w, w.seq, FALSE, FALSE) /\ UNCHANGED <<confirmed, lock>>
          /\ loop'.at = "wait" /\ loop'.target = w.seq
      BY <1>4, <1>16, <2>2 DEF LoopCommits
    <3>2. /\ w'.seq = w.seq /\ w'.committed = w.committed /\ w'.failed = w.failed
          /\ w'.closing = w.closing
      BY <1>2, <3>1, RequestedIs
    <3>3. (Pending <=> Pending') /\ Owners'
      BY <1>1, <2>1, <3>1 DEF Pending, Owners, LoopLocks
    <3> QED
      BY <1>5, <2>1, <3>1, <3>2, <3>3
  <2>3. CASE ~Takes
    <3>1. /\ confirmed' = Unread /\ w' = w /\ loop'.at = "leave" /\ lock' = "none"
      BY <1>4, <1>16, <2>3 DEF LoopCommits, LoopFails
    <3>2. Broken' /\ ~Pending' /\ Owners'
      BY <1>1, <2>1, <2>3, <3>1 DEF Takes, Broken, Pending, Owners, LoopLocks
    <3> QED
      BY <1>6, <1>22, <2>1, <3>1, <3>2
  <2> QED
    BY <2>2, <2>3
<1>17. CASE LoopConfirms
  <2>1. /\ UNCHANGED <<log, w, cache>> /\ loop.at = "wait" /\ lock = "loop"
        /\ show.at \notin {"edge", "wait"} /\ Pending /\ keeper # NoKeeper
    BY <1>3, <1>17 DEF LoopConfirms, Loops, Owners, LoopLocks, Pending, KeeperOK
  <2>2. ~confirmed.read /\ confirmed.prefix = log /\ loop.target = w.seq
    BY <1>3, <2>1 DEF PrefixOK
  <2>3. CASE /\ Reached(loop.target, FALSE) /\ Confirm
             /\ keeper' = [keeper EXCEPT !.since = keeper.since + 1]
             /\ \/ loop'.at = "idle" /\ lock' = "none"
                \/ loop'.at \in {"keep", "append"} /\ lock' = lock
    <3>1. confirmed'.read /\ confirmed'.prefix = log
      BY <1>2, <2>2, <2>3, PrefixesIs DEF Confirm
    <3>2. ~Pending' /\ Owners'
      BY <1>1, <2>1, <2>3 DEF Pending, Owners, LoopLocks
    <3>3. PrefixOK'
      BY <1>2, <2>1, <2>3, <3>1, <3>2, FirstIs DEF PrefixOK
    <3>4. /\ keeper.rules = code /\ FirstOf(keeper.digest, log)
          /\ keeper.fold = keeper.digest
      BY <1>3, <2>1 DEF KeeperOK, Folded
    <3>5. /\ keeper'.digest = keeper.digest /\ keeper'.fold = keeper.fold
          /\ keeper'.rules = keeper.rules
      BY <1>3, <2>3 DEF FoldOK, Keepers
    <3>6. keeper' # NoKeeper
      BY <1>3, <3>4, <3>5, SMT DEF FoldOK, NoKeeper
    <3>7. Len(keeper.digest) <= w.committed /\ Len(keeper.digest) <= Len(log)
      <4>1. w.committed >= w.seq
        BY <2>2, <2>3 DEF Reached
      <4>2. w.seq = Len(log)
        BY <1>21, <2>3 DEF Reached
      <4> QED
        BY <1>2, <1>3, <3>4, <4>1, <4>2, SMT DEF FirstOf
    <3>8. Folded' /\ Unkept'
      BY <1>1, <2>1, <3>1, <3>4, <3>5, <3>7 DEF Folded, Unkept
    <3>9. KeeperOK'
      BY <1>3, <2>1, <3>6, <3>8 DEF KeeperOK
    <3> QED
      BY <1>3, <3>2, <3>3, <3>9 DEF AppendInv
  <2>4. CASE Raised /\ confirmed' = Unread /\ LoopFails /\ UNCHANGED keeper
    <3>1. loop'.at = "leave" /\ lock' = "none"
      BY <1>4, <2>4 DEF LoopFails
    <3>2. Broken' /\ ~Pending' /\ Owners'
      BY <1>1, <2>1, <2>4, <3>1 DEF Raised, Broken, Pending, Owners, LoopLocks
    <3> QED
      BY <1>6, <1>22, <2>1, <2>4, <3>1, <3>2
  <2> QED
    BY <1>4, <1>17, <2>3, <2>4 DEF LoopConfirms
<1>18. CASE LoopKeeps
  <2>1. /\ UNCHANGED <<log, w, confirmed>> /\ loop.at = "keep" /\ lock = "loop"
        /\ show.at \notin {"edge", "wait"} /\ ~Pending /\ keeper # NoKeeper
        /\ lock' = "none" /\ loop'.at \in {"idle", "leave"} /\ confirmed.read
    BY <1>3, <1>4, <1>18 DEF LoopKeeps, AfterKeep, Loops, Owners, LoopLocks, Pending, KeeperOK,
                             PrefixOK
  <2>2. ~Pending' /\ Owners'
    BY <1>1, <2>1 DEF Pending, Owners, LoopLocks
  <2>3. CASE ~CacheDue
    BY <1>5, <1>18, <2>1, <2>2, <2>3 DEF LoopKeeps
  <2>4. CASE CacheDue
    <3>1. /\ keeper' = Kept(confirmed.prefix)
          /\ \/ cache' = cache
             \/ cache' = [digest |-> keeper'.digest, state |-> keeper'.fold,
                          rules |-> keeper'.rules]
      BY <1>18, <2>4 DEF LoopKeeps
    <3>2. /\ keeper.rules = code /\ FirstOf(keeper.digest, log)
          /\ keeper.fold = keeper.digest /\ keeper.since > 0
          /\ Len(keeper.digest) <= Len(confirmed.prefix)
      BY <1>3, <2>1, <2>4 DEF KeeperOK, Folded, Unkept, CacheDue
    <3>3. confirmed.prefix \in Seq(Records) /\ FirstOf(confirmed.prefix, log)
      BY <1>2, <1>3 DEF Prefixes, PrefixOK
    <3>4. FirstOf(keeper.digest, confirmed.prefix)
      BY <1>2, <1>3, <3>2, <3>3, FirstOfFirst
    <3>5. /\ keeper'.digest = confirmed.prefix /\ keeper'.fold = confirmed.prefix
          /\ keeper'.rules = code /\ keeper'.since = 0 /\ keeper' # NoKeeper
      BY <1>3, <3>1, <3>2, <3>3, <3>4, KeepsWhole
    <3>6. cache'.state = cache'.digest
      BY <1>3, <3>1, <3>5, SMT DEF KeeperOK
    <3>7. KeeperOK'
      BY <1>1, <2>1, <3>3, <3>5, <3>6, SMT DEF KeeperOK, Folded, Unkept
    <3>8. Broken => Broken'
      BY <1>1, <2>1 DEF Broken
    <3>9. PrefixOK'
      BY <1>1, <1>3, <2>1, <2>2, <3>8 DEF PrefixOK
    <3> QED
      BY <1>3, <2>2, <3>7, <3>9 DEF AppendInv
  <2> QED
    BY <2>3, <2>4
<1> QED
  BY <1>8, <1>9, <1>10, <1>11, <1>12, <1>13, <1>14, <1>15, <1>16, <1>17, <1>18 DEF LoopSteps

(* A process that is gone leaves the cache, and one that opens the log finds all *)
(* of it committed.                                                              *)
LEMMA ProcessHolds ==
  ASSUME LogInv, LogInv', TypesOK, AppendInv,
         LoopExits \/ Crash \/ PowerLoss \/ Opens \/ OpenFails
  PROVE  AppendInv'
<1>1. log' \in Seq(Records) /\ cache.state = cache.digest /\ ~unopened'
  BY DEF LogInv, DiskOK, Reopens, AppendInv, KeeperOK
<1>2. /\ ~Unread.read /\ Unread.prefix = << >> /\ NoKeeper.since = 0
      /\ FirstOf(<< >>, log')
  BY <1>1, FirstIs DEF Unread, NoKeeper
<1>3. ASSUME lock' = "none", loop'.at = "start", show'.at = "idle", confirmed' = Unread,
             keeper' = NoKeeper, cache' = cache, up' => w'.committed = w'.seq
      PROVE  AppendInv'
  <2>1. Owners' /\ Down' /\ ~Pending'
    BY <1>3 DEF Owners, Down, Pending, LoopLocks
  <2>2. PrefixOK'
    BY <1>2, <1>3, <2>1 DEF PrefixOK
  <2>3. KeeperOK'
    BY <1>1, <1>2, <1>3, SMT DEF KeeperOK, Folded, Unkept
  <2> QED
    BY <2>1, <2>2, <2>3 DEF AppendInv
<1>4. CASE LoopExits \/ Crash \/ PowerLoss
  BY <1>3, <1>4, SMT DEF LoopExits, Crash, PowerLoss, Gone
<1>5. CASE Opens \/ OpenFails
  <2>1. /\ lock' = "none" /\ loop'.at = "start" /\ show'.at = "idle"
        /\ confirmed' = Unread /\ keeper' = NoKeeper /\ cache' = cache /\ ~up
    BY <1>5 DEF Opens, OpenFails, AppendInv, Down, locks, disk
  <2>2. up' => Opened
    BY <1>1, <1>5, <2>1 DEF Opens, OpenFails, process
  <2>3. Opened => w'.committed = w'.seq
    BY DEF Opened, NoWriter
  <2> QED
    BY <1>3, <2>1, <2>2, <2>3
<1> QED
  BY <1>4, <1>5

LEMMA StepHolds ==
  ASSUME LogInv, LogInv', TypesOK, AppendInv, [Next]_vars
  PROVE  AppendInv'
<1>1. CASE SleepsAgain \/ UNCHANGED vars
  <2>1. UNCHANGED <<log, cache, up, code, w, confirmed, lock, loop, show, keeper>>
    BY <1>1 DEF SleepsAgain, vars, disk, process, locks
  <2> QED
    BY <2>1 DEF AppendInv, Owners, Down, PrefixOK, KeeperOK, Folded, Unkept, Broken, Pending
<1>2. CASE CommitterSteps \/ DeadlinePasses
  BY <1>2, CommitterHolds
<1>3. CASE ShowSteps \/ ShowCommits
  BY <1>3, ShowHolds
<1>4. CASE LoopSteps \/ LoopBegins \/ LoopHears \/ LoopQuits
  BY <1>4, LoopHolds
<1>5. CASE LoopExits \/ Crash \/ PowerLoss \/ Opens \/ OpenFails
  BY <1>5, ProcessHolds
<1> QED
  BY <1>1, <1>2, <1>3, <1>4, <1>5 DEF Next

LEMMA InitHolds == Init => AppendInv
<1> SUFFICES ASSUME Init PROVE AppendInv
  OBVIOUS
<1>1. log \in Seq(Records)
  BY SMT DEF Init
<1>2. FirstOf(<< >>, log) /\ ~Unread.read /\ Unread.prefix = << >> /\ NoKeeper.since = 0
  BY <1>1, FirstIs DEF Unread, NoKeeper
<1>3. Owners /\ Down /\ ~Pending
  BY DEF Init, Owners, Down, Pending, LoopLocks
<1>4. PrefixOK
  BY <1>2, <1>3 DEF Init, PrefixOK
<1>5. KeeperOK
  BY <1>2, SMT DEF Init, KeeperOK, Folded, Unkept, NoCache
<1> QED
  BY <1>3, <1>4, <1>5 DEF AppendInv

LEMMA AppendsAlways == Spec => [](LogInv /\ TypesOK /\ AppendInv)
<1>1. LogInv /\ LogInv' /\ TypesOK /\ AppendInv /\ [Next]_vars => AppendInv'
  BY StepHolds
<1> QED
  BY <1>1, LogTypesAlways, InitHolds, PTL DEF Spec

(* A log that was written can be opened: no crash or loss of power, between any   *)
(* two calls to the disk, leaves a head ahead of the records or a keyframe that   *)
(* a later one contradicts (_recover and publish raise).                          *)
THEOREM LogReopens == Spec => []Reopens
<1>1. LogInv => Reopens
  BY DEF LogInv
<1> QED
  BY <1>1, LogTypesAlways, PTL

(* Every keyframe is the fold of the log's own first records, all of them durable *)
(* (_commit_batch syncs before it publishes).                                     *)
THEOREM KeyframesTrue == Spec => []FramesTrue
<1>1. LogInv => FramesTrue
  BY DEF LogInv
<1> QED
  BY <1>1, LogTypesAlways, PTL

(* No record is numbered after anything but the whole file, nor written after an  *)
(* incomplete frame, also where a write failed and the record got there: core and *)
(* the display never number two records alike.  The prefix that is held is the    *)
(* whole file but where the writer failed or closes, or the display's mirror has  *)
(* failed and is about to close it (ConfirmedLog.extend and stage, under one      *)
(* lock).                                                                         *)
THEOREM PrefixIsFile == Spec => []PrefixCurrent
<1>1. LogInv /\ TypesOK /\ AppendInv => PrefixCurrent
  <2> SUFFICES ASSUME LogInv, TypesOK, AppendInv, up
               PROVE  /\ Follows => PrefixNow = log /\ ~torn
                      /\ confirmed.read => confirmed.prefix = log \/ Broken
    BY DEF PrefixCurrent, Broken
  <2>1. Follows => PrefixNow = log
    BY NowIs DEF Follows, Takes
  <2>2. Follows => ~torn
    BY DEF Follows, Takes, LogInv, BatchInOrder
  <2>3. confirmed.read => confirmed.prefix = log \/ Broken
    BY DEF AppendInv, PrefixOK
  <2> QED
    BY <2>1, <2>2, <2>3
<1> QED
  BY <1>1, AppendsAlways, PTL

(* What a process folds from, with the cache or without, is the fold of the log's *)
(* own first records by the rules in force, whatever rules, crashes and losses    *)
(* the cache has seen (judge, start_fold, FoldKeeper.keep).                       *)
THEOREM FoldOfLog == Spec => []FoldIsLog
<1>1. AppendInv => FoldIsLog
  BY DEF AppendInv, KeeperOK, Folded, FirstOf, FoldIsLog, Prefix
<1> QED
  BY <1>1, AppendsAlways, PTL
=============================================================================
