------------------------------- MODULE RunLog -------------------------------
(***************************************************************************)
(* The log of a run and those who write it: the file writer with its       *)
(* committer thread (vs_runlog/_file.py), the run's one appender           *)
(* (_confirmed_log.py), the core's step log with the cache of its fold     *)
(* (vs_runtime/_run_log_step_log.py, _fold_keeper.py), and the display's   *)
(* event journal, which mirrors its events into the same log               *)
(* (_event_journal.py, runlog_tee.py).  The loop's thread and a worker     *)
(* thread that shows events share two locks: the appender's and the        *)
(* journal's.  The process may die and the machine lose power.             *)
(*                                                                         *)
(* An action is what a thread does between two points where it waits, or   *)
(* one call that reaches the disk.  A fold of records is represented by    *)
(* the records themselves.                                                 *)
(***************************************************************************)
EXTENDS Naturals, Sequences

CONSTANTS
  Every,            \* cache_every of each process: its own records between two
                    \* writes of the cache
  CheckpointEvery,  \* CHECKPOINT_RECORDS
  MaxRecords,       \* bound: records in the log
  MaxLives          \* bound: processes that open the log

ASSUME LogAssumption ==
  /\ MaxRecords \in Nat /\ MaxLives \in Nat
  /\ Every \in [1 .. MaxLives -> Nat] /\ CheckpointEvery \in Nat \ {0}

VARIABLES
  log,          \* run.log: the complete records written
  torn,         \* run.log ends with an incomplete frame
  synced,       \* how many records of run.log survive a loss of power
  head,         \* run.head: its committed_seq
  frames,       \* keyframes: the records each one is the fold of
  cache,        \* state.pb, or NoCache
  life,         \* the process that has the log open, or the last one
  up,           \* whether a process has the log open
  code,         \* the rules of its fold (fold_rules)
  w,            \* FileRunLogWriter: its fields under the condition
  c,            \* the committer thread and the batch it commits
  woken,        \* threads whose condition wait was notified or not yet begun
  confirmed,    \* ConfirmedLog._confirmed: a prefix, or Unread
  lock,         \* who holds the appender's lock
  journal,      \* who holds the journal's lock
  sink,         \* the journal still mirrors its events
  loop,         \* the thread of the runner loop
  show,         \* a worker thread that emits events
  keeper,       \* FoldKeeper: what it folded, and appends since it wrote
  acked,        \* the last record a caller was told is durable
  unopened      \* a start was refused over records the log had lost

disk == <<log, torn, synced, head, frames, cache>>
process == <<life, up, code>>
locks == <<lock, journal>>
ghosts == <<acked, unopened>>
vars == <<disk, process, w, c, woken, confirmed, locks, sink, loop, show,
          keeper, ghosts>>

Kinds == {"core", "shown", "edge"}   \* edge: a boundary (_is_boundary)
Records == [by : Kinds, life : Nat]
Threads == {"loop", "show", "committer"}
NoCache == [digest |-> << >>, state |-> << >>, rules |-> 0]
Unread == [read |-> FALSE, prefix |-> << >>]
Read(prefix) == [read |-> TRUE, prefix |-> prefix]

Larger(a, b) == IF a > b THEN a ELSE b
Prefix(n) == SubSeq(log, 1, n)

LogTypeOK ==
  /\ log \in Seq(Records) /\ torn \in BOOLEAN
  /\ synced \in Nat /\ head \in Nat
  /\ \A f \in frames : f \in Seq(Records)
  /\ cache \in [digest : Seq(Records), state : Seq(Records), rules : Nat]
  /\ life \in Nat /\ up \in BOOLEAN /\ code \in {1, 2}
  /\ w \in [seq : Nat, due : {"no", "later", "now"}, urgent : Nat, wanted : Nat,
            closing : BOOLEAN, failed : BOOLEAN, done : BOOLEAN,
            committed : Nat, ckpt : Nat]
  /\ c \in [at : {"take", "sync", "frames", "head", "publish", "stop", "gone"},
            from : Nat, upto : Nat, ckpt : BOOLEAN]
  /\ woken \subseteq Threads
  /\ confirmed \in [read : BOOLEAN, prefix : Seq(Records)]
  /\ lock \in {"none", "loop", "show"} /\ journal \in {"none", "loop", "show"}
  /\ sink \in BOOLEAN
  /\ loop \in [at : {"start", "idle", "announce", "edge", "shuts", "closes", "append",
                     "commit", "wait", "keep", "leave", "exits"},
               does : {"opens", "goes", "parks", "ends"}, target : Nat]
  /\ show \in [at : {"idle", "emits", "edge", "shuts", "closes", "wait"}, target : Nat]
  /\ keeper \in [digest : Seq(Records), fold : Seq(Records), rules : Nat,
                 since : Nat]
  /\ acked \in Nat /\ unopened \in BOOLEAN
  /\ up => /\ w.seq = Len(log) \/ (w.failed /\ w.seq + 1 = Len(log))
           /\ w.committed <= c.upto /\ c.upto <= w.seq

-----------------------------------------------------------------------------
(* The writer, under its condition. *)

Takes == ~w.failed /\ ~w.closing     \* _check_open
Notified == woken' = Threads

(* _CommitIntent.requested *)
Requested(x, target, checkpoint, closing) ==
  [x EXCEPT !.urgent = Larger(x.urgent, target),
            !.wanted = IF checkpoint THEN Larger(x.wanted, target) ELSE x.wanted,
            !.closing = x.closing \/ closing]

(* One more record: the first pending one sets the commit's deadline. *)
Queued(x) == [x EXCEPT !.seq = x.seq + 1,
                       !.due = IF x.due = "no" THEN "later" ELSE x.due]

Write(by) == log' = Append(log, [by |-> by, life |-> life])

\* What a write that fails leaves in the file.
Leaves(by) ==
  \/ torn' = TRUE /\ UNCHANGED log
  \/ Write(by) /\ UNCHANGED torn

\* Mutant: a record whose write failed is counted.
failsCounted(by) ==
  /\ Leaves(by)
  /\ w' = [w EXCEPT !.failed = TRUE, !.seq = w.seq + 1]
  /\ Notified

\* Mutant: a writer whose write failed goes on.
failsAlone(by) == Leaves(by) /\ UNCHANGED <<w, woken>>

(* The frame is in the file in part, or whole, where the call failed after it. *)
WriteFails(by) ==
  /\ Leaves(by)
  /\ w' = [w EXCEPT !.failed = TRUE]
  /\ Notified

\* Mutant: a caller is told when its record is in a batch.
toldWhenTaken(target, checkpoint) == ~w.failed /\ c.upto >= target

(* _wait_committed: the wait is over, well or with the writer's failure. *)
Reached(target, checkpoint) ==
  ~w.failed /\ w.committed >= target /\ (checkpoint => w.ckpt >= target)
Raised == w.failed /\ w.done

-----------------------------------------------------------------------------
(* The committer thread. *)

Committer == up /\ UNCHANGED <<process, confirmed, locks, sink, loop, show,
                               keeper, ghosts>>

CheckpointDue == w.wanted > w.ckpt
BatchDue ==
  IF w.due = "no" THEN CheckpointDue
  ELSE w.due = "now" \/ CheckpointDue \/ w.urgent > w.committed

Taken(x) == [x EXCEPT !.due = "no"]

TakeBatch ==
  /\ Committer /\ c.at = "take" /\ "committer" \in woken
  /\ ~w.failed /\ BatchDue
  /\ c' = [at |-> IF c.upto = w.seq THEN "frames" ELSE "sync",
           from |-> c.upto, upto |-> w.seq, ckpt |-> CheckpointDue]
  /\ w' = Taken(w)
  /\ UNCHANGED <<disk, woken>>

TakeNothing ==
  /\ Committer /\ c.at = "take" /\ "committer" \in woken
  /\ IF w.failed \/ (w.closing /\ w.due = "no" /\ ~BatchDue)
     THEN c' = [c EXCEPT !.at = "stop"] /\ UNCHANGED woken
     ELSE ~BatchDue /\ woken' = woken \ {"committer"} /\ UNCHANGED c
  /\ UNCHANGED <<disk, w>>

(* The deadline of the first pending record ends the committer's wait. *)
DeadlinePasses ==
  /\ Committer /\ w.due = "later"
  /\ w' = [w EXCEPT !.due = "now"]
  /\ woken' = woken \cup {"committer"}
  /\ UNCHANGED <<disk, c>>

(* The first failure stops the thread, and is told with the end of it. *)
CommitterFails ==
  /\ w' = [w EXCEPT !.failed = TRUE]
  /\ c' = [c EXCEPT !.at = "stop"]
  /\ UNCHANGED woken

\* Mutant: the log is not synced before what is published of it.
publishesUnsynced ==
  /\ Committer /\ c.at = "sync"
  /\ c' = [c EXCEPT !.at = "frames"]
  /\ UNCHANGED <<w, woken, disk>>

SyncLog ==
  /\ Committer /\ c.at = "sync"
  /\ \/ /\ synced' = Len(log)
        /\ c' = [c EXCEPT !.at = "frames"]
        /\ UNCHANGED <<w, woken>>
     \/ CommitterFails /\ UNCHANGED synced
  /\ UNCHANGED <<log, torn, head, frames, cache>>

Batch == c.from + 1 .. c.upto
Edges == {n \in Batch : log[n].by = "edge"}
AfterEdges == IF Edges = {} THEN w.ckpt
              ELSE CHOOSE n \in Edges : \A m \in Edges : m <= n
LastDue ==
  \/ c.ckpt /\ c.upto > AfterEdges
  \/ c.upto >= AfterEdges + CheckpointEvery

\* Mutant: a checkpoint is taken of all that was appended.
checkpointsAll == Edges \cup (IF LastDue THEN {w.seq} ELSE {})

Checkpoints == Edges \cup (IF LastDue THEN {c.upto} ELSE {})

(* A keyframe's name is taken once: the same bytes again are no conflict. *)
Conflicts(n) == \E f \in frames : Len(f) = n /\ f # Prefix(n)

PublishFrames ==
  /\ Committer /\ c.at = "frames"
  /\ \/ /\ ~\E n \in Checkpoints : Conflicts(n)
        /\ frames' = frames \cup {Prefix(n) : n \in Checkpoints}
        /\ w' = [w EXCEPT !.ckpt = IF LastDue THEN c.upto ELSE AfterEdges]
        /\ c' = [c EXCEPT !.at = IF Batch = {} THEN "publish" ELSE "head"]
        /\ UNCHANGED woken
     \/ /\ Checkpoints # {}
        /\ \E done \in SUBSET {n \in Checkpoints : ~Conflicts(n)} :
             frames' = frames \cup {Prefix(n) : n \in done}
        /\ CommitterFails
  /\ UNCHANGED <<log, torn, synced, head, cache>>

(* project_head: a log that does not declare its run yet has no head. *)
Headlines(n) == IF head > 0 THEN {n} ELSE {0, n}

PublishHead ==
  /\ Committer /\ c.at = "head"
  /\ \/ /\ head' \in Headlines(c.upto)
        /\ c' = [c EXCEPT !.at = "publish"] /\ UNCHANGED <<w, woken>>
     \/ head' \in {head, c.upto} /\ CommitterFails
  /\ UNCHANGED <<log, torn, synced, frames, cache>>

\* Mutant: a commit clears the deadline of records that came during it.
clearsDeadline ==
  /\ Committer /\ c.at = "publish"
  /\ w' = [w EXCEPT !.committed = c.upto, !.due = "no"]
  /\ c' = [c EXCEPT !.at = "take"]
  /\ Notified
  /\ UNCHANGED disk

PublishCommit ==
  /\ Committer /\ c.at = "publish"
  /\ w' = [w EXCEPT !.committed = c.upto]
  /\ c' = [c EXCEPT !.at = "take"]
  /\ Notified
  /\ UNCHANGED disk

\* Mutant: the end of the thread is told to nobody.
stopsUntold ==
  /\ Committer /\ c.at = "stop"
  /\ w' = [w EXCEPT !.done = TRUE]
  /\ c' = [c EXCEPT !.at = "gone"]
  /\ UNCHANGED <<woken, disk>>

(* The thread lets go of the file, which may fail too, and is done. *)
CommitterStops ==
  /\ Committer /\ c.at = "stop"
  /\ \E failed \in {w.failed, TRUE} :
       w' = [w EXCEPT !.done = TRUE, !.failed = failed]
  /\ c' = [c EXCEPT !.at = "gone"]
  /\ Notified
  /\ UNCHANGED disk

CommitterSteps ==
  TakeBatch \/ TakeNothing \/ SyncLog \/ PublishFrames \/ PublishHead
  \/ PublishCommit \/ CommitterStops

-----------------------------------------------------------------------------
(* The appender: its prefix is read from the log when it is not known. *)

Known == confirmed.read \/ Takes
PrefixNow == IF confirmed.read THEN confirmed.prefix ELSE Prefix(w.committed)

(* The record numbered after the prefix is the next one of the file. *)
Follows == Known /\ Takes /\ Len(PrefixNow) = w.seq

Extended(by) == Append(PrefixNow, [by |-> by, life |-> life])

(* stage, by a thread that mirrors an event: the record is written, and a     *)
(* boundary asks to be durable and checkpointed.                              *)
StageOk(by) ==
  /\ Follows
  /\ Write(by)
  /\ w' = IF by = "edge" THEN Requested(Queued(w), w.seq + 1, TRUE, FALSE)
          ELSE Queued(w)
  /\ confirmed' = [read |-> by # "edge", prefix |-> Extended(by)]
  /\ Notified
  /\ UNCHANGED torn

(* An event's content cannot be stored, its record is refused, or the write of *)
(* it fails.                                                                  *)
StageFails(by) ==
  \/ confirmed' \in {confirmed, Unread} /\ UNCHANGED <<log, torn, w, woken>>
  \/ Follows /\ WriteFails(by) /\ confirmed' = Unread

(* The mirror that failed closes the writer. *)
Shut == w' = Requested(w, w.seq, TRUE, TRUE) /\ Notified

Acknowledge(target) == acked' = Larger(acked, target) /\ UNCHANGED unopened
Confirm == confirmed' = [confirmed EXCEPT !.read = TRUE]

-----------------------------------------------------------------------------
(* The worker thread: an event is recorded under the journal's lock, and      *)
(* mirrored under it, by one record or by several.                            *)

Shows(at) ==
  /\ up /\ show.at = at
  /\ UNCHANGED <<synced, head, frames, cache, process, c, loop, keeper>>
Shown(at) == show' = [at |-> at, target |-> 0]

ShowEmits ==
  /\ Shows("idle") /\ sink /\ journal = "none" /\ Len(log) < MaxRecords
  /\ journal' = "show" /\ Shown("emits")
  /\ UNCHANGED <<log, torn, w, woken, confirmed, lock, sink, ghosts>>

Mirrored ==
  \/ journal' = "none" /\ Shown("idle")
  \/ Len(log') < MaxRecords /\ UNCHANGED journal /\ Shown("emits")

ShowStages ==
  /\ Shows("emits") /\ lock = "none"
  /\ \/ StageOk("shown") /\ Mirrored /\ UNCHANGED lock
     \/ /\ StageOk("edge") /\ lock' = "show" /\ UNCHANGED journal
        /\ show' = [at |-> "edge", target |-> w.seq + 1]
     \/ /\ \E by \in {"shown", "edge"} : StageFails(by)
        /\ Shown("shuts") /\ UNCHANGED locks
  /\ UNCHANGED <<sink, ghosts>>

ShowEdges ==
  /\ Shows("edge") /\ "show" \in woken
  /\ UNCHANGED <<log, torn, w, woken, sink>>
  /\ \/ /\ Reached(show.target, TRUE)
        /\ Acknowledge(show.target) /\ Confirm
        /\ lock' = "none" /\ Mirrored
     \/ /\ Raised
        /\ confirmed' = Unread /\ lock' = "none" /\ Shown("shuts")
        /\ UNCHANGED <<journal, ghosts>>

ShowShuts ==
  /\ Shows("shuts") /\ Shut /\ Shown("closes")
  /\ UNCHANGED <<log, torn, confirmed, locks, sink, ghosts>>

ShowCloses ==
  /\ Shows("closes") /\ "show" \in woken /\ w.done
  /\ sink' = FALSE /\ journal' = "none" /\ Shown("idle")
  /\ UNCHANGED <<log, torn, w, woken, confirmed, lock, ghosts>>

(* The outcome of a control is committed before it is answered. *)
ShowCommits ==
  /\ Shows("idle") /\ lock = "none" /\ Takes
  /\ lock' = "show" /\ show' = [at |-> "wait", target |-> w.seq]
  /\ w' = Requested(w, w.seq, FALSE, FALSE) /\ Notified
  /\ UNCHANGED <<log, torn, confirmed, journal, sink, ghosts>>

ShowCommitted ==
  /\ Shows("wait") /\ "show" \in woken
  /\ \/ Reached(show.target, FALSE) /\ Acknowledge(show.target)
     \/ Raised /\ UNCHANGED ghosts
  /\ lock' = "none" /\ Shown("idle")
  /\ UNCHANGED <<log, torn, w, woken, confirmed, journal, sink>>

ShowSteps == ShowEmits \/ ShowStages \/ ShowEdges \/ ShowShuts
             \/ ShowCloses \/ ShowCommitted

-----------------------------------------------------------------------------
(* The loop's thread: the step log opens, records, keeps its cache and rests. *)

Loops(at) == up /\ loop.at = at
             /\ UNCHANGED <<synced, head, frames, process, c, show>>
LoopAt(at, does, target) == loop' = [at |-> at, does |-> does, target |-> target]
LoopLater(at) == LoopAt(at, loop.does, 0)
LoopFails == LoopLater("leave") /\ lock' = "none"

\* Mutant: a cache no longer than the log is taken for its own.
judgedByLength(prefix) ==
  /\ cache # NoCache
  /\ Len(cache.digest) <= Len(prefix)
  /\ cache.rules = code

(* judge and start_fold: the cache, if it is the fold of the log's own first  *)
(* records by the rules in force, with the records after it; or the whole log.*)
Judged(prefix) ==
  /\ cache # NoCache
  /\ Len(cache.digest) <= Len(prefix)
  /\ SubSeq(prefix, 1, Len(cache.digest)) = cache.digest
  /\ cache.rules = code
StartFold(prefix) ==
  [digest |-> prefix, since |-> 0,
   fold |-> IF Judged(prefix)
            THEN cache.state \o SubSeq(prefix, Len(cache.digest) + 1, Len(prefix))
            ELSE prefix,
   rules |-> IF Judged(prefix) THEN cache.rules ELSE code]

LoopStarts ==
  /\ Loops("start") /\ lock = "none"
  /\ IF Known
     THEN /\ confirmed' = Read(PrefixNow)
          /\ keeper' = StartFold(PrefixNow)
          /\ IF \E i \in DOMAIN PrefixNow : PrefixNow[i].by = "core"
             THEN LoopLater("idle") /\ UNCHANGED lock
             ELSE LoopAt("append", "opens", 0) /\ lock' = "loop"
     ELSE LoopFails /\ UNCHANGED <<confirmed, keeper>>
  /\ UNCHANGED <<log, torn, cache, w, woken, journal, sink, ghosts>>

(* A record of core's: it goes on, parks the run, or ends it. *)
LoopBegins ==
  /\ Loops("idle") /\ lock = "none" /\ Len(log) < MaxRecords
  /\ IF Known
     THEN /\ lock' = "loop" /\ confirmed' = Read(PrefixNow)
          /\ \E does \in {"goes", "parks", "ends"} :
               LoopAt(IF does = "parks" THEN "announce" ELSE "append",
                      does, 0)
     ELSE LoopFails /\ UNCHANGED confirmed
  /\ UNCHANGED <<log, torn, cache, w, woken, journal, sink, keeper, ghosts>>

(* The park is shown before it is recorded: an event emitted under the lock.  *)
(* The journal's own file may fail before the mirror is asked.                *)
LoopShows ==
  /\ Loops("announce") /\ journal = "none"
  /\ \/ LoopFails /\ UNCHANGED <<log, torn, w, woken, confirmed, journal>>
     \/ ~sink /\ LoopLater("append")
        /\ UNCHANGED <<log, torn, w, woken, confirmed, locks>>
     \/ /\ sink /\ StageOk("edge") /\ journal' = "loop" /\ UNCHANGED lock
        /\ LoopAt("edge", loop.does, w.seq + 1)
     \/ /\ sink /\ StageFails("edge") /\ journal' = "loop" /\ UNCHANGED lock
        /\ LoopLater("shuts")
  /\ UNCHANGED <<cache, sink, keeper, ghosts>>

LoopEdges ==
  /\ Loops("edge") /\ "loop" \in woken
  /\ \/ /\ Reached(loop.target, TRUE)
        /\ Acknowledge(loop.target) /\ Confirm
        /\ journal' = "none" /\ LoopLater("append")
     \/ /\ Raised
        /\ confirmed' = Unread /\ LoopLater("shuts")
        /\ UNCHANGED <<journal, ghosts>>
  /\ UNCHANGED <<log, torn, cache, w, woken, lock, sink, keeper>>

LoopShuts ==
  /\ Loops("shuts") /\ Shut /\ LoopLater("closes")
  /\ UNCHANGED <<log, torn, cache, confirmed, locks, sink, keeper, ghosts>>

LoopCloses ==
  /\ Loops("closes") /\ "loop" \in woken /\ w.done
  /\ sink' = FALSE /\ journal' = "none" /\ LoopLater("append")
  /\ UNCHANGED <<log, torn, cache, w, woken, confirmed, lock, keeper, ghosts>>

(* extend: the record is written, then committed. *)
LoopAppends ==
  /\ Loops("append")
  /\ \/ /\ Follows
        /\ Write("core") /\ w' = Queued(w) /\ Notified
        /\ confirmed' = [read |-> FALSE, prefix |-> Extended("core")]
        /\ LoopLater("commit")
        /\ UNCHANGED <<torn, lock>>
     \/ Follows /\ WriteFails("core") /\ confirmed' = Unread /\ LoopFails
     \/ ~Follows /\ confirmed' = Unread /\ LoopFails
        /\ UNCHANGED <<log, torn, w, woken>>
  /\ UNCHANGED <<cache, journal, sink, keeper, ghosts>>

LoopCommits ==
  /\ Loops("commit")
  /\ IF Takes
     THEN /\ w' = Requested(w, w.seq, FALSE, FALSE) /\ Notified
          /\ LoopAt("wait", loop.does, w.seq)
          /\ UNCHANGED <<confirmed, lock>>
     ELSE confirmed' = Unread /\ LoopFails /\ UNCHANGED <<w, woken>>
  /\ UNCHANGED <<log, torn, cache, journal, sink, keeper, ghosts>>

(* The seed is confirmed by itself.  After any other record the search is      *)
(* heard, and its answer recorded, before the log is let go.                   *)
LoopConfirms ==
  /\ Loops("wait") /\ "loop" \in woken
  /\ \/ /\ Reached(loop.target, FALSE)
        /\ Acknowledge(loop.target) /\ Confirm
        /\ keeper' = [keeper EXCEPT !.since = keeper.since + 1]
        /\ \/ loop.does = "opens" /\ LoopLater("idle") /\ lock' = "none"
           \/ /\ loop.does # "opens" /\ UNCHANGED lock
              /\ \/ LoopLater("keep")
                 \/ Len(log) <= MaxRecords /\ LoopLater("append")
     \/ /\ Raised
        /\ confirmed' = Unread /\ LoopFails
        /\ UNCHANGED <<keeper, ghosts>>
  /\ UNCHANGED <<log, torn, cache, w, woken, journal, sink>>

CacheDue ==
  keeper.since > 0 /\ (loop.does \in {"parks", "ends"} \/ keeper.since >= Every[life])
AfterKeep == IF loop.does = "goes" THEN "idle" ELSE "leave"

(* The records since are folded into what the keeper holds. *)
Kept(recs) ==
  [digest |-> recs, rules |-> keeper.rules, since |-> 0,
   fold |-> keeper.fold \o SubSeq(recs, Len(keeper.digest) + 1, Len(recs))]

LoopKeeps ==
  /\ Loops("keep")
  /\ IF CacheDue
     THEN /\ keeper' = Kept(confirmed.prefix)
          /\ cache' \in {cache, [digest |-> keeper'.digest, state |-> keeper'.fold,
                                 rules |-> keeper'.rules]}
     ELSE UNCHANGED <<cache, keeper>>
  /\ lock' = "none" /\ LoopLater(AfterKeep)
  /\ UNCHANGED <<log, torn, w, woken, confirmed, journal, sink, ghosts>>

LoopLeaves ==
  /\ Loops("leave")
  /\ Shut /\ LoopLater("exits")
  /\ UNCHANGED <<log, torn, cache, confirmed, locks, sink, keeper, ghosts>>

LoopSteps ==
  LoopStarts \/ LoopShows \/ LoopEdges \/ LoopShuts \/ LoopCloses \/ LoopAppends
  \/ LoopCommits \/ LoopConfirms \/ LoopKeeps \/ LoopLeaves

(* hear: the search has nothing to say, and the cache of records that the      *)
(* start of the process confirmed is due.                                      *)
LoopHears ==
  /\ Loops("idle") /\ lock = "none" /\ CacheDue
  /\ IF Known
     THEN lock' = "loop" /\ confirmed' = Read(PrefixNow) /\ LoopAt("keep", "goes", 0)
     ELSE LoopFails /\ UNCHANGED confirmed
  /\ UNCHANGED <<log, torn, cache, w, woken, journal, sink, keeper, ghosts>>

(* The loop is interrupted between two records. *)
LoopQuits ==
  /\ Loops("idle") /\ LoopLater("leave")
  /\ UNCHANGED <<log, torn, cache, w, woken, confirmed, locks, sink, keeper,
                 ghosts>>

(* A thread that was notified and has nothing to go on with waits again. *)
SleepsAgain ==
  /\ up
  /\ \/ /\ "loop" \in woken /\ woken' = woken \ {"loop"}
        /\ \/ loop.at = "edge" /\ ~Reached(loop.target, TRUE) /\ ~Raised
           \/ loop.at = "wait" /\ ~Reached(loop.target, FALSE) /\ ~Raised
           \/ loop.at \in {"closes", "exits"} /\ ~w.done
     \/ /\ "show" \in woken /\ woken' = woken \ {"show"}
        /\ \/ show.at = "edge" /\ ~Reached(show.target, TRUE) /\ ~Raised
           \/ show.at = "wait" /\ ~Reached(show.target, FALSE) /\ ~Raised
           \/ show.at = "closes" /\ ~w.done
  /\ UNCHANGED <<disk, process, w, c, confirmed, locks, sink, loop, show,
                 keeper, ghosts>>

-----------------------------------------------------------------------------
(* The process and the machine. *)

NoWriter == [seq |-> 0, due |-> "no", urgent |-> 0, wanted |-> 0,
             closing |-> FALSE, failed |-> FALSE, done |-> FALSE,
             committed |-> 0, ckpt |-> 0]
NoBatch == [at |-> "gone", from |-> 0, upto |-> 0, ckpt |-> FALSE]
NoKeeper == [digest |-> << >>, fold |-> << >>, rules |-> 0, since |-> 0]

Gone ==
  /\ up' = FALSE /\ w' = NoWriter /\ c' = NoBatch /\ woken' = {}
  /\ confirmed' = Unread /\ lock' = "none" /\ journal' = "none"
  /\ loop' = [at |-> "start", does |-> "goes", target |-> 0]
  /\ show' = [at |-> "idle", target |-> 0]
  /\ keeper' = NoKeeper
  /\ sink' = TRUE
  /\ UNCHANGED <<head, frames, cache, life, code, ghosts>>

LoopExits ==
  /\ up /\ loop.at = "exits" /\ w.done /\ Gone
  /\ UNCHANGED <<log, torn, synced>>
Crash == up /\ Gone /\ UNCHANGED <<log, torn, synced>>

(* What was written and not synced is gone, from some record on. *)
PowerLoss ==
  /\ Gone
  /\ \E n \in synced .. Len(log) :
       /\ log' = Prefix(n)
       /\ torn' \in IF n < Len(log) THEN BOOLEAN ELSE {torn}
  /\ UNCHANGED synced

\* Mutant: what the head does not name is dropped.
completeToHead == Prefix(head)

(* _recover keeps every complete record. *)
Complete == log

(* The code may have changed since, which matters only to a cache. *)
Codes == IF cache = NoCache THEN {code} ELSE {1, 2}

(* A process opens the log: an incomplete frame is dropped, what is left is   *)
(* synced, and its head and keyframe are published again.                     *)
Opened ==
  /\ up' = TRUE /\ life' = life + 1 /\ code' \in Codes
  /\ w' = [NoWriter EXCEPT !.seq = Len(log'), !.committed = Len(log'),
                           !.ckpt = Len(log')]
  /\ c' = [at |-> "take", from |-> Len(log'), upto |-> Len(log'), ckpt |-> FALSE]
  /\ woken' = Threads

Opens ==
  /\ ~up /\ life < MaxLives
  /\ IF Len(log) < head
     THEN unopened' = TRUE /\ UNCHANGED <<disk, process, w, c, woken>>
     ELSE /\ log' = Complete
          /\ torn' = FALSE
          /\ synced' = Len(log')
          /\ head' \in Headlines(Len(log'))
          /\ IF Conflicts(Len(log'))
             THEN unopened' = TRUE /\ UNCHANGED <<frames, process, w, c, woken>>
             ELSE /\ frames' = IF log' = << >> THEN frames ELSE frames \cup {log'}
                  /\ Opened /\ UNCHANGED unopened
          /\ UNCHANGED cache
  /\ UNCHANGED <<confirmed, locks, sink, loop, show, keeper, acked>>

(* Opening fails at its sync, or at one of the two publications, each of which *)
(* may have taken place though its call failed.                                *)
OpenFails ==
  /\ ~up /\ life < MaxLives /\ Len(log) >= head
  /\ torn' = FALSE
  /\ \/ UNCHANGED <<synced, head, frames>>
     \/ /\ synced' = Len(log) /\ head' \in {head, Len(log)}
        /\ \/ UNCHANGED frames
           \/ /\ log # << >> /\ ~Conflicts(Len(log))
              /\ frames' = frames \cup {log}
  /\ UNCHANGED <<log, cache, process, w, c, woken, confirmed, locks, sink,
                 loop, show, keeper, ghosts>>

-----------------------------------------------------------------------------
Init ==
  /\ log = << >> /\ torn = FALSE /\ synced = 0 /\ head = 0
  /\ frames = {} /\ cache = NoCache
  /\ life = 0 /\ up = FALSE /\ code = 1
  /\ w = NoWriter /\ c = NoBatch /\ woken = {}
  /\ confirmed = Unread /\ lock = "none" /\ journal = "none" /\ sink = TRUE
  /\ loop = [at |-> "start", does |-> "goes", target |-> 0]
  /\ show = [at |-> "idle", target |-> 0]
  /\ keeper = NoKeeper
  /\ acked = 0 /\ unopened = FALSE

Next ==
  \/ CommitterSteps \/ DeadlinePasses
  \/ ShowSteps \/ ShowCommits
  \/ LoopSteps \/ LoopBegins \/ LoopHears \/ LoopQuits \/ LoopExits
  \/ SleepsAgain
  \/ Crash \/ PowerLoss \/ Opens \/ OpenFails

Spec == Init /\ [][Next]_vars

-----------------------------------------------------------------------------
(* Properties. *)

(* A log that was written can be opened: no crash or loss of power leaves a     *)
(* head ahead of the records, or a keyframe that a later one of its number      *)
(* contradicts (_recover and publish raise).                                    *)
Reopens == ~unopened

(* Who was told that a record is durable was told the truth, also of the        *)
(* records staged before it, and so does the published head (extend, commit).   *)
ToldTruth == acked <= synced /\ head <= synced /\ synced <= Len(log)

(* A durable record stays, and stays as it is, whatever is lost and reopened.   *)
DurableStays ==
  [][/\ synced <= synced'
     /\ \A i \in 1 .. synced : log'[i] = log[i]]_vars

(* Every keyframe is the fold of the log's own first records, all of them       *)
(* durable (_commit_batch syncs before it publishes).                           *)
FramesTrue ==
  \A f \in frames : Len(f) <= synced /\ \A i \in 1 .. Len(f) : f[i] = log[i]

(* No record is numbered after anything but the whole file, nor written after an*)
(* incomplete frame, also where a write failed over a record that got there:    *)
(* core and the display never number two alike.  And the prefix the appender    *)
(* holds is the whole file, so that the next record is not refused, unless the  *)
(* writer failed or closes, or the display's mirror has failed and is about to  *)
(* close it: then core may have read only what was committed.                   *)
PrefixCurrent ==
  up => /\ Follows => PrefixNow = log /\ ~torn
        /\ confirmed.read =>
             confirmed.prefix = log \/ w.failed \/ w.closing \/ show.at = "shuts"

(* What a process folds from, with a cache or without, is the fold of a first   *)
(* part of its log by its own rules, and so is what it goes on to cache         *)
(* (start_fold, keep).                                                          *)
FoldIsLog ==
  up /\ keeper # NoKeeper =>
    keeper.rules = code /\ keeper.fold = Prefix(Len(keeper.fold))

-----------------------------------------------------------------------------
(* Liveness.  Threads are scheduled, calls to the disk return or fail, and the  *)
(* clock runs.                                                                  *)

FairSpec ==
  /\ Spec
  /\ WF_vars(CommitterSteps) /\ WF_vars(DeadlinePasses)
  /\ WF_vars(LoopSteps) /\ WF_vars(LoopExits) /\ WF_vars(ShowSteps)

(* The loop waits for the journal under the appender's lock, and the worker for *)
(* the appender's under the journal's.                                          *)
Crossed == loop.at = "announce" /\ journal = "show"
           /\ show.at = "emits" /\ lock = "loop"

(* No caller waits for ever on the committer, however it fails or stops: every  *)
(* wait ends, unless the two threads wait for each other's lock.                *)
CallsReturn ==
  /\ loop.at \in {"edge", "closes", "wait", "exits"} ~>
       loop.at \notin {"edge", "closes", "wait", "exits"} \/ Crossed
  /\ show.at # "idle" ~> show.at = "idle" \/ Crossed

(* A record nobody asks to commit is durable in the end, or the writer failed:  *)
(* the deadline of a record that came while a batch was committed is not lost.  *)
StagedCommits ==
  up /\ w.seq > w.committed ~> w.seq = w.committed \/ w.failed \/ ~up

-----------------------------------------------------------------------------
(* What the code says of itself and does not do. *)

(* "The display projection and core's loop run on different threads and append  *)
(* to one run.log", and both come to an end: the step log shows a park under    *)
(* the lock the projection needs, and the projection appends under the          *)
(* journal's.                                                                   *)
LocksNeverCross == ~Crossed
=============================================================================
