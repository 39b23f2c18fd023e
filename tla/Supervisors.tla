----------------------------- MODULE Supervisors -----------------------------
(***************************************************************************)
(* One job's run: the supervisor process (supervisor/supervisor.go), its   *)
(* run directory and its record in the state directory                     *)
(* (supervisor/host).  Every operator is a function of the run, because    *)
(* the directory, the record and the process change in steps of their own  *)
(* that a crash of the daemon may come between.                            *)
(*                                                                         *)
(* The output of a command is left out; how it ended is kept.              *)
(***************************************************************************)
EXTENDS Settle

\* The process: "executing" is RunRunning.  A process that is gone is "none", and
\* one that has yet to take the lock is "starting".
Procs == {"none", "starting", "parked", "executing", "finished", "released"}

Marks == {"no record", "not sent", "sent"}

Run == [proc : Procs,
        dir : BOOLEAN,             \* the run directory, with the lock and the socket
        mark : Marks,              \* the record, and its start mark
        rebooted : BOOLEAN,        \* the record was written before the last boot
        cancel : BOOLEAN,          \* a cancel reached the supervisor
        end : {"none", "done", "cancelled"}]

NoRun == [proc |-> "none", dir |-> FALSE, mark |-> "no record", rebooted |-> FALSE,
          cancel |-> FALSE, end |-> "none"]

Alive(r) == r.proc \notin {"none", "starting"}

-----------------------------------------------------------------------------
(* What a look at a run finds. *)

found(what) == [run |-> what, proof |-> "none", start |-> "may"]

\* Only a readable record whose mark says not sent proves the command never began.
startOf(r) == IF r.mark = "not sent" THEN "never" ELSE "may"

foundDead(r, proof) == [run |-> "dead", proof |-> proof, start |-> startOf(r)]

noDirectory(r) ==
    CASE r.mark = "no record" -> found("none")
      [] r.mark # "no record" /\ r.rebooted -> foundDead(r, "rebooted")
      [] OTHER -> found("unknown")

Probe(r) ==
    CASE ~r.dir -> noDirectory(r)
      [] r.dir /\ Alive(r) -> found(IF r.proc = "executing" THEN "running" ELSE r.proc)
      [] OTHER -> foundDead(r, "lock free")

-----------------------------------------------------------------------------
(* Spawn: the record, then the directory, then the process. *)

writeRecord(r) == [r EXCEPT !.mark = "not sent", !.rebooted = FALSE]
makeDirectory(r) == [r EXCEPT !.dir = TRUE, !.cancel = FALSE, !.end = "none"]
begin(r) == [r EXCEPT !.proc = "starting"]
comeUp(r) == [r EXCEPT !.proc = "parked"]

-----------------------------------------------------------------------------
(* Calls through a handle. *)

markStartSent(r) == [r EXCEPT !.mark = "sent"]

\* Supervisor.Start: a command cancelled while parked never begins.
Start(r) ==
    CASE r.proc = "parked" /\ r.cancel -> [r EXCEPT !.proc = "finished", !.end = "cancelled"]
      [] r.proc = "parked" /\ ~r.cancel -> [r EXCEPT !.proc = "executing"]
      [] OTHER -> r

Cancel(r) == IF r.proc \in {"parked", "executing"} THEN [r EXCEPT !.cancel = TRUE] ELSE r

\* Supervisor.Release refuses a command that executes.
CanRelease(r) == r.proc \in {"parked", "finished", "released"}
Release(r) == [r EXCEPT !.proc = "released"]

\* Forget: the directory, and then the record.  With a proof that is not a release,
\* the directory of a process that holds the lock stays.
CanForget(r, proof) == proof = "released" \/ ~r.dir \/ ~Alive(r)
removeDirectory(r) == [r EXCEPT !.dir = FALSE, !.proc = "none"]
removeRecord(r) == NoRun

-----------------------------------------------------------------------------
(* What happens to a supervisor by itself. *)

\* run: the command ends, and a cancel may have come too late.
Ends(r) ==
    IF r.proc = "executing"
    THEN {[r EXCEPT !.proc = "finished", !.end = "done"]}
         \cup (IF r.cancel THEN {[r EXCEPT !.proc = "finished", !.end = "cancelled"]} ELSE {})
    ELSE {}

\* The process ends without a word, and its command with it.
die(r) == [r EXCEPT !.proc = "none"]

\* A boot ends every process and empties the runtime directory.
reboot(r) == [r EXCEPT !.proc = "none", !.dir = FALSE, !.rebooted = (r.mark # "no record")]

outcomeOf(r, rerun) ==
    [kind |-> IF rerun THEN "flow" ELSE "command",
     how |-> IF r.end = "cancelled" THEN "cancelled" ELSE IF rerun THEN "passed" ELSE "exited 0",
     cancelAsked |-> r.cancel]
=============================================================================
