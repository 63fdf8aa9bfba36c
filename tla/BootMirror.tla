----------------------------- MODULE BootMirror -----------------------------
(***************************************************************************)
(* Replacing a disk of a node's root pool (server/boot_mirror.py, with the *)
(* table boot_mirror_jobs and the lock of zfs_admin.pool_serialized).      *)
(*                                                                         *)
(* A job clones the partition table onto a new disk, installs the boot     *)
(* loader, attaches the disk to the pool and watches the resilver; the     *)
(* operator then has the old member detached.  Jobs of one node and one    *)
(* pool; the commands of a stage are one command here, and the misses of a *)
(* watcher are one miss.                                                   *)
(***************************************************************************)
EXTENDS Integers

CONSTANTS
  Jobs,         \* rows that may be inserted
  Calls,        \* detach requests that may be under way at a time
  NoJob,
  MaxRestarts,  \* bound: restarts of the daemon
  MaxScrubs     \* bound: scrubs that others start

ASSUME MirrorAssumption ==
  NoJob \notin Jobs /\ MaxRestarts \in Nat /\ MaxScrubs \in Nat

VARIABLES
  stage, status,  \* the columns of boot_mirror_jobs
  scenario,       \* of each job
  starting,       \* the job a start request, holding the node's lock, is for
  task,           \* the job's coroutine: _run_job, then _watch
  step,           \* where _run_job is in its plan
  started,        \* whether _watch has seen a scan run
  call,           \* the detach requests
  unread,         \* rows that resume_on_startup has read and not dealt with
  copy,           \* what the job's new disk holds
  old,            \* whether the job's old member is in the pool
  scan,           \* what zpool status reports
  resilver,       \* whether the pool has resilvering to do
  restarts, scrubs

rows == <<stage, status, scenario>>
pool == <<copy, old, scan, resilver, scrubs>>
vars == <<rows, starting, task, step, started, call, unread, pool, restarts>>

Plan == <<"cloning", "bootloader", "attaching", "resilvering">>

Stages == {"none", "preflight", "cloning", "bootloader", "attaching", "resilvering",
           "awaiting_detach", "detaching", "cleaning", "done", "failed", "aborted"}

Idle == [job |-> NoJob, at |-> "idle"]

Init ==
  /\ stage = [j \in Jobs |-> "none"] /\ status = [j \in Jobs |-> "none"]
  /\ scenario = [j \in Jobs |-> "none"]
  /\ starting = NoJob
  /\ task = [j \in Jobs |-> "none"] /\ step = [j \in Jobs |-> 1]
  /\ started = [j \in Jobs |-> FALSE]
  /\ call = [c \in Calls |-> Idle]
  /\ unread = [j \in Jobs |-> "none"]
  /\ copy = [j \in Jobs |-> "none"] /\ old = [j \in Jobs |-> TRUE]
  /\ scan \in {"none", "FINISHED"} /\ resilver = FALSE
  /\ restarts = 0 /\ scrubs = 0

\* _set_stage, with and without a status.
SetStage(j, to) == stage' = [stage EXCEPT ![j] = to] /\ UNCHANGED status
Settle(j, to, as) ==
  stage' = [stage EXCEPT ![j] = to] /\ status' = [status EXCEPT ![j] = as]

Active == {j \in Jobs : status[j] = "running"}

-----------------------------------------------------------------------------
(* The start request.                                                      *)

\* No job of the node in flight, and a preflight that passes.
StartCheck(j) ==
  /\ starting = NoJob /\ status[j] = "none"
  /\ Active = {} /\ scan # "SCANNING"
  /\ starting' = j
  /\ UNCHANGED <<rows, task, step, started, call, unread, pool, restarts>>

StartCreate(j) ==
  /\ starting = j /\ status[j] = "none"
  /\ Settle(j, "preflight", "running")
  /\ \E s \in {"add_mirror", "replace_live", "replace_dead"} :
       scenario' = [scenario EXCEPT ![j] = s]
  /\ UNCHANGED <<starting, task, step, started, call, unread, pool, restarts>>

StartSpawn(j) ==
  /\ starting = j /\ status[j] # "none"
  /\ starting' = NoJob
  /\ task' = [task EXCEPT ![j] = "mark"]
  /\ UNCHANGED <<rows, step, started, call, unread, pool, restarts>>

-----------------------------------------------------------------------------
(* _run_job: each command of the plan, and then the watcher.               *)

\* Variant: the plan is walked past its end.
Mark_Mutant(j) ==
  /\ task[j] = "mark"
  /\ SetStage(j, Plan[step[j]])
  /\ task' = [task EXCEPT ![j] = "command"]
  /\ UNCHANGED <<scenario, starting, step, started, call, unread, pool, restarts>>

Mark(j) ==
  /\ task[j] = "mark"
  /\ SetStage(j, Plan[step[j]])
  /\ task' = [task EXCEPT ![j] = IF step[j] = 4 THEN "watch" ELSE "command"]
  /\ started' = [started EXCEPT ![j] = FALSE]
  /\ UNCHANGED <<scenario, starting, step, call, unread, pool, restarts>>

\* zpool attach, or zpool replace: the resilver is reported a little later, or
\* takes the place of a scrub.
Attach(j) ==
  /\ copy' = [copy EXCEPT ![j] = "partial"] /\ resilver' = TRUE
  /\ UNCHANGED <<old, scan, scrubs>>

Command(j) ==
  /\ task[j] = "command"
  /\ IF step[j] = 3 THEN Attach(j) ELSE UNCHANGED pool
  /\ step' = [step EXCEPT ![j] = @ + 1]
  /\ task' = [task EXCEPT ![j] = "mark"]
  /\ UNCHANGED <<rows, starting, started, call, unread, restarts>>

\* A command fails, or its connection does, when it may have been carried out.
CommandFails(j) ==
  /\ task[j] = "command"
  /\ UNCHANGED pool \/ (step[j] = 3 /\ Attach(j))
  /\ Settle(j, "failed", "failed")
  /\ task' = [task EXCEPT ![j] = "none"]
  /\ UNCHANGED <<scenario, starting, step, started, call, unread, restarts>>

-----------------------------------------------------------------------------
(* _watch: it polls the pool until the resilver is over.                   *)

WatchScanning(j) ==
  /\ task[j] = "watch" /\ scan = "SCANNING"
  /\ started' = [started EXCEPT ![j] = TRUE]
  /\ SetStage(j, "resilvering")
  /\ UNCHANGED <<scenario, starting, task, step, call, unread, pool, restarts>>

\* Variant: the scan that is reported finished is taken for this one.
WatchFinished_Mutant(j) ==
  /\ task[j] = "watch" /\ scan # "SCANNING"
  /\ SetStage(j, "awaiting_detach")
  /\ task' = [task EXCEPT ![j] = "none"]
  /\ UNCHANGED <<scenario, starting, step, started, call, unread, pool, restarts>>

\* Finished, or gone from the report, after it was seen to run.
WatchFinished(j) ==
  /\ task[j] = "watch" /\ scan # "SCANNING" /\ started[j]
  /\ SetStage(j, "awaiting_detach")
  /\ task' = [task EXCEPT ![j] = "none"]
  /\ UNCHANGED <<scenario, starting, step, started, call, unread, pool, restarts>>

\* The pool cannot be read or is gone, or 14 days have passed.
WatchFails(j) ==
  /\ task[j] = "watch"
  /\ Settle(j, "failed", "failed")
  /\ task' = [task EXCEPT ![j] = "none"]
  /\ UNCHANGED <<scenario, starting, step, started, call, unread, pool, restarts>>

-----------------------------------------------------------------------------
(* The detach request, which holds no lock.                                *)

At(c, j, at) == call[c] = [job |-> j, at |-> at]
Goes(c, j, to) == call' = [call EXCEPT ![c] = [job |-> j, at |-> to]]
Ends(c) == call' = [call EXCEPT ![c] = Idle]

\* Variant: the stage of the row is not looked at.
DetachCheck_Mutant(c, j) ==
  /\ call[c] = Idle /\ status[j] = "running" /\ scenario[j] # "add_mirror"
  /\ scan # "SCANNING"
  /\ Goes(c, j, "checked")
  /\ UNCHANGED <<rows, starting, task, step, started, unread, pool, restarts>>

\* The stage, the scenario and the live pool allow it; members that are not
\* ONLINE are passed with force.
DetachCheck(c, j) ==
  /\ call[c] = Idle
  /\ stage[j] = "awaiting_detach" /\ scenario[j] # "add_mirror"
  /\ scan # "SCANNING"
  /\ Goes(c, j, "checked")
  /\ UNCHANGED <<rows, starting, task, step, started, unread, pool, restarts>>

DetachMark(c, j) ==
  /\ At(c, j, "checked")
  /\ SetStage(j, "detaching")
  /\ Goes(c, j, "detaching")
  /\ UNCHANGED <<scenario, starting, task, step, started, unread, pool, restarts>>

\* zpool detach, of a member the pool has.
Detach(c, j) ==
  /\ At(c, j, "detaching") /\ old[j]
  /\ old' = [old EXCEPT ![j] = FALSE]
  /\ Goes(c, j, "cleaning")
  /\ UNCHANGED <<rows, starting, task, step, started, unread, copy, scan, resilver, scrubs,
                 restarts>>

DetachFails(c, j) ==
  /\ At(c, j, "detaching")
  /\ Settle(j, "awaiting_detach", "running")
  /\ Ends(c)
  /\ UNCHANGED <<scenario, starting, task, step, started, unread, pool, restarts>>

\* The connection fails, and the request ends there.
DetachBreaks(c, j) ==
  /\ At(c, j, "detaching") \/ At(c, j, "cleaning") \/ At(c, j, "cleaned")
  /\ Ends(c)
  /\ UNCHANGED <<rows, starting, task, step, started, unread, pool, restarts>>

\* proxmox-boot-tool clean and refresh, whatever they say.
Clean(c, j) ==
  /\ At(c, j, "cleaning")
  /\ SetStage(j, "cleaning")
  /\ Goes(c, j, "cleaned")
  /\ UNCHANGED <<scenario, starting, task, step, started, unread, pool, restarts>>

DetachDone(c, j) ==
  /\ At(c, j, "cleaned")
  /\ Settle(j, "done", "done")
  /\ Ends(c)
  /\ UNCHANGED <<scenario, starting, task, step, started, unread, pool, restarts>>

-----------------------------------------------------------------------------
(* Abort, and restarts.                                                    *)

\* The watcher is cancelled; a plan that is being run, or a detach, goes on.
Abort(j) ==
  /\ status[j] # "none"
  /\ Settle(j, "aborted", "aborted")
  /\ task' = [task EXCEPT ![j] = IF @ = "watch" THEN "none" ELSE @]
  /\ UNCHANGED <<scenario, starting, step, started, call, unread, pool, restarts>>

\* Variant: only rows of a resilver are looked at after the restart.
Restart_Mutant ==
  /\ restarts < MaxRestarts /\ restarts' = restarts + 1
  /\ starting' = NoJob
  /\ task' = [j \in Jobs |-> "none"] /\ step' = [j \in Jobs |-> 1]
  /\ started' = [j \in Jobs |-> FALSE]
  /\ call' = [c \in Calls |-> Idle]
  /\ unread' = [j \in Jobs |-> IF stage[j] = "resilvering" THEN stage[j] ELSE "none"]
  /\ UNCHANGED <<rows, pool>>

\* Tasks, requests and the lock are gone, and resume_on_startup has read the
\* rows that say "running".
Restart ==
  /\ restarts < MaxRestarts /\ restarts' = restarts + 1
  /\ starting' = NoJob
  /\ task' = [j \in Jobs |-> "none"] /\ step' = [j \in Jobs |-> 1]
  /\ started' = [j \in Jobs |-> FALSE]
  /\ call' = [c \in Calls |-> Idle]
  /\ unread' = [j \in Jobs |-> IF status[j] = "running" THEN stage[j] ELSE "none"]
  /\ UNCHANGED <<rows, pool>>

ResumeWatch(j) ==
  /\ unread[j] = "resilvering"
  /\ task' = [task EXCEPT ![j] = "watch"]
  /\ unread' = [unread EXCEPT ![j] = "none"]
  /\ UNCHANGED <<rows, starting, step, started, call, pool, restarts>>

\* The UI will offer the detach.
ResumeLeaves(j) ==
  /\ unread[j] = "awaiting_detach"
  /\ unread' = [unread EXCEPT ![j] = "none"]
  /\ UNCHANGED <<rows, starting, task, step, started, call, pool, restarts>>

\* Any other stage, or a resilver whose cluster is not configured any more.
ResumeFails(j) ==
  /\ unread[j] \notin {"none", "awaiting_detach"}
  /\ Settle(j, "failed", "failed")
  /\ unread' = [unread EXCEPT ![j] = "none"]
  /\ UNCHANGED <<scenario, starting, task, step, started, call, pool, restarts>>

-----------------------------------------------------------------------------
(* The pool.                                                               *)

ScrubStarts ==
  /\ scrubs < MaxScrubs /\ scrubs' = scrubs + 1
  /\ scan # "SCANNING" /\ ~resilver
  /\ scan' = "SCANNING"
  /\ UNCHANGED <<rows, starting, task, step, started, call, unread, copy, old, resilver, restarts>>

ResilverStarts ==
  /\ resilver /\ scan # "SCANNING"
  /\ scan' = "SCANNING"
  /\ UNCHANGED <<rows, starting, task, step, started, call, unread, copy, old, resilver, scrubs,
                 restarts>>

\* A replaced member leaves the pool when its successor is complete.
ScanEnds ==
  /\ scan = "SCANNING"
  /\ scan' = "FINISHED" /\ resilver' = FALSE
  /\ copy' = [j \in Jobs |-> IF copy[j] = "partial" THEN "complete" ELSE copy[j]]
  /\ old' = [j \in Jobs |-> old[j] /\ ~(scenario[j] = "replace_dead" /\ copy[j] # "none")]
  /\ UNCHANGED <<rows, starting, task, step, started, call, unread, scrubs, restarts>>

RunStep(j) == Mark(j) \/ Command(j) \/ CommandFails(j)
WatchStep(j) == WatchScanning(j) \/ WatchFinished(j) \/ WatchFails(j)
DetachStep(c, j) ==
  \/ DetachCheck(c, j) \/ DetachMark(c, j) \/ Detach(c, j) \/ DetachFails(c, j)
  \/ DetachBreaks(c, j) \/ Clean(c, j) \/ DetachDone(c, j)
ResumeStep(j) == ResumeWatch(j) \/ ResumeLeaves(j) \/ ResumeFails(j)

Next ==
  \/ \E j \in Jobs :
       \/ StartCheck(j) \/ StartCreate(j) \/ StartSpawn(j) \/ Abort(j)
       \/ RunStep(j) \/ WatchStep(j) \/ ResumeStep(j)
       \/ \E c \in Calls : DetachStep(c, j)
  \/ Restart
  \/ ScrubStarts \/ ResilverStarts \/ ScanEnds

Spec == Init /\ [][Next]_vars

-----------------------------------------------------------------------------

TypeOK ==
  /\ stage \in [Jobs -> Stages] /\ unread \in [Jobs -> Stages]
  /\ status \in [Jobs -> {"none", "running", "done", "failed", "aborted"}]
  /\ scenario \in [Jobs -> {"none", "add_mirror", "replace_live", "replace_dead"}]
  /\ starting \in Jobs \cup {NoJob}
  /\ task \in [Jobs -> {"none", "mark", "command", "watch"}]
  /\ step \in [Jobs -> 1..4] /\ started \in [Jobs -> BOOLEAN]
  /\ call \in [Calls -> [job : Jobs \cup {NoJob},
                         at : {"idle", "checked", "detaching", "cleaning", "cleaned"}]]
  /\ copy \in [Jobs -> {"none", "partial", "complete"}] /\ old \in [Jobs -> BOOLEAN]
  /\ scan \in {"none", "SCANNING", "FINISHED"} /\ resilver \in BOOLEAN

\* "Detaching the old member before the resilver finishes leaves one copy of
\* nothing": the old member is only detached when the new disk is complete.
DetachOnlyComplete ==
  [][\A j \in Jobs : old[j] /\ ~old'[j] => copy'[j] = "complete"]_vars

\* A job that offers the detach, or is done, has a new disk that is complete,
\* through scrubs, restarts, aborts and requests that overlap.
OfferMeansComplete ==
  \A j \in Jobs : stage[j] \in {"awaiting_detach", "detaching", "cleaning", "done"} =>
                    copy[j] = "complete"

\* "Never lose the job silently": a row that says "running" has a task, a request
\* or the resume that will take it on, or waits for the operator.  The stages of a
\* detach are excepted: a detach whose connection breaks leaves its row there.
NothingForgotten ==
  \A j \in Active :
    \/ task[j] # "none" \/ starting = j \/ unread[j] # "none"
    \/ stage[j] \in {"awaiting_detach", "detaching", "cleaning"}

\* What the code does not give.  "A boot-mirror operation is already running on this
\* node" refuses a second start, and yet two rows of the node may say "running": a
\* detach that fails after an abort revives its row (boot_mirror_detach_handler).
OneRunning == \A i, j \in Active : i = j

\* "Coming back must show exactly where it got to": a watcher whose resilver is
\* complete has seen it run, or still can.  A resilver that ends while the daemon is
\* down, or before the first poll, is never seen (_watch).
ResilverSeen ==
  \A j \in Jobs : task[j] = "watch" /\ copy[j] = "complete" => started[j] \/ scan = "SCANNING"

\* A member that a job replaces can be detached once that is offered.  One that was
\* dead has left the pool when the resilver ended (boot_mirror_detach_handler).
OfferCanBeTaken ==
  \A j \in Jobs : stage[j] = "awaiting_detach" /\ scenario[j] # "add_mirror" => old[j]
=============================================================================
