----------------------------- MODULE ExportJobs -----------------------------
(***************************************************************************)
(* Export jobs (server/vm_export.py): a guest is converted on its node by  *)
(* a script over SSH, into a work directory of the job's own.  The row in  *)
(* export_jobs is all the browser sees.  Three parties write it and touch  *)
(* the directory: the background task that runs the conversion, delete     *)
(* requests, and the reaper, which purges outputs 24 h after the end.      *)
(* Each reads the row, awaits SSH or the database, and then writes, and    *)
(* none locks.  A restart kills them all; a sweep at the next start fails  *)
(* what was under way.                                                     *)
(***************************************************************************)
EXTENDS Naturals, FiniteSets

CONSTANTS
  Jobs,
  Deletes,      \* bound: delete requests under way at the same time
  NoJob,
  Overtaking,   \* whether a job may be created before the sweep of the start-up
  MaxRestarts,  \* bound
  MaxFaults     \* bound: statements the database refuses

ASSUME ExportAssumption ==
  /\ NoJob \notin Jobs /\ Overtaking \in BOOLEAN
  /\ MaxRestarts \in Nat /\ MaxFaults \in Nat

VARIABLES
  row,      \* status of the job's row, "none" before it is created
  task,     \* where _run_export_job is with the job
  dir,      \* the work directory on the node
  due,      \* jobs whose expires_at has passed
  del,      \* per delete request: what it has decided on the row it read
  reap,     \* the reaper: the rows of its query, the one it is at
  swept,    \* mark_orphans_on_startup is through
  undone,   \* history: jobs deleted, as not yet begun, when they had
  restarts, faults

vars == <<row, task, dir, due, del, reap, swept, undone, restarts, faults>>

Statuses == {"none", "pending", "running", "done", "failed", "expired", "deleted"}
\* queued: created, not yet run; starting: the row says running; converting: the
\* script runs; collected: its outputs are listed; broken: an exception.
Tasks    == {"none", "queued", "starting", "converting", "collected", "broken"}

NoRequest == [stage |-> "idle", job |-> NoJob, read |-> "none"]
Resting   == [stage |-> "rest", job |-> NoJob, todo |-> {}]

\* The statement that would have been executed is refused.
Refused == faults < MaxFaults /\ faults' = faults + 1

-----------------------------------------------------------------------------
(* job_create_handler and _run_export_job.                                 *)

\* The insert and create_task; the checks before them read no state of ours.
Create(j) ==
  /\ row[j] = "none" /\ (swept \/ Overtaking)
  /\ row'  = [row EXCEPT ![j] = "pending"]
  /\ task' = [task EXCEPT ![j] = "queued"]
  /\ UNCHANGED <<dir, due, del, reap, swept, undone, restarts, faults>>

\* The task writes its row, whatever the row has become since.
Begin(j) ==
  /\ task[j] = "queued"
  /\ row'  = [row EXCEPT ![j] = "running"]
  /\ task' = [task EXCEPT ![j] = "starting"]
  /\ UNCHANGED <<dir, due, del, reap, swept, undone, restarts, faults>>

\* The cluster is gone from the configuration.
BeginFails(j) ==
  /\ task[j] = "queued"
  /\ row'  = [row EXCEPT ![j] = "failed"]
  /\ task' = [task EXCEPT ![j] = "none"]
  /\ UNCHANGED <<dir, due, del, reap, swept, undone, restarts, faults>>

\* mkdir -p, and the script starts.
Convert(j) ==
  /\ task[j] = "starting"
  /\ task' = [task EXCEPT ![j] = "converting"]
  /\ dir'  = [dir EXCEPT ![j] = "partial"]
  /\ UNCHANGED <<row, due, del, reap, swept, undone, restarts, faults>>

\* The script ends well and its outputs are listed: those that are there.
Collect(j) ==
  /\ task[j] = "converting"
  /\ task' = [task EXCEPT ![j] = "collected"]
  /\ dir'  = [dir EXCEPT ![j] = IF @ = "partial" THEN "whole" ELSE @]
  /\ UNCHANGED <<row, due, del, reap, swept, undone, restarts, faults>>

\* No connection, a script that fails, or the limit of six hours.
Break(j) ==
  /\ task[j] \in {"starting", "converting"}
  /\ task' = [task EXCEPT ![j] = "broken"]
  /\ UNCHANGED <<row, dir, due, del, reap, swept, undone, restarts, faults>>

\* The last update; expires_at is set with "done" only.
Finish(j) ==
  /\ task[j] \in {"collected", "broken"}
  /\ row'  = [row EXCEPT ![j] = IF task[j] = "collected" THEN "done" ELSE "failed"]
  /\ task' = [task EXCEPT ![j] = "none"]
  /\ UNCHANGED <<dir, due, del, reap, swept, undone, restarts, faults>>

\* An update of the task's is refused: inside the try it is an exception like any
\* other, outside it the task ends and leaves the row as it is.
UpdateRefused(j) ==
  /\ task[j] \in {"queued", "collected", "broken"} /\ Refused
  /\ task' = [task EXCEPT ![j] = IF @ = "collected" THEN "broken" ELSE "none"]
  /\ UNCHANGED <<row, dir, due, del, reap, swept, undone, restarts>>

-----------------------------------------------------------------------------
(* job_delete_handler.                                                     *)

\* Variant: a job that is being converted is purged like any other.
DeleteRead_Mutant(d, j) ==
  /\ del[d].stage = "idle" /\ row[j] # "none"
  /\ del' = [del EXCEPT ![d] = [job |-> j, read |-> row[j],
                                stage |-> IF row[j] \in {"done", "failed", "running"} THEN "purge" ELSE "mark"]]
  /\ UNCHANGED <<row, task, dir, due, reap, swept, undone, restarts, faults>>

\* Refused while the row says running; what has ended is purged first.
DeleteRead(d, j) ==
  /\ del[d].stage = "idle" /\ row[j] \notin {"none", "running"}
  /\ del' = [del EXCEPT ![d] = [job |-> j, read |-> row[j],
                                stage |-> IF row[j] \in {"done", "failed"} THEN "purge" ELSE "mark"]]
  /\ UNCHANGED <<row, task, dir, due, reap, swept, undone, restarts, faults>>

DeletePurge(d) ==
  /\ del[d].stage = "purge"
  /\ dir' = [dir EXCEPT ![del[d].job] = "absent"]
  /\ del' = [del EXCEPT ![d].stage = "mark"]
  /\ UNCHANGED <<row, task, due, reap, swept, undone, restarts, faults>>

\* The node cannot be reached (502), or the update is refused (500).
DeleteFails(d) ==
  /\ \/ del[d].stage = "purge" /\ UNCHANGED faults
     \/ del[d].stage = "mark" /\ Refused
  /\ del' = [del EXCEPT ![d] = NoRequest]
  /\ UNCHANGED <<row, task, dir, due, reap, swept, undone, restarts>>

\* The delete was decided on a row that said pending, and the job has gone on since.
HasGoneOn(d) == /\ del[d].read = "pending"
                /\ (task[del[d].job] # "none" \/ dir[del[d].job] # "absent")

DeleteMark(d) ==
  /\ del[d].stage = "mark"
  /\ row' = [row EXCEPT ![del[d].job] = "deleted"]
  /\ undone' = IF HasGoneOn(d) THEN undone \cup {del[d].job} ELSE undone
  /\ del' = [del EXCEPT ![d] = NoRequest]
  /\ UNCHANGED <<task, dir, due, reap, swept, restarts, faults>>

-----------------------------------------------------------------------------
(* retention_reaper.                                                       *)

\* 24 h after the job was done: expires_at is set with that status.
Expire(j) ==
  /\ row[j] = "done" /\ j \notin due
  /\ due' = due \cup {j}
  /\ UNCHANGED <<row, task, dir, del, reap, swept, undone, restarts, faults>>

ReapQuery ==
  /\ swept /\ reap.stage = "rest"
  /\ \E j \in Jobs : row[j] = "done" /\ j \in due
  /\ reap' = [reap EXCEPT !.stage = "next", !.todo = {j \in Jobs : row[j] = "done" /\ j \in due}]
  /\ UNCHANGED <<row, task, dir, due, del, swept, undone, restarts, faults>>

ReapRest ==
  /\ reap.stage = "next" /\ reap.todo = {} /\ reap' = Resting
  /\ UNCHANGED <<row, task, dir, due, del, swept, undone, restarts, faults>>

ReapPurge(j) ==
  /\ reap.stage = "next" /\ j \in reap.todo
  /\ dir' = [dir EXCEPT ![j] = "absent"]
  /\ reap' = [stage |-> "mark", job |-> j, todo |-> reap.todo \ {j}]
  /\ UNCHANGED <<row, task, due, del, swept, undone, restarts, faults>>

\* Variant: the row is marked whether or not the node was reached.
ReapFails_Mutant ==
  /\ reap.stage = "next"
  /\ \E j \in reap.todo : /\ reap' = [stage |-> "mark", job |-> j, todo |-> reap.todo \ {j}]
                          /\ UNCHANGED faults
  /\ UNCHANGED <<row, task, dir, due, del, swept, undone, restarts>>

\* The node cannot be reached, or the update is refused: the next cycle tries again.
ReapFails ==
  /\ \/ reap.stage = "next" /\ UNCHANGED faults
        /\ \E j \in reap.todo : reap' = [reap EXCEPT !.todo = @ \ {j}]
     \/ reap.stage = "mark" /\ Refused /\ reap' = [reap EXCEPT !.stage = "next", !.job = NoJob]
  /\ UNCHANGED <<row, task, dir, due, del, swept, undone, restarts>>

ReapMark ==
  /\ reap.stage = "mark"
  /\ row' = [row EXCEPT ![reap.job] = "expired"]
  /\ reap' = [reap EXCEPT !.stage = "next", !.job = NoJob]
  /\ UNCHANGED <<task, dir, due, del, swept, undone, restarts, faults>>

-----------------------------------------------------------------------------
(* The daemon restarts; the SSH sessions, and the scripts in them, end.    *)

Restart ==
  /\ restarts < MaxRestarts /\ restarts' = restarts + 1
  /\ task' = [j \in Jobs |-> "none"]
  /\ del' = [d \in Deletes |-> NoRequest]
  /\ reap' = Resting /\ swept' = FALSE
  /\ UNCHANGED <<row, dir, due, undone, faults>>

\* mark_orphans_on_startup, after which the reaper starts.
Sweep ==
  /\ ~swept /\ swept' = TRUE
  /\ row' = [j \in Jobs |-> IF row[j] \in {"pending", "running"} THEN "failed" ELSE row[j]]
  /\ UNCHANGED <<task, dir, due, del, reap, undone, restarts, faults>>

\* Variant: the sweep lets its exception out, and the reaper behind it never starts.
SweepRefused_Mutant ==
  /\ ~swept /\ Refused /\ swept' = TRUE
  /\ reap' = [Resting EXCEPT !.stage = "never"]
  /\ UNCHANGED <<row, task, dir, due, del, undone, restarts>>

SweepRefused ==
  /\ ~swept /\ Refused /\ swept' = TRUE
  /\ UNCHANGED <<row, task, dir, due, del, reap, undone, restarts>>

-----------------------------------------------------------------------------
Init ==
  /\ row = [j \in Jobs |-> "none"] /\ task = [j \in Jobs |-> "none"]
  /\ dir = [j \in Jobs |-> "absent"] /\ due = {}
  /\ del = [d \in Deletes |-> NoRequest] /\ reap = Resting
  /\ swept = FALSE /\ undone = {} /\ restarts = 0 /\ faults = 0

Conversion(j) == Begin(j) \/ BeginFails(j) \/ Convert(j) \/ Collect(j) \/ Break(j)
                   \/ Finish(j) \/ UpdateRefused(j)
DeleteGoesOn(d) == DeletePurge(d) \/ DeleteFails(d) \/ DeleteMark(d)
Reaper == \/ ReapQuery \/ ReapRest \/ ReapFails \/ ReapMark
          \/ \E j \in Jobs : ReapPurge(j)

Next ==
  \/ \E j \in Jobs : Create(j) \/ Conversion(j) \/ Expire(j)
  \/ \E d \in Deletes : DeleteGoesOn(d) \/ \E j \in Jobs : DeleteRead(d, j)
  \/ Reaper
  \/ Restart \/ Sweep \/ SweepRefused

Spec == Init /\ [][Next]_vars

\* Tasks, requests and the reaper run, time passes, and a node that the reaper
\* tries again and again is reached at last.
FairSpec ==
  /\ Spec
  /\ WF_vars(Sweep \/ SweepRefused) /\ WF_vars(Reaper)
  /\ \A j \in Jobs : /\ WF_vars(Conversion(j)) /\ WF_vars(Expire(j))
                     /\ SF_vars(ReapPurge(j))
  /\ \A d \in Deletes : WF_vars(DeleteGoesOn(d))

-----------------------------------------------------------------------------
RequestTypes == [stage : {"idle", "purge", "mark"}, job : Jobs \cup {NoJob}, read : Statuses]
ReaperTypes  == [stage : {"rest", "next", "mark"}, job : Jobs \cup {NoJob}, todo : SUBSET Jobs]

(* Types of the state; whoever is past its first await has a job. *)
TypeOK ==
  /\ row \in [Jobs -> Statuses] /\ task \in [Jobs -> Tasks]
  /\ dir \in [Jobs -> {"absent", "partial", "whole"}]
  /\ due \subseteq Jobs /\ undone \subseteq Jobs /\ swept \in BOOLEAN
  /\ del \in [Deletes -> RequestTypes] /\ reap \in ReaperTypes
  /\ \A d \in Deletes : del[d].stage # "idle" => del[d].job \in Jobs
  /\ reap.stage = "mark" => reap.job \in Jobs
  /\ restarts \in 0..MaxRestarts /\ faults \in 0..MaxFaults

Purging(j) == \/ \E d \in Deletes : del[d].stage = "purge" /\ del[d].job = j
              \/ j \in reap.todo

(* No directory is removed, by a delete or by the reaper, that a conversion may be
   writing to or listing: the decision to purge is taken on a row read before the
   connection to the node is made, and must still be right after it
   (job_delete_handler, retention_reaper, mark_orphans_on_startup). *)
PurgeOnlySettled == \A j \in Jobs : Purging(j) => task[j] = "none"

\* A row with this status has its directory removed by a delete or by the reaper.
Kept == {"pending", "running", "done", "failed"}

(* What is on a node belongs to a job that will have it removed, through crashes
   between any two steps and purges that fail; excepted are the jobs whose row a
   delete called deleted while they went on. *)
OutputsTracked ==
  \A j \in Jobs \ undone : dir[j] # "absent" => row[j] \in Kept

(* "DELETE: purge outputs now": the same of every job whose task is over. *)
NothingLeftBehind ==
  \A j \in Jobs : dir[j] # "absent" /\ task[j] = "none" => row[j] \in Kept

(* "a background reaper deletes outputs 24 h after completion": what is done is
   purged in the end, through purges that fail, updates that are refused and
   restarts. *)
DoneIsPurged == \A j \in Jobs : (row[j] = "done" /\ j \notin undone)
                                  ~> (dir[j] = "absent" \/ j \in undone)
=============================================================================
