------------------------------ MODULE PoolJobs ------------------------------
(***************************************************************************)
(* The jobs of one ZFS pool (server/zfs_admin.py): a scrub, a replace or   *)
(* an attach is a command on the node and a row in zfs_jobs that stays     *)
(* "running" until a watcher has seen the pool's scan through.  The pool   *)
(* has one scan, and one watcher whatever the number of rows; requests on  *)
(* it hold a lock.  The scan is the kernel's: it registers after the       *)
(* command that starts it, or not at all, outlives the server, and keeps   *)
(* the state it ended with until the next one begins.                      *)
(***************************************************************************)
EXTENDS Naturals

CONSTANTS
  Jobs,
  NoJob,
  MissLimit,    \* readings in a row that may fail (30 in the code)
  MaxRestarts,  \* bound
  MaxFaults     \* bound: statements refused, connections lost, pools exported

ASSUME PoolAssumption ==
  /\ NoJob \notin Jobs /\ MissLimit \in Nat \ {0}
  /\ MaxRestarts \in Nat /\ MaxFaults \in Nat

VARIABLES
  row,       \* status of the job's row, "none" before it is created
  watch,     \* _watch_scan of the job: where it is
  verdict,   \* the status that watcher is about to write
  started,   \* jobs whose watcher has seen the scan run
  misses,    \* readings that failed in a row, per watcher
  watcher,   \* _WATCHERS: the job whose watcher has the pool
  req,       \* the request that holds the lock
  swept,     \* mark_orphans_on_startup is through
  scan,      \* what zpool status says of the pool's scan
  accepted,  \* a command was taken and its scan has not registered yet
  ran,       \* history: jobs whose row was there while a scan ran
  unwatched, \* history: jobs that got no watcher, the pool having one
  lost,      \* history: jobs whose last update the database refused
  restarts, faults

server  == <<watch, verdict, started, misses, watcher, req, swept>>
pool    == <<scan, accepted>>
history == <<ran, unwatched, lost>>
vars == <<row, server, pool, history, restarts, faults>>

Statuses == {"none", "running", "done", "warning", "failed", "paused", "canceled", "orphaned"}
\* over: the task has ended, its done-callback has not run.
Stages   == {"none", "polling", "finishing", "retrying", "over"}
Scans    == {"none", "running", "paused", "finished", "canceled", "gone"}

Idle == [stage |-> "idle", job |-> NoJob, kind |-> "scrub"]

\* One fault more: the statement that would have been executed is refused, say.
Fault == faults < MaxFaults /\ faults' = faults + 1

\* The jobs whose rows are there while a scan runs.
Witnesses(s, rows) == IF s = "running" THEN {j \in Jobs : rows[j] # "none"} ELSE {}

-----------------------------------------------------------------------------
(* scrub_handler, replace_handler and device_handler's attach, which is like a
   scrub.  The pre-flights only refuse, and force gets past those on the scan. *)

\* A replace has its row before the command, the others after it.
Ask(j, kind) ==
  /\ req.stage = "idle" /\ row[j] = "none"
  /\ req' = [stage |-> IF kind = "replace" THEN "row" ELSE "command", job |-> j, kind |-> kind]
  /\ UNCHANGED <<row, watch, verdict, started, misses, watcher, swept, pool, history, restarts, faults>>

CreateRow ==
  /\ req.stage = "row"
  /\ row' = [row EXCEPT ![req.job] = "running"]
  /\ req' = [req EXCEPT !.stage = IF req.kind = "replace" THEN "command" ELSE "spawn"]
  /\ ran' = ran \cup Witnesses(scan, row')
  /\ UNCHANGED <<watch, verdict, started, misses, watcher, swept, pool, unwatched, lost, restarts, faults>>

\* The command may have been taken, and the request has no row to show for it.
CreateRefused ==
  /\ req.stage = "row" /\ Fault /\ req' = Idle
  /\ UNCHANGED <<row, watch, verdict, started, misses, watcher, swept, pool, history, restarts>>

Command ==
  /\ req.stage = "command" /\ scan # "gone"
  /\ accepted' = TRUE
  /\ req' = [req EXCEPT !.stage = IF req.kind = "replace" THEN "spawn" ELSE "row"]
  /\ UNCHANGED <<row, watch, verdict, started, misses, watcher, swept, scan, history, restarts, faults>>

\* ZFS refuses it, or the connection is lost when it has been taken.
CommandFails ==
  /\ req.stage = "command"
  /\ \/ UNCHANGED <<accepted, faults>>
     \/ scan # "gone" /\ accepted' = TRUE /\ Fault
  /\ req' = IF req.kind = "replace" THEN [req EXCEPT !.stage = "fail"] ELSE Idle
  /\ UNCHANGED <<row, watch, verdict, started, misses, watcher, swept, scan, history, restarts>>

FailRow ==
  /\ req.stage = "fail" /\ req' = Idle
  /\ row' = [row EXCEPT ![req.job] = "failed"]
  /\ UNCHANGED <<watch, verdict, started, misses, watcher, swept, pool, history, restarts, faults>>

FailRefused ==
  /\ req.stage = "fail" /\ Fault /\ req' = Idle
  /\ lost' = lost \cup {req.job}
  /\ UNCHANGED <<row, watch, verdict, started, misses, watcher, swept, pool, ran, unwatched, restarts>>

\* A task that is over counts as none, its callback run or not.
HasWatcher == watcher # NoJob /\ watch[watcher] # "over"

SpawnWatch ==
  /\ req.stage = "spawn" /\ req' = Idle
  /\ IF HasWatcher
     THEN /\ unwatched' = unwatched \cup {req.job}
          /\ UNCHANGED <<watch, watcher>>
     ELSE /\ watcher' = req.job
          /\ watch' = [watch EXCEPT ![req.job] = "polling"]
          /\ UNCHANGED unwatched
  /\ UNCHANGED <<row, verdict, started, misses, swept, pool, ran, lost, restarts, faults>>

\* zpool scrub -s and -p; the lock keeps them out of a request under way.
StopOrPause ==
  /\ req.stage = "idle"
  /\ \/ scan \in {"running", "paused"} /\ scan' = "canceled"
     \/ scan = "running" /\ scan' = "paused"
  /\ UNCHANGED <<row, server, accepted, history, restarts, faults>>

-----------------------------------------------------------------------------
(* The pool, as zpool status shows it.                                     *)

Register ==
  /\ accepted /\ scan # "gone"
  /\ accepted' = FALSE /\ scan' = "running"
  /\ ran' = ran \cup Witnesses(scan', row)
  /\ UNCHANGED <<row, server, unwatched, lost, restarts, faults>>

\* A device that needs no resilver: the last scan stays on show.
NothingToScan ==
  /\ accepted /\ accepted' = FALSE
  /\ UNCHANGED <<row, server, scan, history, restarts, faults>>

ScanEnds ==
  /\ scan = "running" /\ scan' \in {"finished", "none"}
  /\ UNCHANGED <<row, server, accepted, history, restarts, faults>>

Export ==
  /\ scan # "gone" /\ Fault /\ scan' = "gone"
  /\ UNCHANGED <<row, server, accepted, history, restarts>>

Import ==
  /\ scan = "gone" /\ scan' \in {"none", "finished", "running"}
  /\ ran' = ran \cup Witnesses(scan', row)
  /\ UNCHANGED <<row, server, accepted, unwatched, lost, restarts, faults>>

-----------------------------------------------------------------------------
(* _watch_scan.                                                            *)

\* What a reading makes of the job; {} when the watch goes on.
Verdicts(j) ==
  CASE scan = "gone"     -> {"failed"}
    [] scan = "paused"   -> {"paused"}
    [] scan = "canceled" -> {"canceled"}
    [] scan = "finished" /\ j \in started -> {"done", "warning"}
    [] scan = "none"     /\ j \in started -> {"done"}
    [] OTHER             -> {}

\* Variant: a scan that has finished is taken for the job's own.
PollEarly_Mutant(j) ==
  /\ watch[j] = "polling"
  /\ misses' = [misses EXCEPT ![j] = 0]
  /\ started' = started \cup {j}
  /\ IF Verdicts(j) = {} /\ scan # "finished"
     THEN UNCHANGED <<watch, verdict>>
     ELSE /\ watch' = [watch EXCEPT ![j] = "finishing"]
          /\ \E v \in (IF scan = "finished" THEN {"done", "warning"} ELSE Verdicts(j)) :
                verdict' = [verdict EXCEPT ![j] = v]
  /\ UNCHANGED <<row, watcher, req, swept, pool, history, restarts, faults>>

\* Variant: a scan that has disappeared is waited for.
PollVanished_Mutant(j) ==
  /\ watch[j] = "polling"
  /\ misses' = [misses EXCEPT ![j] = 0]
  /\ started' = IF scan \in {"running", "paused"} THEN started \cup {j} ELSE started
  /\ IF Verdicts(j) = {} \/ scan = "none"
     THEN UNCHANGED <<watch, verdict>>
     ELSE /\ watch' = [watch EXCEPT ![j] = "finishing"]
          /\ \E v \in Verdicts(j) : verdict' = [verdict EXCEPT ![j] = v]
  /\ UNCHANGED <<row, watcher, req, swept, pool, history, restarts, faults>>

\* Neither a scan that finished nor one that is not there is taken for the job's own
\* before the watcher has seen one run.
Poll(j) ==
  /\ watch[j] = "polling"
  /\ misses' = [misses EXCEPT ![j] = 0]
  /\ started' = IF scan \in {"running", "paused"} THEN started \cup {j} ELSE started
  /\ IF Verdicts(j) = {}
     THEN UNCHANGED <<watch, verdict>>
     ELSE /\ watch' = [watch EXCEPT ![j] = "finishing"]
          /\ \E v \in Verdicts(j) : verdict' = [verdict EXCEPT ![j] = v]
  /\ UNCHANGED <<row, watcher, req, swept, pool, history, restarts, faults>>

\* Variant: one failure too many is let pass.
PollFails_Mutant(j) ==
  /\ watch[j] = "polling"
  /\ misses' = [misses EXCEPT ![j] = @ + 1]
  /\ IF misses'[j] <= MissLimit
     THEN UNCHANGED <<watch, verdict>>
     ELSE /\ watch' = [watch EXCEPT ![j] = "finishing"]
          /\ verdict' = [verdict EXCEPT ![j] = "warning"]
  /\ UNCHANGED <<row, started, watcher, req, swept, pool, history, restarts, faults>>

\* The node cannot be read, or zpool status knows no such pool and says so.
PollFails(j) ==
  /\ watch[j] = "polling"
  /\ misses' = [misses EXCEPT ![j] = @ + 1]
  /\ IF misses'[j] < MissLimit
     THEN UNCHANGED <<watch, verdict>>
     ELSE /\ watch' = [watch EXCEPT ![j] = "finishing"]
          /\ verdict' = [verdict EXCEPT ![j] = "warning"]
  /\ UNCHANGED <<row, started, watcher, req, swept, pool, history, restarts, faults>>

\* Fourteen days are over.
Overdue(j) ==
  /\ watch[j] = "polling"
  /\ watch' = [watch EXCEPT ![j] = "finishing"]
  /\ verdict' = [verdict EXCEPT ![j] = "warning"]
  /\ UNCHANGED <<row, started, misses, watcher, req, swept, pool, history, restarts, faults>>

\* The task ends, and its locals with it.
Over(j) ==
  /\ watch'   = [watch EXCEPT ![j] = "over"]
  /\ verdict' = [verdict EXCEPT ![j] = "warning"]
  /\ started' = started \ {j}
  /\ misses'  = [misses EXCEPT ![j] = 0]

Finish(j) ==
  /\ watch[j] \in {"finishing", "retrying"}
  /\ row' = [row EXCEPT ![j] = verdict[j]]
  /\ Over(j)
  /\ UNCHANGED <<watcher, req, swept, pool, history, restarts, faults>>

\* Variant: the update is not tried again.
FinishRefused_Mutant(j) ==
  /\ watch[j] = "finishing" /\ Fault /\ Over(j)
  /\ UNCHANGED <<row, watcher, req, swept, pool, history, restarts>>

\* The handler of the exception writes "warning"; that failing, the row is left.
FinishRefused(j) ==
  /\ Fault
  /\ \/ /\ watch[j] = "finishing"
        /\ watch' = [watch EXCEPT ![j] = "retrying"]
        /\ verdict' = [verdict EXCEPT ![j] = "warning"]
        /\ UNCHANGED <<started, misses, lost>>
     \/ /\ watch[j] = "retrying" /\ Over(j)
        /\ lost' = lost \cup {j}
  /\ UNCHANGED <<row, watcher, req, swept, pool, ran, unwatched, restarts>>

\* Variant: the callback empties the place, whoever has it.
Cleanup_Mutant(j) ==
  /\ watch[j] = "over"
  /\ watch' = [watch EXCEPT ![j] = "none"]
  /\ watcher' = NoJob
  /\ UNCHANGED <<row, verdict, started, misses, req, swept, pool, history, restarts, faults>>

Cleanup(j) ==
  /\ watch[j] = "over"
  /\ watch' = [watch EXCEPT ![j] = "none"]
  /\ watcher' = IF watcher = j THEN NoJob ELSE watcher
  /\ UNCHANGED <<row, verdict, started, misses, req, swept, pool, history, restarts, faults>>

-----------------------------------------------------------------------------
(* Restart, and mark_orphans_on_startup, which requests may overtake.      *)

Restart ==
  /\ restarts < MaxRestarts /\ restarts' = restarts + 1
  /\ watch' = [j \in Jobs |-> "none"] /\ verdict' = [j \in Jobs |-> "warning"]
  /\ started' = {} /\ misses' = [j \in Jobs |-> 0]
  /\ watcher' = NoJob /\ req' = Idle /\ swept' = FALSE
  /\ UNCHANGED <<row, pool, history, faults>>

Sweep ==
  /\ ~swept /\ swept' = TRUE
  /\ row' = [j \in Jobs |-> IF row[j] = "running" THEN "orphaned" ELSE row[j]]
  /\ UNCHANGED <<watch, verdict, started, misses, watcher, req, pool, history, restarts, faults>>

SweepRefused ==
  /\ ~swept /\ Fault /\ swept' = TRUE
  /\ lost' = lost \cup {j \in Jobs : row[j] = "running"}
  /\ UNCHANGED <<row, watch, verdict, started, misses, watcher, req, pool, ran, unwatched, restarts>>

-----------------------------------------------------------------------------
\* The scan on show is the last one, of whatever time.
Init ==
  /\ row = [j \in Jobs |-> "none"] /\ watch = [j \in Jobs |-> "none"]
  /\ verdict = [j \in Jobs |-> "warning"] /\ started = {}
  /\ misses = [j \in Jobs |-> 0] /\ watcher = NoJob /\ req = Idle /\ swept = FALSE
  /\ scan \in {"none", "finished", "canceled"} /\ accepted = FALSE
  /\ ran = {} /\ unwatched = {} /\ lost = {} /\ restarts = 0 /\ faults = 0

Request == CreateRow \/ CreateRefused \/ Command \/ CommandFails \/ FailRow \/ FailRefused
             \/ SpawnWatch
Reading(j) == Poll(j) \/ PollFails(j)
Ending(j)  == Finish(j) \/ FinishRefused(j) \/ Cleanup(j)

Next ==
  \/ \E j \in Jobs, kind \in {"scrub", "replace"} : Ask(j, kind)
  \/ Request \/ StopOrPause
  \/ Register \/ NothingToScan \/ ScanEnds \/ Export \/ Import
  \/ \E j \in Jobs : Reading(j) \/ Overdue(j) \/ Ending(j)
  \/ Restart \/ Sweep \/ SweepRefused

Spec == Init /\ [][Next]_vars

\* Requests and watchers run, a scan ends, and nothing rests on the fourteen days.
FairSpec ==
  /\ Spec
  /\ WF_vars(Request) /\ WF_vars(ScanEnds) /\ WF_vars(Sweep \/ SweepRefused)
  /\ \A j \in Jobs : WF_vars(Reading(j)) /\ WF_vars(Ending(j))

-----------------------------------------------------------------------------
(* Types of the state; a request past its first step has a job. *)
TypeOK ==
  /\ row \in [Jobs -> Statuses] /\ watch \in [Jobs -> Stages]
  /\ verdict \in [Jobs -> Statuses \ {"none", "running", "orphaned"}]
  /\ started \subseteq Jobs /\ misses \in [Jobs -> 0..MissLimit]
  /\ watcher \in Jobs \cup {NoJob} /\ swept \in BOOLEAN
  /\ req \in [stage : {"idle", "row", "command", "fail", "spawn"},
              job : Jobs \cup {NoJob}, kind : {"scrub", "replace"}]
  /\ req.stage # "idle" => req.job \in Jobs
  /\ scan \in Scans /\ accepted \in BOOLEAN
  /\ ran \subseteq Jobs /\ unwatched \subseteq Jobs /\ lost \subseteq Jobs
  /\ restarts \in 0..MaxRestarts /\ faults \in 0..MaxFaults

Watching(j) == watch[j] \in {"polling", "finishing", "retrying"}

(* "One watcher per (cluster, node, pool)": whoever watches has the pool's place, so
   that no other finds it free, also where a new watcher takes the place of one that
   is over before the callback of the old one runs (_spawn_watch, _cleanup). *)
OneWatcher == \A j \in Jobs : Watching(j) => watcher = j

(* A row that says running is in the hands of its request, of its watcher or of the
   sweep to come, through any one refusal of the database; excepted are the jobs that
   got no watcher, and those whose last update was refused (_watch_scan,
   mark_orphans_on_startup). *)
RunningIsHeld ==
  \A j \in Jobs : row[j] = "running" =>
     Watching(j) \/ req.job = j \/ ~swept \/ j \in unwatched \cup lost

(* A row says done only when a scan has run in its time, never for a scan that ended
   before it, whatever the pool showed when the watcher first looked (_watch_scan). *)
DoneMeansRan == \A j \in Jobs : row[j] = "done" => j \in ran

(* A watcher that has seen the scan run comes to its end without the fourteen days,
   through scans that are stopped, paused or disappear, pools exported and nodes that
   cannot be read (_watch_scan). *)
SeenIsClosed ==
  \A j \in Jobs : (watch[j] = "polling" /\ j \in started) ~> (watch[j] # "polling")

(* "Only trust a terminal state once we have seen the scan actually run at least
   once": a row says canceled only when a scan has run in its time. *)
CanceledMeansRan == \A j \in Jobs : row[j] = "canceled" => j \in ran

(* "Poll a resilver/scrub to completion so the job row reflects reality": every row
   that says running, RunningIsHeld without its first exception. *)
RunningIsWatched ==
  \A j \in Jobs : row[j] = "running" =>
     Watching(j) \/ req.job = j \/ ~swept \/ j \in lost

(* The same in time: where the pool shows a scan that has finished, and none to come,
   the watcher of a job ends without the fourteen days. *)
FinishedIsClosed ==
  \A j \in Jobs : (watch[j] = "polling" /\ scan = "finished" /\ ~accepted)
                    ~> (watch[j] # "polling" \/ scan # "finished" \/ accepted)
=============================================================================
